CONSTANTS
  None = None
  Process = {p1}
  Device = {d2}
  Deferred = {}
  Shared = {}
  MaxVersion = 2
  MaxBoot = 1
  PowerLoss = TRUE
SPECIFICATION Spec
INVARIANT IntentPersists
\* after MaxBoot boots nothing may be left to do
CHECK_DEADLOCK FALSE
