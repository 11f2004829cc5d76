CONSTANTS
  None = None
  Process = {p1, p2}
  Device = {d1, d2}
  Deferred = {d2}
  Shared = {d2}
  MaxVersion = 2
  MaxBoot = 1
  PowerLoss = TRUE
SPECIFICATION FairSpec
INVARIANTS
  AtMostOneInFlight
  IntentCoversRequests
PROPERTIES
  LockReleased
\* after MaxBoot boots nothing may be left to do
CHECK_DEADLOCK FALSE
