CONSTANTS
  None = None
  Process = {p1, p2}
  Device = {d1,d2}
  Deferred = {d1}
  Shared = {}
  MaxVersion = 3
  MaxBoot = 2
  PowerLoss = FALSE
SPECIFICATION Spec
SYMMETRY MCSymmetry
INVARIANTS
  TypeOK
  FlashInv
  VerifiedIsApplied
PROPERTIES
  NeverResubmitted
  LedgerKept
\* after MaxBoot boots nothing may be left to do
CHECK_DEADLOCK FALSE
