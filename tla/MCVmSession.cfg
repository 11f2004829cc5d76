CONSTANTS
  None = None
  Proc = {p}
  App = {app}
  Visible = {app}
  Attempts = 2
  MaxPings = 2
  MaxPolls = 2
  Chunks = 2
  MaxSessions = 2
SPECIFICATION FairSpec
INVARIANTS
  TypeOK
  CellFree
  StagedBeforeRun
  InstallerAlone
  OneSnapshot
  RegisteredLeavesNone
PROPERTIES
  RollbackExact
  SessionEnds
CHECK_DEADLOCK FALSE
