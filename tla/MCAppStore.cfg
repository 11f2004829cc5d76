CONSTANTS
  None = None
  App = {a, b}
  Query = {common}
  Matching <- MCMatching
  Proc = {p, q}
  Legacy = {a, b}
  Unmanaged = {b}
  MaxCommands = 4
SPECIFICATION Spec
INVARIANTS
  TypeOK
  EntryUsable
  LauncherRegistered
  RemoveLeavesNothing
  LegacyPreserved
PROPERTIES
  InstallKeepsOthers
CHECK_DEADLOCK FALSE
