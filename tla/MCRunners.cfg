CONSTANTS
  None = None
  Process = {p1}
  Wine = {"staging"}
  Umu = {"umu"}
  MaxRelease = 3
SPECIFICATION Spec
INVARIANTS
  TypeOK
  ActiveIsVerified
PROPERTY StaysUsable
