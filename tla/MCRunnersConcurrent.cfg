CONSTANTS
  None = None
  Process = {p1, p2}
  Wine = {"staging"}
  Umu = {}
  MaxRelease = 1
SPECIFICATION Spec
INVARIANT ActiveIsVerified
