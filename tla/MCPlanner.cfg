CONSTANTS
  None = None
  MaxDepth = 1
  MaxResources = 3
  MaxPayload = 3
  MaxImages = 1
  PayloadSize <- MCPayloadSize
  Packages <- MCPackages
  Contexts <- MCContexts
SPECIFICATION Spec
INVARIANTS
  WalkExact
  HardwareNeverRouted
  KernelOnlyVirtualized
  LearningMovesToFront
  ProfileDecides
  NothingUsableDropped
\* planning runs once
CHECK_DEADLOCK FALSE
