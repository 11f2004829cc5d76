CONSTANTS
  None = None
  Env <- MCGameEnv
  Preference <- MCGame
  FinalVm <- MCFinalVm
  KernelApp = FALSE
  Exe <- MCExe
  BuiltIn = {"iexplore"}
  Payload = {"app", "unins"}
  DisplayIcon = {}
  Refused = {}
  Score <- MCScore
  Source = "setup"
  Component <- MCComponent
  PlanComponents = {}
  ComponentExes <- MCComponentExes
  Categories = {"missing-vc-runtime", "unknown"}
  PlanGraphics = "dxvk"
  Attempts = 2
  MaxRuns = 2
SPECIFICATION FairSpec
INVARIANTS
  EscalationSticks
PROPERTY InstallTerminates
\* after MaxRuns invocations nothing is left to do
CHECK_DEADLOCK FALSE
