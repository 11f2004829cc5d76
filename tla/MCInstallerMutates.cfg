CONSTANTS
  None = None
  Env <- MCWineEnv
  Preference <- MCWine
  FinalVm <- MCFinalVm
  KernelApp = FALSE
  Exe <- MCExe
  BuiltIn = {"iexplore"}
  Payload = {"app", "unins"}
  DisplayIcon = {}
  Refused = {}
  Score <- MCScore
  Source = "setup"
  Component <- MCComponent
  PlanComponents = {}
  ComponentExes <- MCComponentExes
  Categories = {"windows-version"}
  PlanGraphics = "dxvk"
  Attempts = 2
  MaxRuns = 1
SPECIFICATION Spec
INVARIANT RetryMutates
\* after MaxRuns invocations nothing is left to do
CHECK_DEADLOCK FALSE
