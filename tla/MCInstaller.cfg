CONSTANTS
  None = None
  Env <- MCGeneralEnv
  Preference <- MCGeneral
  FinalVm <- MCFinalVm
  KernelApp = FALSE
  Exe <- MCExe
  BuiltIn = {"iexplore"}
  Payload = {"app", "unins"}
  DisplayIcon = {}
  Refused = {}
  Score <- MCScore
  Source = "setup"
  Component <- MCComponent
  PlanComponents = {"dotnet48"}
  ComponentExes <- MCComponentExes
  Categories = {"missing-vc-runtime", "windows-version", "windows-kernel-required",
                "firmware-tool-initialization"}
  PlanGraphics = "dxvk"
  Attempts = 3
  MaxRuns = 2
SPECIFICATION Spec
INVARIANTS
  TypeOK
  NoReinstallOverPayload
  RetryFromCleanState
  RegisteredIntact
  SnapshotBudget
  OneVerdictPerRun
  FunctionalFromSuccess
\* after MaxRuns invocations nothing is left to do
CHECK_DEADLOCK FALSE
