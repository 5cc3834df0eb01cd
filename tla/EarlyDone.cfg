SPECIFICATION Spec
CONSTANTS
  w1 = w1
  w2 = w2
  None = None
  Worker <- TwoWorkers
  Job <- CaptureJob
  Run = {1}
  Provider = {"lichess"}
  Workspace = {"ws"}
  Paced = {}
  RunOf <- CaptureRunOf
  WorkspaceOf <- CaptureWorkspace
  ProviderOf <- CaptureProvider
  KindOf <- CaptureKind
  ParentOf <- CaptureParent
  Root = {"crawl"}
  Cancellable = {}
  Outcome = {"done"}
  MaxActive = 2
  MaxRetries = 0
  MaxClaims = 1
  MaxLosses = 0
INVARIANTS
  FinishedRunIsQuiet
