SPECIFICATION Spec
CONSTANTS
  w1 = w1
  w2 = w2
  None = None
  Worker <- TwoWorkers
  Job <- RivalJob
  Run = {1, 2}
  Provider = {"lichess"}
  Workspace = {"ws1", "ws2"}
  Paced = {}
  RunOf <- RivalRunOf
  WorkspaceOf <- RivalTwoWorkspaces
  ProviderOf <- RivalOneProvider
  KindOf <- RivalKind
  ParentOf <- RivalParent
  Root = {"a", "b"}
  Cancellable = {}
  Outcome = {"done", "blocked"}
  MaxActive = 1
  MaxRetries = 0
  MaxClaims = 2
  MaxLosses = 2
SYMMETRY WorkerSymmetry
INVARIANTS
  OwnerKeepsJob
  ProviderSerial
PROPERTIES
  ImplementsLedger
