SPECIFICATION FairSpec
CONSTANTS
  w1 = w1
  w2 = w2
  None = None
  Worker <- TwoWorkers
  Job <- RivalJob
  Run = {1, 2}
  Provider = {"lichess", "chess.com"}
  Workspace = {"ws1"}
  Paced = {}
  RunOf <- RivalRunOf
  WorkspaceOf <- RivalOneWorkspace
  ProviderOf <- RivalTwoProviders
  KindOf <- RivalKind
  ParentOf <- RivalParent
  Root = {"a", "b"}
  Cancellable = {2}
  Outcome = {"done"}
  MaxActive = 1
  MaxRetries = 0
  MaxClaims = 1
  MaxLosses = 1
PROPERTIES
  EveryJobSettles
