SPECIFICATION Spec
CONSTANTS
  w1 = w1
  w2 = w2
  None = None
  Worker <- TwoWorkers
  Job <- CrawlJob
  Run = {1}
  Provider = {"lichess"}
  Workspace = {"ws"}
  Paced = {}
  RunOf <- CrawlRunOf
  WorkspaceOf <- CrawlWorkspace
  ProviderOf <- CrawlProvider
  KindOf <- CrawlKind
  ParentOf <- CrawlParent
  Root = {"crawl"}
  Cancellable = {}
  Outcome = {"done", "error", "pending"}
  MaxActive = 2
  MaxRetries = 0
  MaxClaims = 2
  MaxLosses = 2
SYMMETRY WorkerSymmetry
VIEW WithoutEvidence
INVARIANTS
  ExecutingRunIsRunning
  SettledRunStatus
  ExpansionAfterParent
