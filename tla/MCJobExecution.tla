-------------------------- MODULE MCJobExecution --------------------------
(* Small instances of JobExecution for TLC.                                *)
EXTENDS JobExecution, TLC

CONSTANTS w1, w2

TwoWorkers == {w1, w2}
WorkerSymmetry == Permutations(TwoWorkers)

(* Everything but wrote: no guard reads it, and of the properties only the *)
(* ledger is about it.                                                     *)
WithoutEvidence == <<row, status, cooldown, locks, proc, losses>>

(* One crawl: a bounded acquisition, the normalization of its capture and  *)
(* the expansion of its frontier.                                          *)
CrawlJob       == {"crawl", "normalize", "expand"}
CrawlRunOf     == [j \in CrawlJob |-> 1]
CrawlWorkspace == [j \in CrawlJob |-> "ws"]
CrawlProvider  == [j \in CrawlJob |-> "lichess"]
CrawlKind      == "crawl" :> "bounded" @@ "normalize" :> "normalize" @@ "expand" :> "expand"
CrawlParent    == "crawl" :> None @@ "normalize" :> "crawl" @@ "expand" :> "crawl"

(* A capture and its normalization.                                        *)
CaptureJob       == {"crawl", "normalize"}
CaptureRunOf     == [j \in CaptureJob |-> 1]
CaptureWorkspace == [j \in CaptureJob |-> "ws"]
CaptureProvider  == [j \in CaptureJob |-> "lichess"]
CaptureKind      == "crawl" :> "bounded" @@ "normalize" :> "normalize"
CaptureParent    == "crawl" :> None @@ "normalize" :> "crawl"

(* Two runs with a job each, in one workspace or in two, of one provider   *)
(* or of two.                                                              *)
RivalJob           == {"a", "b"}
RivalRunOf         == "a" :> 1 @@ "b" :> 2
RivalKind          == [j \in RivalJob |-> "collect"]
RivalParent        == [j \in RivalJob |-> None]
RivalOneWorkspace  == [j \in RivalJob |-> "ws1"]
RivalTwoWorkspaces == "a" :> "ws1" @@ "b" :> "ws2"
RivalOneProvider   == [j \in RivalJob |-> "lichess"]
RivalTwoProviders  == "a" :> "lichess" @@ "b" :> "chess.com"

============================================================================
