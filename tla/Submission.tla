------------------------------ MODULE Submission ------------------------------
(***************************************************************************)
(* Submitting work: the API's submissions under a client's idempotency key *)
(* (application/services.py, application/archive_jobs.py,                  *)
(* storage/application.py).  A submission is two transactions: the first   *)
(* installs the deployment's policy for the workspace, the second looks    *)
(* the key up under its lock and answers from it, or creates the run with  *)
(* its jobs, admits its budget and records the key.  An answer may be lost *)
(* and a server may die at any point; clients repeat their request.        *)
(*                                                                         *)
(* A request is an operation and a body; an import stored by an older      *)
(* version lacks later fields.       A policy is how many runs it admits.  *)
(***************************************************************************)
EXTENDS Naturals, Sequences, FiniteSets

CONSTANTS
  Client, Workspace, Key,
  Request,      \* the valid requests, [op, body]
  Deployed,     \* Client -> the ceiling its API server is configured with
  MaxCalls,     \* bound: calls of one client
  MaxCrashes,   \* bound: servers lost in one behaviour
  None

(* What a key's record may hold: the current form, or an older one.        *)
Stored == [op : {"import", "crawl", "upgrade", "resource"}, body : {r.body : r \in Request} \cup {"legacy"}, run : Nat]

(* Requests are well formed, and no import has the form that only an older *)
(* version stored; one of them is what that version's record stands for.   *)
ASSUME SubmissionAssumption ==
  /\ Deployed \in [Client -> Nat] /\ None \notin Stored
  /\ Request \subseteq [op : {"import", "crawl", "upgrade", "resource"}, body : {r.body : r \in Request}]
  /\ \A r \in Request : r.op = "import" => r.body # "legacy"
  /\ [op |-> "import", body |-> "bounded"] \in Request

VARIABLES
  run,       \* crawl_runs: workspace, request and jobs of each
  sub,       \* application_submissions: stored request and run of a key, or None
  limit,     \* work_budget_policies: the workspace's ceiling
  handler,   \* Client -> its request and how far the server is with it
  answered,  \* answers given to clients
  calls, crashes

submissionVars == <<run, sub, limit, handler, answered, calls, crashes>>

Id == Workspace \X Key
NoLimit == 99

SubmissionTypes ==
  /\ run \in Seq([workspace : Workspace, request : Request, jobs : Seq(STRING)])
  /\ \A i \in Id : sub[i] = None \/ (sub[i].op \in {"import", "crawl", "upgrade", "resource"}
                                       /\ sub[i].run \in 1 .. Len(run))
  /\ limit \in [Workspace -> Nat]
  /\ \A c \in Client : handler[c].pc \in {"idle", "calling", "policy", "locked", "creating", "admitted"}
  /\ calls \in [Client -> 0 .. MaxCalls] /\ crashes \in 0 .. MaxCrashes

-----------------------------------------------------------------------------
(* create() of each operation: the kinds of the jobs it enqueues.          *)
ImportJobs  == <<"fetch_user_profile", "fetch_user_games">>
CrawlJobs   == <<"crawl_opponents">>
UpgradeJobs == <<"reprocess_archive">>
RefreshJobs(body) == IF body = "statistics" THEN <<"fetch_user_stats">> ELSE <<"fetch_user_profile">>
ResourceJobs(body) ==
  CASE body = "game" -> <<"fetch_game_by_id">>
    [] body \in {"profile", "statistics"} -> RefreshJobs(body)
    [] OTHER -> <<"fetch_user_resource">>

Jobs(r) ==
  CASE r.op = "import"  -> ImportJobs
    [] r.op = "crawl"   -> CrawlJobs
    [] r.op = "upgrade" -> UpgradeJobs
    [] OTHER            -> ResourceJobs(r.body)

(* The stored request, with the defaults of fields an older version lacked. *)
StoredRequest(s) == [op |-> s.op, body |-> IF s.op = "import" /\ s.body = "legacy" THEN "bounded" ELSE s.body]

RunsOf(w) == {n \in DOMAIN run : run[n].workspace = w}

(* A client calls, or calls again; invalid requests go no further.         *)
Call(c, i, r) ==
  /\ handler[c].pc = "idle" /\ calls[c] < MaxCalls
  /\ calls[c] > 0 => handler[c].id = i /\ handler[c].request = r
  /\ calls' = [calls EXCEPT ![c] = @ + 1]
  /\ handler' = [handler EXCEPT ![c] = [pc |-> "calling", id |-> i, request |-> r]]
  /\ UNCHANGED <<run, sub, limit, answered, crashes>>

To(c, pc) == handler' = [handler EXCEPT ![c].pc = pc]

(* Mutant of QuotaFree: the quota is read without locking it.              *)
QuotaFreeAlways(w) == TRUE

(* The workspace's policy and quota rows are locked until the commit.      *)
QuotaFree(w) == \A c \in Client : handler[c].pc = "admitted" => handler[c].id[1] # w

(* The first transaction: submission_context and install_workspace_policy, *)
(* which only ever tightens and outlives a rejection.                      *)
InstallPolicy(c) ==
  LET w == handler[c].id[1]
  IN
  /\ handler[c].pc = "calling" /\ QuotaFree(w)
  /\ limit' = [limit EXCEPT ![w] = IF Deployed[c] < @ THEN Deployed[c] ELSE @]
  /\ To(c, "policy")
  /\ UNCHANGED <<run, sub, answered, calls, crashes>>

(* operation_lock("submission", workspace:key), held until the commit.     *)
KeyFree(i) == \A c \in Client : handler[c].pc \in {"locked", "creating", "admitted"} => handler[c].id # i

LockSubmission(c) ==
  /\ handler[c].pc = "policy" /\ KeyFree(handler[c].id)
  /\ To(c, "locked")
  /\ UNCHANGED <<run, sub, limit, answered, calls, crashes>>

Answer(c, kind, n) ==
  \* the answer may be lost on its way
  answered' \in {answered, answered \cup {[id |-> handler[c].id, request |-> handler[c].request, kind |-> kind, run |-> n]}}

(* Mutant of LookUp: a known key is replayed without comparing requests.   *)
LookUpReplaysAny(c) ==
  LET s == sub[handler[c].id]
  IN
  /\ handler[c].pc = "locked"
  /\ IF s = None THEN To(c, "creating") /\ UNCHANGED answered
     ELSE Answer(c, "replayed", s.run) /\ To(c, "idle")
  /\ UNCHANGED <<run, sub, limit, calls, crashes>>

(* get_submission: a known key is answered from its record, or conflicts.  *)
LookUp(c) ==
  LET s == sub[handler[c].id]
  IN
  /\ handler[c].pc = "locked"
  /\ IF s = None THEN To(c, "creating") /\ UNCHANGED answered
     ELSE /\ IF StoredRequest(s) = handler[c].request THEN Answer(c, "replayed", s.run) ELSE Answer(c, "conflict", 0)
          /\ To(c, "idle")
  /\ UNCHANGED <<run, sub, limit, calls, crashes>>

(* create() and admit_run_budget; a rejection rolls everything back.       *)
AdmitRunBudget(c) ==
  LET w == handler[c].id[1]
  IN
  /\ handler[c].pc = "creating" /\ QuotaFree(w)
  /\ IF Cardinality(RunsOf(w)) < limit[w]
       THEN To(c, "admitted") /\ UNCHANGED answered
       ELSE To(c, "idle") /\ Answer(c, "rejected", 0)
  /\ UNCHANGED <<run, sub, limit, calls, crashes>>

Record(c, n) ==
  [sub EXCEPT ![handler[c].id] = [op |-> handler[c].request.op, body |-> handler[c].request.body, run |-> n]]

(* record_submission and the commit: run, jobs, budget and key appear.     *)
Commit(c) ==
  LET n == Len(run) + 1
  IN
  /\ handler[c].pc = "admitted"
  /\ run' = Append(run, [workspace |-> handler[c].id[1], request |-> handler[c].request, jobs |-> Jobs(handler[c].request)])
  /\ sub' = Record(c, n)
  /\ Answer(c, "created", n)
  /\ To(c, "idle")
  /\ UNCHANGED <<limit, calls, crashes>>

(* The server dies: its transaction rolls back, the client hears nothing.  *)
Crash(c) ==
  /\ handler[c].pc \notin {"idle", "calling"} /\ crashes < MaxCrashes
  /\ crashes' = crashes + 1
  /\ To(c, "idle")
  /\ UNCHANGED <<run, sub, limit, answered, calls>>

-----------------------------------------------------------------------------
(* One key may have been used by an older version of the service.          *)
SubmissionInit ==
  /\ \/ run = <<>> /\ sub = [i \in Id |-> None]
     \/ \E i \in Id :
          /\ run = <<[workspace |-> i[1], request |-> [op |-> "import", body |-> "bounded"], jobs |-> ImportJobs]>>
          /\ sub = [k \in Id |-> IF k = i THEN [op |-> "import", body |-> "legacy", run |-> 1] ELSE None]
  /\ limit = [w \in Workspace |-> NoLimit]
  /\ handler = [c \in Client |-> [pc |-> "idle", id |-> None, request |-> None]]
  /\ answered = {}
  /\ calls = [c \in Client |-> 0] /\ crashes = 0

Serve(c) == InstallPolicy(c) \/ LockSubmission(c) \/ LookUp(c) \/ AdmitRunBudget(c) \/ Commit(c)

SubmissionNext ==
  \E c \in Client : Serve(c) \/ Crash(c) \/ \E i \in Id, r \in Request : Call(c, i, r)

SubmissionSpec == SubmissionInit /\ [][SubmissionNext]_submissionVars

-----------------------------------------------------------------------------
Given(i, kinds) == {a \in answered : a.id = i /\ a.kind \in kinds}

(* A key names one run for ever: whatever clients call side by side, retry *)
(* after lost answers or crashes, all answers for it give the same run,    *)
(* made for that request with all of its jobs.                             *)
OneRunPerKey ==
  \A i \in Id : \A a, b \in Given(i, {"created", "replayed"}) :
    /\ a.run = b.run /\ a.request = b.request
    /\ sub[i] # None /\ sub[i].run = a.run
    /\ run[a.run].request = a.request /\ run[a.run].jobs = Jobs(a.request)

(* A step that adds a run finds room for it in the run's workspace.        *)
RoomForNewRun ==
  Len(run') > Len(run) =>
       LET w == run'[Len(run')].workspace IN Cardinality(RunsOf(w)) + 1 <= limit[w]

(* Submissions side by side never admit more runs than the policy that is  *)
(* in force when they commit, however another server tightens it.          *)
AdmittedWithinLimit == [][RoomForNewRun]_submissionVars
===============================================================================
