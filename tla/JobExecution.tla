---------------------------- MODULE JobExecution ----------------------------
(***************************************************************************)
(* How worker processes of chess-crawl own, execute, finish, lose and      *)
(* recover the durable jobs of discovery_jobs, and how they derive the     *)
(* status of a crawl run from them (jobs/state.py, jobs/runner.py,         *)
(* jobs/worker.py, storage/db.py, storage/job_admission.py).               *)
(*                                                                         *)
(* The unit of atomicity is what PostgreSQL gives at READ COMMITTED.  A    *)
(* transaction whose intermediate states another session can meet is       *)
(* several actions: its row locks are held from the first, its writes      *)
(* become visible at the last, and a session that dies in between rolls    *)
(* it back.  Every statement reads what is committed when it runs, plus    *)
(* the writes of its own transaction.                                      *)
(*                                                                         *)
(* Times are abstracted to what a guard can tell: a retry deadline is      *)
(* NULL, "later" or "due", and a provider's cooldown is on or off.         *)
(***************************************************************************)
EXTENDS Naturals, FiniteSets

CONSTANTS
  Worker,        \* worker processes; each has one database session at a time
  Job,           \* rows of discovery_jobs, present or still to be enqueued
  Run,           \* rows of crawl_runs; numbers, in the order of their ids
  Provider,
  Workspace,
  None,          \* SQL NULL
  RunOf,         \* Job -> Run               (discovery_jobs.crawl_run_id)
  WorkspaceOf,   \* Job -> Workspace
  ProviderOf,    \* Job -> Provider
  KindOf,        \* Job -> Kind
  Paced,         \* the providers whose min_delay_s is not zero
  ParentOf,      \* Job -> Job \cup {None}   (discovery_jobs.parent_job_id)
  Root,          \* the jobs that are enqueued when the model starts
  Cancellable,   \* the runs that may be cancelled
  Outcome,       \* what the handlers of this instance can end with
  MaxActive,     \* workspace_max_active_jobs
  MaxRetries,    \* WorkerSettings.job_max_retries
  MaxClaims,     \* bound: a job yields or waits for its operator only in an
                 \* attempt before this one
  MaxLosses      \* bound: how many sessions are lost in one behaviour

(* The kinds a guard tells apart.  "bounded" is an acquisition that waits  *)
(* for the normalization of what it captured; "collect" any other          *)
(* acquisition; "internal" an archive or upgrade job.                      *)
Kind == {"bounded", "collect", "normalize", "expand", "internal"}

(* What an execution can end with: "transient" is any outcome that is      *)
(* retried, the others are the states mark_job is called with.             *)
ExecutionOutcome == {"done", "skipped", "error", "pending", "blocked", "transient"}

RunStatus == {"running", "paused", "failed", "done", "cancelled"}

ASSUME ConstantsAssumption ==
  /\ None \notin Worker /\ None \notin Job /\ None \notin RunStatus
  /\ IsFiniteSet(Worker) /\ IsFiniteSet(Job)
  /\ Run \subseteq Nat
  /\ RunOf \in [Job -> Run]
  /\ WorkspaceOf \in [Job -> Workspace]
  /\ ProviderOf \in [Job -> Provider]
  /\ KindOf \in [Job -> Kind]
  /\ ParentOf \in [Job -> Job \cup {None}]
  /\ Paced \subseteq Provider
  /\ Root \subseteq Job /\ Cancellable \subseteq Run
  /\ Outcome \subseteq ExecutionOutcome
  /\ MaxActive \in Nat \ {0} /\ MaxRetries \in Nat
  /\ MaxClaims \in Nat /\ MaxLosses \in Nat

VARIABLES
  row,        \* discovery_jobs, as committed
  wrote,      \* the ownership generation of a job's last committed evidence
  status,     \* crawl_runs.status, as committed
  cooldown,   \* the providers whose not_before is in the future
  rowLock,    \* who holds the row lock of a job
  runLock,    \* who holds the row lock of a run
  jobLock,    \* session advisory locks "executor-job"
  provLock,   \* session advisory locks "acquisition-provider"
  gate,       \* who holds the transaction lock "workspace-scheduler"
  proc,       \* what each worker process knows, and where it is
  losses      \* how many sessions have been lost

database == <<row, wrote, status, cooldown>>
locks    == <<rowLock, runLock, jobLock, provLock, gate>>
vars     == <<database, locks, proc, losses>>

JobState == {"absent", "pending", "in_progress", "blocked",
             "done", "error", "skipped"}
Terminal == {"done", "error", "skipped"}
Live     == {"pending", "in_progress", "blocked"}
Deadline == {"null", "later", "due"}

(* A row of discovery_jobs.  A token is the generation it was drawn for:   *)
(* each claim draws a fresh one; 0 is SQL NULL.                            *)
Row == [state : JobState, next : Deadline, retries : Nat,
        generation : Nat, token : Nat, owner : Worker \cup {None}]

(* Where a process is in Worker.run and JobRunner._run_owned.              *)
PC == {"down",        \* no session
       "starting",    \* in refresh_crawl_runs, before its main loop
       "idle",        \* at the top of the main loop
       "recovering",  \* in resume_stale_in_progress
       "polling",     \* about to call claim_next_job
       "claiming",    \* in claim_next_job
       "claimed",     \* claim committed, about to refresh the run
       "refreshing",  \* in refresh_run_status after the claim
       "executing",   \* in _execute, between transactions
       "finishing",   \* in finish_attempt
       "finished"}    \* finish_attempt committed, locks still held

Process ==
  [pc : PC,
   job : Job \cup {None}, token : Nat,   \* Connection._job_fence
   picked : SUBSET Job,                  \* rows a transaction is to update
   mark : Row,                           \* the row finish_attempt has written
   defer : BOOLEAN,                      \* ... and its defer_provider
   todo : SUBSET Run, at : {"lock", "count", "publish"},
   seen : SUBSET JobState,               \* what job_state_counts returned
   derived : [Run -> RunStatus \cup {None}]]   \* update_crawl_run, uncommitted

TypeOK ==
  /\ row \in [Job -> Row]
  /\ wrote \in [Job -> Nat]
  /\ status \in [Run -> RunStatus]
  /\ cooldown \subseteq Provider
  /\ rowLock \in [Job -> Worker \cup {None}]
  /\ runLock \in [Run -> Worker \cup {None}]
  /\ jobLock \in [Job -> Worker \cup {None}]
  /\ provLock \in [Provider -> Worker \cup {None}]
  /\ gate \in Worker \cup {None}
  /\ proc \in [Worker -> Process]
  /\ losses \in Nat

-----------------------------------------------------------------------------
(* Reading the tables.                                                     *)

JobsOf(r) == {j \in Job : RunOf[j] = r}

IsAcquisition(j) == KindOf[j] \in {"bounded", "collect"}

(* Mutant of Ready: an expansion waits only while its parent executes.     *)
ReadyParentIdle(j, v) ==
  KindOf[j] = "expand" => ParentOf[j] # None /\ v[ParentOf[j]] # "in_progress"

(* PROCESSING_READY_SQL, over the job states v: a bounded acquisition      *)
(* waits for its normalization children, an expansion for its parent.      *)
Ready(j, v) ==
  /\ KindOf[j] = "bounded" =>
       \A c \in Job : ParentOf[c] = j /\ KindOf[c] = "normalize" => v[c] \notin Live
  /\ KindOf[j] = "expand" => ParentOf[j] # None /\ v[ParentOf[j]] \in Terminal

States == [j \in Job |-> row[j].state]

Active(ws) == {j \in Job : WorkspaceOf[j] = ws /\ row[j].state = "in_progress"}

(* Mutant of Schedulable: a transient failure is never retried.            *)
SchedulablePending(j) == row[j].state = "pending"

(* SCHEDULABLE_STATE_SQL.                                                  *)
Schedulable(j) ==
  \/ row[j].state = "pending"
  \/ row[j].state = "blocked" /\ row[j].next # "null"

(* claim_admission: the conjunction of admission_conditions.               *)
Admissible(j) ==
  /\ status[RunOf[j]] # "cancelled"
  /\ Schedulable(j)
  /\ row[j].next # "later"
  /\ Ready(j, States)
  /\ IsAcquisition(j) => ProviderOf[j] \notin cooldown
  /\ Cardinality(Active(WorkspaceOf[j])) < MaxActive

(* Mutant of Lockable: the provider's lock is not tried.                   *)
LockableJobOnly(j) == jobLock[j] = None

(* Both session locks of a claim can be taken.                             *)
Lockable(j) ==
  /\ jobLock[j] = None
  /\ IsAcquisition(j) => provLock[ProviderOf[j]] = None

(* What storage.db.transaction verifies before a fenced write.             *)
FenceHolds(w) ==
  LET j == proc[w].job IN
  /\ jobLock[j] = w
  /\ IsAcquisition(j) => provLock[ProviderOf[j]] = w
  /\ row[j].state = "in_progress"
  /\ row[j].token = proc[w].token
  /\ row[j].owner = w

(* Mutant of CanWrite: no fence.                                           *)
CanWriteUnfenced(w) == rowLock[proc[w].job] = None

(* A fenced transaction takes the job's row FOR SHARE; it waits for a      *)
(* session that has it FOR UPDATE.                                         *)
CanWrite(w) == FenceHolds(w) /\ rowLock[proc[w].job] = None

Without(f, w) == [x \in DOMAIN f |-> IF f[x] = w THEN None ELSE f[x]]

Move(w, changed) == proc' = [proc EXCEPT ![w] = changed]

-----------------------------------------------------------------------------
NoRow == [state |-> "absent", next |-> "null", retries |-> 0,
          generation |-> 0, token |-> 0, owner |-> None]

Down == [pc |-> "down", job |-> None, token |-> 0, picked |-> {},
         mark |-> NoRow, defer |-> FALSE, todo |-> {}, at |-> "lock",
         seen |-> {}, derived |-> [r \in Run |-> None]]

Init ==
  /\ row = [j \in Job |-> IF j \in Root THEN [NoRow EXCEPT !.state = "pending"]
                          ELSE NoRow]
  /\ wrote = [j \in Job |-> 0]
  /\ status = [r \in Run |-> "running"]
  /\ cooldown = {}
  /\ rowLock = [j \in Job |-> None]
  /\ runLock = [r \in Run |-> None]
  /\ jobLock = [j \in Job |-> None]
  /\ provLock = [p \in Provider |-> None]
  /\ gate = None
  /\ proc = [w \in Worker |-> Down]
  /\ losses = 0

(* Worker.run opens a session and refreshes every run in one transaction.  *)
Start(w) ==
  /\ proc[w].pc = "down"
  /\ Move(w, [Down EXCEPT !.pc = "starting", !.todo = Run])
  /\ UNCHANGED <<database, locks, losses>>

-----------------------------------------------------------------------------
(* refresh_run_status, one action per statement.  It runs inside the       *)
(* transactions of Start, BeginRefresh and FinishMark.                     *)

Refreshes(w) == proc[w].pc \in {"starting", "refreshing", "finishing"}

(* Runs are refreshed in the order of their ids.                           *)
NextRun(w) == CHOOSE r \in proc[w].todo : \A s \in proc[w].todo : r <= s

(* The job states a statement of w's transaction reads.                    *)
View(w) ==
  [j \in Job |-> IF proc[w].pc = "finishing" /\ proc[w].job = j
                 THEN proc[w].mark.state ELSE row[j].state]

(* Mutant of RunFree: SELECT without FOR UPDATE.                           *)
RunUnlocked(r) == TRUE

(* The run's row is not FOR UPDATE in another session.                     *)
RunFree(r) == runLock[r] = None

(* SELECT status ... FOR UPDATE; a cancelled run is left alone.            *)
RefreshLock(w) ==
  /\ Refreshes(w) /\ proc[w].at = "lock" /\ proc[w].todo # {}
  /\ LET r == NextRun(w) IN
       /\ RunFree(r)
       /\ runLock' = [runLock EXCEPT ![r] = w]
       /\ IF status[r] = "cancelled"
          THEN Move(w, [proc[w] EXCEPT !.todo = @ \ {r}])
          ELSE Move(w, [proc[w] EXCEPT !.at = "count"])
  /\ UNCHANGED <<database, rowLock, jobLock, provLock, gate, losses>>

(* The first query: job_state_counts.                                      *)
RefreshCount(w) ==
  /\ Refreshes(w) /\ proc[w].at = "count"
  /\ Move(w, [proc[w] EXCEPT
                !.seen = {View(w)[j] : j \in JobsOf(NextRun(w))},
                !.at = "publish"])
  /\ UNCHANGED <<database, locks, losses>>

(* Mutant of DerivedStatus: an error decides before work in progress.      *)
DerivedErrorFirst(seen, pendingReady) ==
  IF "error" \in seen THEN "failed"
  ELSE IF pendingReady \/ "in_progress" \in seen THEN "running"
  ELSE IF "blocked" \in seen THEN "paused"
  ELSE "done"

(* The status that the first query's counts and the second's answer give.  *)
DerivedStatus(seen, pendingReady) ==
  IF pendingReady \/ "in_progress" \in seen THEN "running"
  ELSE IF "blocked" \in seen THEN "paused"
  ELSE IF "error" \in seen THEN "failed"
  ELSE "done"

(* The second query, which is not run when nothing was pending, and the    *)
(* update of the run.                                                      *)
RefreshPublish(w) ==
  /\ Refreshes(w) /\ proc[w].at = "publish"
  /\ LET r == NextRun(w)
         v == View(w)
         pendingReady == /\ "pending" \in proc[w].seen
                         /\ \E j \in JobsOf(r) : v[j] = "pending" /\ Ready(j, v)
     IN  Move(w, [proc[w] EXCEPT
                    !.derived = [@ EXCEPT ![r] = DerivedStatus(proc[w].seen, pendingReady)],
                    !.todo = @ \ {r}, !.at = "lock", !.seen = {}])
  /\ UNCHANGED <<database, locks, losses>>

Published(w) ==
  [r \in Run |-> IF proc[w].derived[r] = None THEN status[r] ELSE proc[w].derived[r]]

Refreshed(w) == proc[w].at = "lock" /\ proc[w].todo = {}

CommitStart(w) ==
  /\ proc[w].pc = "starting" /\ Refreshed(w)
  /\ status' = Published(w)
  /\ runLock' = Without(runLock, w)
  /\ Move(w, [Down EXCEPT !.pc = "idle"])
  /\ UNCHANGED <<row, wrote, cooldown, rowLock, jobLock, provLock, gate, losses>>

-----------------------------------------------------------------------------
(* resume_stale_in_progress.  The SELECT ... FOR UPDATE SKIP LOCKED and the *)
(* tries of the job locks are one action: the row locks keep every claim   *)
(* and every finish away from the rows, so only an owner's death can       *)
(* change an answer in between.  Each job lock is given back before the    *)
(* commit.                                                                 *)

Orphans == {j \in Job : /\ row[j].state = "in_progress"
                        /\ status[RunOf[j]] # "cancelled"
                        /\ rowLock[j] = None}

(* Mutant of Recoverable: the job's lock is not tried.                     *)
RecoverableUnlocked == Orphans

Recoverable == {j \in Orphans : jobLock[j] = None}

RecoverSelect(w) ==
  /\ proc[w].pc = "idle"
  /\ rowLock' = [j \in Job |-> IF j \in Orphans THEN w ELSE rowLock[j]]
  /\ Move(w, [proc[w] EXCEPT !.pc = "recovering",
                             !.picked = Recoverable])
  /\ UNCHANGED <<database, runLock, jobLock, provLock, gate, losses>>

RecoveredRow(r) == [r EXCEPT !.state = "pending", !.token = 0, !.owner = None]

RecoverCommit(w) ==
  /\ proc[w].pc = "recovering"
  /\ row' = [j \in Job |-> IF j \in proc[w].picked THEN RecoveredRow(row[j]) ELSE row[j]]
  /\ rowLock' = Without(rowLock, w)
  /\ Move(w, [proc[w] EXCEPT !.pc = "polling", !.picked = {}])
  /\ UNCHANGED <<wrote, status, cooldown, runLock, jobLock, provLock, gate, losses>>

-----------------------------------------------------------------------------
(* claim_next_job.  Which of the candidates comes first (workspace turn,   *)
(* priority, depth, age) is left open here.                                *)

Candidates == {j \in Job : Admissible(j) /\ rowLock[j] = None}

(* Mutant of GateFree: claims are not serialized.                          *)
GateIgnored == TRUE

(* operation_lock("workspace-scheduler").                                  *)
GateFree == gate = None

ClaimSelect(w) ==
  /\ proc[w].pc = "polling"
  /\ GateFree
  /\ \E j \in Candidates :
       /\ Lockable(j)
       /\ jobLock' = [jobLock EXCEPT ![j] = w]
       /\ provLock' = IF IsAcquisition(j)
                      THEN [provLock EXCEPT ![ProviderOf[j]] = w] ELSE provLock
       /\ Move(w, [proc[w] EXCEPT !.pc = "claiming", !.job = j,
                                  !.token = row[j].generation + 1])
  /\ gate' = w
  /\ rowLock' = [j \in Job |-> IF j \in Candidates THEN w ELSE rowLock[j]]
  /\ UNCHANGED <<database, runLock, losses>>

ClaimNothing(w) ==
  /\ proc[w].pc = "polling"
  /\ GateFree
  /\ \A j \in Candidates : ~Lockable(j)
  /\ Move(w, [proc[w] EXCEPT !.pc = "idle"])
  /\ UNCHANGED <<database, locks, losses>>

ClaimedRow(w, r) ==
  [r EXCEPT !.state = "in_progress", !.next = "null", !.owner = w,
            !.generation = @ + 1, !.token = proc[w].token]

ClaimCommit(w) ==
  /\ proc[w].pc = "claiming"
  /\ row' = [row EXCEPT ![proc[w].job] = ClaimedRow(w, @)]
  /\ gate' = None
  /\ rowLock' = Without(rowLock, w)
  /\ Move(w, [proc[w] EXCEPT !.pc = "claimed"])
  /\ UNCHANGED <<wrote, status, cooldown, runLock, jobLock, provLock, losses>>

(* The runner refreshes the run in a transaction of its own.               *)
BeginRefresh(w) ==
  /\ proc[w].pc = "claimed"
  /\ CanWrite(w)
  /\ rowLock' = [rowLock EXCEPT ![proc[w].job] = w]
  /\ Move(w, [proc[w] EXCEPT !.pc = "refreshing", !.todo = {RunOf[proc[w].job]}])
  /\ UNCHANGED <<database, runLock, jobLock, provLock, gate, losses>>

CommitRefresh(w) ==
  /\ proc[w].pc = "refreshing" /\ Refreshed(w)
  /\ status' = Published(w)
  /\ rowLock' = Without(rowLock, w)
  /\ runLock' = Without(runLock, w)
  /\ Move(w, [proc[w] EXCEPT !.pc = "executing", !.derived = Down.derived])
  /\ UNCHANGED <<row, wrote, cooldown, jobLock, provLock, gate, losses>>

-----------------------------------------------------------------------------
(* Execution, in short fenced transactions.                                *)

(* Evidence, cursors and reservations a handler commits for its job.       *)
Checkpoint(w) ==
  /\ proc[w].pc = "executing"
  /\ CanWrite(w)
  /\ wrote' = [wrote EXCEPT ![proc[w].job] = proc[w].token]
  /\ UNCHANGED <<row, status, cooldown, locks, proc, losses>>

(* _persist_provider_deadline: pacing and backoff of the provider's        *)
(* requests, kept in provider_cooldowns for every worker.                  *)
DeferProvider(w) ==
  LET j == proc[w].job IN
  /\ proc[w].pc = "executing"
  /\ CanWrite(w)
  /\ IsAcquisition(j) /\ ProviderOf[j] \in Paced
  /\ cooldown' = cooldown \cup {ProviderOf[j]}
  /\ UNCHANGED <<row, wrote, status, locks, proc, losses>>

(* Which jobs the handler of j enqueues: a capture its normalization, a    *)
(* crawl its expansion, an expansion further crawls of its own parent.     *)
Spawns(j, c) ==
  \/ ParentOf[c] = j /\ IsAcquisition(j) /\ KindOf[c] \in {"normalize", "expand"}
  \/ KindOf[j] = "expand" /\ ParentOf[c] = ParentOf[j] /\ KindOf[c] = "bounded"

(* enqueue_job.  A duplicate of a job that exists is not inserted.  The    *)
(* insert's foreign key waits for a session that refreshes the run.        *)
Enqueue(w, c) ==
  LET j == proc[w].job IN
  /\ proc[w].pc = "executing"
  /\ CanWrite(w)
  /\ Spawns(j, c) /\ RunOf[c] = RunOf[j]
  /\ row[c].state = "absent"
  /\ runLock[RunOf[c]] = None
  /\ row' = [row EXCEPT ![c].state = "pending"]
  /\ wrote' = [wrote EXCEPT ![j] = proc[w].token]
  /\ UNCHANGED <<status, cooldown, locks, proc, losses>>

(* The row finish_attempt writes.                                          *)
FinishedRow(r, o) ==
  IF o # "transient" THEN [r EXCEPT !.state = o, !.next = "null"]
  ELSE IF r.retries < MaxRetries
  THEN [r EXCEPT !.state = "blocked", !.next = "later", !.retries = @ + 1]
  ELSE [r EXCEPT !.state = "error", !.next = "null"]

(* finish_attempt up to refresh_run_status.                                *)
FinishMark(w, o) ==
  LET j == proc[w].job IN
  /\ proc[w].pc = "executing"
  /\ CanWrite(w)
  /\ o \in {"pending", "blocked"} => row[j].generation < MaxClaims
  /\ rowLock' = [rowLock EXCEPT ![j] = w]
  /\ Move(w, [proc[w] EXCEPT !.pc = "finishing", !.todo = {RunOf[j]},
                             !.mark = FinishedRow(row[j], o),
                             !.defer = (o = "transient" /\ IsAcquisition(j))])
  /\ UNCHANGED <<database, runLock, jobLock, provLock, gate, losses>>

CommitFinish(w) ==
  LET j == proc[w].job IN
  /\ proc[w].pc = "finishing" /\ Refreshed(w)
  /\ row' = [row EXCEPT ![j] = proc[w].mark]
  /\ cooldown' = IF proc[w].defer THEN cooldown \cup {ProviderOf[j]} ELSE cooldown
  /\ status' = Published(w)
  /\ rowLock' = Without(rowLock, w)
  /\ runLock' = Without(runLock, w)
  /\ Move(w, [Down EXCEPT !.pc = "finished", !.job = j, !.token = proc[w].token])
  /\ UNCHANGED <<wrote, jobLock, provLock, gate, losses>>

(* release_job_ownership.                                                  *)
Release(w) ==
  /\ proc[w].pc = "finished"
  /\ jobLock' = Without(jobLock, w)
  /\ provLock' = Without(provLock, w)
  /\ Move(w, [Down EXCEPT !.pc = "idle"])
  /\ UNCHANGED <<database, rowLock, runLock, gate, losses>>

-----------------------------------------------------------------------------
(* A session ends at any point: the backend or the process dies, or an     *)
(* error such as a lock timeout makes the runner give up its locks.  Its   *)
(* transaction is rolled back.  Between transactions the process notices   *)
(* only when it starts the next one.                                       *)
SessionLost(w) ==
  /\ proc[w].pc # "down"
  /\ losses < MaxLosses
  /\ losses' = losses + 1
  /\ rowLock' = Without(rowLock, w)
  /\ runLock' = Without(runLock, w)
  /\ jobLock' = Without(jobLock, w)
  /\ provLock' = Without(provLock, w)
  /\ gate' = IF gate = w THEN None ELSE gate
  /\ IF proc[w].pc \in {"claimed", "executing"}
     THEN UNCHANGED proc ELSE Move(w, Down)
  /\ UNCHANGED database

(* ExecutorLeaseLost: the job is left to recovery and the process ends.    *)
LeaseLost(w) ==
  /\ proc[w].pc \in {"claimed", "executing"}
  /\ ~FenceHolds(w)
  /\ jobLock' = Without(jobLock, w)
  /\ provLock' = Without(provLock, w)
  /\ Move(w, Down)
  /\ UNCHANGED <<database, rowLock, runLock, gate, losses>>

-----------------------------------------------------------------------------
(* The operator, and the passing of time.                                  *)

(* update_crawl_run(status="cancelled").                                   *)
Cancel(r) ==
  /\ r \in Cancellable /\ runLock[r] = None
  /\ status[r] # "cancelled"
  /\ status' = [status EXCEPT ![r] = "cancelled"]
  /\ UNCHANGED <<row, wrote, cooldown, locks, proc, losses>>

(* unblock_jobs.                                                           *)
Unblockable == {j \in Job : /\ row[j].state = "blocked"
                            /\ row[j].next # "later"
                            /\ status[RunOf[j]] # "cancelled"}

Unblock ==
  /\ Unblockable # {}
  /\ \A j \in Unblockable : rowLock[j] = None
  /\ row' = [j \in Job |-> IF j \in Unblockable
                           THEN [row[j] EXCEPT !.state = "pending"] ELSE row[j]]
  /\ UNCHANGED <<wrote, status, cooldown, locks, proc, losses>>

RetryDue(j) ==
  /\ row[j].next = "later"
  /\ row' = [row EXCEPT ![j].next = "due"]
  /\ UNCHANGED <<wrote, status, cooldown, locks, proc, losses>>

CooldownOver(p) ==
  /\ p \in cooldown
  /\ cooldown' = cooldown \ {p}
  /\ UNCHANGED <<row, wrote, status, locks, proc, losses>>

-----------------------------------------------------------------------------
Refresh(w) == RefreshLock(w) \/ RefreshCount(w) \/ RefreshPublish(w)

(* The steps a worker takes of its own accord, whatever its handler does.  *)
Loop(w) ==
  \/ Start(w) \/ Refresh(w) \/ CommitStart(w)
  \/ RecoverSelect(w) \/ RecoverCommit(w)
  \/ ClaimSelect(w) \/ ClaimNothing(w) \/ ClaimCommit(w)
  \/ BeginRefresh(w) \/ CommitRefresh(w)
  \/ CommitFinish(w) \/ Release(w) \/ LeaseLost(w)

Finish(w) == \E o \in Outcome : FinishMark(w, o)

Next ==
  \/ \E w \in Worker :
       \/ Loop(w) \/ Checkpoint(w) \/ DeferProvider(w) \/ Finish(w) \/ SessionLost(w)
       \/ \E c \in Job : Enqueue(w, c)
  \/ \E r \in Run : Cancel(r)
  \/ Unblock
  \/ \E j \in Job : RetryDue(j)
  \/ \E p \in Provider : CooldownOver(p)

Spec == Init /\ [][Next]_vars

(* A worker process keeps running (its supervisor restarts it), handlers   *)
(* return, and time passes.  Fairness is strong where a statement waits    *)
(* for the job's row: every recovery pass of another worker takes that row *)
(* for a moment, and PostgreSQL serves those who wait for it in turn.      *)
Fairness ==
  /\ \A w \in Worker : /\ WF_vars(Loop(w))
                       /\ SF_vars(BeginRefresh(w)) /\ SF_vars(Finish(w))
  /\ \A j \in Job : WF_vars(RetryDue(j))
  /\ \A p \in Provider : WF_vars(CooldownOver(p))

FairSpec == Spec /\ Fairness

-----------------------------------------------------------------------------
(* The ledger of jobs this implements.                                     *)
Phase(j) ==
  CASE row[j].state = "absent" -> "absent"
    [] row[j].state \in {"pending", "blocked"} -> "open"
    [] row[j].state = "in_progress" -> "held"
    [] OTHER -> "closed"

Ledger == INSTANCE JobLedger
            WITH phase <- [j \in Job |-> Phase(j)],
                 generation <- [j \in Job |-> row[j].generation],
                 evidence <- wrote

(* Every step of the workers is a step of the ledger or leaves it alone:   *)
(* one claim holds a job at a time, only the holder of the newest claim    *)
(* stores evidence for it (the fence of storage.db.transaction), and a     *)
(* finished job is never executed again.                                   *)
ImplementsLedger == Ledger!LedgerSpec

-----------------------------------------------------------------------------
(* Properties.                                                             *)

Holds(w) == /\ proc[w].pc \in {"claimed", "refreshing", "executing", "finishing"}
            /\ jobLock[proc[w].job] = w

(* A worker that has claimed a job and whose session still holds the       *)
(* job's lock still owns the row, with the token it drew: neither the      *)
(* recovery pass of another worker nor another claim took the job from a   *)
(* live executor, however slow ("Recovery never steals a live session",    *)
(* jobs/worker.py).                                                        *)
OwnerKeepsJob == \A w \in Worker : Holds(w) => FenceHolds(w)

(* Two live executors never acquire from one provider at the same time     *)
(* (the "acquisition-provider" lock of claim_next_job).                    *)
ProviderSerial ==
  \A v, w \in Worker :
    (/\ v # w /\ Holds(v) /\ Holds(w)
     /\ IsAcquisition(proc[v].job) /\ IsAcquisition(proc[w].job))
    => ProviderOf[proc[v].job] # ProviderOf[proc[w].job]

(* Concurrent claims never take a workspace over workspace_max_active_jobs *)
(* ("This short gate makes active limits and workspace turns race-safe").  *)
ActiveLimit == \A ws \in Workspace : Cardinality(Active(ws)) <= MaxActive

(* While a live worker executes a job, the job's run reads running, unless *)
(* it was cancelled: no refresh of another worker, computed from an older  *)
(* count, is published over the one made after the claim.                  *)
ExecutingRunIsRunning ==
  \A w \in Worker :
    proc[w].pc = "executing" /\ jobLock[proc[w].job] = w
      => status[RunOf[proc[w].job]] \in {"running", "cancelled"}

(* Once the last job of a run is terminal the run reads done, or failed if *)
(* one of its jobs ended in error: of several workers that finish its last *)
(* jobs at the same time, one always publishes the final status.           *)
SettledRunStatus ==
  \A r \in Run :
    LET present == {row[j].state : j \in JobsOf(r)} \ {"absent"} IN
    present # {} /\ present \subseteq Terminal /\ status[r] # "cancelled"
      => status[r] = IF "error" \in present THEN "failed" ELSE "done"

(* An expansion of a crawl's frontier executes only after the crawl it     *)
(* reads has ended, whatever was retried or recovered (PROCESSING_READY).  *)
ExpansionAfterParent ==
  \A j \in Job : KindOf[j] = "expand" /\ row[j].state = "in_progress"
                   => row[ParentOf[j]].state \in Terminal

(* A run that reads done or failed has no unfinished job.                  *)
FinishedRunIsQuiet ==
  \A r \in Run : status[r] \in {"done", "failed"} =>
    \A j \in JobsOf(r) : row[j].state \notin Live

(* A job has come to rest: nothing is left to do before an operator acts.  *)
Settled(j) ==
  \/ row[j].state \in {"absent"} \cup Terminal
  \/ status[RunOf[j]] = "cancelled"
  \/ \E k \in JobsOf(RunOf[j]) : row[k].state = "blocked" /\ row[k].next = "null"

(* Every job that was enqueued comes to rest: sessions may be lost between *)
(* any two steps, and still each orphan is recovered, each retry is made,  *)
(* each waiting parent resumes and no worker waits for ever for a lock.    *)
EveryJobSettles == <>[](\A j \in Job : Settled(j))

=============================================================================
