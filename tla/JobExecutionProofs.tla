------------------------- MODULE JobExecutionProofs -------------------------
(***************************************************************************)
(* Proofs about JobExecution, for every number of workers, jobs, runs,     *)
(* providers and workspaces and every value of the bounds, in four parts:  *)
(*   - who owns a job, and that evidence is stored under the newest claim; *)
(*   - the refinement of JobLedger;                                        *)
(*   - what a claim may start: the active limit of a workspace, and the    *)
(*     order of an expansion and its parent;                               *)
(*   - what the status of a run says of its jobs while several workers     *)
(*     refresh it side by side (refresh_run_status).                       *)
(* Facts on finite sets and on the order of numbers are taken as           *)
(* hypotheses (JobsCounted, RunsOrdered) until the end of the module,      *)
(* where they are shown and the last theorems are stated.                  *)
(***************************************************************************)
EXTENDS JobExecution, TLAPS

USE DEF IsAcquisition, Move, Without, JobState, Terminal, Live, Deadline, RunStatus, PC

(* Removing one session's locks leaves a table of locks.                   *)
LEMMA WithoutType ==
  ASSUME NEW S, NEW f \in [S -> Worker \cup {None}], NEW w
  PROVE  /\ Without(f, w) \in [S -> Worker \cup {None}]
         /\ \A x \in S : Without(f, w)[x] = IF f[x] = w THEN None ELSE f[x]
OBVIOUS

(* A process without a session is a process.                               *)
LEMMA DownType == Down \in Process
BY Zenon DEF Down, NoRow, Process, Row

(* Moving one process keeps the others.                                    *)
LEMMA MoveType ==
  ASSUME TypeOK, NEW w \in Worker, NEW q \in Process, Move(w, q)
  PROVE  proc' \in [Worker -> Process]
BY Zenon DEF TypeOK

(* A claim makes a row of a row (claim_next_job).                          *)
LEMMA ClaimedRowType ==
  ASSUME NEW r \in Row, NEW w \in Worker, proc[w].token \in Nat
  PROVE  ClaimedRow(w, r) \in Row
<1>1. r.generation + 1 \in Nat
  BY DEF Row
<1>2. "in_progress" \in JobState /\ "null" \in Deadline
  OBVIOUS
<1> HIDE DEF JobState, Deadline
<1> QED BY Zenon, <1>1, <1>2 DEF Row, ClaimedRow

(* Recovery resets a row (_resume_stale_in_progress).                      *)
LEMMA RecoveredRowType == \A r \in Row : RecoveredRow(r) \in Row
BY ZenonT(60) DEF Row, RecoveredRow

(* Enqueuing, unblocking and the passing of time edit one field.           *)
LEMMA EditedRowType ==
  \A r \in Row : /\ [r EXCEPT !.state = "pending"] \in Row
               /\ [r EXCEPT !.next = "due"] \in Row
BY Zenon DEF Row

(* A finished attempt leaves a row (finish_attempt).                       *)
LEMMA FinishedRowType ==
  ASSUME NEW r \in Row, NEW o \in ExecutionOutcome
  PROVE  FinishedRow(r, o) \in Row
<1>1. r.retries + 1 \in Nat
  BY DEF Row
<1>2. /\ o # "transient" => o \in JobState
      /\ {"blocked", "error"} \subseteq JobState /\ {"null", "later"} \subseteq Deadline
  BY Zenon DEF ExecutionOutcome
<1> HIDE DEF JobState, Deadline
<1> QED BY Zenon, <1>1, <1>2 DEF Row, FinishedRow

(* A process that has selected a job, and not yet released it, knows it.   *)
Claimed(w) == proc[w].pc \in {"claiming", "claimed", "refreshing", "executing",
                              "finishing", "finished"}

JobKnown == \A w \in Worker : Claimed(w) => proc[w].job \in Job

(* Every step keeps every variable in its type.                            *)
LEMMA TypeStep == TypeOK /\ JobKnown /\ [Next]_vars => TypeOK'
<1> USE ConstantsAssumption
<1> SUFFICES ASSUME TypeOK, JobKnown, [Next]_vars PROVE TypeOK'
  OBVIOUS
<1>0. \A w \in Worker : proc[w] \in Process
  BY Zenon DEF TypeOK
<1>1. CASE UNCHANGED vars
  BY Zenon, <1>1 DEF TypeOK, vars, database, locks
<1>2. ASSUME NEW w \in Worker, Start(w) PROVE TypeOK'
  <2>1. [Down EXCEPT !.pc = "starting", !.todo = Run] \in Process
    BY Zenon, DownType DEF Process
  <2> QED BY Zenon, <1>2, <2>1 DEF TypeOK, Start, database, locks
<1>3. ASSUME NEW w \in Worker, RefreshLock(w) PROVE TypeOK'
  <2> DEFINE r == NextRun(w)
  <2>1. /\ [proc[w] EXCEPT !.todo = @ \ {r}] \in Process
        /\ [proc[w] EXCEPT !.at = "count"] \in Process
    BY <1>0 DEF Process
  <2> HIDE DEF r
  <2>2. runLock' = [runLock EXCEPT ![r] = w]
    BY Zenon, <1>3 DEF RefreshLock, r
  <2>3. proc' \in [Worker -> Process]
    BY ZenonT(60), <1>3, <2>1 DEF RefreshLock, r, TypeOK
  <2>4. UNCHANGED <<row, wrote, status, cooldown, rowLock, jobLock, provLock, gate, losses>>
    BY Zenon, <1>3 DEF RefreshLock, database
  <2> QED BY Zenon, <2>2, <2>3, <2>4 DEF TypeOK
<1>4. ASSUME NEW w \in Worker, RefreshCount(w) PROVE TypeOK'
  <2> DEFINE s == {View(w)[j] : j \in JobsOf(NextRun(w))}
  <2>1. s \subseteq JobState
    BY <1>0 DEF JobsOf, View, TypeOK, Process, Row
  <2> HIDE DEF s
  <2>2. [proc[w] EXCEPT !.seen = s, !.at = "publish"] \in Process
    <3>1. proc[w] \in Process
      BY Zenon, <1>0
    <3> QED BY Zenon, <2>1, <3>1 DEF Process
  <2>3. proc' \in [Worker -> Process]
    BY Zenon, <1>4, <2>2 DEF RefreshCount, s, TypeOK
  <2> QED BY Zenon, <1>4, <2>3 DEF TypeOK, RefreshCount, database, locks
<1>5. ASSUME NEW w \in Worker, RefreshPublish(w) PROVE TypeOK'
  <2> DEFINE r == NextRun(w)
             b == /\ "pending" \in proc[w].seen
                  /\ \E j \in JobsOf(r) : View(w)[j] = "pending" /\ Ready(j, View(w))
             d == DerivedStatus(proc[w].seen, b)
  <2>1. d \in RunStatus
    BY Zenon DEF DerivedStatus
  <2> HIDE DEF d, r
  <2>2. [proc[w] EXCEPT !.derived = [@ EXCEPT ![r] = d], !.todo = @ \ {r},
                        !.at = "lock", !.seen = {}] \in Process
    <3>1. proc[w] \in Process
      BY Zenon, <1>0
    <3>2. [proc[w].derived EXCEPT ![r] = d] \in [Run -> RunStatus \cup {None}]
      BY ZenonT(60), <2>1, <3>1 DEF Process
    <3> QED BY Zenon, <3>1, <3>2 DEF Process
  <2>3. proc' \in [Worker -> Process]
    BY Zenon, <1>5, <2>2 DEF RefreshPublish, r, d, TypeOK
  <2> QED BY Zenon, <1>5, <2>3 DEF TypeOK, RefreshPublish, database, locks
<1>6. ASSUME NEW w \in Worker PROVE Published(w) \in [Run -> RunStatus]
  BY <1>0 DEF TypeOK, Published, Process
<1>7. ASSUME NEW w \in Worker, CommitStart(w) PROVE TypeOK'
  <2>1. [Down EXCEPT !.pc = "idle"] \in Process
    BY Zenon, DownType DEF Process
  <2> QED BY Zenon, <1>6, <1>7, <2>1 DEF TypeOK, CommitStart
<1>8. ASSUME NEW w \in Worker, RecoverSelect(w) PROVE TypeOK'
  <2>1. Recoverable \subseteq Job
    BY Zenon DEF Recoverable, Orphans
  <2>2. proc[w] \in Process
    BY Zenon, <1>0
  <2>3. [proc[w] EXCEPT !.pc = "recovering", !.picked = Recoverable] \in Process
    BY ZenonT(60), <2>1, <2>2 DEF Process
  <2>4. proc' \in [Worker -> Process]
    BY Zenon, <1>8, <2>3 DEF RecoverSelect, TypeOK
  <2> QED BY Zenon, <1>8, <2>4 DEF TypeOK, RecoverSelect, database
<1>9. ASSUME NEW w \in Worker, RecoverCommit(w) PROVE TypeOK'
  <2>1. row' \in [Job -> Row]
    <3>1. \A j \in Job : RecoveredRow(row[j]) \in Row
      BY Zenon, RecoveredRowType DEF TypeOK
    <3> QED BY Zenon, <1>9, <3>1 DEF TypeOK, RecoverCommit
  <2>2. proc[w] \in Process
    BY Zenon, <1>0
  <2>3. [proc[w] EXCEPT !.pc = "polling", !.picked = {}] \in Process
    BY ZenonT(60), <2>2 DEF Process
  <2> QED BY Zenon, <1>9, <2>1, <2>3 DEF TypeOK, RecoverCommit
<1>10. ASSUME NEW w \in Worker, ClaimSelect(w) PROVE TypeOK'
  <2>1. PICK j \in Candidates :
          /\ jobLock' = [jobLock EXCEPT ![j] = w]
          /\ provLock' = IF IsAcquisition(j)
                         THEN [provLock EXCEPT ![ProviderOf[j]] = w] ELSE provLock
          /\ Move(w, [proc[w] EXCEPT !.pc = "claiming", !.job = j,
                                     !.token = row[j].generation + 1])
    BY ZenonT(60), <1>10 DEF ClaimSelect
  <2>2. j \in Job /\ row[j].generation + 1 \in Nat
    BY DEF Candidates, TypeOK, Row
  <2>3. proc[w] \in Process
    BY Zenon, <1>0
  <2>4. [proc[w] EXCEPT !.pc = "claiming", !.job = j,
                        !.token = row[j].generation + 1] \in Process
    BY ZenonT(60), <2>2, <2>3 DEF Process
  <2>5. /\ UNCHANGED <<row, wrote, status, cooldown, runLock, losses>>
        /\ gate' = w
        /\ rowLock' = [k \in Job |-> IF k \in Candidates THEN w ELSE rowLock[k]]
    BY Zenon, <1>10 DEF ClaimSelect, database
  <2> QED BY Zenon, <2>1, <2>2, <2>4, <2>5 DEF TypeOK
<1>11. ASSUME NEW w \in Worker, ClaimNothing(w) PROVE TypeOK'
  <2>1. proc[w] \in Process
    BY Zenon, <1>0
  <2>2. [proc[w] EXCEPT !.pc = "idle"] \in Process
    BY Zenon, <2>1 DEF Process
  <2> QED BY Zenon, <1>11, <2>2 DEF TypeOK, ClaimNothing, database, locks
<1>12. ASSUME NEW w \in Worker, ClaimCommit(w) PROVE TypeOK'
  <2>1. proc[w] \in Process
    BY Zenon, <1>0
  <2>2. row' \in [Job -> Row]
    <3>1. proc[w].token \in Nat
      BY Zenon, <2>1 DEF Process
    <3>2. \A j \in Job : ClaimedRow(w, row[j]) \in Row
      BY Zenon, <3>1, ClaimedRowType DEF TypeOK
    <3> QED BY ZenonT(60), <1>12, <3>2 DEF TypeOK, ClaimCommit
  <2>3. [proc[w] EXCEPT !.pc = "claimed"] \in Process
    BY Zenon, <2>1 DEF Process
  <2> QED BY Zenon, <1>12, <2>2, <2>3 DEF TypeOK, ClaimCommit
<1>13. ASSUME NEW w \in Worker, BeginRefresh(w) PROVE TypeOK'
  <2>1. proc[w] \in Process /\ RunOf[proc[w].job] \in Run
    BY Zenon, <1>0, <1>13 DEF BeginRefresh, JobKnown, Claimed
  <2>2. [proc[w] EXCEPT !.pc = "refreshing", !.todo = {RunOf[proc[w].job]}] \in Process
    BY ZenonT(60), <2>1 DEF Process
  <2> QED BY ZenonT(60), <1>13, <2>2 DEF TypeOK, BeginRefresh, database
<1>14. ASSUME NEW w \in Worker, CommitRefresh(w) PROVE TypeOK'
  <2>1. proc[w] \in Process /\ Down.derived \in [Run -> RunStatus \cup {None}]
    BY Zenon, <1>0, DownType DEF Process
  <2>2. [proc[w] EXCEPT !.pc = "executing", !.derived = Down.derived] \in Process
    BY ZenonT(60), <2>1 DEF Process
  <2> QED BY Zenon, <1>6, <1>14, <2>2 DEF TypeOK, CommitRefresh
<1>15. ASSUME NEW w \in Worker, Checkpoint(w) PROVE TypeOK'
  <2>1. proc[w].token \in Nat
    BY Zenon, <1>0 DEF Process
  <2> QED BY ZenonT(60), <1>15, <2>1 DEF TypeOK, Checkpoint, locks
<1>16. ASSUME NEW w \in Worker, NEW c \in Job, Enqueue(w, c) PROVE TypeOK'
  <2>1. proc[w].token \in Nat
    BY Zenon, <1>0 DEF Process
  <2>2. [row[c] EXCEPT !.state = "pending"] \in Row
    BY Zenon, EditedRowType DEF TypeOK
  <2>3. row' = [row EXCEPT ![c] = [row[c] EXCEPT !.state = "pending"]]
    BY Zenon, <1>16 DEF Enqueue
  <2>4. row' \in [Job -> Row]
    BY Zenon, <2>2, <2>3 DEF TypeOK
  <2>5. wrote' \in [Job -> Nat]
    BY ZenonT(60), <1>16, <2>1 DEF TypeOK, Enqueue
  <2> QED BY Zenon, <1>16, <2>4, <2>5 DEF TypeOK, Enqueue, locks
<1>17. ASSUME NEW w \in Worker, NEW o \in Outcome, FinishMark(w, o) PROVE TypeOK'
  <2> DEFINE j == proc[w].job
             d == (o = "transient" /\ IsAcquisition(j))
  <2>1. proc[w] \in Process /\ j \in Job /\ RunOf[j] \in Run
    BY Zenon, <1>0, <1>17 DEF FinishMark, JobKnown, Claimed
  <2>2. FinishedRow(row[j], o) \in Row
    BY Zenon, <2>1, FinishedRowType DEF TypeOK
  <2>3. d \in BOOLEAN
    OBVIOUS
  <2>4. proc' = [proc EXCEPT ![w] = [proc[w] EXCEPT !.pc = "finishing", !.todo = {RunOf[j]},
                             !.mark = FinishedRow(row[j], o), !.defer = d]]
    BY Zenon, <1>17 DEF FinishMark
  <2> HIDE DEF d, j
  <2>5. [proc[w] EXCEPT !.pc = "finishing", !.todo = {RunOf[j]},
                        !.mark = FinishedRow(row[j], o), !.defer = d] \in Process
    BY ZenonT(60), <2>1, <2>2, <2>3 DEF Process
  <2>6. proc' \in [Worker -> Process]
    BY Zenon, <2>4, <2>5 DEF TypeOK
  <2>7. UNCHANGED <<row, wrote, status, cooldown, runLock, jobLock, provLock, gate, losses>>
        /\ rowLock' = [rowLock EXCEPT ![j] = w]
    BY Zenon, <1>17 DEF FinishMark, database, j
  <2> QED BY ZenonT(60), <2>6, <2>7 DEF TypeOK
<1>18. ASSUME NEW w \in Worker, CommitFinish(w) PROVE TypeOK'
  <2> DEFINE j == proc[w].job
             t == proc[w].token
  <2>1. /\ proc[w] \in Process /\ t \in Nat
        /\ j \in Job /\ ProviderOf[j] \in Provider /\ proc[w].mark \in Row
    BY Zenon, <1>0, <1>18 DEF CommitFinish, JobKnown, Claimed, Process
  <2>2. [Down EXCEPT !.pc = "finished", !.job = j, !.token = t] \in Process
    BY ZenonT(60), <2>1, DownType DEF Process
  <2> QED BY Zenon, <1>6, <1>18, <2>1, <2>2 DEF TypeOK, CommitFinish
<1>19. ASSUME NEW w \in Worker, Release(w) PROVE TypeOK'
  <2>1. [Down EXCEPT !.pc = "idle"] \in Process
    BY Zenon, DownType DEF Process
  <2> QED BY Zenon, <1>19, <2>1 DEF TypeOK, Release, database
<1>20. ASSUME NEW w \in Worker, SessionLost(w) PROVE TypeOK'
  BY <1>20, DownType DEF TypeOK, SessionLost, database
<1>21. ASSUME NEW w \in Worker, LeaseLost(w) PROVE TypeOK'
  BY Zenon, <1>21, DownType DEF TypeOK, LeaseLost, database
<1>22. ASSUME NEW r \in Run, Cancel(r) PROVE TypeOK'
  BY Zenon, <1>22 DEF TypeOK, Cancel, locks
<1>23. CASE Unblock
  <2>1. \A j \in Job : [row[j] EXCEPT !.state = "pending"] \in Row
    BY ZenonT(60), EditedRowType DEF TypeOK
  <2> QED BY Zenon, <1>23, <2>1 DEF TypeOK, Unblock, locks
<1>24. ASSUME NEW j \in Job, RetryDue(j) PROVE TypeOK'
  <2>1. [row[j] EXCEPT !.next = "due"] \in Row
    BY ZenonT(60), EditedRowType DEF TypeOK
  <2>2. row' = [row EXCEPT ![j] = [row[j] EXCEPT !.next = "due"]]
    BY Zenon, <1>24 DEF RetryDue
  <2> QED BY <1>24, <2>1, <2>2 DEF TypeOK, RetryDue, locks
<1>25. ASSUME NEW p \in Provider, CooldownOver(p) PROVE TypeOK'
  BY Zenon, <1>25 DEF TypeOK, CooldownOver, locks
<1>26. ASSUME NEW w \in Worker, DeferProvider(w) PROVE TypeOK'
  <2>1. ProviderOf[proc[w].job] \in Provider
    BY Zenon, <1>26 DEF DeferProvider, JobKnown, Claimed
  <2> QED BY Zenon, <1>26, <2>1 DEF TypeOK, DeferProvider, locks
<1> QED
  BY Zenon, <1>26, <1>1, <1>2, <1>3, <1>4, <1>5, <1>7, <1>8, <1>9, <1>10, <1>11, <1>12, <1>13, <1>14,
     <1>15, <1>16, <1>17, <1>18, <1>19, <1>20, <1>21, <1>22, <1>23, <1>24, <1>25
     DEF Next, Loop, Refresh, Finish

-----------------------------------------------------------------------------
(* Why a live executor keeps its job.  A claim in flight holds the job's   *)
(* row and locks, so the row it read is the row it updates.  A recovery in *)
(* flight holds the rows it will reset, and those have no job lock, hence  *)
(* no live owner; and no claim takes the lock while the row is held.       *)

ClaimHolds(w) ==
  LET j == proc[w].job IN
  proc[w].pc = "claiming" =>
    /\ rowLock[j] = w /\ jobLock[j] = w
    /\ IsAcquisition(j) => provLock[ProviderOf[j]] = w
    /\ row[j].state \in {"pending", "blocked"}
    /\ proc[w].token = row[j].generation + 1

RecoveryHolds(w) ==
  proc[w].pc = "recovering" =>
    \A j \in proc[w].picked :
      rowLock[j] = w /\ jobLock[j] = None /\ row[j].state = "in_progress"

FinishHolds(w) ==
  LET j == proc[w].job IN
  /\ proc[w].pc \in {"refreshing", "finishing"} => rowLock[j] = w /\ jobLock[j] = w
  /\ proc[w].pc = "finishing" =>
       /\ proc[w].mark.state \in {"pending", "blocked"} \cup Terminal
       /\ proc[w].mark.generation = row[j].generation

Owns(w) == ClaimHolds(w) /\ RecoveryHolds(w) /\ FinishHolds(w) /\ (Holds(w) => FenceHolds(w))

(* The token of a job in progress is the one of its newest claim.          *)
TokenIsNewest == \A j \in Job : row[j].state = "in_progress" => row[j].token = row[j].generation

(* The inductive invariant.                                                *)
IInv == TypeOK /\ JobKnown /\ TokenIsNewest /\ \A w \in Worker : Owns(w)

(* A fresh database with no session satisfies the invariant.               *)
LEMMA InitIInv == Init => IInv
<1> SUFFICES ASSUME Init PROVE IInv
  OBVIOUS
<1>1. NoRow \in Row /\ [NoRow EXCEPT !.state = "pending"] \in Row
  BY Zenon DEF NoRow, Row
<1>2. TypeOK
  BY Zenon, <1>1, DownType, ConstantsAssumption DEF Init, TypeOK
<1>3. \A w \in Worker : proc[w].pc = "down"
  BY Zenon DEF Init, Down
<1>4. JobKnown /\ \A w \in Worker : Owns(w)
  BY Zenon, <1>3 DEF JobKnown, Claimed, Owns, ClaimHolds, RecoveryHolds, FinishHolds, Holds
<1>5. TokenIsNewest
  BY Zenon DEF Init, NoRow, TokenIsNewest
<1> QED BY Zenon, <1>2, <1>4, <1>5 DEF IInv

(* A step of process w moves no other process.                             *)
LEMMA Frame ==
  ASSUME TypeOK, NEW w \in Worker, NEW q, Move(w, q)
  PROVE  proc'[w] = q /\ \A v \in Worker : v # w => proc'[v] = proc[v]
BY Zenon DEF TypeOK

(* What a step leaves of a row: all but the retry deadline and count.      *)
SameClaim(j) ==
  /\ row'[j].state = row[j].state /\ row'[j].generation = row[j].generation
  /\ row'[j].token = row[j].token /\ row'[j].owner = row[j].owner

(* What a step leaves of a process: all but its refresh of a run.          *)
SameOwner(v) ==
  /\ proc'[v].pc = proc[v].pc /\ proc'[v].job = proc[v].job
  /\ proc'[v].token = proc[v].token /\ proc'[v].picked = proc[v].picked
  /\ proc'[v].mark = proc[v].mark

(* A step respects session v: it neither takes nor gives a lock of v, and  *)
(* does not write a row that v has locked or whose job v executes.         *)
Respects(v) ==
  /\ \A j \in Job :
       /\ rowLock[j] = v => rowLock'[j] = v
       /\ jobLock'[j] = v <=> jobLock[j] = v
       /\ rowLock[j] = v /\ jobLock[j] = None => jobLock'[j] = None
       /\ rowLock[j] = v /\ row[j].state # "absent" => SameClaim(j)
       /\ jobLock[j] = v /\ row[j].state = "in_progress" => SameClaim(j)
  /\ \A x \in Provider : provLock[x] = v => provLock'[x] = v

(* A step that respects v keeps what the invariant says of v.              *)
LEMMA RespectedOwns ==
  ASSUME IInv, NEW v \in Worker, SameOwner(v), Respects(v)
  PROVE  Owns(v)'
<1>1. TypeOK /\ proc[v] \in Process /\ Owns(v)
  BY Zenon DEF IInv, TypeOK
<1>2. Claimed(v) => proc[v].job \in Job
  BY Zenon DEF IInv, JobKnown
<1>3. proc[v].picked \subseteq Job
  BY Zenon, <1>1 DEF Process
<1>4. /\ proc'[v].pc = proc[v].pc /\ proc'[v].job = proc[v].job
      /\ proc'[v].token = proc[v].token /\ proc'[v].picked = proc[v].picked
      /\ proc'[v].mark = proc[v].mark
  BY Zenon DEF SameOwner
<1>5. \A j \in Job :
        /\ rowLock[j] = v => rowLock'[j] = v
        /\ jobLock'[j] = v <=> jobLock[j] = v
        /\ rowLock[j] = v /\ jobLock[j] = None => jobLock'[j] = None
  BY Zenon DEF Respects
<1>6. \A j \in Job :
        \/ rowLock[j] = v /\ row[j].state # "absent"
        \/ jobLock[j] = v /\ row[j].state = "in_progress"
        => /\ row'[j].state = row[j].state /\ row'[j].generation = row[j].generation
           /\ row'[j].token = row[j].token /\ row'[j].owner = row[j].owner
  BY Zenon DEF Respects, SameClaim
<1>0. \A j \in Job : provLock[ProviderOf[j]] = v => provLock'[ProviderOf[j]] = v
  BY Zenon, ConstantsAssumption DEF Respects
<1>7. ClaimHolds(v)'
  <2>1. ClaimHolds(v)
    BY Zenon, <1>1 DEF Owns
  <2> QED BY Zenon, <1>0, <1>2, <1>4, <1>5, <1>6, <2>1 DEF ClaimHolds, Claimed
<1>8. RecoveryHolds(v)'
  <2>1. RecoveryHolds(v)
    BY Zenon, <1>1 DEF Owns
  <2> QED BY Zenon, <1>3, <1>4, <1>5, <1>6, <2>1 DEF RecoveryHolds
<1>9. Holds(v)' => Holds(v)
  BY Zenon, <1>2, <1>4, <1>5 DEF Holds, Claimed
<1>10. (Holds(v) => FenceHolds(v))'
  <2>1. Holds(v) => FenceHolds(v)
    BY Zenon, <1>1 DEF Owns
  <2>2. SUFFICES ASSUME Holds(v)' PROVE FenceHolds(v)'
    OBVIOUS
  <2>3. FenceHolds(v) /\ proc[v].job \in Job /\ jobLock[proc[v].job] = v
    BY Zenon, <1>2, <1>9, <2>1, <2>2 DEF Holds, Claimed
  <2> QED BY Zenon, <1>0, <1>4, <1>5, <1>6, <2>3 DEF FenceHolds
<1>11. FinishHolds(v)'
  <2>1. FinishHolds(v) /\ (Holds(v) => FenceHolds(v))
    BY Zenon, <1>1 DEF Owns
  <2>2. proc[v].pc \in {"refreshing", "finishing"} => proc[v].job \in Job
    BY Zenon, <1>2 DEF Claimed
  <2>3. proc[v].pc \in {"refreshing", "finishing"} => row[proc[v].job].state = "in_progress"
    BY Zenon, <2>1 DEF FinishHolds, Holds, FenceHolds, Claimed
  <2> QED BY Zenon, <1>4, <1>5, <1>6, <2>1, <2>2, <2>3 DEF FinishHolds
<1> QED BY Zenon, <1>7, <1>8, <1>10, <1>11 DEF Owns

-----------------------------------------------------------------------------
(* What each action must do to the rest of the invariant.                  *)
Keeps(w) == /\ \A v \in Worker : v # w => SameOwner(v) /\ Respects(v)
            /\ Owns(w)' /\ (Claimed(w)' => proc'[w].job \in Job)
            /\ TokenIsNewest'

(* Refreshing a run touches no job.                                        *)
LEMMA RefreshKeeps == ASSUME IInv, NEW w \in Worker, Refresh(w) PROVE Keeps(w)
<1>1. TypeOK /\ proc[w] \in Process
  BY Zenon DEF IInv, TypeOK
<1>2. SameOwner(w)
  <2>1. CASE RefreshLock(w)
    <3> DEFINE r == NextRun(w)
    <3> HIDE DEF r
    <3>1. Move(w, [proc[w] EXCEPT !.todo = @ \ {r}]) \/ Move(w, [proc[w] EXCEPT !.at = "count"])
      BY Zenon, <2>1 DEF RefreshLock, r
    <3> QED BY <1>1, <3>1, Frame DEF Process, SameOwner
  <2>2. CASE RefreshCount(w)
    <3> DEFINE s == {View(w)[j] : j \in JobsOf(NextRun(w))}
    <3> HIDE DEF s
    <3>1. Move(w, [proc[w] EXCEPT !.seen = s, !.at = "publish"])
      BY Zenon, <2>2 DEF RefreshCount, s
    <3> QED BY <1>1, <3>1, Frame DEF Process, SameOwner
  <2>3. CASE RefreshPublish(w)
    <3>1. PICK d, t : Move(w, [proc[w] EXCEPT !.derived = d, !.todo = t, !.at = "lock", !.seen = {}])
      BY Zenon, <2>3 DEF RefreshPublish
    <3> QED BY <1>1, <3>1, Frame DEF Process, SameOwner
  <2> QED BY Zenon, <2>1, <2>2, <2>3 DEF Refresh
<1>3. \A v \in Worker : v # w => SameOwner(v)
  BY <1>1, Frame DEF Refresh, RefreshLock, RefreshCount, RefreshPublish, SameOwner
<1>4. UNCHANGED <<row, rowLock, jobLock, provLock>>
  BY Zenon DEF Refresh, RefreshLock, RefreshCount, RefreshPublish, database, locks
<1>5. \A v \in Worker : Respects(v)
  BY Zenon, <1>4 DEF Respects, SameClaim
<1>6. Owns(w)' /\ (Claimed(w)' => proc'[w].job \in Job) /\ TokenIsNewest'
  BY Zenon, <1>2, <1>4, <1>5, RespectedOwns DEF IInv, SameOwner, Claimed, JobKnown, TokenIsNewest
<1> QED BY Zenon, <1>3, <1>5, <1>6 DEF Keeps

(* Starting, polling in vain and releasing leave a process that owns       *)
(* nothing, and give back no lock but its own.                             *)
LEMMA FreeKeeps ==
  ASSUME IInv, NEW w \in Worker,
         Start(w) \/ CommitStart(w) \/ ClaimNothing(w) \/ Release(w) \/ LeaseLost(w)
  PROVE  Keeps(w)
<1> USE ConstantsAssumption
<1>1. TypeOK /\ proc[w] \in Process
  BY Zenon DEF IInv, TypeOK
<1>2. proc'[w].pc \in {"down", "starting", "idle"}
  <2> DEFINE polled == [proc[w] EXCEPT !.pc = "idle"]
             started == [Down EXCEPT !.pc = "starting", !.todo = Run]
             ended == [Down EXCEPT !.pc = "idle"]
  <2>1. proc'[w] \in {polled, started, ended, Down}
    BY ZenonT(60), <1>1, Frame DEF Start, CommitStart, ClaimNothing, Release, LeaseLost
  <2>2. polled.pc = "idle"
    BY Zenon, <1>1 DEF Process
  <2>3. started.pc = "starting" /\ ended.pc = "idle" /\ Down.pc = "down"
    BY Zenon DEF Down
  <2> QED BY Zenon, <2>1, <2>2, <2>3
<1>3. \A v \in Worker : v # w => SameOwner(v)
  BY <1>1, Frame DEF Start, CommitStart, ClaimNothing, Release, LeaseLost, SameOwner
<1>4. /\ UNCHANGED <<row, rowLock>>
      /\ jobLock' = jobLock \/ jobLock' = Without(jobLock, w)
      /\ provLock' = provLock \/ provLock' = Without(provLock, w)
  BY Zenon DEF Start, CommitStart, ClaimNothing, Release, LeaseLost, database, locks
<1>5. \A v \in Worker : v # w => Respects(v)
  BY <1>1, <1>4 DEF TypeOK, Respects, SameClaim
<1>6. Owns(w)' /\ (Claimed(w)' => proc'[w].job \in Job)
  BY Zenon, <1>2 DEF Owns, ClaimHolds, RecoveryHolds, FinishHolds, Holds, Claimed
<1> QED BY Zenon, <1>3, <1>4, <1>5, <1>6 DEF Keeps, TokenIsNewest, IInv

(* A lost session takes its own locks with it.  A process that has not     *)
(* noticed yet holds no job's lock any more.                               *)
LEMMA SessionLostKeeps == ASSUME IInv, NEW w \in Worker, SessionLost(w) PROVE Keeps(w)
<1> USE ConstantsAssumption
<1>1. TypeOK /\ proc[w] \in Process
  BY Zenon DEF IInv, TypeOK
<1>2. /\ \A v \in Worker : v # w => SameOwner(v)
      /\ \/ proc'[w] = proc[w] /\ proc[w].pc \in {"claimed", "executing"}
         \/ proc'[w] = Down
  BY ZenonT(60), <1>1, Frame DEF SessionLost, SameOwner
<1>3. /\ UNCHANGED row /\ rowLock' = Without(rowLock, w)
      /\ jobLock' = Without(jobLock, w) /\ provLock' = Without(provLock, w)
  BY Zenon DEF SessionLost, database
<1>4. \A v \in Worker : v # w => Respects(v)
  BY <1>1, <1>3 DEF TypeOK, Respects, SameClaim
<1>5. Claimed(w)' => proc'[w].job \in Job
  <2>1. Claimed(w) => proc[w].job \in Job
    BY Zenon DEF IInv, JobKnown
  <2>2. CASE proc'[w] = proc[w]
    BY Zenon, <2>1, <2>2 DEF Claimed
  <2>3. CASE proc'[w] = Down
    BY <2>3 DEF Claimed, Down
  <2> QED BY Zenon, <1>2, <2>2, <2>3
<1>6. ~Holds(w)'
  BY Zenon, <1>1, <1>3, <1>5 DEF TypeOK, Holds, Claimed
<1>7. Owns(w)'
  <2>1. proc'[w].pc \in {"claimed", "executing", "down"}
    BY <1>2 DEF Down
  <2> QED BY Zenon, <1>6, <2>1 DEF Owns, ClaimHolds, RecoveryHolds, FinishHolds
<1> QED BY Zenon, <1>2, <1>3, <1>4, <1>5, <1>7 DEF Keeps, TokenIsNewest, IInv

(* Selecting orphans locks rows nobody had locked, and picks those whose   *)
(* job nobody has locked.                                                  *)
LEMMA RecoverSelectKeeps == ASSUME IInv, NEW w \in Worker, RecoverSelect(w) PROVE Keeps(w)
<1> USE ConstantsAssumption
<1>1. TypeOK /\ proc[w] \in Process
  BY Zenon DEF IInv, TypeOK
<1>2. proc'[w] = [proc[w] EXCEPT !.pc = "recovering", !.picked = Recoverable]
  BY ZenonT(60), <1>1, Frame DEF RecoverSelect
<1>3. proc'[w].pc = "recovering" /\ proc'[w].picked = Recoverable
  BY Zenon, <1>1, <1>2 DEF Process
<1>4. \A v \in Worker : v # w => SameOwner(v)
  BY <1>1, Frame DEF RecoverSelect, SameOwner
<1>5. /\ UNCHANGED <<row, jobLock, provLock>>
      /\ rowLock' = [j \in Job |-> IF j \in Orphans THEN w ELSE rowLock[j]]
  BY Zenon DEF RecoverSelect, database
<1>6. \A v \in Worker : v # w => Respects(v)
  BY Zenon, <1>1, <1>5 DEF TypeOK, Respects, SameClaim, Orphans
<1>7. RecoveryHolds(w)'
  BY Zenon, <1>1, <1>3, <1>5 DEF TypeOK, RecoveryHolds, Recoverable, Orphans
<1>8. Owns(w)' /\ ~Claimed(w)'
  BY Zenon, <1>3, <1>7 DEF Owns, ClaimHolds, FinishHolds, Holds, Claimed
<1> QED BY Zenon, <1>4, <1>5, <1>6, <1>8 DEF Keeps, TokenIsNewest, IInv

(* Recovery resets only rows it has locked, of jobs without a live owner.  *)
LEMMA RecoverCommitKeeps == ASSUME IInv, NEW w \in Worker, RecoverCommit(w) PROVE Keeps(w)
<1> USE ConstantsAssumption
<1>1. TypeOK /\ proc[w] \in Process /\ proc[w].pc = "recovering" /\ RecoveryHolds(w)
  BY Zenon DEF IInv, TypeOK, RecoverCommit, Owns
<1>2. proc'[w] = [proc[w] EXCEPT !.pc = "polling", !.picked = {}]
  BY ZenonT(60), <1>1, Frame DEF RecoverCommit
<1>3. proc'[w].pc = "polling"
  BY Zenon, <1>1, <1>2 DEF Process
<1>4. \A v \in Worker : v # w => SameOwner(v)
  BY <1>1, Frame DEF RecoverCommit, SameOwner
<1>5. /\ UNCHANGED <<jobLock, provLock>> /\ rowLock' = Without(rowLock, w)
      /\ row' = [j \in Job |-> IF j \in proc[w].picked THEN RecoveredRow(row[j]) ELSE row[j]]
  BY Zenon DEF RecoverCommit
<1>6. \A j \in Job : IF j \in proc[w].picked
                     THEN rowLock[j] = w /\ jobLock[j] = None /\ row'[j].state = "pending"
                     ELSE row'[j] = row[j]
  <2>1. \A r \in Row : RecoveredRow(r).state = "pending"
    BY Zenon DEF RecoveredRow, Row
  <2> QED BY Zenon, <1>1, <1>5, <2>1 DEF TypeOK, RecoveryHolds
<1>7. \A v \in Worker : v # w => Respects(v)
  <2>1. \A j \in Job : rowLock'[j] = IF rowLock[j] = w THEN None ELSE rowLock[j]
    BY Zenon, <1>1, <1>5 DEF TypeOK
  <2>2. \A j \in Job : rowLock[j] # w \/ jobLock[j] # None => SameClaim(j)
    BY Zenon, <1>6 DEF SameClaim
  <2>3. \A v \in Worker : v # None
    BY Zenon, ConstantsAssumption
  <2>4. jobLock' = jobLock /\ provLock' = provLock
    BY Zenon, <1>5
  <2> QED BY Zenon, <2>1, <2>2, <2>3, <2>4 DEF Respects
<1>8. Owns(w)' /\ ~Claimed(w)'
  BY Zenon, <1>3 DEF Owns, ClaimHolds, RecoveryHolds, FinishHolds, Holds, Claimed
<1>9. TokenIsNewest'
  BY Zenon, <1>6 DEF TokenIsNewest, IInv
<1> QED BY Zenon, <1>4, <1>7, <1>8, <1>9 DEF Keeps

(* A claim takes locks nobody holds, of a row nobody has locked.           *)
LEMMA ClaimSelectKeeps == ASSUME IInv, NEW w \in Worker, ClaimSelect(w) PROVE Keeps(w)
<1> USE ConstantsAssumption
<1>1. TypeOK /\ proc[w] \in Process
  BY Zenon DEF IInv, TypeOK
<1>2. PICK j \in Candidates :
        /\ Lockable(j)
        /\ jobLock' = [jobLock EXCEPT ![j] = w]
        /\ provLock' = IF IsAcquisition(j)
                       THEN [provLock EXCEPT ![ProviderOf[j]] = w] ELSE provLock
        /\ Move(w, [proc[w] EXCEPT !.pc = "claiming", !.job = j,
                                   !.token = row[j].generation + 1])
  BY Zenon DEF ClaimSelect
<1>3. j \in Job /\ rowLock[j] = None /\ row[j].state \in {"pending", "blocked"}
  BY Zenon, <1>2 DEF Candidates, Admissible, Schedulable
<1>4. /\ proc'[w].pc = "claiming" /\ proc'[w].job = j
      /\ proc'[w].token = row[j].generation + 1
  <2>1. proc'[w] = [proc[w] EXCEPT !.pc = "claiming", !.job = j,
                                   !.token = row[j].generation + 1]
    BY Zenon, <1>1, <1>2, Frame
  <2> QED BY Zenon, <1>1, <2>1 DEF Process
<1>5. \A v \in Worker : v # w => SameOwner(v)
  BY Zenon, <1>1, <1>2, Frame DEF SameOwner
<1>6. /\ UNCHANGED row
      /\ rowLock' = [i \in Job |-> IF i \in Candidates THEN w ELSE rowLock[i]]
  BY Zenon DEF ClaimSelect, database
<1>7. \A v \in Worker : v # w => Respects(v)
  <2> SUFFICES ASSUME NEW v \in Worker, v # w PROVE Respects(v)
    OBVIOUS
  <2>1. \A i \in Job : rowLock[i] = v => rowLock'[i] = v
    BY Zenon, <1>1, <1>6 DEF TypeOK, Candidates
  <2>2. \A i \in Job : /\ jobLock'[i] = v <=> jobLock[i] = v
                       /\ rowLock[i] = v /\ jobLock[i] = None => jobLock'[i] = None
    BY Zenon, <1>1, <1>2, <1>3 DEF TypeOK, Lockable
  <2>3. \A x \in Provider : provLock[x] = v => provLock'[x] = v
    BY Zenon, <1>1, <1>2, <1>3 DEF TypeOK, Lockable
  <2> QED BY Zenon, <1>6, <2>1, <2>2, <2>3 DEF Respects, SameClaim
<1>8. ClaimHolds(w)'
  BY <1>1, <1>2, <1>3, <1>4, <1>6 DEF TypeOK, ClaimHolds
<1>9. Owns(w)' /\ (Claimed(w)' => proc'[w].job \in Job)
  BY Zenon, <1>3, <1>4, <1>8 DEF Owns, RecoveryHolds, FinishHolds, Holds
<1> QED BY Zenon, <1>5, <1>6, <1>7, <1>9 DEF Keeps, TokenIsNewest, IInv

(* The claim commits to the row it selected and still has locked.          *)
LEMMA ClaimCommitKeeps == ASSUME IInv, NEW w \in Worker, ClaimCommit(w) PROVE Keeps(w)
<1> USE ConstantsAssumption
<1> DEFINE j == proc[w].job
<1>1. TypeOK /\ proc[w] \in Process /\ proc[w].pc = "claiming" /\ j \in Job /\ ClaimHolds(w)
  BY Zenon DEF IInv, TypeOK, ClaimCommit, Owns, JobKnown, Claimed
<1>2. proc'[w] = [proc[w] EXCEPT !.pc = "claimed"]
  BY ZenonT(60), <1>1, Frame DEF ClaimCommit
<1>3. proc'[w].pc = "claimed" /\ proc'[w].job = j /\ proc'[w].token = proc[w].token
  BY Zenon, <1>1, <1>2 DEF Process
<1>4. \A v \in Worker : v # w => SameOwner(v)
  BY <1>1, Frame DEF ClaimCommit, SameOwner
<1>5. /\ UNCHANGED <<jobLock, provLock>> /\ rowLock' = Without(rowLock, w)
      /\ row' = [row EXCEPT ![j] = ClaimedRow(w, row[j])]
  BY Zenon DEF ClaimCommit
<1>6. /\ row'[j].state = "in_progress" /\ row'[j].owner = w
      /\ row'[j].token = proc[w].token /\ row'[j].generation = row[j].generation + 1
  BY <1>1, <1>5 DEF TypeOK, ClaimedRow, Row
<1>7. \A i \in Job : i # j => row'[i] = row[i]
  BY Zenon, <1>1, <1>5 DEF TypeOK
<1> HIDE DEF j
<1>8. \A v \in Worker : v # w => Respects(v)
  BY SMTT(60), <1>1, <1>5, <1>7 DEF TypeOK, Respects, SameClaim, ClaimHolds, j
<1>9. Owns(w)' /\ (Claimed(w)' => proc'[w].job \in Job)
  BY ZenonT(60), <1>1, <1>3, <1>5, <1>6 DEF Owns, ClaimHolds, RecoveryHolds, FinishHolds, Holds, FenceHolds, j
<1>10. TokenIsNewest'
  BY ZenonT(60), <1>1, <1>6, <1>7 DEF TokenIsNewest, IInv, ClaimHolds, j
<1> QED BY Zenon, <1>4, <1>8, <1>9, <1>10 DEF Keeps

(* A fenced transaction that locks the row of the job its process executes *)
(* keeps the claim as it is.                                               *)
LEMMA BeginRefreshKeeps == ASSUME IInv, NEW w \in Worker, BeginRefresh(w) PROVE Keeps(w)
<1> USE ConstantsAssumption
<1> DEFINE j == proc[w].job
<1>1. /\ TypeOK /\ proc[w] \in Process /\ proc[w].pc = "claimed" /\ j \in Job
      /\ FenceHolds(w) /\ rowLock[j] = None
  BY Zenon DEF IInv, TypeOK, BeginRefresh, JobKnown, Claimed, CanWrite
<1>2. proc'[w] = [proc[w] EXCEPT !.pc = "refreshing", !.todo = {RunOf[j]}]
  BY ZenonT(60), <1>1, Frame DEF BeginRefresh
<1>3. proc'[w].pc = "refreshing" /\ proc'[w].job = j /\ proc'[w].token = proc[w].token
  BY Zenon, <1>1, <1>2 DEF Process
<1>4. \A v \in Worker : v # w => SameOwner(v)
  BY <1>1, Frame DEF BeginRefresh, SameOwner
<1>5. UNCHANGED <<row, jobLock, provLock>> /\ rowLock' = [rowLock EXCEPT ![j] = w]
  BY Zenon DEF BeginRefresh, database
<1> HIDE DEF j
<1>6. \A v \in Worker : v # w => Respects(v)
  BY Zenon, <1>1, <1>5 DEF TypeOK, Respects, SameClaim
<1>7. Owns(w)' /\ (Claimed(w)' => proc'[w].job \in Job)
  BY ZenonT(60), <1>1, <1>3, <1>5 DEF TypeOK, Owns, ClaimHolds, RecoveryHolds, FinishHolds, Holds, FenceHolds, j
<1> QED BY Zenon, <1>4, <1>5, <1>6, <1>7 DEF Keeps, TokenIsNewest, IInv

(* The commit of the refresh gives back the row's lock, and the claim      *)
(* stays.                                                                  *)
LEMMA CommitRefreshKeeps == ASSUME IInv, NEW w \in Worker, CommitRefresh(w) PROVE Keeps(w)
<1> USE ConstantsAssumption
<1> DEFINE j == proc[w].job
<1>1. /\ TypeOK /\ proc[w] \in Process /\ proc[w].pc = "refreshing" /\ j \in Job
      /\ Holds(w) => FenceHolds(w)
  BY Zenon DEF IInv, TypeOK, CommitRefresh, JobKnown, Claimed, Owns
<1>2. proc'[w] = [proc[w] EXCEPT !.pc = "executing", !.derived = Down.derived]
  BY ZenonT(60), <1>1, Frame DEF CommitRefresh
<1>3. proc'[w].pc = "executing" /\ proc'[w].job = j /\ proc'[w].token = proc[w].token
  BY Zenon, <1>1, <1>2 DEF Process
<1>4. \A v \in Worker : v # w => SameOwner(v)
  BY <1>1, Frame DEF CommitRefresh, SameOwner
<1>5. UNCHANGED <<row, jobLock, provLock>> /\ rowLock' = Without(rowLock, w)
  BY Zenon DEF CommitRefresh
<1> HIDE DEF j
<1>6. \A v \in Worker : v # w => Respects(v)
  BY Zenon, <1>1, <1>5 DEF TypeOK, Respects, SameClaim
<1>7. Owns(w)' /\ (Claimed(w)' => proc'[w].job \in Job)
  BY Zenon, <1>1, <1>3, <1>5 DEF Owns, ClaimHolds, RecoveryHolds, FinishHolds, Holds, FenceHolds, j
<1> QED BY Zenon, <1>4, <1>5, <1>6, <1>7 DEF Keeps, TokenIsNewest, IInv

(* finish_attempt writes the row of a job its process owns, and locks it.  *)
LEMMA FinishMarkKeeps ==
  ASSUME IInv, NEW w \in Worker, NEW o \in Outcome, FinishMark(w, o)
  PROVE  Keeps(w)
<1> USE ConstantsAssumption
<1> DEFINE j == proc[w].job
           m == FinishedRow(row[j], o)
           d == (o = "transient" /\ IsAcquisition(j))
<1>1. /\ TypeOK /\ proc[w] \in Process /\ proc[w].pc = "executing" /\ j \in Job
      /\ FenceHolds(w) /\ rowLock[j] = None
  BY Zenon DEF IInv, TypeOK, FinishMark, JobKnown, Claimed, CanWrite
<1>2. proc'[w] = [proc[w] EXCEPT !.pc = "finishing", !.todo = {RunOf[j]}, !.mark = m, !.defer = d]
  BY ZenonT(60), <1>1, Frame DEF FinishMark
<1>3. m.generation = row[j].generation /\ m.state \in {"pending", "blocked"} \cup Terminal
  <2>1. row[j] \in Row /\ o \in ExecutionOutcome
    BY Zenon, <1>1 DEF TypeOK
  <2> QED BY Zenon, <2>1 DEF FinishedRow, Row, ExecutionOutcome
<1> HIDE DEF m, d
<1>4. /\ proc'[w].pc = "finishing" /\ proc'[w].job = j /\ proc'[w].token = proc[w].token
      /\ proc'[w].mark = m
  BY Zenon, <1>1, <1>2 DEF Process
<1>5. \A v \in Worker : v # w => SameOwner(v)
  BY <1>1, Frame DEF FinishMark, SameOwner
<1>6. UNCHANGED <<row, jobLock, provLock>> /\ rowLock' = [rowLock EXCEPT ![j] = w]
  BY Zenon DEF FinishMark, database
<1> HIDE DEF j
<1>7. \A v \in Worker : v # w => Respects(v)
  BY Zenon, <1>1, <1>6 DEF TypeOK, Respects, SameClaim
<1>8. Owns(w)' /\ (Claimed(w)' => proc'[w].job \in Job)
  BY ZenonT(60), <1>1, <1>3, <1>4, <1>6 DEF TypeOK, Owns, ClaimHolds, RecoveryHolds, FinishHolds, Holds, FenceHolds, j
<1> QED BY ZenonT(60), <1>5, <1>6, <1>7, <1>8 DEF Keeps, TokenIsNewest, IInv

(* Its commit takes the job out of progress, for good or to be claimed     *)
(* again.                                                                  *)
LEMMA CommitFinishKeeps == ASSUME IInv, NEW w \in Worker, CommitFinish(w) PROVE Keeps(w)
<1> USE ConstantsAssumption
<1> DEFINE j == proc[w].job
<1>1. /\ TypeOK /\ proc[w] \in Process /\ proc[w].pc = "finishing" /\ j \in Job
      /\ FinishHolds(w)
  BY Zenon DEF IInv, TypeOK, CommitFinish, JobKnown, Claimed, Owns
<1>2. proc'[w] = [Down EXCEPT !.pc = "finished", !.job = j, !.token = proc[w].token]
  BY ZenonT(60), <1>1, Frame DEF CommitFinish
<1>3. proc'[w].pc = "finished" /\ proc'[w].job = j
  BY Zenon, <1>2 DEF Down
<1>4. \A v \in Worker : v # w => SameOwner(v)
  BY <1>1, Frame DEF CommitFinish, SameOwner
<1>5. /\ UNCHANGED <<jobLock, provLock>> /\ rowLock' = Without(rowLock, w)
      /\ row' = [row EXCEPT ![j] = proc[w].mark]
  BY Zenon DEF CommitFinish
<1>6. \A i \in Job : IF i = j THEN row'[i].state # "in_progress" ELSE row'[i] = row[i]
  BY ZenonT(60), <1>1, <1>5 DEF TypeOK, FinishHolds
<1>7. rowLock[j] = w /\ jobLock[j] = w
  BY Zenon, <1>1 DEF FinishHolds
<1> HIDE DEF j
<1>8. \A v \in Worker : v # w => Respects(v)
  BY ZenonT(60), <1>1, <1>5, <1>6, <1>7 DEF TypeOK, Respects, SameClaim
<1>9. Owns(w)' /\ (Claimed(w)' => proc'[w].job \in Job)
  BY Zenon, <1>1, <1>3 DEF Owns, ClaimHolds, RecoveryHolds, FinishHolds, Holds
<1>10. TokenIsNewest'
  BY Zenon, <1>6 DEF TokenIsNewest, IInv
<1> QED BY Zenon, <1>4, <1>8, <1>9, <1>10 DEF Keeps

(* The steps that move no process and take no lock, and write at most rows *)
(* that are absent, blocked and unlocked, or the deadline of a row.        *)
LEMMA UnlockedKeeps ==
  ASSUME IInv,
         \/ UNCHANGED vars
         \/ \E w \in Worker : Checkpoint(w) \/ DeferProvider(w) \/ \E c \in Job : Enqueue(w, c)
         \/ \E r \in Run : Cancel(r)
         \/ Unblock
         \/ \E j \in Job : RetryDue(j)
         \/ \E p \in Provider : CooldownOver(p)
  PROVE  TokenIsNewest' /\ \A v \in Worker : SameOwner(v) /\ Respects(v)
<1> USE ConstantsAssumption
<1>1. TypeOK /\ TokenIsNewest
  BY Zenon DEF IInv
<1>2. UNCHANGED <<rowLock, jobLock, provLock, proc>>
  BY Zenon DEF Checkpoint, DeferProvider, Enqueue, Cancel, Unblock, RetryDue, CooldownOver, vars, locks
<1>3. \A j \in Job :
        \/ SameClaim(j)
        \/ row[j].state = "absent" /\ row'[j].state = "pending"
        \/ row[j].state = "blocked" /\ rowLock[j] = None /\ row'[j].state = "pending"
  <2>1. CASE UNCHANGED row
    BY Zenon, <2>1 DEF SameClaim
  <2>2. ASSUME NEW w \in Worker, NEW c \in Job, Enqueue(w, c)
        PROVE  row[c].state = "absent" /\ row' = [row EXCEPT ![c] = [row[c] EXCEPT !.state = "pending"]]
    BY Zenon, <2>2 DEF Enqueue
  <2>3. ASSUME NEW c \in Job, row[c].state = "absent",
               row' = [row EXCEPT ![c] = [row[c] EXCEPT !.state = "pending"]]
        PROVE  \A j \in Job : SameClaim(j) \/ (row[j].state = "absent" /\ row'[j].state = "pending")
    <3>1. row[c] \in Row
      BY Zenon, <1>1 DEF TypeOK
    <3>2. [row[c] EXCEPT !.state = "pending"].state = "pending"
      BY Zenon, <3>1 DEF Row
    <3> QED BY Zenon, <1>1, <2>3, <3>2 DEF TypeOK, SameClaim
  <2>4. CASE Unblock
    <3>1. \A j \in Job : [row[j] EXCEPT !.state = "pending"].state = "pending"
      BY <1>1 DEF TypeOK, Row
    <3> QED BY Zenon, <1>1, <2>4, <3>1 DEF TypeOK, Unblock, Unblockable, SameClaim
  <2>5. ASSUME NEW i \in Job, RetryDue(i) PROVE \A j \in Job : SameClaim(j)
    <3> DEFINE e == [row[i] EXCEPT !.next = "due"]
    <3>1. /\ e.state = row[i].state /\ e.generation = row[i].generation
          /\ e.token = row[i].token /\ e.owner = row[i].owner
      BY <1>1 DEF TypeOK, Row
    <3>2. row' = [row EXCEPT ![i] = e]
      BY Zenon, <2>5 DEF RetryDue
    <3> HIDE DEF e
    <3> QED BY Zenon, <1>1, <3>1, <3>2 DEF TypeOK, SameClaim
  <2> QED BY Zenon, <2>1, <2>2, <2>3, <2>4, <2>5 DEF Checkpoint, DeferProvider, Cancel, CooldownOver, vars, database
<1>4. \A v \in Worker : SameOwner(v)
  BY Zenon, <1>2 DEF SameOwner
<1>5. \A v \in Worker : Respects(v)
  BY Zenon, <1>1, <1>2, <1>3 DEF Respects
<1>6. TokenIsNewest'
  BY SMTT(60), <1>1, <1>3 DEF TokenIsNewest, SameClaim
<1> QED BY Zenon, <1>4, <1>5, <1>6

(* The invariant is inductive.                                             *)
LEMMA IInvStep == IInv /\ [Next]_vars => IInv'
<1> SUFFICES ASSUME IInv, [Next]_vars PROVE IInv'
  OBVIOUS
<1>1. TypeOK'
  BY Zenon, TypeStep DEF IInv
<1>2. ASSUME NEW w \in Worker, Keeps(w) PROVE IInv'
  <2>1. \A v \in Worker : Owns(v)'
    BY Zenon, <1>2, RespectedOwns DEF Keeps
  <2>2. JobKnown'
    BY Zenon, <1>2 DEF Keeps, IInv, JobKnown, Claimed, SameOwner
  <2> QED BY Zenon, <1>1, <1>2, <2>1, <2>2 DEF Keeps, IInv
<1>3. ASSUME TokenIsNewest', \A v \in Worker : SameOwner(v) /\ Respects(v) PROVE IInv'
  <2>1. \A v \in Worker : Owns(v)'
    BY Zenon, <1>3, RespectedOwns
  <2>2. JobKnown'
    BY Zenon, <1>3 DEF IInv, JobKnown, Claimed, SameOwner
  <2> QED BY Zenon, <1>1, <1>3, <2>1, <2>2 DEF IInv
<1>4. ASSUME NEW w \in Worker, Loop(w) PROVE Keeps(w)
  BY Zenon, <1>4, RefreshKeeps, FreeKeeps, RecoverSelectKeeps, RecoverCommitKeeps, ClaimSelectKeeps,
     ClaimCommitKeeps, BeginRefreshKeeps, CommitRefreshKeeps, CommitFinishKeeps DEF Loop
<1>5. ASSUME NEW w \in Worker, Finish(w) \/ SessionLost(w) PROVE Keeps(w)
  BY Zenon, <1>5, FinishMarkKeeps, SessionLostKeeps DEF Finish
<1> QED BY Zenon, <1>2, <1>3, <1>4, <1>5, UnlockedKeeps DEF Next

-----------------------------------------------------------------------------
(* The tables and the processes keep their types in every behaviour of     *)
(* the workers, whatever the numbers of workers, jobs and runs.            *)
THEOREM TypeCorrect == Spec => []TypeOK
<1>1. IInv => TypeOK
  BY Zenon DEF IInv
<1> QED BY <1>1, InitIInv, IInvStep, PTL DEF Spec

(* Recovery never steals a live session: a worker whose session holds the  *)
(* lock of the job it claimed still owns the row with its token, for any   *)
(* number of workers and jobs, any losses and any order of their steps.    *)
THEOREM LiveOwnerKeepsJob == Spec => []OwnerKeepsJob
<1>1. IInv => OwnerKeepsJob
  BY Zenon DEF IInv, Owns, OwnerKeepsJob
<1> QED BY <1>1, InitIInv, IInvStep, PTL DEF Spec

(* At most one live executor acquires from a provider: the session lock    *)
(* of the provider has one holder, and every live owner is one.            *)
THEOREM OneAcquisitionPerProvider == Spec => []ProviderSerial
<1>1. IInv => ProviderSerial
  BY SMTT(60) DEF IInv, Owns, FenceHolds, ProviderSerial
<1> QED BY <1>1, InitIInv, IInvStep, PTL DEF Spec

-----------------------------------------------------------------------------
(* The workers implement the ledger.                                       *)

LedgerStep == [Ledger!LedgerNext]_(Ledger!ledger)

SameEntry(j) == Phase(j)' = Phase(j) /\ row'[j].generation = row[j].generation

(* What leaves every entry of the ledger alone is a stuttering step.       *)
LEMMA LedgerStutter ==
  ASSUME UNCHANGED wrote, \A j \in Job : SameEntry(j)
  PROVE  LedgerStep
BY Zenon DEF LedgerStep, Ledger!ledger, SameEntry

(* The phase of a row depends on its state only.                           *)
LEMMA PhaseOf ==
  ASSUME NEW j \in Job
  PROVE  /\ row[j].state = "absent" => Phase(j) = "absent"
         /\ row[j].state \in {"pending", "blocked"} => Phase(j) = "open"
         /\ row[j].state = "in_progress" => Phase(j) = "held"
         /\ row[j].state \in Terminal => Phase(j) = "closed"
         /\ row'[j].state = "absent" => Phase(j)' = "absent"
         /\ row'[j].state \in {"pending", "blocked"} => Phase(j)' = "open"
         /\ row'[j].state = "in_progress" => Phase(j)' = "held"
         /\ row'[j].state \in Terminal => Phase(j)' = "closed"
         /\ row'[j].state = row[j].state => Phase(j)' = Phase(j)
BY Zenon DEF Phase

(* Initially jobs are absent or open, and no claim was ever made.          *)
LEMMA LedgerInitially == Init => Ledger!LedgerInit
<1> SUFFICES ASSUME Init PROVE Ledger!LedgerInit
  OBVIOUS
<1>1. \A j \in Job : row[j].generation = 0 /\ row[j].state \in {"absent", "pending"}
  BY Zenon DEF Init, NoRow
<1>2. \A j \in Job : Phase(j) \in {"absent", "open"}
  BY Zenon, <1>1, PhaseOf
<1> QED BY Zenon, <1>1, <1>2 DEF Init, Ledger!LedgerInit

(* A committed claim takes the job.                                        *)
LEMMA ClaimTakes == ASSUME IInv, NEW w \in Worker, ClaimCommit(w) PROVE LedgerStep
<1>0. PICK j \in Job : j = proc[w].job
  BY Zenon DEF IInv, ClaimCommit, JobKnown, Claimed
<1>1. TypeOK /\ ClaimHolds(w) /\ proc[w].pc = "claiming"
  BY Zenon DEF IInv, ClaimCommit, Owns
<1>2. row' = [row EXCEPT ![j] = ClaimedRow(w, row[j])] /\ UNCHANGED wrote
  BY Zenon, <1>0 DEF ClaimCommit
<1>3. row'[j].state = "in_progress" /\ row'[j].generation = row[j].generation + 1
  BY <1>1, <1>2 DEF TypeOK, ClaimedRow, Row
<1>4. \A i \in Job : i # j => row'[i] = row[i]
  BY Zenon, <1>1, <1>2 DEF TypeOK
<1>5. row[j].state \in {"pending", "blocked"}
  BY Zenon, <1>0, <1>1 DEF ClaimHolds
<1>6. Phase(j) = "open" /\ Phase(j)' = "held" /\ \A i \in Job : i # j => Phase(i)' = Phase(i)
  BY Zenon, <1>1, <1>3, <1>4, <1>5, PhaseOf
<1>7. Ledger!Take(j)
  <2> DEFINE phase == [i \in Job |-> Phase(i)]
             generation == [i \in Job |-> row[i].generation]
  <2>1. phase' = [phase EXCEPT ![j] = "held"]
    BY ZenonT(60), <1>6
  <2>2. generation' = [generation EXCEPT ![j] = generation[j] + 1]
    BY ZenonT(60), <1>3, <1>4
  <2> QED BY Zenon, <1>2, <1>6, <2>1, <2>2 DEF Ledger!Take
<1> QED BY Zenon, <1>1, <1>7 DEF LedgerStep, Ledger!LedgerNext

(* A fenced write stores evidence under the newest claim of its job.       *)
LEMMA FencedWriteStores ==
  ASSUME IInv, NEW w \in Worker, NEW new \in SUBSET Job,
         proc[w].pc = "executing", FenceHolds(w),
         wrote' = [wrote EXCEPT ![proc[w].job] = proc[w].token],
         \A c \in Job : IF c \in new
                        THEN /\ row[c].state = "absent" /\ row'[c].state = "pending"
                             /\ row'[c].generation = row[c].generation
                        ELSE row'[c] = row[c]
  PROVE  LedgerStep
<1> DEFINE j == proc[w].job
<1>1. j \in Job /\ row[j].state = "in_progress" /\ proc[w].token = row[j].generation
  BY Zenon DEF IInv, JobKnown, Claimed, FenceHolds, TokenIsNewest
<1>2. Phase(j) = "held"
  BY Zenon, <1>1, PhaseOf
<1>3. \A c \in Job : IF c \in new THEN Phase(c) = "absent" /\ Phase(c)' = "open"
                     ELSE Phase(c)' = Phase(c)
  BY Zenon, PhaseOf
<1>4. \A c \in Job : row'[c].generation = row[c].generation
  OBVIOUS
<1> HIDE DEF j
<1>5. wrote' = [wrote EXCEPT ![j] = row[j].generation]
  BY Zenon, <1>1 DEF j
<1>6. Ledger!Store(j, new)
  BY ZenonT(60), <1>1, <1>2, <1>3, <1>4, <1>5 DEF Ledger!Store
<1> QED BY Zenon, <1>1, <1>6 DEF LedgerStep, Ledger!LedgerNext

(* Recovery gives back the jobs it picked.                                 *)
LEMMA RecoveryGivesBack == ASSUME IInv, NEW w \in Worker, RecoverCommit(w) PROVE LedgerStep
<1> DEFINE js == proc[w].picked
<1>1. TypeOK /\ RecoveryHolds(w) /\ proc[w].pc = "recovering" /\ js \subseteq Job
  BY Zenon DEF IInv, TypeOK, RecoverCommit, Owns, Process
<1>2. /\ row' = [j \in Job |-> IF j \in js THEN RecoveredRow(row[j]) ELSE row[j]]
      /\ UNCHANGED wrote
  BY Zenon DEF RecoverCommit
<1>3. \A r \in Row : RecoveredRow(r).state = "pending" /\ RecoveredRow(r).generation = r.generation
  BY Zenon DEF RecoveredRow, Row
<1>4. \A j \in Job : /\ row'[j].generation = row[j].generation
                     /\ IF j \in js THEN row[j].state = "in_progress" /\ row'[j].state = "pending"
                        ELSE row'[j].state = row[j].state
  BY Zenon, <1>1, <1>2, <1>3 DEF TypeOK, RecoveryHolds
<1> HIDE DEF js
<1>5. \A j \in Job : IF j \in js THEN Phase(j) = "held" /\ Phase(j)' = "open"
                     ELSE Phase(j)' = Phase(j)
  BY Zenon, <1>4, PhaseOf
<1>6. Ledger!GiveBack(js)
  BY Zenon, <1>1, <1>2, <1>4, <1>5 DEF Ledger!GiveBack
<1> QED BY Zenon, <1>1, <1>6 DEF LedgerStep, Ledger!LedgerNext

(* A finished attempt gives the job back or closes it.                     *)
LEMMA FinishGivesBackOrCloses ==
  ASSUME IInv, NEW w \in Worker, CommitFinish(w) PROVE LedgerStep
<1>0. PICK j \in Job : j = proc[w].job
  BY Zenon DEF IInv, CommitFinish, JobKnown, Claimed
<1>1. TypeOK /\ FinishHolds(w) /\ proc[w].pc = "finishing" /\ row[j].state = "in_progress"
  BY Zenon, <1>0 DEF IInv, CommitFinish, Owns, Holds, FenceHolds, FinishHolds
<1>2. row' = [row EXCEPT ![j] = proc[w].mark] /\ UNCHANGED wrote
  BY Zenon, <1>0 DEF CommitFinish
<1>3. \A i \in Job : row'[i].generation = row[i].generation /\ (i # j => row'[i] = row[i])
  BY Zenon, <1>0, <1>1, <1>2 DEF TypeOK, FinishHolds
<1>4. row'[j].state \in {"pending", "blocked"} \cup Terminal
  BY Zenon, <1>0, <1>1, <1>2 DEF TypeOK, FinishHolds
<1>5. Phase(j) = "held" /\ \A i \in Job : i # j => Phase(i)' = Phase(i)
  BY ZenonT(60), <1>1, <1>3, PhaseOf
<1>6. CASE row'[j].state \in {"pending", "blocked"}
  <2>1. Phase(j)' = "open"
    BY ZenonT(60), <1>6, PhaseOf
  <2>2. Ledger!GiveBack({j})
    BY Zenon, <1>2, <1>3, <1>5, <2>1 DEF Ledger!GiveBack
  <2> QED BY Zenon, <2>2 DEF LedgerStep, Ledger!LedgerNext
<1>7. CASE row'[j].state \in Terminal
  <2>1. Phase(j)' = "closed"
    BY ZenonT(60), <1>7, PhaseOf
  <2>2. Ledger!Close(j)
    BY ZenonT(60), <1>2, <1>3, <1>5, <2>1 DEF Ledger!Close
  <2> QED BY Zenon, <2>2 DEF LedgerStep, Ledger!LedgerNext
<1> QED BY Zenon, <1>4, <1>6, <1>7

(* Every step of the system is a step of the ledger or a stutter.          *)
LEMMA EveryStepIsALedgerStep == IInv /\ [Next]_vars => LedgerStep
<1> SUFFICES ASSUME IInv, [Next]_vars PROVE LedgerStep
  OBVIOUS
<1>0. TypeOK
  BY Zenon DEF IInv
<1>1. CASE UNCHANGED <<row, wrote>>
  <2>1. \A j \in Job : SameEntry(j)
    BY Zenon, <1>1, PhaseOf DEF SameEntry
  <2> QED BY Zenon, <1>1, <2>1, LedgerStutter
<1>2. ASSUME NEW w \in Worker, Checkpoint(w) PROVE LedgerStep
  <2>1. /\ proc[w].pc = "executing" /\ FenceHolds(w) /\ UNCHANGED row
        /\ wrote' = [wrote EXCEPT ![proc[w].job] = proc[w].token]
    BY Zenon, <1>2 DEF Checkpoint, CanWrite
  <2>2. {} \in SUBSET Job /\ \A c \in Job : c \notin {}
    OBVIOUS
  <2> QED BY Zenon, <2>1, <2>2, FencedWriteStores
<1>3. ASSUME NEW w \in Worker, NEW c \in Job, Enqueue(w, c) PROVE LedgerStep
  <2> DEFINE e == [row[c] EXCEPT !.state = "pending"]
  <2>1. e.state = "pending" /\ e.generation = row[c].generation
    BY <1>0 DEF TypeOK, Row
  <2>2. row' = [row EXCEPT ![c] = e]
    BY Zenon, <1>3 DEF Enqueue
  <2> HIDE DEF e
  <2>3. \A i \in Job : IF i \in {c} THEN /\ row[i].state = "absent" /\ row'[i].state = "pending"
                                         /\ row'[i].generation = row[i].generation
                       ELSE row'[i] = row[i]
    BY Zenon, <1>0, <1>3, <2>1, <2>2 DEF TypeOK, Enqueue
  <2>4. /\ proc[w].pc = "executing" /\ FenceHolds(w)
        /\ wrote' = [wrote EXCEPT ![proc[w].job] = proc[w].token]
    BY Zenon, <1>3 DEF Enqueue, CanWrite
  <2> QED BY ZenonT(60), <2>3, <2>4, FencedWriteStores
<1>4. CASE Unblock
  <2>1. \A r \in Row : /\ [r EXCEPT !.state = "pending"].state = "pending"
                       /\ [r EXCEPT !.state = "pending"].generation = r.generation
    BY Zenon DEF Row
  <2>2. \A j \in Job :
          /\ row'[j].generation = row[j].generation
          /\ \/ row'[j].state = row[j].state
             \/ row[j].state = "blocked" /\ row'[j].state = "pending"
    BY Zenon, <1>0, <1>4, <2>1 DEF TypeOK, Unblock, Unblockable
  <2>3. \A j \in Job : SameEntry(j)
    BY Zenon, <2>2, PhaseOf DEF SameEntry
  <2> QED BY Zenon, <1>4, <2>3, LedgerStutter DEF Unblock
<1>5. ASSUME NEW i \in Job, RetryDue(i) PROVE LedgerStep
  <2> DEFINE e == [row[i] EXCEPT !.next = "due"]
  <2>1. e.state = row[i].state /\ e.generation = row[i].generation
    BY <1>0 DEF TypeOK, Row
  <2>2. row' = [row EXCEPT ![i] = e]
    BY Zenon, <1>5 DEF RetryDue
  <2> HIDE DEF e
  <2>3. \A j \in Job : row'[j].generation = row[j].generation /\ row'[j].state = row[j].state
    BY Zenon, <1>0, <2>1, <2>2 DEF TypeOK
  <2>4. \A j \in Job : SameEntry(j)
    BY Zenon, <2>3, PhaseOf DEF SameEntry
  <2> QED BY Zenon, <1>5, <2>4, LedgerStutter DEF RetryDue
<1>6. ASSUME NEW w \in Worker, Loop(w) PROVE LedgerStep
  BY ZenonT(60), <1>1, <1>6, ClaimTakes, RecoveryGivesBack, FinishGivesBackOrCloses
     DEF Loop, Start, Refresh, RefreshLock, RefreshCount, RefreshPublish, CommitStart,
         RecoverSelect, ClaimSelect, ClaimNothing, BeginRefresh, CommitRefresh, Release,
         LeaseLost, database
<1>7. ASSUME NEW w \in Worker, Finish(w) \/ SessionLost(w) \/ DeferProvider(w) PROVE LedgerStep
  BY Zenon, <1>1, <1>7 DEF DeferProvider, Finish, FinishMark, SessionLost, database
<1>8. CASE UNCHANGED vars
  BY Zenon, <1>1, <1>8 DEF vars, database
<1>9. ASSUME (\E r \in Run : Cancel(r)) \/ (\E p \in Provider : CooldownOver(p)) PROVE LedgerStep
  BY Zenon, <1>1, <1>9 DEF Cancel, CooldownOver
<1> QED BY Zenon, <1>2, <1>3, <1>4, <1>5, <1>6, <1>7, <1>8, <1>9 DEF Next

(* The workers, their sessions and their recovery passes implement the     *)
(* ledger of jobs: a job is taken by one claim at a time, evidence is only *)
(* stored under the newest claim, and a closed job stays closed.           *)
THEOREM WorkersImplementLedger == Spec => ImplementsLedger
<1>1. IInv /\ [Next]_vars => [Ledger!LedgerNext]_(Ledger!ledger)
  BY Zenon, EveryStepIsALedgerStep DEF LedgerStep
<1> QED BY <1>1, LedgerInitially, InitIInv, IInvStep, PTL
        DEF Spec, ImplementsLedger, Ledger!LedgerSpec

-----------------------------------------------------------------------------
(* What a step does to the rows of jobs, and whom it moves.                *)

(* The process moves, all others stay where they are.                      *)
Alone(w) == \A v \in Worker : v # w => proc'[v] = proc[v]

(* The ways in which the state of a job changes.                           *)
RowChange(j) ==
  \/ row'[j].state = row[j].state
  \/ row'[j].state = "pending" /\ row[j].state = "absent" /\ runLock[RunOf[j]] = None
  \/ row'[j].state = "pending" /\ row[j].state \in {"blocked", "in_progress"}
  \/ /\ row'[j].state = "in_progress" /\ row[j].state \in {"pending", "blocked"}
     /\ \E w \in Worker : ClaimCommit(w) /\ proc[w].job = j
  \/ /\ row[j].state = "in_progress"
     /\ \E w \in Worker : /\ CommitFinish(w) /\ proc[w].job = j
                          /\ row'[j].state = proc[w].mark.state

(* Every step moves at most one process.                                   *)
LEMMA OneMoves ==
  ASSUME TypeOK, [Next]_vars
  PROVE  \/ UNCHANGED proc
         \/ \E w \in Worker : Alone(w) /\ (Loop(w) \/ Finish(w) \/ SessionLost(w))
<1>1. ASSUME NEW w \in Worker, NEW q, Move(w, q) PROVE Alone(w)
  BY Zenon, <1>1, Frame DEF Alone
<1>2. ASSUME NEW w \in Worker, Loop(w) PROVE Alone(w)
  <2>1. \E q : Move(w, q)
    BY Zenon, <1>2 DEF Loop, Start, Refresh, RefreshLock, RefreshCount, RefreshPublish, CommitStart,
         RecoverSelect, RecoverCommit, ClaimSelect, ClaimNothing, ClaimCommit, BeginRefresh,
         CommitRefresh, CommitFinish, Release, LeaseLost
  <2> QED BY Zenon, <1>1, <2>1
<1>3. ASSUME NEW w \in Worker, Finish(w) \/ SessionLost(w) PROVE Alone(w)
  <2>1. (\E q : Move(w, q)) \/ UNCHANGED proc
    BY ZenonT(60), <1>3 DEF Finish, FinishMark, SessionLost
  <2> QED BY Zenon, <1>1, <2>1 DEF Alone
<1>4. ASSUME NEW w \in Worker, Checkpoint(w) \/ DeferProvider(w) \/ \E c \in Job : Enqueue(w, c)
      PROVE  UNCHANGED proc
  BY Zenon, <1>4 DEF Checkpoint, DeferProvider, Enqueue
<1>5. ASSUME \/ \E r \in Run : Cancel(r)
             \/ Unblock
             \/ \E j \in Job : RetryDue(j)
             \/ \E p \in Provider : CooldownOver(p)
             \/ UNCHANGED vars
      PROVE  UNCHANGED proc
  BY Zenon, <1>5 DEF Cancel, Unblock, RetryDue, CooldownOver, vars
<1> QED BY Zenon, <1>2, <1>3, <1>4, <1>5 DEF Next

(* The state of a job changes by an insert, an unblock or a recovery, by   *)
(* the commit of its claim or by the commit of its attempt.                *)
LEMMA RowChanges ==
  ASSUME IInv, [Next]_vars, NEW j \in Job
  PROVE  RowChange(j)
<1> USE ConstantsAssumption
<1>0. TypeOK
  BY Zenon DEF IInv
<1>1. CASE UNCHANGED row
  BY Zenon, <1>1 DEF RowChange
<1>2. ASSUME NEW w \in Worker, RecoverCommit(w) PROVE RowChange(j)
  <2>1. RecoveryHolds(w) /\ proc[w].pc = "recovering"
    BY Zenon, <1>2 DEF IInv, Owns, RecoverCommit
  <2>2. \A r \in Row : RecoveredRow(r).state = "pending"
    BY Zenon DEF RecoveredRow, Row
  <2>3. \/ row'[j] = row[j]
        \/ j \in proc[w].picked /\ row'[j] = RecoveredRow(row[j])
    BY Zenon, <1>2 DEF RecoverCommit
  <2> QED BY <1>0, <2>1, <2>2, <2>3 DEF TypeOK, RecoveryHolds, RowChange
<1>3. ASSUME NEW w \in Worker, ClaimCommit(w) PROVE RowChange(j)
  <2>1. ClaimHolds(w) /\ proc[w].pc = "claiming" /\ proc[w].job \in Job
    BY Zenon, <1>3 DEF IInv, Owns, ClaimCommit, JobKnown, Claimed
  <2>2. \A r \in Row : ClaimedRow(w, r).state = "in_progress"
    BY Zenon DEF ClaimedRow, Row
  <2>3. row' = [row EXCEPT ![proc[w].job] = ClaimedRow(w, row[proc[w].job])]
    BY Zenon, <1>3 DEF ClaimCommit
  <2>4. CASE j = proc[w].job
    BY Zenon, <1>0, <1>3, <2>1, <2>2, <2>3, <2>4 DEF TypeOK, ClaimHolds, RowChange
  <2>5. CASE j # proc[w].job
    BY Zenon, <1>0, <2>3, <2>5 DEF TypeOK, RowChange
  <2> QED BY Zenon, <2>4, <2>5
<1>4. ASSUME NEW w \in Worker, CommitFinish(w) PROVE RowChange(j)
  <2>1. /\ FinishHolds(w) /\ proc[w].pc = "finishing" /\ proc[w].job \in Job
        /\ row[proc[w].job].state = "in_progress"
    BY Zenon, <1>4 DEF IInv, Owns, Holds, FenceHolds, FinishHolds, CommitFinish, JobKnown, Claimed
  <2>2. row' = [row EXCEPT ![proc[w].job] = proc[w].mark]
    BY Zenon, <1>4 DEF CommitFinish
  <2> QED BY Zenon, <1>0, <1>4, <2>1, <2>2 DEF TypeOK, RowChange
<1>5. ASSUME NEW w \in Worker, NEW c \in Job, Enqueue(w, c) PROVE RowChange(j)
  <2>1. [row[c] EXCEPT !.state = "pending"].state = "pending"
    BY <1>0 DEF TypeOK, Row
  <2>2. row' = [row EXCEPT ![c] = [row[c] EXCEPT !.state = "pending"]]
    BY Zenon, <1>5 DEF Enqueue
  <2> QED BY Zenon, <1>0, <1>5, <2>1, <2>2 DEF TypeOK, Enqueue, RowChange
<1>6. CASE Unblock
  <2>1. [row[j] EXCEPT !.state = "pending"].state = "pending"
    BY <1>0 DEF TypeOK, Row
  <2> QED BY Zenon, <1>6, <2>1 DEF Unblock, Unblockable, RowChange
<1>7. ASSUME NEW i \in Job, RetryDue(i) PROVE RowChange(j)
  <2>1. [row[i] EXCEPT !.next = "due"].state = row[i].state
    BY <1>0 DEF TypeOK, Row
  <2>2. row' = [row EXCEPT ![i] = [row[i] EXCEPT !.next = "due"]]
    BY Zenon, <1>7 DEF RetryDue
  <2> QED BY Zenon, <1>0, <2>1, <2>2 DEF TypeOK, RowChange
<1>8. ASSUME NEW w \in Worker, Loop(w) PROVE RowChange(j)
  BY ZenonT(60), <1>1, <1>2, <1>3, <1>4, <1>8
     DEF Loop, Start, Refresh, RefreshLock, RefreshCount, RefreshPublish, CommitStart,
         RecoverSelect, ClaimSelect, ClaimNothing, BeginRefresh, CommitRefresh, Release,
         LeaseLost, database
<1>9. ASSUME NEW w \in Worker, Checkpoint(w) \/ DeferProvider(w) \/ Finish(w) \/ SessionLost(w)
      PROVE  RowChange(j)
  BY ZenonT(60), <1>1, <1>9 DEF Checkpoint, DeferProvider, Finish, FinishMark, SessionLost, database
<1>10. ASSUME \/ \E r \in Run : Cancel(r)
              \/ \E p \in Provider : CooldownOver(p)
              \/ UNCHANGED vars
       PROVE  RowChange(j)
  BY Zenon, <1>1, <1>10 DEF Cancel, CooldownOver, vars, database
<1> QED BY Zenon, <1>5, <1>6, <1>7, <1>8, <1>9, <1>10 DEF Next

(* A job that has ended stays as it ended.                                 *)
LEMMA EndedStays ==
  ASSUME IInv, [Next]_vars, NEW j \in Job, row[j].state \in Terminal
  PROVE  row'[j].state = row[j].state
BY Zenon, RowChanges DEF RowChange

(* Where each step of a worker leaves its process.                         *)
LEMMA NewPc ==
  ASSUME TypeOK, NEW w \in Worker
  PROVE  /\ Start(w) => proc'[w].pc = "starting"
         /\ Refresh(w) => proc'[w].pc = proc[w].pc
         /\ CommitStart(w) \/ ClaimNothing(w) \/ Release(w) => proc'[w].pc = "idle"
         /\ RecoverSelect(w) => proc'[w].pc = "recovering"
         /\ RecoverCommit(w) => proc'[w].pc = "polling"
         /\ ClaimSelect(w) => proc'[w].pc = "claiming"
         /\ ClaimCommit(w) => proc'[w].pc = "claimed"
         /\ BeginRefresh(w) => proc'[w].pc = "refreshing"
         /\ CommitRefresh(w) => proc'[w].pc = "executing"
         /\ Finish(w) => proc'[w].pc = "finishing"
         /\ CommitFinish(w) => proc'[w].pc = "finished"
         /\ LeaseLost(w) => proc'[w].pc = "down"
         /\ SessionLost(w) => \/ proc'[w].pc = "down"
                              \/ proc[w].pc \in {"claimed", "executing"} /\ proc'[w] = proc[w]
<1>1. proc \in [Worker -> Process] /\ proc[w] \in Process
  BY Zenon DEF TypeOK
<1>2. ASSUME Start(w) PROVE proc'[w].pc = "starting"
  <2>1. proc'[w] = [Down EXCEPT !.pc = "starting", !.todo = Run]
    BY Zenon, <1>1, <1>2 DEF Start
  <2> QED BY Zenon, <2>1 DEF Down
<1>3. ASSUME CommitStart(w) PROVE proc'[w].pc = "idle"
  <2>1. proc'[w] = [Down EXCEPT !.pc = "idle"]
    BY Zenon, <1>1, <1>3 DEF CommitStart
  <2> QED BY Zenon, <2>1 DEF Down
<1>4. ASSUME Release(w) PROVE proc'[w].pc = "idle"
  <2>1. proc'[w] = [Down EXCEPT !.pc = "idle"]
    BY Zenon, <1>1, <1>4 DEF Release
  <2> QED BY Zenon, <2>1 DEF Down
<1>5. ASSUME CommitFinish(w) PROVE proc'[w].pc = "finished"
  <2>1. proc'[w] = [Down EXCEPT !.pc = "finished", !.job = proc[w].job, !.token = proc[w].token]
    BY Zenon, <1>1, <1>5 DEF CommitFinish
  <2> QED BY Zenon, <2>1 DEF Down
<1>6. ASSUME LeaseLost(w) PROVE proc'[w].pc = "down"
  <2>1. proc'[w] = Down
    BY Zenon, <1>1, <1>6 DEF LeaseLost
  <2> QED BY <2>1 DEF Down
<1>7. ASSUME ClaimNothing(w) PROVE proc'[w].pc = "idle"
  <2>1. proc'[w] = [proc[w] EXCEPT !.pc = "idle"]
    BY Zenon, <1>1, <1>7 DEF ClaimNothing
  <2> QED BY Zenon, <1>1, <2>1 DEF Process
<1>8. ASSUME RecoverSelect(w) PROVE proc'[w].pc = "recovering"
  <2>1. proc'[w] = [proc[w] EXCEPT !.pc = "recovering", !.picked = Recoverable]
    BY Zenon, <1>1, <1>8 DEF RecoverSelect
  <2> QED BY Zenon, <1>1, <2>1 DEF Process
<1>9. ASSUME RecoverCommit(w) PROVE proc'[w].pc = "polling"
  <2>1. proc'[w] = [proc[w] EXCEPT !.pc = "polling", !.picked = {}]
    BY Zenon, <1>1, <1>9 DEF RecoverCommit
  <2> QED BY Zenon, <1>1, <2>1 DEF Process
<1>10. ASSUME ClaimCommit(w) PROVE proc'[w].pc = "claimed"
  <2>1. proc'[w] = [proc[w] EXCEPT !.pc = "claimed"]
    BY Zenon, <1>1, <1>10 DEF ClaimCommit
  <2> QED BY Zenon, <1>1, <2>1 DEF Process
<1>11. ASSUME BeginRefresh(w) PROVE proc'[w].pc = "refreshing"
  <2>1. proc'[w] = [proc[w] EXCEPT !.pc = "refreshing", !.todo = {RunOf[proc[w].job]}]
    BY Zenon, <1>1, <1>11 DEF BeginRefresh
  <2> QED BY Zenon, <1>1, <2>1 DEF Process
<1>12. ASSUME CommitRefresh(w) PROVE proc'[w].pc = "executing"
  <2>1. proc'[w] = [proc[w] EXCEPT !.pc = "executing", !.derived = Down.derived]
    BY Zenon, <1>1, <1>12 DEF CommitRefresh
  <2> QED BY Zenon, <1>1, <2>1 DEF Process
<1>13. ASSUME Refresh(w) PROVE proc'[w].pc = proc[w].pc
  <2>1. ASSUME RefreshLock(w) PROVE proc'[w].pc = proc[w].pc
    <3>1. PICK t, a : proc'[w] = [proc[w] EXCEPT !.todo = t] \/ proc'[w] = [proc[w] EXCEPT !.at = a]
      BY Zenon, <1>1, <2>1 DEF RefreshLock
    <3> QED BY Zenon, <1>1, <3>1 DEF Process
  <2>2. ASSUME RefreshCount(w) PROVE proc'[w].pc = proc[w].pc
    <3>1. PICK s : proc'[w] = [proc[w] EXCEPT !.seen = s, !.at = "publish"]
      BY Zenon, <1>1, <2>2 DEF RefreshCount
    <3> QED BY Zenon, <1>1, <3>1 DEF Process
  <2>3. ASSUME RefreshPublish(w) PROVE proc'[w].pc = proc[w].pc
    <3>1. PICK d, t : proc'[w] = [proc[w] EXCEPT !.derived = d, !.todo = t, !.at = "lock", !.seen = {}]
      BY ZenonT(60), <1>1, <2>3 DEF RefreshPublish
    <3> QED BY Zenon, <1>1, <3>1 DEF Process
  <2> QED BY Zenon, <1>13, <2>1, <2>2, <2>3 DEF Refresh
<1>14. ASSUME ClaimSelect(w) PROVE proc'[w].pc = "claiming"
  <2>1. PICK j \in Candidates : Move(w, [proc[w] EXCEPT !.pc = "claiming", !.job = j,
                                                        !.token = row[j].generation + 1])
    BY ZenonT(60), <1>14 DEF ClaimSelect
  <2>2. proc'[w] = [proc[w] EXCEPT !.pc = "claiming", !.job = j, !.token = row[j].generation + 1]
    BY Zenon, <1>1, <2>1
  <2> QED BY Zenon, <1>1, <2>2 DEF Process
<1>15. ASSUME Finish(w) PROVE proc'[w].pc = "finishing"
  <2>1. PICK o \in Outcome : FinishMark(w, o)
    BY Zenon, <1>15 DEF Finish
  <2>2. PICK t, m, d : proc'[w] = [proc[w] EXCEPT !.pc = "finishing", !.todo = t, !.mark = m, !.defer = d]
    BY ZenonT(60), <1>1, <2>1 DEF FinishMark
  <2> QED BY Zenon, <1>1, <2>2 DEF Process
<1>16. ASSUME SessionLost(w)
       PROVE  \/ proc'[w].pc = "down"
              \/ proc[w].pc \in {"claimed", "executing"} /\ proc'[w] = proc[w]
  BY <1>1, <1>16 DEF SessionLost, Down
<1> QED BY Zenon, <1>2, <1>3, <1>4, <1>5, <1>6, <1>7, <1>8, <1>9, <1>10, <1>11, <1>12, <1>13, <1>14, <1>15, <1>16

(* The row an attempt has written is not in progress.                      *)
LEMMA FinishMarked ==
  ASSUME IInv, NEW w \in Worker, CommitFinish(w)
  PROVE  proc[w].mark.state # "in_progress"
BY Zenon DEF IInv, Owns, FinishHolds, CommitFinish

Commits(w) == CommitStart(w) \/ CommitRefresh(w) \/ CommitFinish(w)

(* A run is locked by the first statement of a refresh and unlocked by the *)
(* session that has it.                                                    *)
LEMMA RunLocks ==
  ASSUME TypeOK, [Next]_vars, NEW r \in Run
  PROVE  \/ runLock'[r] = runLock[r]
         \/ \E w \in Worker : RefreshLock(w) /\ runLock[r] = None
         \/ \E w \in Worker : (Commits(w) \/ SessionLost(w)) /\ runLock[r] = w
<1>1. runLock \in [Run -> Worker \cup {None}]
  BY Zenon DEF TypeOK
<1>2. ASSUME NEW w \in Worker, Commits(w) \/ SessionLost(w), runLock[r] # w PROVE runLock'[r] = runLock[r]
  BY Zenon, <1>1, <1>2 DEF Commits, CommitStart, CommitRefresh, CommitFinish, SessionLost
<1>3. ASSUME NEW w \in Worker, RefreshLock(w) PROVE runLock'[r] = runLock[r] \/ runLock[r] = None
  BY Zenon, <1>1, <1>3 DEF RefreshLock, RunFree
<1>4. ASSUME NEW w \in Worker, Loop(w), ~Commits(w), ~RefreshLock(w) PROVE UNCHANGED runLock
  BY ZenonT(60), <1>4
     DEF Loop, Commits, Start, Refresh, RefreshCount, RefreshPublish, RecoverSelect, RecoverCommit,
         ClaimSelect, ClaimNothing, ClaimCommit, BeginRefresh, Release, LeaseLost, locks
<1>5. ASSUME NEW w \in Worker,
             \/ Checkpoint(w) \/ DeferProvider(w) \/ Finish(w) \/ \E c \in Job : Enqueue(w, c)
      PROVE  UNCHANGED runLock
  BY ZenonT(60), <1>5 DEF Checkpoint, DeferProvider, Finish, FinishMark, Enqueue, locks
<1>6. ASSUME \/ \E s \in Run : Cancel(s)
             \/ Unblock
             \/ \E j \in Job : RetryDue(j)
             \/ \E p \in Provider : CooldownOver(p)
             \/ UNCHANGED vars
      PROVE  UNCHANGED runLock
  BY Zenon, <1>6 DEF Cancel, Unblock, RetryDue, CooldownOver, vars, locks
<1> QED BY Zenon, <1>2, <1>3, <1>4, <1>5, <1>6 DEF Next

(* The status of a run changes when the operator cancels it, which waits   *)
(* for its row, and when a refresh commits.                                *)
LEMMA StatusChanges ==
  ASSUME TypeOK, [Next]_vars, NEW r \in Run
  PROVE  \/ status'[r] = status[r]
         \/ status'[r] = "cancelled" /\ runLock[r] = None
         \/ \E w \in Worker : /\ Commits(w) /\ proc[w].derived[r] # None
                              /\ status'[r] = proc[w].derived[r]
<1>1. status \in [Run -> RunStatus]
  BY Zenon DEF TypeOK
<1>2. ASSUME NEW w \in Worker, Commits(w)
      PROVE  status'[r] = IF proc[w].derived[r] = None THEN status[r] ELSE proc[w].derived[r]
  BY Zenon, <1>2 DEF Commits, CommitStart, CommitRefresh, CommitFinish, Published
<1>3. ASSUME NEW s \in Run, Cancel(s) PROVE status'[r] = status[r] \/ (status'[r] = "cancelled" /\ runLock[r] = None)
  BY Zenon, <1>1, <1>3 DEF Cancel
<1>4. ASSUME NEW w \in Worker, Loop(w), ~Commits(w) PROVE UNCHANGED status
  BY ZenonT(60), <1>4
     DEF Loop, Commits, Start, Refresh, RefreshLock, RefreshCount, RefreshPublish, RecoverSelect,
         RecoverCommit, ClaimSelect, ClaimNothing, ClaimCommit, BeginRefresh, Release, LeaseLost,
         database
<1>5. ASSUME NEW w \in Worker,
             \/ Checkpoint(w) \/ DeferProvider(w) \/ Finish(w) \/ SessionLost(w)
             \/ \E c \in Job : Enqueue(w, c)
      PROVE  UNCHANGED status
  BY ZenonT(60), <1>5 DEF Checkpoint, DeferProvider, Finish, FinishMark, SessionLost, Enqueue, database
<1>6. ASSUME \/ Unblock
             \/ \E j \in Job : RetryDue(j)
             \/ \E p \in Provider : CooldownOver(p)
             \/ UNCHANGED vars
      PROVE  UNCHANGED status
  BY Zenon, <1>6 DEF Unblock, RetryDue, CooldownOver, vars, database
<1> QED BY Zenon, <1>2, <1>3, <1>4, <1>5, <1>6 DEF Next

(* A session takes the lock of a job only when it claims.                  *)
LEMMA JobLocks ==
  ASSUME TypeOK, [Next]_vars, NEW j \in Job, NEW w \in Worker, jobLock'[j] = w
  PROVE  jobLock[j] = w \/ ClaimSelect(w)
<1> USE ConstantsAssumption
<1>1. jobLock \in [Job -> Worker \cup {None}]
  BY Zenon DEF TypeOK
<1>2. ASSUME NEW v \in Worker, ClaimSelect(v) PROVE jobLock[j] = w \/ ClaimSelect(w)
  <2>1. PICK i \in Candidates : jobLock' = [jobLock EXCEPT ![i] = v]
    BY ZenonT(60), <1>2 DEF ClaimSelect
  <2> QED BY Zenon, <1>1, <1>2, <2>1
<1>3. ASSUME NEW v \in Worker, Release(v) \/ LeaseLost(v) \/ SessionLost(v) PROVE jobLock[j] = w
  BY Zenon, <1>1, <1>3 DEF Release, LeaseLost, SessionLost
<1>4. ASSUME NEW v \in Worker, Loop(v), ~ClaimSelect(v), ~Release(v), ~LeaseLost(v) PROVE UNCHANGED jobLock
  BY Zenon, <1>4
     DEF Loop, Start, Refresh, RefreshLock, RefreshCount, RefreshPublish, CommitStart, RecoverSelect,
         RecoverCommit, ClaimNothing, ClaimCommit, BeginRefresh, CommitRefresh, CommitFinish, locks
<1>5. ASSUME NEW v \in Worker,
             \/ Checkpoint(v) \/ DeferProvider(v) \/ Finish(v) \/ \E c \in Job : Enqueue(v, c)
      PROVE  UNCHANGED jobLock
  BY ZenonT(60), <1>5 DEF Checkpoint, DeferProvider, Finish, FinishMark, Enqueue, locks
<1>6. ASSUME \/ \E s \in Run : Cancel(s)
             \/ Unblock
             \/ \E i \in Job : RetryDue(i)
             \/ \E p \in Provider : CooldownOver(p)
             \/ UNCHANGED vars
      PROVE  UNCHANGED jobLock
  BY Zenon, <1>6 DEF Cancel, Unblock, RetryDue, CooldownOver, vars, locks
<1> QED BY Zenon, <1>2, <1>3, <1>4, <1>5, <1>6 DEF Next

-----------------------------------------------------------------------------
(* Admission.  The gate lets one claim at a time be in flight, so what its *)
(* admission counted is still an upper bound when it commits; and a parent *)
(* that has ended stays ended.  What is used of the size of sets of jobs   *)
(* is a hypothesis of these lemmas; JobsAreCounted gives it for the        *)
(* theorems.                                                               *)

JobsCounted ==
  /\ Cardinality({}) = 0
  /\ \A S, T \in SUBSET Job :
       /\ Cardinality(S) \in Nat
       /\ T \subseteq S => Cardinality(T) <= Cardinality(S)
       /\ \A j \in Job : T \subseteq S \cup {j} => Cardinality(T) <= Cardinality(S) + 1

ParentEnded(j) ==
  KindOf[j] = "expand" => ParentOf[j] \in Job /\ row[ParentOf[j]].state \in Terminal

ClaimAdmitted(w) ==
  LET j == proc[w].job IN
  proc[w].pc = "claiming" =>
    /\ gate = w
    /\ Cardinality(Active(WorkspaceOf[j])) < MaxActive
    /\ ParentEnded(j)

AdmissionInv ==
  /\ \A w \in Worker : ClaimAdmitted(w)
  /\ ActiveLimit
  /\ \A j \in Job : row[j].state = "in_progress" => ParentEnded(j)

(* A claim is in flight because it was, or because it was just selected.   *)
LEMMA ClaimOrigin ==
  ASSUME TypeOK, [Next]_vars, NEW v \in Worker, proc'[v].pc = "claiming"
  PROVE  ClaimSelect(v) \/ (proc[v].pc = "claiming" /\ proc'[v] = proc[v])
<1>1. ASSUME Loop(v) \/ Finish(v) \/ SessionLost(v) PROVE ClaimSelect(v)
  <2>1. CASE Refresh(v)
    BY ZenonT(60), <2>1, NewPc DEF Refresh, RefreshLock, RefreshCount, RefreshPublish, Refreshes
  <2> QED BY Zenon, <1>1, <2>1, NewPc DEF Loop
<1> QED BY Zenon, <1>1, OneMoves DEF Alone

(* While a claim is at the gate, no step takes the gate from it or commits *)
(* another claim.                                                          *)
LEMMA GateKept ==
  ASSUME TypeOK, [Next]_vars, \A w \in Worker : ClaimAdmitted(w),
         NEW v \in Worker, proc[v].pc = "claiming", proc'[v] = proc[v]
  PROVE  gate' = v /\ \A w \in Worker : ~ClaimCommit(w)
<1> USE ConstantsAssumption
<1>1. gate = v
  BY Zenon DEF ClaimAdmitted
<1>2. \A w \in Worker : ~ClaimCommit(w) /\ ~ClaimSelect(w)
  <2>1. ASSUME NEW w \in Worker, ClaimCommit(w) PROVE FALSE
    <3>1. w = v
      BY Zenon, <1>1, <2>1 DEF ClaimAdmitted, ClaimCommit
    <3> QED BY Zenon, <2>1, <3>1, NewPc
  <2> QED BY ZenonT(60), <1>1, <2>1 DEF ClaimSelect, GateFree
<1>3. ~SessionLost(v)
  BY Zenon, NewPc
<1>4. ASSUME NEW w \in Worker, SessionLost(w) PROVE gate' = v
  BY Zenon, <1>1, <1>3, <1>4 DEF SessionLost
<1>5. ASSUME NEW w \in Worker, Loop(w) \/ Finish(w) PROVE UNCHANGED gate
  BY ZenonT(60), <1>2, <1>5
     DEF Loop, Start, Refresh, RefreshLock, RefreshCount, RefreshPublish, CommitStart,
         RecoverSelect, RecoverCommit, ClaimNothing, BeginRefresh, CommitRefresh,
         CommitFinish, Release, LeaseLost, Finish, FinishMark, locks
<1>6. ASSUME NEW w \in Worker, Checkpoint(w) \/ DeferProvider(w) \/ \E c \in Job : Enqueue(w, c)
      PROVE  UNCHANGED gate
  BY Zenon, <1>6 DEF Checkpoint, DeferProvider, Enqueue, locks
<1>7. ASSUME \/ \E r \in Run : Cancel(r)
             \/ Unblock
             \/ \E j \in Job : RetryDue(j)
             \/ \E p \in Provider : CooldownOver(p)
             \/ UNCHANGED vars
      PROVE  UNCHANGED gate
  BY Zenon, <1>7 DEF Cancel, Unblock, RetryDue, CooldownOver, vars, locks
<1> QED BY Zenon, <1>1, <1>2, <1>4, <1>5, <1>6, <1>7 DEF Next

(* Only the commit of a claim adds an active job to a workspace.           *)
LEMMA ActiveGrows ==
  ASSUME IInv, [Next]_vars, NEW ws \in Workspace
  PROVE  \/ Active(ws)' \subseteq Active(ws)
         \/ \E w \in Worker : /\ ClaimCommit(w) /\ WorkspaceOf[proc[w].job] = ws
                              /\ Active(ws)' \subseteq Active(ws) \cup {proc[w].job}
<1>3. ASSUME NEW j \in Active(ws)', j \notin Active(ws)
      PROVE  \E w \in Worker : ClaimCommit(w) /\ proc[w].job = j /\ WorkspaceOf[j] = ws
  BY Zenon, <1>3, RowChanges, FinishMarked DEF Active, RowChange
<1>4. ASSUME NEW v \in Worker, NEW w \in Worker, ClaimCommit(v), ClaimCommit(w) PROVE v = w
  <2>1. proc[v].pc = "claiming" /\ proc'[w].pc = "claimed" /\ proc'[v].pc = "claimed"
    BY Zenon, <1>4, NewPc DEF ClaimCommit, IInv
  <2> QED BY SMTT(60), <1>4, <2>1, Frame DEF ClaimCommit, IInv
<1> QED BY Zenon, <1>3, <1>4

(* Admission is an invariant.                                              *)
LEMMA AdmissionStep == ASSUME JobsCounted, IInv, AdmissionInv, [Next]_vars PROVE AdmissionInv'
<1> USE ConstantsAssumption
<1>0. TypeOK /\ \A w \in Worker : ClaimAdmitted(w)
  BY Zenon DEF IInv, AdmissionInv
<1>1. \A j \in Job : ParentEnded(j) => ParentEnded(j)'
  BY Zenon, EndedStays DEF ParentEnded
<1>2. \A j \in Job : row'[j].state = "in_progress" => ParentEnded(j)'
  <2> SUFFICES ASSUME NEW j \in Job, row'[j].state = "in_progress" PROVE ParentEnded(j)
    BY Zenon, <1>1
  <2>1. CASE row[j].state = "in_progress"
    BY Zenon, <2>1 DEF AdmissionInv
  <2>2. ASSUME NEW w \in Worker, ClaimCommit(w), proc[w].job = j PROVE ParentEnded(j)
    BY Zenon, <1>0, <2>2 DEF ClaimAdmitted, ClaimCommit
  <2> QED BY Zenon, <2>1, <2>2, RowChanges DEF RowChange
<1>3. ASSUME NEW ws \in Workspace PROVE Cardinality(Active(ws)') <= MaxActive
  <2>1. Active(ws) \in SUBSET Job /\ Active(ws)' \in SUBSET Job
    BY Zenon DEF Active
  <2>2. /\ Cardinality(Active(ws)) \in Nat /\ Cardinality(Active(ws)') \in Nat
        /\ Cardinality(Active(ws)) <= MaxActive
    BY Zenon, <2>1 DEF JobsCounted, AdmissionInv, ActiveLimit
  <2>3. CASE Active(ws)' \subseteq Active(ws)
    <3>1. Cardinality(Active(ws)') <= Cardinality(Active(ws))
      BY Zenon, <2>1, <2>3 DEF JobsCounted
    <3> QED BY <2>2, <3>1
  <2>4. ASSUME NEW w \in Worker, ClaimCommit(w), WorkspaceOf[proc[w].job] = ws,
               Active(ws)' \subseteq Active(ws) \cup {proc[w].job}
        PROVE  Cardinality(Active(ws)') <= MaxActive
    <3>1. Cardinality(Active(ws)) < MaxActive
      BY Zenon, <1>0, <2>4 DEF ClaimAdmitted, ClaimCommit
    <3>2. proc[w].job \in Job
      BY Zenon, <2>4 DEF IInv, JobKnown, Claimed, ClaimCommit
    <3>3. Cardinality(Active(ws)') <= Cardinality(Active(ws)) + 1
      BY Zenon, <2>1, <2>4, <3>2 DEF JobsCounted
    <3> QED BY <2>2, <3>1, <3>3
  <2> QED BY Zenon, <2>3, <2>4, ActiveGrows
<1>4. ASSUME NEW v \in Worker, proc'[v].pc = "claiming"
      PROVE  ClaimAdmitted(v)'
  <2>1. CASE ClaimSelect(v)
    <3>1. PICK j \in Candidates : Move(v, [proc[v] EXCEPT !.pc = "claiming", !.job = j,
                                                          !.token = row[j].generation + 1])
      BY ZenonT(60), <2>1 DEF ClaimSelect
    <3>2. proc[v] \in Process
      BY Zenon, <1>0 DEF TypeOK
    <3>3. proc'[v].job = j
      <4>1. proc'[v] = [proc[v] EXCEPT !.pc = "claiming", !.job = j, !.token = row[j].generation + 1]
        BY ZenonT(60), <1>0, <3>1, Frame
      <4> QED BY Zenon, <3>2, <4>1 DEF Process
    <3>4. /\ j \in Job /\ Cardinality(Active(WorkspaceOf[j])) < MaxActive
          /\ Ready(j, States)
      BY Zenon DEF Candidates, Admissible
    <3>5. ParentEnded(j)
      BY Zenon, <3>4 DEF Ready, States, ParentEnded
    <3>6. UNCHANGED row /\ gate' = v
      BY Zenon, <2>1 DEF ClaimSelect, database
    <3> QED BY Zenon, <3>3, <3>4, <3>5, <3>6 DEF ClaimAdmitted, Active, ParentEnded
  <2>2. CASE proc[v].pc = "claiming" /\ proc'[v] = proc[v]
    <3>1. PICK ws \in Workspace : ws = WorkspaceOf[proc[v].job] /\ proc[v].job \in Job
      BY Zenon, <2>2 DEF IInv, JobKnown, Claimed
    <3>2. gate' = v /\ \A w \in Worker : ~ClaimCommit(w)
      BY Zenon, <1>0, <2>2, GateKept
    <3>3. /\ Active(ws) \in SUBSET Job /\ Active(ws)' \in SUBSET Job
          /\ Active(ws)' \subseteq Active(ws)
      BY Zenon, <3>1, <3>2, ActiveGrows DEF Active
    <3>4. /\ Cardinality(Active(ws)') <= Cardinality(Active(ws))
          /\ Cardinality(Active(ws)) \in Nat /\ Cardinality(Active(ws)') \in Nat
      BY Zenon, <3>3 DEF JobsCounted
    <3>5. Cardinality(Active(ws)) < MaxActive /\ ParentEnded(proc[v].job)
      BY Zenon, <1>0, <2>2, <3>1 DEF ClaimAdmitted
    <3>6. Cardinality(Active(ws)') < MaxActive
      BY <3>4, <3>5
    <3>7. ParentEnded(proc[v].job)'
      BY Zenon, <1>1, <2>2, <3>1, <3>5 DEF ParentEnded
    <3> QED BY Zenon, <2>2, <3>1, <3>2, <3>6, <3>7 DEF ClaimAdmitted
  <2> QED BY Zenon, <1>0, <1>4, <2>1, <2>2, ClaimOrigin
<1>5. \A v \in Worker : ClaimAdmitted(v)'
  BY Zenon, <1>4 DEF ClaimAdmitted
<1>6. ActiveLimit'
  BY Zenon, <1>3 DEF ActiveLimit
<1> QED BY Zenon, <1>2, <1>5, <1>6 DEF AdmissionInv

(* Nothing is in progress at first.                                        *)
LEMMA AdmissionInit == ASSUME JobsCounted, Init PROVE AdmissionInv
<1>1. \A w \in Worker : proc[w].pc = "down"
  BY Zenon DEF Init, Down
<1>2. \A j \in Job : row[j].state # "in_progress"
  BY Zenon DEF Init, NoRow
<1>3. ActiveLimit
  <2>1. \A ws \in Workspace : Active(ws) = {}
    BY Zenon, <1>2 DEF Active
  <2>2. Cardinality({}) = 0 /\ 0 <= MaxActive
    BY ConstantsAssumption DEF JobsCounted
  <2> QED BY Zenon, <2>1, <2>2 DEF ActiveLimit
<1> QED BY Zenon, <1>1, <1>2, <1>3 DEF AdmissionInv, ClaimAdmitted

(* With sets of jobs counted, the limit of active jobs holds throughout,   *)
(* and so does the order of an expansion and its parent.                   *)
LEMMA AdmissionAlways == JobsCounted => (Spec => [](ActiveLimit /\ ExpansionAfterParent))
<1> SUFFICES ASSUME JobsCounted PROVE Spec => [](ActiveLimit /\ ExpansionAfterParent)
  OBVIOUS
<1>1. AdmissionInv => ActiveLimit /\ ExpansionAfterParent
  BY Zenon DEF AdmissionInv, ParentEnded, ExpansionAfterParent
<1>2. Init => AdmissionInv
  BY Zenon, AdmissionInit
<1>3. IInv /\ AdmissionInv /\ [Next]_vars => AdmissionInv'
  BY Zenon, AdmissionStep
<1> QED BY <1>1, <1>2, <1>3, InitIInv, IInvStep, PTL DEF Spec

-----------------------------------------------------------------------------
(* The status of a run.  From its SELECT ... FOR UPDATE to its commit a    *)
(* refresh holds the run's row, and while it does no job of the run can    *)
(* end or be added; so if every job has ended when it commits, every job   *)
(* had ended when it counted.                                              *)

Quiet == Terminal \cup {"absent"}

Counting(v, r) == proc[v].at # "lock" /\ r = NextRun(v)

(* A process that refreshes nothing remembers no status; one that does     *)
(* holds the row of the run it counts and of every run it has a status for.*)
RefreshHolds(v) ==
  /\ ~Refreshes(v) => proc[v].at = "lock" /\ \A r \in Run : proc[v].derived[r] = None
  /\ proc[v].at # "lock" => proc[v].todo # {}
  /\ \A r \in Run : Counting(v, r) \/ proc[v].derived[r] # None
                      => runLock[r] = v /\ status[r] # "cancelled"

(* The run of the job a process claimed or finishes is still to be         *)
(* refreshed, or was, or is cancelled.                                     *)
OwnRunRefreshed(v) ==
  LET r == RunOf[proc[v].job] IN
  proc[v].pc \in {"refreshing", "finishing"} =>
    \/ r \in proc[v].todo
    \/ runLock[r] = v /\ (proc[v].derived[r] # None \/ status[r] = "cancelled")

AllQuiet(v, r) == \A j \in JobsOf(r) : View(v)[j] \in Quiet
SeenBy(v, r) == {View(v)[j] : j \in JobsOf(r)}
Verdict(S) == IF "error" \in S THEN "failed" ELSE "done"

(* What was counted, and the status made of it, are right if nothing is    *)
(* left to do.                                                             *)
CountFaithful(v) ==
  \A r \in Run :
    /\ proc[v].at = "publish" /\ r = NextRun(v) /\ AllQuiet(v, r) => proc[v].seen = SeenBy(v, r)
    /\ proc[v].derived[r] # None /\ AllQuiet(v, r) => proc[v].derived[r] = Verdict(SeenBy(v, r))

(* Process v can only make r running.                                      *)
RunsFor(v, r) ==
  /\ proc[v].derived[r] \in {None, "running"}
  /\ proc[v].at = "publish" /\ r = NextRun(v) => "in_progress" \in proc[v].seen

Executing(w) == proc[w].pc = "executing" /\ jobLock[proc[w].job] = w

RunningKept(w) ==
  LET r == RunOf[proc[w].job] IN
  /\ proc[w].pc = "refreshing" => RunsFor(w, r)
  /\ Executing(w) => /\ status[r] \in {"running", "cancelled"}
                     /\ \A v \in Worker : RunsFor(v, r)

StatusInv ==
  /\ \A v \in Worker : /\ RefreshHolds(v) /\ OwnRunRefreshed(v)
                       /\ CountFaithful(v) /\ RunningKept(v)
  /\ SettledRunStatus


(* What a process knows before the first statement of a refresh: nothing.  *)
Begun(v) == proc[v].at = "lock" /\ \A r \in Run : proc[v].derived[r] = None

-----------------------------------------------------------------------------
(* The order of the runs.  That a set of them has a least member is a      *)
(* hypothesis of these lemmas; SmallestNat gives it for the theorems.      *)

Least(T) == CHOOSE r \in T : \A s \in T : r <= s

RunsOrdered == \A T \in SUBSET Run : T # {} => \E r \in T : \A s \in T : r <= s

(* The next run of a refresh is one of the runs it is to refresh.          *)
LEMMA LeastIn ==
  ASSUME RunsOrdered, NEW T \in SUBSET Run, T # {}
  PROVE  Least(T) \in T /\ Least(T) \in Run
<1>1. \E r \in T : \A s \in T : r <= s
  BY Zenon DEF RunsOrdered
<1> QED BY Zenon, <1>1 DEF Least

(* The next run depends on the runs that are left only.                    *)
LEMMA NextIs == ASSUME NEW w PROVE NextRun(w) = Least(proc[w].todo)
BY Zenon DEF NextRun, Least

(* ... and so it does after a step.                                        *)
LEMMA NextIsPrime == ASSUME NEW w PROVE NextRun(w)' = Least(proc'[w].todo)
BY Zenon DEF NextRun, Least

(* What a statement of w's transaction reads after a step.                 *)
LEMMA ViewOf ==
  ASSUME NEW w, NEW j \in Job
  PROVE  /\ View(w)[j] = IF proc[w].pc = "finishing" /\ proc[w].job = j
                         THEN proc[w].mark.state ELSE row[j].state
         /\ View(w)'[j] = IF proc'[w].pc = "finishing" /\ proc'[w].job = j
                          THEN proc'[w].mark.state ELSE row'[j].state
BY Zenon DEF View

-----------------------------------------------------------------------------
(* What each statement of a refresh does to the process that runs it.      *)

SameClaimant(w) ==
  /\ proc'[w].pc = proc[w].pc /\ proc'[w].job = proc[w].job /\ proc'[w].mark = proc[w].mark

(* RefreshLock takes the row of the next run, or leaves a cancelled run    *)
(* out, and changes nothing of the claim or finish it belongs to.          *)
LEMMA LockEffect ==
  ASSUME TypeOK, NEW w \in Worker, RefreshLock(w)
  PROVE  LET r == NextRun(w) IN
         /\ SameClaimant(w) /\ UNCHANGED database
         /\ proc[w].at = "lock" /\ proc[w].todo # {}
         /\ runLock' = [runLock EXCEPT ![r] = w]
         /\ proc'[w].derived = proc[w].derived /\ proc'[w].seen = proc[w].seen
         /\ \/ status[r] = "cancelled" /\ proc'[w].todo = proc[w].todo \ {r} /\ proc'[w].at = "lock"
            \/ status[r] # "cancelled" /\ proc'[w].todo = proc[w].todo /\ proc'[w].at = "count"
<1>1. proc \in [Worker -> Process] /\ proc[w] \in Process
  BY Zenon DEF TypeOK
<1> DEFINE r == NextRun(w)
<1>2. /\ UNCHANGED database /\ runLock' = [runLock EXCEPT ![r] = w]
      /\ proc[w].at = "lock" /\ proc[w].todo # {}
      /\ \/ status[r] = "cancelled" /\ proc'[w] = [proc[w] EXCEPT !.todo = @ \ {r}]
         \/ status[r] # "cancelled" /\ proc'[w] = [proc[w] EXCEPT !.at = "count"]
  BY Zenon, <1>1 DEF RefreshLock
<1> HIDE DEF r
<1>3. CASE status[r] = "cancelled" /\ proc'[w] = [proc[w] EXCEPT !.todo = @ \ {r}]
  <2>1. /\ proc'[w].derived = proc[w].derived /\ proc'[w].seen = proc[w].seen
        /\ proc'[w].todo = proc[w].todo \ {r} /\ proc'[w].at = proc[w].at /\ SameClaimant(w)
    BY Zenon, <1>1, <1>3 DEF Process, SameClaimant
  <2> QED BY Zenon, <1>2, <1>3, <2>1 DEF r
<1>4. CASE status[r] # "cancelled" /\ proc'[w] = [proc[w] EXCEPT !.at = "count"]
  <2>1. /\ proc'[w].derived = proc[w].derived /\ proc'[w].seen = proc[w].seen
        /\ proc'[w].todo = proc[w].todo /\ proc'[w].at = "count" /\ SameClaimant(w)
    BY Zenon, <1>1, <1>4 DEF Process, SameClaimant
  <2> QED BY Zenon, <1>2, <1>4, <2>1 DEF r
<1> QED BY Zenon, <1>2, <1>3, <1>4

(* RefreshCount remembers the states of the run's jobs that its statement  *)
(* reads, and nothing else.                                                *)
LEMMA CountEffect ==
  ASSUME TypeOK, NEW w \in Worker, RefreshCount(w)
  PROVE  /\ SameClaimant(w) /\ UNCHANGED <<database, runLock>>
         /\ proc[w].at = "count" /\ proc'[w].at = "publish"
         /\ proc'[w].todo = proc[w].todo /\ proc'[w].derived = proc[w].derived
         /\ proc'[w].seen = SeenBy(w, NextRun(w))
<1>1. proc \in [Worker -> Process] /\ proc[w] \in Process
  BY Zenon DEF TypeOK
<1> DEFINE s == SeenBy(w, NextRun(w))
<1>2. /\ UNCHANGED <<database, runLock>> /\ proc[w].at = "count"
      /\ proc'[w] = [proc[w] EXCEPT !.seen = s, !.at = "publish"]
  BY Zenon, <1>1 DEF RefreshCount, SeenBy, locks
<1> HIDE DEF s
<1>3. /\ proc'[w].seen = s /\ proc'[w].at = "publish" /\ SameClaimant(w)
      /\ proc'[w].todo = proc[w].todo /\ proc'[w].derived = proc[w].derived
  BY Zenon, <1>1, <1>2 DEF Process, SameClaimant
<1> QED BY Zenon, <1>2, <1>3 DEF s

(* RefreshPublish derives the status of the run from what was counted and  *)
(* takes the run off the list.                                             *)
LEMMA PublishEffect ==
  ASSUME TypeOK, NEW w \in Worker, RefreshPublish(w)
  PROVE  LET r == NextRun(w) IN
         /\ SameClaimant(w) /\ UNCHANGED <<database, runLock>>
         /\ proc[w].at = "publish" /\ proc'[w].at = "lock"
         /\ proc'[w].todo = proc[w].todo \ {r}
         /\ \E p \in BOOLEAN :
              /\ p => "pending" \in proc[w].seen
              /\ proc'[w].derived = [proc[w].derived EXCEPT ![r] = DerivedStatus(proc[w].seen, p)]
<1>1. proc \in [Worker -> Process] /\ proc[w] \in Process
  BY Zenon DEF TypeOK
<1> DEFINE r == NextRun(w)
           p == /\ "pending" \in proc[w].seen
                /\ \E j \in JobsOf(r) : View(w)[j] = "pending" /\ Ready(j, View(w))
           d == DerivedStatus(proc[w].seen, p)
<1>2. /\ UNCHANGED <<database, runLock>> /\ proc[w].at = "publish"
      /\ proc'[w] = [proc[w] EXCEPT !.derived = [@ EXCEPT ![r] = d], !.todo = @ \ {r},
                                    !.at = "lock", !.seen = {}]
  BY Zenon, <1>1 DEF RefreshPublish, locks
<1>3. p \in BOOLEAN /\ (p => "pending" \in proc[w].seen)
  OBVIOUS
<1>4. d = DerivedStatus(proc[w].seen, p)
  OBVIOUS
<1> HIDE DEF r, p, d
<1>5. /\ proc'[w].derived = [proc[w].derived EXCEPT ![r] = d]
      /\ proc'[w].todo = proc[w].todo \ {r} /\ proc'[w].at = "lock" /\ SameClaimant(w)
  BY <1>1, <1>2 DEF Process, SameClaimant
<1> QED BY Zenon, <1>2, <1>3, <1>4, <1>5 DEF r

-----------------------------------------------------------------------------
(* What the other steps do to the process that takes them.                 *)

(* Every move but a statement of a refresh leaves a process that knows     *)
(* nothing of any run and, if it is about to refresh, still has to refresh *)
(* the run of its job.                                                     *)
LEMMA OtherEffect ==
  ASSUME IInv, NEW w \in Worker, RefreshHolds(w), Loop(w) \/ Finish(w) \/ SessionLost(w), ~Refresh(w)
  PROVE  /\ Begun(w)'
         /\ proc'[w].pc \in {"refreshing", "finishing"} => RunOf[proc'[w].job] \in proc'[w].todo
<1> USE ConstantsAssumption
<1>1. TypeOK /\ proc \in [Worker -> Process] /\ proc[w] \in Process
  BY Zenon DEF IInv, TypeOK
<1>2. ~Refreshes(w) => Begun(w)
  BY Zenon DEF RefreshHolds, Begun
<1>3. ASSUME Start(w) PROVE proc'[w].pc = "starting" /\ Begun(w)'
  <2>1. proc'[w] = [Down EXCEPT !.pc = "starting", !.todo = Run]
    BY Zenon, <1>1, <1>3 DEF Start
  <2> QED BY <2>1 DEF Down, Begun
<1>4. ASSUME CommitStart(w) PROVE proc'[w].pc = "idle" /\ Begun(w)'
  <2>1. proc'[w] = [Down EXCEPT !.pc = "idle"]
    BY Zenon, <1>1, <1>4 DEF CommitStart
  <2> QED BY <2>1 DEF Down, Begun
<1>5. ASSUME Release(w) PROVE proc'[w].pc = "idle" /\ Begun(w)'
  <2>1. proc'[w] = [Down EXCEPT !.pc = "idle"]
    BY Zenon, <1>1, <1>5 DEF Release
  <2> QED BY <2>1 DEF Down, Begun
<1>6. ASSUME CommitFinish(w) PROVE proc'[w].pc = "finished" /\ Begun(w)'
  <2>1. proc'[w] = [Down EXCEPT !.pc = "finished", !.job = proc[w].job, !.token = proc[w].token]
    BY Zenon, <1>1, <1>6 DEF CommitFinish
  <2> QED BY <2>1 DEF Down, Begun
<1>7. ASSUME LeaseLost(w) PROVE proc'[w].pc = "down" /\ Begun(w)'
  <2>1. proc'[w] = Down
    BY Zenon, <1>1, <1>7 DEF LeaseLost
  <2> QED BY <2>1 DEF Down, Begun
<1>8. ASSUME ClaimNothing(w) PROVE proc'[w].pc = "idle" /\ Begun(w)'
  <2>1. proc'[w] = [proc[w] EXCEPT !.pc = "idle"] /\ Begun(w)
    BY Zenon, <1>1, <1>2, <1>8 DEF ClaimNothing, Refreshes
  <2> QED BY Zenon, <1>1, <2>1 DEF Process, Begun
<1>9. ASSUME RecoverSelect(w) PROVE proc'[w].pc = "recovering" /\ Begun(w)'
  <2>1. proc'[w] = [proc[w] EXCEPT !.pc = "recovering", !.picked = Recoverable] /\ Begun(w)
    BY Zenon, <1>1, <1>2, <1>9 DEF RecoverSelect, Refreshes
  <2> QED BY Zenon, <1>1, <2>1 DEF Process, Begun
<1>10. ASSUME RecoverCommit(w) PROVE proc'[w].pc = "polling" /\ Begun(w)'
  <2>1. proc'[w] = [proc[w] EXCEPT !.pc = "polling", !.picked = {}] /\ Begun(w)
    BY Zenon, <1>1, <1>2, <1>10 DEF RecoverCommit, Refreshes
  <2> QED BY Zenon, <1>1, <2>1 DEF Process, Begun
<1>11. ASSUME ClaimCommit(w) PROVE proc'[w].pc = "claimed" /\ Begun(w)'
  <2>1. proc'[w] = [proc[w] EXCEPT !.pc = "claimed"] /\ Begun(w)
    BY Zenon, <1>1, <1>2, <1>11 DEF ClaimCommit, Refreshes
  <2> QED BY Zenon, <1>1, <2>1 DEF Process, Begun
<1>12. ASSUME ClaimSelect(w) PROVE proc'[w].pc = "claiming" /\ Begun(w)'
  <2>1. PICK j \in Candidates : Move(w, [proc[w] EXCEPT !.pc = "claiming", !.job = j,
                                                        !.token = row[j].generation + 1])
    BY ZenonT(60), <1>12 DEF ClaimSelect
  <2>2. /\ proc'[w] = [proc[w] EXCEPT !.pc = "claiming", !.job = j, !.token = row[j].generation + 1]
        /\ Begun(w)
    BY Zenon, <1>1, <1>2, <1>12, <2>1 DEF ClaimSelect, Refreshes
  <2> QED BY Zenon, <1>1, <2>2 DEF Process, Begun
<1>13. ASSUME CommitRefresh(w) PROVE proc'[w].pc = "executing" /\ Begun(w)'
  <2>1. /\ proc'[w] = [proc[w] EXCEPT !.pc = "executing", !.derived = Down.derived]
        /\ proc[w].at = "lock"
    BY Zenon, <1>1, <1>13 DEF CommitRefresh, Refreshed
  <2>2. proc'[w].derived = Down.derived /\ proc'[w].at = "lock" /\ proc'[w].pc = "executing"
    BY Zenon, <1>1, <2>1 DEF Process
  <2> QED BY Zenon, <2>2 DEF Down, Begun
<1>14. ASSUME BeginRefresh(w) PROVE Begun(w)' /\ proc'[w].todo = {RunOf[proc'[w].job]}
  <2>1. /\ proc'[w] = [proc[w] EXCEPT !.pc = "refreshing", !.todo = {RunOf[proc[w].job]}]
        /\ Begun(w)
    BY Zenon, <1>1, <1>2, <1>14 DEF BeginRefresh, Refreshes
  <2> QED BY Zenon, <1>1, <2>1 DEF Process, Begun
<1>15. ASSUME Finish(w) PROVE Begun(w)' /\ proc'[w].todo = {RunOf[proc'[w].job]}
  <2>1. PICK o \in Outcome : FinishMark(w, o)
    BY Zenon, <1>15 DEF Finish
  <2>2. PICK m, d : /\ proc'[w] = [proc[w] EXCEPT !.pc = "finishing", !.todo = {RunOf[proc[w].job]},
                                                  !.mark = m, !.defer = d]
                    /\ Begun(w)
    BY ZenonT(60), <1>1, <1>2, <2>1 DEF FinishMark, Refreshes
  <2> QED BY <1>1, <2>2 DEF Process, Begun
<1>16. ASSUME SessionLost(w) PROVE proc'[w].pc \notin {"refreshing", "finishing"} /\ Begun(w)'
  <2>1. CASE proc[w].pc \in {"claimed", "executing"}
    <3>1. proc'[w] = proc[w] /\ Begun(w)
      BY Zenon, <1>2, <1>16, <2>1 DEF SessionLost, Refreshes
    <3> QED BY Zenon, <2>1, <3>1 DEF Begun
  <2>2. CASE proc[w].pc \notin {"claimed", "executing"}
    <3>1. proc'[w] = Down
      BY Zenon, <1>1, <1>16, <2>2 DEF SessionLost
    <3> QED BY SMTT(60), <3>1 DEF Begun, Down
  <2> QED BY Zenon, <2>1, <2>2
<1> QED BY Zenon, <1>3, <1>4, <1>5, <1>6, <1>7, <1>8, <1>9, <1>10, <1>11, <1>12, <1>13, <1>14, <1>15, <1>16 DEF Loop

-----------------------------------------------------------------------------
(* A refresh and the process that makes it.                                *)

Faithful(v) == RefreshHolds(v) /\ OwnRunRefreshed(v) /\ CountFaithful(v)

(* A process that knows nothing yet is faithful and harms no run.          *)
LEMMA BegunFaithful ==
  ASSUME NEW v \in Worker, Begun(v)',
         proc'[v].pc \in {"refreshing", "finishing"} => RunOf[proc'[v].job] \in proc'[v].todo
  PROVE  Faithful(v)' /\ \A r \in Run : RunsFor(v, r)'
<1>1. RefreshHolds(v)'
  BY Zenon DEF Begun, RefreshHolds, Counting
<1>2. OwnRunRefreshed(v)'
  BY Zenon DEF OwnRunRefreshed
<1>3. CountFaithful(v)'
  BY Zenon DEF CountFaithful, Begun
<1>4. \A r \in Run : RunsFor(v, r)'
  BY Zenon DEF RunsFor, Begun
<1> QED BY Zenon, <1>1, <1>2, <1>3, <1>4 DEF Faithful

(* A process that does not move stays faithful: others neither take the    *)
(* runs it has locked nor change their status, and end none of their jobs. *)
LEMMA StillFaithful ==
  ASSUME IInv, \A w \in Worker : Faithful(w), [Next]_vars,
         NEW v \in Worker, proc'[v] = proc[v]
  PROVE  Faithful(v)'
<1> USE ConstantsAssumption
<1>0. TypeOK /\ RefreshHolds(v) /\ OwnRunRefreshed(v) /\ CountFaithful(v)
  BY Zenon DEF IInv, Faithful
<1>1. CASE ~Refreshes(v)
  <2>1. Begun(v)' /\ proc'[v].pc \notin {"refreshing", "finishing"}
    BY Zenon, <1>0, <1>1 DEF RefreshHolds, Begun, Refreshes
  <2> QED BY Zenon, <2>1, BegunFaithful
<1>2. CASE Refreshes(v)
  <2>1. ~SessionLost(v) /\ ~Commits(v)
    <3>1. proc[v].pc \in {"starting", "refreshing", "finishing"}
      BY Zenon, <1>2 DEF Refreshes
    <3> QED BY Zenon, <1>0, <3>1, NewPc DEF Commits
  <2>2. ASSUME NEW r \in Run, runLock[r] = v PROVE runLock'[r] = v
    BY Zenon, <1>0, <2>1, <2>2, RunLocks
  <2>3. ASSUME NEW r \in Run, runLock[r] = v PROVE status'[r] = status[r]
    <3>1. ASSUME NEW w \in Worker, Commits(w), proc[w].derived[r] # None PROVE FALSE
      <4>1. runLock[r] = w
        BY Zenon, <3>1 DEF Faithful, RefreshHolds
      <4> QED BY Zenon, <2>1, <2>3, <3>1, <4>1
    <3> QED BY ZenonT(60), <1>0, <2>3, <3>1, StatusChanges
  <2>4. ASSUME NEW j \in Job, runLock[RunOf[j]] = v, View(v)'[j] \in Quiet
        PROVE  View(v)'[j] = View(v)[j]
    <3>1. CASE proc[v].pc = "finishing" /\ proc[v].job = j
      BY <3>1, ViewOf
    <3>2. CASE ~(proc[v].pc = "finishing" /\ proc[v].job = j)
      <4>1. View(v)[j] = row[j].state /\ View(v)'[j] = row'[j].state
        BY SMTT(60), <3>2, ViewOf
      <4>2. ASSUME NEW w \in Worker, CommitFinish(w), proc[w].job = j PROVE FALSE
        <5>1. proc[w].pc = "finishing" /\ proc[w].todo = {}
          BY Zenon, <4>2 DEF CommitFinish, Refreshed
        <5>2. runLock[RunOf[j]] = w
          BY Zenon, <4>2, <5>1 DEF Faithful, OwnRunRefreshed
        <5> QED BY Zenon, <2>1, <2>4, <4>2, <5>2 DEF Commits
      <4>3. row'[j].state \notin {"pending", "in_progress"}
        BY Zenon, <2>4, <4>1 DEF Quiet
      <4> QED BY Zenon, <2>4, <4>1, <4>2, <4>3, RowChanges DEF RowChange
    <3> QED BY Zenon, <3>1, <3>2
  <2>5. \A r \in Run : Counting(v, r)' <=> Counting(v, r)
    BY Zenon, NextIs, NextIsPrime DEF Counting
  <2>6. RefreshHolds(v)'
    BY Zenon, <1>0, <1>2, <2>2, <2>3, <2>5 DEF RefreshHolds, Refreshes
  <2>7. OwnRunRefreshed(v)'
    <3>1. proc[v].pc \in {"refreshing", "finishing"} => RunOf[proc[v].job] \in Run
      BY Zenon DEF IInv, JobKnown, Claimed
    <3> QED BY ZenonT(60), <1>0, <2>2, <2>3, <3>1 DEF OwnRunRefreshed
  <2>8. ASSUME NEW r \in Run, runLock[r] = v, AllQuiet(v, r)'
        PROVE  AllQuiet(v, r) /\ SeenBy(v, r)' = SeenBy(v, r)
    <3>1. \A j \in JobsOf(r) : j \in Job /\ RunOf[j] = r
      BY Zenon DEF JobsOf
    <3>2. \A j \in JobsOf(r) : View(v)'[j] \in Quiet /\ View(v)'[j] = View(v)[j]
      BY Zenon, <2>4, <2>8, <3>1 DEF AllQuiet, JobsOf
    <3>3. AllQuiet(v, r)
      BY Zenon, <3>2 DEF AllQuiet
    <3>4. SeenBy(v, r)' = SeenBy(v, r)
      BY <3>2 DEF SeenBy, JobsOf
    <3> QED BY Zenon, <3>3, <3>4
  <2>9. CountFaithful(v)'
    <3> SUFFICES ASSUME NEW r \in Run, AllQuiet(v, r)'
                 PROVE  /\ proc'[v].at = "publish" /\ r = NextRun(v)' => proc'[v].seen = SeenBy(v, r)'
                        /\ proc'[v].derived[r] # None => proc'[v].derived[r] = Verdict(SeenBy(v, r)')
      BY Zenon DEF CountFaithful, Verdict
    <3>1. NextRun(v)' = NextRun(v)
      BY Zenon, NextIs, NextIsPrime
    <3>2. CASE runLock[r] = v
      BY <1>0, <2>8, <3>1, <3>2 DEF CountFaithful
    <3>3. CASE runLock[r] # v
      BY ZenonT(60), <1>0, <3>1, <3>3 DEF RefreshHolds, Counting
    <3> QED BY Zenon, <3>2, <3>3
  <2> QED BY Zenon, <2>6, <2>7, <2>9 DEF Faithful
<1> QED BY Zenon, <1>1, <1>2

(* A statement of a refresh changes nothing that the next one reads.       *)
LEMMA SameView ==
  ASSUME NEW w \in Worker, SameClaimant(w), UNCHANGED row
  PROVE  View(w)' = View(w) /\ \A r \in Run : /\ SeenBy(w, r)' = SeenBy(w, r)
                                              /\ AllQuiet(w, r)' <=> AllQuiet(w, r)
<1>1. View(w)' = View(w)
  BY Zenon DEF View, SameClaimant
<1> QED BY Zenon, <1>1 DEF SeenBy, AllQuiet, JobsOf

(* SELECT ... FOR UPDATE keeps a process faithful.                         *)
LEMMA LockFaithful ==
  ASSUME RunsOrdered, IInv, NEW w \in Worker, Faithful(w), RefreshLock(w)
  PROVE  Faithful(w)'
<1> USE ConstantsAssumption
<1>0. TypeOK /\ RefreshHolds(w) /\ OwnRunRefreshed(w) /\ CountFaithful(w)
  BY Zenon DEF IInv, Faithful
<1>1. proc[w].todo \in SUBSET Run /\ runLock \in [Run -> Worker \cup {None}]
  BY Zenon, <1>0 DEF TypeOK, Process
<1>2. PICK r \in Run : r = NextRun(w) /\ r \in proc[w].todo
  BY ZenonT(60), <1>0, <1>1, LockEffect, NextIs, LeastIn
<1>3. /\ SameClaimant(w) /\ UNCHANGED <<row, status>>
      /\ proc[w].at = "lock" /\ runLock'[r] = w
      /\ \A s \in Run : runLock[s] = w => runLock'[s] = w
      /\ proc'[w].derived = proc[w].derived
      /\ \/ status[r] = "cancelled" /\ proc'[w].todo = proc[w].todo \ {r} /\ proc'[w].at = "lock"
         \/ status[r] # "cancelled" /\ proc'[w].todo = proc[w].todo /\ proc'[w].at = "count"
  BY SMTT(60), <1>0, <1>1, <1>2, LockEffect DEF database
<1>4. Refreshes(w) /\ Refreshes(w)'
  BY Zenon, <1>3 DEF RefreshLock, Refreshes, SameClaimant
<1>5. \A s \in Run : Counting(w, s)' => s = r /\ status[r] # "cancelled"
  BY Zenon, <1>2, <1>3, NextIs, NextIsPrime DEF Counting
<1>6. RefreshHolds(w)'
  BY Zenon, <1>0, <1>2, <1>3, <1>4, <1>5 DEF RefreshHolds
<1>7. OwnRunRefreshed(w)'
  <2> DEFINE done(q) == runLock'[q] = w /\ (proc'[w].derived[q] # None \/ status'[q] = "cancelled")
  <2> SUFFICES ASSUME proc'[w].pc \in {"refreshing", "finishing"}
               PROVE  RunOf[proc'[w].job] \in proc'[w].todo \/ done(RunOf[proc'[w].job])
    BY Zenon DEF OwnRunRefreshed
  <2>1. PICK q \in Run : q = RunOf[proc[w].job] /\ q = RunOf[proc'[w].job]
    BY Zenon, <1>3 DEF IInv, JobKnown, Claimed, SameClaimant
  <2>2. \/ q \in proc[w].todo
        \/ runLock[q] = w /\ (proc[w].derived[q] # None \/ status[q] = "cancelled")
    BY Zenon, <1>0, <1>3, <2>1 DEF OwnRunRefreshed, SameClaimant
  <2>3. CASE q = r
    BY Zenon, <1>2, <1>3, <2>1, <2>3
  <2>4. CASE q # r /\ q \in proc[w].todo
    BY Zenon, <1>3, <2>1, <2>4
  <2>5. CASE q \notin proc[w].todo
    BY ZenonT(60), <1>3, <2>1, <2>2, <2>5
  <2> QED BY Zenon, <2>3, <2>4, <2>5
<1>8. CountFaithful(w)'
  <2>1. \A s \in Run : /\ SeenBy(w, s)' = SeenBy(w, s)
                       /\ AllQuiet(w, s)' <=> AllQuiet(w, s)
    BY Zenon, <1>3, SameView
  <2>2. proc'[w].at # "publish"
    BY Zenon, <1>3
  <2> QED BY SMTT(60), <1>0, <1>3, <2>1, <2>2 DEF CountFaithful, Verdict
<1> QED BY Zenon, <1>6, <1>7, <1>8 DEF Faithful

(* The first query counts what is there.                                   *)
LEMMA CountingFaithful ==
  ASSUME IInv, NEW w \in Worker, Faithful(w), RefreshCount(w)
  PROVE  Faithful(w)'
<1>0. TypeOK /\ RefreshHolds(w) /\ OwnRunRefreshed(w) /\ CountFaithful(w)
  BY Zenon DEF IInv, Faithful
<1>1. /\ SameClaimant(w) /\ UNCHANGED <<row, status, runLock>>
      /\ proc[w].at = "count" /\ proc'[w].at = "publish"
      /\ proc'[w].todo = proc[w].todo /\ proc'[w].derived = proc[w].derived
      /\ proc'[w].seen = SeenBy(w, NextRun(w))
  BY Zenon, <1>0, CountEffect DEF database
<1>2. NextRun(w)' = NextRun(w)
  BY Zenon, <1>1, NextIs, NextIsPrime
<1>3. Refreshes(w) /\ Refreshes(w)'
  BY Zenon, <1>1 DEF RefreshCount, Refreshes, SameClaimant
<1>4. \A r \in Run : Counting(w, r)' <=> Counting(w, r)
  BY Zenon, <1>1, <1>2 DEF Counting
<1>5. RefreshHolds(w)'
  BY Zenon, <1>0, <1>1, <1>3, <1>4 DEF RefreshHolds
<1>6. OwnRunRefreshed(w)'
  BY Zenon, <1>0, <1>1 DEF OwnRunRefreshed, SameClaimant
<1>7. CountFaithful(w)'
  <2>1. \A s \in Run : /\ SeenBy(w, s)' = SeenBy(w, s)
                       /\ AllQuiet(w, s)' <=> AllQuiet(w, s)
    BY Zenon, <1>1, SameView
  <2> QED BY Zenon, <1>0, <1>1, <1>2, <2>1 DEF CountFaithful, Verdict
<1> QED BY Zenon, <1>5, <1>6, <1>7 DEF Faithful

(* A count without live jobs gives the final status, and work in progress  *)
(* gives running.                                                          *)
LEMMA Derives ==
  ASSUME NEW S, NEW p \in BOOLEAN, p => "pending" \in S
  PROVE  /\ S \subseteq Quiet => DerivedStatus(S, p) = Verdict(S)
         /\ "in_progress" \in S => DerivedStatus(S, p) = "running"
         /\ DerivedStatus(S, p) \in RunStatus
BY Zenon DEF DerivedStatus, Verdict, Quiet

(* The second query and the update of the run keep a process faithful.     *)
LEMMA PublishFaithful ==
  ASSUME RunsOrdered, IInv, NEW w \in Worker, Faithful(w), RefreshPublish(w)
  PROVE  Faithful(w)'
<1> USE ConstantsAssumption
<1>0. TypeOK /\ RefreshHolds(w) /\ OwnRunRefreshed(w) /\ CountFaithful(w)
  BY Zenon DEF IInv, Faithful
<1>1. proc[w].todo \in SUBSET Run /\ proc[w].derived \in [Run -> RunStatus \cup {None}]
  BY Zenon, <1>0 DEF TypeOK, Process
<1>2. proc[w].at = "publish"
  BY Zenon DEF RefreshPublish
<1>3. PICK r \in Run : r = NextRun(w) /\ r \in proc[w].todo
  <2>1. proc[w].todo # {}
    BY Zenon, <1>0, <1>2 DEF RefreshHolds
  <2> QED BY Zenon, <1>1, <2>1, NextIs, LeastIn
<1>4. /\ SameClaimant(w) /\ UNCHANGED <<row, status, runLock>>
      /\ proc'[w].at = "lock" /\ proc'[w].todo = proc[w].todo \ {r}
  BY Zenon, <1>0, <1>3, PublishEffect DEF database
<1>5. PICK p \in BOOLEAN :
        /\ p => "pending" \in proc[w].seen
        /\ proc'[w].derived = [proc[w].derived EXCEPT ![r] = DerivedStatus(proc[w].seen, p)]
  BY Zenon, <1>0, <1>3, PublishEffect
<1>6. /\ proc'[w].derived[r] = DerivedStatus(proc[w].seen, p) /\ proc'[w].derived[r] # None
      /\ \A s \in Run : s # r => proc'[w].derived[s] = proc[w].derived[s]
  <2>1. DerivedStatus(proc[w].seen, p) \in RunStatus
    BY Zenon, <1>5, Derives
  <2> QED BY Zenon, <1>1, <1>3, <1>5, <2>1
<1>7. runLock[r] = w /\ status[r] # "cancelled"
  BY Zenon, <1>0, <1>2, <1>3 DEF RefreshHolds, Counting
<1>8. Refreshes(w) /\ Refreshes(w)'
  BY Zenon, <1>4 DEF RefreshPublish, Refreshes, SameClaimant
<1>9. RefreshHolds(w)'
  BY Zenon, <1>0, <1>4, <1>6, <1>7, <1>8 DEF RefreshHolds, Counting
<1>10. OwnRunRefreshed(w)'
  <2> SUFFICES ASSUME proc[w].pc \in {"refreshing", "finishing"}
               PROVE  LET s == RunOf[proc[w].job] IN
                      s \in proc'[w].todo \/ (runLock[s] = w /\ (proc'[w].derived[s] # None \/ status[s] = "cancelled"))
    BY Zenon, <1>4 DEF OwnRunRefreshed, SameClaimant
  <2>1. PICK s \in Run : s = RunOf[proc[w].job]
    BY ZenonT(60) DEF IInv, JobKnown, Claimed
  <2>2. s \in proc[w].todo \/ (runLock[s] = w /\ (proc[w].derived[s] # None \/ status[s] = "cancelled"))
    BY Zenon, <1>0, <2>1 DEF OwnRunRefreshed
  <2>3. CASE s = r
    BY Zenon, <1>6, <1>7, <2>1, <2>3
  <2>4. CASE s # r
    BY ZenonT(60), <1>4, <1>6, <2>1, <2>2, <2>4
  <2> QED BY ZenonT(60), <2>3, <2>4
<1>11. CountFaithful(w)'
  <2> SUFFICES ASSUME NEW s \in Run, AllQuiet(w, s)', proc'[w].derived[s] # None
               PROVE  proc'[w].derived[s] = Verdict(SeenBy(w, s)')
    BY Zenon, <1>4 DEF CountFaithful, Verdict
  <2>1. SeenBy(w, s)' = SeenBy(w, s) /\ AllQuiet(w, s)
    BY Zenon, <1>4, SameView
  <2>2. CASE s = r
    <3>1. proc[w].seen = SeenBy(w, r)
      BY Zenon, <1>0, <1>2, <1>3, <2>1, <2>2 DEF CountFaithful
    <3>2. SeenBy(w, r) \subseteq Quiet
      BY <2>1, <2>2 DEF SeenBy, AllQuiet
    <3> QED BY Zenon, <1>5, <1>6, <2>1, <2>2, <3>1, <3>2, Derives
  <2>3. CASE s # r
    BY Zenon, <1>0, <1>6, <2>1, <2>3 DEF CountFaithful
  <2> QED BY Zenon, <2>2, <2>3
<1> QED BY Zenon, <1>9, <1>10, <1>11 DEF Faithful

(* Every step keeps every process faithful.                                *)
LEMMA FaithfulStep ==
  ASSUME RunsOrdered, IInv, \A w \in Worker : Faithful(w), [Next]_vars, NEW v \in Worker
  PROVE  Faithful(v)'
<1>1. CASE proc'[v] = proc[v]
  BY Zenon, <1>1, StillFaithful
<1>2. CASE Refresh(v)
  BY Zenon, <1>2, LockFaithful, CountingFaithful, PublishFaithful DEF Refresh
<1>3. CASE (Loop(v) \/ Finish(v) \/ SessionLost(v)) /\ ~Refresh(v)
  <2>1. RefreshHolds(v)
    BY Zenon DEF Faithful
  <2> QED BY Zenon, <1>3, <2>1, OtherEffect, BegunFaithful
<1>4. TypeOK
  BY Zenon DEF IInv
<1> QED BY Zenon, <1>1, <1>2, <1>3, <1>4, OneMoves DEF Alone

-----------------------------------------------------------------------------
(* A run whose job executes.                                               *)

(* A process that counts while a job of the run is in progress can only    *)
(* make the run running.                                                   *)
LEMMA RefreshRuns ==
  ASSUME IInv, NEW v \in Worker, RefreshHolds(v), Refresh(v),
         NEW j \in Job, RunsFor(v, RunOf[j]), View(v)[j] = "in_progress"
  PROVE  RunsFor(v, RunOf[j])'
<1> USE ConstantsAssumption
<1>0. TypeOK /\ proc[v] \in Process
  BY Zenon DEF IInv, TypeOK
<1>1. PICK r \in Run : r = RunOf[j] /\ j \in JobsOf(r)
  BY ZenonT(60) DEF JobsOf
<1>2. CASE RefreshLock(v)
  BY Zenon, <1>0, <1>1, <1>2, LockEffect DEF RunsFor
<1>3. CASE RefreshCount(v)
  <2>1. /\ proc'[v].derived = proc[v].derived /\ proc'[v].seen = SeenBy(v, NextRun(v))
        /\ NextRun(v)' = NextRun(v)
    BY Zenon, <1>0, <1>3, CountEffect, NextIs, NextIsPrime
  <2>2. "in_progress" \in SeenBy(v, r)
    BY Zenon, <1>1 DEF SeenBy
  <2> QED BY Zenon, <1>1, <2>1, <2>2 DEF RunsFor
<1>4. CASE RefreshPublish(v)
  <2>1. proc[v].at = "publish" /\ proc'[v].at = "lock"
    BY Zenon, <1>0, <1>4, PublishEffect
  <2>2. PICK p \in BOOLEAN :
          /\ p => "pending" \in proc[v].seen
          /\ proc'[v].derived = [proc[v].derived EXCEPT ![NextRun(v)] = DerivedStatus(proc[v].seen, p)]
    BY Zenon, <1>0, <1>4, PublishEffect
  <2>3. CASE r = NextRun(v)
    <3>1. DerivedStatus(proc[v].seen, p) = "running"
      BY <1>1, <2>1, <2>2, <2>3, Derives DEF RunsFor
    <3>2. proc'[v].derived[r] = "running"
      BY Zenon, <1>0, <2>2, <2>3, <3>1 DEF Process
    <3> QED BY Zenon, <1>1, <2>1, <3>2 DEF RunsFor
  <2>4. CASE r # NextRun(v)
    <3>1. proc'[v].derived[r] = proc[v].derived[r]
      BY <1>0, <2>2, <2>4 DEF Process
    <3> QED BY Zenon, <1>1, <2>1, <3>1 DEF RunsFor
  <2> QED BY Zenon, <2>3, <2>4
<1> QED BY Zenon, <1>2, <1>3, <1>4 DEF Refresh

(* A process that stays where it is and what it can make of a run.         *)
LEMMA StillRuns ==
  ASSUME NEW v \in Worker, proc'[v] = proc[v], NEW r \in Run, RunsFor(v, r)
  PROVE  RunsFor(v, r)'
BY Zenon, NextIs, NextIsPrime DEF RunsFor

(* Each process can only make a run running while a job of it is executed. *)
LEMMA OthersRun ==
  ASSUME IInv, \A u \in Worker : Faithful(u), [Next]_vars,
         NEW w \in Worker, Executing(w), NEW j \in Job, j = proc[w].job,
         NEW v \in Worker, RunsFor(v, RunOf[j])
  PROVE  RunsFor(v, RunOf[j])'
<1> USE ConstantsAssumption
<1>0. TypeOK /\ RefreshHolds(v)
  BY Zenon DEF IInv, Faithful
<1>1. jobLock[j] = w /\ row[j].state = "in_progress"
  <2>1. Holds(w)
    BY Zenon DEF Executing, Holds
  <2> QED BY Zenon, <2>1 DEF IInv, Owns, FenceHolds, Executing
<1>2. View(v)[j] = "in_progress"
  <2>1. ~(proc[v].pc = "finishing" /\ proc[v].job = j)
    BY Zenon, <1>1 DEF IInv, Owns, FinishHolds, Executing
  <2> QED BY SMTT(60), <1>1, <2>1, ViewOf
<1>3. PICK r \in Run : r = RunOf[j]
  OBVIOUS
<1>4. CASE proc'[v] = proc[v]
  BY Zenon, <1>3, <1>4, StillRuns
<1>5. CASE Refresh(v)
  BY Zenon, <1>0, <1>2, <1>5, RefreshRuns
<1>6. CASE (Loop(v) \/ Finish(v) \/ SessionLost(v)) /\ ~Refresh(v)
  <2>1. \A s \in Run : RunsFor(v, s)'
    BY Zenon, <1>0, <1>6, OtherEffect, BegunFaithful
  <2> QED BY Zenon, <1>3, <2>1
<1> QED BY Zenon, <1>0, <1>4, <1>5, <1>6, OneMoves DEF Alone

(* What a run reads while a job of it executes is kept by every step.      *)
LEMMA RunningStep ==
  ASSUME IInv, \A u \in Worker : Faithful(u) /\ RunningKept(u), [Next]_vars, NEW w \in Worker
  PROVE  RunningKept(w)'
<1> USE ConstantsAssumption
<1>0. TypeOK /\ proc[w] \in Process /\ RefreshHolds(w) /\ RunningKept(w)
  BY ZenonT(60) DEF IInv, TypeOK, Faithful
<1>1. ASSUME proc'[w].pc = "refreshing", NEW r \in Run, r = RunOf[proc'[w].job]
      PROVE  RunsFor(w, r)'
  <2>1. CASE (Loop(w) \/ Finish(w) \/ SessionLost(w)) /\ ~Refresh(w)
    BY Zenon, <1>0, <2>1, OtherEffect, BegunFaithful
  <2>2. CASE proc'[w] = proc[w] \/ Refresh(w)
    <3>1. proc[w].pc = "refreshing" /\ proc'[w].job = proc[w].job
      BY ZenonT(60), <1>0, <1>1, <2>2, LockEffect, CountEffect, PublishEffect DEF Refresh, SameClaimant
    <3>2. PICK j \in Job : j = proc[w].job
      BY Zenon, <3>1 DEF IInv, JobKnown, Claimed
    <3>3. jobLock[j] = w /\ row[j].state = "in_progress"
      BY ZenonT(60), <3>1, <3>2 DEF IInv, Owns, FinishHolds, Holds, FenceHolds
    <3>4. View(w)[j] = "in_progress" /\ RunsFor(w, RunOf[j])
      BY ZenonT(60), <1>0, <3>1, <3>2, <3>3, ViewOf DEF RunningKept
    <3>5. RunsFor(w, RunOf[j])'
      <4>1. CASE Refresh(w)
        BY Zenon, <1>0, <3>4, <4>1, RefreshRuns
      <4>2. CASE proc'[w] = proc[w]
        BY ZenonT(60), <1>1, <3>1, <3>2, <3>4, <4>2, StillRuns
      <4> QED BY ZenonT(60), <2>2, <4>1, <4>2
    <3> QED BY Zenon, <1>1, <3>1, <3>2, <3>5
  <2> QED BY Zenon, <1>0, <2>1, <2>2, OneMoves DEF Alone
<1>2. ASSUME Executing(w)', NEW r \in Run, r = RunOf[proc'[w].job]
      PROVE  status'[r] \in {"running", "cancelled"} /\ \A v \in Worker : RunsFor(v, r)'
  <2>1. proc'[w].pc = "executing" /\ jobLock'[proc'[w].job] = w
    BY Zenon, <1>2 DEF Executing
  <2>2. CASE CommitRefresh(w)
    <3>1. proc'[w].job = proc[w].job
      <4>1. proc'[w] = [proc[w] EXCEPT !.pc = "executing", !.derived = Down.derived]
        BY ZenonT(60), <1>0, <2>2, Frame DEF CommitRefresh
      <4> QED BY Zenon, <1>0, <4>1 DEF Process
    <3>2. proc[w].pc = "refreshing" /\ proc[w].todo = {}
      BY Zenon, <2>2 DEF CommitRefresh, Refreshed
    <3>3. runLock[r] = w /\ (proc[w].derived[r] # None \/ status[r] = "cancelled")
      BY Zenon, <1>2, <3>1, <3>2 DEF Faithful, OwnRunRefreshed
    <3>4. proc[w].derived[r] \in {None, "running"}
      BY ZenonT(60), <1>0, <1>2, <3>1, <3>2 DEF RunningKept, RunsFor
    <3>5. status'[r] = IF proc[w].derived[r] = None THEN status[r] ELSE proc[w].derived[r]
      BY Zenon, <2>2 DEF CommitRefresh, Published
    <3>6. ASSUME NEW v \in Worker, v # w PROVE RunsFor(v, r)'
      <4>1. RunsFor(v, r)
        BY Zenon, <3>3, <3>6 DEF Faithful, RefreshHolds, Counting, RunsFor
      <4>2. proc'[v] = proc[v]
        BY Zenon, <1>0, <2>2, <3>6, Frame DEF CommitRefresh
      <4> QED BY Zenon, <4>1, <4>2, StillRuns
    <3>7. RunsFor(w, r)'
      <4>1. ~Refresh(w)
        BY ZenonT(60), <1>0, <2>1, <3>2, NewPc
      <4> QED BY Zenon, <1>0, <2>2, <4>1, OtherEffect, BegunFaithful, NewPc DEF Loop
    <3> QED BY Zenon, <3>3, <3>4, <3>5, <3>6, <3>7
  <2>3. CASE ~CommitRefresh(w)
    <3>1. proc'[w] = proc[w]
      <4>1. ASSUME Loop(w) \/ Finish(w) \/ SessionLost(w) PROVE proc'[w] = proc[w]
        <5>1. CASE Refresh(w)
          BY ZenonT(60), <1>0, <2>1, <5>1, NewPc DEF Refresh, RefreshLock, RefreshCount, RefreshPublish, Refreshes
        <5> QED BY ZenonT(60), <1>0, <2>1, <2>3, <4>1, <5>1, NewPc DEF Loop
      <4> QED BY Zenon, <1>0, <4>1, OneMoves DEF Alone
    <3>2. PICK j \in Job : j = proc[w].job /\ r = RunOf[j]
      BY Zenon, <1>2, <2>1, <3>1 DEF IInv, JobKnown, Claimed
    <3>3. Executing(w)
      <4>1. ~ClaimSelect(w)
        BY Zenon, <1>0, <2>1, NewPc
      <4> QED BY Zenon, <1>0, <2>1, <3>1, <3>2, <4>1, JobLocks DEF Executing
    <3>4. status[r] \in {"running", "cancelled"} /\ \A v \in Worker : RunsFor(v, r)
      BY ZenonT(60), <1>0, <3>2, <3>3 DEF RunningKept
    <3>5. \A v \in Worker : RunsFor(v, r)'
      BY ZenonT(60), <3>2, <3>3, <3>4, OthersRun
    <3>6. status'[r] \in {"running", "cancelled"}
      <4>1. ASSUME NEW u \in Worker, proc[u].derived[r] # None PROVE proc[u].derived[r] = "running"
        BY ZenonT(60), <3>4, <4>1 DEF RunsFor
      <4> QED BY Zenon, <1>0, <3>4, <4>1, StatusChanges
    <3> QED BY Zenon, <3>5, <3>6
  <2> QED BY Zenon, <2>2, <2>3
<1>3. Executing(w)' \/ proc'[w].pc = "refreshing" => RunOf[proc'[w].job] \in Run
  BY ZenonT(60), IInvStep DEF Executing, IInv, JobKnown, Claimed
<1> QED BY ZenonT(60), <1>1, <1>2, <1>3 DEF RunningKept, RunsFor

-----------------------------------------------------------------------------
(* A run whose jobs have all ended.                                        *)

(* What a committing refresh read of a run is what the run's jobs are      *)
(* after its commit.                                                       *)
LEMMA CommittedView ==
  ASSUME IInv, NEW w \in Worker, Commits(w), NEW j \in Job
  PROVE  row'[j].state = View(w)[j]
<1>1. row \in [Job -> Row]
  BY Zenon DEF IInv, TypeOK
<1>2. CASE CommitStart(w) \/ CommitRefresh(w)
  BY <1>2, ViewOf DEF CommitStart, CommitRefresh
<1>3. CASE CommitFinish(w)
  BY Zenon, <1>1, <1>3, ViewOf DEF CommitFinish
<1> QED BY Zenon, <1>2, <1>3 DEF Commits

(* The last job to end takes the status of its run with it, and later      *)
(* steps leave both alone.                                                 *)
LEMMA SettledStep ==
  ASSUME IInv, \A u \in Worker : Faithful(u), SettledRunStatus, [Next]_vars
  PROVE  SettledRunStatus'
<1> USE ConstantsAssumption
<1>0. TypeOK
  BY Zenon DEF IInv
<1> DEFINE present(r) == {row'[j].state : j \in JobsOf(r)} \ {"absent"}
           final(r) == status'[r] = IF "error" \in present(r) THEN "failed" ELSE "done"
<1> SUFFICES ASSUME NEW r \in Run, present(r) # {}, present(r) \subseteq Terminal,
                    status'[r] # "cancelled"
             PROVE  final(r)
  BY ZenonT(60) DEF SettledRunStatus, JobsOf
<1>a. /\ \E j \in JobsOf(r) : row'[j].state # "absent"
      /\ \A j \in JobsOf(r) : row'[j].state \in Quiet
  <2>1. \E j \in JobsOf(r) : row'[j].state # "absent"
    OBVIOUS
  <2>2. ASSUME NEW j \in JobsOf(r), row'[j].state # "absent" PROVE row'[j].state \in Terminal
    <3>1. row'[j].state \in present(r)
      BY Zenon, <2>2
    <3> QED BY Zenon, <3>1
  <2> QED BY Zenon, <2>1, <2>2 DEF Quiet
<1>b. "error" \in present(r) <=> \E j \in JobsOf(r) : row'[j].state = "error"
  OBVIOUS
<1> HIDE DEF present
<1>1. \A j \in JobsOf(r) : j \in Job /\ RunOf[j] = r
  BY Zenon DEF JobsOf
<1>2. ASSUME NEW w \in Worker, Commits(w), proc[w].derived[r] # None,
             status'[r] = proc[w].derived[r]
      PROVE  final(r)
  <2>1. \A j \in JobsOf(r) : row'[j].state = View(w)[j]
    BY Zenon, <1>1, <1>2, CommittedView
  <2>2. AllQuiet(w, r)
    BY Zenon, <1>a, <2>1 DEF AllQuiet
  <2>3. status'[r] = Verdict(SeenBy(w, r))
    BY ZenonT(60), <1>2, <2>2 DEF Faithful, CountFaithful
  <2> QED BY Zenon, <1>b, <2>1, <2>3 DEF Verdict, SeenBy
<1>3. ASSUME status'[r] = status[r],
             ~\E w \in Worker : Commits(w) /\ proc[w].derived[r] # None
      PROVE  final(r)
  <2>1. ASSUME NEW j \in JobsOf(r) PROVE row'[j].state = row[j].state
    <3>1. ASSUME NEW w \in Worker, CommitFinish(w), proc[w].job = j PROVE FALSE
      <4>1. proc[w].pc = "finishing" /\ proc[w].todo = {}
        BY Zenon, <3>1 DEF CommitFinish, Refreshed
      <4>2. proc[w].derived[r] # None \/ status[r] = "cancelled"
        BY SMTT(60), <1>1, <2>1, <3>1, <4>1 DEF Faithful, OwnRunRefreshed
      <4> QED BY Zenon, <1>3, <3>1, <4>2 DEF Commits
    <3>2. j \in Job /\ row'[j].state \notin {"pending", "in_progress"}
      BY ZenonT(60), <1>1, <1>a, <2>1 DEF Quiet
    <3> QED BY ZenonT(60), <3>1, <3>2, RowChanges DEF RowChange
  <2>2. /\ \E j \in JobsOf(r) : row[j].state # "absent"
        /\ \A j \in JobsOf(r) : row[j].state \in Quiet
    BY Zenon, <1>a, <2>1
  <2>3. status[r] = IF \E j \in JobsOf(r) : row[j].state = "error" THEN "failed" ELSE "done"
    <3> DEFINE now == {row[j].state : j \in JobsOf(r)} \ {"absent"}
    <3>1. now # {} /\ now \subseteq Terminal
      BY Zenon, <2>2 DEF Quiet
    <3>2. "error" \in now <=> \E j \in JobsOf(r) : row[j].state = "error"
      OBVIOUS
    <3>3. status[r] = IF "error" \in now THEN "failed" ELSE "done"
      BY Zenon, <1>3, <3>1 DEF SettledRunStatus
    <3> HIDE DEF now
    <3> QED BY Zenon, <3>2, <3>3
  <2> QED BY ZenonT(60), <1>3, <1>b, <2>1, <2>3
<1>4. ASSUME NEW w \in Worker, Commits(w), proc[w].derived[r] # None
      PROVE  status'[r] = proc[w].derived[r]
  BY Zenon, <1>4 DEF Commits, CommitStart, CommitRefresh, CommitFinish, Published
<1> QED BY Zenon, <1>0, <1>2, <1>3, <1>4, StatusChanges

(* Every step keeps what the invariant says of refreshes and runs.         *)
LEMMA StatusStep == ASSUME RunsOrdered, IInv, StatusInv, [Next]_vars PROVE StatusInv'
<1>1. \A u \in Worker : Faithful(u) /\ RunningKept(u)
  BY Zenon DEF StatusInv, Faithful
<1>2. \A u \in Worker : Faithful(u)'
  BY Zenon, <1>1, FaithfulStep
<1>3. \A u \in Worker : RunningKept(u)'
  BY Zenon, <1>1, RunningStep
<1>4. SettledRunStatus'
  BY Zenon, <1>1, SettledStep DEF StatusInv
<1> QED BY Zenon, <1>2, <1>3, <1>4 DEF StatusInv, Faithful

(* No run is settled and no process refreshes at first.                    *)
LEMMA StatusInit == Init => StatusInv
<1> SUFFICES ASSUME Init PROVE StatusInv
  OBVIOUS
<1>1. \A v \in Worker : proc[v].pc = "down" /\ Begun(v)
  BY Zenon DEF Init, Down, Begun
<1>2. \A v \in Worker : RefreshHolds(v)
  BY Zenon, <1>1 DEF RefreshHolds, Begun, Counting
<1>3. \A v \in Worker : OwnRunRefreshed(v) /\ RunningKept(v)
  BY Zenon, <1>1 DEF OwnRunRefreshed, RunningKept, Executing
<1>4. \A v \in Worker : CountFaithful(v)
  BY Zenon, <1>1 DEF CountFaithful, Begun
<1>5. \A j \in Job : row[j].state \in {"absent", "pending"}
  BY Zenon DEF Init, NoRow
<1>6. SettledRunStatus
  BY Zenon, <1>5 DEF SettledRunStatus, JobsOf
<1> QED BY Zenon, <1>2, <1>3, <1>4, <1>6 DEF StatusInv

(* With the runs ordered, what the status of a run says holds throughout.  *)
LEMMA StatusAlways == RunsOrdered => (Spec => [](ExecutingRunIsRunning /\ SettledRunStatus))
<1> SUFFICES ASSUME RunsOrdered PROVE Spec => [](ExecutingRunIsRunning /\ SettledRunStatus)
  OBVIOUS
<1>1. StatusInv => ExecutingRunIsRunning /\ SettledRunStatus
  BY Zenon DEF StatusInv, RunningKept, Executing, ExecutingRunIsRunning
<1>2. IInv /\ StatusInv /\ [Next]_vars => StatusInv'
  BY Zenon, StatusStep
<1> QED BY <1>1, <1>2, InitIInv, IInvStep, StatusInit, PTL DEF Spec

-----------------------------------------------------------------------------
(* Finite sets and the order of the numbers, needed from here on only.     *)

INSTANCE FiniteSetTheorems
INSTANCE WellFoundedInduction

(* A set of natural numbers has a smallest member.                         *)
LEMMA SmallestNat ==
  ASSUME NEW T \in SUBSET Nat, T # {}
  PROVE  \E x \in T : \A y \in T : x <= y
<1> DEFINE R == {ss \in Nat \X Nat : ss[1] < ss[2]}
<1>0. IsWellFoundedOn(R, Nat)
  BY Zenon, NatLessThanWellFounded DEF OpToRel
<1> HIDE DEF R
<1>1. PICK x \in T : \A y \in T : <<y, x>> \notin R
  BY Zenon, <1>0, WFMin
<1>2. \A y \in T : ~(y < x)
  BY Zenon, <1>1 DEF R
<1> QED BY <1>2

(* The runs are numbered, so a set of them has a least member.             *)
LEMMA RunsAreOrdered == RunsOrdered
BY Zenon, SmallestNat, ConstantsAssumption DEF RunsOrdered

(* A set with one more element has at most one member more.               *)
LEMMA OneMore ==
  ASSUME NEW S, NEW x, IsFiniteSet(S)
  PROVE  IsFiniteSet(S \cup {x}) /\ Cardinality(S \cup {x}) <= Cardinality(S) + 1
<1>1. Cardinality(S) \in Nat
  BY Zenon, FS_CardinalityType
<1>2. /\ IsFiniteSet(S \cup {x})
      /\ \/ Cardinality(S \cup {x}) = Cardinality(S)
         \/ Cardinality(S \cup {x}) = Cardinality(S) + 1
  BY Zenon, FS_AddElement
<1> QED BY <1>1, <1>2

(* The jobs are finitely many, so sets of them can be counted.             *)
LEMMA JobsAreCounted == JobsCounted
<1> SUFFICES ASSUME NEW S \in SUBSET Job, NEW T \in SUBSET Job
    PROVE  /\ Cardinality(S) \in Nat
           /\ T \subseteq S => Cardinality(T) <= Cardinality(S)
           /\ \A j \in Job : T \subseteq S \cup {j} => Cardinality(T) <= Cardinality(S) + 1
  BY Zenon, FS_EmptySet DEF JobsCounted
<1>1. IsFiniteSet(S)
  BY FS_Subset, ConstantsAssumption
<1>2. Cardinality(S) \in Nat
  BY <1>1, FS_CardinalityType
<1>3. ASSUME T \subseteq S PROVE Cardinality(T) <= Cardinality(S)
  BY <1>1, <1>3, FS_Subset
<1>4. ASSUME NEW j \in Job, T \subseteq S \cup {j} PROVE Cardinality(T) <= Cardinality(S) + 1
  <2> DEFINE more == S \cup {j}
  <2>1. IsFiniteSet(more) /\ Cardinality(more) <= Cardinality(S) + 1
    BY ZenonT(60), <1>1, OneMore
  <2>2. Cardinality(more) \in Nat /\ IsFiniteSet(T) /\ Cardinality(T) \in Nat /\ Cardinality(T) <= Cardinality(more)
    BY <1>4, <2>1, FS_Subset, FS_CardinalityType
  <2> HIDE DEF more
  <2> QED BY <1>2, <2>1, <2>2
<1> QED BY <1>2, <1>3, <1>4

(* Concurrent claims never take a workspace over its limit of active jobs  *)
(* (claim_next_job under operation_lock("workspace-scheduler")), for any   *)
(* number of workers, whatever is recovered, lost or retried.              *)
THEOREM LimitOfActiveJobs == Spec => []ActiveLimit
BY JobsAreCounted, AdmissionAlways, PTL

(* An expansion executes only after the crawl it reads has ended           *)
(* (PROCESSING_READY_SQL), for any tree of jobs.                           *)
THEOREM ParentBeforeExpansion == Spec => []ExpansionAfterParent
BY JobsAreCounted, AdmissionAlways, PTL

(* While a live worker executes a job, the job's run reads running unless  *)
(* it was cancelled: refresh_run_status of another worker, computed from   *)
(* an older count, is never published over the one made after the claim.   *)
THEOREM RunReadsRunning == Spec => []ExecutingRunIsRunning
BY RunsAreOrdered, StatusAlways, PTL

(* Of several workers that finish the last jobs of a run at the same time, *)
(* one always publishes the final status (finish_attempt), and no older    *)
(* refresh is committed over it.                                           *)
THEOREM RunReadsSettled == Spec => []SettledRunStatus
BY RunsAreOrdered, StatusAlways, PTL

=============================================================================
