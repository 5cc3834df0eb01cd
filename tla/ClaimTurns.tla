------------------------------ MODULE ClaimTurns ------------------------------
(***************************************************************************)
(* Which job claim_next_job (jobs/state.py) takes: candidates in order of  *)
(* their workspace's turn, windows of them, provider locks that are busy,  *)
(* and queue hints that must not jump the queue.                           *)
(*                                                                         *)
(* One claim runs at a time, under the workspace-scheduler lock, but it is *)
(* many statements: other workers finish jobs and give back their locks,   *)
(* jobs arrive and cooldowns begin and end between them.  Which worker     *)
(* may own a job is JobExecution's subject; here a job is pending, active  *)
(* or away, and comes back when it has more to do.                         *)
(***************************************************************************)
EXTENDS Naturals, FiniteSets, Sequences

CONSTANTS
    Jobs,         \* ids, 1..n
    Workspaces,
    WorkspaceOf,  \* [Jobs -> Workspaces]
    ProviderOf,   \* [Jobs -> Providers \cup {"processing"}]
    Priority,     \* [Jobs -> Nat]; smaller is earlier, ids break ties
    Workers,
    StageOf,      \* [Workers -> {"all", "acquisition", "processing"}]
    ActiveCap,    \* workspace_max_active_jobs
    Window        \* LIMIT of the candidate query

NoOne == 0
Providers == {ProviderOf[j] : j \in Jobs} \ {"processing"}
Stages == {StageOf[w] : w \in Workers}

\* Each other worker keeps at most one pending row locked (between the commit of
\* its finish and the release of its lock), so a window can hold more than those.
WindowCoversWorkers == Window >= Cardinality(Workers)

VARIABLES
    job,       \* state of each job: away, pending, active
    recent,    \* workspace_claim_turns by stage: workspaces by turn, oldest first
    cooling,   \* providers under a cooldown
    jobLock,   \* executor-job session locks: worker or NoOne
    provLock,  \* acquisition-provider session locks: worker or NoOne
    gate,      \* holder of the workspace-scheduler lock, or NoOne
    claim,     \* the gate holder's locals: hint, candidates left, exclusions
    exec,      \* the job each worker executes, or NoOne
    passed,    \* history, [stage][a][b]: claims by b while a could have been served
    steady,    \* history: jobs claimable since the current claim began
    missed     \* history: the last claim came back empty-handed beside a steady job

vars == <<job, recent, cooling, jobLock, provLock, gate, claim, exec, passed, steady, missed>>

NoClaim == [hint |-> NoOne, left |-> <<>>, excluded |-> {}, grew |-> FALSE, step |-> "none"]
Fresh == [s \in Stages |-> [a \in Workspaces |-> [b \in Workspaces |-> 0]]]

Init ==
    /\ job = [j \in Jobs |-> "away"]
    /\ recent = [s \in Stages |-> <<>>]
    /\ cooling = {}
    /\ jobLock = [j \in Jobs |-> NoOne]
    /\ provLock = [p \in Providers |-> NoOne]
    /\ gate = NoOne /\ claim = NoClaim
    /\ exec = [w \in Workers |-> NoOne]
    /\ passed = Fresh /\ steady = {} /\ missed = FALSE

-----------------------------------------------------------------------------
(* The candidate query.                                                    *)

Processing(j) == ProviderOf[j] = "processing"

InStage(j, s) ==
    \/ s = "all"
    \/ s = "processing" /\ Processing(j)
    \/ s = "acquisition" /\ ~Processing(j)

Active(a) == Cardinality({j \in Jobs : job[j] = "active" /\ WorkspaceOf[j] = a})

\* claim_admission, as far as it depends on what this module keeps
Admissible(j) ==
    /\ job[j] = "pending"
    /\ Processing(j) \/ ProviderOf[j] \notin cooling
    /\ Active(WorkspaceOf[j]) < ActiveCap

\* COALESCE(turn, 0): a workspace never served at the stage comes first
Turn(a, s) ==
    IF \E i \in 1..Len(recent[s]) : recent[s][i] = a
    THEN CHOOSE i \in 1..Len(recent[s]) : recent[s][i] = a ELSE 0

\* ORDER BY turn, priority, id
Earlier(s, i, j) ==
    LET ti == Turn(WorkspaceOf[i], s) tj == Turn(WorkspaceOf[j], s)
    IN \/ ti < tj
       \/ ti = tj /\ Priority[i] < Priority[j]
       \/ ti = tj /\ Priority[i] = Priority[j] /\ i < j

\* the first Window elements of S in that order
InOrder(s, S) ==
    [i \in 1..(IF Cardinality(S) < Window THEN Cardinality(S) ELSE Window) |->
        CHOOSE j \in S : Cardinality({k \in S : Earlier(s, k, j)}) = i - 1]

Candidates(s, excluded) ==
    InOrder(s, {j \in Jobs : /\ Admissible(j) /\ InStage(j, s)
                             /\ Processing(j) \/ ProviderOf[j] \notin excluded})

\* a worker of the stage would get the job's row and locks
Claimable(j, s) ==
    /\ Admissible(j) /\ InStage(j, s)
    /\ jobLock[j] = NoOne
    /\ Processing(j) \/ provLock[ProviderOf[j]] = NoOne

-----------------------------------------------------------------------------
(* History, kept with every step: what each waiting workspace has seen     *)
(* pass, and which jobs have been claimable throughout the current claim.  *)

Serveable(a, s) == \E j \in Jobs : WorkspaceOf[j] = a /\ Claimable(j, s)

Counted(n) == IF n < 2 THEN n + 1 ELSE n   \* once, or more often

WithinReach == {j \in Jobs : gate # NoOne /\ Claimable(j, StageOf[gate])}

Observe(served, stage) ==
    /\ passed' = [s \in Stages |-> [a \in Workspaces |-> [b \in Workspaces |->
          IF ~Serveable(a, s)' \/ (served = a /\ stage = s) THEN 0
          ELSE IF served = b /\ stage = s THEN Counted(passed[s][a][b])
          ELSE passed[s][a][b]]]]
    /\ steady' = (IF gate = NoOne THEN Jobs ELSE steady) \cap WithinReach'

Quiet == Observe("nobody", "nothing")

-----------------------------------------------------------------------------
(* claim_next_job                                                          *)

\* the scheduler lock; the query runs next.  hint is the job of a queue message,
\* claimed with respect_fairness, or NoOne when the worker polls.
Begin(w, hint) ==
    /\ gate = NoOne /\ exec[w] = NoOne
    /\ gate' = w
    /\ claim' = [NoClaim EXCEPT !.hint = hint, !.step = "query"]
    /\ missed' = FALSE
    /\ UNCHANGED <<job, recent, cooling, jobLock, provLock, exec>>
    /\ Quiet

\* the claim returns None
GiveUp ==
    /\ gate' = NoOne /\ claim' = NoClaim
    /\ missed' = (claim.hint = NoOne /\ steady # {})
    /\ UNCHANGED <<job, recent, cooling, jobLock, provLock, exec>>
    /\ Quiet

Query ==
    /\ gate # NoOne /\ claim.step = "query"
    /\ LET found == Candidates(StageOf[gate], claim.excluded)
       IN \/ found = <<>> /\ GiveUp
          \/ /\ found # <<>>
             /\ claim' = [claim EXCEPT !.left = found, !.grew = FALSE, !.step = "try"]
             /\ UNCHANGED <<job, recent, cooling, jobLock, provLock, gate, exec, missed>>
             /\ Quiet

\* the window is used up: query again if a provider was newly excluded
StopsAtWindow ==
    /\ gate # NoOne /\ claim.step = "try" /\ claim.left = <<>>
    /\ GiveUp

EndOfWindow ==
    /\ gate # NoOne /\ claim.step = "try" /\ claim.left = <<>>
    /\ \/ ~claim.grew /\ GiveUp
       \/ /\ claim.grew
          /\ claim' = [claim EXCEPT !.step = "query"]
          /\ UNCHANGED <<job, recent, cooling, jobLock, provLock, gate, exec, missed>>
          /\ Quiet

\* a candidate whose provider is excluded or busy, or whose own lock is held
Skip(j, busyProvider) ==
    /\ claim' = [claim EXCEPT !.left = Tail(@),
                              !.excluded = IF busyProvider THEN @ \cup {ProviderOf[j]} ELSE @,
                              !.grew = @ \/ (busyProvider /\ ProviderOf[j] \notin claim.excluded)]
    /\ UNCHANGED <<job, recent, cooling, jobLock, provLock, gate, exec, missed>>
    /\ Quiet

TurnKept(s, a) == recent

TurnTaken(s, a) == [recent EXCEPT ![s] = Append(SelectSeq(@, LAMBDA b : b # a), a)]

\* both locks are taken, the row becomes in_progress and the workspace's turn is
\* the newest; the transaction commits and the scheduler lock goes
Take(j) ==
    LET w == gate a == WorkspaceOf[j] s == StageOf[gate]
    IN /\ job' = [job EXCEPT ![j] = "active"]
       /\ jobLock' = [jobLock EXCEPT ![j] = w]
       /\ provLock' = IF Processing(j) THEN provLock ELSE [provLock EXCEPT ![ProviderOf[j]] = w]
       /\ recent' = TurnTaken(s, a)
       /\ exec' = [exec EXCEPT ![w] = j]
       /\ gate' = NoOne /\ claim' = NoClaim /\ missed' = FALSE
       /\ UNCHANGED cooling
       /\ Observe(a, s)

\* A candidate that can be locked is taken, unless the claim is for a hint and the
\* hinted job is not first in line: then the locks go back and nothing is claimed.
Try ==
    /\ gate # NoOne /\ claim.step = "try" /\ claim.left # <<>>
    /\ LET j == Head(claim.left)
           excluded == ~Processing(j) /\ ProviderOf[j] \in claim.excluded
           busy == ~Processing(j) /\ ~excluded /\ provLock[ProviderOf[j]] # NoOne
           locked == jobLock[j] # NoOne
           free == ~excluded /\ ~busy /\ ~locked
       IN \/ ~free /\ Skip(j, busy)
          \/ free /\ claim.hint \notin {NoOne, j} /\ GiveUp
          \/ free /\ claim.hint \in {NoOne, j} /\ Take(j)

-----------------------------------------------------------------------------
(* What goes on around a claim.                                            *)

Arrive(j) ==
    /\ job[j] = "away"
    /\ job' = [job EXCEPT ![j] = "pending"]
    /\ UNCHANGED <<recent, cooling, jobLock, provLock, gate, claim, exec, missed>>
    /\ Quiet

\* finish_attempt commits: the job is settled or pending again, its locks are held
Finish(w, next) ==
    /\ exec[w] # NoOne /\ job[exec[w]] = "active"
    /\ job' = [job EXCEPT ![exec[w]] = next]
    /\ UNCHANGED <<recent, cooling, jobLock, provLock, gate, claim, exec, missed>>
    /\ Quiet

\* release_job_ownership
Release(w) ==
    /\ exec[w] # NoOne /\ job[exec[w]] # "active"
    /\ jobLock' = [jobLock EXCEPT ![exec[w]] = NoOne]
    /\ provLock' = [p \in Providers |-> IF provLock[p] = w THEN NoOne ELSE provLock[p]]
    /\ exec' = [exec EXCEPT ![w] = NoOne]
    /\ UNCHANGED <<job, recent, cooling, gate, claim, missed>>
    /\ Quiet

\* a provider's cooldown begins or passes
Cooldown(p) ==
    /\ cooling' = IF p \in cooling THEN cooling \ {p} ELSE cooling \cup {p}
    /\ UNCHANGED <<job, recent, jobLock, provLock, gate, claim, exec, missed>>
    /\ Quiet

Claiming == Query \/ Try \/ EndOfWindow

Next ==
    \/ \E w \in Workers, hint \in Jobs \cup {NoOne} : Begin(w, hint)
    \/ Claiming
    \/ \E j \in Jobs : Arrive(j)
    \/ \E w \in Workers : Release(w) \/ \E next \in {"away", "pending"} : Finish(w, next)
    \/ \E p \in Providers : Cooldown(p)

Spec == Init /\ [][Next]_vars

-----------------------------------------------------------------------------
(* Properties                                                              *)

\* The shape of the state, with the active cap of a workspace.
TypeOK ==
    /\ job \in [Jobs -> {"away", "pending", "active"}]
    /\ cooling \subseteq Providers
    /\ gate \in Workers \cup {NoOne}
    /\ \A s \in Stages : \A a \in Workspaces : Cardinality({i \in 1..Len(recent[s]) : recent[s][i] = a}) <= 1
    /\ \A a \in Workspaces : Active(a) <= ActiveCap

\* Turns are respected: while a workspace has a job that a worker of the stage
\* could take, no other workspace is served more than once at that stage, however
\* many jobs it queues, whatever their priority, and whatever the queue hints name.
TurnsRespected ==
    \A s \in Stages : \A a, b \in Workspaces : a # b => passed[s][a][b] <= 1

\* A poll that returns without a job leaves none behind that it could have taken
\* throughout: neither a busy provider whose jobs fill the window nor jobs whose
\* locks are still held hide the work behind them.
NothingMissed == ~missed

=============================================================================
