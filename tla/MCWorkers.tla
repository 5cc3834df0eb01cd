----------------------------- MODULE MCWorkers ------------------------------
(* The workers' side: a worker process with its heartbeat and the           *)
(* dispatcher that wakes workers (both extended, so that their theorems and *)
(* this run speak of one definition), whose turn it is when a worker        *)
(* claims, and the budgets a job spends.  The parts share no state here:    *)
(* `part` is chosen once, the instance it names moves, and the variables of *)
(* the other modules stay idle.                                             *)
EXTENDS WorkerProcess, DispatchOutbox, Sequences, TLC

CONSTANTS j0, j1, j2, p1, p2, r0, r1, r2, w1

\* Two workspaces: the first has acquisitions of one provider, the second one
\* acquisition and one processing job of a lower priority.
SharedWorkspaceOf == <<"north", "north", "south", "south">>
SharedProviderOf == <<"lichess", "lichess", "lichess", "processing">>
SharedPriority == <<1, 1, 2, 2>>

\* A provider's jobs fill the window in front of a processing job.
FrontWorkspaceOf == <<"north", "north", "north", "north">>
FrontProviderOf == <<"lichess", "lichess", "lichess", "processing">>

\* Both kinds of ceiling bind: the month has room for more requests than a run
\* and for fewer bytes than two of them.
PerDimension(req, bytes, games, units) ==
    ("requests" :> req) @@ ("bytes" :> bytes) @@ ("games" :> games) @@ ("units" :> units)
Backlog(q, n) == ("queued" :> q) @@ ("active" :> n)
Small == [job |-> PerDimension(1, 3, 2, 1), response |-> 2, ws |-> PerDimension(2, 3, 2, 1) @@ Backlog(1, 2)]

\* Tighter than Small in some ceilings and wider in one.
Uneven == [Small EXCEPT !.job = PerDimension(2, 4, 2, 2), !.ws = PerDimension(2, 2, 1, 1) @@ Backlog(2, 1)]

\* Exchanging the two runs with their jobs, or the two dispatchers, changes nothing.
Owned == {<<j1, r1>>, <<j2, r2>>}
Exchange ==
    {f \in Permutations({j1, j2, r1, r2}) : \A o \in Owned : <<f[o[1]], f[o[2]]>> \in Owned}
      \cup Permutations({p1, p2})

VARIABLES
    part,   \* the instance that moves
    turnsJob, recent, cooling, jobLock, provLock, gate, claim, exec, passed, steady,
    missed,
    authority, history, period, budget, reservation, budgetsJob, seen, month

Turns == INSTANCE ClaimTurns WITH
    Jobs <- 1..4, Workspaces <- {"north", "south"}, WorkspaceOf <- SharedWorkspaceOf,
    ProviderOf <- SharedProviderOf, Priority <- SharedPriority, Workers <- {1, 2},
    StageOf <- <<"all", "all">>, ActiveCap <- 1, Window <- 2, job <- turnsJob
Front == INSTANCE ClaimTurns WITH
    Jobs <- 1..4, Workspaces <- {"north"}, WorkspaceOf <- FrontWorkspaceOf,
    ProviderOf <- FrontProviderOf, Priority <- SharedPriority, Workers <- {1, 2},
    StageOf <- <<"all", "all">>, ActiveCap <- 2, Window <- 2, job <- turnsJob
\* Two runs that meet at the ceilings of the month, across the end of the month.
Spending == INSTANCE WorkBudgets WITH
    Run <- {r1, r2}, Standalone <- {}, Legacy <- {}, ArchiveOnly <- {}, Job <- {j1, j2},
    RunOf <- (j1 :> r1) @@ (j2 :> r2), Game <- {}, Policy <- {Small}, Admin <- {},
    Slice <- 1, MaxMonth <- 2, MaxVersion <- 1, job <- budgetsJob
\* Two runs of an older version, whose jobs may have no budget yet, and a game that pages repeat.
Counting == INSTANCE WorkBudgets WITH
    Run <- {r1, r2}, Standalone <- {}, Legacy <- {r1, r2}, ArchiveOnly <- {},
    Job <- {j1, j2}, RunOf <- (j1 :> r1) @@ (j2 :> r2), Game <- {"g1"},
    Policy <- {Small}, Admin <- {}, Slice <- 1, MaxMonth <- 1, MaxVersion <- 1,
    job <- budgetsJob
\* Servers, a resume and operators that change the policy under one run.
Policies == INSTANCE WorkBudgets WITH
    Run <- {r0}, Standalone <- {}, Legacy <- {r0}, ArchiveOnly <- {r0}, Job <- {j0},
    RunOf <- (j0 :> r0), Game <- {}, Policy <- {Small, Uneven}, Admin <- {"x1"},
    Slice <- 1, MaxMonth <- 1, MaxVersion <- 3, job <- budgetsJob

\* The instances are ones the settings allow.
ASSUME SettingsAllowed == Turns!WindowCoversWorkers /\ Front!WindowCoversWorkers /\
                          Spending!BudgetAssumption /\ Counting!BudgetAssumption /\
                          Policies!BudgetAssumption

turnsVars == <<turnsJob, recent, cooling, jobLock, provLock, gate, claim, exec, passed,
               steady, missed>>
budgetsVars == <<authority, history, period, budget, reservation, budgetsJob, seen,
                 month>>
everything == <<part, vars, turnsVars, budgetsVars, dispatchVars>>

Unused == "unused"
NoTurns == turnsJob = Unused /\ recent = Unused /\ cooling = Unused /\
        jobLock = Unused /\ provLock = Unused /\ gate = Unused /\ claim = Unused /\
        exec = Unused /\ passed = Unused /\ steady = Unused /\ missed = Unused
NoBudgets == authority = Unused /\ history = Unused /\ period = Unused /\
          budget = Unused /\ reservation = Unused /\ budgetsJob = Unused /\
          seen = Unused /\ month = Unused

WorkersInit ==
    \/ part = "restarts" /\ Init /\ NoTurns /\ NoBudgets /\ DispatchInit
    \/ part = "turns" /\ Turns!Init /\ NoBudgets /\ DispatchInit /\ Init
    \/ part = "front" /\ Front!Init /\ NoBudgets /\ DispatchInit /\ Init
    \/ part = "spending" /\ Spending!Init /\ NoTurns /\ DispatchInit /\ Init
    \/ part = "counting" /\ Counting!Init /\ NoTurns /\ DispatchInit /\ Init
    \/ part = "policies" /\ Policies!Init /\ NoTurns /\ DispatchInit /\ Init
    \/ part = "hints" /\ DispatchInit /\ NoTurns /\ NoBudgets /\ Init

WorkersNext ==
    \/ part = "restarts" /\ Next /\ UNCHANGED <<part, turnsVars, budgetsVars, dispatchVars>>
    \/ part = "turns" /\ Turns!Next /\ UNCHANGED <<part, vars, budgetsVars, dispatchVars>>
    \/ part = "front" /\ Front!Next /\ UNCHANGED <<part, vars, budgetsVars, dispatchVars>>
    \/ part = "spending" /\ Spending!Next /\ UNCHANGED <<part, vars, turnsVars, dispatchVars>>
    \/ part = "counting" /\ Counting!Next /\ UNCHANGED <<part, vars, turnsVars, dispatchVars>>
    \/ part = "policies" /\ Policies!Next /\ UNCHANGED <<part, vars, turnsVars, dispatchVars>>
    \/ part = "hints" /\ DispatchNext /\ UNCHANGED <<part, vars, turnsVars, budgetsVars>>

WorkersSpec == WorkersInit /\ [][WorkersNext]_everything

-----------------------------------------------------------------------------
(* While a workspace has a job that a worker could take, no other workspace *)
(* is served more than once at that stage, however many jobs it queues,     *)
(* whatever their priority and whatever the queue hints name.               *)
TurnsRespected == (part = "turns" => Turns!TurnsRespected) /\ (part = "front" => Front!TurnsRespected)

(* A poll that returns without a job leaves none behind that it could have  *)
(* taken throughout: neither a busy provider whose jobs fill the window nor *)
(* jobs whose locks are still held hide the work behind them.               *)
NothingMissed == (part = "turns" => Turns!NothingMissed) /\ (part = "front" => Front!NothingMissed)

(* What a run and what a month are charged is exactly the sum over their    *)
(* reservations: no refund is lost, made twice or made to another month.    *)
BytesConserved ==
    /\ part = "spending" => Spending!BytesConserved
    /\ part = "counting" => Counting!BytesConserved
    /\ part = "policies" => Policies!BytesConserved

(* Usage of a month grows only up to the policy stored at that moment, even *)
(* when runs reserve side by side or the policy is tightened under them.    *)
QuotaRespected ==
    [][(part = "spending" => Spending!QuotaRespected) /\ (part = "policies" => Policies!QuotaRespected)]_everything
=============================================================================
