----------------------------- MODULE WorkBudgets -----------------------------
(***************************************************************************)
(* The durable work budgets of one workspace (storage/work_budgets.py):    *)
(* what a run may spend in its lifetime, what the workspace may spend in a *)
(* month, and how jobs reserve remote requests, normalization and games    *)
(* before they do the work (jobs/runner.py), fail on exhaustion, and are   *)
(* resumed by an operator (jobs/budget_admin.py).                          *)
(*                                                                         *)
(* Every function of work_budgets.py but exhaust_budget runs in one        *)
(* transaction under the transaction lock "workspace-budget", so each is   *)
(* one action; what a job does between two of them is where other jobs,    *)
(* operators, crashes and the change of the month come in.  Workspaces     *)
(* share no row and no lock: the model is of one.                          *)
(***************************************************************************)
EXTENDS Integers, FiniteSets, FiniteSetsExt, Sequences

CONSTANTS
  Run,          \* budget owners: crawl runs, and standalone jobs
  Standalone,   \* the owners that are jobs without a run
  Legacy,       \* the runs that were created before there were budgets
  ArchiveOnly,  \* the runs of an archive job (no provider)
  Job, RunOf,   \* Job -> Run
  Game,         \* game keys
  Policy,       \* the BudgetPolicy values that clients, workers and operators hold
  Admin,        \* operators who edit the workspace policy
  Slice,        \* 65536: what is reserved beyond the response limit
  MaxMonth,     \* bound: the months of one behaviour are 1 .. MaxMonth
  MaxVersion,   \* bound: how often the workspace policy is replaced
  None

Dim    == {"requests", "bytes", "games", "units"}
Shared == Dim \cup {"queued", "active"}
Month  == 1 .. MaxMonth

\* What the settings and the instances guarantee.
BudgetAssumption ==
  /\ None \notin Run /\ None \notin Policy
  /\ Standalone \cup Legacy \subseteq Run /\ ArchiveOnly \subseteq Run
  /\ IsFiniteSet(Job) /\ RunOf \in [Job -> Run]
  /\ Policy \subseteq [job : [Dim -> Nat \ {0}], response : Nat \ {0},
                       ws : [Shared -> Nat \ {0}]]
  /\ Slice \in Nat \ {0} /\ MaxMonth \in Nat \ {0} /\ MaxVersion \in Nat

VARIABLES
  authority,    \* workspace_budget_policies: the row, version 0 when there is none
  history,      \* workspace_policy_history
  period,       \* workspace_budget_periods: usage per month
  budget,       \* work_budgets, with the budget_game_items of each
  reservation,  \* work_request_reservations, in the order of their ids
  job,          \* discovery_jobs and the connection that executes each
  seen,         \* the policy version each operator inspected last
  month         \* the month of the clock

vars == <<authority, history, period, budget, reservation, job, seen, month>>

Usage  == [Dim -> Nat]
NoUse  == [d \in Dim |-> 0]
Limits == [job : [Dim -> Nat], response : Nat, ws : [Shared -> Nat]]

Budget == [policy : Limits, used : Usage, games : SUBSET Game, exhausted : BOOLEAN]

Reservation == [run : Run, month : Month, reserved : Nat, consumed : Nat \cup {None}]

PC == {"absent", "pending",
       "executing",    \* in _execute, between transactions
       "admitted",     \* require_backlog_room has passed
       "requesting",   \* a request is reserved and in flight
       "exceeded",     \* BudgetExceeded raised, before exhaust_budget
       "exhausted",    \* after exhaust_budget, before finish_attempt
       "blocked", "done"}

TypeOK ==
  /\ authority \in [version : Nat, policy : Limits \cup {None}, managed : BOOLEAN]
  /\ history \subseteq [version : Nat, policy : Limits, managed : BOOLEAN]
  /\ period \in [Month -> Usage]
  /\ budget \in [Run -> Budget \cup {None}]
  /\ reservation \in Seq(Reservation)
  /\ job \in [Job -> [pc : PC, held : Nat, credits : Nat]]
  /\ seen \in [Admin -> Nat]
  /\ month \in Month

-----------------------------------------------------------------------------
(* The workspace policy.                                                   *)

Replaced(a, p, m) == [version |-> a.version + 1, policy |-> p, managed |-> m]

Lower(p, q, d) == IF p.ws[d] < q.ws[d] THEN p.ws[d] ELSE q.ws[d]
Higher(m, n)   == IF m > n THEN m ELSE n

(* _workspace_policy(tighten=True): the first policy is installed as it    *)
(* is; an unmanaged one only becomes tighter.                              *)
Tightened(p) ==
  LET low == [authority.policy EXCEPT !.ws = [d \in Shared |-> Lower(authority.policy, p, d)]]
  IN  IF authority.version = 0 THEN Replaced(authority, p, FALSE)
      ELSE IF authority.managed \/ low = authority.policy THEN authority
      ELSE Replaced(authority, low, FALSE)

(* A transaction leaves a as the policy row and records its version.       *)
Install(a) ==
  /\ authority' = a
  /\ history' = history \cup {a}

(* install_workspace_policy, called by a server before it admits a run.    *)
InstallPolicy(p) ==
  /\ Tightened(p) # authority /\ authority.version < MaxVersion
  /\ Install(Tightened(p))
  /\ UNCHANGED <<period, budget, reservation, job, seen, month>>

(* An operator reads the policy and its version.                           *)
Inspect(x) ==
  /\ seen[x] # authority.version
  /\ seen' = [seen EXCEPT ![x] = authority.version]
  /\ UNCHANGED <<authority, history, period, budget, reservation, job, month>>

(* The version the operator expects is still the stored one.               *)
Current(x) == seen[x] = authority.version

(* set_workspace_policy: a compare-and-set on the version.                 *)
SetPolicy(x, p) ==
  /\ Current(x) /\ authority.version < MaxVersion
  /\ Install(Replaced(authority, p, TRUE))
  /\ UNCHANGED <<period, budget, reservation, job, seen, month>>

-----------------------------------------------------------------------------
(* Admission.                                                              *)

JobsOf(r)  == {j \in Job : RunOf[j] = r}
Unfinished == {j \in Job : job[j].pc \notin {"absent", "done"}}

Priced(r) == IF r \in ArchiveOnly THEN {"units"} ELSE Dim

(* The checks of admit_run_budget on the workspace policy a, with n jobs   *)
(* in the backlog.  A standalone job is not subject to them.               *)
Affordable(r, a, n) ==
  r \in Standalone \/
  /\ \A d \in Priced(r) : a.policy.ws[d] > period[month][d]
  /\ n <= a.policy.ws["queued"] + a.policy.ws["active"]

(* _admission_policy: a managed workspace policy replaces the submitted.   *)
NewBudget(a, p) ==
  [policy |-> IF a.managed THEN a.policy ELSE p,
   used |-> NoUse, games |-> {}, exhausted |-> FALSE]

Appear(r) == [j \in Job |-> IF j \in JobsOf(r) THEN [job[j] EXCEPT !.pc = "pending"] ELSE job[j]]

(* A run is created with its jobs and admitted in one transaction, which a *)
(* QuotaExceeded rolls back.                                               *)
Submit(r, p) ==
  /\ \A j \in JobsOf(r) : job[j].pc = "absent"
  /\ r \notin Standalone \cup Legacy
  /\ Affordable(r, Tightened(p), Cardinality(Unfinished \cup JobsOf(r)))
  /\ Install(Tightened(p)) /\ authority'.version <= MaxVersion
  /\ budget' = [budget EXCEPT ![r] = NewBudget(Tightened(p), p)]
  /\ job' = Appear(r)
  /\ UNCHANGED <<period, reservation, seen, month>>

(* Jobs that are enqueued without a budget.                                *)
Enqueue(r) ==
  /\ r \in Standalone \cup Legacy
  /\ \A j \in JobsOf(r) : job[j].pc = "absent"
  /\ job' = Appear(r)
  /\ UNCHANGED <<authority, history, period, budget, reservation, seen, month>>

-----------------------------------------------------------------------------
(* A job's execution.                                                      *)

At(j, pc) == job' = [job EXCEPT ![j].pc = pc]

(* BudgetExceeded reaches _execute: only a known budget is marked.         *)
Exceed(j) == At(j, IF budget[RunOf[j]] = None THEN "exhausted" ELSE "exceeded")

(* ensure_job_budget, first thing of an execution.                         *)
Execute(j, p) ==
  LET r == RunOf[j]
      a == Tightened(p)
  IN
  /\ job[j].pc = "pending"
  /\ \/ /\ budget[r] # None
        /\ At(j, "executing")
        /\ UNCHANGED <<authority, history, budget>>
     \/ /\ budget[r] = None /\ Affordable(r, a, Cardinality(Unfinished))
        /\ Install(a) /\ authority'.version <= MaxVersion
        /\ budget' = [budget EXCEPT ![r] = NewBudget(a, p)]
        /\ At(j, "executing")
     \/ /\ budget[r] = None /\ ~Affordable(r, a, Cardinality(Unfinished))
        /\ Exceed(j)
        /\ UNCHANGED <<authority, history, budget>>
  /\ UNCHANGED <<period, reservation, seen, month>>

(* _remaining(requested=n) does not raise: run and workspace both have n.  *)
Left(b, d, n) ==
  /\ b.policy.job[d] - b.used[d] >= n
  /\ authority.policy.ws[d] - period[month][d] >= n

(* ... and what it returns.                                                *)
Available(b, d) ==
  LET run    == b.policy.job[d] - b.used[d]
      shared == authority.policy.ws[d] - period[month][d]
  IN  IF run < shared THEN run ELSE shared

(* Both tables are charged with the same amounts in one transaction, which *)
(* also inserts the budget_game_items.                                     *)
Charge(r, cost, items) ==
  /\ budget' = [budget EXCEPT ![r].used = [d \in Dim |-> @[d] + cost[d]],
                              ![r].games = @ \cup items]
  /\ period' = [period EXCEPT ![month] = [d \in Dim |-> @[d] + cost[d]]]

(* require_backlog_room, called by _reserve_request when normalization is  *)
(* deferred to a job of its own.                                           *)
RequireBacklogRoom(j) ==
  LET ws == authority.policy.ws
  IN
  /\ job[j].pc = "executing" /\ job[j].held = 0
  /\ IF Cardinality(Unfinished) < ws["queued"] + ws["active"]
       THEN At(j, "admitted") ELSE Exceed(j)
  /\ UNCHANGED <<authority, history, period, budget, reservation, seen, month>>

(* Mutant of ResponseLimit: the headroom above the limit is not kept back. *)
ResponseLimitWhole(b) ==
  IF b.policy.response < Available(b, "bytes") THEN b.policy.response
  ELSE Available(b, "bytes")

(* The byte limit of a response: half of what is left when that is less    *)
(* than two slices, else all of it but one slice.                          *)
ResponseLimit(b) ==
  LET left == Available(b, "bytes")
      most == IF left < 2 * Slice THEN left \div 2 ELSE left - Slice
  IN  IF b.policy.response < most THEN b.policy.response ELSE most

Reserved(limit) == limit + (IF Slice < limit THEN Slice ELSE limit)

RequestCost(bytes) ==
  [d \in Dim |-> CASE d = "bytes" -> bytes [] d = "games" -> 0 [] OTHER -> 1]

(* reserve_request, and what _reserve_request keeps of it: the reservation *)
(* and one prepaid read of the payload.                                    *)
ReserveRequest(j) ==
  LET r == RunOf[j]
      b == budget[r]
      bytes == Reserved(ResponseLimit(b))
  IN
  /\ job[j].pc = "admitted"
  /\ \/ /\ \A d \in Dim : Left(b, d, 1)
        /\ Available(b, "bytes") >= 2
        /\ Charge(r, RequestCost(bytes), {})
        /\ reservation' = Append(reservation, [run |-> r, month |-> month,
                                               reserved |-> bytes, consumed |-> None])
        /\ job' = [job EXCEPT ![j] = [pc |-> "requesting", held |-> Len(reservation) + 1,
                                      credits |-> @.credits + 1]]
     \/ /\ (\E d \in Dim : ~Left(b, d, 1)) \/ Available(b, "bytes") < 2
        /\ Exceed(j)
        /\ UNCHANGED <<period, budget, reservation>>
  /\ UNCHANGED <<authority, history, seen, month>>

(* Mutant of RefundMonth: the refund goes to the month of the settlement.  *)
RefundMonthNow(n) == month

(* The period a settlement refunds: the one the reservation charged.       *)
RefundMonth(n) == reservation[n].month

(* settle_request, from the finally of the HTTP request: consumed bytes    *)
(* stay spent, the rest is refunded once.  The job goes on, or the         *)
(* response was too large, undecodable or too slow.                        *)
SettleRequest(j, consumed) ==
  LET n == job[j].held
      refund == reservation[n].reserved - consumed
  IN
  /\ job[j].pc = "requesting"
  /\ consumed \in 0 .. reservation[n].reserved
  /\ budget' = [budget EXCEPT ![reservation[n].run].used["bytes"] = @ - refund]
  /\ period' = [period EXCEPT ![RefundMonth(n)]["bytes"] = @ - refund]
  /\ reservation' = [reservation EXCEPT ![n].consumed = consumed]
  /\ \E pc \in {"executing", "exceeded"} :
       job' = [job EXCEPT ![j].pc = pc, ![j].held = 0]
  /\ UNCHANGED <<authority, history, seen, month>>

(* _reserve_processing_work: is g a game this budget has not paid for?     *)
NewGame(b, g) == g # None /\ g \notin b.games

(* _reserve_processing_work: interpretation of n units and the game g, or  *)
(* None.  reserve_normalization has n > 0, reserve_game n = 0.             *)
ReserveWork(j, n, g) ==
  LET r == RunOf[j]
      b == budget[r]
      games == IF NewGame(b, g) THEN 1 ELSE 0
      cost == [d \in Dim |-> CASE d = "units" -> n [] d = "games" -> games [] OTHER -> 0]
  IN
  /\ job[j].pc = "executing"
  /\ \/ /\ n > 0 => Left(b, "units", n)
        /\ games > 0 => Left(b, "games", 1)
        /\ Charge(r, cost, {g} \ {None})
        /\ UNCHANGED job
     \/ /\ (n > 0 /\ ~Left(b, "units", n)) \/ (games > 0 /\ ~Left(b, "games", 1))
        /\ Exceed(j)
        /\ UNCHANGED <<period, budget>>
  /\ UNCHANGED <<authority, history, reservation, seen, month>>

ReserveNormalization(j) == ReserveWork(j, 1, None)
ReserveGame(j) == \E g \in Game : ReserveWork(j, 0, g)

(* reserve_payload_read: a body above max_response_bytes is refused, a     *)
(* prepaid read costs nothing, any other read is billed as one unit.       *)
ReservePayloadRead(j) ==
  \/ /\ job[j].pc = "executing"
     /\ Exceed(j)
     /\ UNCHANGED <<authority, history, period, budget, reservation, seen, month>>
  \/ /\ job[j].pc = "executing" /\ job[j].credits > 0
     /\ job' = [job EXCEPT ![j].credits = @ - 1]
     /\ UNCHANGED <<authority, history, period, budget, reservation, seen, month>>
  \/ /\ job[j].credits = 0
     /\ ReserveNormalization(j)

(* exhaust_budget: a transaction of its own, without the budget lock.      *)
ExhaustBudget(j) ==
  /\ job[j].pc = "exceeded"
  /\ budget' = [budget EXCEPT ![RunOf[j]].exhausted = TRUE]
  /\ At(j, "exhausted")
  /\ UNCHANGED <<authority, history, period, reservation, seen, month>>

Idle(pc) == [pc |-> pc, held |-> 0, credits |-> 0]

(* finish_attempt and the finally of _run_owned: the attempt's end is      *)
(* durable, reservation and read credits are forgotten.                    *)
FinishAttempt(j) ==
  /\ \/ job[j].pc = "exhausted" /\ job' = [job EXCEPT ![j] = Idle("blocked")]
     \/ job[j].pc = "executing" /\ \E pc \in {"done", "pending"} :
                                     job' = [job EXCEPT ![j] = Idle(pc)]
  /\ UNCHANGED <<authority, history, period, budget, reservation, seen, month>>

(* The process dies, and recovery makes the job pending again.  What it    *)
(* had reserved stays spent.                                               *)
Crash(j) ==
  /\ job[j].pc \in {"executing", "admitted", "requesting", "exceeded", "exhausted"}
  /\ job' = [job EXCEPT ![j] = Idle("pending")]
  /\ UNCHANGED <<authority, history, period, budget, reservation, seen, month>>

-----------------------------------------------------------------------------
(* resume_run_budget: every field of the run's policy only grows.          *)
Extended(old, p) ==
  [job |-> [d \in Dim |-> Higher(old.job[d], p.job[d])],
   response |-> Higher(old.response, p.response),
   ws |-> [d \in Shared |-> Higher(old.ws[d], p.ws[d])]]

(* resume_run_budget: ceilings are extended, spent usage is kept, and the  *)
(* run's jobs blocked by exhaustion are pending again.                     *)
Resume(r, p) ==
  LET old == authority.policy
      up  == [old EXCEPT !.ws = [d \in Shared |-> Higher(old.ws[d], p.ws[d])]]
  IN
  /\ budget[r] # None /\ r \notin Standalone
  /\ budget' = [budget EXCEPT ![r].policy = Extended(@, p), ![r].exhausted = FALSE]
  /\ IF up = old THEN UNCHANGED <<authority, history>>
     ELSE /\ authority.version < MaxVersion
          /\ Install(Replaced(authority, up, authority.managed))
  /\ job' = [j \in Job |-> IF RunOf[j] = r /\ job[j].pc = "blocked"
                             THEN [job[j] EXCEPT !.pc = "pending"] ELSE job[j]]
  /\ UNCHANGED <<period, reservation, seen, month>>

(* monthly_period: the clock enters another month.                         *)
NextMonth ==
  /\ month < MaxMonth
  /\ month' = month + 1
  /\ UNCHANGED <<authority, history, period, budget, reservation, job, seen>>

-----------------------------------------------------------------------------
Init ==
  /\ authority = [version |-> 0, policy |-> None, managed |-> FALSE]
  /\ history = {}
  /\ period = [m \in Month |-> NoUse]
  /\ budget = [r \in Run |-> None]
  /\ reservation = << >>
  /\ job = [j \in Job |-> Idle("absent")]
  /\ seen = [x \in Admin |-> 0]
  /\ month = 1

JobStep(j) ==
  \/ \E p \in Policy : Execute(j, p)
  \/ RequireBacklogRoom(j)
  \/ ReserveRequest(j)
  \/ \E n \in 0 .. Len(reservation) :
       n = job[j].held /\ n > 0 /\ \E c \in 0 .. reservation[n].reserved : SettleRequest(j, c)
  \/ ReserveNormalization(j)
  \/ ReserveGame(j)
  \/ ReservePayloadRead(j)
  \/ ExhaustBudget(j)
  \/ FinishAttempt(j)
  \/ Crash(j)

OperatorStep ==
  \/ \E r \in Run, p \in Policy : Resume(r, p)
  \/ \E x \in Admin, p \in Policy : SetPolicy(x, p)

Next ==
  \/ \E p \in Policy : InstallPolicy(p)
  \/ \E x \in Admin : Inspect(x)
  \/ \E r \in Run, p \in Policy : Submit(r, p)
  \/ \E r \in Run : Enqueue(r)
  \/ \E j \in Job : JobStep(j)
  \/ OperatorStep
  \/ NextMonth

Spec == Init /\ [][Next]_vars

-----------------------------------------------------------------------------
(* No step spends over the workspace's ceiling in force: usage of a month  *)
(* grows only up to the policy that is stored at that moment, so runs that *)
(* reserve concurrently do not overspend near the boundary, even after the *)
(* policy was tightened under them.                                        *)
QuotaRespected ==
  \A m \in Month, d \in Dim :
       period'[m][d] > period[m][d] => period'[m][d] <= authority.policy.ws[d]

Spent(S) == MapThenSumSet(LAMBDA n : IF reservation[n].consumed = None
                                       THEN reservation[n].reserved
                                       ELSE reservation[n].consumed, S)

(* Bytes are conserved: what a run and what a month are charged is exactly *)
(* the sum over their reservations, settled at what was consumed, open or  *)
(* lost ones at what was reserved.  No refund is lost, made twice or made  *)
(* to another month.                                                       *)
BytesConserved ==
  /\ \A r \in Run : budget[r] # None =>
       budget[r].used["bytes"] = Spent({n \in DOMAIN reservation : reservation[n].run = r})
  /\ \A m \in Month :
       period[m]["bytes"] = Spent({n \in DOMAIN reservation : reservation[n].month = m})

=============================================================================
