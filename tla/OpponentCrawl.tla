--------------------------- MODULE OpponentCrawl ---------------------------
(***************************************************************************)
(* The opponent crawl of one run: a breadth-first walk of the graph of who *)
(* played whom, made of two kinds of durable jobs.  A crawl_opponents job  *)
(* acquires the games of one user month by month (jobs/acquisition.py,     *)
(* jobs/runner.py); every captured month is normalised by a child job that *)
(* the next claim of the parent waits for.  When the acquisition is done   *)
(* an expand_opponents job turns the run's games of that user into edges,  *)
(* jobs for opponents not seen before, and promotions of opponents that    *)
(* had been reached by a longer path (jobs/discovery.py, jobs/state.py).   *)
(* The jobs run on several workers, in any order: an acquisition waits for *)
(* a provider slot, its cooldown and its retries, so a deep user may well  *)
(* be crawled before a shallow one.                                        *)
(*                                                                         *)
(* A Lichess acquisition is one stream: Streamed is TRUE, Months is 1 and  *)
(* bounded_capture_complete is the cursor.  Cancellation, leases and       *)
(* retries of the jobs are in JobExecution, the association of a game with *)
(* the run in GameNormalization.                                           *)
(***************************************************************************)
EXTENDS Integers, FiniteSets, Sequences, SequencesExt

CONSTANTS Users,     \* the provider's users, 0 .. n: the seed is 0, names sort as numbers
          Games,     \* the games of the window the crawl asks for, later ones are larger
          Players,   \* the two users of each game
          Month,     \* the month each game ended in, 0 .. Months - 1
          Months,    \* the months of the window
          Streamed,  \* the provider answers with the latest games up to the limit asked for
          MaxDepth, MaxUsers, MaxGames, MaxJobs,   \* the bounds of the crawl
          MaxFaults  \* how many executions crash or fail in a behaviour

\* What the settings and the instances guarantee.
BoundsAssumption ==
    /\ 0 \in Users /\ Users \subseteq Nat
    /\ Games \subseteq Nat /\ Streamed \in BOOLEAN /\ (Streamed => Months = 1)
    /\ Players \in [Games -> SUBSET Users] /\ Month \in [Games -> 0 .. Months - 1]
    /\ MaxDepth \in Nat /\ MaxFaults \in Nat
    /\ {MaxUsers, MaxGames, MaxJobs, Months} \subseteq Nat \ {0}

VARIABLES acq,      \* the crawl_opponents job of each user
          units,    \* the payload of each month of an acquisition, then its normalize_payload child
          shown,    \* the games of the captured bodies, per month
          exp,      \* the expand_opponents jobs: one per acquisition and depth
          edges,    \* the run's discovery edges, with the depth recorded
          member,   \* run_games
          faults

vars == <<acq, units, shown, exp, edges, member, faults>>

Seed == 0
Depths == 0 .. MaxDepth
Unqueued == [state |-> "none", depth |-> 0, cursor |-> 0]
NoPlan == [state |-> "none", at |-> 0, seen |-> << >>]
Terminal == {"done", "error", "skipped"}

\* An acquisition whose row is in_progress, told apart by how far it came.
Executing == {"in_progress", "fetched", "queued", "checkpointed", "captured"}

GamesOf(u, m) == {g \in Games : u \in Players[g] /\ Month[g] = m}
CrawledUsers == {u \in Users : acq[u].state # "none"}

TypeOK ==
    /\ acq \in [Users -> [state : Terminal \union Executing \union {"none", "pending"},
                          depth : Depths, cursor : 0 .. Months]]
    /\ units \in [Users \X (0 .. Months - 1) -> {"none", "stored", "pending", "done", "error"}]
    /\ shown \in [Users \X (0 .. Months - 1) -> SUBSET Games]
    /\ DOMAIN exp = Users \X Depths
    /\ \A x \in DOMAIN exp : /\ exp[x].state \in Terminal \union {"none", "pending", "in_progress"}
                             /\ exp[x].at \in Depths /\ exp[x].at <= x[2]
                             /\ Range(exp[x].seen) \subseteq Users \ {x[1]}
    /\ edges \in [Users \X Users -> 0 .. MaxDepth]
    /\ member \subseteq Games /\ Cardinality(member) <= MaxGames
    /\ faults \in 0 .. MaxFaults

----------------------------------------------------------------------------
(* create_crawl_run_with_root_job: the bounds are validated and the seed's *)
(* job is inserted at depth zero.                                          *)
Init ==
    /\ acq = [u \in Users |-> IF u = Seed THEN [Unqueued EXCEPT !.state = "pending"] ELSE Unqueued]
    /\ units = [x \in Users \X (0 .. Months - 1) |-> "none"]
    /\ shown = [x \in Users \X (0 .. Months - 1) |-> {}]
    /\ exp = [x \in Users \X Depths |-> NoPlan]
    /\ edges = [x \in Users \X Users |-> 0]
    /\ member = {} /\ faults = 0

(* The depth of the acquisition job or of its shallowest expansion.        *)
KnownDepth(a, e, u) ==
    LET ds == {a[u].depth} \union {d \in Depths : e[<<u, d>>].state # "none"}
    IN  CHOOSE d \in ds : \A o \in ds : d <= o

(* remaining_game_budget: what the run may still take.                     *)
Remaining == MaxGames - Cardinality(member)

Working == {u \in Users : acq[u].state \in Executing}

(* An acquisition is claimed under the provider's one permit, and never    *)
(* while a normalisation of a month it captured is unfinished.             *)
Claimable(u) ==
    /\ acq[u].state = "pending" /\ Working = {}
    /\ \A m \in 0 .. Months - 1 : units[<<u, m>>] # "pending"

Claim(u) ==
    /\ Claimable(u)
    /\ acq' = [acq EXCEPT ![u].state = "in_progress"]
    /\ UNCHANGED <<units, shown, exp, edges, member, faults>>

(* finish_attempt: the row is no longer executing, and takes the depth of  *)
(* an expansion that was queued for it meanwhile.                          *)
FinishAttempt(u, state) ==
    acq' = [acq EXCEPT ![u].state = state, ![u].depth = KnownDepth(acq, exp, u)]

ChildFailed(u) == \E m \in 0 .. Months - 1 : units[<<u, m>>] = "error"

(* The selection is complete: the run has its games, or every month of the *)
(* window was captured.                                                    *)
SelectionComplete(u) == Remaining = 0 \/ acq[u].cursor >= Months

(* The games of one answer.  A month's archive is whole; a stream holds    *)
(* only as many as the run could still take when it was asked for, games   *)
(* the run already has among them.                                         *)
Body(u, m) ==
    LET all == GamesOf(u, m)
    IN  IF Streamed THEN {g \in all : Cardinality({h \in all : h > g}) < Remaining} ELSE all

(* Mutant: a payload used again is taken to have its child already.        *)
FetchReusesChild(u) ==
    /\ acq[u].state = "in_progress" /\ ~ChildFailed(u) /\ ~SelectionComplete(u)
    /\ LET x == <<u, acq[u].cursor>>
       IN  \/ /\ units[x] = "none"
              /\ units' = [units EXCEPT ![x] = "stored"]
              /\ shown' = [shown EXCEPT ![x] = Body(u, x[2])]
              /\ acq' = [acq EXCEPT ![u].state = "fetched"]
           \/ /\ units[x] # "none" /\ UNCHANGED <<units, shown>>
              /\ acq' = [acq EXCEPT ![u].state = "queued"]
    /\ UNCHANGED <<exp, edges, member, faults>>

(* One month is fetched and its response committed, unless an earlier      *)
(* execution of this job had stored it: that payload is used again.        *)
Fetch(u) ==
    /\ acq[u].state = "in_progress" /\ ~ChildFailed(u) /\ ~SelectionComplete(u)
    /\ LET x == <<u, acq[u].cursor>>
       IN  \/ /\ units[x] = "none"
              /\ units' = [units EXCEPT ![x] = "stored"]
              /\ shown' = [shown EXCEPT ![x] = Body(u, x[2])]
           \/ units[x] # "none" /\ UNCHANGED <<units, shown>>
    /\ acq' = [acq EXCEPT ![u].state = "fetched"]
    /\ UNCHANGED <<exp, edges, member, faults>>

(* enqueue_payload_normalization: the child is queued in a transaction of  *)
(* its own.  A payload used again keeps the child it has, whatever became  *)
(* of it, or gets the one a crash had left out.                            *)
QueueChild(u) ==
    /\ acq[u].state = "fetched"
    /\ LET x == <<u, acq[u].cursor>>
       IN  units' = [units EXCEPT ![x] = IF @ = "stored" THEN "pending" ELSE @]
    /\ acq' = [acq EXCEPT ![u].state = "queued"]
    /\ UNCHANGED <<shown, exp, edges, member, faults>>

(* checkpoint_job moves the cursor; the child may have run by now.         *)
Checkpoint(u) ==
    /\ acq[u].state = "queued"
    /\ acq' = [acq EXCEPT ![u].state = "checkpointed", ![u].cursor = @ + 1]
    /\ UNCHANGED <<units, shown, exp, edges, member, faults>>

(* The provider refuses: the job is skipped or ends in error.  A month     *)
(* whose normalisation failed ends the job too, rather than being left out.*)
Refused(u) ==
    /\ acq[u].state = "in_progress"
    /\ \/ /\ ChildFailed(u) /\ UNCHANGED faults
          /\ FinishAttempt(u, "error")
       \/ /\ ~ChildFailed(u) /\ ~SelectionComplete(u)
          /\ units[<<u, acq[u].cursor>>] = "none"   \* a payload used again asks nothing
          /\ faults < MaxFaults /\ faults' = faults + 1
          /\ \E s \in {"error", "skipped"} : FinishAttempt(u, s)
    /\ UNCHANGED <<units, shown, exp, edges, member>>

(* The child associates the games of its month, in the order of the body,  *)
(* until the run is full.                                                  *)
Normalize(u, m) ==
    /\ units[<<u, m>>] = "pending"
    /\ LET fresh == shown[<<u, m>>] \ member
           room == Remaining
       IN  \E taken \in SUBSET fresh :
              /\ Cardinality(taken) = (IF Cardinality(fresh) <= room THEN Cardinality(fresh) ELSE room)
              /\ member' = member \union taken
    /\ units' = [units EXCEPT ![<<u, m>>] = "done"]
    /\ UNCHANGED <<acq, shown, exp, edges, faults>>

NormalizeFails(u, m) ==
    /\ units[<<u, m>>] = "pending" /\ faults < MaxFaults
    /\ units' = [units EXCEPT ![<<u, m>>] = "error"] /\ faults' = faults + 1
    /\ UNCHANGED <<acq, shown, exp, edges, member>>

----------------------------------------------------------------------------
(* enqueue_opponent_expansion: one job per acquisition and depth, a        *)
(* terminal one included.                                                  *)
EnqueueExpansion(e, a, u, depth) ==
    LET known == KnownDepth(a, e, u)
        d == IF depth <= known THEN depth ELSE known
    IN  [e EXCEPT ![<<u, d>>] = IF @.state = "none" THEN [@ EXCEPT !.state = "pending"] ELSE @]

(* _crawl_opponents: the expansion is queued in a transaction of its own,  *)
(* before the acquisition is marked done.                                  *)
QueueExpansion(u) ==
    /\ acq[u].state = "in_progress" /\ ~ChildFailed(u) /\ SelectionComplete(u)
    /\ exp' = EnqueueExpansion(exp, acq, u, acq[u].depth)
    /\ acq' = [acq EXCEPT ![u].state = "captured"]
    /\ UNCHANGED <<units, shown, edges, member, faults>>

(* The attempt ends with another month to come, or with the acquisition.   *)
FinishAcquisition(u) ==
    /\ \/ acq[u].state = "checkpointed" /\ FinishAttempt(u, "pending")
       \/ acq[u].state = "captured" /\ FinishAttempt(u, "done")
    /\ UNCHANGED <<units, shown, exp, edges, member, faults>>

(* The executor dies and the orphaned acquisition is pending again.        *)
AcquisitionCrash(u) ==
    /\ acq[u].state \in Executing /\ faults < MaxFaults
    /\ acq' = [acq EXCEPT ![u].state = "pending"] /\ faults' = faults + 1
    /\ UNCHANGED <<units, shown, exp, edges, member>>

----------------------------------------------------------------------------
GameCount(u, v) == Cardinality({g \in member : Players[g] = {u, v}})

(* opponents_of_user: over the run's games, the most frequent first, then  *)
(* by name.                                                                *)
OpponentsOf(u) ==
    SetToSortSeq({v \in Users \ {u} : GameCount(u, v) > 0},
                 LAMBDA v, w : \/ GameCount(u, v) > GameCount(u, w)
                               \/ GameCount(u, v) = GameCount(u, w) /\ v < w)

(* An expansion is claimed once its acquisition is terminal.  It retires   *)
(* with an acquisition that failed; otherwise it settles on the shallowest *)
(* depth known by now and reads the opponents, outside any lock.           *)
BeginExpansion(u, d) ==
    /\ exp[<<u, d>>].state = "pending" /\ acq[u].state \in Terminal
    /\ LET known == KnownDepth(acq, exp, u)
           at == IF d <= known THEN d ELSE known
       IN  exp' = [exp EXCEPT ![<<u, d>>] =
              IF acq[u].state # "done" THEN [@ EXCEPT !.state = "skipped"]
              ELSE IF at + 1 > MaxDepth THEN [@ EXCEPT !.state = "done"]
              ELSE [state |-> "in_progress", at |-> at, seen |-> OpponentsOf(u)]]
    /\ UNCHANGED <<acq, units, shown, edges, member, faults>>

(* promote_crawl_depth leaves the row of an acquisition that is executing  *)
(* alone: the depth of the new expansion stands for it.                    *)
Promote(a, e, v, depth) ==
    [acq |-> IF a[v].state \in Executing THEN a
             ELSE [a EXCEPT ![v].depth = IF @ > depth THEN depth ELSE @],
     exp |-> IF a[v].state \in {"error", "skipped"} THEN e
             ELSE EnqueueExpansion(e, a, v, depth)]

UserCount(a) == Cardinality({v \in Users : a[v].state # "none"})
JobCount(a) == Cardinality({v \in Users : a[v].state # "none"})

(* Mutant: one user too many.                                              *)
FullLate(a) == UserCount(a) > MaxUsers
(* A run has one acquisition per user, so the users of its acquisitions    *)
(* and the acquisitions are as many; each has its own bound.               *)
Full(a) == UserCount(a) >= MaxUsers \/ JobCount(a) >= MaxJobs

(* enqueue_opponent_children, one opponent: an opponent known at this      *)
(* depth or above is left alone, one known deeper is promoted, a new one   *)
(* gets an acquisition while the bounds allow.                             *)
EnqueueChild(st, v, next) ==
    IF next > MaxDepth THEN st
    ELSE IF st.acq[v].state # "none"
    THEN IF KnownDepth(st.acq, st.exp, v) <= next THEN st ELSE Promote(st.acq, st.exp, v, next)
    ELSE IF Full(st.acq) THEN st
    ELSE [acq |-> [st.acq EXCEPT ![v] = [state |-> "pending", depth |-> next, cursor |-> 0]], exp |-> st.exp]

KnownAtOrBefore(v, depth) == acq[v].state # "none" /\ KnownDepth(acq, exp, v) <= depth

(* record_discovery_edges: an edge keeps the least depth it was seen at.   *)
RecordEdges(u, opponents, depth) ==
    [x \in Users \X Users |->
       IF x[1] = u /\ x[2] \in opponents /\ (edges[x] = 0 \/ edges[x] > depth) THEN depth ELSE edges[x]]

(* expand_opponent_frontier: under the run's discovery lock, in one        *)
(* transaction, the edges of the frontier are recorded with the least      *)
(* depth seen and the children are enqueued or promoted.                   *)
CommitExpansion(u, d) ==
    LET plan == exp[<<u, d>>]
        next == plan.at + 1
        frontier == SelectSeq(plan.seen, LAMBDA v : ~KnownAtOrBefore(v, plan.at))
        final == FoldLeft(LAMBDA st, v : EnqueueChild(st, v, next), [acq |-> acq, exp |-> exp], frontier)
    IN  /\ plan.state = "in_progress"
        /\ edges' = RecordEdges(u, Range(frontier), next)
        /\ acq' = final.acq
        /\ exp' = [final.exp EXCEPT ![<<u, d>>] = [NoPlan EXCEPT !.state = "done"]]
        /\ UNCHANGED <<units, shown, member, faults>>

(* The worker dies before the transaction commits.                         *)
ExpansionCrash(u, d) ==
    /\ exp[<<u, d>>].state = "in_progress" /\ faults < MaxFaults
    /\ exp' = [exp EXCEPT ![<<u, d>>] = [NoPlan EXCEPT !.state = "pending"]]
    /\ faults' = faults + 1
    /\ UNCHANGED <<acq, units, shown, edges, member>>

Next ==
    \/ \E u \in Users : \/ Claim(u) \/ Fetch(u) \/ QueueChild(u) \/ Checkpoint(u) \/ Refused(u)
                        \/ QueueExpansion(u) \/ FinishAcquisition(u) \/ AcquisitionCrash(u)
    \/ \E u \in Users, m \in 0 .. Months - 1 : Normalize(u, m) \/ NormalizeFails(u, m)
    \/ \E u \in Users, d \in Depths : BeginExpansion(u, d) \/ CommitExpansion(u, d) \/ ExpansionCrash(u, d)

Spec == Init /\ [][Next]_vars

----------------------------------------------------------------------------
ShownTo(u) == UNION {shown[<<u, m>>] : m \in 0 .. Months - 1}

(* However many expansions commit, in any order and after any crash, the   *)
(* run never has more users or acquisition jobs than it was bounded to     *)
(* (enqueue_opponent_children rechecks both counts under the lock).        *)
CrawlWithinBounds == Cardinality(CrawledUsers) <= MaxUsers /\ Cardinality(CrawledUsers) <= MaxJobs

Settled ==
    /\ \A u \in Users : acq[u].state \in Terminal \union {"none"}
    /\ \A x \in DOMAIN exp : exp[x].state \in Terminal \union {"none"}

(* When no job is left, the crawl is what a sequential breadth-first walk  *)
(* would have found: every opponent that the games of an acquired user     *)
(* above the depth bound name is crawled at most one deeper, unless the    *)
(* run is out of users or jobs and the opponent was never admitted, and    *)
(* the edge is recorded with the depth it was crossed at.  No game of a    *)
(* payload that a finished acquisition stored is left out of the run while *)
(* it has room, wherever a crash fell between the payload, its child and   *)
(* the cursor.  It depends on promote_crawl_depth also when the promoted   *)
(* acquisition was executing at that moment.                               *)
FrontierClosed ==
    Settled =>
    /\ \A u \in Users : acq[u].state = "done" => Remaining = 0 \/ ShownTo(u) \subseteq member
    /\ \A u, v \in Users :
          /\ acq[u].state = "done" /\ u # v
          /\ \E g \in member \intersect ShownTo(u) : v \in Players[g]
          /\ KnownDepth(acq, exp, u) < MaxDepth
          => \/ acq[v].state = "none" /\ Cardinality(CrawledUsers) \in {MaxUsers, MaxJobs}
             \/ /\ acq[v].state # "none"
                /\ KnownDepth(acq, exp, v) <= KnownDepth(acq, exp, u) + 1
                /\ \/ KnownDepth(acq, exp, v) <= KnownDepth(acq, exp, u)
                   \/ edges[<<u, v>>] = KnownDepth(acq, exp, u) + 1
=============================================================================
