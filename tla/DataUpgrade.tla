----------------------------- MODULE DataUpgrade -----------------------------
(***************************************************************************)
(* Offline normalization upgrades: reprocess_archive jobs (_reprocess_     *)
(* archive of jobs/runner.py) and their progress row (start_upgrade,       *)
(* upgrade_batch, checkpoint_upgrade and fail_upgrade of                   *)
(* storage/execution.py).                                                  *)
(*                                                                         *)
(* One upgrade identity, claimed by two jobs.  A job is executed by one    *)
(* worker at a time (JobExecution) in a sequence of executions, each under *)
(* the parsers its worker has installed; it is stopped, runs out of budget *)
(* or dies anywhere.  Captures go on meanwhile and their rows become       *)
(* visible out of id order.  Payloads stand for those of the upgrade's     *)
(* provider and scope; parser versions are numbers.                        *)
(***************************************************************************)
EXTENDS Naturals, FiniteSets

CONSTANTS
    Jobs,        \* reprocess_archive jobs that name the upgrade
    RawIds,      \* ids of raw payloads, 1..n
    Stored,      \* the ones stored before the jobs run
    Bad,         \* payloads no parser accepts
    Parsers,     \* installed parser manifests, one per worker version
    batch_size,
    Restarts     \* bound on executions that stop, block or die

ASSUME BatchInRange == batch_size \in 1..100
ASSUME PayloadIds == RawIds \subseteq Nat \ {0} /\ IsFiniteSet(RawIds) /\ Stored \subseteq RawIds
ASSUME JobsNamed == "none" \notin Jobs

NoUpgrade == [job |-> "none", parser |-> 0, high |-> 0, last |-> 0, processed |-> 0, state |-> "none"]

VARIABLES
    raw,       \* committed raw_payloads
    upgrade,   \* the data_upgrades row
    job,       \* state of each job: pending, in_progress, done, error
    step,      \* where its execution is: start, batch, replay, check, close,
               \* or the outcome it returned: pending, done, error; idle outside one
    with,      \* the parser manifest of the worker executing it
    batch,     \* raw ids the execution still has to replay
    full,      \* the batch was as long as batch_size
    restarts,
    replayed,  \* history: <<payload, parser>> of every finished replay
    present    \* history: payloads committed when the upgrade row was created

vars == <<raw, upgrade, job, step, with, batch, full, restarts, replayed, present>>

Init ==
    /\ raw = Stored
    /\ upgrade = NoUpgrade
    /\ job = [j \in Jobs |-> "pending"]
    /\ step = [j \in Jobs |-> "idle"]
    /\ with = [j \in Jobs |-> 0]
    /\ batch = [j \in Jobs |-> {}]
    /\ full = [j \in Jobs |-> FALSE]
    /\ restarts = 0
    /\ replayed = {} /\ present = {}

\* The ids a query for the highest, or the first, of some payloads may return.
Highest(S) == IF S = {} THEN {0} ELSE {m \in S : \A n \in S : n <= m}
Lowest(S) == {m \in S : \A n \in S : m <= n}
Goto(j, where) == step' = [step EXCEPT ![j] = where]

-----------------------------------------------------------------------------
\* a capture commits; its id was drawn earlier, so it may lie below others
Capture(r) ==
    /\ r \notin raw
    /\ raw' = raw \cup {r}
    /\ UNCHANGED <<upgrade, job, step, with, batch, full, restarts, replayed, present>>

\* a worker with parsers v claims the job and enters _reprocess_archive
Execute(j, v) ==
    /\ job[j] = "pending"
    /\ job' = [job EXCEPT ![j] = "in_progress"]
    /\ with' = [with EXCEPT ![j] = v]
    /\ Goto(j, "start")
    /\ UNCHANGED <<raw, upgrade, batch, full, restarts, replayed, present>>

\* Except in the database, an exception ends the attempt in error, and
\* fail_upgrade marks the row if it is this job's.
FailsAnyUpgrade(j) == upgrade' = IF upgrade = NoUpgrade THEN upgrade ELSE [upgrade EXCEPT !.state = "error"]

FailUpgrade(j) ==
    upgrade' = IF upgrade.job = j THEN [upgrade EXCEPT !.state = "error"] ELSE upgrade

Fail(j) ==
    /\ FailUpgrade(j)
    /\ Goto(j, "error")
    /\ batch' = [batch EXCEPT ![j] = {}]
    /\ full' = [full EXCEPT ![j] = FALSE]

\* the row as start_upgrade finds or creates it, with the highest id it sees
Row(j) ==
    IF upgrade # NoUpgrade THEN {upgrade}
    ELSE {[job |-> j, parser |-> with[j], high |-> h, last |-> 0, processed |-> 0, state |-> "running"] :
             h \in Highest(raw)}

\* start_upgrade: the first job creates the row; any other job, or this one under
\* other parsers, is refused.
StartUpgrade(j) ==
    /\ step[j] = "start"
    /\ \E row \in Row(j) :
          \/ /\ row.job = j /\ row.parser = with[j]
             /\ upgrade' = row
             /\ present' = IF upgrade = NoUpgrade THEN raw ELSE present
             /\ Goto(j, "batch")
             /\ UNCHANGED <<batch, full>>
          \/ /\ row.job # j \/ row.parser # with[j]
             /\ Fail(j)
             /\ UNCHANGED present
    /\ UNCHANGED <<raw, job, with, restarts, replayed>>

\* upgrade_batch: the next payloads after the checkpoint, up to the high water;
\* the batch is full when there were batch_size of them to return
ReadBatch(j) ==
    /\ step[j] = "batch"
    /\ LET left == {r \in raw : r > upgrade.last /\ r <= upgrade.high}
           next == {r \in left : Cardinality({x \in left : x < r}) < batch_size}
       IN /\ batch' = [batch EXCEPT ![j] = next]
          /\ full' = [full EXCEPT ![j] = Cardinality(left) >= batch_size]
          /\ Goto(j, IF next = {} THEN "close" ELSE "replay")
    /\ UNCHANGED <<raw, upgrade, job, with, restarts, replayed, present>>

\* replay_raw_payload of the lowest payload of the batch, or the parser's failure
Replay(j) ==
    /\ step[j] = "replay"
    /\ \E r \in Lowest(batch[j]) :
          \/ /\ r \notin Bad
             /\ replayed' = replayed \cup {<<r, with[j]>>}
             /\ Goto(j, "check")
             /\ UNCHANGED <<upgrade, batch, full>>
          \/ /\ r \in Bad
             /\ Fail(j)
             /\ UNCHANGED replayed
    /\ UNCHANGED <<raw, job, with, restarts, present>>

\* checkpoint_upgrade(raw_id, done): the checkpoint only moves forward, and a
\* payload counts once
Checkpointed(r, state) ==
    [upgrade EXCEPT !.last = IF r > @ THEN r ELSE @,
                    !.processed = IF upgrade.last < r THEN @ + 1 ELSE @,
                    !.state = state]

Checkpoint(j) ==
    /\ step[j] = "check"
    /\ \E r \in Lowest(batch[j]) :
          /\ upgrade' = Checkpointed(r, "running")
          /\ batch' = [batch EXCEPT ![j] = @ \ {r}]
          /\ Goto(j, IF batch[j] = {r} THEN "close" ELSE "replay")
    /\ UNCHANGED <<raw, job, with, full, restarts, replayed, present>>

\* a short batch ends the upgrade; a full one leaves the job pending
Close(j) ==
    /\ step[j] = "close"
    /\ upgrade' = IF full[j] THEN upgrade ELSE Checkpointed(upgrade.high, "done")
    /\ full' = [full EXCEPT ![j] = FALSE]
    /\ Goto(j, IF full[j] THEN "pending" ELSE "done")
    /\ UNCHANGED <<raw, job, with, batch, restarts, replayed, present>>

\* finish_attempt, a transaction of its own
Finish(j) ==
    /\ step[j] \in {"pending", "done", "error"}
    /\ job' = [job EXCEPT ![j] = step[j]]
    /\ Goto(j, "idle")
    /\ UNCHANGED <<raw, upgrade, with, batch, full, restarts, replayed, present>>

\* The execution ends early and the job comes back to pending: a stop or a
\* cancelled run between payloads, a budget that is resumed, a worker that dies
\* after any commit and whose job is recovered.
Interrupt(j) ==
    /\ job[j] = "in_progress" /\ restarts < Restarts
    /\ restarts' = restarts + 1
    /\ job' = [job EXCEPT ![j] = "pending"]
    /\ Goto(j, "idle")
    /\ batch' = [batch EXCEPT ![j] = {}]
    /\ full' = [full EXCEPT ![j] = FALSE]
    /\ UNCHANGED <<raw, upgrade, with, replayed, present>>

Work(j) == StartUpgrade(j) \/ ReadBatch(j) \/ Replay(j) \/ Checkpoint(j) \/ Close(j) \/ Finish(j)

Next ==
    \/ \E r \in RawIds : Capture(r)
    \/ \E j \in Jobs :
          \/ \E v \in Parsers : Execute(j, v)
          \/ Work(j)
          \/ Interrupt(j)

Spec == Init /\ [][Next]_vars

-----------------------------------------------------------------------------
(* Properties                                                              *)

\* The progress row stays inside its bounds and the checkpoint below the mark.
TypeOK ==
    /\ raw \subseteq RawIds /\ present \subseteq raw
    /\ upgrade.last <= upgrade.high
    /\ upgrade.state \in {"none", "running", "done", "error"}
    /\ job \in [Jobs -> {"pending", "in_progress", "done", "error"}]
    /\ \A j \in Jobs : batch[j] \subseteq raw

\* The checkpoint never passes a payload unread: every payload that was stored
\* when the upgrade began and lies at or below the checkpoint was replayed to its
\* end by the upgrade's own parsers, through stops, crashes, refused reuse and a
\* deployment of other parsers; so an upgrade that is done replayed them all.
CheckpointHonest ==
    /\ \A r \in present : r <= upgrade.last => <<r, upgrade.parser>> \in replayed
    /\ upgrade.state = "done" => present \subseteq 1..upgrade.last

\* Only the upgrade's parsers touch payloads: a worker of another version, or a
\* second job, is refused before it replays anything.
ParserPinned == \A x \in replayed : x[2] = upgrade.parser

\* "Rejected reuse preserves that job's progress": what a job does to the row is
\* done by the job it belongs to.  A second job's refusal, and the error it
\* records, leave the row alone, and nobody takes the row over.
ReusePreserved ==
    [][upgrade # NoUpgrade /\ upgrade' # upgrade
          => upgrade'.job = upgrade.job /\ step'[upgrade.job] # step[upgrade.job]]_vars
=============================================================================
