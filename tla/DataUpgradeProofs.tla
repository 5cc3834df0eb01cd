-------------------------- MODULE DataUpgradeProofs --------------------------
(***************************************************************************)
(* For any jobs, payloads, parser versions, batch size and number of       *)
(* interruptions: only the upgrade's own parsers replay, the progress row  *)
(* is changed by the job it belongs to alone, and the checkpoint never     *)
(* passes a payload that was stored when the upgrade began and has not     *)
(* been replayed.                                                          *)
(*                                                                         *)
(* The argument: a job that is past start_upgrade owns the row, so at most *)
(* one job is; and what its batch leaves out of the payloads still to be   *)
(* replayed lies above all of the batch, and exists only if the batch is   *)
(* full.                                                                   *)
(***************************************************************************)
EXTENDS DataUpgrade, FiniteSetTheorems, TLAPS

Busy == {"batch", "replay", "check", "close"}
Outcomes == {"pending", "done", "error"}

ProgressRow ==
    [job : Jobs \cup {"none"}, parser : Parsers \cup {0}, high : Nat, last : Nat,
     processed : Nat, state : {"none", "running", "done", "error"}]

\* The types the argument needs.
Shape ==
    /\ raw \subseteq RawIds /\ present \subseteq raw
    /\ upgrade \in ProgressRow
    /\ job \in [Jobs -> {"in_progress"} \cup Outcomes]
    /\ step \in [Jobs -> {"idle", "start"} \cup Busy \cup Outcomes]
    /\ with \in [Jobs -> Parsers \cup {0}]
    /\ batch \in [Jobs -> SUBSET RawIds]
    /\ full \in [Jobs -> BOOLEAN]

\* Whose the row is: an execution past start_upgrade owns it, under its parsers.
Owned ==
    /\ upgrade.job = "none" => upgrade = NoUpgrade
    /\ upgrade = NoUpgrade => replayed = {} /\ present = {}
    /\ \A j \in Jobs : job[j] # "in_progress" => step[j] = "idle"
    /\ \A j \in Jobs : step[j] \in Busy => upgrade.job = j /\ upgrade.parser = with[j]

\* What has been replayed, and what the batch in hand leaves out.
Covered ==
    /\ \A r \in present : r <= upgrade.high
    /\ \A r \in present : r <= upgrade.last => <<r, upgrade.parser>> \in replayed
    /\ upgrade.state = "done" => \A r \in present : r <= upgrade.last
    /\ \A j \in Jobs : step[j] \in {"replay", "check"} =>
          \A r \in present : r > upgrade.last /\ r \notin batch[j]
                               => full[j] /\ \A x \in batch[j] : x < r
    /\ \A j \in Jobs : step[j] = "check" =>
          \A r \in Lowest(batch[j]) : <<r, upgrade.parser>> \in replayed
    /\ \A j \in Jobs : step[j] = "close" /\ ~full[j] => \A r \in present : r <= upgrade.last

IInv == Shape /\ Owned /\ ParserPinned /\ Covered

-----------------------------------------------------------------------------

\* The query of upgrade_batch: a payload it leaves out lies above all it returns,
\* and there is one only if it returned batch_size rows.
LEMMA BatchIsPrefix ==
  ASSUME NEW left, left \subseteq RawIds, NEW r \in left,
         Cardinality({x \in left : x < r}) >= batch_size
  PROVE  /\ Cardinality(left) >= batch_size
         /\ \A b \in left : Cardinality({x \in left : x < b}) < batch_size => b < r
  <1>1. IsFiniteSet(left)
    BY Zenon, PayloadIds, FS_Subset
  <1>2. \A b \in left : IsFiniteSet({x \in left : x < b}) /\ Cardinality({x \in left : x < b}) \in Nat
    BY Zenon, <1>1, FS_Subset, FS_CardinalityType
  <1>3. Cardinality({x \in left : x < r}) <= Cardinality(left) /\ Cardinality(left) \in Nat
    BY Zenon, <1>1, FS_Subset, FS_CardinalityType
  <1>4. ASSUME NEW b \in left, ~(b < r)
        PROVE  Cardinality({x \in left : x < b}) >= batch_size
    <2>1. {x \in left : x < r} \subseteq {x \in left : x < b}
      <3>1. \A x \in left : x \in Nat
        BY Zenon, PayloadIds
      <3>2. \A x \in left : x < r => x < b
        BY <1>4, <3>1
      <3> QED
        BY Zenon, <3>2
    <2>2. Cardinality({x \in left : x < r}) <= Cardinality({x \in left : x < b})
      BY Zenon, <1>2, <2>1, FS_Subset
    <2> QED
      BY <1>2, <2>2, BatchInRange
  <1> QED
    BY <1>2, <1>3, <1>4, BatchInRange

\* The row that checkpoint_upgrade writes has the row's type.
LEMMA CheckpointedRow ==
  ASSUME upgrade \in ProgressRow, NEW r \in Nat, NEW s \in {"running", "done"}
  PROVE  Checkpointed(r, s) \in ProgressRow
  <1>1. upgrade.last \in Nat /\ upgrade.processed \in Nat
    BY Zenon DEF ProgressRow
  <1> DEFINE last == IF r > upgrade.last THEN r ELSE upgrade.last
             count == IF upgrade.last < r THEN upgrade.processed + 1 ELSE upgrade.processed
  <1>2. last \in Nat /\ count \in Nat
    BY <1>1
  <1>3. Checkpointed(r, s) = [upgrade EXCEPT !.last = last, !.processed = count, !.state = s]
    BY Zenon DEF Checkpointed, ProgressRow
  <1> HIDE DEF last, count
  <1> QED
    BY Zenon, <1>2, <1>3 DEF ProgressRow

\* No job has begun.
LEMMA InitEstablishes == Init => IInv
  BY PayloadIds, JobsNamed
  DEF Init, IInv, Shape, ProgressRow, Owned, ParserPinned, Covered, NoUpgrade, Busy, Outcomes

\* A capture adds a payload, which is none of those present when the upgrade began.
LEMMA CapturePreserves ==
  ASSUME IInv, NEW r \in RawIds, Capture(r)
  PROVE  IInv'
  BY Zenon DEF IInv, Shape, Owned, ParserPinned, Covered, Capture

\* A claim begins an execution, which owns nothing yet.
LEMMA ExecutePreserves ==
  ASSUME IInv, NEW j \in Jobs, NEW v \in Parsers, Execute(j, v)
  PROVE  IInv'
  BY DEF IInv, Shape, Owned, ParserPinned, Covered, Execute, Goto, Busy, Outcomes

\* An execution that fails marks the row only if it is its own, and holds no batch.
LEMMA FailPreserves ==
  ASSUME IInv, NEW j \in Jobs, Fail(j), job[j] = "in_progress", UNCHANGED <<raw, job, with, replayed, present>>
  PROVE  IInv'
  <1>1. (upgrade' = [upgrade EXCEPT !.state = "error"] /\ upgrade.job = j) \/ upgrade' = upgrade
    BY Zenon DEF Fail, FailUpgrade
  <1>2. Shape'
    BY Zenon, <1>1 DEF IInv, Shape, ProgressRow, Fail, Goto, Outcomes
  <1>3. Owned' /\ ParserPinned'
    BY <1>1, JobsNamed DEF IInv, Shape, ProgressRow, Owned, ParserPinned, Fail, Goto, Busy, NoUpgrade
  <1>4. Covered'
    BY Zenon, <1>1 DEF IInv, Shape, ProgressRow, Covered, Fail, Goto
  <1> QED
    BY Zenon, <1>2, <1>3, <1>4 DEF IInv

\* start_upgrade makes the executing job the owner, or refuses it.
LEMMA StartPreserves ==
  ASSUME IInv, NEW j \in Jobs, StartUpgrade(j)
  PROVE  IInv'
  <1>1. step[j] = "start" /\ job[j] = "in_progress"
    BY Zenon DEF IInv, Owned, StartUpgrade
  <1>2. CASE Fail(j) /\ UNCHANGED <<raw, job, with, replayed, present>>
    BY Zenon, <1>1, <1>2, FailPreserves
  <1>3. CASE /\ upgrade # NoUpgrade /\ upgrade.job = j /\ upgrade.parser = with[j]
             /\ Goto(j, "batch")
             /\ UNCHANGED <<raw, upgrade, job, with, batch, full, replayed, present>>
    BY <1>1, <1>3 DEF IInv, Shape, Owned, ParserPinned, Covered, Goto, Busy
  <1>4. ASSUME NEW h \in Highest(raw), upgrade = NoUpgrade, present' = raw, Goto(j, "batch"),
               upgrade' = [job |-> j, parser |-> with[j], high |-> h, last |-> 0,
                           processed |-> 0, state |-> "running"],
               UNCHANGED <<raw, job, with, batch, full, replayed>>
        PROVE  IInv'
    <2>1. h \in Nat /\ \A r \in raw : r <= h /\ r > 0
      BY <1>4, PayloadIds DEF IInv, Shape, Highest
    <2>2. \A k \in Jobs : step[k] \notin Busy
      BY Zenon, <1>4, JobsNamed DEF IInv, Owned, NoUpgrade
    <2>3. Shape'
      BY Zenon, <1>4, <2>1 DEF IInv, Shape, ProgressRow, Goto, Busy
    <2>4. Owned' /\ ParserPinned'
      BY <1>1, <1>4, <2>2, JobsNamed DEF IInv, Shape, ProgressRow, Owned, ParserPinned, Goto, NoUpgrade
    <2>5. \A k \in Jobs : step'[k] \notin {"replay", "check", "close"}
      BY Zenon, <1>4, <2>2 DEF IInv, Shape, Goto, Busy
    <2>6. Covered'
      BY <1>4, <2>1, <2>5, PayloadIds DEF IInv, Shape, Covered
    <2> QED
      BY Zenon, <2>3, <2>4, <2>6 DEF IInv
  <1> QED
    BY Zenon, <1>2, <1>3, <1>4 DEF StartUpgrade, Row

\* upgrade_batch takes a prefix of what is left.
LEMMA ReadBatchPreserves ==
  ASSUME IInv, NEW j \in Jobs, ReadBatch(j)
  PROVE  IInv'
  <1> DEFINE left == {r \in raw : r > upgrade.last /\ r <= upgrade.high}
             next == {r \in left : Cardinality({x \in left : x < r}) < batch_size}
  <1>1. /\ step[j] = "batch"
        /\ batch' = [batch EXCEPT ![j] = next]
        /\ full' = [full EXCEPT ![j] = Cardinality(left) >= batch_size]
        /\ step' = [step EXCEPT ![j] = IF next = {} THEN "close" ELSE "replay"]
        /\ UNCHANGED <<raw, upgrade, job, with, replayed, present>>
    BY Zenon DEF ReadBatch, Goto
  <1>2. left \subseteq RawIds /\ next \subseteq RawIds
    BY Zenon DEF IInv, Shape
  <1>3. ASSUME NEW r \in present, r > upgrade.last, r \notin next
        PROVE  full'[j] /\ \A x \in next : x < r
    <2>1. r \in left
      BY Zenon, <1>3 DEF IInv, Shape, Covered
    <2>2. Cardinality({x \in left : x < r}) >= batch_size
      <3>1. IsFiniteSet({x \in left : x < r})
        BY Zenon, <1>2, PayloadIds, FS_Subset
      <3> QED
        BY <1>3, <2>1, <3>1, FS_CardinalityType, BatchInRange
    <2> HIDE DEF left
    <2>3. Cardinality(left) >= batch_size /\ \A x \in next : x < r
      BY Zenon, <1>2, <2>1, <2>2, BatchIsPrefix
    <2> QED
      BY Zenon, <1>1, <2>3 DEF IInv, Shape
  <1> HIDE DEF left, next
  <1>4. Shape'
    BY <1>1, <1>2 DEF IInv, Shape, Busy
  <1>5. Owned' /\ ParserPinned'
    BY Zenon, <1>1 DEF IInv, Shape, Owned, ParserPinned, Busy
  <1>6. \A k \in Jobs : k # j => step[k] \notin Busy
    BY Zenon, <1>1 DEF IInv, Owned, Busy
  <1>7. Covered'
    <2>1. \A k \in Jobs : step'[k] \in Busy => k = j
      BY Zenon, <1>1, <1>6 DEF IInv, Shape
    <2>2. batch'[j] = next /\ step'[j] = IF next = {} THEN "close" ELSE "replay"
      BY Zenon, <1>1 DEF IInv, Shape
    <2>3. step'[j] = "close" /\ ~full'[j] => \A r \in present : r <= upgrade.last
      <3>1. \A r \in present : r \in Nat
        BY Zenon, PayloadIds DEF IInv, Shape
      <3> QED
        BY <1>3, <2>2, <3>1 DEF IInv, Shape, ProgressRow
    <2> QED
      BY <1>1, <1>3, <2>1, <2>2, <2>3 DEF IInv, Covered, Busy
  <1> QED
    BY Zenon, <1>4, <1>5, <1>7 DEF IInv

\* A replay is by the upgrade's parsers, or it fails.
LEMMA ReplayPreserves ==
  ASSUME IInv, NEW j \in Jobs, Replay(j)
  PROVE  IInv'
  <1>1. step[j] = "replay" /\ job[j] = "in_progress" /\ upgrade.job = j /\ upgrade.parser = with[j]
    BY Zenon DEF IInv, Owned, Replay, Busy
  <1>2. CASE Fail(j) /\ UNCHANGED replayed
    BY Zenon, <1>1, <1>2, FailPreserves DEF Replay
  <1>3. ASSUME NEW r \in Lowest(batch[j]), replayed' = replayed \cup {<<r, with[j]>>},
               Goto(j, "check"), UNCHANGED <<upgrade, batch, full>>
        PROVE  IInv'
    <2>1. UNCHANGED <<raw, job, with, present>>
      BY Zenon DEF Replay
    <2>2. Shape'
      BY Zenon, <1>3, <2>1 DEF IInv, Shape, Goto, Busy
    <2>3. Owned' /\ ParserPinned'
      BY <1>1, <1>3, <2>1, JobsNamed DEF IInv, Shape, Owned, ParserPinned, Goto, Busy, NoUpgrade
    <2>4. \A s \in Lowest(batch[j]) : s = r
      BY <1>3, PayloadIds DEF Lowest, IInv, Shape
    <2>5. \A k \in Jobs : k # j => step[k] \notin Busy
      BY Zenon, <1>1 DEF IInv, Owned, Busy
    <2>6. Covered'
      BY <1>1, <1>3, <2>1, <2>4, <2>5 DEF IInv, Shape, Covered, Goto, Busy, Lowest
    <2> QED
      BY Zenon, <2>2, <2>3, <2>6 DEF IInv
  <1> QED
    BY Zenon, <1>2, <1>3 DEF Replay

\* checkpoint_upgrade moves past the payload that was just replayed, which is the
\* lowest of those that were left.
LEMMA CheckpointPreserves ==
  ASSUME IInv, NEW j \in Jobs, Checkpoint(j)
  PROVE  IInv'
  <1>1. step[j] = "check" /\ job[j] = "in_progress" /\ upgrade.job = j /\ upgrade.parser = with[j]
    BY Zenon DEF IInv, Owned, Checkpoint, Busy
  <1>2. PICK r \in Lowest(batch[j]) :
          /\ upgrade' = Checkpointed(r, "running")
          /\ batch' = [batch EXCEPT ![j] = @ \ {r}]
          /\ step' = [step EXCEPT ![j] = IF batch[j] = {r} THEN "close" ELSE "replay"]
    BY Zenon DEF Checkpoint, Goto
  <1>3. UNCHANGED <<raw, job, with, full, replayed, present>>
    BY Zenon DEF Checkpoint
  <1>4. /\ upgrade'.job = j /\ upgrade'.parser = upgrade.parser /\ upgrade'.high = upgrade.high
        /\ upgrade'.state = "running"
        /\ upgrade'.last = IF r > upgrade.last THEN r ELSE upgrade.last
    BY <1>1, <1>2 DEF Checkpointed, IInv, Shape
  <1>5. r \in batch[j] /\ r \in Nat /\ upgrade.last \in Nat /\ upgrade'.last \in Nat
    <2>1. r \in batch[j]
      BY Zenon, <1>2 DEF Lowest
    <2>2. r \in Nat
      BY Zenon, <2>1, PayloadIds DEF IInv, Shape
    <2>3. upgrade.last \in Nat
      BY Zenon DEF IInv, Shape, ProgressRow
    <2> QED
      BY Zenon, <1>4, <2>1, <2>2, <2>3
  <1>6. Shape'
    <2>1. upgrade' \in ProgressRow
      BY Zenon, <1>2, <1>5, CheckpointedRow DEF IInv, Shape
    <2> QED
      BY Zenon, <1>2, <1>3, <2>1 DEF IInv, Shape, Busy
  <1>7. Owned' /\ ParserPinned'
    BY <1>1, <1>2, <1>3, <1>4, JobsNamed DEF IInv, Shape, Owned, ParserPinned, Busy, NoUpgrade
  <1>8. \A k \in Jobs : step'[k] \in Busy => k = j
    BY Zenon, <1>1, <1>2 DEF IInv, Shape, Owned, Busy
  <1>9. \A x \in present : x \in Nat /\ (x <= upgrade'.last => x <= upgrade.last \/ x = r)
    <2> SUFFICES ASSUME NEW x \in present
                 PROVE  x \in Nat /\ (x <= upgrade'.last => x <= upgrade.last \/ x = r)
      OBVIOUS
    <2>1. x \in Nat
      BY Zenon, PayloadIds DEF IInv, Shape
    <2>2. CASE x \in batch[j]
      BY <1>2, <1>4, <1>5, <2>1, <2>2, PayloadIds DEF Lowest
    <2>3. CASE x \notin batch[j] /\ x > upgrade.last
      BY <1>1, <1>4, <1>5, <2>1, <2>3 DEF IInv, Covered
    <2> QED
      BY <1>5, <2>1, <2>2, <2>3
  <1>10. <<r, upgrade.parser>> \in replayed
    BY Zenon, <1>1, <1>2 DEF IInv, Covered
  <1>11. \A x \in present : x <= upgrade'.last => <<x, upgrade'.parser>> \in replayed'
    BY Zenon, <1>3, <1>4, <1>9, <1>10 DEF IInv, Covered
  <1>12. ASSUME NEW x \in present, x > upgrade'.last, x \notin batch'[j]
         PROVE  full[j] /\ \A y \in batch'[j] : y < x
    <2>1. x # r /\ x > upgrade.last
      BY <1>4, <1>5, <1>9, <1>12
    <2>2. batch'[j] = batch[j] \ {r}
      BY Zenon, <1>2 DEF IInv, Shape
    <2> QED
      BY Zenon, <1>1, <1>12, <2>1, <2>2 DEF IInv, Covered
  <1>13. step'[j] = "close" => batch'[j] = {}
    BY Zenon, <1>2 DEF IInv, Shape
  <1>14. step'[j] = "close" /\ ~full[j] => \A x \in present : x <= upgrade'.last
    BY <1>5, <1>9, <1>12, <1>13
  <1>15. step'[j] \in {"close", "replay"}
    BY Zenon, <1>2 DEF IInv, Shape
  <1>16. Covered'
    BY Zenon, <1>3, <1>4, <1>8, <1>11, <1>12, <1>14, <1>15 DEF IInv, Covered, Busy
  <1> QED
    BY Zenon, <1>6, <1>7, <1>16 DEF IInv

\* The end of a batch: a short one leaves nothing, and its checkpoint is the mark.
LEMMA ClosePreserves ==
  ASSUME IInv, NEW j \in Jobs, Close(j)
  PROVE  IInv'
  <1>1. step[j] = "close" /\ job[j] = "in_progress" /\ upgrade.job = j
    BY Zenon DEF IInv, Owned, Close, Busy
  <1>2. /\ full' = [full EXCEPT ![j] = FALSE]
        /\ step' = [step EXCEPT ![j] = IF full[j] THEN "pending" ELSE "done"]
        /\ UNCHANGED <<raw, job, with, batch, replayed, present>>
    BY Zenon DEF Close, Goto
  <1>3. \A k \in Jobs : step'[k] \notin Busy
    BY Zenon, <1>1, <1>2 DEF IInv, Shape, Owned, Busy
  <1>4. CASE full[j]
    <2>1. upgrade' = upgrade
      BY Zenon, <1>4 DEF Close
    <2> QED
      BY <1>1, <1>2, <1>3, <2>1 DEF IInv, Shape, Owned, ParserPinned, Covered, Busy, Outcomes
  <1>5. CASE ~full[j]
    <2>1. upgrade' = Checkpointed(upgrade.high, "done")
      BY Zenon, <1>5 DEF Close
    <2>2. /\ upgrade'.job = j /\ upgrade'.parser = upgrade.parser /\ upgrade'.high = upgrade.high
          /\ upgrade'.last \in Nat /\ upgrade'.last >= upgrade.last /\ upgrade.last \in Nat
      <3>1. upgrade.last \in Nat /\ upgrade.high \in Nat
        BY Zenon DEF IInv, Shape, ProgressRow
      <3>2. /\ upgrade'.job = j /\ upgrade'.parser = upgrade.parser /\ upgrade'.high = upgrade.high
            /\ upgrade'.last = IF upgrade.high > upgrade.last THEN upgrade.high ELSE upgrade.last
        BY <1>1, <2>1 DEF Checkpointed, IInv, Shape
      <3> QED
        BY <3>1, <3>2
    <2>3. Shape'
      <3>1. upgrade.high \in Nat
        BY Zenon DEF IInv, Shape, ProgressRow
      <3>2. upgrade' \in ProgressRow
        BY ZenonT(60), <2>1, <3>1, CheckpointedRow DEF IInv, Shape, ProgressRow
      <3> QED
        BY Zenon, <1>2, <3>2 DEF IInv, Shape, Outcomes
    <2>4. Owned' /\ ParserPinned'
      BY <1>1, <1>2, <1>3, <2>2, JobsNamed DEF IInv, Shape, Owned, ParserPinned, Busy, NoUpgrade
    <2>5. \A r \in present : r <= upgrade.last
      BY Zenon, <1>1, <1>5 DEF IInv, Covered
    <2>6. \A r \in present : r \in Nat
      BY Zenon, PayloadIds DEF IInv, Shape
    <2>7. Covered'
      BY <1>2, <1>3, <2>2, <2>5, <2>6 DEF IInv, Covered, Busy
    <2> QED
      BY Zenon, <2>3, <2>4, <2>7 DEF IInv
  <1> QED
    BY Zenon, <1>4, <1>5 DEF IInv, Shape

\* finish_attempt and an interruption end the execution; the row stays.
LEMMA EndPreserves ==
  ASSUME IInv, NEW j \in Jobs, Finish(j) \/ Interrupt(j)
  PROVE  IInv'
  <1>1. CASE Finish(j)
    BY <1>1 DEF Finish, IInv, Shape, Owned, ParserPinned, Covered, Goto, Busy, Outcomes
  <1>2. CASE Interrupt(j)
    BY <1>2 DEF Interrupt, IInv, Shape, Owned, ParserPinned, Covered, Goto, Busy, Outcomes
  <1> QED
    BY Zenon, <1>1, <1>2

\* Every step preserves the invariant.
LEMMA NextPreserves == IInv /\ [Next]_vars => IInv'
  <1> SUFFICES ASSUME IInv, [Next]_vars PROVE IInv'
    OBVIOUS
  <1>1. CASE UNCHANGED vars
    BY Zenon, <1>1 DEF vars, IInv, Shape, Owned, ParserPinned, Covered
  <1> QED
    BY Zenon, <1>1, CapturePreserves, ExecutePreserves, StartPreserves, ReadBatchPreserves,
       ReplayPreserves, CheckpointPreserves, ClosePreserves, EndPreserves
    DEF Next, Work

\* The inductive invariant holds throughout.
LEMMA Invariant == Spec => []IInv
  BY InitEstablishes, NextPreserves, PTL DEF Spec

-----------------------------------------------------------------------------

\* No worker of another version, and no second job, replays a payload
\* (start_upgrade refuses both).
THEOREM OnlyItsParsers == Spec => []ParserPinned
  <1>1. IInv => ParserPinned
    BY Zenon DEF IInv
  <1> QED
    BY <1>1, Invariant, PTL

\* Of the payloads stored when the upgrade began, checkpoint_upgrade passes only
\* replayed ones, and an upgrade that is done replayed all of them.
THEOREM HonestCheckpoint == Spec => []CheckpointHonest
  <1>1. IInv => CheckpointHonest
    BY PayloadIds DEF IInv, Shape, Covered, CheckpointHonest
  <1> QED
    BY <1>1, Invariant, PTL

\* Only the job that owns the row changes it, in a step of its own execution.
THEOREM RowIsItsJobs == Spec => ReusePreserved
  <1> DEFINE Kept == upgrade # NoUpgrade /\ upgrade' # upgrade
                       => upgrade'.job = upgrade.job /\ step'[upgrade.job] # step[upgrade.job]
  <1>1. IInv /\ [Next]_vars => [Kept]_vars
    <2> SUFFICES ASSUME IInv, Next, upgrade # NoUpgrade, upgrade' # upgrade
                 PROVE  upgrade'.job = upgrade.job /\ step'[upgrade.job] # step[upgrade.job]
      OBVIOUS
    <2>1. PICK j \in Jobs : StartUpgrade(j) \/ Replay(j) \/ Checkpoint(j) \/ Close(j)
      BY ZenonT(60) DEF Next, Work, Capture, Execute, ReadBatch, Finish, Interrupt
    <2>2. ASSUME Fail(j), step[j] # "error"
          PROVE  upgrade'.job = upgrade.job /\ upgrade.job = j /\ step'[j] # step[j]
      BY <2>2 DEF Fail, FailUpgrade, Goto, IInv, Shape
    <2>3. CASE StartUpgrade(j)
      BY Zenon, <2>2, <2>3 DEF StartUpgrade, Row
    <2>4. CASE Replay(j)
      BY Zenon, <2>2, <2>4 DEF Replay
    <2>5. ASSUME step[j] \in Busy, NEW r, NEW s, upgrade' = Checkpointed(r, s)
          PROVE  upgrade'.job = upgrade.job /\ upgrade.job = j
      BY <2>5 DEF Checkpointed, IInv, Shape, Owned
    <2>6. CASE Checkpoint(j)
      <3>1. step[j] = "check" /\ step'[j] # "check"
        BY Zenon, <2>6 DEF Checkpoint, Goto, IInv, Shape
      <3> QED
        BY Zenon, <2>5, <2>6, <3>1 DEF Checkpoint, Busy
    <2>7. CASE Close(j)
      <3>1. step[j] = "close" /\ step'[j] # "close"
        BY Zenon, <2>7 DEF Close, Goto, IInv, Shape
      <3> QED
        BY Zenon, <2>5, <2>7, <3>1 DEF Close, Busy
    <2> QED
      BY Zenon, <2>1, <2>3, <2>4, <2>6, <2>7
  <1> QED
    BY <1>1, Invariant, PTL DEF Spec, ReusePreserved
=============================================================================
