---------------------------- MODULE WorkersProofs ----------------------------
(***************************************************************************)
(* Proofs about the workers' side: WorkerProcess first, DispatchOutbox     *)
(* after it.                                                               *)
(*                                                                         *)
(* For any number of worker processes, any process ids, ages and times:    *)
(* the row of a running worker is kept, a terminal row is never revived, a *)
(* healthy probe speaks of the probing container's own worker, and two     *)
(* permits suffice.  The argument rests on which phases of the two threads *)
(* go together: the heartbeat runs only between StartWorker and Join, the  *)
(* row of the current worker is live exactly in that span, and the rows of *)
(* workers that have not written theirs yet are absent, so that nothing a  *)
(* predecessor left can pass for the current worker.                       *)
(*                                                                         *)
(* For any number of jobs, dispatchers and workers: the hint of a waiting  *)
(* job is not lost.  The argument follows one hint: it may be retired only *)
(* when it is of an older revision than its job, or when its job does not  *)
(* wait, and neither is ever undone for that revision.                     *)
(***************************************************************************)
EXTENDS WorkerProcess, DispatchOutbox, Integers, TLAPS

LiveStatus == {"running", "stopping"}
Holding == {"ready", "writing", "resting"}

\* The types the argument needs.
Shape ==
    /\ id \in 0..Incarnations
    /\ main \in MainPhases /\ hb \in BeatPhases
    /\ permits \in Nat
    /\ DOMAIN rows = Ids

\* The phases of the two threads, and the permits they hold.
Threads ==
    /\ main \in {"gone", "owner", "joined"} => hb = "off"
    /\ main # "gone" => id \in Ids
    /\ permits = (IF main = "gone" THEN 0 ELSE 1) + (IF hb \in Holding THEN 1 ELSE 0)

\* The rows of the current worker and of those to come.
Rows ==
    /\ Working => rows[id].status \in LiveStatus
    /\ \A i \in Ids : i > id \/ (i = id /\ main = "owner") => rows[i].status = "absent"

\* A binding names the worker whose process wrote it.
Bound == binding.worker = binding.start

IInv == Shape /\ Threads /\ Rows /\ Bound

-----------------------------------------------------------------------------

\* Pruning removes terminal rows only: a live row stays as it is, an absent one
\* stays absent.
LEMMA PrunedKeeps ==
  ASSUME NEW table, NEW at, NEW i \in Ids
  PROVE  /\ table[i].status \in LiveStatus => Pruned(table, at)[i] = table[i]
         /\ table[i].status = "absent" => Pruned(table, at)[i].status = "absent"
         /\ DOMAIN Pruned(table, at) = Ids
  BY DEF Pruned, Absent, LiveStatus

\* No process has started.
LEMMA InitEstablishes == Init => IInv
  BY ProcessesCounted
  DEF Init, IInv, Shape, Threads, Rows, Bound, MainPhases, BeatPhases, Working, Absent,
      NoBinding, Ids, Holding

\* Every step of a thread, of the container and of other workers preserves it.
LEMMA NextPreserves == IInv /\ [Next]_vars => IInv'
  <1> SUFFICES ASSUME IInv, [Next]_vars PROVE IInv'
    OBVIOUS
  <1> USE DEF IInv, Shape, Threads, Rows, Bound, MainPhases, BeatPhases, Working, Holding, process, heart
  <1>1. ASSUME NEW p \in Pids, Start(p) PROVE IInv'
    BY <1>1, ProcessesCounted DEF Start, Ids
  <1>2. CASE StartWorker
    <2> DEFINE new == [status |-> "running", beat |-> now, expires |-> now + heartbeat_max_age, job |-> FALSE]
               table == [rows EXCEPT ![id] = new]
    <2>1. rows' = Pruned(table, now) /\ id' = id /\ id \in Ids /\ main = "owner" /\ main' = "started"
      BY <1>2 DEF StartWorker
    <2>2. table[id].status \in LiveStatus /\ \A i \in Ids : i # id => table[i] = rows[i]
      BY <2>1 DEF LiveStatus
    <2> HIDE DEF table
    <2>3. rows'[id].status \in LiveStatus
      BY <2>1, <2>2, PrunedKeeps
    <2>4. \A i \in Ids : i > id => rows'[i].status = "absent"
      BY <2>1, <2>2, PrunedKeeps, ProcessesCounted DEF Ids
    <2>5. DOMAIN rows' = Ids
      BY <2>1 DEF Pruned
    <2> QED
      BY Zenon, <1>2, <2>1, <2>3, <2>4, <2>5 DEF StartWorker
  <1>3. CASE Bind
    BY <1>3 DEF Bind
  <1>4. CASE BindFails
    BY <1>4 DEF BindFails
  <1>5. CASE ClaimJob \/ FinishJob \/ LeaveLoop \/ Finally \/ LoseSession \/ Signal
    BY <1>5 DEF ClaimJob, FinishJob, LeaveLoop, Finally, LoseSession, Signal
  <1>6. CASE MeetLoss
    BY <1>6 DEF MeetLoss
  <1>7. CASE Join
    BY <1>7 DEF Join
  <1>8. CASE StopWorker
    <2> DEFINE new == [status |-> IF failed THEN "failed" ELSE "stopped", beat |-> now, expires |-> now, job |-> FALSE]
               table == [rows EXCEPT ![id] = new]
    <2>1. main' = "gone" /\ hb' = "off" /\ id' = id /\ permits' = 0 /\ binding' = binding
      BY <1>8 DEF StopWorker
    <2>2. rows' \in {rows, Pruned(table, now)}
      BY <1>8 DEF StopWorker
    <2>3. \A i \in Ids : i > id => rows'[i].status = "absent"
      <3>1. \A i \in Ids : i > id => table[i].status = "absent"
        BY ProcessesCounted DEF Ids
      <3> HIDE DEF table
      <3> QED
        BY <2>2, <3>1, PrunedKeeps
    <2>4. DOMAIN rows' = Ids
      BY <2>2 DEF Pruned
    <2> QED
      BY <2>1, <2>3, <2>4
  <1>9. CASE Kill
    BY <1>9 DEF Kill
  <1>10. CASE HbConnect \/ HbRead \/ HbRest
    BY <1>10 DEF HbConnect, HbRead, HbRest
  <1>11. CASE HbWrite
    <2> DEFINE new == [status |-> IF beat.stopping THEN "stopping" ELSE "running",
                       beat |-> beat.at, expires |-> beat.at + heartbeat_max_age, job |-> beat.job]
               table == [rows EXCEPT ![id] = new]
    <2>1. id' = id /\ main' = main /\ hb = "writing" /\ hb' = "resting" /\ permits' = permits /\ binding' = binding
      BY <1>11 DEF HbWrite
    <2>2. rows' \in {rows, Pruned(table, beat.at)}
      BY <1>11 DEF HbWrite
    <2>3. Working /\ id \in Ids /\ main # "owner"
      BY <2>1
    <2>4. table[id].status \in LiveStatus /\ \A i \in Ids : i # id => table[i] = rows[i]
      BY <2>3 DEF LiveStatus
    <2> HIDE DEF table
    <2>5. rows'[id].status \in LiveStatus
      BY <2>2, <2>3, <2>4, PrunedKeeps
    <2>6. \A i \in Ids : i > id => rows'[i].status = "absent"
      BY <2>2, <2>4, PrunedKeeps, ProcessesCounted DEF Ids
    <2>7. DOMAIN rows' = Ids
      BY <2>2 DEF Pruned
    <2> QED
      BY <2>1, <2>3, <2>5, <2>6, <2>7
  <1>12. CASE HbFatal
    BY <1>12 DEF HbFatal
  <1>13. CASE OthersPrune
    <2>1. rows' = Pruned(rows, now) /\ UNCHANGED <<process, heart, permits, binding>>
      BY <1>13 DEF OthersPrune
    <2>2. \A i \in Ids : /\ rows[i].status \in LiveStatus => rows'[i].status \in LiveStatus
                         /\ rows[i].status = "absent" => rows'[i].status = "absent"
      BY <2>1, PrunedKeeps
    <2>3. DOMAIN rows' = Ids
      BY <2>1 DEF Pruned
    <2> QED
      BY <2>1, <2>2, <2>3
  <1>14. CASE Tick \/ UNCHANGED vars
    BY <1>14 DEF Tick, vars
  <1> QED
    BY <1>1, <1>2, <1>3, <1>4, <1>5, <1>6, <1>7, <1>8, <1>9, <1>10, <1>11, <1>12, <1>13, <1>14
    DEF Next, MainStep, HeartStep

\* The inductive invariant holds throughout.
LEMMA Invariant == Spec => []IInv
  BY InitEstablishes, NextPreserves, PTL DEF Spec

\* While a worker runs, its row is there to be renewed, whoever prunes and however
\* late its heartbeat is (_prune_worker_heartbeats against heartbeat_worker).
THEOREM RowKept == Spec => []LiveRowKept
  <1>1. IInv => LiveRowKept
    BY DEF IInv, Rows, LiveStatus, LiveRowKept
  <1> QED
    BY <1>1, Invariant, PTL

\* A row that says stopped or failed belongs to a worker whose heartbeat thread
\* has ended: stop_worker comes after the join.
THEOREM LastWord == Spec => []TerminalIsQuiet
  <1>1. IInv => TerminalIsQuiet
    BY DEF IInv, Shape, Threads, Rows, LiveStatus, Working, MainPhases, TerminalIsQuiet
  <1> QED
    BY <1>1, Invariant, PTL

\* A healthy probe (local_worker_alive) means that this container's own process has
\* written its row, also when process ids are reused.
THEOREM HonestProbe == Spec => []ProbeHonest
  <1>1. IInv => ProbeHonest
    BY DEF IInv, Shape, Threads, Rows, Bound, LiveStatus, Working, MainPhases, ProbeHonest, Healthy,
           ProcessBound, Alive
  <1> QED
    BY <1>1, Invariant, PTL

\* Two permits suffice: an attempt of the heartbeat to open its session finds one.
THEOREM PermitForHeartbeat == Spec => []TwoSessionsSuffice
  <1>1. IInv => TwoSessionsSuffice
    BY WorkerCapacity DEF IInv, Shape, Threads, Holding, TwoSessionsSuffice
  <1> QED
    BY <1>1, Invariant, PTL

-----------------------------------------------------------------------------
(* Queue hints.                                                            *)

JobRow == [state : {"pending", "in_progress", "blocked", "done"}, next : {"null", "later", "due"}, revision : Nat]
Hint == [job : Job, revision : Nat, due : BOOLEAN, status : {"live", "delivered", "superseded", "pruned"}]
Pub == [pc : {"idle", "sending", "sent", "failed"}, rows : SUBSET Nat, gone : SUBSET Nat, row : Nat, after : Nat]
Work == [pc : {"idle", "executing", "acking"}, job : Job \cup {None}, message : BOOLEAN, after : Nat]

Types ==
  /\ job \in [Job -> JobRow] /\ hint \in Seq(Hint)
  /\ sends \in Seq(Nat) /\ Len(sends) = Len(hint)
  /\ pub \in [Publisher -> Pub]
  /\ worker \in [Worker -> Work]
  /\ \A w \in Worker : worker[w].pc = "executing" => worker[w].job \in Job

(* A hint is never newer than its job, counts as delivered only once it    *)
(* was sent, and is given up only when it is no longer current.            *)
HintSound(h) ==
  /\ hint[h].revision <= job[hint[h].job].revision
  /\ hint[h].status = "delivered" => sends[h] > 0
  /\ hint[h].status = "superseded" => ~CurrentHint(h)
  /\ hint[h].status = "pruned" => sends[h] > 0 \/ ~CurrentHint(h)

(* What a publisher decided before its send still holds after it.          *)
PublisherSound(p) ==
  /\ pub[p].gone \subseteq Id /\ \A h \in pub[p].gone : ~CurrentHint(h)
  /\ pub[p].pc # "idle" => pub[p].row \in Id
  /\ pub[p].pc = "sent" => sends[pub[p].row] > 0

(* A waiting job has the hint of its revision.                             *)
Hinted(j) == Waiting(j) => \E h \in Id : hint[h].job = j /\ hint[h].revision = job[j].revision

DInv ==
  /\ Types
  /\ \A h \in Id : HintSound(h)
  /\ \A p \in Publisher : PublisherSound(p)
  /\ \A j \in Job : Hinted(j)

-----------------------------------------------------------------------------
(* The steps, seen from one job and from one hint.                         *)

(* A job keeps its revision and whether it waits, or gets a later one.     *)
JobStep(j) ==
  /\ job'[j] \in JobRow
  /\ \/ job'[j].revision = job[j].revision /\ (Waiting(j)' <=> Waiting(j))
     \/ job'[j].revision > job[j].revision

HintStep(h) ==
  /\ hint'[h].job = hint[h].job /\ hint'[h].revision = hint[h].revision
  /\ sends'[h] >= sends[h]
  /\ \/ hint'[h].status = hint[h].status
     \/ hint'[h].status = "superseded" /\ ~CurrentHint(h)'
     \/ hint'[h].status = "delivered" /\ sends[h] > 0
     \/ hint'[h].status = "pruned" /\ hint[h].status \in {"delivered", "superseded"}

(* A hint that is not current never is again.                              *)
LEMMA StaleForEver ==
  ASSUME DInv, NEW h \in Id, JobStep(hint[h].job), ~CurrentHint(h),
         hint'[h].job = hint[h].job /\ hint'[h].revision = hint[h].revision
  PROVE  ~CurrentHint(h)'
<1>1. hint[h] \in Hint /\ HintSound(h)
  BY DEF DInv, Types, Id
<1>2. job[hint[h].job] \in JobRow /\ job'[hint[h].job] \in JobRow
  BY Zenon, <1>1 DEF DInv, Types, Hint, JobStep
<1>3. CASE job'[hint[h].job].revision > job[hint[h].job].revision
  BY <1>1, <1>2, <1>3 DEF HintSound, CurrentHint, Hint, JobRow
<1>4. CASE job'[hint[h].job].revision = job[hint[h].job].revision /\ (Waiting(hint[h].job)' <=> Waiting(hint[h].job))
  BY Zenon, <1>4 DEF CurrentHint, Waiting
<1>5. \/ job'[hint[h].job].revision > job[hint[h].job].revision
      \/ job'[hint[h].job].revision = job[hint[h].job].revision /\ (Waiting(hint[h].job)' <=> Waiting(hint[h].job))
  BY Zenon DEF JobStep, Waiting
<1> QED
  BY Zenon, <1>3, <1>4, <1>5

-----------------------------------------------------------------------------
(* Windows and cursors.                                                    *)

(* What is needed of the order of the numbers: a set of natural numbers    *)
(* has a smallest member.  It is shown to hold at the end of this module.  *)
Ordered == \A T \in SUBSET Nat : T # {} => \E x \in T : \A y \in T : x <= y

(* The oldest hint of a set, the row a publisher chooses, is one of them.  *)
LEMMA OldestIn ==
  ASSUME Ordered, NEW H \in SUBSET Nat, H # {}
  PROVE  Oldest(H) \in H
BY Zenon DEF Oldest, Ordered

(* The newest hint of a set, where the next window starts, is one of them. *)
LEMMA NewestIn ==
  ASSUME Ordered, NEW n \in Nat, NEW H \in SUBSET (1 .. n), H # {}
  PROVE  Newest(H) \in H /\ Newest(H) \in Nat
<1> DEFINE T == {n - h : h \in H}
<1>0. \A h \in 1 .. n : n - h \in Nat
  OBVIOUS
<1>1. T \in SUBSET Nat /\ T # {}
  BY Zenon, <1>0
<1>2. PICK x \in T : \A y \in T : x <= y
  BY Zenon, <1>1 DEF Ordered
<1>3. PICK h \in H : x = n - h
  OBVIOUS
<1>4. \A g \in H : n - g \in T
  OBVIOUS
<1> HIDE DEF T
<1>5. \A g \in H : g <= h
  BY <1>2, <1>3, <1>4
<1>6. Newest(H) \in H
  BY Zenon, <1>5 DEF Newest
<1>7. H \subseteq 1 .. n /\ 1 .. n \subseteq Nat
  OBVIOUS
<1> QED
  BY Zenon, <1>6, <1>7

(* A table of n rows is a sequence of its rows.                            *)
LEMMA RowsOf ==
  ASSUME NEW S, NEW n \in Nat, NEW f, f = [h \in 1 .. n |-> f[h]], \A h \in 1 .. n : f[h] \in S
  PROVE  f \in Seq(S) /\ Len(f) = n
OBVIOUS

(* The rows of a table are of its type.                                    *)
LEMMA RowType ==
  ASSUME NEW S, NEW s \in Seq(S)
  PROVE  Len(s) \in Nat /\ \A h \in 1 .. Len(s) : s[h] \in S
OBVIOUS

(* Replacing a row leaves the other ones.                                  *)
LEMMA ReplaceRow ==
  ASSUME NEW S, NEW s \in Seq(S), NEW i \in 1 .. Len(s), NEW e \in S
  PROVE  /\ [s EXCEPT ![i] = e] \in Seq(S) /\ Len([s EXCEPT ![i] = e]) = Len(s)
         /\ \A h \in 1 .. Len(s) : [s EXCEPT ![i] = e][h] = IF h = i THEN e ELSE s[h]
OBVIOUS

(* A hint with another status is a hint.                                   *)
LEMMA OtherStatus ==
  ASSUME NEW e \in Hint
  PROVE  [e EXCEPT !.status = "superseded"] \in Hint /\ [e EXCEPT !.status = "pruned"] \in Hint
BY DEF Hint

(* A retired table has the same rows, some of them superseded.             *)
LEMMA RetireRows ==
  ASSUME Types, NEW H
  PROVE  /\ Retire(H) \in Seq(Hint) /\ Len(Retire(H)) = Len(hint)
         /\ \A h \in Id : Retire(H)[h] = IF h \in H THEN [hint[h] EXCEPT !.status = "superseded"] ELSE hint[h]
<1>1. Len(hint) \in Nat /\ \A h \in Id : hint[h] \in Hint
  BY DEF Types, Id
<1>2. \A h \in Id : Retire(H)[h] = IF h \in H THEN [hint[h] EXCEPT !.status = "superseded"] ELSE hint[h]
  BY Zenon DEF Retire
<1>3. \A h \in Id : Retire(H)[h] \in Hint
  BY Zenon, <1>1, <1>2, OtherStatus
<1>4. Retire(H) = [h \in 1 .. Len(hint) |-> Retire(H)[h]]
  BY Zenon DEF Retire, Id
<1> QED
  BY <1>1, <1>2, <1>3, <1>4 DEF Id

-----------------------------------------------------------------------------
(* What every action does to jobs and hints.                               *)

(* A hint that a step leaves sound in these ways is sound.                 *)
LEMMA HintStaysSound ==
  ASSUME DInv, NEW h \in Id, JobStep(hint[h].job), HintStep(h), sends'[h] \in Nat
  PROVE  HintSound(h)'
<1> DEFINE j == hint[h].job
<1>1. hint[h] \in Hint /\ HintSound(h) /\ sends[h] \in Nat
  BY DEF DInv, Types, Id
<1>2. job[j] \in JobRow /\ job'[j] \in JobRow /\ hint[h].revision \in Nat
  BY Zenon, <1>1 DEF DInv, Types, Hint, JobStep
<1>3. hint'[h].job = j /\ hint'[h].revision = hint[h].revision /\ sends'[h] >= sends[h]
  BY Zenon DEF HintStep
<1>4. job[j].revision <= job'[j].revision
  BY <1>2 DEF JobStep, JobRow
<1>5. ~CurrentHint(h) => ~CurrentHint(h)'
  BY Zenon, <1>3, StaleForEver
<1>6. hint'[h].revision <= job'[hint'[h].job].revision
  BY <1>1, <1>2, <1>3, <1>4 DEF HintSound, JobRow
<1>7. CASE hint'[h].status = hint[h].status
  BY <1>1, <1>3, <1>5, <1>6, <1>7 DEF HintSound
<1>8. CASE hint'[h].status = "superseded" /\ ~CurrentHint(h)'
  BY Zenon, <1>6, <1>8 DEF HintSound
<1>9. CASE hint'[h].status = "delivered" /\ sends[h] > 0
  BY <1>1, <1>3, <1>6, <1>9 DEF HintSound
<1>10. CASE hint'[h].status = "pruned" /\ hint[h].status \in {"delivered", "superseded"}
  BY <1>1, <1>3, <1>5, <1>6, <1>10 DEF HintSound
<1> QED
  BY Zenon, <1>7, <1>8, <1>9, <1>10 DEF HintStep

(* Every action keeps the invariant when it moves jobs and hints forward,  *)
(* writes new hints live, gives a job that moves on a hint of its own, and *)
(* leaves each dispatcher as it was or in a sound state.                   *)
LEMMA StepKeeps ==
  ASSUME DInv, Types', Len(hint) <= Len(hint'),
         \A j \in Job : JobStep(j), \A h \in Id : HintStep(h),
         \A h \in Id' \ Id : hint'[h].status = "live" /\ hint'[h].revision <= job'[hint'[h].job].revision,
         \A j \in Job : job'[j].revision > job[j].revision => Hinted(j)',
         \A p \in Publisher : pub'[p] = pub[p] \/ PublisherSound(p)'
  PROVE  DInv'
<1>1. Len(hint) \in Nat /\ Len(hint') \in Nat /\ \A h \in Id : h \in Id' /\ hint[h] \in Hint /\ sends[h] \in Nat
  BY DEF DInv, Types, Id
<1>2. \A h \in Id' : sends'[h] \in Nat
  BY DEF Types, Id
<1>3. \A h \in Id : hint[h].job \in Job /\ JobStep(hint[h].job)
  BY Zenon, <1>1 DEF Hint
<1>4. ASSUME NEW h \in Id' PROVE HintSound(h)'
  <2>1. CASE h \in Id
    BY Zenon, <1>1, <1>2, <1>3, <2>1, HintStaysSound
  <2>2. CASE h \notin Id
    BY Zenon, <2>2 DEF HintSound
  <2> QED
    BY Zenon, <2>1, <2>2
<1>5. ASSUME NEW p \in Publisher PROVE PublisherSound(p)'
  <2>1. CASE pub'[p] = pub[p]
    <3>1. PublisherSound(p)
      BY Zenon DEF DInv
    <3>2. \A h \in pub[p].gone : h \in Id /\ ~CurrentHint(h)
      BY Zenon, <3>1 DEF PublisherSound
    <3>3. \A h \in pub[p].gone : h \in Id' /\ ~CurrentHint(h)'
      BY Zenon, <1>1, <1>3, <3>2, StaleForEver DEF HintStep
    <3>4. pub[p].pc # "idle" => pub[p].row \in Id'
      BY Zenon, <1>1, <3>1 DEF PublisherSound
    <3>5. ASSUME pub[p].pc = "sent" PROVE sends'[pub[p].row] > 0
      <4>1. pub[p].row \in Id /\ sends[pub[p].row] > 0
        BY Zenon, <3>1, <3>5 DEF PublisherSound
      <4> QED
        BY <1>1, <1>2, <4>1 DEF HintStep
    <3> QED
      BY Zenon, <2>1, <3>3, <3>4, <3>5 DEF PublisherSound
  <2> QED
    BY Zenon, <2>1
<1>6. ASSUME NEW j \in Job PROVE Hinted(j)'
  <2>1. job[j] \in JobRow /\ job'[j] \in JobRow
    BY Zenon DEF DInv, Types
  <2>2. CASE job'[j].revision = job[j].revision /\ (Waiting(j)' <=> Waiting(j))
    <3>1. SUFFICES ASSUME Waiting(j)'
                   PROVE  \E h \in Id' : hint'[h].job = j /\ hint'[h].revision = job'[j].revision
      BY Zenon DEF Hinted
    <3>2. PICK h \in Id : hint[h].job = j /\ hint[h].revision = job[j].revision
      BY Zenon, <2>2, <3>1 DEF DInv, Hinted
    <3> QED
      BY <1>1, <2>2, <3>2 DEF HintStep
  <2>3. CASE job'[j].revision > job[j].revision
    BY Zenon, <2>3
  <2> QED
    BY Zenon, <2>2, <2>3 DEF JobStep
<1> QED
  BY Zenon, <1>4, <1>5, <1>6 DEF DInv

(* A step that does not touch the jobs leaves each as it is.               *)
LEMMA SameJobs ==
  ASSUME DInv, job' = job
  PROVE  \A j \in Job : JobStep(j) /\ ~(job'[j].revision > job[j].revision)
BY DEF DInv, Types, JobStep, JobRow, Waiting

(* A step that does not touch the hints leaves each as it is.              *)
LEMMA SameHints ==
  ASSUME DInv, hint' = hint, sends' = sends
  PROVE  /\ \A h \in Id : HintStep(h)
         /\ Len(hint) <= Len(hint') /\ Id' = Id
BY DEF DInv, Types, HintStep, Id

-----------------------------------------------------------------------------
(* A transition of a job and its triggers keep the invariant: the hint it  *)
(* supersedes is of the old revision, and a job that waits gets a new one. *)
LEMMA MoveKeeps ==
  ASSUME DInv, NEW j \in Job, NEW state \in {"pending", "in_progress", "blocked", "done"},
         NEW next \in {"null", "later", "due"}, Move(j, state, next), pub' = pub,
         worker' \in [Worker -> Work],
         \A w \in Worker : worker'[w].pc = "executing" => worker'[w].job \in Job
  PROVE  DInv'
<1> DEFINE r   == job[j].revision + 1
           old == {h \in Live \ Locked : hint[h].job = j /\ hint[h].revision = job[j].revision}
           new == [job |-> j, revision |-> r, due |-> next # "later", status |-> "live"]
           waits == state = "pending" \/ (state = "blocked" /\ next # "null")
           kept == Retire(old)
<1>0. Types
  BY Zenon DEF DInv
<1>1. /\ job' = [job EXCEPT ![j] = [state |-> state, next |-> next, revision |-> r]]
      /\ hint' = IF waits THEN Append(kept, new) ELSE kept
      /\ sends' = IF waits THEN Append(sends, 0) ELSE sends
  BY Zenon DEF Move
<1>2. /\ job \in [Job -> JobRow] /\ job[j] \in JobRow /\ job[j].revision \in Nat /\ r \in Nat
      /\ hint \in Seq(Hint) /\ sends \in Seq(Nat) /\ Len(sends) = Len(hint) /\ Len(hint) \in Nat
  BY <1>0 DEF Types, JobRow
<1>3. /\ kept \in Seq(Hint) /\ Len(kept) = Len(hint)
      /\ \A h \in Id : kept[h] = IF h \in old THEN [hint[h] EXCEPT !.status = "superseded"] ELSE hint[h]
  BY Zenon, <1>0, RetireRows
<1>4. new \in Hint /\ new.job = j /\ new.revision = r /\ new.status = "live"
  BY Zenon, <1>2 DEF Hint
<1>5. \A h \in Id : h \in old => hint[h].job = j /\ hint[h].revision = job[j].revision
  OBVIOUS
<1>6. waits <=> Waiting(j)'
  BY Zenon, <1>1, <1>2 DEF Waiting
<1> HIDE DEF old, new, waits, kept
<1>7. job' \in [Job -> JobRow] /\ job'[j].revision = r /\ \A k \in Job : k # j => job'[k] = job[k]
  BY Zenon, <1>1, <1>2 DEF JobRow
<1>8. hint' \in Seq(Hint) /\ sends' \in Seq(Nat) /\ Len(sends') = Len(hint') /\ Len(hint) <= Len(hint')
  BY <1>1, <1>2, <1>3, <1>4
<1>9. Types'
  BY Zenon, <1>0, <1>7, <1>8 DEF Types
<1>10. \A h \in Id : hint'[h] = kept[h] /\ sends'[h] = sends[h]
  BY <1>1, <1>2, <1>3 DEF Id
<1>11. ASSUME NEW k \in Job PROVE JobStep(k)
  <2>1. CASE k = j
    BY <1>2, <1>7, <2>1 DEF JobStep
  <2>2. CASE k # j
    BY Zenon, <1>2, <1>7, <2>2 DEF JobStep, JobRow, Waiting
  <2> QED
    BY Zenon, <2>1, <2>2
<1>12. ASSUME NEW h \in Id PROVE HintStep(h)
  <2>1. hint[h] \in Hint /\ sends[h] \in Nat
    BY <1>2 DEF Id
  <2>2. CASE h \in old
    <3>1. hint'[h] = [hint[h] EXCEPT !.status = "superseded"]
      BY Zenon, <1>3, <1>10, <2>2
    <3>2. hint'[h].job = hint[h].job /\ hint'[h].revision = hint[h].revision /\ hint'[h].status = "superseded"
      BY Zenon, <2>1, <3>1 DEF Hint
    <3>3. ~CurrentHint(h)'
      BY <1>2, <1>5, <1>7, <2>2, <3>2 DEF CurrentHint
    <3> QED
      BY <1>10, <2>1, <3>2, <3>3 DEF HintStep
  <2>3. CASE h \notin old
    <3>1. hint'[h] = hint[h] /\ sends'[h] = sends[h]
      BY Zenon, <1>3, <1>10, <2>3
    <3> QED
      BY <2>1, <3>1 DEF HintStep
  <2> QED
    BY Zenon, <2>2, <2>3
<1>13. ASSUME NEW h \in Id' \ Id PROVE hint'[h].status = "live" /\ hint'[h].revision <= job'[hint'[h].job].revision
  <2>1. waits /\ hint'[h] = new
    BY <1>1, <1>2, <1>3, <1>4 DEF Id
  <2> QED
    BY <1>2, <1>4, <1>7, <2>1
<1>14. ASSUME NEW k \in Job, job'[k].revision > job[k].revision PROVE Hinted(k)'
  <2>1. k = j
    BY <1>2, <1>7, <1>14 DEF JobRow
  <2>2. CASE waits
    <3>1. Len(hint) + 1 \in Id' /\ hint'[Len(hint) + 1] = new
      BY <1>1, <1>2, <1>3, <1>4, <2>2 DEF Id
    <3> QED
      BY Zenon, <1>4, <1>7, <2>1, <3>1 DEF Hinted
  <2>3. CASE ~waits
    BY Zenon, <1>6, <2>1, <2>3 DEF Hinted
  <2> QED
    BY Zenon, <2>2, <2>3
<1> QED
  BY Zenon, <1>8, <1>9, <1>11, <1>12, <1>13, <1>14, StepKeeps

(* A claim keeps the invariant.                                            *)
LEMMA ClaimKeeps ==
  ASSUME DInv, NEW w \in Worker, NEW j \in Job, NEW m \in BOOLEAN, Claim(w, j, m)
  PROVE  DInv'
<1>1. worker \in [Worker -> Work] /\ \A v \in Worker : worker[v].pc = "executing" => worker[v].job \in Job
  BY Zenon DEF DInv, Types
<1>2. worker' = [worker EXCEPT ![w].pc = "executing", ![w].job = j, ![w].message = m]
  BY Zenon DEF Claim
<1>3. worker' \in [Worker -> Work] /\ \A v \in Worker : worker'[v].pc = "executing" => worker'[v].job \in Job
  <2>1. worker[w] \in Work
    BY Zenon, <1>1
  <2>2. worker'[w] = [worker[w] EXCEPT !.pc = "executing", !.job = j, !.message = m]
    BY Zenon, <1>1, <1>2
  <2>3. worker'[w] \in Work /\ worker'[w].job \in Job
    BY Zenon, <2>1, <2>2 DEF Work
  <2>4. \A v \in Worker : v # w => worker'[v] = worker[v]
    BY Zenon, <1>1, <1>2
  <2>5. worker' = [v \in Worker |-> worker'[v]]
    BY Zenon, <1>1, <1>2
  <2> QED
    BY Zenon, <1>1, <2>3, <2>4, <2>5
<1> QED
  BY Zenon, <1>3, MoveKeeps DEF Claim

(* The end of an execution keeps the invariant.                            *)
LEMMA FinishKeeps ==
  ASSUME DInv, NEW w \in Worker, Finish(w)
  PROVE  DInv'
<1>1. worker \in [Worker -> Work] /\ \A v \in Worker : worker[v].pc = "executing" => worker[v].job \in Job
  BY Zenon DEF DInv, Types
<1>2. worker[w].job \in Job
  BY Zenon, <1>1 DEF Finish
<1>3. worker' \in [Worker -> Work] /\ \A v \in Worker : worker'[v].pc = "executing" => worker'[v].job \in Job
  <2>1. worker[w] \in Work
    BY Zenon, <1>1
  <2>2. CASE worker[w].message
    <3>1. worker' = [worker EXCEPT ![w].pc = "acking"]
      BY Zenon, <2>2 DEF Finish
    <3>2. worker'[w] = [worker[w] EXCEPT !.pc = "acking"] /\ \A v \in Worker : v # w => worker'[v] = worker[v]
      BY Zenon, <1>1, <3>1
    <3>3. worker'[w] \in Work /\ worker'[w].pc = "acking"
      BY <2>1, <3>2 DEF Work
    <3> QED
      BY <1>1, <3>1, <3>2, <3>3
  <2>3. CASE ~worker[w].message
    <3>1. worker' = [worker EXCEPT ![w].pc = "idle", ![w].job = None]
      BY Zenon, <2>3 DEF Finish
    <3>2. worker'[w] = [worker[w] EXCEPT !.pc = "idle", !.job = None] /\ \A v \in Worker : v # w => worker'[v] = worker[v]
      BY <1>1, <3>1
    <3>3. worker'[w] \in Work /\ worker'[w].pc = "idle"
      BY <2>1, <3>2 DEF Work
    <3> QED
      BY <1>1, <3>1, <3>2, <3>3
  <2> QED
    BY Zenon, <2>2, <2>3
<1>4. PICK state \in {"pending", "in_progress", "blocked", "done"}, next \in {"null", "later", "due"} :
        Move(worker[w].job, state, next)
  <2>1. PICK o \in {<<"done", "null">>, <<"blocked", "later">>, <<"blocked", "null">>, <<"pending", "null">>} :
          Move(worker[w].job, o[1], o[2])
    BY Zenon DEF Finish
  <2>2. o[1] \in {"pending", "in_progress", "blocked", "done"} /\ o[2] \in {"null", "later", "due"}
    OBVIOUS
  <2> QED
    BY Zenon, <2>1, <2>2
<1> QED
  BY Zenon, <1>2, <1>3, <1>4, MoveKeeps DEF Finish

(* The death of a worker and the recovery of its job keep the invariant.   *)
LEMMA CrashWorkerKeeps ==
  ASSUME DInv, NEW w \in Worker, CrashWorker(w)
  PROVE  DInv'
<1>1. worker \in [Worker -> Work] /\ \A v \in Worker : worker[v].pc = "executing" => worker[v].job \in Job
  BY Zenon DEF DInv, Types
<1>2. worker[w].job \in Job
  BY Zenon, <1>1 DEF CrashWorker
<1>3. worker' \in [Worker -> Work] /\ \A v \in Worker : worker'[v].pc = "executing" => worker'[v].job \in Job
  BY Zenon, <1>1 DEF Work, CrashWorker
<1> QED
  BY Zenon, <1>2, <1>3, MoveKeeps DEF CrashWorker

-----------------------------------------------------------------------------
(* Dispatchers.                                                            *)

(* What a step of a dispatcher or a maintenance pass has to show: jobs and *)
(* the number of hints stay, each hint makes an allowed step.              *)
LEMMA QuietKeeps ==
  ASSUME DInv, job' = job, hint' \in Seq(Hint), Len(hint') = Len(hint),
         sends' \in Seq(Nat), Len(sends') = Len(sends),
         \A h \in Id : HintStep(h),
         pub' \in [Publisher -> Pub], \A p \in Publisher : pub'[p] = pub[p] \/ PublisherSound(p)',
         worker' \in [Worker -> Work],
         \A w \in Worker : worker'[w].pc = "executing" => worker'[w].job \in Job
  PROVE  DInv'
<1>1. Types'
  BY Zenon DEF DInv, Types
<1>2. Id' = Id /\ Len(hint) \in Nat
  BY DEF DInv, Types, Id
<1>3. \A j \in Job : JobStep(j) /\ ~(job'[j].revision > job[j].revision)
  BY Zenon, SameJobs
<1> QED
  BY <1>1, <1>2, <1>3, StepKeeps

(* Retiring hints that are not current is an allowed step of each hint.    *)
LEMMA RetireStep ==
  ASSUME DInv, NEW H, \A h \in H : ~CurrentHint(h), job' = job, hint' = Retire(H), sends' = sends
  PROVE  hint' \in Seq(Hint) /\ Len(hint') = Len(hint) /\ \A h \in Id : HintStep(h)
<1>1. /\ hint' \in Seq(Hint) /\ Len(hint') = Len(hint)
      /\ \A h \in Id : hint'[h] = IF h \in H THEN [hint[h] EXCEPT !.status = "superseded"] ELSE hint[h]
  BY Zenon, RetireRows DEF DInv
<1>2. ASSUME NEW h \in Id PROVE HintStep(h)
  <2>1. hint[h] \in Hint /\ sends[h] \in Nat
    BY DEF DInv, Types, Id
  <2>2. CASE h \in H
    <3>1. hint'[h].job = hint[h].job /\ hint'[h].revision = hint[h].revision /\ hint'[h].status = "superseded"
      BY Zenon, <1>1, <2>1, <2>2 DEF Hint
    <3>2. ~CurrentHint(h)'
      BY Zenon, <2>2, <3>1 DEF CurrentHint, Waiting
    <3> QED
      BY <2>1, <3>1, <3>2 DEF HintStep
  <2>3. CASE h \notin H
    <3>1. hint'[h] = hint[h] /\ sends'[h] = sends[h]
      BY Zenon, <1>1, <2>3
    <3> QED
      BY <2>1, <3>1 DEF HintStep
  <2> QED
    BY Zenon, <2>2, <2>3
<1> QED
  BY Zenon, <1>1, <1>2

(* Choosing what to send keeps the invariant: a window without a current   *)
(* hint only retires obsolete ones, another one chooses one of its rows.   *)
LEMMA PendingDispatchKeeps ==
  ASSUME Ordered, DInv, NEW p \in Publisher, PendingDispatch(p)
  PROVE  DInv'
<1> DEFINE W    == Batch({h \in Live : hint[h].due /\ h > pub[p].after})
           chosen == Lockable(W)
           good == {h \in chosen : CurrentHint(h) /\ job[hint[h].job].next # "later"}
           gone == {h \in chosen : ~CurrentHint(h)}
<1>0. Types
  BY Zenon DEF DInv
<1>1. /\ pub \in [Publisher -> Pub] /\ pub[p] \in Pub /\ pub[p].pc = "idle" /\ worker' = worker /\ sends' = sends /\ job' = job
      /\ hint \in Seq(Hint) /\ sends \in Seq(Nat) /\ Len(hint) \in Nat
      /\ worker \in [Worker -> Work] /\ \A w \in Worker : worker[w].pc = "executing" => worker[w].job \in Job
  BY <1>0 DEF Types, PendingDispatch
<1>2. W \in SUBSET (1 .. Len(hint)) /\ chosen \subseteq W /\ gone \subseteq chosen /\ good \subseteq chosen
  BY Zenon DEF Batch, Lockable, Live, Id
<1>3. \/ good = {} /\ hint' = Retire(gone) /\ pub' = [pub EXCEPT ![p].after = NextCursor(W)]
      \/ good # {} /\ hint' = hint /\ pub' = [pub EXCEPT ![p] = [pc |-> "sending", rows |-> chosen, row |-> Oldest(good),
                                                              gone |-> gone, after |-> 0]]
  BY Zenon DEF PendingDispatch
<1>4. \A h \in gone : ~CurrentHint(h)
  OBVIOUS
<1> HIDE DEF W, chosen, good, gone
<1>5. CASE good = {} /\ hint' = Retire(gone) /\ pub' = [pub EXCEPT ![p].after = NextCursor(W)]
  <2>1. NextCursor(W) \in Nat
    <3>1. Len(hint) \in Nat /\ W \in SUBSET (1 .. Len(hint))
      BY Zenon, <1>1, <1>2
    <3>2. ASSUME W # {} PROVE Newest(W) \in Nat
      BY Zenon, <3>1, <3>2, NewestIn
    <3> QED
      BY Zenon, <3>2 DEF NextCursor
  <2>2. pub'[p] = [pub[p] EXCEPT !.after = NextCursor(W)] /\ \A q \in Publisher : q # p => pub'[q] = pub[q]
    BY Zenon, <1>1, <1>5
  <2>3. pub'[p] \in Pub /\ pub'[p].pc = "idle" /\ pub'[p].gone = pub[p].gone
    BY Zenon, <1>1, <2>1, <2>2 DEF Pub
  <2>4. hint' \in Seq(Hint) /\ Len(hint') = Len(hint) /\ \A h \in Id : HintStep(h)
    BY Zenon, <1>1, <1>4, <1>5, RetireStep
  <2>5. PublisherSound(p)'
    <3>1. \A h \in pub[p].gone : h \in Id /\ ~CurrentHint(h)
      BY Zenon DEF DInv, PublisherSound
    <3>2. \A h \in Id : JobStep(hint[h].job)
      <4>1. \A h \in Id : hint[h] \in Hint
        BY <1>1 DEF Id
      <4>2. \A j \in Job : JobStep(j)
        BY Zenon, <1>1, SameJobs
      <4> QED
        BY Zenon, <4>1, <4>2 DEF Hint
    <3>3. \A h \in pub[p].gone : ~CurrentHint(h)'
      BY Zenon, <2>4, <3>1, <3>2, StaleForEver DEF HintStep
    <3>4. Id' = Id
      BY Zenon, <2>4 DEF Id
    <3> QED
      BY Zenon, <2>3, <3>1, <3>3, <3>4 DEF PublisherSound
  <2>6. pub' \in [Publisher -> Pub]
    BY Zenon, <1>1, <1>5, <2>2, <2>3
  <2> QED
    BY Zenon, <1>1, <2>2, <2>4, <2>5, <2>6, QuietKeeps
<1>6. CASE good # {} /\ hint' = hint /\ pub' = [pub EXCEPT ![p] = [pc |-> "sending", rows |-> chosen, row |-> Oldest(good),
                                                              gone |-> gone, after |-> 0]]
  <2>1. Oldest(good) \in good
    BY <1>1, <1>2, <1>6, OldestIn
  <2>2. Oldest(good) \in Id /\ gone \subseteq Id /\ chosen \in SUBSET Nat /\ gone \in SUBSET Nat /\ Oldest(good) \in Nat
    <3>1. Len(hint) \in Nat /\ W \subseteq 1 .. Len(hint)
      BY Zenon, <1>1, <1>2
    <3>2. chosen \subseteq 1 .. Len(hint) /\ gone \subseteq 1 .. Len(hint) /\ Oldest(good) \in 1 .. Len(hint)
      BY Zenon, <1>2, <2>1, <3>1
    <3>3. 1 .. Len(hint) \subseteq Nat
      BY <3>1
    <3> QED
      BY Zenon, <3>2, <3>3 DEF Id
  <2>3. pub'[p] = [pc |-> "sending", rows |-> chosen, row |-> Oldest(good), gone |-> gone, after |-> 0]
        /\ \A q \in Publisher : q # p => pub'[q] = pub[q]
    BY Zenon, <1>1, <1>6
  <2>4. pub'[p] \in Pub
    BY <2>2, <2>3 DEF Pub
  <2>5. Id' = Id /\ \A h : CurrentHint(h)' = CurrentHint(h)
    BY Zenon, <1>1, <1>6 DEF Id, CurrentHint, Waiting
  <2>6. PublisherSound(p)'
    <3>1. pub'[p].gone = gone /\ pub'[p].row = Oldest(good) /\ pub'[p].pc = "sending"
      BY <2>3
    <3>2. \A h \in gone : ~CurrentHint(h)'
      BY Zenon, <1>4, <2>5
    <3> QED
      BY Zenon, <2>2, <2>5, <3>1, <3>2 DEF PublisherSound
  <2>7. pub' \in [Publisher -> Pub]
    BY Zenon, <1>1, <1>6, <2>3, <2>4
  <2> QED
    BY Zenon, <1>1, <1>6, <2>3, <2>6, <2>7, SameHints, QuietKeeps
<1> QED
  BY Zenon, <1>3, <1>5, <1>6

(* A send keeps the invariant: it is counted before it is recorded.        *)
LEMMA SendKeeps ==
  ASSUME DInv, NEW p \in Publisher, Send(p)
  PROVE  DInv'
<1> DEFINE row == pub[p].row
<1>1. /\ pub \in [Publisher -> Pub] /\ pub[p] \in Pub /\ hint \in Seq(Hint) /\ sends \in Seq(Nat)
      /\ Len(sends) = Len(hint) /\ Len(hint) \in Nat
      /\ worker \in [Worker -> Work] /\ \A w \in Worker : worker[w].pc = "executing" => worker[w].job \in Job
  BY DEF DInv, Types
<1>2. /\ worker' = worker /\ job' = job /\ hint' = hint /\ pub[p].pc = "sending"
      /\ \/ sends' = [sends EXCEPT ![row] = @ + 1] /\ pub' = [pub EXCEPT ![p].pc = "sent"]
         \/ sends' = sends /\ pub' = [pub EXCEPT ![p].pc = "failed"]
  BY Zenon DEF Send
<1>3. PublisherSound(p)
  BY Zenon DEF DInv
<1>4. row \in Id /\ pub[p].gone \subseteq Id /\ \A h \in pub[p].gone : ~CurrentHint(h)
  BY Zenon, <1>2, <1>3 DEF PublisherSound
<1>5. Id' = Id /\ \A h : CurrentHint(h)' = CurrentHint(h)
  BY Zenon, <1>2 DEF Id, CurrentHint, Waiting
<1>6. \A h \in Id : sends[h] \in Nat /\ h \in 1 .. Len(sends)
  BY <1>1 DEF Id
<1> HIDE DEF row
<1>7. sends' \in Seq(Nat) /\ Len(sends') = Len(sends) /\ \A h \in Id : sends'[h] >= sends[h]
  <2>1. CASE sends' = [sends EXCEPT ![row] = @ + 1]
    <3>1. sends[row] + 1 \in Nat
      BY <1>4, <1>6
    <3>2. sends' \in Seq(Nat) /\ Len(sends') = Len(sends)
      BY <1>1, <1>4, <1>6, <2>1, <3>1
    <3>3. \A h \in Id : sends'[h] = IF h = row THEN sends[h] + 1 ELSE sends[h]
      BY <1>1, <1>6, <2>1
    <3> QED
      BY <1>6, <3>2, <3>3
  <2>2. CASE sends' = sends
    BY <1>1, <1>6, <2>2
  <2> QED
    BY Zenon, <1>2, <2>1, <2>2
<1>8. \A h \in Id : HintStep(h)
  BY Zenon, <1>2, <1>7 DEF HintStep
<1>9. pub' \in [Publisher -> Pub] /\ \A q \in Publisher : pub'[q] = pub[q] \/ PublisherSound(q)'
  <2>1. CASE sends' = [sends EXCEPT ![row] = @ + 1] /\ pub' = [pub EXCEPT ![p].pc = "sent"]
    <3>1. pub'[p] = [pub[p] EXCEPT !.pc = "sent"] /\ \A q \in Publisher : q # p => pub'[q] = pub[q]
      BY Zenon, <1>1, <2>1
    <3>2. pub'[p] \in Pub /\ pub'[p].pc = "sent" /\ pub'[p].gone = pub[p].gone /\ pub'[p].row = row
      BY Zenon, <1>1, <3>1 DEF Pub, row
    <3>3. sends'[row] > 0
      BY <1>1, <1>4, <1>6, <2>1
    <3>4. PublisherSound(p)'
      BY Zenon, <1>4, <1>5, <3>2, <3>3 DEF PublisherSound
    <3> QED
      BY Zenon, <1>1, <2>1, <3>1, <3>2, <3>4
  <2>2. CASE sends' = sends /\ pub' = [pub EXCEPT ![p].pc = "failed"]
    <3>1. pub'[p] = [pub[p] EXCEPT !.pc = "failed"] /\ \A q \in Publisher : q # p => pub'[q] = pub[q]
      BY Zenon, <1>1, <2>2
    <3>2. pub'[p] \in Pub /\ pub'[p].pc = "failed" /\ pub'[p].gone = pub[p].gone /\ pub'[p].row = row
      BY Zenon, <1>1, <3>1 DEF Pub, row
    <3>3. PublisherSound(p)'
      BY Zenon, <1>4, <1>5, <3>2 DEF PublisherSound
    <3> QED
      BY Zenon, <1>1, <2>2, <3>1, <3>2, <3>3
  <2> QED
    BY Zenon, <1>2, <2>1, <2>2
<1> QED
  BY Zenon, <1>1, <1>2, <1>7, <1>8, <1>9, QuietKeeps

(* A dispatcher outside its transaction has decided nothing.               *)
LEMMA OutsideSound ==
  ASSUME DInv, NEW p \in Publisher, pub' = [pub EXCEPT ![p] = Outside]
  PROVE  pub' \in [Publisher -> Pub] /\ \A q \in Publisher : pub'[q] = pub[q] \/ PublisherSound(q)'
<1>1. pub \in [Publisher -> Pub] /\ pub'[p] = Outside /\ \A q \in Publisher : q # p => pub'[q] = pub[q]
  BY Zenon DEF DInv, Types
<1>2. Outside \in Pub
  BY Zenon DEF Outside, Pub
<1>3. PublisherSound(p)'
  BY Zenon, <1>1 DEF Outside, PublisherSound
<1> QED
  BY Zenon, <1>1, <1>2, <1>3

(* The death of a dispatcher keeps the invariant.                          *)
LEMMA CrashPublisherKeeps ==
  ASSUME DInv, NEW p \in Publisher, CrashPublisher(p)
  PROVE  DInv'
<1>1. /\ hint \in Seq(Hint) /\ sends \in Seq(Nat)
      /\ worker \in [Worker -> Work] /\ \A w \in Worker : worker[w].pc = "executing" => worker[w].job \in Job
  BY Zenon DEF DInv, Types
<1>2. worker' = worker /\ job' = job /\ hint' = hint /\ sends' = sends /\ pub' = [pub EXCEPT ![p] = Outside]
  BY Zenon DEF CrashPublisher
<1> QED
  BY Zenon, <1>1, <1>2, OutsideSound, SameHints, QuietKeeps

(* The end of a dispatch keeps the invariant: what it records as delivered *)
(* was sent, and what it retires is still not current.                     *)
LEMMA CommitDispatchKeeps ==
  ASSUME DInv, NEW p \in Publisher, CommitDispatch(p)
  PROVE  DInv'
<1> DEFINE row  == pub[p].row
           kept == Retire(pub[p].gone)
           last == IF pub[p].pc = "sent" THEN [hint[row] EXCEPT !.status = "delivered"] ELSE [hint[row] EXCEPT !.due = FALSE]
<1>1. /\ hint \in Seq(Hint) /\ sends \in Seq(Nat) /\ Len(hint) \in Nat /\ Len(sends) = Len(hint)
      /\ worker \in [Worker -> Work] /\ \A w \in Worker : worker[w].pc = "executing" => worker[w].job \in Job
  BY DEF DInv, Types
<1>2. /\ worker' = worker /\ job' = job /\ sends' = sends /\ pub' = [pub EXCEPT ![p] = Outside]
      /\ hint' = [kept EXCEPT ![row] = last] /\ pub[p].pc \in {"sent", "failed"}
  BY Zenon DEF CommitDispatch
<1>3. /\ row \in Id /\ \A h \in pub[p].gone : ~CurrentHint(h)
      /\ pub[p].pc = "sent" => sends[row] > 0
  BY Zenon, <1>2 DEF DInv, PublisherSound
<1>4. /\ kept \in Seq(Hint) /\ Len(kept) = Len(hint)
      /\ \A h \in Id : kept[h] = IF h \in pub[p].gone THEN [hint[h] EXCEPT !.status = "superseded"] ELSE hint[h]
  BY Zenon, RetireRows DEF DInv
<1>5. \A h \in Id : hint[h] \in Hint /\ sends[h] \in Nat /\ h \in 1 .. Len(kept)
  BY <1>1, <1>4 DEF Id
<1>6. /\ last \in Hint /\ last.job = hint[row].job /\ last.revision = hint[row].revision
      /\ pub[p].pc = "sent" => last.status = "delivered"
      /\ pub[p].pc # "sent" => last.status = hint[row].status
  BY Zenon, <1>3, <1>5 DEF Hint
<1> HIDE DEF row, kept, last
<1>7. hint' \in Seq(Hint) /\ Len(hint') = Len(hint) /\ \A h \in Id : hint'[h] = IF h = row THEN last ELSE kept[h]
  BY <1>2, <1>3, <1>4, <1>5, <1>6
<1>8. ASSUME NEW h \in Id PROVE HintStep(h)
  <2>1. hint[h] \in Hint /\ sends[h] \in Nat /\ sends'[h] = sends[h]
    BY Zenon, <1>2, <1>5
  <2>2. CASE h = row
    BY <1>3, <1>6, <1>7, <2>1, <2>2 DEF HintStep
  <2>3. CASE h # row /\ h \in pub[p].gone
    <3>1. hint'[h] = [hint[h] EXCEPT !.status = "superseded"]
      BY Zenon, <1>4, <1>7, <2>3
    <3>2. hint'[h].job = hint[h].job /\ hint'[h].revision = hint[h].revision /\ hint'[h].status = "superseded"
      BY Zenon, <2>1, <3>1 DEF Hint
    <3>3. ~CurrentHint(h)'
      BY Zenon, <1>2, <1>3, <2>3, <3>2 DEF CurrentHint, Waiting
    <3> QED
      BY <2>1, <3>2, <3>3 DEF HintStep
  <2>4. CASE h # row /\ h \notin pub[p].gone
    <3>1. hint'[h] = hint[h]
      BY Zenon, <1>4, <1>7, <2>4
    <3> QED
      BY <2>1, <3>1 DEF HintStep
  <2> QED
    BY Zenon, <2>2, <2>3, <2>4
<1> QED
  BY Zenon, <1>1, <1>2, <1>7, <1>8, OutsideSound, QuietKeeps

-----------------------------------------------------------------------------
(* Workers, the queue and time.                                            *)

(* Maintenance keeps the invariant: the hints it retires are not current,  *)
(* and those it prunes were delivered or superseded before.                *)
LEMMA MaintainDispatchKeeps ==
  ASSUME Ordered, DInv, NEW w \in Worker, MaintainDispatch(w)
  PROVE  DInv'
<1> DEFINE chosen == Batch({h \in Live \ Locked : h > MaintainFrom(w)})
           gone == {g \in chosen : ~CurrentHint(g)}
           kept == Retire(gone)
           from == IF chosen = {} THEN 0 ELSE Newest(chosen)
<1>1. /\ hint \in Seq(Hint) /\ sends \in Seq(Nat) /\ Len(hint) \in Nat /\ Len(sends) = Len(hint) /\ pub \in [Publisher -> Pub]
      /\ worker \in [Worker -> Work] /\ \A v \in Worker : worker[v].pc = "executing" => worker[v].job \in Job
  BY DEF DInv, Types
<1>2. PICK old \in {{}, Batch(Retired)} :
        hint' = [h \in Id |-> IF h \in old THEN [hint[h] EXCEPT !.status = "pruned"] ELSE kept[h]]
  BY Zenon DEF MaintainDispatch
<1>3. /\ job' = job /\ sends' = sends /\ pub' = pub /\ worker[w].pc = "idle"
      /\ worker' = [worker EXCEPT ![w].after = from]
  BY Zenon DEF MaintainDispatch
<1>4. \A h \in old : hint[h].status \in {"delivered", "superseded"}
  BY Zenon DEF Batch, Retired
<1>5. \A h \in gone : ~CurrentHint(h)
  OBVIOUS
<1>6. chosen \in SUBSET (1 .. Len(hint))
  BY Zenon DEF Batch, Live, Id
<1>7. /\ kept \in Seq(Hint) /\ Len(kept) = Len(hint)
      /\ \A h \in Id : kept[h] = IF h \in gone THEN [hint[h] EXCEPT !.status = "superseded"] ELSE hint[h]
  BY Zenon, RetireRows DEF DInv
<1> HIDE DEF chosen, gone, kept
<1>8. from \in Nat
  <2>1. ASSUME chosen # {} PROVE Newest(chosen) \in Nat
    BY Zenon, <1>1, <1>6, <2>1, NewestIn
  <2> QED
    BY Zenon, <2>1
<1> HIDE DEF from
<1>9. \A h \in Id : hint[h] \in Hint /\ kept[h] \in Hint /\ sends[h] \in Nat
  BY Zenon, <1>1, <1>7, RowType DEF Id
<1>10. \A h \in Id : hint'[h] = IF h \in old THEN [hint[h] EXCEPT !.status = "pruned"] ELSE kept[h]
  BY Zenon, <1>2
<1>11. \A h \in Id : hint'[h] \in Hint
  BY Zenon, <1>9, <1>10, OtherStatus
<1>12. hint' \in Seq(Hint) /\ Len(hint') = Len(hint)
  <2>1. hint' = [h \in 1 .. Len(hint) |-> hint'[h]]
    BY Zenon, <1>2 DEF Id
  <2> QED
    BY Zenon, <1>1, <1>11, <2>1, RowsOf DEF Id
<1>13. ASSUME NEW h \in Id PROVE HintStep(h)
  <2>1. hint[h] \in Hint /\ sends[h] \in Nat /\ sends'[h] = sends[h]
    BY Zenon, <1>3, <1>9
  <2>2. CASE h \in old
    <3>1. hint'[h].job = hint[h].job /\ hint'[h].revision = hint[h].revision /\ hint'[h].status = "pruned"
      BY Zenon, <1>10, <2>1, <2>2 DEF Hint
    <3> QED
      BY <1>4, <2>1, <2>2, <3>1 DEF HintStep
  <2>3. CASE h \notin old /\ h \in gone
    <3>1. hint'[h] = [hint[h] EXCEPT !.status = "superseded"]
      BY Zenon, <1>7, <1>10, <2>3
    <3>2. hint'[h].job = hint[h].job /\ hint'[h].revision = hint[h].revision /\ hint'[h].status = "superseded"
      BY Zenon, <2>1, <3>1 DEF Hint
    <3>3. ~CurrentHint(h)'
      BY Zenon, <1>3, <1>5, <2>3, <3>2 DEF CurrentHint, Waiting
    <3> QED
      BY <2>1, <3>2, <3>3 DEF HintStep
  <2>4. CASE h \notin old /\ h \notin gone
    <3>1. hint'[h] = hint[h]
      BY Zenon, <1>7, <1>10, <2>4
    <3> QED
      BY <2>1, <3>1 DEF HintStep
  <2> QED
    BY Zenon, <2>2, <2>3, <2>4
<1>14. worker' \in [Worker -> Work] /\ \A v \in Worker : worker'[v].pc = "executing" => worker'[v].job \in Job
  <2>1. worker[w] \in Work /\ worker'[w] = [worker[w] EXCEPT !.after = from] /\ \A v \in Worker : v # w => worker'[v] = worker[v]
    BY Zenon, <1>1, <1>3
  <2>2. worker'[w] \in Work /\ worker'[w].pc = "idle"
    BY <1>3, <1>8, <2>1 DEF Work
  <2> QED
    BY Zenon, <1>1, <1>3, <2>1, <2>2
<1> QED
  BY Zenon, <1>1, <1>3, <1>12, <1>13, <1>14, QuietKeeps

(* The queue and the acknowledgement of a message touch no hint.           *)
LEMMA QueueKeeps ==
  ASSUME DInv, job' = job, hint' = hint, sends' = sends, pub' = pub,
         worker' \in [Worker -> Work],
         \A w \in Worker : worker'[w].pc = "executing" => worker'[w].job \in Job
  PROVE  DInv'
<1>1. hint \in Seq(Hint) /\ sends \in Seq(Nat) /\ pub \in [Publisher -> Pub]
  BY Zenon DEF DInv, Types
<1> QED
  BY Zenon, <1>1, SameHints, QuietKeeps

(* The acknowledgement of a message keeps the invariant.                   *)
LEMMA AcknowledgeKeeps ==
  ASSUME DInv, NEW w \in Worker, Acknowledge(w)
  PROVE  DInv'
<1>1. worker \in [Worker -> Work] /\ \A v \in Worker : worker[v].pc = "executing" => worker[v].job \in Job
  BY Zenon DEF DInv, Types
<1>2. worker' = [worker EXCEPT ![w].pc = "idle", ![w].job = None, ![w].message = FALSE]
  BY Zenon DEF Acknowledge
<1>3. worker[w] \in Work /\ worker'[w] = [worker[w] EXCEPT !.pc = "idle", !.job = None, !.message = FALSE]
      /\ \A v \in Worker : v # w => worker'[v] = worker[v]
  BY Zenon, <1>1, <1>2
<1>4. worker'[w] \in Work /\ worker'[w].pc = "idle"
  BY Zenon, <1>3 DEF Work
<1>5. worker' = [v \in Worker |-> worker'[v]]
  BY Zenon, <1>1, <1>2
<1>6. worker' \in [Worker -> Work] /\ \A v \in Worker : worker'[v].pc = "executing" => worker'[v].job \in Job
  BY Zenon, <1>1, <1>3, <1>4, <1>5
<1> QED
  BY Zenon, <1>6, QueueKeeps DEF Acknowledge

(* A retry that becomes due keeps the invariant: it waited before.         *)
LEMMA JobDueKeeps ==
  ASSUME DInv, NEW j \in Job, JobDue(j)
  PROVE  DInv'
<1>1. job \in [Job -> JobRow] /\ hint \in Seq(Hint) /\ sends \in Seq(Nat)
  BY Zenon DEF DInv, Types
<1>2. /\ job' = [job EXCEPT ![j].next = "due"] /\ job[j].next = "later"
      /\ hint' = hint /\ sends' = sends /\ pub' = pub /\ worker' = worker
  BY Zenon DEF JobDue
<1>3. job[j] \in JobRow /\ job'[j] = [job[j] EXCEPT !.next = "due"] /\ \A k \in Job : k # j => job'[k] = job[k]
  BY Zenon, <1>1, <1>2
<1>4. job'[j] \in JobRow /\ job'[j].state = job[j].state /\ job'[j].revision = job[j].revision /\ job'[j].next = "due"
  BY Zenon, <1>3 DEF JobRow
<1>5. job' \in [Job -> JobRow]
  BY Zenon, <1>1, <1>2, <1>3, <1>4
<1>6. ASSUME NEW k \in Job PROVE JobStep(k) /\ ~(job'[k].revision > job[k].revision)
  <2>1. job[k] \in JobRow /\ job[k].revision \in Nat
    BY Zenon, <1>1 DEF JobRow
  <2>2. CASE k = j
    BY <1>2, <1>4, <2>1, <2>2 DEF JobStep, Waiting
  <2>3. CASE k # j
    BY <1>3, <2>1, <2>3 DEF JobStep, Waiting
  <2> QED
    BY Zenon, <2>2, <2>3
<1>7. Types'
  BY Zenon, <1>2, <1>5 DEF DInv, Types
<1> QED
  BY Zenon, <1>2, <1>6, <1>7, SameHints, StepKeeps

(* A hint that becomes due keeps the invariant.                            *)
LEMMA HintDueKeeps ==
  ASSUME DInv, NEW g \in Id, HintDue(g)
  PROVE  DInv'
<1>1. /\ hint \in Seq(Hint) /\ sends \in Seq(Nat) /\ Len(hint) \in Nat /\ Len(sends) = Len(hint) /\ pub \in [Publisher -> Pub]
      /\ worker \in [Worker -> Work] /\ \A v \in Worker : worker[v].pc = "executing" => worker[v].job \in Job
  BY DEF DInv, Types
<1>2. job' = job /\ sends' = sends /\ pub' = pub /\ worker' = worker /\ hint' = [hint EXCEPT ![g].due = TRUE]
  BY Zenon DEF HintDue
<1>3. \A h \in Id : hint[h] \in Hint /\ sends[h] \in Nat /\ h \in 1 .. Len(hint)
  BY <1>1 DEF Id
<1>4. [hint[g] EXCEPT !.due = TRUE] \in Hint
  BY Zenon, <1>3 DEF Hint
<1>5. hint' = [hint EXCEPT ![g] = [hint[g] EXCEPT !.due = TRUE]]
  BY Zenon, <1>2
<1>6. hint' \in Seq(Hint) /\ Len(hint') = Len(hint)
      /\ \A h \in Id : hint'[h] = IF h = g THEN [hint[h] EXCEPT !.due = TRUE] ELSE hint[h]
  <2> DEFINE e == [hint[g] EXCEPT !.due = TRUE]
  <2>1. e \in Hint /\ hint' = [hint EXCEPT ![g] = e] /\ g \in 1 .. Len(hint)
    BY Zenon, <1>3, <1>4, <1>5
  <2> HIDE DEF e
  <2>2. hint' \in Seq(Hint) /\ Len(hint') = Len(hint) /\ \A h \in 1 .. Len(hint) : hint'[h] = IF h = g THEN e ELSE hint[h]
    BY <1>1, <2>1, ReplaceRow
  <2> QED
    BY Zenon, <2>2 DEF e, Id
<1>7. ASSUME NEW h \in Id PROVE HintStep(h)
  <2>1. hint[h] \in Hint /\ sends[h] \in Nat /\ sends'[h] = sends[h]
    BY Zenon, <1>2, <1>3
  <2>2. hint'[h].job = hint[h].job /\ hint'[h].revision = hint[h].revision /\ hint'[h].status = hint[h].status
    BY Zenon, <1>6, <2>1 DEF Hint
  <2> QED
    BY <2>1, <2>2 DEF HintStep
<1> QED
  BY Zenon, <1>1, <1>2, <1>6, <1>7, QuietKeeps

-----------------------------------------------------------------------------
(* Every step keeps the invariant.                                         *)
LEMMA NextKeeps == Ordered /\ DInv /\ [DispatchNext]_dispatchVars => DInv'
<1> SUFFICES ASSUME Ordered, DInv, [DispatchNext]_dispatchVars PROVE DInv'
  OBVIOUS
<1>0. worker \in [Worker -> Work] /\ \A v \in Worker : worker[v].pc = "executing" => worker[v].job \in Job
  BY Zenon DEF DInv, Types
<1>1. ASSUME NEW p \in Publisher, Dispatch(p) \/ CrashPublisher(p) PROVE DInv'
  BY Zenon, <1>1, PendingDispatchKeeps, SendKeeps, CommitDispatchKeeps, CrashPublisherKeeps DEF Dispatch
<1>2. ASSUME NEW w \in Worker, MaintainDispatch(w) \/ Finish(w) \/ Acknowledge(w) \/ CrashWorker(w) PROVE DInv'
  BY Zenon, <1>2, MaintainDispatchKeeps, FinishKeeps, AcknowledgeKeeps, CrashWorkerKeeps
<1>3. ASSUME NEW w \in Worker, NEW j \in Job, NEW m \in BOOLEAN, Claim(w, j, m) PROVE DInv'
  BY Zenon, <1>3, ClaimKeeps
<1>4. ASSUME NEW w \in Worker, NEW j \in Job, Discard(w, j) PROVE DInv'
  BY Zenon, <1>0, <1>4, QueueKeeps DEF Discard
<1>5. ASSUME NEW j \in Job, DropMessage(j) PROVE DInv'
  BY Zenon, <1>0, <1>5, QueueKeeps DEF DropMessage
<1>6. ASSUME NEW j \in Job, JobDue(j) PROVE DInv'
  BY Zenon, <1>6, JobDueKeeps
<1>7. ASSUME NEW h \in Id, HintDue(h) PROVE DInv'
  BY Zenon, <1>7, HintDueKeeps
<1>8. ASSUME UNCHANGED dispatchVars PROVE DInv'
  BY Zenon, <1>0, <1>8, QueueKeeps DEF dispatchVars
<1> QED
  BY Zenon, <1>1, <1>2, <1>3, <1>4, <1>5, <1>6, <1>7, <1>8 DEF DispatchNext

(* Jobs enqueued together get a hint each, in any order.                   *)
LEMMA EveryJobInSequence ==
  ASSUME Cardinality(Job) \in Nat, NEW ids \in Bijection(1 .. Cardinality(Job), Job)
  PROVE  /\ DOMAIN ids = 1 .. Cardinality(Job)
         /\ \A h \in DOMAIN ids : ids[h] \in Job
         /\ \A j \in Job : \E h \in DOMAIN ids : ids[h] = j
BY Zenon DEF Bijection, Injection, Surjection

(* The first state satisfies the invariant: every job has its first hint.  *)
LEMMA InitDInv ==
  ASSUME Cardinality(Job) \in Nat, DispatchInit
  PROVE  DInv
<1> DEFINE n == Cardinality(Job)
<1>1. PICK ids \in Bijection(1 .. n, Job) :
        /\ hint = [h \in DOMAIN ids |-> [job |-> ids[h], revision |-> 1, due |-> TRUE, status |-> "live"]]
        /\ sends = [h \in DOMAIN ids |-> 0]
  BY Zenon DEF DispatchInit
<1>2. /\ DOMAIN ids = 1 .. n /\ n \in Nat /\ \A h \in 1 .. n : ids[h] \in Job
      /\ \A j \in Job : \E h \in 1 .. n : ids[h] = j
  BY Zenon, EveryJobInSequence
<1> HIDE DEF n
<1>3. DOMAIN ids = 1 .. n /\ n \in Nat /\ \A h \in 1 .. n : ids[h] \in Job
  BY Zenon, <1>2
<1>4. \A h \in 1 .. n : hint[h] = [job |-> ids[h], revision |-> 1, due |-> TRUE, status |-> "live"] /\ sends[h] = 0
  BY Zenon, <1>1, <1>3
<1>5. ASSUME NEW h \in 1 .. n
      PROVE  /\ hint[h] \in Hint /\ sends[h] \in Nat
             /\ hint[h].job = ids[h] /\ hint[h].revision = 1 /\ hint[h].status = "live"
  <2>1. hint[h] = [job |-> ids[h], revision |-> 1, due |-> TRUE, status |-> "live"] /\ sends[h] = 0 /\ ids[h] \in Job
    BY Zenon, <1>3, <1>4
  <2> QED
    BY <2>1 DEF Hint
<1>6. hint \in Seq(Hint) /\ Len(hint) = n
  <2>1. hint = [h \in 1 .. n |-> hint[h]]
    BY Zenon, <1>1, <1>3
  <2> QED
    BY Zenon, <1>3, <1>5, <2>1, RowsOf
<1>7. sends \in Seq(Nat) /\ Len(sends) = n
  <2>1. sends = [h \in 1 .. n |-> sends[h]]
    BY Zenon, <1>1, <1>3
  <2> QED
    BY Zenon, <1>3, <1>5, <2>1, RowsOf
<1>8. job = [j \in Job |-> [state |-> "pending", next |-> "null", revision |-> 1]]
  BY Zenon DEF DispatchInit
<1>9. job \in [Job -> JobRow] /\ \A j \in Job : job[j].revision = 1
  BY Zenon, <1>8 DEF JobRow
<1>10. pub \in [Publisher -> Pub] /\ \A p \in Publisher : PublisherSound(p)
  BY Zenon DEF DispatchInit, Outside, Pub, PublisherSound
<1>11. worker \in [Worker -> Work] /\ \A w \in Worker : worker[w].pc = "idle"
  BY Zenon DEF DispatchInit, Work
<1>12. Types
  BY Zenon, <1>6, <1>7, <1>9, <1>10, <1>11 DEF Types
<1>13. \A h \in Id : HintSound(h)
  BY <1>3, <1>5, <1>6, <1>9 DEF HintSound, Id
<1>14. ASSUME NEW j \in Job PROVE Hinted(j)
  <2>1. PICK h \in 1 .. n : ids[h] = j
    BY Zenon, <1>2
  <2>2. h \in Id /\ hint[h].job = j /\ hint[h].revision = 1
    BY Zenon, <1>5, <1>6, <2>1 DEF Id
  <2> QED
    BY Zenon, <1>9, <2>2 DEF Hinted
<1> QED
  BY Zenon, <1>10, <1>12, <1>13, <1>14 DEF DInv

(* The hint of the revision of a waiting job is current, so it is not      *)
(* superseded, and it is pruned only once it was sent.                     *)
LEMMA InvariantSuffices ==
  ASSUME DInv
  PROVE  CurrentHintKept
<1> SUFFICES ASSUME NEW j \in Job, Waiting(j)
             PROVE  \E h \in Id : /\ hint[h].job = j /\ hint[h].revision = job[j].revision
                                  /\ \/ hint[h].status \in {"live", "delivered"}
                                     \/ hint[h].status = "pruned" /\ sends[h] > 0
  BY Zenon DEF CurrentHintKept
<1>1. PICK h \in Id : hint[h].job = j /\ hint[h].revision = job[j].revision
  BY Zenon DEF DInv, Hinted
<1>2. hint[h] \in Hint /\ HintSound(h)
  BY DEF DInv, Types, Id
<1>3. CurrentHint(h)
  BY Zenon, <1>1 DEF CurrentHint
<1>4. hint[h].status \in {"live", "delivered", "superseded", "pruned"}
  BY Zenon, <1>2 DEF Hint
<1> QED
  BY Zenon, <1>1, <1>2, <1>3, <1>4 DEF HintSound

(* With numbers ordered and jobs counted, the invariant holds throughout.  *)
LEMMA HintAlways == Ordered /\ Cardinality(Job) \in Nat => (DispatchSpec => []CurrentHintKept)
<1> SUFFICES ASSUME Ordered, Cardinality(Job) \in Nat PROVE DispatchSpec => []CurrentHintKept
  OBVIOUS
<1>1. DispatchInit => DInv
  BY Zenon, InitDInv
<1>2. DInv /\ [DispatchNext]_dispatchVars => DInv'
  BY Zenon, NextKeeps
<1>3. DInv => CurrentHintKept
  BY Zenon, InvariantSuffices
<1> QED
  BY <1>1, <1>2, <1>3, PTL DEF DispatchSpec

-----------------------------------------------------------------------------
(* Finite sets and the order of the numbers, needed from here on only.     *)

INSTANCE FiniteSetTheorems
INSTANCE WellFoundedInduction

(* A set of natural numbers has a smallest member.                         *)
LEMMA SmallestNat ==
  ASSUME NEW T \in SUBSET Nat, T # {}
  PROVE  \E x \in T : \A y \in T : x <= y
<1> DEFINE R == {ss \in Nat \X Nat : ss[1] < ss[2]}
<1>0. IsWellFoundedOn(R, Nat)
  BY Zenon, NatLessThanWellFounded DEF OpToRel
<1> HIDE DEF R
<1>1. PICK x \in T : \A y \in T : <<y, x>> \notin R
  BY Zenon, <1>0, WFMin
<1>2. \A y \in T : ~(y < x)
  BY Zenon, <1>1 DEF R
<1> QED BY <1>2

(* A job that waits for a worker always has a hint of its revision that    *)
(* was sent or is still to be sent, whatever the dispatchers, workers,     *)
(* maintenance passes, crashes and failed sends do, for any number of      *)
(* them: the triggers and dispatch.py never lose the hint that counts.     *)
THEOREM HintNeverLost == DispatchSpec => []CurrentHintKept
<1>1. Ordered
  BY Zenon, SmallestNat DEF Ordered
<1>2. Cardinality(Job) \in Nat
  BY Zenon, FS_CardinalityType, DispatchAssumption
<1> QED
  BY <1>1, <1>2, HintAlways, PTL

==============================================================================
