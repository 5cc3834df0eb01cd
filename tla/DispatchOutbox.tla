---------------------------- MODULE DispatchOutbox ----------------------------
(***************************************************************************)
(* Queue hints for durable jobs: the trigger that writes dispatch_outbox   *)
(* with every job revision (0015_dispatch_retention.sql), the dispatcher   *)
(* that sends one hint per transaction to SQS (jobs/dispatch.py,           *)
(* storage/execution.py), the consumer that executes and deletes messages, *)
(* and the housekeeping that retires and prunes hints.  The queue delivers *)
(* at least once, in any order, and may drop a message.                    *)
(*                                                                         *)
(* Hints are kept in the order of their ids, which stands for the order    *)
(* (available_at, id); a time is only due or not.                          *)
(***************************************************************************)
EXTENDS Naturals, Sequences, FiniteSets, Functions

CONSTANTS
  Job, Publisher, Worker,
  Limit,         \* DispatchMaintenance.batch_size
  Retried,       \* bound: the jobs whose execution may end in another state than done
  MaxRevision,   \* bound: ... and that end with this (odd) revision at the latest
  MaxCrashes,    \* bound: crashes of publishers and workers in one behaviour
  MaxMessages,   \* bound: copies of a message beyond this number are not told apart
  MaxFailures,   \* bound: failed sends in one behaviour
  None

(* The jobs are the rows of a table.                                       *)
ASSUME DispatchAssumption == IsFiniteSet(Job)

VARIABLES
  job,       \* discovery_jobs: state, next_attempt_at, revision
  hint,      \* dispatch_outbox, in the order of id
  pub,       \* the dispatchers: transaction and cursor
  worker,    \* the workers: what they execute, and their maintenance cursor
  queue,     \* Job -> how many messages SQS holds
  sends,     \* how often each hint was sent
  crashes, failures

dispatchVars == <<job, hint, pub, worker, queue, sends, crashes, failures>>

Id == 1 .. Len(hint)

(* Types, and UNIQUE(job_id, job_revision) of dispatch_outbox.             *)
DispatchTypes ==
  /\ job \in [Job -> [state : {"pending", "in_progress", "blocked", "done"},
                      next : {"null", "later", "due"}, revision : 1 .. MaxRevision]]
  /\ hint \in Seq([job : Job, revision : 1 .. MaxRevision, due : BOOLEAN,
                   status : {"live", "delivered", "superseded", "pruned"}])
  /\ \A g, h \in Id : hint[g].job = hint[h].job /\ hint[g].revision = hint[h].revision => g = h
  /\ pub \in [Publisher -> [pc : {"idle", "sending", "sent", "failed"}, rows : SUBSET Nat,
                            gone : SUBSET Nat, row : Nat, after : Nat]]
  /\ worker \in [Worker -> [pc : {"idle", "executing", "acking"}, job : Job \cup {None},
                            message : BOOLEAN, after : Nat]]
  /\ queue \in [Job -> 0 .. MaxMessages]
  /\ sends \in [DOMAIN hint -> Nat]
  /\ crashes \in 0 .. MaxCrashes /\ failures \in 0 .. MaxFailures

-----------------------------------------------------------------------------
Locked == UNION {pub[p].rows : p \in Publisher}
Live   == {h \in Id : hint[h].status = "live"}

(* Mutant of Waiting: a retry that is not due yet is not waiting.          *)
WaitingDue(j) == job[j].state = "pending" \/ (job[j].state = "blocked" /\ job[j].next = "due")

(* A job some worker may still claim: pending, or blocked with a retry.    *)
Waiting(j) == job[j].state = "pending" \/ (job[j].state = "blocked" /\ job[j].next # "null")

(* _current_dispatch: the hint is of the job's revision, and it waits.     *)
CurrentHint(h) == hint[h].revision = job[hint[h].job].revision /\ Waiting(hint[h].job)

Retire(H) == [h \in Id |-> IF h \in H THEN [hint[h] EXCEPT !.status = "superseded"] ELSE hint[h]]

Claimable(j) == job[j].state \in {"pending", "blocked"} /\ job[j].next \in {"null", "due"}
                  /\ (job[j].state = "blocked" => job[j].next = "due")

(* A transition of a job and the triggers set_job_revision and             *)
(* record_dispatch_event: the hint of the old revision is superseded       *)
(* unless a publisher has it locked, and a waiting job gets a new one.     *)
Move(j, state, next) ==
  LET r   == job[j].revision + 1
      old == {h \in Live \ Locked : hint[h].job = j /\ hint[h].revision = job[j].revision}
      new == [job |-> j, revision |-> r, due |-> next # "later", status |-> "live"]
      waits == state = "pending" \/ (state = "blocked" /\ next # "null")
  IN
  /\ job[j].revision < MaxRevision
  /\ job' = [job EXCEPT ![j] = [state |-> state, next |-> next, revision |-> r]]
  /\ hint' = IF waits THEN Append(Retire(old), new) ELSE Retire(old)
  /\ sends' = IF waits THEN Append(sends, 0) ELSE sends

-----------------------------------------------------------------------------
(* The first Limit hints of a set, in order.                               *)
Batch(H) == {h \in H : Cardinality({g \in H : g < h}) < Limit}

Newest(H) == CHOOSE h \in H : \A g \in H : g <= h
Oldest(H) == CHOOSE h \in H : \A g \in H : h <= g

(* FOR UPDATE SKIP LOCKED.                                                 *)
Lockable(H) == H \ Locked

(* Mutant of NextCursor: an empty window does not wrap the cursor.         *)
NextCursorEnd(W) == IF W = {} THEN Len(hint) ELSE Newest(W)

(* publish_one: where the next window starts when this one sent nothing.   *)
NextCursor(W) == IF W = {} THEN 0 ELSE Newest(W)

Outside == [pc |-> "idle", rows |-> {}, gone |-> {}, row |-> 0, after |-> 0]

(* publish_one with pending_dispatch: a window of due hints, its unlocked  *)
(* rows locked, the obsolete ones retired, the oldest current one chosen.  *)
PendingDispatch(p) ==
  LET W    == Batch({h \in Live : hint[h].due /\ h > pub[p].after})
      rows == Lockable(W)
      good == {h \in rows : CurrentHint(h) /\ job[hint[h].job].next # "later"}
  IN
  /\ pub[p].pc = "idle"
  /\ IF good = {}
       THEN /\ hint' = Retire({h \in rows : ~CurrentHint(h)})
            /\ pub' = [pub EXCEPT ![p].after = NextCursor(W)]
       ELSE /\ pub' = [pub EXCEPT ![p] = [pc |-> "sending", rows |-> rows, row |-> Oldest(good),
                                          gone |-> {h \in rows : ~CurrentHint(h)}, after |-> 0]]
            /\ UNCHANGED hint
  /\ UNCHANGED <<job, worker, queue, sends, crashes, failures>>

(* send_message returns, or raises.                                        *)
Send(p) ==
  LET h == pub[p].row
  IN
  /\ pub[p].pc = "sending"
  /\ \/ /\ queue' = [queue EXCEPT ![hint[h].job] = IF @ < MaxMessages THEN @ + 1 ELSE @]
        /\ sends' = [sends EXCEPT ![h] = @ + 1]
        /\ pub' = [pub EXCEPT ![p].pc = "sent"]
        /\ UNCHANGED failures
     \/ /\ failures < MaxFailures
        /\ failures' = failures + 1
        /\ pub' = [pub EXCEPT ![p].pc = "failed"]
        /\ UNCHANGED <<queue, sends>>
  /\ UNCHANGED <<job, hint, worker, crashes>>

(* delivered_dispatch or failed_dispatch, and the commit, which retires    *)
(* the obsolete rows of the window as well.                                *)
CommitDispatch(p) ==
  LET h == pub[p].row
  IN
  /\ pub[p].pc \in {"sent", "failed"}
  /\ hint' = [Retire(pub[p].gone) EXCEPT ![h] = IF pub[p].pc = "sent"
                                                  THEN [hint[h] EXCEPT !.status = "delivered"]
                                                  ELSE [hint[h] EXCEPT !.due = FALSE]]
  /\ pub' = [pub EXCEPT ![p] = Outside]
  /\ UNCHANGED <<job, worker, queue, sends, crashes, failures>>

(* A dispatcher dies: its transaction rolls back, a message may be out.    *)
CrashPublisher(p) ==
  /\ pub[p].pc # "idle" /\ crashes < MaxCrashes
  /\ crashes' = crashes + 1
  /\ pub' = [pub EXCEPT ![p] = Outside]
  /\ UNCHANGED <<job, hint, worker, queue, sends, failures>>

-----------------------------------------------------------------------------
MaintainFrom(w) == worker[w].after

Retired == {h \in Id : hint[h].status \in {"delivered", "superseded"}}

(* maintain_dispatch, called by workers and dispatchers: a window of live  *)
(* hints is reconciled, and the oldest history may be past its retention.  *)
(* The cursor wraps when the window is empty.                              *)
MaintainDispatch(w) ==
  LET rows == Batch({h \in Live \ Locked : h > MaintainFrom(w)})
  IN
  /\ worker[w].pc = "idle"
  /\ \E old \in {{}, Batch(Retired)} :
       hint' = [h \in Id |-> IF h \in old THEN [hint[h] EXCEPT !.status = "pruned"]
                             ELSE Retire({g \in rows : ~CurrentHint(g)})[h]]
  /\ worker' = [worker EXCEPT ![w].after = IF rows = {} THEN 0 ELSE Newest(rows)]
  /\ UNCHANGED <<job, pub, queue, sends, crashes, failures>>

(* A worker claims a job by polling, or because it received its message.   *)
Claim(w, j, message) ==
  /\ worker[w].pc = "idle"
  /\ message => queue[j] > 0
  /\ Claimable(j)
  /\ Move(j, "in_progress", "null")
  /\ worker' = [worker EXCEPT ![w].pc = "executing", ![w].job = j, ![w].message = message]
  /\ UNCHANGED <<pub, queue, crashes, failures>>

CanContinue(j) == j \in Retried /\ job[j].revision + 2 < MaxRevision

(* finish_attempt: done, waiting for a retry, waiting for its operator, or *)
(* a continuation.                                                         *)
Finish(w) ==
  /\ worker[w].pc = "executing"
  /\ \E o \in {<<"done", "null">>, <<"blocked", "later">>, <<"blocked", "null">>, <<"pending", "null">>} :
       /\ CanContinue(worker[w].job) \/ o[1] = "done"
       /\ Move(worker[w].job, o[1], o[2])
  /\ worker' = IF worker[w].message THEN [worker EXCEPT ![w].pc = "acking"]
               ELSE [worker EXCEPT ![w].pc = "idle", ![w].job = None]
  /\ UNCHANGED <<pub, queue, crashes, failures>>

(* SqsConsumer.run_once after an execution deletes the message.            *)
Acknowledge(w) ==
  LET j == worker[w].job
  IN
  /\ worker[w].pc = "acking"
  /\ queue' = [queue EXCEPT ![j] = IF @ > 0 THEN @ - 1 ELSE 0]
  /\ worker' = [worker EXCEPT ![w].pc = "idle", ![w].job = None, ![w].message = FALSE]
  /\ UNCHANGED <<job, hint, pub, sends, crashes, failures>>

(* A message whose job cannot be claimed is deleted when the job is        *)
(* finished or in progress, and left for a later receive otherwise.        *)
Discard(w, j) ==
  /\ worker[w].pc = "idle" /\ queue[j] > 0
  /\ job[j].state \in {"done", "in_progress"}
  /\ queue' = [queue EXCEPT ![j] = @ - 1]
  /\ UNCHANGED <<job, hint, pub, worker, sends, crashes, failures>>

(* A worker dies while it executes, and recovery makes the job pending.    *)
CrashWorker(w) ==
  /\ worker[w].pc = "executing" /\ crashes < MaxCrashes
  /\ CanContinue(worker[w].job)
  /\ Move(worker[w].job, "pending", "null")
  /\ crashes' = crashes + 1
  /\ worker' = [worker EXCEPT ![w] = [pc |-> "idle", job |-> None, message |-> FALSE, after |-> 0]]
  /\ UNCHANGED <<pub, queue, failures>>

(* The queue drops a message (retention, dead-letter queue).               *)
DropMessage(j) ==
  /\ queue[j] > 0
  /\ queue' = [queue EXCEPT ![j] = @ - 1]
  /\ UNCHANGED <<job, hint, pub, worker, sends, crashes, failures>>

(* Time passes: a retry, and a hint, become due.                           *)
JobDue(j) ==
  /\ job[j].next = "later"
  /\ job' = [job EXCEPT ![j].next = "due"]
  /\ UNCHANGED <<hint, pub, worker, queue, sends, crashes, failures>>

HintDue(h) ==
  /\ ~hint[h].due
  /\ hint' = [hint EXCEPT ![h].due = TRUE]
  /\ UNCHANGED <<job, pub, worker, queue, sends, crashes, failures>>

-----------------------------------------------------------------------------
DispatchInit ==
  /\ job = [j \in Job |-> [state |-> "pending", next |-> "null", revision |-> 1]]
  /\ \E ids \in Bijection(1 .. Cardinality(Job), Job) :
       /\ hint = [h \in DOMAIN ids |-> [job |-> ids[h], revision |-> 1, due |-> TRUE, status |-> "live"]]
       /\ sends = [h \in DOMAIN ids |-> 0]
  /\ pub = [p \in Publisher |-> Outside]
  /\ worker = [w \in Worker |-> [pc |-> "idle", job |-> None, message |-> FALSE, after |-> 0]]
  /\ queue = [j \in Job |-> 0]
  /\ crashes = 0 /\ failures = 0

Dispatch(p) == PendingDispatch(p) \/ Send(p) \/ CommitDispatch(p)

DispatchNext ==
  \/ \E p \in Publisher : Dispatch(p) \/ CrashPublisher(p)
  \/ \E w \in Worker : \/ MaintainDispatch(w) \/ Finish(w) \/ Acknowledge(w) \/ CrashWorker(w)
                       \/ \E j \in Job : Discard(w, j) \/ \E m \in BOOLEAN : Claim(w, j, m)
  \/ \E j \in Job : DropMessage(j) \/ JobDue(j)
  \/ \E h \in Id : HintDue(h)

DispatchSpec == DispatchInit /\ [][DispatchNext]_dispatchVars

-----------------------------------------------------------------------------
(* A job that waits for a worker always has a hint of its revision that    *)
(* was sent or still will be: no transition, retry, crash, publisher or    *)
(* maintenance pass retires the hint that is current.                      *)
CurrentHintKept ==
  \A j \in Job : Waiting(j) =>
    \E h \in Id : hint[h].job = j /\ hint[h].revision = job[j].revision
                    /\ (hint[h].status \in {"live", "delivered"} \/ (hint[h].status = "pruned" /\ sends[h] > 0))

(* A waiting job does not wait for ever without its hint having been       *)
(* published, even behind windows of locked, obsolete or delayed hints.    *)
HintOut(j) ==
  Waiting(j) => \E h \in Id : /\ hint[h].job = j /\ hint[h].revision = job[j].revision
                              /\ hint[h].status \in {"delivered", "pruned"}

===============================================================================
