------------------------------ MODULE EventOutbox ------------------------------
(***************************************************************************)
(* Event notifications: the triggers that number the revisions of jobs and *)
(* runs and write event_outbox (0004_events.sql, 0019), the publisher that *)
(* posts the oldest pending event to the hub outside a transaction while   *)
(* its session holds the lock "events" (events/publisher.py,               *)
(* storage/events.py), and the two ways events are removed.                *)
(*                                                                         *)
(* An event is its id.  Ids are allocated when a row is inserted, so that  *)
(* transactions may commit their events in another order than their ids.   *)
(***************************************************************************)
EXTENDS Naturals, Sequences, FiniteSets, Functions

CONSTANTS
  Resource,      \* jobs and runs
  Writer,        \* connections that update them
  Silent,        \* ... those with events disabled
  Publisher,
  BatchLimit,    \* publish_pending's limit
  MaxRevision,   \* bound: revisions of a resource
  MaxLosses,     \* bound: sessions lost in one behaviour
  MaxFailures,   \* bound: failed posts in one behaviour
  MaxDiscards,   \* bound: maintenance commands in one behaviour
  None

ASSUME ConstantsAssumption ==
  None \notin Resource /\ None \notin Publisher /\ BatchLimit \in Nat

VARIABLES
  revision,  \* Resource -> the committed revision
  writer,    \* Writer -> the open transaction: its resource and its event, if any
  event,     \* event_outbox in the order of id, rows of open transactions included
  owner,     \* the session lock "events"
  pub,       \* Publisher -> where its loop is
  late,      \* events whose post outlived the publisher's session
  hub,       \* the events the hub accepted, in the order of first acceptance
  losses, failures, discards

vars == <<revision, writer, event, owner, pub, late, hub, losses, failures, discards>>

Id == 1 .. Len(event)

(* Types, and UNIQUE (event_type, resource_id, revision).                  *)
TypeOK ==
  /\ revision \in [Resource -> 0 .. MaxRevision]
  /\ writer \in [Writer -> [resource : Resource \cup {None}, event : Nat]]
  /\ event \in Seq([resource : Resource, revision : 1 .. MaxRevision, due : BOOLEAN,
                    status : {"open", "aborted", "pending", "delivered", "pruned", "discarded"}])
  /\ \A d, e \in {i \in Id : event[i].status # "aborted"} :
       event[d].resource = event[e].resource /\ event[d].revision = event[e].revision => d = e
  /\ owner \in Publisher \cup {None}
  /\ pub \in [Publisher -> [pc : {"out", "next", "posting", "accepted", "failed", "prune"},
                            event : Nat, left : 0 .. BatchLimit]]
  /\ late \subseteq Id /\ hub \in Seq(Id)
  /\ losses \in 0 .. MaxLosses /\ failures \in 0 .. MaxFailures /\ discards \in 0 .. MaxDiscards

-----------------------------------------------------------------------------
In(status) == {e \in Id : event[e].status = status}
Set(E, status) == [e \in Id |-> IF e \in E THEN [event[e] EXCEPT !.status = status] ELSE event[e]]
Accept(e) == IF e \in Range(hub) THEN hub ELSE Append(hub, e)

Closed == [resource |-> None, event |-> 0]
Outside == [pc |-> "out", event |-> 0, left |-> 0]

(* The updated row is locked until its transaction ends.                   *)
RowFree(r) == \A w \in Writer : writer[w].resource # r

(* An insert or update of a job or run: set_*_revision, record_*_event and *)
(* guard_event_delivery, all in the caller's transaction.                  *)
Write(w, r) ==
  LET new == [resource |-> r, revision |-> revision[r] + 1, due |-> TRUE, status |-> "open"]
  IN
  /\ writer[w].resource = None /\ RowFree(r)
  /\ revision[r] < MaxRevision /\ Len(event) < MaxRevision * Cardinality(Resource)
  /\ event' = IF w \in Silent THEN event ELSE Append(event, new)
  /\ writer' = [writer EXCEPT ![w] = [resource |-> r, event |-> IF w \in Silent THEN 0 ELSE Len(event) + 1]]
  /\ UNCHANGED <<revision, owner, pub, late, hub, losses, failures, discards>>

Commit(w) ==
  /\ writer[w].resource # None
  /\ revision' = [revision EXCEPT ![writer[w].resource] = @ + 1]
  /\ event' = Set({writer[w].event}, "pending")
  /\ writer' = [writer EXCEPT ![w] = Closed]
  /\ UNCHANGED <<owner, pub, late, hub, losses, failures, discards>>

Rollback(w) ==
  /\ writer[w].resource # None
  /\ event' = Set({writer[w].event}, "aborted")
  /\ writer' = [writer EXCEPT ![w] = Closed]
  /\ UNCHANGED <<revision, owner, pub, late, hub, losses, failures, discards>>

-----------------------------------------------------------------------------
(* executor_lock(purpose="events"): a publisher process starts.            *)
Acquire(p) ==
  /\ pub[p].pc = "out" /\ owner = None
  /\ owner' = p
  /\ pub' = [pub EXCEPT ![p] = [pc |-> "next", event |-> 0, left |-> BatchLimit]]
  /\ UNCHANGED <<revision, writer, event, late, hub, losses, failures, discards>>

(* Mutant of HeadPending: delayed events are skipped.                      *)
HeadDue == {e \in In("pending") : event[e].due /\ \A d \in In("pending") : event[d].due => e <= d}

(* next_pending_event: the oldest pending event, delayed or not.           *)
HeadPending == {e \in In("pending") : \A d \in In("pending") : e <= d}

(* publish_pending up to the post.  The batch ends at its limit, without   *)
(* an event, and at a delayed one.                                         *)
ReadNext(p) ==
  /\ pub[p].pc = "next"
  /\ IF pub[p].left > 0 /\ \E e \in HeadPending : event[e].due
       THEN pub' = [pub EXCEPT ![p].pc = "posting", ![p].event = CHOOSE e \in HeadPending : TRUE]
       ELSE pub' = [pub EXCEPT ![p].pc = "prune", ![p].event = 0]
  /\ UNCHANGED <<revision, writer, event, owner, late, hub, losses, failures, discards>>

(* MercurePublisher.publish: accepted, or refused, or the answer is lost   *)
(* after the hub accepted the event.                                       *)
Post(p) ==
  /\ pub[p].pc = "posting"
  /\ \/ /\ hub' = Accept(pub[p].event)
        /\ pub' = [pub EXCEPT ![p].pc = "accepted"]
        /\ UNCHANGED failures
     \/ /\ failures < MaxFailures
        /\ failures' = failures + 1
        /\ hub' \in {hub, Accept(pub[p].event)}
        /\ pub' = [pub EXCEPT ![p].pc = "failed"]
  /\ UNCHANGED <<revision, writer, event, owner, late, losses, discards>>

Acknowledged(p) == pub[p].pc = "accepted"

(* acknowledge_event, or defer_event with its backoff, which ends the      *)
(* batch; both leave an event alone that is delivered already.             *)
Settle(p) ==
  LET e == pub[p].event
  IN
  /\ pub[p].pc \in {"accepted", "failed"}
  /\ IF Acknowledged(p)
       THEN /\ event' = Set({e} \cap In("pending"), "delivered")
            /\ pub' = [pub EXCEPT ![p].pc = "next", ![p].event = 0, ![p].left = @ - 1]
       ELSE /\ event' = [event EXCEPT ![e].due = FALSE]
            /\ pub' = [pub EXCEPT ![p].pc = "prune", ![p].event = 0]
  /\ UNCHANGED <<revision, writer, owner, late, hub, losses, failures, discards>>

(* prune_events after the batch: delivered events past their retention go. *)
Prune(p) ==
  /\ pub[p].pc = "prune"
  /\ \E old \in SUBSET In("delivered") : event' = Set(old, "pruned")
  /\ pub' = [pub EXCEPT ![p].pc = "next", ![p].left = BatchLimit]
  /\ UNCHANGED <<revision, writer, owner, late, hub, losses, failures, discards>>

(* Mutant of SessionLost: the lock stays with the dead session.            *)
SessionLostHeld(p) ==
  /\ owner = p /\ losses < MaxLosses
  /\ losses' = losses + 1
  /\ pub' = [pub EXCEPT ![p] = Outside]
  /\ UNCHANGED <<revision, writer, event, owner, late, hub, failures, discards>>

(* The session of the owner dies.  PostgreSQL releases the lock at once;   *)
(* a post under way continues, and its process then fails lease.require.   *)
SessionLost(p) ==
  /\ owner = p /\ losses < MaxLosses
  /\ losses' = losses + 1
  /\ owner' = None
  /\ pub' = [pub EXCEPT ![p] = Outside]
  /\ late' = IF pub[p].pc = "posting" THEN late \cup {pub[p].event} ELSE late
  /\ UNCHANGED <<revision, writer, event, hub, failures, discards>>

(* A post that outlived its session reaches the hub, or does not.          *)
LatePost(e) ==
  /\ e \in late
  /\ late' = late \ {e}
  /\ hub' \in {hub, Accept(e)}
  /\ UNCHANGED <<revision, writer, event, owner, pub, losses, failures, discards>>

(* The pending events a discard takes.                                     *)
DiscardedBefore(c) == {e \in In("pending") : e < c}

(* events.maintenance: an operator removes delivered events and, on        *)
(* request, the pending ones that occurred before a cutoff.                *)
Maintain ==
  /\ owner = None /\ discards < MaxDiscards
  /\ discards' = discards + 1
  /\ \E old \in SUBSET In("delivered"), c \in 1 .. Len(event) + 1 :
       event' = [e \in Id |-> IF e \in DiscardedBefore(c) THEN [event[e] EXCEPT !.status = "discarded"]
                              ELSE Set(old, "pruned")[e]]
  /\ UNCHANGED <<revision, writer, owner, pub, late, hub, losses, failures>>

(* Time passes: the backoff of a deferred event is over.                   *)
Due(e) ==
  /\ ~event[e].due
  /\ event' = [event EXCEPT ![e].due = TRUE]
  /\ UNCHANGED <<revision, writer, owner, pub, late, hub, losses, failures, discards>>

-----------------------------------------------------------------------------
Init ==
  /\ revision = [r \in Resource |-> 0]
  /\ writer = [w \in Writer |-> Closed]
  /\ event = <<>> /\ hub = <<>> /\ late = {}
  /\ owner = None
  /\ pub = [p \in Publisher |-> Outside]
  /\ losses = 0 /\ failures = 0 /\ discards = 0

Publish(p) == Acquire(p) \/ ReadNext(p) \/ Post(p) \/ Settle(p) \/ Prune(p)

Next ==
  \/ \E w \in Writer : Commit(w) \/ Rollback(w) \/ \E r \in Resource : Write(w, r)
  \/ \E p \in Publisher : Publish(p) \/ SessionLost(p)
  \/ \E e \in Id : LatePost(e) \/ Due(e)
  \/ Maintain

Spec == Init /\ [][Next]_vars

-----------------------------------------------------------------------------
Before(d, e) == \E i, k \in DOMAIN hub : hub[i] = d /\ hub[k] = e /\ i < k

(* The hub first hears of a resource's revisions in their order, whatever  *)
(* sessions are lost, posts fail, transactions roll back or posts arrive   *)
(* late.  Only an operator's discard takes a revision out of this order.   *)
RevisionsInOrder ==
  \A d, e \in Id :
    /\ event[d].resource = event[e].resource /\ event[d].revision < event[e].revision
    /\ event[d].status \notin {"aborted", "discarded"} /\ e \in Range(hub)
    => Before(d, e)

(* No notification is lost: an event the outbox counts as delivered, or    *)
(* has pruned, was accepted by the hub, and an aborted one never is.       *)
DeliveredWasAccepted ==
  /\ In("delivered") \cup In("pruned") \subseteq Range(hub)
  /\ Range(hub) \cap (In("aborted") \cup In("open")) = {}
===============================================================================
