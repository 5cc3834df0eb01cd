--------------------------- MODULE EventOutboxProofs ---------------------------
(***************************************************************************)
(* Proofs about EventOutbox, for every number of resources, writers,       *)
(* publishers and revisions.                                               *)
(***************************************************************************)
EXTENDS EventOutbox, Integers, SequenceTheorems, TLAPS

Status == {"open", "aborted", "pending", "delivered", "pruned", "discarded"}
Committed == {"pending", "delivered", "pruned", "discarded"}
Event == [resource : Resource, revision : Nat, due : BOOLEAN, status : Status]

Place == [pc : {"out", "next", "posting", "accepted", "failed", "prune"}, event : Nat, left : Int]

(* The types the argument needs, without the bounds of the model.          *)
Types ==
  /\ revision \in [Resource -> Nat]
  /\ writer \in [Writer -> [resource : Resource \cup {None}, event : Nat]]
  /\ event \in Seq(Event)
  /\ pub \in [Publisher -> Place]
  /\ late \subseteq Nat /\ hub \in Seq(Nat)

Lower(d, e) == event[d].resource = event[e].resource /\ event[d].revision < event[e].revision
Counts(d) == event[d].status \notin {"aborted", "discarded"}

(* Everything the hub must hear before e.                                  *)
Released(e) == /\ e \in Id /\ event[e].status \in Committed
               /\ \A d \in Id : Lower(d, e) /\ Counts(d) => d \in Range(hub)

(* An open event belongs to a transaction that has the row of its resource,*)
(* so that a resource has one at most.                                     *)
WriterInv ==
  /\ \A w \in Writer : /\ writer[w].resource = None => writer[w].event = 0
                       /\ writer[w].event # 0 =>
                            LET e == writer[w].event IN
                            /\ e \in Id /\ event[e].status = "open"
                            /\ event[e].resource = writer[w].resource
  /\ \A v, w \in Writer : v # w /\ writer[v].resource # None => writer[v].resource # writer[w].resource
  /\ \A e \in Id : event[e].status = "open" => \E w \in Writer : writer[w].event = e

(* Events of a resource are numbered in the order of their ids.            *)
OrderInv ==
  /\ \A e \in Id : /\ event[e].status = "open" => event[e].revision = revision[event[e].resource] + 1
                   /\ event[e].status \in Committed => event[e].revision <= revision[event[e].resource]
  /\ \A d, e \in Id : /\ event[d].status # "aborted" /\ event[e].status # "aborted"
                      /\ event[d].resource = event[e].resource /\ d < e
                      => event[d].revision < event[e].revision

(* One publisher is at work, and whatever is under way to the hub may be   *)
(* accepted there at any moment.                                           *)
Sound(p) ==
  /\ pub[p].pc # "out" => owner = p
  /\ pub[p].pc \in {"posting", "accepted", "failed"} => Released(pub[p].event)
  /\ pub[p].pc = "accepted" => pub[p].event \in Range(hub)

PublisherInv == (\A p \in Publisher : Sound(p)) /\ \A e \in late : Released(e)

HubInv ==
  /\ \A k \in DOMAIN hub :
       /\ hub[k] \in Id /\ event[hub[k]].status \in Committed
       /\ \A d \in Id : Lower(d, hub[k]) /\ Counts(d) => \E i \in DOMAIN hub : i < k /\ hub[i] = d
  /\ In("delivered") \cup In("pruned") \subseteq Range(hub)

(* The inductive invariant.                                                *)
EInv == Types /\ WriterInv /\ OrderInv /\ PublisherInv /\ HubInv

-----------------------------------------------------------------------------
(* The steps, seen from one event.                                         *)

Kept(i) == event'[i].resource = event[i].resource /\ event'[i].revision = event[i].revision

(* What a publisher or an operator does to the status of an event.         *)
Handled(i) ==
  \/ event'[i].status = event[i].status
  \/ /\ event[i].status = "pending" /\ event'[i].status = "delivered"
     /\ \E p \in Publisher : pub[p].pc = "accepted" /\ pub[p].event = i
  \/ event[i].status = "delivered" /\ event'[i].status = "pruned"
  \/ event[i].status = "pending" /\ event'[i].status = "discarded"

(* A step that inserts no event and ends no transaction.                   *)
Handling == /\ UNCHANGED <<revision, writer>>
            /\ event' \in Seq(Event) /\ Len(event') = Len(event)
            /\ \A i \in Id : Kept(i) /\ Handled(i)

(* A function on the ids of a sequence is a sequence of that length.       *)
LEMMA SameLength ==
  ASSUME NEW S, NEW s \in Seq(S), NEW f \in [1 .. Len(s) -> S]
  PROVE  f \in Seq(S) /\ Len(f) = Len(s)
OBVIOUS

(* Setting the status of some events changes nothing else of the table.    *)
LEMMA SetEffect ==
  ASSUME Types, NEW E, NEW s \in Status
  PROVE  /\ Set(E, s) \in Seq(Event) /\ Len(Set(E, s)) = Len(event)
         /\ \A i \in Id : Set(E, s)[i] = IF i \in E THEN [event[i] EXCEPT !.status = s] ELSE event[i]
<1>0. \A i \in Id : event[i] \in Event
  BY DEF Types, Id
<1>1. \A i \in Id : event[i] \in Event /\ [event[i] EXCEPT !.status = s] \in Event
  BY Zenon, <1>0 DEF Event
<1>2. Set(E, s) \in [1 .. Len(event) -> Event]
  BY Zenon, <1>1 DEF Set, Id
<1> QED BY <1>2, SameLength DEF Types, Set, Id

(* ... and keeps all but the status of an event.                            *)
LEMMA StatusSet ==
  ASSUME Types, NEW i \in Id, NEW s \in Status, event'[i] = [event[i] EXCEPT !.status = s]
  PROVE  Kept(i) /\ event'[i].status = s
<1>1. event[i] \in Event
  BY DEF Types, Id
<1> QED BY Zenon, <1>1 DEF Event, Kept

(* A retry deadline is no part of the argument.                             *)
LEMMA DueSet ==
  ASSUME Types, NEW e, NEW b \in BOOLEAN, event' = [event EXCEPT ![e].due = b]
  PROVE  /\ event' \in Seq(Event) /\ Len(event') = Len(event)
         /\ \A i \in Id : Kept(i) /\ event'[i].status = event[i].status
<1>1. \A i \in Id : event[i] \in Event
  BY DEF Types, Id
<1>2. DOMAIN event = Id /\ event \in [Id -> Event]
  BY <1>1 DEF Types, Id
<1>3. \A i \in Id : event'[i] = IF i = e THEN [event[i] EXCEPT !.due = b] ELSE event[i]
  BY Zenon, <1>2
<1>4. \A i \in Id : event'[i] \in Event /\ Kept(i) /\ event'[i].status = event[i].status
  BY <1>1, <1>3 DEF Event, Kept
<1>5. event' \in [1 .. Len(event) -> Event]
  BY Zenon, <1>2, <1>4 DEF Id
<1>6. PICK f \in [1 .. Len(event) -> Event] : f = event'
  BY Zenon, <1>5
<1>7. event \in Seq(Event)
  BY Zenon DEF Types
<1>8. f \in Seq(Event) /\ Len(f) = Len(event)
  BY Zenon, <1>7, SameLength
<1> QED BY Zenon, <1>4, <1>6, <1>8

(* Every step but those of a writer handles events.                         *)
LEMMA HandlingSteps ==
  ASSUME EInv, \/ \E p \in Publisher : Publish(p) \/ SessionLost(p)
               \/ \E e \in Id : LatePost(e) \/ Due(e)
               \/ Maintain
               \/ UNCHANGED vars
  PROVE  Handling
<1>0. Types
  BY Zenon DEF EInv
<1>1. ASSUME UNCHANGED <<revision, writer, event>> PROVE Handling
  BY Zenon, <1>0, <1>1 DEF Types, Handling, Kept, Handled
<1>2. ASSUME NEW p \in Publisher, Acquire(p) \/ ReadNext(p) \/ Post(p) \/ SessionLost(p) PROVE Handling
  BY Zenon, <1>1, <1>2 DEF Acquire, ReadNext, Post, SessionLost
<1>3. ASSUME NEW p \in Publisher, Settle(p) PROVE Handling
  <2>1. CASE Acknowledged(p)
    <3> DEFINE E == {pub[p].event} \cap In("pending")
    <3>1. event' = Set(E, "delivered") /\ UNCHANGED <<revision, writer>> /\ pub[p].pc = "accepted"
      BY Zenon, <1>3, <2>1 DEF Settle, Acknowledged
    <3>2. \A i \in E : event[i].status = "pending" /\ pub[p].event = i
      BY Zenon DEF In
    <3> HIDE DEF E
    <3>3. /\ event' \in Seq(Event) /\ Len(event') = Len(event)
          /\ \A i \in Id : event'[i] = IF i \in E THEN [event[i] EXCEPT !.status = "delivered"] ELSE event[i]
      BY <1>0, <3>1, SetEffect DEF Status
    <3>4. ASSUME NEW i \in Id PROVE Kept(i) /\ Handled(i)
      <4>1. CASE i \in E
        BY Zenon, <1>0, <3>1, <3>2, <3>3, <4>1, StatusSet DEF Handled, Status
      <4>2. CASE i \notin E
        BY Zenon, <3>3, <4>2 DEF Kept, Handled
      <4> QED BY Zenon, <4>1, <4>2
    <3> QED BY Zenon, <3>1, <3>3, <3>4 DEF Handling
  <2>2. CASE ~Acknowledged(p)
    <3>1. event' = [event EXCEPT ![pub[p].event].due = FALSE] /\ UNCHANGED <<revision, writer>>
      BY Zenon, <1>3, <2>2 DEF Settle
    <3> QED BY Zenon, <1>0, <3>1, DueSet DEF Handling, Handled
  <2> QED BY Zenon, <2>1, <2>2
<1>4. ASSUME NEW p \in Publisher, Prune(p) PROVE Handling
  <2>1. PICK old \in SUBSET In("delivered") : event' = Set(old, "pruned")
    BY Zenon, <1>4 DEF Prune
  <2>2. UNCHANGED <<revision, writer>> /\ \A i \in old : event[i].status = "delivered"
    BY Zenon, <1>4 DEF Prune, In
  <2>3. /\ event' \in Seq(Event) /\ Len(event') = Len(event)
        /\ \A i \in Id : event'[i] = IF i \in old THEN [event[i] EXCEPT !.status = "pruned"] ELSE event[i]
    BY <1>0, <2>1, SetEffect DEF Status
  <2>4. ASSUME NEW i \in Id PROVE Kept(i) /\ Handled(i)
    <3>1. CASE i \in old
      BY Zenon, <1>0, <2>2, <2>3, <3>1, StatusSet DEF Handled, Status
    <3>2. CASE i \notin old
      BY Zenon, <2>3, <3>2 DEF Kept, Handled
    <3> QED BY Zenon, <3>1, <3>2
  <2> QED BY Zenon, <2>2, <2>3, <2>4 DEF Handling
<1>5. ASSUME NEW e \in Id, LatePost(e) PROVE Handling
  BY Zenon, <1>1, <1>5 DEF LatePost
<1>6. ASSUME NEW e \in Id, Due(e) PROVE Handling
  <2>1. event' = [event EXCEPT ![e].due = TRUE] /\ UNCHANGED <<revision, writer>>
    BY Zenon, <1>6 DEF Due
  <2> QED BY Zenon, <1>0, <2>1, DueSet DEF Handling, Handled
<1>7. ASSUME Maintain PROVE Handling
  <2>1. PICK old \in SUBSET In("delivered"), c \in 1 .. Len(event) + 1 :
          event' = [e \in Id |-> IF e \in DiscardedBefore(c) THEN [event[e] EXCEPT !.status = "discarded"]
                                 ELSE Set(old, "pruned")[e]]
    BY Zenon, <1>7 DEF Maintain
  <2>2. /\ UNCHANGED <<revision, writer>> /\ \A i \in old : event[i].status = "delivered"
        /\ \A i \in DiscardedBefore(c) : event[i].status = "pending"
    BY Zenon, <1>7 DEF Maintain, In, DiscardedBefore
  <2>3. \A i \in Id : event'[i] = IF i \in DiscardedBefore(c) THEN [event[i] EXCEPT !.status = "discarded"]
                                  ELSE IF i \in old THEN [event[i] EXCEPT !.status = "pruned"] ELSE event[i]
    BY <1>0, <2>1, SetEffect DEF Status
  <2>4. ASSUME NEW i \in Id PROVE event'[i] \in Event /\ Kept(i) /\ Handled(i)
    <3>0. event[i] \in Event
      BY <1>0 DEF Types, Id
    <3>1. event'[i] \in Event
      BY ZenonT(60), <2>3, <3>0 DEF Event, Status
    <3>2. CASE i \in DiscardedBefore(c)
      BY Zenon, <1>0, <2>2, <2>3, <3>1, <3>2, StatusSet DEF Handled, Status
    <3>3. CASE i \notin DiscardedBefore(c) /\ i \in old
      BY Zenon, <1>0, <2>2, <2>3, <3>1, <3>3, StatusSet DEF Handled, Status
    <3>4. CASE i \notin DiscardedBefore(c) /\ i \notin old
      BY Zenon, <2>3, <3>1, <3>4 DEF Kept, Handled
    <3> QED BY Zenon, <3>2, <3>3, <3>4
  <2>5. event' \in [1 .. Len(event) -> Event]
    BY Zenon, <2>1, <2>4 DEF Id
  <2> QED BY Zenon, <1>0, <2>2, <2>4, <2>5, SameLength DEF Handling, Types
<1> QED BY Zenon, <1>1, <1>2, <1>3, <1>4, <1>5, <1>6, <1>7 DEF Publish, vars

-----------------------------------------------------------------------------
(* What a writer does.                                                      *)

(* A write of a connection with events inserts one at the end of the table; *)
(* without events it only takes the row.                                    *)
LEMMA WriteEffect ==
  ASSUME Types, NEW w \in Writer, NEW r \in Resource, Write(w, r)
  PROVE  /\ UNCHANGED revision /\ writer[w].resource = None /\ RowFree(r)
         /\ event' \in Seq(Event) /\ \A i \in Id : i \in Id' /\ event'[i] = event[i]
         /\ \A v \in Writer : v # w => writer'[v] = writer[v]
         /\ writer'[w].resource = r
         /\ \/ Len(event') = Len(event) /\ writer'[w].event = 0
            \/ /\ Len(event') = Len(event) + 1 /\ writer'[w].event = Len(event')
               /\ event'[Len(event')] = [resource |-> r, revision |-> revision[r] + 1,
                                         due |-> TRUE, status |-> "open"]
<1> DEFINE new == [resource |-> r, revision |-> revision[r] + 1, due |-> TRUE, status |-> "open"]
<1>1. new \in Event /\ event \in Seq(Event) /\ Len(event) \in Nat
  BY DEF Types, Event, Status
<1>2. /\ UNCHANGED revision /\ writer[w].resource = None /\ RowFree(r)
      /\ event' = IF w \in Silent THEN event ELSE Append(event, new)
      /\ writer' = [writer EXCEPT ![w] = [resource |-> r, event |-> IF w \in Silent THEN 0 ELSE Len(event) + 1]]
  BY Zenon DEF Write
<1>3. /\ \A v \in Writer : v # w => writer'[v] = writer[v]
      /\ writer'[w] = [resource |-> r, event |-> IF w \in Silent THEN 0 ELSE Len(event) + 1]
  BY Zenon, <1>2 DEF Types
<1> HIDE DEF new
<1>4. CASE w \in Silent
  BY <1>1, <1>2, <1>3, <1>4 DEF Id
<1>5. CASE w \notin Silent
  <2>1. /\ event' \in Seq(Event) /\ Len(event') = Len(event) + 1
        /\ event'[Len(event) + 1] = new /\ \A i \in 1 .. Len(event) : event'[i] = event[i]
    BY <1>1, <1>2, <1>5, AppendProperties
  <2>2. \A i \in Id : i \in Id' /\ event'[i] = event[i]
    BY <1>1, <2>1 DEF Id
  <2>3. /\ writer'[w].resource = r /\ writer'[w].event = Len(event')
        /\ event'[Len(event')] = new
    BY <1>3, <1>5, <2>1
  <2> QED BY ZenonT(60), <1>2, <1>3, <2>1, <2>2, <2>3 DEF new
<1> QED BY Zenon, <1>4, <1>5

Ends(w, status) ==
  /\ \A v \in Writer : v # w => writer'[v] = writer[v]
  /\ writer'[w] = Closed
  /\ event' \in Seq(Event) /\ Len(event') = Len(event)
  /\ \A i \in Id : /\ Kept(i)
                   /\ event'[i].status = IF i = writer[w].event THEN status ELSE event[i].status

(* The end of a transaction settles its event.                              *)
LEMMA EndEffect ==
  ASSUME Types, NEW w \in Writer
  PROVE  /\ Commit(w) => /\ Ends(w, "pending") /\ writer[w].resource \in Resource
                         /\ revision' = [revision EXCEPT ![writer[w].resource] = @ + 1]
         /\ Rollback(w) => Ends(w, "aborted") /\ UNCHANGED revision
<1>1. ASSUME NEW s \in Status, event' = Set({writer[w].event}, s), writer' = [writer EXCEPT ![w] = Closed]
      PROVE  Ends(w, s)
  <2>1. /\ event' \in Seq(Event) /\ Len(event') = Len(event)
        /\ \A i \in Id : event'[i] = IF i \in {writer[w].event} THEN [event[i] EXCEPT !.status = s] ELSE event[i]
    <3> DEFINE E == {writer[w].event}
    <3>1. event' = Set(E, s)
      BY Zenon, <1>1
    <3> HIDE DEF E
    <3>2. /\ event' \in Seq(Event) /\ Len(event') = Len(event)
          /\ \A i \in Id : event'[i] = IF i \in E THEN [event[i] EXCEPT !.status = s] ELSE event[i]
      BY <3>1, SetEffect
    <3> QED BY Zenon, <3>2 DEF E
  <2>2. ASSUME NEW i \in Id
        PROVE  Kept(i) /\ event'[i].status = IF i = writer[w].event THEN s ELSE event[i].status
    <3>1. CASE i = writer[w].event
      BY ZenonT(60), <2>1, <3>1, StatusSet
    <3>2. CASE i # writer[w].event
      BY Zenon, <2>1, <3>2 DEF Kept
    <3> QED BY Zenon, <3>1, <3>2
  <2>3. (\A v \in Writer : v # w => writer'[v] = writer[v]) /\ writer'[w] = Closed
    BY Zenon, <1>1 DEF Types
  <2> QED BY Zenon, <2>1, <2>2, <2>3 DEF Ends
<1>2. Commit(w) => writer[w].resource \in Resource
  BY Zenon DEF Commit, Types
<1> QED BY Zenon, <1>1, <1>2 DEF Commit, Rollback, Status

(* Handling events disturbs no open transaction and no revision.            *)
LEMMA HandlingOrder ==
  ASSUME EInv, Handling
  PROVE  WriterInv' /\ OrderInv'
<1>0. WriterInv /\ OrderInv
  BY Zenon DEF EInv
<1>1. Id' = Id /\ UNCHANGED <<revision, writer>>
  BY Zenon DEF Handling, Id
<1>2. \A i \in Id : /\ Kept(i)
                    /\ event'[i].status = "open" <=> event[i].status = "open"
                    /\ event'[i].status = "aborted" <=> event[i].status = "aborted"
                    /\ event'[i].status \in Committed => event[i].status \in Committed
  BY Zenon DEF Handling, Handled, Committed
<1>3. WriterInv'
  <2>1. ASSUME NEW w \in Writer, writer[w].event # 0
        PROVE  LET e == writer[w].event IN
               e \in Id /\ event'[e].status = "open" /\ event'[e].resource = writer[w].resource
    BY Zenon, <1>0, <1>2, <2>1 DEF WriterInv, Kept
  <2> QED BY Zenon, <1>0, <1>1, <1>2, <2>1 DEF WriterInv
<1>4. OrderInv'
  <2>1. ASSUME NEW e \in Id
        PROVE  /\ event'[e].status = "open" => event'[e].revision = revision[event'[e].resource] + 1
               /\ event'[e].status \in Committed => event'[e].revision <= revision[event'[e].resource]
    BY Zenon, <1>0, <1>2 DEF OrderInv, Kept
  <2>2. ASSUME NEW d \in Id, NEW e \in Id, event'[d].status # "aborted", event'[e].status # "aborted",
               event'[d].resource = event'[e].resource, d < e
        PROVE  event'[d].revision < event'[e].revision
    BY Zenon, <1>0, <1>2, <2>2 DEF OrderInv, Kept
  <2> QED BY Zenon, <1>1, <2>1, <2>2 DEF OrderInv
<1> QED BY Zenon, <1>3, <1>4

(* A write takes a row that no open transaction has, so that its event gets *)
(* the highest revision.                                                    *)
LEMMA WriteOrder ==
  ASSUME EInv, NEW w \in Writer, NEW r \in Resource, Write(w, r)
  PROVE  WriterInv' /\ OrderInv'
<1> USE ConstantsAssumption
<1>0. Types /\ WriterInv /\ OrderInv
  BY Zenon DEF EInv
<1>1. /\ UNCHANGED revision /\ writer[w].resource = None /\ RowFree(r)
      /\ \A i \in Id : i \in Id' /\ event'[i] = event[i]
      /\ \A v \in Writer : v # w => writer'[v] = writer[v]
      /\ writer'[w].resource = r
  BY Zenon, <1>0, WriteEffect
<1>2. writer[w].event = 0
  BY Zenon, <1>0, <1>1 DEF WriterInv
<1>3. \A i \in Id : event[i] \in Event /\ i \in Nat \ {0}
  BY <1>0 DEF Types, Id
<1>4. \A e \in Id : event[e].resource = r => event[e].status # "open"
  <2> SUFFICES ASSUME NEW e \in Id, event[e].resource = r, event[e].status = "open" PROVE FALSE
    OBVIOUS
  <2>1. PICK v \in Writer : writer[v].event = e
    BY Zenon, <1>0 DEF WriterInv
  <2>2. writer[v].resource = r
    BY Zenon, <1>0, <1>3, <2>1 DEF WriterInv
  <2> QED BY Zenon, <1>1, <2>2 DEF RowFree
<1>5. CASE Len(event') = Len(event) /\ writer'[w].event = 0
  <2>1. Id' = Id
    BY Zenon, <1>5 DEF Id
  <2>2. WriterInv'
    <3>1. ASSUME NEW v \in Writer
          PROVE  /\ writer'[v].resource = None => writer'[v].event = 0
                 /\ writer'[v].event # 0 => LET e == writer'[v].event IN
                      e \in Id /\ event'[e].status = "open" /\ event'[e].resource = writer'[v].resource
      BY <1>0, <1>1, <1>5 DEF WriterInv
    <3>2. \A v, u \in Writer : v # u /\ writer'[v].resource # None => writer'[v].resource # writer'[u].resource
      BY <1>0, <1>1 DEF WriterInv, RowFree
    <3>3. \A e \in Id : event'[e].status = "open" => \E v \in Writer : writer'[v].event = e
      BY <1>0, <1>1, <1>2, <1>3 DEF WriterInv
    <3> QED BY Zenon, <2>1, <3>1, <3>2, <3>3 DEF WriterInv
  <2>3. OrderInv'
    BY <1>0, <1>1, <2>1 DEF OrderInv
  <2> QED BY Zenon, <2>2, <2>3
<1>6. CASE /\ Len(event') = Len(event) + 1 /\ writer'[w].event = Len(event')
           /\ event'[Len(event')] = [resource |-> r, revision |-> revision[r] + 1,
                                     due |-> TRUE, status |-> "open"]
  <2>0. PICK n \in Nat \ {0} : /\ n = Len(event') /\ n \notin Id /\ Id' = Id \cup {n}
                               /\ \A i \in Id : i < n
    <3>1. Len(event) \in Nat
      BY <1>0 DEF Types
    <3> QED BY <1>6, <3>1 DEF Id
  <2>1. /\ event'[n].resource = r /\ event'[n].revision = revision[r] + 1 /\ event'[n].status = "open"
        /\ writer'[w].event = n
    BY <1>6, <2>0
  <2>2. WriterInv'
    <3>1. ASSUME NEW v \in Writer
          PROVE  /\ writer'[v].resource = None => writer'[v].event = 0
                 /\ writer'[v].event # 0 => LET e == writer'[v].event IN
                      e \in Id' /\ event'[e].status = "open" /\ event'[e].resource = writer'[v].resource
      <4>1. CASE v = w
        BY Zenon, <1>1, <2>0, <2>1, <4>1
      <4>2. CASE v # w
        BY <1>0, <1>1, <4>2 DEF WriterInv
      <4> QED BY Zenon, <4>1, <4>2
    <3>2. \A v, u \in Writer : v # u /\ writer'[v].resource # None => writer'[v].resource # writer'[u].resource
      BY <1>0, <1>1 DEF WriterInv, RowFree
    <3>3. \A e \in Id' : event'[e].status = "open" => \E v \in Writer : writer'[v].event = e
      BY <1>0, <1>1, <1>2, <1>3, <2>0, <2>1 DEF WriterInv
    <3> QED BY Zenon, <3>1, <3>2, <3>3 DEF WriterInv
  <2>3. OrderInv'
    <3>0. revision[r] \in Nat
      BY Zenon, <1>0 DEF Types
    <3>1. ASSUME NEW e \in Id'
          PROVE  /\ event'[e].status = "open" => event'[e].revision = revision'[event'[e].resource] + 1
                 /\ event'[e].status \in Committed => event'[e].revision <= revision'[event'[e].resource]
      <4>1. CASE e = n
        BY Zenon, <1>1, <2>1, <4>1 DEF Committed
      <4>2. CASE e \in Id
        BY Zenon, <1>0, <1>1, <4>2 DEF OrderInv
      <4> QED BY Zenon, <2>0, <4>1, <4>2
    <3>2. ASSUME NEW d \in Id', NEW e \in Id', event'[d].status # "aborted", event'[e].status # "aborted",
                 event'[d].resource = event'[e].resource, d < e
          PROVE  event'[d].revision < event'[e].revision
      <4>1. d \in Id
        BY <1>3, <2>0, <3>2
      <4>2. CASE e \in Id
        BY Zenon, <1>0, <1>1, <3>2, <4>1, <4>2 DEF OrderInv
      <4>3. CASE e = n
        <5>1. event[d].status \in Committed /\ event[d].resource = r /\ event[d].revision \in Nat
          BY Zenon, <1>1, <1>3, <1>4, <2>1, <3>2, <4>1, <4>3 DEF Committed, Event, Status
        <5>2. event[d].revision <= revision[r]
          BY Zenon, <1>0, <4>1, <5>1 DEF OrderInv
        <5> QED BY <1>1, <2>1, <3>0, <4>1, <4>3, <5>1, <5>2
      <4> QED BY Zenon, <2>0, <4>2, <4>3
    <3> QED BY Zenon, <3>1, <3>2 DEF OrderInv
  <2> QED BY Zenon, <2>2, <2>3
<1> QED BY Zenon, <1>0, <1>5, <1>6, WriteEffect

(* The end of a transaction gives its row free and settles its event.       *)
LEMMA EndOrder ==
  ASSUME EInv, NEW w \in Writer, Commit(w) \/ Rollback(w)
  PROVE  WriterInv' /\ OrderInv'
<1> USE ConstantsAssumption
<1>0. Types /\ WriterInv /\ OrderInv
  BY Zenon DEF EInv
<1>1. PICK s \in {"pending", "aborted"} :
        /\ Ends(w, s)
        /\ s = "pending" => /\ writer[w].resource \in Resource
                            /\ revision' = [revision EXCEPT ![writer[w].resource] = @ + 1]
        /\ s = "aborted" => UNCHANGED revision
  BY Zenon, <1>0, EndEffect
<1>2. writer[w].resource # None
  BY Zenon DEF Commit, Rollback
<1>3. Id' = Id /\ writer'[w].event = 0 /\ writer'[w].resource = None
  BY <1>1 DEF Ends, Id, Closed
<1>4. \A i \in Id : /\ event[i] \in Event /\ i \in Nat \ {0} /\ Kept(i)
                    /\ event'[i].status = IF i = writer[w].event THEN s ELSE event[i].status
  BY <1>0, <1>1 DEF Types, Id, Ends
<1>5. \A v \in Writer : v # w => writer'[v] = writer[v]
  BY Zenon, <1>1 DEF Ends
<1>6. ASSUME NEW v \in Writer, v # w, writer[v].event # 0
      PROVE  writer[v].event # writer[w].event /\ writer[v].resource # writer[w].resource
  BY <1>0, <1>2, <1>6 DEF WriterInv
<1>7. ASSUME NEW e \in Id, event'[e].status = "open"
      PROVE  /\ event[e].status = "open" /\ event[e].resource # writer[w].resource
             /\ \E v \in Writer : writer'[v].event = e
  <2>1. event[e].status = "open" /\ e # writer[w].event
    BY Zenon, <1>1, <1>4, <1>7
  <2>2. PICK v \in Writer : writer[v].event = e
    BY Zenon, <1>0, <2>1 DEF WriterInv
  <2>3. v # w /\ writer[v].event # 0
    BY Zenon, <1>4, <2>1, <2>2
  <2> QED BY Zenon, <1>0, <1>5, <1>6, <2>1, <2>2, <2>3 DEF WriterInv
<1>8. WriterInv'
  <2>1. ASSUME NEW v \in Writer
        PROVE  /\ writer'[v].resource = None => writer'[v].event = 0
               /\ writer'[v].event # 0 => LET e == writer'[v].event IN
                    e \in Id /\ event'[e].status = "open" /\ event'[e].resource = writer'[v].resource
    <3>1. CASE v = w
      BY Zenon, <1>3, <3>1
    <3>2. CASE v # w
      BY SMTT(60), <1>0, <1>4, <1>5, <1>6, <3>2 DEF WriterInv, Kept
    <3> QED BY Zenon, <3>1, <3>2
  <2>2. \A v, u \in Writer : v # u /\ writer'[v].resource # None => writer'[v].resource # writer'[u].resource
    BY SMTT(60), <1>0, <1>3, <1>5 DEF WriterInv
  <2> QED BY Zenon, <1>3, <1>7, <2>1, <2>2 DEF WriterInv
<1>9. OrderInv'
  <2>0. /\ \A x \in Resource : revision[x] \in Nat /\ revision'[x] \in Nat /\ revision[x] <= revision'[x]
        /\ \A x \in Resource : x # writer[w].resource => revision'[x] = revision[x]
    BY <1>0, <1>1 DEF Types
  <2>1. ASSUME NEW e \in Id, event'[e].status = "open"
        PROVE  event'[e].revision = revision'[event'[e].resource] + 1
    BY <1>0, <1>4, <1>7, <2>0, <2>1 DEF OrderInv, Kept, Event
  <2>2. ASSUME NEW e \in Id, event'[e].status \in Committed
        PROVE  event'[e].revision <= revision'[event'[e].resource]
    <3>0. event[e].resource \in Resource /\ event[e].revision \in Nat
      BY Zenon, <1>4 DEF Event
    <3>1. CASE e = writer[w].event
      <4>1. s = "pending" /\ event[e].status = "open" /\ event[e].resource = writer[w].resource
        BY Zenon, <1>0, <1>1, <1>4, <2>2, <3>1 DEF Committed, WriterInv
      <4>2. event[e].revision = revision[writer[w].resource] + 1
        BY Zenon, <1>0, <4>1 DEF OrderInv
      <4>3. revision'[writer[w].resource] = revision[writer[w].resource] + 1
        BY Zenon, <1>0, <1>1, <4>1 DEF Types
      <4> QED BY SMTT(60), <1>4, <3>0, <4>1, <4>2, <4>3 DEF Kept
    <3>2. CASE e # writer[w].event
      <4>1. event[e].revision <= revision[event[e].resource]
        BY Zenon, <1>0, <1>4, <2>2, <3>2 DEF OrderInv
      <4> QED BY <1>4, <2>0, <3>0, <4>1 DEF Kept
    <3> QED BY Zenon, <3>1, <3>2
  <2>3. ASSUME NEW d \in Id, NEW e \in Id, event'[d].status # "aborted", event'[e].status # "aborted",
               event'[d].resource = event'[e].resource, d < e
        PROVE  event'[d].revision < event'[e].revision
    <3>1. event[d].status # "aborted" /\ event[e].status # "aborted"
      <4>1. ASSUME NEW i \in Id, event[i].status = "aborted" PROVE event'[i].status = "aborted"
        BY Zenon, <1>0, <1>4, <4>1 DEF WriterInv
      <4> QED BY Zenon, <2>3, <4>1
    <3> QED BY Zenon, <1>0, <1>4, <2>3, <3>1 DEF OrderInv, Kept
  <2> QED BY Zenon, <1>3, <2>1, <2>2, <2>3 DEF OrderInv
<1> QED BY Zenon, <1>8, <1>9

-----------------------------------------------------------------------------
(* What reaches the hub.                                                    *)

(* It was delivered, or its acknowledgement is under way.                   *)
Delivering(i) == \/ event[i].status \in {"delivered", "pruned"}
                 \/ \E p \in Publisher : pub[p].pc = "accepted" /\ pub[p].event = i

(* Events stay what they are: a committed event stays committed, one that   *)
(* was rolled back or discarded stays so, and a new one has the highest     *)
(* revision of its resource.                                                *)
LEMMA Growth ==
  ASSUME EInv, [Next]_vars
  PROVE  /\ \A i \in Id : /\ i \in Id' /\ Kept(i)
                          /\ Counts(i)' => Counts(i)
                          /\ event[i].status \in Committed => event'[i].status \in Committed
                          /\ event'[i].status \in {"delivered", "pruned"} => Delivering(i)
         /\ \A i \in Id' \ Id : /\ event'[i].status = "open"
                                /\ event'[i].revision = revision[event'[i].resource] + 1
<1>0. Types /\ WriterInv
  BY Zenon DEF EInv
<1>1. ASSUME Handling
      PROVE  /\ Id' = Id
             /\ \A i \in Id : /\ Kept(i) /\ (Counts(i)' => Counts(i))
                              /\ event[i].status \in Committed => event'[i].status \in Committed
                              /\ event'[i].status \in {"delivered", "pruned"} => Delivering(i)
  BY Zenon, <1>1 DEF Handling, Handled, Id, Counts, Committed, Delivering
<1>2. ASSUME NEW w \in Writer, NEW r \in Resource, Write(w, r)
      PROVE  /\ \A i \in Id : i \in Id' /\ event'[i] = event[i]
             /\ \A i \in Id' \ Id : /\ event'[i].status = "open"
                                    /\ event'[i].revision = revision[event'[i].resource] + 1
  <2>1. Len(event) \in Nat
    BY <1>0 DEF Types
  <2>2. Id' = Id \/ Id' = Id \cup {Len(event')}
    <3>1. Len(event') = Len(event) \/ Len(event') = Len(event) + 1
      BY Zenon, <1>0, <1>2, WriteEffect
    <3> QED BY <2>1, <3>1 DEF Id
  <2>3. Len(event') # Len(event) =>
          event'[Len(event')] = [resource |-> r, revision |-> revision[r] + 1, due |-> TRUE, status |-> "open"]
    BY Zenon, <1>0, <1>2, WriteEffect
  <2>4. Len(event') = Len(event) => Id' = Id
    BY Zenon DEF Id
  <2> QED BY SMTT(60), <1>0, <1>2, <2>2, <2>3, <2>4, WriteEffect
<1>3. ASSUME NEW w \in Writer, Commit(w) \/ Rollback(w)
      PROVE  /\ Id' = Id
             /\ \A i \in Id : /\ Kept(i) /\ (Counts(i)' => Counts(i))
                              /\ event[i].status \in Committed => event'[i].status \in Committed
                              /\ event'[i].status \in {"delivered", "pruned"} => Delivering(i)
  <2>1. PICK s \in {"pending", "aborted"} : Ends(w, s)
    BY Zenon, <1>0, <1>3, EndEffect
  <2>2. ASSUME NEW i \in Id, i = writer[w].event PROVE event[i].status = "open"
    <3>1. i # 0
      BY <1>0 DEF Types, Id
    <3> QED BY Zenon, <1>0, <2>2, <3>1 DEF WriterInv
  <2> QED BY Zenon, <2>1, <2>2 DEF Ends, Id, Counts, Committed, Delivering
<1>4. CASE \E w \in Writer : \E r \in Resource : Write(w, r)
  BY Zenon, <1>2, <1>4 DEF Kept, Counts, Delivering
<1>5. CASE \E w \in Writer : Commit(w) \/ Rollback(w)
  BY Zenon, <1>3, <1>5
<1>6. CASE Handling
  BY Zenon, <1>1, <1>6
<1> QED BY Zenon, <1>4, <1>5, <1>6, HandlingSteps DEF Next

(* The hub accepts an event once, and only one that was released to it.     *)
LEMMA HubEffect ==
  ASSUME EInv, [Next]_vars
  PROVE  \/ hub' = hub
         \/ \E e \in Id : Released(e) /\ e \notin Range(hub) /\ hub' = Append(hub, e)
<1>0. Types /\ PublisherInv
  BY Zenon DEF EInv
<1>1. ASSUME NEW e, Released(e), hub' \in {hub, Accept(e)}
      PROVE  hub' = hub \/ (e \in Id /\ e \notin Range(hub) /\ hub' = Append(hub, e))
  BY Zenon, <1>1 DEF Accept, Released
<1>2. ASSUME NEW p \in Publisher, Post(p)
      PROVE  \/ hub' = hub
             \/ \E e \in Id : Released(e) /\ e \notin Range(hub) /\ hub' = Append(hub, e)
  <2>1. Released(pub[p].event) /\ hub' \in {hub, Accept(pub[p].event)}
    BY Zenon, <1>0, <1>2 DEF Post, PublisherInv, Sound
  <2> QED BY Zenon, <1>1, <2>1
<1>3. ASSUME NEW e \in Id, LatePost(e)
      PROVE  hub' = hub \/ (Released(e) /\ e \notin Range(hub) /\ hub' = Append(hub, e))
  <2>1. Released(e) /\ hub' \in {hub, Accept(e)}
    BY Zenon, <1>0, <1>3 DEF LatePost, PublisherInv
  <2> QED BY Zenon, <1>1, <2>1
<1>4. ASSUME NEW p \in Publisher, Acquire(p) \/ ReadNext(p) \/ Settle(p) \/ Prune(p) \/ SessionLost(p)
      PROVE  hub' = hub
  BY Zenon, <1>4 DEF Acquire, ReadNext, Settle, Prune, SessionLost
<1>5. ASSUME \/ \E w \in Writer : Commit(w) \/ Rollback(w) \/ \E r \in Resource : Write(w, r)
             \/ \E e \in Id : Due(e)
             \/ Maintain
             \/ UNCHANGED vars
      PROVE  hub' = hub
  BY Zenon, <1>5 DEF Commit, Rollback, Write, Due, Maintain, vars
<1> QED BY Zenon, <1>2, <1>3, <1>4, <1>5 DEF Next, Publish

(* What the hub has heard it has heard.                                     *)
LEMMA HubGrows ==
  ASSUME EInv, [Next]_vars
  PROVE  /\ hub' \in Seq(Nat) /\ Range(hub) \subseteq Range(hub)'
         /\ \A k \in DOMAIN hub : k \in DOMAIN hub' /\ hub'[k] = hub[k]
         /\ \A k \in DOMAIN hub' \ DOMAIN hub :
              /\ Released(hub'[k])
              /\ \A i \in DOMAIN hub : i < k
<1>1. hub \in Seq(Nat)
  BY Zenon DEF EInv, Types
<1>2. CASE hub' = hub
  BY Zenon, <1>1, <1>2
<1>3. ASSUME NEW e \in Id, Released(e), hub' = Append(hub, e)
      PROVE  /\ hub' \in Seq(Nat) /\ DOMAIN hub' = DOMAIN hub \cup {Len(hub) + 1}
             /\ hub'[Len(hub) + 1] = e
             /\ \A k \in DOMAIN hub : k \in DOMAIN hub' /\ hub'[k] = hub[k] /\ k < Len(hub) + 1
  <2>1. e \in Nat
    BY DEF Id, EInv, Types
  <2>2. /\ hub' \in Seq(Nat) /\ Len(hub') = Len(hub) + 1 /\ hub'[Len(hub) + 1] = e
        /\ \A i \in 1 .. Len(hub) : hub'[i] = hub[i]
    BY <1>1, <1>3, <2>1, AppendProperties
  <2>3. DOMAIN hub = 1 .. Len(hub) /\ DOMAIN hub' = 1 .. Len(hub') /\ Len(hub) \in Nat
    BY <1>1, <2>2
  <2> QED BY <2>2, <2>3
<1>4. CASE \E e \in Id : Released(e) /\ hub' = Append(hub, e)
  BY Zenon, <1>3, <1>4 DEF Range
<1> QED BY Zenon, <1>2, <1>4, HubEffect

(* A revision that is written later is higher than every committed one.     *)
LEMMA LowerIsOld ==
  ASSUME EInv, [Next]_vars, NEW e, Released(e), NEW d \in Id', Lower(d, e)'
  PROVE  d \in Id
<1> SUFFICES ASSUME d \notin Id PROVE FALSE
  OBVIOUS
<1>0. Types /\ OrderInv
  BY Zenon DEF EInv
<1>1. e \in Id /\ event[e].status \in Committed
  BY Zenon DEF Released
<1>2. Kept(e)
  BY Zenon, <1>1, Growth
<1>3. event'[d].revision = revision[event'[d].resource] + 1
  BY Zenon, Growth
<1>4. event[e] \in Event
  BY <1>0, <1>1 DEF Types, Id
<1>5. /\ event[e].revision <= revision[event[e].resource]
      /\ event[e].revision \in Nat /\ revision[event[e].resource] \in Nat
  BY Zenon, <1>0, <1>1, <1>4 DEF OrderInv, Event, Types
<1> QED BY <1>2, <1>3, <1>5 DEF Lower, Kept

(* What was released stays released.                                        *)
LEMMA ReleasedStays ==
  ASSUME EInv, [Next]_vars, NEW e, Released(e)
  PROVE  Released(e)'
<1>1. e \in Id /\ event[e].status \in Committed
  BY Zenon DEF Released
<1>2. e \in Id' /\ event'[e].status \in Committed /\ Kept(e)
  BY Zenon, <1>1, Growth
<1>3. ASSUME NEW d \in Id', Lower(d, e)', Counts(d)' PROVE d \in Range(hub)'
  <2>1. d \in Id
    BY Zenon, <1>3, LowerIsOld
  <2>2. Lower(d, e) /\ Counts(d)
    BY Zenon, <1>2, <1>3, <2>1, Growth DEF Lower, Kept
  <2> QED BY Zenon, <2>1, <2>2, HubGrows DEF Released
<1> QED BY Zenon, <1>2, <1>3 DEF Released

(* The hub keeps hearing the revisions of a resource in their order.        *)
LEMMA HubStep == ASSUME EInv, [Next]_vars PROVE HubInv'
<1>0. Types /\ HubInv /\ PublisherInv
  BY Zenon DEF EInv
<1>1. ASSUME NEW k \in DOMAIN hub
      PROVE  /\ hub'[k] = hub[k] /\ Released(hub[k])
             /\ \A d \in Id : Lower(d, hub[k]) /\ Counts(d) => \E i \in DOMAIN hub : i < k /\ hub[i] = d
  BY SMTT(60), <1>0, HubGrows DEF HubInv, Released, Range
<1>2. ASSUME NEW k \in DOMAIN hub', NEW e, e = hub'[k]
      PROVE  /\ e \in Id' /\ event'[e].status \in Committed
             /\ \A d \in Id' : Lower(d, e)' /\ Counts(d)' => \E i \in DOMAIN hub' : i < k /\ hub'[i] = d
  <2>1. Released(e)
    BY Zenon, <1>1, <1>2, HubGrows
  <2>2. Released(e)'
    BY Zenon, <2>1, ReleasedStays
  <2>3. ASSUME NEW d \in Id', Lower(d, e)', Counts(d)'
        PROVE  \E i \in DOMAIN hub' : i < k /\ hub'[i] = d
    <3>1. CASE k \in DOMAIN hub
      <4>1. d \in Id
        BY Zenon, <2>1, <2>3, LowerIsOld
      <4>2. Lower(d, e) /\ Counts(d)
        BY Zenon, <2>1, <2>3, <4>1, Growth DEF Lower, Kept, Released
      <4>3. PICK i \in DOMAIN hub : i < k /\ hub[i] = d
        BY Zenon, <1>1, <1>2, <3>1, <4>1, <4>2
      <4> QED BY Zenon, <4>3, HubGrows
    <3>2. CASE k \notin DOMAIN hub
      <4>1. d \in Id
        BY Zenon, <2>1, <2>3, LowerIsOld
      <4>2. Lower(d, e) /\ Counts(d)
        BY Zenon, <2>1, <2>3, <4>1, Growth DEF Lower, Kept, Released
      <4>3. PICK i \in DOMAIN hub : hub[i] = d
        BY Zenon, <2>1, <4>1, <4>2 DEF Released, Range
      <4> QED BY Zenon, <1>2, <3>2, <4>3, HubGrows
    <3> QED BY Zenon, <3>1, <3>2
  <2> QED BY Zenon, <2>2, <2>3 DEF Released
<1>3. ASSUME NEW i \in Id', event'[i].status \in {"delivered", "pruned"} PROVE i \in Range(hub)'
  <2>1. i \in Id
    BY Zenon, <1>3, Growth
  <2>2. Delivering(i)
    BY Zenon, <1>3, <2>1, Growth
  <2>3. i \in Range(hub)
    BY Zenon, <1>0, <2>1, <2>2 DEF Delivering, HubInv, PublisherInv, Sound, In
  <2> QED BY Zenon, <2>3, HubGrows
<1> QED BY Zenon, <1>2, <1>3 DEF HubInv, In

(* The oldest pending event may go to the hub: every lower revision of its  *)
(* resource has a lower id, so that it is neither open nor pending.         *)
LEMMA HeadReleased == ASSUME EInv, NEW e \in HeadPending PROVE Released(e)
<1>0. Types /\ OrderInv /\ HubInv
  BY Zenon DEF EInv
<1>1. e \in Id /\ event[e].status = "pending" /\ \A d \in Id : event[d].status = "pending" => e <= d
  BY Zenon DEF HeadPending, In
<1>2. ASSUME NEW d \in Id, Lower(d, e), Counts(d) PROVE d \in Range(hub)
  <2>0. /\ event[d] \in Event /\ event[e] \in Event /\ d \in Nat /\ e \in Nat
        /\ event[d].revision \in Nat /\ event[e].revision \in Nat
        /\ revision[event[e].resource] \in Nat
    <3>1. event[d] \in Event /\ event[e] \in Event
      BY <1>0, <1>1 DEF Types, Id
    <3>2. d \in Nat /\ e \in Nat
      BY <1>0, <1>1 DEF Types, Id
    <3> QED BY Zenon, <1>0, <3>1, <3>2 DEF Event, Types
  <2>1. event[d].status # "aborted" /\ event[e].status # "aborted" /\ d # e
    BY <1>1, <1>2, <2>0 DEF Counts, Lower
  <2>2. d < e
    <3>1. ~(e < d)
      <4>1. ASSUME e < d PROVE event[e].revision < event[d].revision
        BY Zenon, <1>0, <1>1, <1>2, <2>1, <4>1 DEF OrderInv, Lower
      <4> QED BY <1>2, <2>0, <4>1 DEF Lower
    <3> QED BY <2>0, <2>1, <3>1
  <2>3. event[d].status # "pending"
    BY <1>1, <2>0, <2>2
  <2>4. event[d].status # "open"
    <3>1. event[e].revision <= revision[event[e].resource]
      BY Zenon, <1>0, <1>1 DEF OrderInv, Committed
    <3>2. event[d].status = "open" => event[d].revision = revision[event[e].resource] + 1
      BY Zenon, <1>0, <1>2 DEF OrderInv, Lower
    <3> QED BY <1>2, <2>0, <3>1, <3>2 DEF Lower
  <2>5. event[d].status \in {"delivered", "pruned"}
    BY Zenon, <1>2, <2>0, <2>3, <2>4 DEF Event, Status, Counts
  <2> QED BY Zenon, <1>0, <2>5 DEF HubInv, In
<1> QED BY Zenon, <1>1, <1>2 DEF Released, Committed

(* A publisher that does not move stays sound.                              *)
LEMMA StillSound ==
  ASSUME EInv, [Next]_vars, NEW x \in Publisher, pub'[x] = pub[x],
         pub[x].pc # "out" => owner' = owner
  PROVE  Sound(x)'
<1>1. Sound(x)
  BY Zenon DEF EInv, PublisherInv
<1>2. Released(pub[x].event) => Released(pub[x].event)'
  <2>1. PICK e : e = pub[x].event
    OBVIOUS
  <2>2. Released(e) => Released(e)'
    BY Zenon, ReleasedStays
  <2> QED BY Zenon, <2>1, <2>2 DEF Released, Lower, Counts
<1> QED BY Zenon, <1>1, <1>2, HubGrows DEF Sound

(* A step of one publisher: where it is afterwards.                         *)
Moved(p, q) == /\ pub'[p] = q /\ q \in Place
               /\ \A x \in Publisher : x # p => pub'[x] = pub[x]
               /\ pub' \in [Publisher -> Place]

LEMMA MovedType ==
  ASSUME Types, NEW p \in Publisher, NEW q \in Place, pub' = [pub EXCEPT ![p] = q]
  PROVE  Moved(p, q)
BY Zenon DEF Types, Moved

(* The publisher takes the lock when nobody has it, reads the oldest event, *)
(* posts it, settles it and prunes.                                         *)
LEMMA PublishSound ==
  ASSUME EInv, [Next]_vars, NEW p \in Publisher, Publish(p)
  PROVE  pub' \in [Publisher -> Place] /\ \A x \in Publisher : Sound(x)'
<1> USE ConstantsAssumption
<1>0. Types /\ PublisherInv /\ pub[p] \in Place /\ pub \in [Publisher -> Place]
  BY Zenon DEF EInv, Types
<1>1. ASSUME NEW q, Moved(p, q), UNCHANGED owner, Sound(p)'
      PROVE  pub' \in [Publisher -> Place] /\ \A x \in Publisher : Sound(x)'
  BY Zenon, <1>1, StillSound DEF Moved
<1>2. CASE Acquire(p)
  <2> DEFINE q == [pc |-> "next", event |-> 0, left |-> BatchLimit]
  <2>1. q \in Place
    BY DEF Place
  <2>2. Moved(p, q) /\ owner = None /\ owner' = p
    BY Zenon, <1>0, <1>2, <2>1, MovedType DEF Acquire
  <2>3. \A x \in Publisher : pub[x].pc = "out"
    BY Zenon, <1>0, <2>2 DEF PublisherInv, Sound
  <2>4. \A x \in Publisher : x # p => Sound(x)'
    BY Zenon, <2>2, <2>3, StillSound DEF Moved
  <2>5. Sound(p)'
    BY <2>2 DEF Sound, Moved
  <2> QED BY Zenon, <2>2, <2>4, <2>5 DEF Moved
<1>3. CASE ReadNext(p)
  <2>0. UNCHANGED owner /\ owner = p
    BY Zenon, <1>0, <1>3 DEF ReadNext, PublisherInv, Sound
  <2>1. CASE pub[p].left > 0 /\ \E e \in HeadPending : event[e].due
    <3>1. PICK h \in HeadPending : h = CHOOSE e \in HeadPending : TRUE
      BY Zenon, <2>1
    <3> DEFINE q == [pub[p] EXCEPT !.pc = "posting", !.event = h]
    <3>2. pub' = [pub EXCEPT ![p] = q]
      BY Zenon, <1>0, <1>3, <2>1, <3>1 DEF ReadNext
    <3>3. Released(h) /\ h \in Nat
      BY HeadReleased DEF Released, Id, EInv, Types
    <3>4. q \in Place /\ q.pc = "posting" /\ q.event = h
      BY Zenon, <1>0, <3>3 DEF Place
    <3>5. Moved(p, q)
      BY ZenonT(60), <1>0, <3>2, <3>4, MovedType
    <3>6. Released(h)'
      BY Zenon, <3>3, ReleasedStays
    <3>7. pub'[p].pc = "posting" /\ pub'[p].event = h
      BY Zenon, <3>4, <3>5 DEF Moved
    <3>8. Sound(p)'
      BY Zenon, <2>0, <3>6, <3>7 DEF Sound, Released, Lower, Counts
    <3> QED BY Zenon, <1>1, <2>0, <3>5, <3>8
  <2>2. CASE ~(pub[p].left > 0 /\ \E e \in HeadPending : event[e].due)
    <3> DEFINE q == [pub[p] EXCEPT !.pc = "prune", !.event = 0]
    <3>1. pub' = [pub EXCEPT ![p] = q]
      BY Zenon, <1>0, <1>3, <2>2 DEF ReadNext
    <3>2. q \in Place /\ q.pc = "prune"
      BY Zenon, <1>0 DEF Place
    <3>3. Moved(p, q)
      BY ZenonT(60), <1>0, <3>1, <3>2, MovedType
    <3>4. Sound(p)'
      BY Zenon, <2>0, <3>2, <3>3 DEF Sound, Moved
    <3> QED BY Zenon, <1>1, <2>0, <3>3, <3>4
  <2> QED BY Zenon, <2>1, <2>2
<1>4. CASE Post(p)
  <2>0. UNCHANGED owner /\ owner = p /\ pub[p].pc = "posting" /\ Released(pub[p].event)
    BY Zenon, <1>0, <1>4 DEF Post, PublisherInv, Sound
  <2>1. PICK c \in {"accepted", "failed"} :
          /\ pub' = [pub EXCEPT ![p].pc = c]
          /\ c = "accepted" => hub' = Accept(pub[p].event)
    BY Zenon, <1>4 DEF Post
  <2> DEFINE q == [pub[p] EXCEPT !.pc = c]
  <2>2. pub' = [pub EXCEPT ![p] = q]
    BY Zenon, <1>0, <2>1
  <2>3. q \in Place /\ q.pc = c /\ q.event = pub[p].event
    BY Zenon, <1>0 DEF Place
  <2>4. Moved(p, q)
    BY ZenonT(60), <1>0, <2>2, <2>3, MovedType
  <2>5. PICK e \in Id : e = pub[p].event
    BY Zenon, <2>0 DEF Released
  <2>6. pub'[p].pc = c /\ pub'[p].event = e
    BY Zenon, <2>3, <2>4, <2>5 DEF Moved
  <2>7. Released(e)'
    BY Zenon, <2>0, <2>5, ReleasedStays
  <2>8. c = "accepted" => e \in Range(hub)'
    <3>0. hub \in Seq(Nat) /\ e \in Nat
      BY <1>0, <2>5 DEF Types, Id
    <3>1. ASSUME hub' = Append(hub, e) PROVE e \in Range(hub)'
      <4>1. Len(hub) + 1 \in DOMAIN hub' /\ hub'[Len(hub) + 1] = e
        BY <3>0, <3>1
      <4> QED BY Zenon, <4>1 DEF Range
    <3>2. e \in Range(hub) => e \in Range(hub)'
      BY Zenon, HubGrows
    <3> QED BY Zenon, <2>1, <2>5, <3>1, <3>2 DEF Accept
  <2>9. Sound(p)'
    BY Zenon, <2>0, <2>6, <2>7, <2>8 DEF Sound, Released, Lower, Counts
  <2> QED BY Zenon, <1>1, <2>0, <2>4, <2>9
<1>5. CASE Settle(p) \/ Prune(p)
  <2>0. UNCHANGED owner /\ owner = p
    BY Zenon, <1>0, <1>5 DEF Settle, Prune, PublisherInv, Sound
  <2>1. PICK c \in {"next", "prune"}, n \in Nat, l \in Int :
          pub' = [pub EXCEPT ![p] = [pub[p] EXCEPT !.pc = c, !.event = n, !.left = l]]
    <3>1. CASE Settle(p) /\ Acknowledged(p)
      <4>1. pub' = [pub EXCEPT ![p] = [pub[p] EXCEPT !.pc = "next", !.event = 0, !.left = @ - 1]]
        BY Zenon, <1>0, <3>1 DEF Settle
      <4>2. pub[p].left - 1 \in Int
        BY <1>0 DEF Place
      <4> QED BY ZenonT(60), <4>1, <4>2
    <3>2. CASE Settle(p) /\ ~Acknowledged(p)
      <4>1. pub' = [pub EXCEPT ![p] = [pub[p] EXCEPT !.pc = "prune", !.event = 0]]
        BY Zenon, <1>0, <3>2 DEF Settle
      <4>2. pub[p].left \in Int /\ [pub[p] EXCEPT !.pc = "prune", !.event = 0]
                                    = [pub[p] EXCEPT !.pc = "prune", !.event = 0, !.left = pub[p].left]
        BY Zenon, <1>0 DEF Place
      <4> QED BY Zenon, <4>1, <4>2
    <3>3. CASE Prune(p)
      <4>1. pub' = [pub EXCEPT ![p] = [pub[p] EXCEPT !.pc = "next", !.left = BatchLimit]]
        BY Zenon, <1>0, <3>3 DEF Prune
      <4>2. pub[p].event \in Nat /\ [pub[p] EXCEPT !.pc = "next", !.left = BatchLimit]
                                     = [pub[p] EXCEPT !.pc = "next", !.event = pub[p].event, !.left = BatchLimit]
        BY Zenon, <1>0 DEF Place
      <4>3. BatchLimit \in Int
        OBVIOUS
      <4> QED BY Zenon, <4>1, <4>2, <4>3
    <3> QED BY ZenonT(60), <1>5, <3>1, <3>2, <3>3
  <2> DEFINE q == [pub[p] EXCEPT !.pc = c, !.event = n, !.left = l]
  <2>2. q \in Place /\ q.pc = c
    BY Zenon, <1>0 DEF Place
  <2>3. Moved(p, q)
    BY ZenonT(60), <1>0, <2>1, <2>2, MovedType
  <2>4. Sound(p)'
    BY Zenon, <2>0, <2>2, <2>3 DEF Sound, Moved
  <2> QED BY Zenon, <1>1, <2>0, <2>3, <2>4
<1> QED BY Zenon, <1>2, <1>3, <1>4, <1>5 DEF Publish

(* A lost session releases the lock, and its post may still arrive.         *)
LEMMA LossSound ==
  ASSUME EInv, [Next]_vars, NEW p \in Publisher, SessionLost(p)
  PROVE  /\ pub' \in [Publisher -> Place] /\ \A x \in Publisher : Sound(x)'
         /\ \A e \in late' : Released(e)
<1> USE ConstantsAssumption
<1>0. Types /\ PublisherInv /\ owner = p /\ owner # None
  BY Zenon DEF EInv, SessionLost
<1>1. Outside \in Place /\ Outside.pc = "out"
  BY DEF Outside, Place
<1>2. Moved(p, Outside)
  BY ZenonT(60), <1>0, <1>1, MovedType DEF SessionLost
<1>3. Sound(p)'
  BY Zenon, <1>1, <1>2 DEF Sound, Moved
<1>4. ASSUME NEW x \in Publisher, x # p PROVE Sound(x)'
  <2>1. pub[x].pc = "out" /\ pub'[x] = pub[x]
    BY Zenon, <1>0, <1>2, <1>4 DEF PublisherInv, Sound, Moved
  <2> QED BY Zenon, <2>1, StillSound
<1>5. \A e \in late' : Released(e)
  BY Zenon, <1>0 DEF SessionLost, PublisherInv, Sound
<1> QED BY Zenon, <1>2, <1>3, <1>4, <1>5 DEF Moved

(* Writers, time, operators and late posts leave the publishers alone.      *)
LEMMA PublisherStep ==
  ASSUME EInv, [Next]_vars
  PROVE  pub' \in [Publisher -> Place] /\ late' \subseteq Nat /\ PublisherInv'
<1>0. Types /\ PublisherInv
  BY Zenon DEF EInv
<1>1. /\ pub' \in [Publisher -> Place] /\ \A x \in Publisher : Sound(x)'
      /\ \A e \in late' : Released(e)
  <2>1. ASSUME NEW p \in Publisher, Publish(p) PROVE <1>1
    <3>1. UNCHANGED late
      BY Zenon, <2>1 DEF Publish, Acquire, ReadNext, Post, Settle, Prune
    <3> QED BY Zenon, <1>0, <2>1, <3>1, PublishSound DEF PublisherInv
  <2>2. ASSUME NEW p \in Publisher, SessionLost(p) PROVE <1>1
    BY Zenon, <2>2, LossSound
  <2>3. ASSUME UNCHANGED <<pub, owner>>, late' \subseteq late PROVE <1>1
    BY Zenon, <1>0, <2>3, StillSound DEF Types, PublisherInv
  <2>4. CASE \/ \E w \in Writer : Commit(w) \/ Rollback(w) \/ \E r \in Resource : Write(w, r)
             \/ \E e \in Id : LatePost(e) \/ Due(e)
             \/ Maintain
             \/ UNCHANGED vars
    <3>1. UNCHANGED <<pub, owner>> /\ late' \subseteq late
      BY ZenonT(60), <2>4 DEF Commit, Rollback, Write, LatePost, Due, Maintain, vars
    <3> QED BY Zenon, <2>3, <3>1
  <2> QED BY Zenon, <2>1, <2>2, <2>4 DEF Next
<1>2. late' \subseteq Nat
  BY <1>1 DEF Released, Id
<1>3. \A e \in late' : Released(e)'
  BY Zenon, <1>1, ReleasedStays
<1> QED BY Zenon, <1>1, <1>2, <1>3 DEF PublisherInv

(* Revisions, transactions and events keep their types.                     *)
LEMMA TypesStep == ASSUME EInv, [Next]_vars PROVE Types'
<1>0. Types
  BY Zenon DEF EInv
<1>1. /\ revision' \in [Resource -> Nat]
      /\ writer' \in [Writer -> [resource : Resource \cup {None}, event : Nat]]
      /\ event' \in Seq(Event)
  <2>1. ASSUME NEW w \in Writer, NEW r \in Resource, Write(w, r) PROVE <1>1
    <3>1. UNCHANGED revision /\ event' \in Seq(Event)
      BY ZenonT(60), <1>0, <2>1, WriteEffect
    <3>2. Len(event) + 1 \in Nat
      BY <1>0 DEF Types
    <3>3. writer' \in [Writer -> [resource : Resource \cup {None}, event : Nat]]
      <4> DEFINE T == [resource : Resource \cup {None}, event : Nat]
      <4>1. PICK x \in Nat : writer' = [writer EXCEPT ![w] = [resource |-> r, event |-> x]]
        BY ZenonT(60), <2>1, <3>2 DEF Write
      <4>2. [resource |-> r, event |-> x] \in T /\ writer \in [Writer -> T]
        BY Zenon, <1>0 DEF Types
      <4> HIDE DEF T
      <4>3. writer' \in [Writer -> T]
        BY Zenon, <4>1, <4>2
      <4> QED BY Zenon, <4>3 DEF T
    <3> QED BY Zenon, <1>0, <3>1, <3>3 DEF Types
  <2>2. ASSUME NEW w \in Writer, Commit(w) \/ Rollback(w) PROVE <1>1
    <3>1. writer' \in [Writer -> [resource : Resource \cup {None}, event : Nat]]
      <4> DEFINE T == [resource : Resource \cup {None}, event : Nat]
      <4>1. writer' = [writer EXCEPT ![w] = Closed]
        BY Zenon, <2>2 DEF Commit, Rollback
      <4>2. Closed \in T /\ writer \in [Writer -> T]
        BY Zenon, <1>0 DEF Types, Closed
      <4> HIDE DEF T
      <4>3. writer' \in [Writer -> T]
        BY Zenon, <4>1, <4>2
      <4> QED BY Zenon, <4>3 DEF T
    <3>2. event' \in Seq(Event)
      BY <1>0, <2>2, SetEffect DEF Commit, Rollback, Status
    <3>3. revision' \in [Resource -> Nat]
      BY SMTT(60), <1>0, <2>2 DEF Commit, Rollback, Types
    <3> QED BY Zenon, <3>1, <3>2, <3>3
  <2>3. ASSUME Handling PROVE <1>1
    BY Zenon, <1>0, <2>3 DEF Handling, Types
  <2> QED BY Zenon, <2>1, <2>2, <2>3, HandlingSteps DEF Next
<1>2. hub' \in Seq(Nat) /\ pub' \in [Publisher -> Place] /\ late' \subseteq Nat
  BY Zenon, HubGrows, PublisherStep
<1> QED BY Zenon, <1>1, <1>2 DEF Types

(* The outbox starts empty, with no transaction and no publisher.           *)
LEMMA EInit == Init => EInv
<1> SUFFICES ASSUME Init PROVE EInv
  OBVIOUS
<1>1. Id = {} /\ DOMAIN hub = {} /\ late = {}
  BY DEF Init, Id
<1>2. Outside \in Place /\ Outside.pc = "out"
  BY DEF Outside, Place
<1>3. Types
  BY <1>2 DEF Init, Types, Closed
<1>4. WriterInv
  <2>1. \A w \in Writer : writer[w].resource = None /\ writer[w].event = 0
    BY Zenon DEF Init, Closed
  <2> QED BY Zenon, <1>1, <2>1 DEF WriterInv
<1>5. OrderInv
  BY Zenon, <1>1 DEF OrderInv
<1>6. PublisherInv
  BY Zenon, <1>1, <1>2 DEF Init, PublisherInv, Sound
<1>7. HubInv
  BY Zenon, <1>1 DEF HubInv, In
<1> QED BY Zenon, <1>3, <1>4, <1>5, <1>6, <1>7 DEF EInv

(* Every step keeps the invariant.                                          *)
LEMMA EStep == EInv /\ [Next]_vars => EInv'
<1> SUFFICES ASSUME EInv, [Next]_vars PROVE EInv'
  OBVIOUS
<1>1. WriterInv' /\ OrderInv'
  <2>1. ASSUME NEW w \in Writer, NEW r \in Resource, Write(w, r) PROVE <1>1
    BY Zenon, <2>1, WriteOrder
  <2>2. ASSUME NEW w \in Writer, Commit(w) \/ Rollback(w) PROVE <1>1
    BY Zenon, <2>2, EndOrder
  <2> QED BY Zenon, <2>1, <2>2, HandlingSteps, HandlingOrder DEF Next
<1> QED BY Zenon, <1>1, TypesStep, PublisherStep, HubStep DEF EInv

(* In every behaviour the invariant holds throughout.                       *)
LEMMA EInvariant == Spec => []EInv
BY EInit, EStep, PTL DEF Spec

(* The hub first hears of the revisions of a job or run in their order,     *)
(* however writers overlap, roll back or commit out of the order of ids,    *)
(* posts fail or arrive after their session died, and publishers succeed    *)
(* each other under the lock (publish_pending, next_pending_event).         *)
THEOREM HubHearsInOrder == Spec => []RevisionsInOrder
<1>1. EInv => RevisionsInOrder
  <2> SUFFICES ASSUME EInv, NEW d \in Id, NEW e \in Id, Lower(d, e), Counts(d), e \in Range(hub)
               PROVE  Before(d, e)
    BY Zenon DEF RevisionsInOrder, Lower, Counts
  <2>1. PICK k \in DOMAIN hub : hub[k] = e
    BY Zenon DEF Range
  <2>2. PICK i \in DOMAIN hub : i < k /\ hub[i] = d
    BY Zenon, <2>1 DEF EInv, HubInv
  <2> QED BY Zenon, <2>1, <2>2 DEF Before
<1> QED BY <1>1, EInvariant, PTL

(* No notification is lost or invented: what acknowledge_event marks as     *)
(* delivered, and prune_events later deletes, the hub has accepted, and the *)
(* hub has nothing of a transaction that is open or was rolled back.        *)
THEOREM NothingLostOrInvented == Spec => []DeliveredWasAccepted
<1>1. EInv => DeliveredWasAccepted
  <2> SUFFICES ASSUME EInv PROVE DeliveredWasAccepted
    OBVIOUS
  <2>1. \A e \in Range(hub) : event[e].status \in Committed
    BY Zenon DEF EInv, HubInv, Range
  <2>2. Range(hub) \cap (In("aborted") \cup In("open")) = {}
    BY Zenon, <2>1 DEF In, Committed
  <2> QED BY Zenon, <2>2 DEF EInv, HubInv, DeliveredWasAccepted
<1> QED BY <1>1, EInvariant, PTL
===============================================================================
