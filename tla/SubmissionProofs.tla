--------------------------- MODULE SubmissionProofs ---------------------------
(***************************************************************************)
(* Proofs about Submission: a key names one run for ever, and submissions  *)
(* side by side admit no more runs than the policy allows.                 *)
(***************************************************************************)
EXTENDS Submission, Integers, TLAPS

CallPc == {"idle", "calling", "policy", "locked", "creating", "admitted"}
Busy == CallPc \ {"idle"}
Holding == {"locked", "creating", "admitted"}

Run == [workspace : Workspace, request : Request, jobs : {Jobs(r) : r \in Request}]
AnswerOf == [id : Id, request : Request, kind : {"created", "replayed", "conflict", "rejected"}, run : Nat]

CallState == [pc : CallPc, id : Id \cup {None}, request : Request \cup {None}]

Types ==
  /\ run \in Seq(Run) /\ limit \in [Workspace -> Nat]
  /\ sub \in [Id -> Stored \cup {None}]
  /\ handler \in [Client -> CallState]
  /\ \A c \in Client : handler[c].pc \in Busy => handler[c].id \in Id /\ handler[c].request \in Request
  /\ answered \subseteq AnswerOf

(* The record of a key is of a run of its workspace, made for the request  *)
(* that the record stands for.                                             *)
KeyStored(i) ==
  sub[i] # None =>
    /\ sub[i].run \in 1 .. Len(run)
    /\ run[sub[i].run].request = StoredRequest(sub[i])
    /\ run[sub[i].run].jobs = Jobs(StoredRequest(sub[i]))

(* An answer that gives a run repeats the record of its key.               *)
AnswerKept(a) ==
  a.kind \in {"created", "replayed"} =>
    sub[a.id] # None /\ sub[a.id].run = a.run /\ StoredRequest(sub[a.id]) = a.request

(* The lock of a key has one holder, and while it creates a run for the    *)
(* key the key stays unused.                                               *)
KeyHeld(c) ==
  /\ handler[c].pc \in Holding => \A d \in Client \ {c} : handler[d].pc \in Holding => handler[d].id # handler[c].id
  /\ handler[c].pc \in {"creating", "admitted"} => sub[handler[c].id] = None

(* The quota of a workspace has one holder, for whom there is still room.  *)
QuotaOf(c) ==
  handler[c].pc = "admitted" =>
    /\ \A d \in Client \ {c} : handler[d].pc = "admitted" => handler[d].id[1] # handler[c].id[1]
    /\ Cardinality(RunsOf(handler[c].id[1])) < limit[handler[c].id[1]]

SInv ==
  /\ Types
  /\ \A i \in Id : KeyStored(i)
  /\ \A a \in answered : AnswerKept(a)
  /\ \A c \in Client : KeyHeld(c) /\ QuotaOf(c)

-----------------------------------------------------------------------------
(* Steps of one call.                                                      *)

(* A server goes on with one call and leaves the others alone.             *)
LEMMA ToEffect ==
  ASSUME Types, NEW c \in Client, NEW p \in CallPc, handler[c].pc \in Busy, To(c, p)
  PROVE  /\ handler' \in [Client -> CallState]
         /\ handler'[c].pc = p /\ handler'[c].id = handler[c].id /\ handler'[c].request = handler[c].request
         /\ \A d \in Client \ {c} : handler'[d] = handler[d]
         /\ \A d \in Client : handler'[d].pc \in Busy => handler'[d].id \in Id /\ handler'[d].request \in Request
<1>1. handler[c] \in CallState
  BY Zenon DEF Types
<1>2. [handler[c] EXCEPT !.pc = p] \in CallState
  BY Zenon, <1>1 DEF CallState
<1>3. handler' = [handler EXCEPT ![c] = [handler[c] EXCEPT !.pc = p]]
  BY Zenon DEF To
<1> QED
  BY Zenon, <1>1, <1>2, <1>3 DEF Types, CallState

(* An answer says what the server found for the call.                      *)
LEMMA AnswerEffect ==
  ASSUME Types, NEW c \in Client, handler[c].pc \in Busy, NEW n \in Nat,
         NEW kind \in {"created", "replayed", "conflict", "rejected"}, Answer(c, kind, n)
  PROVE  /\ answered' \subseteq AnswerOf
         /\ \A a \in answered' : \/ a \in answered
                                 \/ /\ a.id = handler[c].id /\ a.request = handler[c].request
                                    /\ a.kind = kind /\ a.run = n
  BY DEF Types, Answer, AnswerOf

(* What a step that changes neither runs nor records has to show.          *)
LEMMA NothingStored ==
  ASSUME SInv, UNCHANGED <<run, sub>>
  PROVE  /\ \A i \in Id : KeyStored(i)'
         /\ \A a \in answered : AnswerKept(a)'
         /\ \A w \in Workspace : RunsOf(w)' = RunsOf(w)
  BY Zenon DEF SInv, KeyStored, AnswerKept, RunsOf, StoredRequest

(* A call that goes where it holds no key needs no care.                   *)
LEMMA LetsGo ==
  ASSUME SInv, UNCHANGED <<run, sub, limit>>, NEW c \in Client, handler'[c].pc \notin Holding,
         \A d \in Client \ {c} : handler'[d] = handler[d]
  PROVE  \A d \in Client : KeyHeld(d)' /\ QuotaOf(d)'
<1> SUFFICES ASSUME NEW d \in Client PROVE KeyHeld(d)' /\ QuotaOf(d)'
  OBVIOUS
<1>1. CASE d = c
  BY Zenon, <1>1 DEF KeyHeld, QuotaOf, Holding
<1>2. CASE d # c
  <2>1. KeyHeld(d) /\ QuotaOf(d) /\ handler'[d] = handler[d]
    BY Zenon, <1>2 DEF SInv
  <2>2. \A e \in Client \ {d} : handler'[e].pc \in Holding => handler'[e] = handler[e]
    OBVIOUS
  <2>3. KeyHeld(d)'
    BY Zenon, <2>1, <2>2 DEF KeyHeld
  <2>5. RunsOf(handler[d].id[1])' = RunsOf(handler[d].id[1])
    BY Zenon, <2>1 DEF RunsOf
  <2>6. \A e \in Client \ {d} : handler'[e].pc = "admitted" => handler'[e] = handler[e]
    BY Zenon, <2>2 DEF Holding
  <2> QED
    BY Zenon, <2>1, <2>3, <2>5, <2>6 DEF QuotaOf
<1> QED
  BY Zenon, <1>1, <1>2

-----------------------------------------------------------------------------
(* The invariant.                                                          *)

(* The first state satisfies it: an older version's record, if any, names   *)
(* its run.                                                                *)
LEMMA InitSInv == ASSUME SubmissionInit PROVE SInv
<1>1. Types
  <2>1. run \in Seq(Run)
    <3>1. CASE run = <<>>
      BY <3>1
    <3>2. ASSUME NEW i \in Id,
                 run = <<[workspace |-> i[1], request |-> [op |-> "import", body |-> "bounded"], jobs |-> ImportJobs]>>
          PROVE  run \in Seq(Run)
      <4>1. Jobs([op |-> "import", body |-> "bounded"]) = ImportJobs
        BY Zenon DEF Jobs
      <4>2. PICK x \in Run : run = <<x>>
        BY Zenon, <3>2, <4>1, SubmissionAssumption DEF Run, Id
      <4>3. <<x>> \in Seq(Run)
        OBVIOUS
      <4> QED
        BY Zenon, <4>2, <4>3
    <3> QED
      BY Zenon, <3>1, <3>2 DEF SubmissionInit
  <2>2. sub \in [Id -> Stored \cup {None}]
    BY DEF SubmissionInit, Stored
  <2>3. handler \in [Client -> CallState] /\ \A c \in Client : handler[c].pc \notin Busy
    BY Zenon DEF SubmissionInit, CallState, CallPc, Busy
  <2> QED
    BY Zenon, <2>1, <2>2, <2>3 DEF SubmissionInit, Types, NoLimit
<1>2. ASSUME NEW i \in Id PROVE KeyStored(i)
  <2>1. CASE sub = [k \in Id |-> None]
    BY Zenon, <2>1 DEF KeyStored
  <2>2. ASSUME NEW j \in Id,
               run = <<[workspace |-> j[1], request |-> [op |-> "import", body |-> "bounded"], jobs |-> ImportJobs]>>,
               sub = [k \in Id |-> IF k = j THEN [op |-> "import", body |-> "legacy", run |-> 1] ELSE None]
        PROVE  KeyStored(i)
    <3>1. Jobs([op |-> "import", body |-> "bounded"]) = ImportJobs
      BY Zenon DEF Jobs
    <3>2. StoredRequest([op |-> "import", body |-> "legacy", run |-> 1]) = [op |-> "import", body |-> "bounded"]
      BY Zenon DEF StoredRequest
    <3> QED
      BY <2>2, <3>1, <3>2 DEF KeyStored
  <2> QED
    BY Zenon, <2>1, <2>2 DEF SubmissionInit
<1>3. \A c \in Client : KeyHeld(c) /\ QuotaOf(c)
  BY Zenon DEF SubmissionInit, KeyHeld, QuotaOf, Holding
<1> QED
  BY Zenon, <1>1, <1>2, <1>3 DEF SInv, SubmissionInit

(* A client's call takes no lock.                                          *)
LEMMA CallKeeps ==
  ASSUME SInv, NEW c \in Client, NEW i \in Id, NEW r \in Request, Call(c, i, r)
  PROVE  SInv'
<1>1. /\ UNCHANGED <<run, sub, limit, answered>>
      /\ handler' = [handler EXCEPT ![c] = [pc |-> "calling", id |-> i, request |-> r]]
  BY Zenon DEF Call
<1>2. [pc |-> "calling", id |-> i, request |-> r] \in CallState
  BY Zenon DEF CallState, CallPc
<1>3. Types'
  BY Zenon, <1>1, <1>2 DEF SInv, Types
<1>4. handler'[c].pc \notin Holding /\ \A d \in Client \ {c} : handler'[d] = handler[d]
  BY Zenon, <1>1 DEF SInv, Types, Holding
<1> QED
  BY Zenon, <1>1, <1>3, <1>4, NothingStored, LetsGo DEF SInv

(* The first transaction tightens the policy of a workspace whose quota    *)
(* nobody holds.                                                           *)
LEMMA InstallPolicyKeeps ==
  ASSUME SInv, NEW c \in Client, InstallPolicy(c)
  PROVE  SInv'
<1>1. /\ UNCHANGED <<run, sub, answered>> /\ To(c, "policy") /\ handler[c].pc = "calling" /\ QuotaFree(handler[c].id[1])
      /\ limit' = [limit EXCEPT ![handler[c].id[1]] = IF Deployed[c] < @ THEN Deployed[c] ELSE @]
  BY Zenon DEF InstallPolicy
<1>2. Types /\ handler[c].pc \in Busy /\ "policy" \in CallPc /\ handler[c].id \in Id
  BY Zenon, <1>1 DEF SInv, Types, Busy, CallPc
<1>3. /\ handler' \in [Client -> CallState] /\ handler'[c].pc = "policy"
      /\ \A d \in Client \ {c} : handler'[d] = handler[d]
      /\ \A d \in Client : handler'[d].pc \in Busy => handler'[d].id \in Id /\ handler'[d].request \in Request
  BY Zenon, <1>1, <1>2, ToEffect
<1>4. limit' \in [Workspace -> Nat]
  BY Zenon, <1>1, <1>2, SubmissionAssumption DEF Types, Id
<1>5. Types'
  BY Zenon, <1>1, <1>2, <1>3, <1>4 DEF Types
<1>6. ASSUME NEW d \in Client PROVE KeyHeld(d)' /\ QuotaOf(d)'
  <2>1. KeyHeld(d) /\ QuotaOf(d)
    BY Zenon DEF SInv
  <2>2. \A e \in Client \ {d} : handler'[e].pc \in Holding => handler'[e] = handler[e]
    BY Zenon, <1>3 DEF Holding
  <2>3. \A e \in Client \ {d} : handler'[e].pc = "admitted" => handler'[e] = handler[e]
    BY Zenon, <1>3
  <2>4. CASE d = c
    BY Zenon, <1>3, <2>4 DEF KeyHeld, QuotaOf, Holding
  <2>5. CASE d # c
    <3>1. handler'[d] = handler[d]
      BY Zenon, <1>3, <2>5
    <3>2. KeyHeld(d)'
      BY Zenon, <1>1, <2>1, <2>2, <3>1 DEF KeyHeld
    <3>3. handler[d].pc = "admitted" => handler[d].id[1] # handler[c].id[1]
      BY Zenon, <1>1 DEF QuotaFree
    <3>4. handler[d].pc = "admitted" => limit'[handler[d].id[1]] = limit[handler[d].id[1]]
      BY <1>1, <1>2, <3>3 DEF Types
    <3>5. RunsOf(handler[d].id[1])' = RunsOf(handler[d].id[1])
      BY Zenon, <1>1, <3>1 DEF RunsOf
    <3> QED
      BY Zenon, <2>1, <2>3, <3>1, <3>2, <3>4, <3>5 DEF QuotaOf
  <2> QED
    BY Zenon, <2>4, <2>5
<1> QED
  BY Zenon, <1>1, <1>5, <1>6, NothingStored DEF SInv

(* The key's lock is taken only if nobody holds it.                        *)
LEMMA LockSubmissionKeeps ==
  ASSUME SInv, NEW c \in Client, LockSubmission(c)
  PROVE  SInv'
<1>1. /\ UNCHANGED <<run, sub, limit, answered>> /\ To(c, "locked") /\ handler[c].pc = "policy"
      /\ KeyFree(handler[c].id)
  BY Zenon DEF LockSubmission
<1>2. Types /\ handler[c].pc \in Busy /\ "locked" \in CallPc
  BY Zenon, <1>1 DEF SInv, Types, Busy, CallPc
<1>3. /\ handler' \in [Client -> CallState] /\ handler'[c].pc = "locked" /\ handler'[c].id = handler[c].id
      /\ \A d \in Client \ {c} : handler'[d] = handler[d]
      /\ \A d \in Client : handler'[d].pc \in Busy => handler'[d].id \in Id /\ handler'[d].request \in Request
  BY Zenon, <1>1, <1>2, ToEffect
<1>4. Types'
  BY Zenon, <1>1, <1>2, <1>3 DEF Types
<1>5. ASSUME NEW d \in Client PROVE KeyHeld(d)' /\ QuotaOf(d)'
  <2>1. KeyHeld(d) /\ QuotaOf(d) /\ KeyHeld(c)
    BY Zenon DEF SInv
  <2>2. \A e \in Client \ {c} : handler[e].pc \in Holding => handler[e].id # handler[c].id
    BY Zenon, <1>1 DEF KeyFree, Holding
  <2>3. KeyHeld(d)'
    BY <1>1, <1>3, <2>1, <2>2 DEF KeyHeld, Holding
  <2>4. CASE d = c
    BY Zenon, <1>3, <2>3, <2>4 DEF QuotaOf
  <2>5. CASE d # c
    <3>1. handler'[d] = handler[d] /\ RunsOf(handler[d].id[1])' = RunsOf(handler[d].id[1])
      BY Zenon, <1>1, <1>3, <2>5 DEF RunsOf
    <3>2. \A e \in Client \ {d} : handler'[e].pc = "admitted" => handler'[e] = handler[e]
      BY Zenon, <1>3
    <3> QED
      BY Zenon, <1>1, <2>1, <2>3, <3>1, <3>2 DEF QuotaOf
  <2> QED
    BY Zenon, <2>4, <2>5
<1> QED
  BY Zenon, <1>1, <1>4, <1>5, NothingStored DEF SInv

(* A known key answers with its record, and only the same request.         *)
LEMMA LookUpKeeps ==
  ASSUME SInv, NEW c \in Client, LookUp(c)
  PROVE  SInv'
<1> DEFINE s == sub[handler[c].id]
<1>1. UNCHANGED <<run, sub, limit>> /\ handler[c].pc = "locked"
  BY Zenon DEF LookUp
<1>2. Types /\ handler[c].pc \in Busy /\ handler[c].pc \in Holding /\ "creating" \in CallPc /\ "idle" \in CallPc
      /\ handler[c].id \in Id
  BY Zenon, <1>1 DEF SInv, Types, Busy, CallPc, Holding
<1>3. CASE s = None
  <2>1. To(c, "creating") /\ UNCHANGED answered
    BY Zenon, <1>3 DEF LookUp
  <2>2. /\ handler' \in [Client -> CallState] /\ handler'[c].pc = "creating" /\ handler'[c].id = handler[c].id
        /\ \A d \in Client \ {c} : handler'[d] = handler[d]
        /\ \A d \in Client : handler'[d].pc \in Busy => handler'[d].id \in Id /\ handler'[d].request \in Request
    BY Zenon, <1>2, <2>1, ToEffect
  <2>3. Types'
    BY Zenon, <1>1, <1>2, <2>1, <2>2 DEF Types
  <2>4. ASSUME NEW d \in Client PROVE KeyHeld(d)' /\ QuotaOf(d)'
    <3>1. KeyHeld(d) /\ QuotaOf(d) /\ KeyHeld(c)
      BY Zenon DEF SInv
    <3>2. KeyHeld(d)'
      BY <1>1, <1>2, <1>3, <2>2, <3>1 DEF KeyHeld, Holding
    <3>3. CASE d = c
      BY Zenon, <2>2, <3>2, <3>3 DEF QuotaOf
    <3>4. CASE d # c
      <4>1. handler'[d] = handler[d] /\ RunsOf(handler[d].id[1])' = RunsOf(handler[d].id[1])
        BY Zenon, <1>1, <2>2, <3>4 DEF RunsOf
      <4>2. \A e \in Client \ {d} : handler'[e].pc = "admitted" => handler'[e] = handler[e]
        BY Zenon, <2>2
      <4> QED
        BY Zenon, <1>1, <3>1, <3>2, <4>1, <4>2 DEF QuotaOf
    <3> QED
      BY Zenon, <3>3, <3>4
  <2> QED
    BY Zenon, <1>1, <2>1, <2>3, <2>4, NothingStored DEF SInv
<1>4. CASE s # None
  <2>1. /\ To(c, "idle")
        /\ \/ StoredRequest(s) = handler[c].request /\ Answer(c, "replayed", s.run)
           \/ Answer(c, "conflict", 0)
    BY Zenon, <1>4 DEF LookUp
  <2>2. /\ handler' \in [Client -> CallState] /\ handler'[c].pc = "idle"
        /\ \A d \in Client \ {c} : handler'[d] = handler[d]
        /\ \A d \in Client : handler'[d].pc \in Busy => handler'[d].id \in Id /\ handler'[d].request \in Request
    BY Zenon, <1>2, <2>1, ToEffect
  <2>3. s \in Stored /\ s.run \in Nat
    BY Zenon, <1>2, <1>4 DEF Types, Stored
  <2>4. /\ answered' \subseteq AnswerOf
        /\ \A a \in answered' : \/ a \in answered \/ a.kind = "conflict"
                                \/ a.id = handler[c].id /\ a.request = StoredRequest(s) /\ a.run = s.run
    <3>1. CASE StoredRequest(s) = handler[c].request /\ Answer(c, "replayed", s.run)
      BY <1>2, <2>3, <3>1, AnswerEffect
    <3>2. CASE Answer(c, "conflict", 0)
      BY <1>2, <3>2, AnswerEffect
    <3> QED
      BY Zenon, <2>1, <3>1, <3>2
  <2>5. Types'
    BY Zenon, <1>1, <1>2, <2>2, <2>4 DEF Types
  <2>6. ASSUME NEW a \in answered' PROVE AnswerKept(a)'
    <3>1. a \in answered => AnswerKept(a)'
      BY Zenon, <1>1, NothingStored
    <3>2. a.id = handler[c].id /\ a.request = StoredRequest(s) /\ a.run = s.run => AnswerKept(a)'
      BY Zenon, <1>1, <1>4 DEF AnswerKept, StoredRequest
    <3>3. a.kind = "conflict" => AnswerKept(a)'
      BY Zenon DEF AnswerKept
    <3> QED
      BY Zenon, <2>4, <3>1, <3>2, <3>3
  <2>7. \A d \in Client : KeyHeld(d)' /\ QuotaOf(d)'
    BY Zenon, <1>1, <2>2, LetsGo DEF Holding
  <2> QED
    BY Zenon, <1>1, <2>5, <2>6, <2>7, NothingStored DEF SInv
<1> QED
  BY Zenon, <1>3, <1>4

(* A run is admitted only under the quota's lock and only if there is room. *)
LEMMA AdmitKeeps ==
  ASSUME SInv, NEW c \in Client, AdmitRunBudget(c)
  PROVE  SInv'
<1> DEFINE w == handler[c].id[1]
<1>1. UNCHANGED <<run, sub, limit>> /\ handler[c].pc = "creating" /\ QuotaFree(w)
  BY Zenon DEF AdmitRunBudget
<1>2. Types /\ handler[c].pc \in Busy /\ handler[c].pc \in Holding /\ "admitted" \in CallPc /\ "idle" \in CallPc
  BY Zenon, <1>1 DEF SInv, Types, Busy, CallPc, Holding
<1>3. CASE Cardinality(RunsOf(w)) < limit[w]
  <2>1. To(c, "admitted") /\ UNCHANGED answered
    BY Zenon, <1>3 DEF AdmitRunBudget
  <2>2. /\ handler' \in [Client -> CallState] /\ handler'[c].pc = "admitted" /\ handler'[c].id = handler[c].id
        /\ \A d \in Client \ {c} : handler'[d] = handler[d]
        /\ \A d \in Client : handler'[d].pc \in Busy => handler'[d].id \in Id /\ handler'[d].request \in Request
    BY Zenon, <1>2, <2>1, ToEffect
  <2>3. Types'
    BY Zenon, <1>1, <1>2, <2>1, <2>2 DEF Types
  <2>4. ASSUME NEW d \in Client PROVE KeyHeld(d)' /\ QuotaOf(d)'
    <3>1. KeyHeld(d) /\ QuotaOf(d) /\ KeyHeld(c)
      BY Zenon DEF SInv
    <3>2. KeyHeld(d)'
      BY Zenon, <1>1, <1>2, <2>2, <3>1 DEF KeyHeld, Holding
    <3>3. \A e \in Client \ {c} : handler[e].pc = "admitted" => handler[e].id[1] # w
      BY Zenon, <1>1 DEF QuotaFree
    <3>4. handler'[d].id = handler[d].id /\ RunsOf(handler[d].id[1])' = RunsOf(handler[d].id[1])
      BY Zenon, <1>1, <2>2 DEF RunsOf
    <3>5. QuotaOf(d)'
      <4>1. CASE d = c
        BY Zenon, <1>1, <1>3, <2>2, <3>3, <3>4, <4>1 DEF QuotaOf
      <4>2. CASE d # c
        BY <1>1, <2>2, <3>1, <3>3, <3>4, <4>2 DEF QuotaOf
      <4> QED
        BY Zenon, <4>1, <4>2
    <3> QED
      BY Zenon, <3>2, <3>5
  <2> QED
    BY Zenon, <1>1, <2>1, <2>3, <2>4, NothingStored DEF SInv
<1>4. CASE ~(Cardinality(RunsOf(w)) < limit[w])
  <2>1. To(c, "idle") /\ Answer(c, "rejected", 0)
    BY Zenon, <1>4 DEF AdmitRunBudget
  <2>2. /\ handler' \in [Client -> CallState] /\ handler'[c].pc = "idle"
        /\ \A d \in Client \ {c} : handler'[d] = handler[d]
        /\ \A d \in Client : handler'[d].pc \in Busy => handler'[d].id \in Id /\ handler'[d].request \in Request
    BY Zenon, <1>2, <2>1, ToEffect
  <2>3. answered' \subseteq AnswerOf /\ \A a \in answered' : a \in answered \/ a.kind = "rejected"
    BY <1>2, <2>1, AnswerEffect
  <2>4. Types'
    BY Zenon, <1>1, <1>2, <2>2, <2>3 DEF Types
  <2>5. \A a \in answered' : AnswerKept(a)'
    BY Zenon, <1>1, <2>3, NothingStored DEF AnswerKept
  <2>6. \A d \in Client : KeyHeld(d)' /\ QuotaOf(d)'
    BY Zenon, <1>1, <2>2, LetsGo DEF Holding
  <2> QED
    BY Zenon, <1>1, <2>4, <2>5, <2>6, NothingStored DEF SInv
<1> QED
  BY Zenon, <1>3, <1>4

(* The run, its jobs and its key appear together, for a key nobody else    *)
(* has locked and in a workspace whose quota nobody else holds.            *)
LEMMA CommitKeeps ==
  ASSUME SInv, NEW c \in Client, Commit(c)
  PROVE  SInv'
<1> DEFINE n == Len(run) + 1
           i == handler[c].id
           r == handler[c].request
           rec == [op |-> r.op, body |-> r.body, run |-> n]
           new == [workspace |-> i[1], request |-> r, jobs |-> Jobs(r)]
<1>1. /\ UNCHANGED limit /\ handler[c].pc = "admitted" /\ To(c, "idle") /\ Answer(c, "created", n)
      /\ run' = Append(run, new) /\ sub' = [sub EXCEPT ![i] = rec]
  BY Zenon DEF Commit, Record
<1>2. Types /\ handler[c].pc \in Busy /\ handler[c].pc \in Holding /\ "idle" \in CallPc
      /\ i \in Id /\ r \in Request /\ i[1] \in Workspace
  BY Zenon, <1>1 DEF SInv, Types, Busy, CallPc, Holding, Id
<1>3. Len(run) \in Nat /\ n \in Nat
  BY <1>2 DEF Types
<1>4. /\ handler' \in [Client -> CallState] /\ handler'[c].pc = "idle"
      /\ \A d \in Client \ {c} : handler'[d] = handler[d]
      /\ \A d \in Client : handler'[d].pc \in Busy => handler'[d].id \in Id /\ handler'[d].request \in Request
  BY Zenon, <1>1, <1>2, ToEffect
<1>5. /\ answered' \subseteq AnswerOf
      /\ \A a \in answered' : \/ a \in answered
                              \/ a.id = i /\ a.request = r /\ a.run = n
  BY <1>1, <1>2, <1>3, AnswerEffect
<1>6. rec \in Stored /\ rec # None /\ StoredRequest(rec) = r
  <2>1. r \in [op : {"import", "crawl", "upgrade", "resource"}, body : {x.body : x \in Request}]
        /\ (r.op = "import" => r.body # "legacy") /\ None \notin Stored
    BY Zenon, <1>2, SubmissionAssumption
  <2>2. rec \in Stored
    BY Zenon, <1>3, <2>1 DEF Stored
  <2>3. StoredRequest(rec) = [op |-> r.op, body |-> r.body]
    BY Zenon, <2>1 DEF StoredRequest
  <2> QED
    BY Zenon, <2>1, <2>2, <2>3
<1>7. new \in Run
  BY Zenon, <1>2 DEF Run
<1>8. /\ run' \in Seq(Run) /\ Len(run') = n /\ run'[n] = new /\ \A k \in 1 .. Len(run) : run'[k] = run[k]
  <2>1. run \in Seq(Run)
    BY Zenon, <1>2 DEF Types
  <2> HIDE DEF new
  <2> QED
    BY <1>1, <1>7, <2>1
<1>9. sub' \in [Id -> Stored \cup {None}] /\ sub'[i] = rec /\ \A k \in Id \ {i} : sub'[k] = sub[k]
  <2> HIDE DEF rec
  <2> QED
    BY Zenon, <1>1, <1>2, <1>6 DEF Types
<1>10. sub[i] = None
  BY Zenon, <1>1 DEF SInv, KeyHeld
<1>11. Types'
  BY Zenon, <1>1, <1>2, <1>4, <1>5, <1>8, <1>9 DEF Types
<1>12. ASSUME NEW k \in Id PROVE KeyStored(k)'
  <2>1. CASE k = i
    <3>1. StoredRequest(sub[k])' = r
      BY Zenon, <1>6, <1>9, <2>1 DEF StoredRequest
    <3>2. sub'[k].run = n
      BY <1>9, <2>1
    <3> QED
      BY <1>3, <1>8, <3>1, <3>2 DEF KeyStored
  <2>2. CASE k # i
    <3>1. sub'[k] = sub[k] /\ KeyStored(k) /\ StoredRequest(sub[k])' = StoredRequest(sub[k])
      BY Zenon, <1>9, <2>2 DEF SInv, StoredRequest
    <3> QED
      BY <1>3, <1>8, <3>1 DEF KeyStored
  <2> QED
    BY Zenon, <2>1, <2>2
<1>13. ASSUME NEW a \in answered' PROVE AnswerKept(a)'
  <2>1. CASE a \in answered
    <3>1. AnswerKept(a) /\ a.id \in Id
      BY Zenon, <1>2, <2>1 DEF SInv, Types, AnswerOf
    <3>2. a.kind \in {"created", "replayed"} => a.id # i
      BY Zenon, <1>10, <3>1 DEF AnswerKept
    <3> QED
      BY Zenon, <1>9, <3>1, <3>2 DEF AnswerKept, StoredRequest
  <2>2. CASE a.id = i /\ a.request = r /\ a.run = n
    BY <1>6, <1>9, <2>2 DEF AnswerKept, StoredRequest
  <2> QED
    BY Zenon, <1>5, <2>1, <2>2
<1>14. ASSUME NEW d \in Client PROVE KeyHeld(d)' /\ QuotaOf(d)'
  <2>1. KeyHeld(d) /\ QuotaOf(d) /\ KeyHeld(c) /\ QuotaOf(c)
    BY Zenon DEF SInv
  <2>2. CASE d = c
    BY Zenon, <1>4, <2>2 DEF KeyHeld, QuotaOf, Holding
  <2>3. CASE d # c
    <3>1. handler'[d] = handler[d]
      BY Zenon, <1>4, <2>3
    <3>2. \A e \in Client \ {d} : handler'[e].pc \in Holding => handler'[e] = handler[e]
      BY Zenon, <1>4 DEF Holding
    <3>3. handler[d].pc \in {"creating", "admitted"} => handler[d].id \in Id /\ handler[d].id # i
      BY Zenon, <1>2, <2>1, <2>3 DEF KeyHeld, Holding, Types, Busy, CallPc
    <3>4. KeyHeld(d)'
      BY <1>9, <2>1, <3>1, <3>2, <3>3 DEF KeyHeld
    <3>5. handler[d].pc = "admitted" => handler[d].id[1] # i[1]
      BY Zenon, <1>1, <2>1, <2>3 DEF QuotaOf
    <3>6. handler[d].pc = "admitted" => RunsOf(handler[d].id[1])' = RunsOf(handler[d].id[1])
      BY <1>3, <1>8, <1>2, <3>1, <3>5 DEF RunsOf, Types
    <3>7. \A e \in Client \ {d} : handler'[e].pc = "admitted" => handler'[e] = handler[e]
      BY Zenon, <1>4
    <3> QED
      BY Zenon, <1>1, <2>1, <3>1, <3>4, <3>6, <3>7 DEF QuotaOf
  <2> QED
    BY Zenon, <2>2, <2>3
<1> QED
  BY Zenon, <1>11, <1>12, <1>13, <1>14 DEF SInv

(* A rolled back transaction leaves nothing behind and frees its locks.    *)
LEMMA CrashKeeps ==
  ASSUME SInv, NEW c \in Client, Crash(c)
  PROVE  SInv'
<1>1. UNCHANGED <<run, sub, limit, answered>> /\ To(c, "idle") /\ handler[c].pc \notin {"idle", "calling"}
  BY Zenon DEF Crash
<1>2. Types /\ handler[c].pc \in Busy /\ "idle" \in CallPc
  BY Zenon, <1>1 DEF SInv, Types, Busy, CallPc, CallState
<1>3. /\ handler' \in [Client -> CallState] /\ handler'[c].pc = "idle"
      /\ \A d \in Client \ {c} : handler'[d] = handler[d]
      /\ \A d \in Client : handler'[d].pc \in Busy => handler'[d].id \in Id /\ handler'[d].request \in Request
  BY Zenon, <1>1, <1>2, ToEffect
<1>4. Types'
  BY Zenon, <1>1, <1>2, <1>3 DEF Types
<1>5. \A d \in Client : KeyHeld(d)' /\ QuotaOf(d)'
  BY Zenon, <1>1, <1>3, LetsGo DEF Holding
<1> QED
  BY Zenon, <1>1, <1>4, <1>5, NothingStored DEF SInv

(* Every step keeps the invariant.                                         *)
LEMMA NextKeeps == ASSUME SInv, [SubmissionNext]_submissionVars PROVE SInv'
<1>1. CASE UNCHANGED submissionVars
  <2>1. UNCHANGED <<run, sub, limit, handler, answered>>
    BY Zenon, <1>1 DEF submissionVars
  <2>2. Types'
    BY Zenon, <2>1 DEF SInv, Types
  <2>3. \A c \in Client : KeyHeld(c)' /\ QuotaOf(c)'
    BY Zenon, <2>1 DEF SInv, KeyHeld, QuotaOf, RunsOf
  <2> QED
    BY Zenon, <2>1, <2>2, <2>3, NothingStored DEF SInv
<1>2. ASSUME NEW c \in Client, Serve(c) PROVE SInv'
  BY Zenon, <1>2, InstallPolicyKeeps, LockSubmissionKeeps, LookUpKeeps, AdmitKeeps, CommitKeeps DEF Serve
<1> QED
  BY Zenon, <1>1, <1>2, CallKeeps, CrashKeeps DEF SubmissionNext

-----------------------------------------------------------------------------
(* What is needed of finite sets: the runs of a workspace can be counted.  *)
(* It is shown to hold at the end of this module.                          *)
Counted == \A n \in Nat : \A S \in SUBSET (1 .. n) : Cardinality(S) \in Nat

(* Only a commit adds a run, and it does so while there is room.           *)
LEMMA RoomForRun ==
  ASSUME Counted, SInv, SubmissionNext, Len(run') > Len(run)
  PROVE  Cardinality(RunsOf(run'[Len(run')].workspace)) + 1 <= limit[run'[Len(run')].workspace]
<1>0. Types /\ run \in Seq(Run) /\ Len(run) \in Nat /\ ~(Len(run) > Len(run))
  BY DEF SInv, Types
<1>1. PICK c \in Client : Commit(c)
  BY Zenon, <1>0 DEF SubmissionNext, Serve, Call, InstallPolicy, LockSubmission, LookUp, AdmitRunBudget, Crash
<1> DEFINE w == handler[c].id[1]
           new == [workspace |-> w, request |-> handler[c].request, jobs |-> Jobs(handler[c].request)]
<1>2. handler[c].pc = "admitted" /\ run' = Append(run, new) /\ new.workspace = w
  BY Zenon, <1>1 DEF Commit
<1>3. handler[c].id \in Id /\ w \in Workspace
  BY Zenon, <1>0, <1>2 DEF Types, Busy, CallPc, Id
<1>4. Cardinality(RunsOf(w)) < limit[w] /\ limit[w] \in Nat
  BY Zenon, <1>0, <1>2, <1>3 DEF SInv, QuotaOf, Types
<1>5. RunsOf(w) \in SUBSET (1 .. Len(run))
  BY <1>0 DEF RunsOf
<1>6. Cardinality(RunsOf(w)) \in Nat
  BY Zenon, <1>0, <1>5 DEF Counted
<1> HIDE DEF new
<1>7. run'[Len(run')] = new
  BY <1>0, <1>2
<1> HIDE DEF w
<1> QED
  BY <1>2, <1>4, <1>6, <1>7

(* With runs counted, every run is committed within the policy.            *)
LEMMA LimitAlways == Counted => (SubmissionSpec => AdmittedWithinLimit)
<1> SUFFICES ASSUME Counted PROVE SubmissionSpec => AdmittedWithinLimit
  OBVIOUS
<1>1. SubmissionInit => SInv
  BY Zenon, InitSInv
<1>2. SInv /\ [SubmissionNext]_submissionVars => SInv'
  BY Zenon, NextKeeps
<1>3. SInv /\ [SubmissionNext]_submissionVars => [RoomForNewRun]_submissionVars
  BY Zenon, RoomForRun DEF RoomForNewRun
<1> QED
  BY <1>1, <1>2, <1>3, PTL DEF SubmissionSpec, AdmittedWithinLimit

(* The invariant says what an answer says of its key.                      *)
LEMMA AnswersAgree ==
  ASSUME SInv
  PROVE  OneRunPerKey
<1> SUFFICES ASSUME NEW i \in Id, NEW a \in Given(i, {"created", "replayed"}), NEW b \in Given(i, {"created", "replayed"})
             PROVE  /\ a.run = b.run /\ a.request = b.request
                    /\ sub[i] # None /\ sub[i].run = a.run
                    /\ run[a.run].request = a.request /\ run[a.run].jobs = Jobs(a.request)
  BY Zenon DEF OneRunPerKey
<1>1. /\ a \in answered /\ a.id = i /\ a.kind \in {"created", "replayed"}
      /\ b \in answered /\ b.id = i /\ b.kind \in {"created", "replayed"}
  BY Zenon DEF Given
<1>2. AnswerKept(a) /\ AnswerKept(b) /\ KeyStored(i)
  BY Zenon, <1>1 DEF SInv
<1> QED
  BY Zenon, <1>1, <1>2 DEF AnswerKept, KeyStored

(* A key names one run for ever (OneRunPerKey): whatever clients call side *)
(* by side, retry after lost answers or crashes, the submission code gives *)
(* every one of them the run that the key's record names.                  *)
THEOREM KeyNamesOneRun == SubmissionSpec => []OneRunPerKey
<1>1. SubmissionInit => SInv
  BY Zenon, InitSInv
<1>2. SInv /\ [SubmissionNext]_submissionVars => SInv'
  BY Zenon, NextKeeps
<1>3. SInv => OneRunPerKey
  BY Zenon, AnswersAgree
<1> QED
  BY <1>1, <1>2, <1>3, PTL DEF SubmissionSpec

-----------------------------------------------------------------------------
(* Finite sets, needed from here on only.                                  *)

INSTANCE FiniteSetTheorems

(* Sets of numbers below a bound can be counted.                           *)
LEMMA IntervalsAreCounted == Counted
<1> SUFFICES ASSUME NEW n \in Nat, NEW S \in SUBSET (1 .. n) PROVE Cardinality(S) \in Nat
  BY Zenon DEF Counted
<1>1. IsFiniteSet(1 .. n)
  BY FS_Interval
<1>2. IsFiniteSet(S)
  BY Zenon, <1>1, FS_Subset
<1> QED
  BY Zenon, <1>2, FS_CardinalityType

(* A run is committed only while the workspace has room under the policy   *)
(* then in force (AdmittedWithinLimit): the quota's lock spans the check   *)
(* of admit_run_budget and the commit.                                     *)
THEOREM LimitOfRuns == SubmissionSpec => AdmittedWithinLimit
BY IntervalsAreCounted, LimitAlways, PTL

===============================================================================
