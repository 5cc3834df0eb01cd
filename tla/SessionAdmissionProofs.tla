------------------------ MODULE SessionAdmissionProofs ------------------------
(***************************************************************************)
(* For any set of threads and any limit: permits are conserved, and the    *)
(* process stays within its limit of sessions.  The deque of waiters plays *)
(* no part in that: whom a release wakes changes who is admitted, never    *)
(* how many.  It is what the last theorem is about: no wakeup is lost.     *)
(***************************************************************************)
EXTENDS SessionAdmission, Integers, FiniteSetTheorems, SequenceTheorems, TLAPS

\* The types the argument needs: everything but the deque.
Shape ==
    /\ call \in [Threads -> Phases]
    /\ active \in Nat
    /\ native \in [Threads -> BOOLEAN]
    /\ released \in [Threads -> BOOLEAN]
    /\ closer \in [Threads -> [Closers -> {"no", "closing", "closed"}]]

\* What ties a thread's permit, session and closers together.
Held ==
    \A t \in Threads :
        /\ native[t] => ~released[t] /\ call[t] = "open"
        /\ call[t] = "connecting" => ~released[t]
        /\ ~released[t] => call[t] \in {"connecting", "open"}
        /\ \A k \in Closers :
              /\ closer[t][k] # "no" => call[t] = "open"
              /\ closer[t][k] = "closing" => ~native[t]
              /\ closer[t][k] = "closed" => released[t]

Counted == active = Cardinality(Outstanding) /\ active <= max_connections

IInv == Shape /\ Held /\ Counted

-----------------------------------------------------------------------------

\* The permits that are out form a finite set, so they can be counted.
LEMMA OutstandingFinite == IsFiniteSet(Outstanding)
  BY Zenon, ThreadsFinite, FS_Subset DEF Outstanding

\* Admitting a thread that holds no permit adds one to the count.
LEMMA AdmitCounts ==
  ASSUME IInv, NEW t \in Threads, Admit(t), released[t], UNCHANGED native
  PROVE  Counted'
  <1>1. Outstanding' = Outstanding \cup {t}
    BY Zenon DEF Outstanding, Admit, IInv, Shape
  <1>2. t \notin Outstanding
    BY Zenon DEF Outstanding
  <1>3. Cardinality(Outstanding') = Cardinality(Outstanding) + 1
    BY Zenon, <1>1, <1>2, OutstandingFinite, FS_AddElement
  <1>4. active' = active + 1 /\ active < max_connections
    BY Zenon DEF Admit
  <1> QED
    BY <1>3, <1>4, CapacityPositive DEF Counted, IInv, Shape

\* A release takes one off the count for a permit that is out, and nothing for one
\* that was returned before.
LEMMA ReleaseCounts ==
  ASSUME IInv, NEW t \in Threads, NEW c, Release(t, c)
  PROVE  /\ Counted'
         /\ active' \in Nat
         /\ released' = [released EXCEPT ![t] = TRUE]
  <1>1. CASE released[t]
    <2>1. active' = active /\ released' = released
      BY Zenon, <1>1 DEF Release
    <2>2. Outstanding' = Outstanding
      BY Zenon, <2>1 DEF Outstanding
    <2>3. released' = [released EXCEPT ![t] = TRUE]
      BY Zenon, <1>1, <2>1 DEF IInv, Shape
    <2> QED
      BY Zenon, <2>1, <2>2, <2>3 DEF Counted, IInv, Shape
  <1>2. CASE ~released[t]
    <2>1. active' = active - 1 /\ released' = [released EXCEPT ![t] = TRUE]
      BY Zenon, <1>2 DEF Release
    <2>2. t \in Outstanding
      BY Zenon, <1>2 DEF Outstanding
    <2>3. Outstanding' = Outstanding \ {t}
      BY Zenon, <2>1 DEF Outstanding, IInv, Shape
    <2>4. Cardinality(Outstanding') = Cardinality(Outstanding) - 1 /\ Cardinality(Outstanding) \in Nat
      BY Zenon, <2>2, <2>3, OutstandingFinite, FS_RemoveElement, FS_CardinalityType
    <2>5. Cardinality(Outstanding) # 0
      BY Zenon, <2>2, OutstandingFinite, FS_EmptySet
    <2>6. active = Cardinality(Outstanding) /\ active <= max_connections /\ active \in Nat
      BY Zenon DEF Counted, IInv, Shape
    <2>7. active' = Cardinality(Outstanding')
      BY Zenon, <2>1, <2>4, <2>6
    <2>8. active' \in Nat /\ active' <= max_connections
      BY <2>1, <2>4, <2>5, <2>6, CapacityPositive
    <2> QED
      BY Zenon, <2>1, <2>7, <2>8 DEF Counted
  <1> QED
    BY Zenon, <1>1, <1>2

\* Releasing changes at most one other thread's phase, and only from parked to woken.
LEMMA ReleaseWakes ==
  ASSUME NEW t \in Threads, NEW c \in [Threads -> Phases], Release(t, c)
  PROVE  /\ call' \in [Threads -> Phases]
         /\ \A u \in Threads : call'[u] = c[u] \/ (c[u] = "parked" /\ call'[u] = "woken")
  <1>1. call' = c \/ call' = Woken(c, Head(waiters))
    BY Zenon DEF Release
  <1>2. ASSUME NEW w
        PROVE  /\ Woken(c, w) \in [Threads -> Phases]
               /\ \A u \in Threads : Woken(c, w)[u] = c[u] \/ (c[u] = "parked" /\ Woken(c, w)[u] = "woken")
    BY Zenon DEF Woken, Phases
  <1> QED
    BY Zenon, <1>1, <1>2

-----------------------------------------------------------------------------

\* No connection is open in the first state.
LEMMA InitHolds == Init => IInv
  <1> SUFFICES ASSUME Init PROVE IInv
    OBVIOUS
  <1>1. Outstanding = {}
    BY Zenon DEF Init, Outstanding
  <1>2. Cardinality(Outstanding) = 0
    BY Zenon, <1>1, FS_EmptySet
  <1> QED
    BY <1>2, CapacityPositive DEF Init, IInv, Shape, Held, Counted, Phases, Closers, NotClosing

\* Taking a permit keeps the invariant, for a new call and for a woken one.
LEMMA AdmitKeeps ==
  ASSUME IInv, NEW t \in Threads, Admit(t), call[t] \notin {"connecting", "open"},
         UNCHANGED <<native, closer>>
  PROVE  IInv'
  <1>1. released[t] /\ ~native[t] /\ \A k \in Closers : closer[t][k] = "no"
    BY Zenon DEF IInv, Held, Shape
  <1>2. Counted'
    BY Zenon, <1>1, AdmitCounts
  <1>3. Shape'
    BY DEF IInv, Shape, Admit, Phases
  <1>4. Held'
    BY Zenon, <1>1 DEF IInv, Shape, Held, Admit, Phases
  <1> QED
    BY Zenon, <1>2, <1>3, <1>4 DEF IInv

\* A step that only moves a thread without a connection between idle and waiting.
LEMMA WaitingKeeps ==
  ASSUME IInv, NEW t \in Threads, NEW q \in {"idle", "parked", "late"},
         call[t] \notin {"connecting", "open"},
         call' = [call EXCEPT ![t] = q],
         UNCHANGED <<active, released, native, closer>>
  PROVE  IInv'
  <1>1. Shape'
    BY Zenon DEF IInv, Shape, Phases
  <1>2. Held'
    BY Zenon DEF IInv, Shape, Held, Phases
  <1>3. Counted'
    BY Zenon DEF IInv, Counted, Outstanding
  <1> QED
    BY Zenon, <1>1, <1>2, <1>3 DEF IInv

\* Opening a session, or giving the permit back because it could not be opened.
LEMMA ConnectKeeps ==
  ASSUME IInv, NEW t \in Threads, Connect(t)
  PROVE  IInv'
  <1>1. call[t] = "connecting" /\ ~released[t] /\ UNCHANGED closer
    BY Zenon DEF Connect, IInv, Held
  <1>2. CASE /\ native' = [native EXCEPT ![t] = TRUE]
             /\ call' = [call EXCEPT ![t] = "open"]
             /\ UNCHANGED <<active, waiters, released>>
    <2>1. Shape'
      BY Zenon, <1>1, <1>2 DEF IInv, Shape, Phases
    <2>2. Held'
      BY Zenon, <1>1, <1>2 DEF IInv, Shape, Held, Phases
    <2>3. Counted'
      BY Zenon, <1>2 DEF IInv, Counted, Outstanding
    <2> QED
      BY Zenon, <2>1, <2>2, <2>3 DEF IInv
  <1>3. CASE Release(t, [call EXCEPT ![t] = "idle"]) /\ UNCHANGED native
    <2> DEFINE c == [call EXCEPT ![t] = "idle"]
    <2>1. c \in [Threads -> Phases]
      BY Zenon DEF IInv, Shape, Phases
    <2>2. Counted' /\ active' \in Nat /\ released' = [released EXCEPT ![t] = TRUE]
      BY Zenon, <1>3, ReleaseCounts
    <2>3. /\ call' \in [Threads -> Phases]
          /\ \A u \in Threads : call'[u] = c[u] \/ (c[u] = "parked" /\ call'[u] = "woken")
      BY Zenon, <1>3, <2>1, ReleaseWakes
    <2>4. call'[t] = "idle" /\ \A u \in Threads \ {t} :
            call'[u] = call[u] \/ (call[u] = "parked" /\ call'[u] = "woken")
      BY Zenon, <2>3 DEF IInv, Shape
    <2>5. Shape'
      BY Zenon, <1>1, <1>3, <2>2, <2>3 DEF IInv, Shape
    <2>6. Held'
      BY <1>1, <1>3, <2>2, <2>4 DEF IInv, Shape, Held
    <2> QED
      BY Zenon, <2>2, <2>5, <2>6 DEF IInv
  <1> QED
    BY Zenon, <1>2, <1>3 DEF Connect

\* Either half of close(), by either caller.
LEMMA CloseKeeps ==
  ASSUME IInv, NEW t \in Threads, NEW k \in Closers, CloseNative(t, k) \/ ClosePermit(t, k)
  PROVE  IInv'
  <1>1. CASE CloseNative(t, k)
    <2>1. Shape'
      BY Zenon, <1>1 DEF CloseNative, IInv, Shape
    <2>2. Held'
      BY Zenon, <1>1 DEF CloseNative, IInv, Shape, Held
    <2>3. Counted'
      BY Zenon, <1>1 DEF CloseNative, IInv, Counted, Outstanding
    <2> QED
      BY Zenon, <2>1, <2>2, <2>3 DEF IInv
  <1>2. CASE ClosePermit(t, k)
    <2>1. /\ closer[t][k] = "closing" /\ Release(t, call) /\ UNCHANGED native
          /\ closer' = [closer EXCEPT ![t][k] = "closed"]
      BY Zenon, <1>2 DEF ClosePermit
    <2>2. call[t] = "open" /\ ~native[t]
      BY Zenon, <2>1 DEF IInv, Held
    <2>3. Counted' /\ active' \in Nat /\ released' = [released EXCEPT ![t] = TRUE]
      BY Zenon, <2>1, ReleaseCounts
    <2>4. /\ call' \in [Threads -> Phases]
          /\ \A u \in Threads : call'[u] = call[u] \/ (call[u] = "parked" /\ call'[u] = "woken")
      BY Zenon, <2>1, ReleaseWakes DEF IInv, Shape
    <2>5. Shape'
      BY ZenonT(60), <2>1, <2>3, <2>4 DEF IInv, Shape
    <2>6. Held'
      BY <2>1, <2>2, <2>3, <2>4 DEF IInv, Shape, Held
    <2> QED
      BY Zenon, <2>3, <2>5, <2>6 DEF IInv
  <1> QED
    BY Zenon, <1>1, <1>2

\* A connection whose user has closed it holds neither session nor permit.
LEMMA ForgetKeeps ==
  ASSUME IInv, NEW t \in Threads, Forget(t)
  PROVE  IInv'
  <1>1. released[t] /\ ~native[t]
    BY Zenon DEF Forget, IInv, Held, Shape, Closers
  <1>2. Shape'
    BY Zenon DEF Forget, IInv, Shape, Phases, NotClosing
  <1>3. Held'
    BY Zenon, <1>1 DEF Forget, IInv, Shape, Held, NotClosing
  <1>4. Counted'
    BY Zenon DEF Forget, IInv, Counted, Outstanding
  <1> QED
    BY Zenon, <1>2, <1>3, <1>4 DEF IInv

\* Every step of the process keeps the invariant.
LEMMA StepKeeps == IInv /\ [Next]_vars => IInv'
  <1> SUFFICES ASSUME IInv, [Next]_vars PROVE IInv'
    OBVIOUS
  <1>1. ASSUME NEW t \in Threads, Acquire(t) PROVE IInv'
    <2>1. CASE Admit(t)
      BY Zenon, <1>1, <2>1, AdmitKeeps DEF Acquire
    <2>2. CASE ~Admit(t)
      BY Zenon, <1>1, <2>2, WaitingKeeps DEF Acquire
    <2> QED
      BY Zenon, <2>1, <2>2
  <1>2. ASSUME NEW t \in Threads, TimeOut(t) PROVE IInv'
    BY Zenon, <1>2, WaitingKeeps DEF TimeOut
  <1>3. ASSUME NEW t \in Threads, Resume(t) PROVE IInv'
    <2>1. CASE Admit(t)
      BY Zenon, <1>3, <2>1, AdmitKeeps DEF Resume
    <2>2. CASE ~Admit(t)
      BY Zenon, <1>3, <2>2, WaitingKeeps DEF Resume
    <2> QED
      BY Zenon, <2>1, <2>2
  <1>4. CASE UNCHANGED vars
    BY Zenon, <1>4 DEF vars, IInv, Shape, Held, Counted, Outstanding
  <1> QED
    BY Zenon, <1>1, <1>2, <1>3, <1>4, ConnectKeeps, CloseKeeps, ForgetKeeps DEF Next

\* The counter of SessionAdmission is the number of permits that are out, and a
\* thread without a connection holds none, whoever closes, fails or times out.
THEOREM PermitsAreConserved == Spec => []PermitsConserved
  <1>1. IInv => PermitsConserved
    BY Zenon DEF IInv, Held, Counted, PermitsConserved
  <1> QED
    BY <1>1, InitHolds, StepKeeps, PTL DEF Spec

\* A process never has more sessions on the server than its limit: sessions are
\* among the permits that are out, and those are at most max_connections.
THEOREM LimitHolds == Spec => []SessionsWithinLimit
  <1>1. IInv => SessionsWithinLimit
    <2> SUFFICES ASSUME IInv PROVE SessionsWithinLimit
      OBVIOUS
    <2>1. Sessions \subseteq Outstanding
      BY Zenon DEF IInv, Held, Sessions, Outstanding
    <2>2. Cardinality(Sessions) <= Cardinality(Outstanding) /\ IsFiniteSet(Sessions)
      BY Zenon, <2>1, OutstandingFinite, FS_Subset
    <2>3. Cardinality(Sessions) \in Nat /\ Cardinality(Outstanding) \in Nat
      BY Zenon, <2>2, OutstandingFinite, FS_CardinalityType
    <2> QED
      BY <2>2, <2>3, CapacityPositive DEF IInv, Counted, SessionsWithinLimit
  <1> QED
    BY <1>1, InitHolds, StepKeeps, PTL DEF Spec

-----------------------------------------------------------------------------
(* Wakeups.  A late thread still in the deque may take a notification that *)
(* does it no good, so it must not be counted before it is popped: the     *)
(* invariant counts the threads that are up and no longer in the deque.    *)

Queued(t) == \E i \in DOMAIN waiters : waiters[i] = t

\* The deque has every parked thread, once, and else only late ones.
Queue ==
    /\ waiters \in Seq(Threads)
    /\ \A i, k \in DOMAIN waiters : waiters[i] = waiters[k] => i = k
    /\ \A t \in Threads : Queued(t) => call[t] \in {"parked", "late"}
    /\ \A t \in Threads : call[t] = "parked" => Queued(t)

Notified == {t \in Threads : call[t] \in {"woken", "late"} /\ ~Queued(t)}

Enough ==
    (\E t \in Threads : call[t] = "parked") => max_connections - active <= Cardinality(Notified)

WInv == IInv /\ Queue /\ Enough

\* The notified threads can be counted.
LEMMA NotifiedFinite == IsFiniteSet(Notified) /\ Cardinality(Notified) \in Nat
  BY Zenon, ThreadsFinite, FS_Subset, FS_CardinalityType DEF Notified

\* What Without leaves of a deque without duplicates.
LEMMA WithoutLeaves ==
  ASSUME NEW s \in Seq(Threads), NEW t,
         \A i, k \in DOMAIN s : s[i] = s[k] => i = k
  PROVE  /\ Without(s, t) \in Seq(Threads)
         /\ \A i, k \in DOMAIN Without(s, t) : Without(s, t)[i] = Without(s, t)[k] => i = k
         /\ \A u : (\E i \in DOMAIN Without(s, t) : Without(s, t)[i] = u)
                     <=> (u # t /\ \E i \in DOMAIN s : s[i] = u)
  <1> DEFINE at == {i \in DOMAIN s : s[i] = t}
  <1>1. CASE at = {}
    <2>1. Without(s, t) = s
      BY Zenon, <1>1 DEF Without
    <2> QED
      BY Zenon, <1>1, <2>1
  <1>2. CASE at # {}
    <2>1. PICK f \in at : TRUE
      BY Zenon, <1>2
    <2>2. f \in 1..Len(s) /\ s[f] = t /\ \A k \in at : k = f
      BY <2>1
    <2>3. f = CHOOSE i \in at : \A k \in at : i <= k
      <3>1. f \in at /\ \A k \in at : f <= k
        BY <2>1, <2>2
      <3> HIDE DEF at
      <3> QED
        BY ZenonT(60), <2>2, <3>1
    <2>4. PICK w : w = SubSeq(s, 1, f - 1) \o SubSeq(s, f + 1, Len(s))
      BY Zenon
    <2>5. Without(s, t) = w
      BY Zenon, <1>2, <2>3, <2>4 DEF Without
    <2> HIDE DEF at
    <2>6. /\ w \in Seq(Threads) /\ Len(w) = Len(s) - 1
          /\ \A i \in 1..Len(w) : w[i] = IF i < f THEN s[i] ELSE s[i + 1]
      <3>1. Len(s) \in Nat /\ f \in Nat /\ f >= 1 /\ f <= Len(s)
        BY <2>2
      <3>2. PICK a, b : a = SubSeq(s, 1, f - 1) /\ b = SubSeq(s, f + 1, Len(s))
        BY ZenonT(60)
      <3>3. a \in Seq(Threads) /\ Len(a) = f - 1 /\ \A i \in 1..(f - 1) : a[i] = s[i]
        <4>1. f - 1 \in Int /\ \A i \in 1..(f - 1) : s[i] \in Threads
          BY <3>1
        <4>2. /\ a \in Seq(Threads) /\ Len(a) = IF 1 <= f - 1 THEN f - 1 - 1 + 1 ELSE 0
              /\ \A i \in 1..(f - 1 - 1 + 1) : a[i] = s[1 + i - 1]
          BY <3>2, <4>1, SubSeqProperties
        <4> QED
          BY <3>1, <4>2
      <3>4. b \in Seq(Threads) /\ Len(b) = Len(s) - f /\ \A i \in 1..(Len(s) - f) : b[i] = s[f + i]
        <4>1. f + 1 \in Int /\ Len(s) \in Int /\ \A i \in (f + 1)..Len(s) : s[i] \in Threads
          BY <3>1
        <4>2. /\ b \in Seq(Threads) /\ Len(b) = IF f + 1 <= Len(s) THEN Len(s) - (f + 1) + 1 ELSE 0
              /\ \A i \in 1..(Len(s) - (f + 1) + 1) : b[i] = s[(f + 1) + i - 1]
          BY <3>2, <4>1, SubSeqProperties
        <4> QED
          BY <3>1, <4>2
      <3>5. /\ w \in Seq(Threads) /\ Len(w) = Len(s) - 1
            /\ \A i \in 1..Len(w) : w[i] = IF i <= Len(a) THEN a[i] ELSE b[i - Len(a)]
        <4>1. w = a \o b
          BY Zenon, <2>4, <3>2
        <4>2. /\ w \in Seq(Threads) /\ Len(w) = Len(a) + Len(b)
              /\ \A i \in 1..Len(a) + Len(b) : w[i] = IF i <= Len(a) THEN a[i] ELSE b[i - Len(a)]
          <5>1. a \in Seq(Threads) /\ b \in Seq(Threads)
            BY Zenon, <3>3, <3>4
          <5>2. /\ a \o b \in Seq(Threads) /\ Len(a \o b) = Len(a) + Len(b)
                /\ \A i \in 1..Len(a) + Len(b) : (a \o b)[i] = IF i <= Len(a) THEN a[i] ELSE b[i - Len(a)]
            BY ZenonT(60), <5>1, ConcatProperties
          <5> QED
            BY ZenonT(60), <4>1, <5>2
        <4> QED
          BY <3>1, <3>3, <3>4, <4>2
      <3>6. ASSUME NEW i \in 1..Len(w) PROVE w[i] = IF i < f THEN s[i] ELSE s[i + 1]
        <4>1. w[i] = IF i <= Len(a) THEN a[i] ELSE b[i - Len(a)]
          BY Zenon, <3>5
        <4>2. CASE i < f
          BY <3>1, <3>3, <3>5, <4>1, <4>2
        <4>3. CASE ~(i < f)
          <5>1. i - Len(a) \in 1..(Len(s) - f) /\ f + (i - Len(a)) = i + 1 /\ ~(i <= Len(a))
            BY <3>1, <3>3, <3>5, <4>3
          <5> QED
            BY Zenon, <3>4, <4>1, <4>3, <5>1
        <4> QED
          BY Zenon, <4>2, <4>3
      <3> QED
        BY Zenon, <3>5, <3>6
    <2>7. DOMAIN w = 1..Len(w) /\ DOMAIN s = 1..Len(s)
      BY <2>6
    <2>8. \A i, k \in DOMAIN w : w[i] = w[k] => i = k
      <3> SUFFICES ASSUME NEW i \in 1..Len(w), NEW k \in 1..Len(w), w[i] = w[k] PROVE i = k
        BY Zenon, <2>7
      <3>1. PICK x \in 1..Len(s) : x = IF i < f THEN i ELSE i + 1
        BY <2>2, <2>6
      <3>2. PICK y \in 1..Len(s) : y = IF k < f THEN k ELSE k + 1
        BY <2>2, <2>6
      <3>3. s[x] = s[y]
        BY Zenon, <2>6, <3>1, <3>2
      <3>4. x = y
        BY Zenon, <2>7, <3>3
      <3> QED
        BY <2>2, <3>1, <3>2, <3>4
    <2>9. ASSUME NEW u, NEW i \in DOMAIN w, w[i] = u PROVE u # t /\ \E k \in DOMAIN s : s[k] = u
      <3>1. PICK x \in 1..Len(s) : x = IF i < f THEN i ELSE i + 1
        BY <2>2, <2>6, <2>7
      <3>2. s[x] = u /\ x # f
        BY <2>2, <2>6, <2>7, <2>9, <3>1
      <3> QED
        BY Zenon, <2>2, <2>7, <3>2
    <2>10. ASSUME NEW u, NEW k \in DOMAIN s, s[k] = u, u # t PROVE \E i \in DOMAIN w : w[i] = u
      <3>1. k # f /\ k \in 1..Len(s)
        BY Zenon, <2>2, <2>7, <2>10
      <3>2. CASE k < f
        <4>1. k \in DOMAIN w /\ w[k] = s[k]
          BY <2>2, <2>6, <2>7, <3>1, <3>2
        <4> QED
          BY Zenon, <2>10, <4>1
      <3>3. CASE k > f
        <4>1. k - 1 \in DOMAIN w /\ w[k - 1] = s[k]
          BY <2>2, <2>6, <2>7, <3>1, <3>3
        <4> QED
          BY Zenon, <2>10, <4>1
      <3> QED
        BY <2>2, <3>1, <3>2, <3>3
    <2> QED
      BY Zenon, <2>5, <2>6, <2>8, <2>9, <2>10
  <1> QED
    BY Zenon, <1>1, <1>2

\* A thread that waits takes its place at the end of the deque.
LEMMA ParkQueues ==
  ASSUME WInv, NEW t \in Threads, call[t] \in {"idle", "woken"},
         active >= max_connections, UNCHANGED active,
         call' = [call EXCEPT ![t] = "parked"], waiters' = Append(waiters, t)
  PROVE  Queue' /\ Enough'
  <1>0. Queue /\ call \in [Threads -> Phases] /\ active \in Nat
    BY Zenon DEF WInv, IInv, Shape
  <1>1. waiters \in Seq(Threads) /\ Len(waiters) \in Nat /\ ~Queued(t)
    BY <1>0 DEF Queue
  <1>2. /\ waiters' \in Seq(Threads) /\ Len(waiters') = Len(waiters) + 1
        /\ \A i \in 1..Len(waiters) : waiters'[i] = waiters[i]
        /\ waiters'[Len(waiters) + 1] = t
    BY <1>1, AppendProperties
  <1>3. DOMAIN waiters = 1..Len(waiters) /\ DOMAIN waiters' = 1..(Len(waiters) + 1)
    BY <1>1, <1>2
  <1>4. \A u \in Threads : Queued(u)' <=> Queued(u) \/ u = t
    BY <1>1, <1>2, <1>3 DEF Queued
  <1>5. \A i, k \in DOMAIN waiters' : waiters'[i] = waiters'[k] => i = k
    <2> SUFFICES ASSUME NEW i \in DOMAIN waiters', NEW k \in DOMAIN waiters', waiters'[i] = waiters'[k]
                 PROVE  i = k
      OBVIOUS
    <2>1. CASE i \in DOMAIN waiters /\ k \in DOMAIN waiters
      BY Zenon, <1>0, <1>2, <1>3, <2>1 DEF Queue
    <2>2. CASE i \notin DOMAIN waiters /\ k \notin DOMAIN waiters
      BY <1>1, <1>3, <2>2
    <2>3. CASE i \in DOMAIN waiters /\ k \notin DOMAIN waiters
      BY <1>1, <1>2, <1>3, <2>3 DEF Queued
    <2>4. CASE i \notin DOMAIN waiters /\ k \in DOMAIN waiters
      BY <1>1, <1>2, <1>3, <2>4 DEF Queued
    <2> QED
      BY Zenon, <2>1, <2>2, <2>3, <2>4
  <1>6. Queue'
    BY Zenon, <1>0, <1>2, <1>4, <1>5 DEF Queue
  <1>7. Cardinality(Notified)' \in Nat
    BY Zenon, ThreadsFinite, FS_Subset, FS_CardinalityType DEF Notified
  <1>8. Enough'
    BY <1>0, <1>7, CapacityPositive DEF Enough
  <1> QED
    BY Zenon, <1>6, <1>8

\* A thread that gets a permit, or gives up, leaves the deque.
LEMMA LeaveQueue ==
  ASSUME WInv, NEW t \in Threads, call[t] \in {"idle", "woken", "late"},
         NEW q \in {"idle", "connecting"}, call' = [call EXCEPT ![t] = q],
         waiters' = Without(waiters, t),
         \/ active' = active + 1
         \/ active' = active /\ active >= max_connections
  PROVE  Queue' /\ Enough'
  <1>0. Queue /\ Enough /\ call \in [Threads -> Phases] /\ active \in Nat
    BY Zenon DEF WInv, IInv, Shape
  <1>1. /\ waiters' \in Seq(Threads)
        /\ \A i, k \in DOMAIN waiters' : waiters'[i] = waiters'[k] => i = k
        /\ \A u : Queued(u)' <=> (u # t /\ Queued(u))
    <2>1. PICK s \in Seq(Threads) : s = waiters
      BY Zenon, <1>0 DEF Queue
    <2>2. \A i, k \in DOMAIN s : s[i] = s[k] => i = k
      BY Zenon, <1>0, <2>1 DEF Queue
    <2> DEFINE w == Without(s, t)
    <2>3. /\ w \in Seq(Threads) /\ \A i, k \in DOMAIN w : w[i] = w[k] => i = k
          /\ \A u : (\E i \in DOMAIN w : w[i] = u) <=> (u # t /\ \E i \in DOMAIN s : s[i] = u)
      BY Zenon, <2>2, WithoutLeaves
    <2>4. waiters' = w
      BY Zenon, <2>1
    <2> HIDE DEF w
    <2> QED
      BY <2>1, <2>3, <2>4 DEF Queued
  <1>2. Queue'
    BY Zenon, <1>0, <1>1 DEF Queue
  <1>3. Notified' = Notified \ {t}
    BY Zenon, <1>0, <1>1 DEF Notified
  <1>4. /\ Cardinality(Notified) \in Nat /\ Cardinality(Notified') \in Nat
        /\ Cardinality(Notified') >= Cardinality(Notified) - 1
    <2>1. IsFiniteSet(Notified) /\ Cardinality(Notified) \in Nat
      BY Zenon, NotifiedFinite
    <2>2. IsFiniteSet(Notified') /\ Cardinality(Notified') \in Nat
      BY Zenon, ThreadsFinite, FS_Subset, FS_CardinalityType DEF Notified
    <2>3. Cardinality(Notified') = IF t \in Notified THEN Cardinality(Notified) - 1 ELSE Cardinality(Notified)
      BY Zenon, <1>3, <2>1, FS_RemoveElement
    <2> QED
      BY <2>1, <2>2, <2>3
  <1>5. (\E u \in Threads : call'[u] = "parked") => \E u \in Threads : call[u] = "parked"
    BY Zenon, <1>0
  <1>6. CASE active' = active + 1
    BY <1>0, <1>2, <1>4, <1>5, <1>6, CapacityPositive DEF Enough
  <1>7. CASE active' = active /\ active >= max_connections
    BY <1>0, <1>2, <1>4, <1>7, CapacityPositive DEF Enough
  <1> QED
    BY Zenon, <1>6, <1>7

\* A release adds a permit and a notified thread, unless no thread is parked.
LEMMA ReleaseNotifies ==
  ASSUME WInv, NEW t \in Threads, NEW c \in [Threads -> Phases], Release(t, c),
         call[t] \in {"connecting", "open"}, c[t] \in {"idle", "open"},
         \A u \in Threads \ {t} : c[u] = call[u]
  PROVE  Queue' /\ Enough'
  <1>0. Queue /\ Enough /\ call \in [Threads -> Phases] /\ active \in Nat
    BY Zenon DEF WInv, IInv, Shape
  <1>1. ASSUME call' = c, UNCHANGED waiters,
               UNCHANGED active \/ waiters = <<>>
        PROVE  Queue' /\ Enough'
    <2>1. \A u \in Threads : Queued(u)' <=> Queued(u)
      BY Zenon, <1>1 DEF Queued
    <2>2. \A u \in Threads : /\ call'[u] = "parked" <=> call[u] = "parked"
                             /\ call'[u] \in {"parked", "late"} <=> call[u] \in {"parked", "late"}
                             /\ call'[u] \in {"woken", "late"} <=> call[u] \in {"woken", "late"}
      BY Zenon, <1>1
    <2>3. Queue'
      BY Zenon, <1>0, <1>1, <2>1, <2>2 DEF Queue
    <2>4. Notified' = Notified
      BY Zenon, <2>1, <2>2 DEF Notified
    <2>5. CASE UNCHANGED active
      BY Zenon, <1>0, <2>2, <2>3, <2>4, <2>5 DEF Enough
    <2>6. CASE waiters = <<>>
      <3>1. \A u \in Threads : call[u] # "parked"
        BY <1>0, <2>6 DEF Queue, Queued
      <3> QED
        BY Zenon, <2>2, <2>3, <3>1 DEF Enough
    <2> QED
      BY Zenon, <1>1, <2>5, <2>6
  <1>2. CASE released[t] \/ waiters = <<>>
    BY Zenon, <1>1, <1>2 DEF Release
  <1>3. CASE ~released[t] /\ waiters # <<>>
    <2>1. PICK h \in Threads : h = Head(waiters)
      BY Zenon, <1>0, <1>3, HeadTailProperties DEF Queue
    <2>2. call' = Woken(c, h) /\ waiters' = Tail(waiters) /\ active' = active - 1
      BY Zenon, <1>3, <2>1 DEF Release
    <2>3. /\ waiters \in Seq(Threads) /\ Len(waiters) \in Nat /\ Len(waiters) >= 1
          /\ DOMAIN waiters = 1..Len(waiters) /\ waiters[1] = h
      BY <1>0, <1>3, <2>1 DEF Queue
    <2>4. /\ waiters' \in Seq(Threads) /\ Len(waiters') = Len(waiters) - 1
          /\ DOMAIN waiters' = 1..(Len(waiters) - 1)
          /\ \A i \in DOMAIN waiters' : waiters'[i] = waiters[i + 1]
      <3>1. /\ waiters' \in Seq(Threads) /\ Len(waiters') = Len(waiters) - 1
            /\ \A i \in 1..Len(waiters') : waiters'[i] = waiters[i + 1]
        BY Zenon, <1>3, <2>2, <2>3, HeadTailProperties
      <3> QED
        BY <2>3, <3>1
    <2>5. \A i, k \in DOMAIN waiters' : waiters'[i] = waiters'[k] => i = k
      <3> SUFFICES ASSUME NEW i \in DOMAIN waiters', NEW k \in DOMAIN waiters', waiters'[i] = waiters'[k]
                   PROVE  i = k
        OBVIOUS
      <3>1. i + 1 \in DOMAIN waiters /\ k + 1 \in DOMAIN waiters /\ waiters[i + 1] = waiters[k + 1]
        BY <2>3, <2>4
      <3>2. i + 1 = k + 1
        BY Zenon, <1>0, <3>1 DEF Queue
      <3> QED
        BY <2>3, <2>4, <3>2
    <2>6. Queued(h) /\ call[h] \in {"parked", "late"} /\ h # t
      BY <1>0, <2>3 DEF Queue, Queued
    <2>7. \A u \in Threads : Queued(u)' <=> u # h /\ Queued(u)
      <3> SUFFICES ASSUME NEW u \in Threads PROVE Queued(u)' <=> u # h /\ Queued(u)
        OBVIOUS
      <3>1. ASSUME NEW i \in DOMAIN waiters', waiters'[i] = u PROVE u # h /\ Queued(u)
        <4>1. i + 1 \in DOMAIN waiters /\ waiters[i + 1] = u /\ i + 1 # 1 /\ 1 \in DOMAIN waiters
          BY <2>3, <2>4, <3>1
        <4> QED
          BY Zenon, <1>0, <2>3, <4>1 DEF Queue, Queued
      <3>2. ASSUME u # h, NEW k \in DOMAIN waiters, waiters[k] = u PROVE Queued(u)'
        <4>1. k - 1 \in DOMAIN waiters' /\ waiters'[k - 1] = u
          BY <2>3, <2>4, <3>2
        <4> QED
          BY Zenon, <4>1 DEF Queued
      <3> QED
        BY Zenon, <3>1, <3>2 DEF Queued
    <2>8. /\ call'[h] \in {"woken", "late"}
          /\ \A u \in Threads \ {h} :
               /\ call'[u] = "parked" <=> call[u] = "parked"
               /\ call'[u] \in {"parked", "late"} <=> call[u] \in {"parked", "late"}
               /\ call'[u] \in {"woken", "late"} <=> call[u] \in {"woken", "late"}
      BY Zenon, <2>2, <2>6 DEF Woken
    <2>9. Queue'
      BY Zenon, <1>0, <2>4, <2>5, <2>7, <2>8 DEF Queue
    <2>10. Notified' = Notified \cup {h} /\ h \notin Notified
      BY Zenon, <2>6, <2>7, <2>8 DEF Notified
    <2>11. Cardinality(Notified') = Cardinality(Notified) + 1 /\ Cardinality(Notified) \in Nat
      BY Zenon, <2>10, NotifiedFinite, FS_AddElement
    <2>12. (\E u \in Threads : call'[u] = "parked") => \E u \in Threads : call[u] = "parked"
      BY Zenon, <2>8
    <2>13. Enough'
      BY <1>0, <2>2, <2>11, <2>12, CapacityPositive DEF Enough
    <2> QED
      BY Zenon, <2>9, <2>13
  <1> QED
    BY Zenon, <1>2, <1>3

\* A deadline moves no thread into or out of the deque.
LEMMA TimeOutQueues ==
  ASSUME WInv, NEW t \in Threads, TimeOut(t)
  PROVE  Queue' /\ Enough'
  <1>0. Queue /\ Enough /\ call \in [Threads -> Phases]
    BY Zenon DEF WInv, IInv, Shape
  <1>1. /\ call[t] \in {"parked", "woken"} /\ call' = [call EXCEPT ![t] = "late"]
        /\ UNCHANGED <<active, waiters>>
    BY Zenon DEF TimeOut
  <1>2. \A u \in Threads : Queued(u)' <=> Queued(u)
    BY Zenon, <1>1 DEF Queued
  <1>3. Queue'
    BY Zenon, <1>0, <1>1, <1>2 DEF Queue
  <1>4. Notified' = Notified
    BY Zenon, <1>0, <1>1, <1>2 DEF Notified, Queue
  <1>5. Enough'
    BY Zenon, <1>0, <1>1, <1>4 DEF Enough
  <1> QED
    BY Zenon, <1>3, <1>5

\* A step of a thread with a connection that gives no permit back.
LEMMA OthersQueue ==
  ASSUME WInv, UNCHANGED <<active, waiters>>, call' \in [Threads -> Phases],
         \A u \in Threads : call'[u] = call[u] \/ {call[u], call'[u]} \subseteq {"idle", "connecting", "open"}
  PROVE  Queue' /\ Enough'
  <1>0. Queue /\ Enough
    BY Zenon DEF WInv
  <1>1. \A u \in Threads : Queued(u)' <=> Queued(u)
    BY Zenon DEF Queued
  <1>2. \A u \in Threads : /\ call'[u] = "parked" <=> call[u] = "parked"
                           /\ call'[u] \in {"parked", "late"} <=> call[u] \in {"parked", "late"}
                           /\ call'[u] \in {"woken", "late"} <=> call[u] \in {"woken", "late"}
    OBVIOUS
  <1>3. Queue'
    BY Zenon, <1>0, <1>1, <1>2 DEF Queue
  <1>4. Notified' = Notified
    BY Zenon, <1>1, <1>2 DEF Notified
  <1> QED
    BY Zenon, <1>0, <1>2, <1>3, <1>4 DEF Enough

\* Nobody waits at first.
LEMMA WInit == Init => WInv
  <1> SUFFICES ASSUME Init PROVE WInv
    OBVIOUS
  <1>1. waiters = <<>> /\ \A t \in Threads : call[t] = "idle"
    BY Zenon DEF Init
  <1>2. Queue
    BY <1>1 DEF Queue, Queued
  <1>3. Enough
    BY Zenon, <1>1 DEF Enough
  <1> QED
    BY Zenon, <1>2, <1>3, InitHolds DEF WInv

\* Every step keeps enough threads on their way.
LEMMA WStep == WInv /\ [Next]_vars => WInv'
  <1> SUFFICES ASSUME WInv, [Next]_vars PROVE Queue' /\ Enough'
    BY Zenon, StepKeeps DEF WInv
  <1>0. call \in [Threads -> Phases] /\ Held
    BY Zenon DEF WInv, IInv, Shape
  <1>1. ASSUME NEW t \in Threads, Acquire(t) \/ Resume(t) PROVE Queue' /\ Enough'
    <2>1. call[t] \in {"idle", "woken", "late"}
      BY Zenon, <1>1 DEF Acquire, Resume
    <2>2. CASE Admit(t)
      BY Zenon, <2>1, <2>2, LeaveQueue DEF Admit
    <2>3. CASE /\ active >= max_connections /\ call[t] \in {"idle", "woken"} /\ UNCHANGED active
               /\ call' = [call EXCEPT ![t] = "parked"] /\ waiters' = Append(waiters, t)
      BY Zenon, <2>3, ParkQueues
    <2>4. CASE /\ active >= max_connections /\ call[t] = "late" /\ UNCHANGED active
               /\ call' = [call EXCEPT ![t] = "idle"] /\ waiters' = Without(waiters, t)
      BY ZenonT(60), <2>4, LeaveQueue
    <2> QED
      BY Zenon, <1>1, <2>2, <2>3, <2>4 DEF Acquire, Resume
  <1>2. ASSUME NEW t \in Threads, Connect(t) PROVE Queue' /\ Enough'
    <2>1. call[t] = "connecting"
      BY Zenon, <1>2 DEF Connect
    <2>2. CASE call' = [call EXCEPT ![t] = "open"] /\ UNCHANGED <<active, waiters>>
      <3>1. call' \in [Threads -> Phases]
        BY Zenon, <1>0, <2>2 DEF Phases
      <3> QED
        BY Zenon, <1>0, <2>1, <2>2, <3>1, OthersQueue
    <2>3. CASE Release(t, [call EXCEPT ![t] = "idle"])
      <3>1. PICK c : c = [call EXCEPT ![t] = "idle"]
        BY ZenonT(60)
      <3>2. c \in [Threads -> Phases] /\ c[t] = "idle" /\ \A u \in Threads \ {t} : c[u] = call[u]
        BY Zenon, <1>0, <3>1 DEF Phases
      <3> QED
        BY Zenon, <2>1, <2>3, <3>1, <3>2, ReleaseNotifies
    <2> QED
      BY Zenon, <1>2, <2>2, <2>3 DEF Connect
  <1>3. ASSUME NEW t \in Threads, NEW k \in Closers, ClosePermit(t, k) PROVE Queue' /\ Enough'
    <2>1. call[t] = "open" /\ Release(t, call)
      BY Zenon, <1>0, <1>3 DEF ClosePermit, Held
    <2> QED
      BY Zenon, <1>0, <2>1, ReleaseNotifies
  <1>4. ASSUME NEW t \in Threads, Forget(t) PROVE Queue' /\ Enough'
    <2>1. call[t] = "open" /\ call' = [call EXCEPT ![t] = "idle"] /\ UNCHANGED <<active, waiters>>
      BY Zenon, <1>4 DEF Forget
    <2>2. call' \in [Threads -> Phases]
      BY Zenon, <1>0, <2>1 DEF Phases
    <2> QED
      BY Zenon, <1>0, <2>1, <2>2, OthersQueue
  <1>5. CASE UNCHANGED vars \/ \E t \in Threads, k \in Closers : CloseNative(t, k)
    <2>1. UNCHANGED <<call, active, waiters>>
      BY Zenon, <1>5 DEF vars, CloseNative
    <2> QED
      BY Zenon, <1>0, <2>1, OthersQueue
  <1> QED
    BY Zenon, <1>1, <1>2, <1>3, <1>4, <1>5, TimeOutQueues DEF Next

\* No wakeup is lost: while a thread sleeps in SessionAdmission.acquire, as many
\* threads are on their way to test the predicate as there are free permits, even
\* if a release notifies a thread whose deadline has passed, a newcomer takes the
\* permit before the notified thread has the lock, or that thread gives up.
THEOREM NoWakeupIsLost == Spec => []NoLostWakeup
  <1>1. WInv => NoLostWakeup
    <2> SUFFICES ASSUME WInv, \E t \in Threads : call[t] = "parked"
                 PROVE  max_connections - active
                          <= Cardinality({t \in Threads : call[t] \in {"woken", "late"}})
      BY Zenon DEF NoLostWakeup
    <2>1. PICK U : U = {t \in Threads : call[t] \in {"woken", "late"}}
      BY Zenon
    <2>2. IsFiniteSet(U) /\ Cardinality(U) \in Nat
      BY Zenon, <2>1, ThreadsFinite, FS_Subset, FS_CardinalityType
    <2>3. Notified \in SUBSET U
      BY Zenon, <2>1 DEF Notified
    <2>4. Cardinality(Notified) <= Cardinality(U) /\ Cardinality(Notified) \in Nat
      BY Zenon, <2>2, <2>3, FS_Subset, NotifiedFinite
    <2>5. max_connections - active <= Cardinality(Notified) /\ active \in Nat
      BY Zenon DEF WInv, Enough, IInv, Shape
    <2> QED
      BY <2>1, <2>2, <2>4, <2>5, CapacityPositive
  <1> QED
    BY <1>1, WInit, WStep, PTL DEF Spec
=============================================================================
