--------------------------- MODULE SessionAdmission ---------------------------
(***************************************************************************)
(* The PostgreSQL sessions of one Python process (storage/                 *)
(* session_admission.py and connect/close of storage/db.py).               *)
(*                                                                         *)
(* Every thread that opens a connection first takes a permit from one      *)
(* counter guarded by a condition variable, waits for one up to a timeout  *)
(* when all are out, and gives it back when its connection is closed.  A   *)
(* connection may be closed by its user and, at the same time, by a second *)
(* caller.  A step of this model is a stretch of code that runs under one  *)
(* lock or one blocking call; the deque of threading.Condition is kept,    *)
(* since which waiter a release wakes is what can go wrong.                *)
(***************************************************************************)
EXTENDS Naturals, FiniteSets, Sequences

CONSTANTS
    Threads,         \* the threads of the process that open connections
    max_connections  \* CHESS_CRAWL_DATABASE_MAX_CONNECTIONS

ASSUME ThreadsFinite == IsFiniteSet(Threads)
ASSUME CapacityPositive == max_connections \in Nat \ {0}

Closers == {"user", "second"}

VARIABLES
    call,      \* where each thread is: see Phases
    active,    \* SessionAdmission._active
    waiters,   \* the condition's deque: threads a notify may wake, oldest first
    native,    \* the thread's native session exists on the server
    released,  \* SessionPermit._released of the thread's connection
    closer     \* each closer's place inside close() of the thread's connection

vars == <<call, active, waiters, native, released, closer>>

\* idle: no connection.  parked: in Condition.wait.  woken: popped by notify,
\* must reacquire the lock.  late: its deadline passed, must reacquire the lock.
\* connecting: holds a permit.  open: has its connection.
Phases == {"idle", "parked", "woken", "late", "connecting", "open"}
NotClosing == [k \in Closers |-> "no"]

Init ==
    /\ call = [t \in Threads |-> "idle"]
    /\ active = 0
    /\ waiters = <<>>
    /\ native = [t \in Threads |-> FALSE]
    /\ released = [t \in Threads |-> TRUE]
    /\ closer = [t \in Threads |-> NotClosing]

-----------------------------------------------------------------------------
(* SessionAdmission.acquire, once the condition's lock is held.            *)

\* deque.remove: the first entry of t goes, if there is one
Without(s, t) ==
    LET at == {i \in DOMAIN s : s[i] = t}
        first == CHOOSE i \in at : \A k \in at : i <= k
    IN IF at = {} THEN s ELSE SubSeq(s, 1, first - 1) \o SubSeq(s, first + 1, Len(s))

Admit(t) ==
    /\ active < max_connections
    /\ active' = active + 1
    /\ released' = [released EXCEPT ![t] = FALSE]   \* a new SessionPermit
    /\ call' = [call EXCEPT ![t] = "connecting"]
    /\ waiters' = Without(waiters, t)

\* a new call: a free permit is taken even when others are waiting
Acquire(t) ==
    /\ call[t] = "idle"
    /\ closer[t] = NotClosing
    /\ \/ Admit(t)
       \/ /\ active >= max_connections
          /\ call' = [call EXCEPT ![t] = "parked"]
          /\ waiters' = Append(waiters, t)
          /\ UNCHANGED <<active, released>>
    /\ UNCHANGED <<native, closer>>

\* the call's deadline passes; a parked thread stays in the deque until it has the lock
TimeOut(t) ==
    /\ call[t] \in {"parked", "woken"}
    /\ call' = [call EXCEPT ![t] = "late"]
    /\ UNCHANGED <<active, waiters, native, released, closer>>

MutWaitRestarts(t) ==
    /\ call[t] \in {"woken", "late"}
    /\ \/ Admit(t)
       \/ /\ active >= max_connections
          /\ call' = [call EXCEPT ![t] = "parked"]
          /\ waiters' = Append(Without(waiters, t), t)
          /\ UNCHANGED <<active, released>>
    /\ UNCHANGED <<native, closer>>

\* wait returned: wait_for tests its predicate again, whether notified or timed out
Resume(t) ==
    /\ call[t] \in {"woken", "late"}
    /\ \/ Admit(t)
       \/ /\ active >= max_connections
          /\ \/ /\ call[t] = "woken"                 \* time is left: wait again
                /\ call' = [call EXCEPT ![t] = "parked"]
                /\ waiters' = Append(waiters, t)
             \/ /\ call[t] = "late"                  \* OperationalError
                /\ call' = [call EXCEPT ![t] = "idle"]
                /\ waiters' = Without(waiters, t)
          /\ UNCHANGED <<active, released>>
    /\ UNCHANGED <<native, closer>>

-----------------------------------------------------------------------------
(* SessionPermit.release with SessionAdmission.release: under the permit's *)
(* lock, once; the counter goes down and one waiter is notified.           *)

Woken(c, t) ==
    IF c[t] = "parked" THEN [c EXCEPT ![t] = "woken"] ELSE c   \* a late one is up already

Release(t, c) ==
    IF released[t]
    THEN /\ call' = c
         /\ UNCHANGED <<released, active, waiters>>
    ELSE /\ released' = [released EXCEPT ![t] = TRUE]
         /\ active' = active - 1
         /\ IF waiters = <<>>
            THEN /\ call' = c
                 /\ UNCHANGED waiters
            ELSE /\ call' = Woken(c, Head(waiters))
                 /\ waiters' = Tail(waiters)

-----------------------------------------------------------------------------
(* connect and Connection.close.                                           *)

\* Connection.connect succeeds, or fails and gives the permit back.  A failure of
\* the settings that follow is an open connection closed at once.
Connect(t) ==
    /\ call[t] = "connecting"
    /\ \/ /\ native' = [native EXCEPT ![t] = TRUE]
          /\ call' = [call EXCEPT ![t] = "open"]
          /\ UNCHANGED <<active, waiters, released>>
       \/ /\ Release(t, [call EXCEPT ![t] = "idle"])
          /\ UNCHANGED native
    /\ UNCHANGED closer

MutCloseReturnsOnly(t, k) ==
    /\ call[t] = "open"
    /\ closer[t][k] = "no"
    /\ \A j \in Closers : closer[t][j] # "closing"
    /\ closer' = [closer EXCEPT ![t][k] = "closing"]
    /\ UNCHANGED <<native, call, active, waiters, released>>

\* close() under _session_close_lock: the native session goes first
CloseNative(t, k) ==
    /\ call[t] = "open"
    /\ closer[t][k] = "no"
    /\ \A j \in Closers : closer[t][j] # "closing"
    /\ closer' = [closer EXCEPT ![t][k] = "closing"]
    /\ native' = [native EXCEPT ![t] = FALSE]
    /\ UNCHANGED <<call, active, waiters, released>>

\* ... and the permit after it, in the finally clause
ClosePermit(t, k) ==
    /\ closer[t][k] = "closing"
    /\ Release(t, call)
    /\ closer' = [closer EXCEPT ![t][k] = "closed"]
    /\ UNCHANGED native

\* the user's close returned, and no second caller is inside close(): the object is gone
Forget(t) ==
    /\ call[t] = "open"
    /\ closer[t]["user"] = "closed"
    /\ closer[t]["second"] # "closing"
    /\ call' = [call EXCEPT ![t] = "idle"]
    /\ closer' = [closer EXCEPT ![t] = NotClosing]
    /\ UNCHANGED <<active, waiters, native, released>>

Next ==
    \E t \in Threads :
        \/ Acquire(t)
        \/ TimeOut(t)
        \/ Resume(t)
        \/ Connect(t)
        \/ \E k \in Closers : CloseNative(t, k) \/ ClosePermit(t, k)
        \/ Forget(t)

Spec == Init /\ [][Next]_vars

-----------------------------------------------------------------------------
(* Properties                                                              *)

Outstanding == {t \in Threads : ~released[t]}
Sessions == {t \in Threads : native[t]}

\* The state's shape, with the counter inside its limit: the RuntimeError of
\* release() for a permit nobody owns never happens.
TypeOK ==
    /\ call \in [Threads -> Phases]
    /\ active \in 0..max_connections
    /\ waiters \in Seq(Threads)
    /\ native \in [Threads -> BOOLEAN]
    /\ released \in [Threads -> BOOLEAN]
    /\ closer \in [Threads -> [Closers -> {"no", "closing", "closed"}]]

\* The process never has more sessions on the server than its limit, although
\* connections are closed by two callers at once and opened while others close:
\* close() returns the permit only after the native session is gone, and once.
SessionsWithinLimit == Cardinality(Sessions) <= max_connections

\* A permit is lost by nobody and returned twice by nobody: the counter is the
\* number of connections, being opened, open or being closed, that hold one, and
\* a thread without a connection holds none.
PermitsConserved ==
    /\ active = Cardinality(Outstanding)
    /\ \A t \in Threads : call[t] \notin {"connecting", "open"} => released[t]

\* No wakeup is lost: while a thread sleeps in acquire() there are at least as
\* many threads on their way to test the predicate as there are free permits,
\* even when the notified thread times out or another one takes its permit first.
NoLostWakeup ==
    (\E t \in Threads : call[t] = "parked")
        => max_connections - active
              <= Cardinality({t \in Threads : call[t] \in {"woken", "late"}})
=============================================================================
