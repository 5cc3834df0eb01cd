---------------------------- MODULE ProviderHttp ----------------------------
(* The HTTP client of a provider (providers/http.py) as the job runner wires *)
(* it (providers/registry.py, jobs/runner.py): request pacing inside a       *)
(* worker and, through the provider's cooldown row, between workers; retries *)
(* and Retry-After; the reservation and settlement around every attempt; the *)
(* bounded, timed read of a response; shutdown at every point; and the       *)
(* operator's versioned policy (storage/operating_policy.py).                *)
(* Time is a count of seconds; every deadline is kept as the time left until *)
(* it, every start as the time since it, so a behaviour has no horizon.      *)
EXTENDS Integers, TLC
CONSTANTS
  Worker,       \* acquisition workers of one provider
  None,
  Provider,     \* "chess.com" or "lichess"
  Fixed,        \* Lichess's fixed backoff after a 429
  Delays,       \* values of min_delay_s an operator installs
  Retries,      \* values of max_retries
  RetryAfter,   \* values of a Retry-After header (-1 too: a negative count, a past date)
  Limits,       \* bytes a reservation may grant
  ChunkSize,    \* the largest read, 65536 bytes
  Timeout,      \* timeout_s: of one read and of the whole attempt
  MaxUpdates,   \* bound on policy updates
  MaxCrashes    \* bound on processes that die
VARIABLES
  policy,       \* provider_operating_policies: [delay, retries]
  updates,      \* its version
  cooldown,     \* provider_cooldowns.not_before, time left
  lock,         \* the worker owning the acquisition-provider session lock
  stop,         \* the workers asked to stop
  last,         \* _last_request_at of each client: time since it, or None
  notBefore,    \* _not_before of each client, time left
  call,         \* the request() of each worker
  crashes,
  owed          \* history: time left of what completed responses asked for, and of the
                \* policy's delay after them
vars == <<policy, updates, cooldown, lock, stop, last, notBefore, call, crashes, owed>>

Max2(a, b) == IF a > b THEN a ELSE b
Min2(a, b) == IF a < b THEN a ELSE b
Largest(S) == CHOOSE m \in S : \A n \in S : n <= m
Horizon == Largest({Fixed, 2 * Timeout} \cup Delays \cup RetryAfter
                   \cup {Max2(d, 1) * 2^r : d \in Delays, r \in Retries})
Since(t) == IF t = None THEN None ELSE Min2(t + 1, Horizon)
Left(t) == Max2(t - 1, 0)

Status == {0, 200, 429, 503}
Pc == {"idle", "top", "serial", "check", "reserve", "gate", "sleep", "send",
       "read", "settle", "after", "backoff"}
Call == [pc : Pc, attempt : Nat, tries : Nat, delay : Delays, wake : 0..Horizon,
         limit : Limits \cup {0}, received : Nat, elapsed : 0..(2 * Timeout), reading : 0..Timeout,
         status : Status \cup {None}, retry_after : Nat \cup {None}, result : Status \cup {None},
         reserved : BOOLEAN, exit : {"none", "result", "stopped", "exceeded"}, sends : Nat]
NoCall == [pc |-> "idle", attempt |-> 1, tries |-> 1, delay |-> Largest(Delays), wake |-> 0,
           limit |-> 0, received |-> 0, elapsed |-> 0, reading |-> 0,
           status |-> None, retry_after |-> None, result |-> None,
           reserved |-> FALSE, exit |-> "none", sends |-> 0]

\* Shapes, and the retry allowance: an attempt never exceeds the allowance its
\* request captured, and no request is sent more often than that.
TypeOK ==
  /\ policy \in [delay : Delays, retries : Retries] /\ updates \in 0..MaxUpdates
  /\ cooldown \in 0..Horizon /\ lock \in Worker \cup {None} /\ stop \subseteq Worker
  /\ last \in [Worker -> 0..Horizon \cup {None}] /\ notBefore \in [Worker -> 0..Horizon]
  /\ call \in [Worker -> Call] /\ crashes \in 0..MaxCrashes
  /\ owed \in [asked : 0..Horizon, pace : 0..Horizon]
  /\ \A w \in Worker : call[w].attempt <= call[w].tries /\ call[w].sends <= call[w].tries

Init ==
  /\ policy \in [delay : Delays, retries : Retries] /\ updates = 0
  /\ cooldown = 0 /\ lock = None /\ stop = {} /\ crashes = 0
  /\ last = [w \in Worker |-> None] /\ notBefore = [w \in Worker |-> 0]
  /\ call = [w \in Worker |-> NoCall]
  /\ owed = [asked |-> 0, pace |-> 0]

At(w, pc) == call[w].pc = pc
Go(w, pc) == call' = [call EXCEPT ![w].pc = pc]
Shared == <<policy, updates, cooldown, lock, stop, crashes>>

\* The call ends; only its outcome stays for the runner to see.
EndedAs(w, exit) ==
  [NoCall EXCEPT !.exit = exit, !.reserved = call[w].reserved, !.tries = call[w].tries,
                 !.sends = IF exit = "stopped" THEN call[w].sends ELSE 0]
End(w, exit) == call' = [call EXCEPT ![w] = EndedAs(w, exit)]
\* Shutdown: the last response if there is one, else ProviderRequestStopped.
StoppedExit(w) == IF call[w].result # None THEN "result" ELSE "stopped"

-----------------------------------------------------------------------------
(* The worker around the client *)

\* A claim needs the provider's session lock and a cooldown that is over.
Claim(w) ==
  /\ lock = None /\ w \notin stop /\ cooldown = 0
  /\ lock' = w
  /\ UNCHANGED <<policy, updates, cooldown, stop, crashes, last, notBefore, call, owed>>

Release(w) ==
  /\ lock = w /\ At(w, "idle") /\ lock' = None
  /\ UNCHANGED <<policy, updates, cooldown, stop, crashes, last, notBefore, call, owed>>

AskStop(w) ==
  /\ w \notin stop /\ stop' = stop \cup {w}
  /\ UNCHANGED <<policy, updates, cooldown, lock, crashes, last, notBefore, call, owed>>

\* A stopped worker leaves between jobs; its successor starts with new clients.
Restart(w) ==
  /\ w \in stop /\ lock # w /\ At(w, "idle")
  /\ stop' = stop \ {w}
  /\ last' = [last EXCEPT ![w] = None] /\ notBefore' = [notBefore EXCEPT ![w] = 0]
  /\ call' = [call EXCEPT ![w] = NoCall]
  /\ UNCHANGED <<policy, updates, cooldown, lock, crashes, owed>>

\* The process dies: PostgreSQL frees its locks. What an uncommitted response
\* asked for is lost with it.
Crash(w) ==
  /\ crashes < MaxCrashes /\ lock = w
  /\ crashes' = crashes + 1 /\ lock' = None /\ stop' = stop \ {w}
  /\ last' = [last EXCEPT ![w] = None] /\ notBefore' = [notBefore EXCEPT ![w] = 0]
  /\ call' = [call EXCEPT ![w] = NoCall]
  /\ owed' = [k \in DOMAIN owed |-> Min2(owed[k], cooldown)]
  /\ UNCHANGED <<policy, updates, cooldown>>

\* defer_provider: a cooldown is only ever extended.
Deferred(left) == Max2(cooldown, left)

\* set_provider_policy: checked against the version it replaces, and paced anew.
\* What a lower delay takes back is no longer owed.
SetPolicy ==
  /\ updates < MaxUpdates
  /\ updates' = updates + 1
  /\ policy' \in [delay : Delays, retries : Retries]
  /\ cooldown' = Deferred(policy'.delay)
  /\ owed' = [owed EXCEPT !.pace = Min2(@, policy'.delay)]
  /\ UNCHANGED <<lock, stop, crashes, last, notBefore, call>>

-----------------------------------------------------------------------------
(* HttpClient.request *)

\* The policy is resolved once: it gives this request its retries and its delay.
Begin(w) ==
  /\ lock = w /\ At(w, "idle")
  /\ call' = [call EXCEPT ![w] = [NoCall EXCEPT !.pc = "top", !.tries = policy.retries + 1,
                                                !.delay = policy.delay]]
  /\ UNCHANGED <<Shared, last, notBefore, owed>>

\* _respect_serial_delay: how long this client still has to wait.
SerialDelay(w) ==
  Max2(notBefore[w], IF last[w] = None THEN 0 ELSE Max2(call[w].delay - last[w], 0))

Wait(w) ==
  /\ At(w, "top")
  /\ IF w \in stop THEN Go(w, "check")
     ELSE call' = [call EXCEPT ![w].pc = "serial", ![w].wake = SerialDelay(w)]
  /\ UNCHANGED <<Shared, last, notBefore, owed>>

Waited(w) ==
  /\ At(w, "serial") /\ call[w].wake = 0
  /\ IF w \in stop THEN UNCHANGED <<last, notBefore>>
     ELSE /\ last' = [last EXCEPT ![w] = 0] /\ notBefore' = [notBefore EXCEPT ![w] = 0]
  /\ Go(w, "check")
  /\ UNCHANGED <<Shared, owed>>

CheckStop(w) ==
  /\ At(w, "check")
  /\ IF w \in stop THEN End(w, StoppedExit(w)) ELSE Go(w, "reserve")
  /\ UNCHANGED <<Shared, last, notBefore, owed>>

\* reserve_request: it may wait for other budget transactions, and it refuses
\* an exhausted budget before anything is reserved.
Reserve(w) ==
  /\ At(w, "reserve") /\ ~call[w].reserved
  /\ \/ \E n \in Limits :
          call' = [call EXCEPT ![w].pc = "gate", ![w].reserved = TRUE, ![w].limit = n, ![w].received = 0]
     \/ End(w, "exceeded")
  /\ UNCHANGED <<Shared, last, notBefore, owed>>

\* _before_provider_request: the shared deadline, read again after every wait.
Gate(w) ==
  /\ At(w, "gate")
  /\ \/ w \in stop
        /\ call' = [call EXCEPT ![w].pc = "settle", ![w].exit = "stopped"]
     \/ w \notin stop /\ cooldown > 0
        /\ call' = [call EXCEPT ![w].pc = "sleep", ![w].wake = cooldown]
     \/ w \notin stop /\ cooldown = 0 /\ Go(w, "send")
  /\ UNCHANGED <<Shared, last, notBefore, owed>>

Slept(w) ==
  /\ At(w, "sleep") /\ call[w].wake = 0 /\ Go(w, "gate")
  /\ UNCHANGED <<Shared, last, notBefore, owed>>

\* The request leaves, unless a stop or a reservation of nothing prevents it.
Sending(w) == At(w, "send") /\ w \notin stop /\ call[w].limit > 0
Send(w) ==
  /\ Sending(w)
  /\ last' = [last EXCEPT ![w] = 0]
  /\ call' = [call EXCEPT ![w].pc = "read", ![w].elapsed = 0, ![w].reading = 0, ![w].sends = @ + 1,
                          ![w].status = None, ![w].retry_after = None]
  /\ UNCHANGED <<Shared, notBefore, owed>>

SendNothing(w) ==
  /\ At(w, "send") /\ ~Sending(w)
  /\ last' = IF w \in stop THEN last ELSE [last EXCEPT ![w] = 0]
  /\ call' = [call EXCEPT ![w].pc = "settle", ![w].exit = IF w \in stop THEN "stopped" ELSE "exceeded"]
  /\ UNCHANGED <<Shared, notBefore, owed>>

\* The attempt has used up timeout_s.
Late(w) == call[w].elapsed >= Timeout

\* Headers arrive: a status, and perhaps a Retry-After.
Seconds(h) == Max2(0, h)
ReceiveHeaders(w) ==
  /\ At(w, "read") /\ call[w].status = None
  /\ \/ \E s \in Status \ {0} : \E h \in {Seconds(r) : r \in RetryAfter \cup {-1}} \cup {None} :
          call' = IF Late(w)
                  THEN [call EXCEPT ![w].pc = "settle", ![w].exit = "exceeded"]
                  ELSE [call EXCEPT ![w].status = s, ![w].reading = 0, ![w].retry_after = h]
     \/ call' = [call EXCEPT ![w].pc = "settle", ![w].exit = "exceeded"]  \* content encoding
  /\ UNCHANGED <<Shared, last, notBefore, owed>>

\* One bounded read of the body; limit and deadline are checked after it.
ReadSize(w) == Min2(ChunkSize, call[w].limit)
ReadChunk(w) ==
  /\ At(w, "read") /\ call[w].status # None
  /\ \E n \in 1..ReadSize(w) :
       call' = [call EXCEPT ![w].received = @ + n, ![w].reading = 0,
                  ![w].pc = IF call[w].received + n > call[w].limit \/ Late(w) THEN "settle" ELSE "read",
                  ![w].exit = IF call[w].received + n > call[w].limit \/ Late(w) THEN "exceeded" ELSE "none"]
  /\ UNCHANGED <<Shared, last, notBefore, owed>>

\* What a completed response obliges every later request to wait.
Retryable(s) == s \in {0, 429, 503}
Asked(w, s) ==
  IF s = 429 /\ Provider = "lichess" THEN Max2(Fixed, IF call[w].retry_after = None THEN 0 ELSE call[w].retry_after)
  ELSE IF Retryable(s) /\ call[w].retry_after # None THEN call[w].retry_after ELSE 0
Owing(n) == [asked |-> Max2(owed.asked, n), pace |-> Max2(owed.pace, policy.delay)]

Completed(w, s) ==
  /\ call' = [call EXCEPT ![w].pc = "settle", ![w].exit = "none", ![w].result = s]
  /\ owed' = Owing(Asked(w, s))
  /\ UNCHANGED <<Shared, last, notBefore>>

EndOfBody(w) ==
  /\ At(w, "read") /\ call[w].status # None /\ ~Late(w)
  /\ Completed(w, call[w].status)

\* httpx.RequestError: a network failure or the timeout of one read.
RequestError(w) ==
  /\ At(w, "read") /\ ~Late(w)
  /\ call' = [call EXCEPT ![w].pc = "settle", ![w].exit = "none", ![w].result = 0, ![w].retry_after = None]
  /\ owed' = Owing(0)
  /\ UNCHANGED <<Shared, last, notBefore>>

DeadlineExceeded(w) ==
  /\ At(w, "read") /\ Late(w)
  /\ call' = [call EXCEPT ![w].pc = "settle", ![w].exit = "exceeded"]
  /\ UNCHANGED <<Shared, last, notBefore, owed>>

\* finally: finish_request(received), whatever ended the attempt.
SettleReturnsOnly(w) ==
  /\ At(w, "settle")
  /\ IF call[w].exit = "none" THEN call' = [call EXCEPT ![w].pc = "after", ![w].reserved = FALSE]
     ELSE End(w, IF call[w].exit = "stopped" THEN StoppedExit(w) ELSE call[w].exit)
  /\ UNCHANGED <<Shared, last, notBefore, owed>>
Settle(w) ==
  /\ At(w, "settle")
  /\ IF call[w].exit = "none" THEN call' = [call EXCEPT ![w].pc = "after", ![w].reserved = FALSE]
     ELSE call' = [call EXCEPT ![w] = [EndedAs(w, IF call[w].exit = "stopped" THEN StoppedExit(w) ELSE call[w].exit)
                                       EXCEPT !.reserved = FALSE]]
  /\ UNCHANGED <<Shared, last, notBefore, owed>>

\* FetchPolicy.next_delay and _retry_delay.
NextDelay(w) ==
  LET asked == call[w].retry_after IN
  IF Provider = "lichess" THEN Max2(Fixed, IF asked = None THEN 0 ELSE asked)
  ELSE IF asked # None THEN Max2(call[w].delay, asked) ELSE call[w].delay
RetryDelay(w) ==
  IF call[w].result = 429 THEN NextDelay(w)
  ELSE Max2(Max2(call[w].delay, 1) * 2^(call[w].attempt - 1),
            IF call[w].retry_after = None THEN 0 ELSE call[w].retry_after)

\* The deadline is persisted before the call returns or sleeps.
AfterNoPersist(w) ==
  /\ At(w, "after") /\ Retryable(call[w].result)
  /\ notBefore' = [notBefore EXCEPT ![w] = RetryDelay(w)]
  /\ IF call[w].attempt = call[w].tries \/ w \in stop THEN End(w, "result")
     ELSE call' = [call EXCEPT ![w].pc = "backoff", ![w].wake = RetryDelay(w)]
  /\ UNCHANGED <<Shared, last, owed>>
AfterRetryable(w) ==
  /\ At(w, "after") /\ Retryable(call[w].result)
  /\ notBefore' = [notBefore EXCEPT ![w] = RetryDelay(w)]
  /\ cooldown' = Deferred(Max2(RetryDelay(w), policy.delay))
  /\ IF call[w].attempt = call[w].tries \/ w \in stop THEN End(w, "result")
     ELSE call' = [call EXCEPT ![w].pc = "backoff", ![w].wake = RetryDelay(w)]
  /\ UNCHANGED <<policy, updates, lock, stop, crashes, last, owed>>

AfterFinal(w) ==
  /\ At(w, "after") /\ ~Retryable(call[w].result)
  /\ cooldown' = Deferred(Max2(call[w].delay, policy.delay))
  /\ End(w, "result")
  /\ UNCHANGED <<policy, updates, lock, stop, crashes, last, notBefore, owed>>

Backoff(w) ==
  /\ At(w, "backoff") /\ call[w].wake = 0
  /\ IF w \in stop THEN End(w, "result") /\ UNCHANGED notBefore
     ELSE /\ call' = [call EXCEPT ![w].pc = "top", ![w].attempt = @ + 1]
          /\ notBefore' = [notBefore EXCEPT ![w] = 0]
  /\ UNCHANGED <<Shared, last, owed>>

\* A second passes. A read lasts no longer than httpx allows it to.
Aged(c) ==
  [c EXCEPT !.wake = Left(@),
            !.elapsed = IF c.pc = "read" THEN @ + 1 ELSE 0,
            !.reading = IF c.pc = "read" THEN @ + 1 ELSE 0]
Tick ==
  /\ \A w \in Worker : At(w, "read") => call[w].reading < Timeout
  /\ call' = [w \in Worker |-> Aged(call[w])]
  /\ cooldown' = Left(cooldown) /\ owed' = [k \in DOMAIN owed |-> Left(owed[k])]
  /\ last' = [w \in Worker |-> Since(last[w])]
  /\ notBefore' = [w \in Worker |-> Left(notBefore[w])]
  /\ UNCHANGED <<policy, updates, lock, stop, crashes>>

Step(w) ==
  \/ Wait(w) \/ Waited(w) \/ CheckStop(w) \/ Reserve(w) \/ Gate(w) \/ Slept(w)
  \/ Send(w) \/ SendNothing(w) \/ Settle(w) \/ AfterRetryable(w) \/ AfterFinal(w) \/ Backoff(w)
Network(w) ==
  ReceiveHeaders(w) \/ ReadChunk(w) \/ EndOfBody(w) \/ RequestError(w) \/ DeadlineExceeded(w)
Next ==
  \/ Tick \/ SetPolicy
  \/ \E w \in Worker : \/ Claim(w) \/ Release(w) \/ AskStop(w) \/ Restart(w) \/ Crash(w) \/ Begin(w)
                       \/ Step(w) \/ Network(w)
Spec == Init /\ [][Next]_vars
-----------------------------------------------------------------------------
(* Properties *)

\* No request leaves, from any worker, while a completed response still asks
\* for patience: its Retry-After, Lichess's fixed backoff after a 429 or the
\* policy's minimum delay, whichever is longest. The in-memory deadline alone
\* would not do, because the next request may be another worker's. A process
\* that dies before it commits the deadline is the one exception; an operator
\* who lowers the delay while a response is on its way lowers what is owed.
SendsOnlyWhenOwedNothing == \A w \in Worker : Send(w) => owed.asked = 0 /\ owed.pace = 0

\* Every reservation is settled once, on every path out of an attempt (a late
\* stop, an oversized or slow body, a network failure), so the next request
\* finds none open and no idle worker keeps bytes of the budget.
ReservationSettled == \A w \in Worker : call[w].pc \in {"idle", "reserve", "backoff", "top"} => ~call[w].reserved

=============================================================================
