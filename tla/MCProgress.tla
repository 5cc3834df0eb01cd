----------------------------- MODULE MCProgress -----------------------------
(* What eventually happens where progress is promised, and the order of     *)
(* event notifications (extended).  The parts share no state here: `part`   *)
(* is chosen once, the instance it names moves, and the variables of the    *)
(* other modules stay idle.  Fairness and properties of a part speak of the *)
(* behaviours in which it moves.                                            *)
EXTENDS EventOutbox, Integers, TLC

CONSTANTS j1, j2, p1, p2, r1, t1, t2, t3, w1, w2, x1, x2

Ask(mode) == [mode |-> mode, since |-> -1, until |-> 2]

VARIABLES
    part,   \* the instance that moves
    call, active, waiters, native, released, closer,
    job, hint, hintPub, worker, queue, sends, crashes, hintFailures,
    now, created, ended, request, status, cursor, raw, logs, ranges, history, follow,
    run, faults, used,
    row, wrote, runStatus, cooldown, rowLock, runLock, jobLock, provLock, gate, proc,
    sessionLosses

\* A capture and its normalization.
Captures == {"crawl", "normalize"}
ForAll(v) == [j \in Captures |-> v]
Kinds == ("crawl" :> "bounded") @@ ("normalize" :> "normalize")
Parents == ("crawl" :> None) @@ ("normalize" :> "crawl")

Permits == INSTANCE SessionAdmission WITH
    Threads <- {t1, t2, t3}, max_connections <- 1
\* Windows of one hint, so that the cursors must move past hints.
Windows == INSTANCE DispatchOutbox WITH
    Job <- {j1, j2}, Publisher <- {p1}, Worker <- {w1}, Limit <- 1, MaxRevision <- 4,
    Retried <- {j1}, MaxCrashes <- 0, MaxMessages <- 1, MaxFailures <- 1,
    pub <- hintPub, failures <- hintFailures
\* Two games of one millisecond; one job collects them, the other fetches them again.
Pages == INSTANCE LichessHistory WITH
    Games <- 2, Ongoing <- {}, Job <- {x1, x2},
    Request <- {Ask("full"), Ask("backfill")}, Last <- 1, PageSize <- 1,
    MaxPageSize <- 4, BatchSize <- 1, MaxFaults <- 1
\* Two workers whose sessions are lost twice.
Lost == INSTANCE JobExecution WITH
    Worker <- {w1, w2}, Job <- Captures, Run <- {1}, Provider <- {"lichess"},
    Workspace <- {"ws"}, RunOf <- ForAll(1), WorkspaceOf <- ForAll("ws"),
    ProviderOf <- ForAll("lichess"), KindOf <- Kinds, Paced <- {}, ParentOf <- Parents,
    Root <- {"crawl"}, Cancellable <- {}, Outcome <- {"done"}, MaxActive <- 1,
    MaxRetries <- 0, MaxClaims <- 1, MaxLosses <- 2, status <- runStatus,
    losses <- sessionLosses
\* Two workers whose executions fail for a while.
Retried == INSTANCE JobExecution WITH
    Worker <- {w1, w2}, Job <- Captures, Run <- {1}, Provider <- {"lichess"},
    Workspace <- {"ws"}, RunOf <- ForAll(1), WorkspaceOf <- ForAll("ws"),
    ProviderOf <- ForAll("lichess"), KindOf <- Kinds, Paced <- {}, ParentOf <- Parents,
    Root <- {"crawl"}, Cancellable <- {}, Outcome <- {"done", "transient"}, MaxActive <- 1,
    MaxRetries <- 1, MaxClaims <- 1, MaxLosses <- 0, status <- runStatus,
    losses <- sessionLosses

\* The instances are ones the settings allow.
ASSUME SettingsAllowed == Pages!HistoryAssumption /\ Lost!ConstantsAssumption /\
                          Retried!ConstantsAssumption

permitVars == <<call, active, waiters, native, released, closer>>
hintVars == <<job, hint, hintPub, worker, queue, sends, crashes, hintFailures>>
pageVars == <<now, created, ended, request, status, cursor, raw, logs, ranges, history,
              follow, run, faults, used>>
jobVars == <<row, wrote, runStatus, cooldown, rowLock, runLock, jobLock, provLock, gate,
             proc, sessionLosses>>
everything == <<part, vars, permitVars, hintVars, pageVars, jobVars>>

Unused == "unused"
NoPermit == call = Unused /\ active = Unused /\ waiters = Unused /\ native = Unused /\
         released = Unused /\ closer = Unused
NoHint == job = Unused /\ hint = Unused /\ hintPub = Unused /\ worker = Unused /\
       queue = Unused /\ sends = Unused /\ crashes = Unused /\ hintFailures = Unused
NoPage == now = Unused /\ created = Unused /\ ended = Unused /\ request = Unused /\
       status = Unused /\ cursor = Unused /\ raw = Unused /\ logs = Unused /\
       ranges = Unused /\ history = Unused /\ follow = Unused /\ run = Unused /\
       faults = Unused /\ used = Unused
NoJob == row = Unused /\ wrote = Unused /\ runStatus = Unused /\ cooldown = Unused /\
      rowLock = Unused /\ runLock = Unused /\ jobLock = Unused /\ provLock = Unused /\
      gate = Unused /\ proc = Unused /\ sessionLosses = Unused

ProgressInit ==
    \/ part = "permits" /\ Permits!Init /\ NoHint /\ NoPage /\ Init /\ NoJob
    \/ part = "windows" /\ Windows!DispatchInit /\ NoPermit /\ NoPage /\ Init /\ NoJob
    \/ part = "events" /\ Init /\ NoPermit /\ NoHint /\ NoPage /\ NoJob
    \/ /\ part = "pages" /\ Pages!Init /\ NoPermit /\ NoHint /\ NoJob /\ Init
       /\ request[x1].mode = "full" /\ request[x2].mode = "backfill"
    \/ part = "lost" /\ Lost!Init /\ NoPermit /\ NoHint /\ NoPage /\ Init
    \/ part = "retried" /\ Retried!Init /\ NoPermit /\ NoHint /\ NoPage /\ Init

ProgressNext ==
    \/ part = "permits" /\ Permits!Next /\ UNCHANGED <<part, vars, hintVars, pageVars, jobVars>>
    \/ part = "windows" /\ Windows!DispatchNext /\ UNCHANGED <<part, vars, permitVars, pageVars, jobVars>>
    \/ part = "events" /\ Next /\ UNCHANGED <<part, permitVars, hintVars, pageVars, jobVars>>
    \/ part = "pages" /\ Pages!Next /\ UNCHANGED <<part, vars, permitVars, hintVars, jobVars>>
    \/ part = "lost" /\ Lost!Next /\ UNCHANGED <<part, vars, permitVars, hintVars, pageVars>>
    \/ part = "retried" /\ Retried!Next /\ UNCHANGED <<part, vars, permitVars, hintVars, pageVars>>

(* Some publisher runs and restarts, transactions end and time passes.      *)
EventFairness ==
    /\ WF_vars(part = "events" /\ \E p \in Publisher : Publish(p))
    /\ \A w \in Writer : WF_vars(part = "events" /\ (Commit(w) \/ Rollback(w)))
    /\ WF_vars(part = "events" /\ \E e \in Id : Due(e))

(* Threads run, native calls return and waits time out; whether a           *)
(* connection is ever asked for or closed is the caller's business.         *)
PermitFairness == \A t \in {t1, t2, t3} :
    /\ WF_permitVars(part = "permits" /\ Permits!TimeOut(t))
    /\ WF_permitVars(part = "permits" /\ Permits!Resume(t))
    /\ WF_permitVars(part = "permits" /\ Permits!Connect(t))
    /\ \A k \in Permits!Closers : WF_permitVars(part = "permits" /\ Permits!ClosePermit(t, k))

(* Dispatchers and workers loop for ever, executions end and time passes; a *)
(* worker may never choose to claim.                                        *)
HintFairness ==
    /\ WF_hintVars(part = "windows" /\ Windows!Dispatch(p1))
    /\ WF_hintVars(part = "windows" /\ Windows!MaintainDispatch(w1))
    /\ WF_hintVars(part = "windows" /\ (Windows!Finish(w1) \/ Windows!Acknowledge(w1)))
    /\ \A j \in {j1, j2} : WF_hintVars(part = "windows" /\ Windows!JobDue(j))
    /\ WF_hintVars(part = "windows" /\ \E h \in Windows!Id : Windows!HintDue(h))

(* A pending job is claimed, and its execution goes on (JobExecution).      *)
PageFairness ==
    /\ WF_pageVars(part = "pages" /\ Pages!Step)
    /\ WF_pageVars(part = "pages" /\ \E j \in {x1, x2} : Pages!Begin(j))

(* Workers run and restart, handlers return and time passes; strong where a *)
(* statement waits in turn for the row of a job (JobExecution).             *)
JobFairness == \A w \in {w1, w2} :
    /\ WF_jobVars((part = "lost" /\ Lost!Loop(w)) \/ (part = "retried" /\ Retried!Loop(w)))
    /\ SF_jobVars(\/ part = "lost" /\ (Lost!BeginRefresh(w) \/ Lost!Finish(w))
                  \/ part = "retried" /\ (Retried!BeginRefresh(w) \/ Retried!Finish(w)))
TimeFairness ==
    /\ \A j \in Captures : WF_jobVars(part = "retried" /\ Retried!RetryDue(j))
    /\ WF_jobVars(part = "retried" /\ Retried!CooldownOver("lichess"))

Fairness == EventFairness /\ PermitFairness /\ HintFairness /\ PageFairness /\ JobFairness /\ TimeFairness

ProgressSpec == ProgressInit /\ [][ProgressNext]_everything /\ Fairness

-----------------------------------------------------------------------------
(* A saturated process answers: a call that waits for a session gets a      *)
(* permit or the availability error.                                        *)
WaitEnds == \A t \in {t1, t2, t3} :
    []<>(part = "permits" => call[t] \notin {"parked", "woken", "late"})

(* A waiting job does not wait for ever without its hint having been        *)
(* published, even behind windows of locked, obsolete or delayed hints.     *)
HintPublished == \A j \in {j1, j2} : []<>(part = "windows" => Windows!HintOut(j))

(* Every committed event is eventually accepted by the hub or discarded by  *)
(* an operator, through backoff, lost sessions and restarts.                *)
EventsDelivered == []<>(part = "events" => In("pending") = {})

(* Every collection of pages ends: page sizes and stored pages always move  *)
(* it on, through crashes and coverage another job commits meanwhile.       *)
CollectionEnds == []<>(part = "pages" => Pages!AllEnded)

(* Every job that was enqueued comes to rest: orphans are recovered,        *)
(* retries made and waiting parents resumed, and no worker waits for ever.  *)
EveryJobSettles ==
    <>[](/\ part = "lost" => \A j \in Captures : Lost!Settled(j)
         /\ part = "retried" => \A j \in Captures : Retried!Settled(j))
=============================================================================
