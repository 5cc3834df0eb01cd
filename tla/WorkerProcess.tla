---------------------------- MODULE WorkerProcess ----------------------------
(***************************************************************************)
(* A worker process and its heartbeat (jobs/worker.py), the row both write *)
(* (start_worker, heartbeat_worker, stop_worker of jobs/state.py) and the  *)
(* local binding by which a container probes its own worker                *)
(* (jobs/worker_identity.py).                                              *)
(*                                                                         *)
(* One container runs one worker after another.  A worker has two threads: *)
(* the main one, which owns the executor session and runs jobs, and the    *)
(* heartbeat, which has a session of its own.  Signals, database errors,   *)
(* contention and kills come at any time; process ids are reused.  What    *)
(* the jobs do is JobExecution's subject: here a job is on or off.         *)
(***************************************************************************)
EXTENDS Naturals, FiniteSets

CONSTANTS
    Incarnations,      \* worker_id: worker i is the i-th process, 1..Incarnations
    Pids,              \* process ids the container hands out
    max_connections,   \* the process's session permits
    heartbeat_max_age, \* WorkerSettings.heartbeat_max_age
    History,           \* WORKER_HISTORY_SECONDS
    LastTime           \* bound on the clock

ASSUME WorkerCapacity == max_connections \in Nat /\ max_connections >= 2
ASSUME AgePositive == heartbeat_max_age \in Nat \ {0}
ASSUME ProcessesCounted == Incarnations \in Nat

Ids == 1..Incarnations
Absent == [status |-> "absent", beat |-> 0, expires |-> 0, job |-> FALSE]
NoBinding == [worker |-> 0, pid |-> 0, start |-> 0]
NoBeat == [at |-> 0, job |-> FALSE, stopping |-> FALSE]

VARIABLES
    now,
    id,        \* the current, or last, incarnation
    pid,       \* its process id
    main,      \* where the main thread is: see MainPhases
    failed,    \* local of Worker.run
    current_job, \* _current_job_id is set
    session,   \* the executor session is usable
    stop,      \* _stop
    hbStop,    \* _heartbeat_stop
    hbError,   \* _heartbeat_error is set
    hb,        \* where the heartbeat thread is: see BeatPhases
    beat,      \* arguments of the heartbeat_worker call in progress
    permits,   \* session permits of the process
    rows,      \* executor_heartbeats
    binding    \* the identity file

process == <<id, pid, main, failed, current_job, session, stop>>
heart == <<hbStop, hbError, hb, beat>>
vars == <<now, process, heart, permits, rows, binding>>

\* gone: no process.  owner: connected with the shared worker lock.  started:
\* the row is written and the heartbeat runs.  polling, busy: in the loop.
\* left: past the test of _heartbeat_error.  joining: in the finally clause.
\* joined: the heartbeat has ended, stop_worker comes next.
MainPhases == {"gone", "owner", "started", "polling", "busy", "left", "joining", "joined"}
\* connect: about to open its session.  ready: has one.  writing: inside
\* heartbeat_worker.  resting: in wait(heartbeat_interval).
BeatPhases == {"off", "connect", "ready", "writing", "resting"}

Init ==
    /\ now = 0
    /\ id = 0 /\ pid = 0 /\ main = "gone"
    /\ failed = FALSE /\ current_job = FALSE /\ session = FALSE
    /\ stop = FALSE /\ hbStop = FALSE /\ hbError = FALSE
    /\ hb = "off" /\ beat = NoBeat
    /\ permits = 0
    /\ rows = [i \in Ids |-> Absent]
    /\ binding = NoBinding

-----------------------------------------------------------------------------
(* The heartbeat table.                                                    *)

PrunesExpired(table, at) ==
    [i \in Ids |-> IF table[i].expires <= at /\ table[i].beat + History < at
                   THEN Absent ELSE table[i]]

\* _prune_worker_heartbeats: terminal rows of the past; its batch is unbounded here
Pruned(table, at) ==
    [i \in Ids |-> IF /\ table[i].status \in {"stopped", "failed"}
                      /\ table[i].beat + History < at
                      /\ table[i].expires <= at
                   THEN Absent ELSE table[i]]

\* worker_alive
Alive(i) == rows[i].status \in {"running", "stopping"} /\ rows[i].expires > now

-----------------------------------------------------------------------------
(* The main thread.                                                        *)

\* connection and parallel_executor_lock of Worker.run, then initialize and
\* refresh_crawl_runs.  A process that fails here leaves nothing behind.
Start(p) ==
    /\ main = "gone" /\ id < Incarnations
    /\ id' = id + 1 /\ pid' = p /\ main' = "owner"
    /\ failed' = FALSE /\ current_job' = FALSE /\ session' = TRUE
    /\ stop' = FALSE /\ hbStop' = FALSE /\ hbError' = FALSE
    /\ permits' = 1
    /\ UNCHANGED <<now, hb, beat, rows, binding>>

\* start_worker, then the heartbeat thread
StartWorker ==
    /\ main = "owner" /\ session
    /\ rows' = Pruned([rows EXCEPT ![id] =
                  [status |-> "running", beat |-> now, expires |-> now + heartbeat_max_age, job |-> FALSE]], now)
    /\ hb' = "connect"
    /\ main' = "started"
    /\ UNCHANGED <<now, id, pid, failed, current_job, session, stop, hbStop, hbError, beat, permits, binding>>

\* write_worker_identity replaces the file in one rename; a process's start
\* time, here its number, tells it from an earlier owner of its pid
Bind ==
    /\ main = "started"
    /\ binding' = [worker |-> id, pid |-> pid, start |-> id]
    /\ main' = "polling"
    /\ UNCHANGED <<now, id, pid, failed, current_job, session, stop, heart, permits, rows>>

\* ... or raises, and the worker ends as failed
BindFails ==
    /\ main = "started"
    /\ failed' = TRUE
    /\ main' = "joining" /\ hbStop' = TRUE
    /\ UNCHANGED <<now, id, pid, current_job, session, stop, hbError, hb, beat, permits, rows, binding>>

ClaimJob ==
    /\ main = "polling" /\ ~stop /\ session
    /\ current_job' = TRUE /\ main' = "busy"
    /\ UNCHANGED <<now, id, pid, failed, session, stop, heart, permits, rows, binding>>

FinishJob ==
    /\ main = "busy" /\ session
    /\ current_job' = FALSE /\ main' = "polling"
    /\ UNCHANGED <<now, id, pid, failed, session, stop, heart, permits, rows, binding>>

\* the loop ends on a stop (or after one round with --once, as if stopped); a heartbeat error seen here makes the run a failure
LeaveLoop ==
    /\ main = "polling" /\ stop
    /\ failed' = hbError
    /\ main' = "left"
    /\ UNCHANGED <<now, id, pid, current_job, session, stop, heart, permits, rows, binding>>

Finally ==
    /\ main = "left"
    /\ hbStop' = TRUE
    /\ main' = "joining"
    /\ UNCHANGED <<now, id, pid, failed, current_job, session, stop, hbError, hb, beat, permits, rows, binding>>

\* the executor session is lost (connection, server or lock); the main thread
\* meets it at its next statement, and release_job_ownership has run
LoseSession ==
    /\ main \in {"owner", "started", "polling", "busy"} /\ session
    /\ session' = FALSE
    /\ UNCHANGED <<now, id, pid, main, failed, current_job, stop, heart, permits, rows, binding>>

MeetLoss ==
    /\ ~session
    /\ \/ /\ main = "owner"                      \* before the try: the process ends
          /\ main' = "gone" /\ permits' = 0
          /\ UNCHANGED <<failed, current_job, hbStop>>
       \/ /\ main \in {"polling", "busy"}
          /\ failed' = TRUE /\ current_job' = FALSE
          /\ main' = "joining" /\ hbStop' = TRUE
          /\ UNCHANGED permits
    /\ UNCHANGED <<now, id, pid, session, stop, hbError, hb, beat, rows, binding>>

MutJoinSkipped ==
    /\ main = "joining"
    /\ main' = "joined"
    /\ UNCHANGED <<now, id, pid, failed, current_job, session, stop, heart, permits, rows, binding>>

Join ==
    /\ main = "joining" /\ hb = "off"
    /\ main' = "joined"
    /\ UNCHANGED <<now, id, pid, failed, current_job, session, stop, heart, permits, rows, binding>>

\* stop_worker (it raises on a lost session and leaves the row), then the
\* executor connection is closed and its lock with it
StopWorker ==
    /\ main = "joined"
    /\ rows' = IF session /\ rows[id].status # "absent"
               THEN Pruned([rows EXCEPT ![id] = [status |-> IF failed THEN "failed" ELSE "stopped",
                                                 beat |-> now, expires |-> now, job |-> FALSE]], now)
               ELSE rows
    /\ main' = "gone" /\ permits' = permits - 1 /\ session' = FALSE
    /\ UNCHANGED <<now, id, pid, failed, current_job, stop, heart, binding>>

\* SIGTERM or SIGINT: request_stop
Signal ==
    /\ main # "gone" /\ ~stop
    /\ stop' = TRUE
    /\ UNCHANGED <<now, id, pid, main, failed, current_job, session, heart, permits, rows, binding>>

\* the process is killed: its sessions end with it, its row and binding stay
Kill ==
    /\ main # "gone"
    /\ main' = "gone" /\ session' = FALSE /\ permits' = 0
    /\ hb' = "off"
    /\ UNCHANGED <<now, id, pid, failed, current_job, stop, hbStop, hbError, beat, rows, binding>>

-----------------------------------------------------------------------------
(* The heartbeat thread.                                                   *)

MutContentionLeaks ==
    /\ hb = "connect"
    /\ \/ /\ hbStop /\ hb' = "off" /\ UNCHANGED permits
       \/ /\ ~hbStop /\ permits < max_connections
          /\ permits' = permits + 1
          /\ hb' \in {"ready", "connect"}
    /\ UNCHANGED <<now, process, hbStop, hbError, beat, rows, binding>>

\* the outer loop ends when asked to, or opens the session; an attempt that meets
\* contention closes what it opened and changes nothing
HbConnect ==
    /\ hb = "connect"
    /\ \/ /\ hbStop /\ hb' = "off" /\ UNCHANGED permits
       \/ /\ ~hbStop /\ permits < max_connections
          /\ permits' = permits + 1 /\ hb' = "ready"
    /\ UNCHANGED <<now, process, hbStop, hbError, beat, rows, binding>>

\* the inner loop reads what it will report, or ends and closes its session
HbRead ==
    /\ hb = "ready"
    /\ \/ /\ hbStop /\ hb' = "off" /\ permits' = permits - 1
          /\ UNCHANGED beat
       \/ /\ ~hbStop /\ hb' = "writing"
          /\ beat' = [at |-> now, job |-> current_job, stopping |-> stop]
          /\ UNCHANGED permits
    /\ UNCHANGED <<now, process, hbStop, hbError, rows, binding>>

\* heartbeat_worker commits what was read, which may be old by now, or gives up
\* on contention; either way the thread rests
HbWrite ==
    /\ hb = "writing"
    /\ \/ /\ rows[id].status \in {"running", "stopping"}
          /\ rows' = Pruned([rows EXCEPT ![id] =
                        [status |-> IF beat.stopping THEN "stopping" ELSE "running",
                         beat |-> beat.at, expires |-> beat.at + heartbeat_max_age, job |-> beat.job]], beat.at)
       \/ UNCHANGED rows
    /\ hb' = "resting" /\ beat' = NoBeat
    /\ UNCHANGED <<now, process, hbStop, hbError, permits, binding>>

HbRest ==
    /\ hb = "resting"
    /\ hb' = "ready"
    /\ UNCHANGED <<now, process, hbStop, hbError, beat, permits, rows, binding>>

\* a database error that is not contention, a refused permit, or a row that is
\* no longer this worker's: the thread ends and asks the worker to stop
HbFatal ==
    /\ hb \in {"connect", "writing"}
    /\ hbError' = TRUE /\ stop' = TRUE
    /\ hb' = "off" /\ beat' = NoBeat
    /\ permits' = IF hb = "writing" THEN permits - 1 ELSE permits
    /\ UNCHANGED <<now, id, pid, main, failed, current_job, session, hbStop, rows, binding>>

-----------------------------------------------------------------------------
\* a worker of another container starts, beats or stops, and prunes as it does
OthersPrune ==
    /\ rows' = Pruned(rows, now)
    /\ UNCHANGED <<now, process, heart, permits, binding>>

Tick ==
    /\ now < LastTime
    /\ now' = now + 1
    /\ UNCHANGED <<process, heart, permits, rows, binding>>

MainStep ==
    \/ StartWorker \/ Bind \/ BindFails \/ FinishJob \/ LeaveLoop
    \/ Finally \/ MeetLoss \/ Join \/ StopWorker

HeartStep == HbConnect \/ HbRead \/ HbWrite \/ HbRest

Next ==
    \/ \E p \in Pids : Start(p)
    \/ MainStep \/ ClaimJob
    \/ LoseSession \/ Signal \/ Kill
    \/ HeartStep \/ HbFatal
    \/ OthersPrune
    \/ Tick

Spec == Init /\ [][Next]_vars

-----------------------------------------------------------------------------
(* The container's probe: read_worker_identity and local_worker_alive.     *)

MutSamePid == main # "gone" /\ binding.pid = pid

\* _process_details of the bound pid gives the bound start time
ProcessBound == main # "gone" /\ binding.pid = pid /\ binding.start = id

Healthy == binding # NoBinding /\ ProcessBound /\ Alive(binding.worker)

-----------------------------------------------------------------------------
(* Properties                                                              *)

Working == main \in {"started", "polling", "busy", "left", "joining", "joined"}

\* The shape of the state.  A terminal row names no job and has expired: that is
\* what lets a status reader and the pruning trust it.
TypeOK ==
    /\ now \in 0..LastTime /\ id \in 0..Incarnations /\ pid \in Pids \cup {0}
    /\ main \in MainPhases /\ hb \in BeatPhases
    /\ permits \in 0..max_connections
    /\ \A i \in Ids : rows[i].status \in {"stopped", "failed"}
                        => ~rows[i].job /\ rows[i].expires = rows[i].beat

\* A healthy probe means this container's own process has written its row and
\* beats: not a predecessor's row under a reused process id, not another worker.
ProbeHonest == Healthy => Working /\ Alive(id)

\* While a worker runs, its row is there for its heartbeat to renew, however long
\* contention kept it from beating and whoever prunes meanwhile: a slow heartbeat
\* never makes a worker believe that its ownership was lost.
LiveRowKept == Working => rows[id].status \in {"running", "stopping"}

\* stop_worker writes the last word: when a row says stopped or failed the
\* worker's heartbeat thread has ended, so nothing revives the row.
TerminalIsQuiet ==
    \A i \in Ids : rows[i].status \in {"stopped", "failed"} => i # id \/ hb = "off"

\* Two permits are enough for a worker: whenever its heartbeat opens a session
\* there is a permit for it, through any number of failed attempts.
TwoSessionsSuffice == hb = "connect" /\ main # "gone" => permits < max_connections
=============================================================================
