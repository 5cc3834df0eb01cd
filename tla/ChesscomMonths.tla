--------------------------- MODULE ChesscomMonths ---------------------------
(***************************************************************************)
(* Chess.com history collection (jobs/collection.py, _chesscom) over the   *)
(* stored responses of monthly archives (ingest.py, storage/raw.py).  A    *)
(* job inventories the months the provider lists, then takes one month     *)
(* after another: a month observed after its end is reused, any other is   *)
(* requested with the validators of its latest stored body.  Bodies are    *)
(* stored once; fetch logs say when each was seen.  A month's body may     *)
(* change, and change back, until the month ends.                           *)
(***************************************************************************)
EXTENDS Integers, FiniteSets, Sequences, FiniteSetsExt, TLC

CONSTANTS
  Months,              \* months 1..Months; month m ends at time m
  Version,             \* the bodies a month can have
  Job, Mode, Asked,    \* jobs, and the modes and sets of months they may ask for
  BatchSize,
  Last, MaxLogs, MaxFaults   \* bounds: clock, requests, crashes and failures

Month == 1..Months
Fresh == <<0>>        \* no checkpoint yet
Absent == "none"

\* What the settings and the instances guarantee.
MonthsAssumption ==
  /\ Months \in Nat \ {0} /\ Last \in Nat /\ BatchSize \in Nat \ {0}
  /\ Mode \subseteq {"full", "incremental", "backfill"} /\ Asked \subseteq SUBSET Month

VARIABLES
  now, body,           \* the clock and the provider's bodies
  mode, asked, status, \* jobs
  index, units, done,  \* the stored archives index and the checkpoint of a job
  raws, logs,          \* stored bodies, and the fetch logs in id order
  coverage,            \* collection_coverage of each month
  run,                 \* the execution that holds the provider
  faults,
  opened, missed   \* what the properties remember

vars == <<now, body, mode, asked, status, index, units, done, raws, logs, coverage,
          run, faults, opened, missed>>

Idle == [at |-> "idle"]
End(m) == m
Listed == {m \in Month : now >= m - 1}
InOrder(S) == [i \in 1..Cardinality(S) |->
                 CHOOSE m \in S : Cardinality({k \in S : k < m}) = i - 1]

LogsOf(m) == {i \in DOMAIN logs : logs[i].month = m}
Later(i, k) == logs[i].at > logs[k].at \/ (logs[i].at = logs[k].at /\ i >= k)

(* latest_raw_payload_id, latest_successful_source: fetch evidence, not    *)
(* the age of the body, says which body is current.                         *)
Latest(m) ==
  IF LogsOf(m) = {} THEN Absent
  ELSE logs[CHOOSE i \in LogsOf(m) : \A k \in LogsOf(m) : Later(i, k)].ver

(* payload_observed_at *)
ObservedAt(m, v) == Max({logs[i].at : i \in {k \in LogsOf(m) : logs[k].ver = v}})

(* latest_job_payload: what this job has fetched for the month already. *)
Own(j, m) == {i \in LogsOf(m) : logs[i].job = j}

Init ==
  /\ now = 0 /\ body = [m \in Month |-> CHOOSE v \in Version : TRUE]
  /\ mode \in [Job -> Mode] /\ asked \in [Job -> Asked] /\ status = [j \in Job |-> "pending"]
  /\ index = [j \in Job |-> {}] /\ units = [j \in Job |-> Fresh]
  /\ done = [j \in Job |-> 0]
  /\ raws = {} /\ logs = <<>> /\ coverage = [m \in Month |-> [state |-> Absent]]
  /\ run = Idle /\ faults = 0
  /\ opened = [j \in Job |-> 0] /\ missed = {}

Tick ==
  /\ now < Last /\ now' = now + 1
  /\ UNCHANGED <<body, mode, asked, status, index, units, done, raws, logs, coverage,
                 run, faults, opened, missed>>

(* The provider's body of a month changes while the month is open. *)
Play(m) ==
  /\ now < End(m) /\ m \in Listed
  /\ \E v \in Version \ {body[m]} : body' = [body EXCEPT ![m] = v]
  /\ UNCHANGED <<now, mode, asked, status, index, units, done, raws, logs, coverage,
                 run, faults, opened, missed>>

-----------------------------------------------------------------------------
(* execute_collection: a claim; the clock is read once. *)
Begin(j) ==
  /\ run = Idle /\ status[j] = "pending"
  /\ opened' = IF index[j] = {} /\ units[j] = Fresh THEN [opened EXCEPT ![j] = now] ELSE opened
  /\ run' = [at |-> IF units[j] = Fresh THEN "index" ELSE "unit", job |-> j,
             clock |-> now, n |-> 0, ver |-> Absent, sealed |-> FALSE]
  /\ UNCHANGED <<now, body, mode, asked, status, index, units, done, raws, logs,
                 coverage, faults, missed>>

(* fetch_chesscom_archives: the job's own stored index, or a request. *)
FetchIndex ==
  /\ run.at = "index"
  /\ index' = IF index[run.job] # {} THEN index ELSE [index EXCEPT ![run.job] = Listed]
  /\ run' = [run EXCEPT !.at = "inventory"]
  /\ UNCHANGED <<now, body, mode, asked, status, units, done, raws, logs, coverage,
                 faults, opened, missed>>

(* The index request fails: recorded, and the job waits for a retry. *)
IndexFails ==
  /\ run.at = "index" /\ index[run.job] = {} /\ faults < MaxFaults
  /\ run' = Idle /\ faults' = faults + 1
  /\ UNCHANGED <<now, body, mode, asked, status, index, units, done, raws, logs,
                 coverage, opened, missed>>

(* record_coverage never steps back in time, and keeps the body it had.    *)
Covered(m, state, ver, sealed) ==
  LET old == coverage[m]
      new == [state |-> state, at |-> run.clock, sealed |-> sealed,
              ver |-> IF ver = Absent /\ old.state # Absent THEN old.ver ELSE ver]
  IN IF old.state = Absent \/ old.at <= run.clock THEN new ELSE old

(* Months asked for and not listed are missing; listed ones that are        *)
(* unknown become pending with the checkpoint.                               *)
Inventory ==
  /\ run.at = "inventory"
  /\ LET wanted == asked[run.job] \cap index[run.job]
     IN /\ units' = [units EXCEPT ![run.job] = InOrder(wanted)]
        /\ coverage' = [m \in Month |->
             CASE m \in asked[run.job] \ wanted -> Covered(m, "missing", Absent, FALSE)
               [] m \in wanted /\ coverage[m].state = Absent -> Covered(m, "pending", Absent, FALSE)
               [] OTHER -> coverage[m]]
  /\ run' = [run EXCEPT !.at = "unit"]
  /\ UNCHANGED <<now, body, mode, asked, status, index, done, raws, logs, faults,
                 opened, missed>>

More == done[run.job] < Len(units[run.job]) /\ run.n < BatchSize
Current == units[run.job][done[run.job] + 1]

(* Mutant: the clock decides, not when the body was seen. *)
SealedByClock(m) == Latest(m) # Absent /\ now >= End(m)

(* A month seen after its end is sealed and needs no request. *)
Sealed(m) == Latest(m) # Absent /\ ObservedAt(m, Latest(m)) >= End(m)

ReuseSealed ==
  /\ run.at = "unit" /\ More /\ mode[run.job] # "backfill" /\ Sealed(Current)
  /\ run' = [run EXCEPT !.at = "save", !.ver = Latest(Current), !.sealed = TRUE]
  /\ UNCHANGED <<now, body, mode, asked, status, index, units, done, raws, logs,
                 coverage, faults, opened, missed>>

Requested == run.at = "unit" /\ More /\ (mode[run.job] = "backfill" \/ ~Sealed(Current))

(* _reuse_game_acquisition: an interrupted job keeps its own answer. *)
ReuseOwn ==
  /\ Requested /\ Own(run.job, Current) # {}
  /\ run' = [run EXCEPT !.at = "save", !.sealed = run.clock >= End(Current),
                        !.ver = logs[Max(Own(run.job, Current))].ver]
  /\ UNCHANGED <<now, body, mode, asked, status, index, units, done, raws, logs,
                 coverage, faults, opened, missed>>

(* latest_validators: a request names the latest stored body. *)
Validator(m) == Latest(m)

(* _persist_response: a 304 is the body the validator named, a 200 is a     *)
(* body stored once; insert_fetch_log commits with it.                       *)
InsertFetchLog(j, m, v) == Append(logs, [job |-> j, month |-> m, ver |-> v, at |-> now])
Persist(m) ==
  LET v == IF Validator(m) = body[m] THEN Validator(m) ELSE body[m]
  IN /\ raws' = raws \cup {<<m, v>>}
     /\ logs' = InsertFetchLog(run.job, m, v)
     /\ run' = [run EXCEPT !.at = "save", !.ver = v, !.sealed = run.clock >= End(m)]

(* fetch_chesscom_month *)
Fetch ==
  /\ Requested /\ Own(run.job, Current) = {} /\ Len(logs) < MaxLogs
  /\ Persist(Current)
  /\ UNCHANGED <<now, body, mode, asked, status, index, units, done, coverage,
                 faults, opened, missed>>

Cover(m, state, ver, sealed) ==
  coverage' = [coverage EXCEPT ![m] = Covered(m, state, ver, sealed)]

(* 404 and 410: recorded as missing, and the job goes on. *)
Missing ==
  /\ Requested /\ Own(run.job, Current) = {} /\ faults < MaxFaults
  /\ Cover(Current, "missing", Absent, FALSE)
  /\ done' = [done EXCEPT ![run.job] = @ + 1]
  /\ run' = [run EXCEPT !.n = @ + 1] /\ faults' = faults + 1
  /\ missed' = missed \cup {<<run.job, Current>>}
  /\ UNCHANGED <<now, body, mode, asked, status, index, units, raws, logs, opened>>

(* Another failure: recorded, and the checkpoint stays. *)
FetchFails ==
  /\ Requested /\ Own(run.job, Current) = {} /\ faults < MaxFaults
  /\ Cover(Current, "error", Absent, FALSE)
  /\ run' = Idle /\ faults' = faults + 1
  /\ UNCHANGED <<now, body, mode, asked, status, index, units, done, raws, logs,
                 opened, missed>>

(* Coverage and checkpoint in one transaction. *)
Save ==
  /\ run.at = "save"
  /\ Cover(Current, "complete", run.ver, run.sealed)
  /\ done' = [done EXCEPT ![run.job] = @ + 1]
  /\ run' = [run EXCEPT !.at = "unit", !.n = @ + 1]
  /\ UNCHANGED <<now, body, mode, asked, status, index, units, raws, logs, faults,
                 opened, missed>>

Ends ==
  /\ run.at = "unit" /\ ~More
  /\ status' = IF done[run.job] = Len(units[run.job])
               THEN [status EXCEPT ![run.job] = "done"] ELSE status
  /\ run' = Idle
  /\ UNCHANGED <<now, body, mode, asked, index, units, done, raws, logs, coverage,
                 faults, opened, missed>>

(* stop_requested ends a batch between two months; a crash ends it        *)
(* anywhere.  The checkpoint says where the next execution goes on.         *)
Interrupt ==
  /\ run # Idle /\ faults < MaxFaults /\ run' = Idle /\ faults' = faults + 1
  /\ UNCHANGED <<now, body, mode, asked, status, index, units, done, raws, logs,
                 coverage, opened, missed>>

Step == FetchIndex \/ Inventory \/ ReuseSealed \/ ReuseOwn \/ Fetch \/ Save \/ Ends

Next ==
  \/ Tick \/ (\E m \in Month : Play(m)) \/ (\E j \in Job : Begin(j))
  \/ Step \/ Missing \/ IndexFails \/ FetchFails \/ Interrupt

Spec == Init /\ [][Next]_vars
-----------------------------------------------------------------------------
(* Types, and what the tables keep: a log names a stored body, and a       *)
(* complete month has one.                                                  *)
TypeOK ==
  /\ now \in 0..Last /\ faults \in 0..MaxFaults /\ Len(logs) <= MaxLogs
  /\ \A i \in DOMAIN logs : <<logs[i].month, logs[i].ver>> \in raws
  /\ \A m \in Month : coverage[m].state = "complete" => <<m, coverage[m].ver>> \in raws

(* "A source observed while its month was open must be refreshed after     *)
(* closure": a job opened after a month ended completes only with the      *)
(* final body of that month stored, or the month reported missing; and a   *)
(* backfill has asked for every month itself.                               *)
Taken(j) == {units[j][i] : i \in 1..done[j]}
ClosedMonthsCollected ==
  \A j \in Job : status[j] = "done" =>
    /\ Taken(j) = index[j] \cap asked[j]
    /\ \A m \in Taken(j) : opened[j] >= End(m) /\ <<j, m>> \notin missed =>
         /\ <<m, body[m]>> \in raws
         /\ mode[j] = "backfill" => Own(j, m) # {}

=============================================================================
