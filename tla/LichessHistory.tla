--------------------------- MODULE LichessHistory ---------------------------
(***************************************************************************)
(* Resumable Lichess history collection (jobs/collection.py, _lichess, and *)
(* storage/collection.py).  A job replays pages already stored, refreshes  *)
(* unfinished games, then walks creation time downwards, one page of at    *)
(* most `limit' games per execution.  Each page proves an interval of      *)
(* milliseconds; jobs share the proven intervals and a history watermark.  *)
(* The session lock on the provider lets one execution run at a time; it   *)
(* can die, or be stopped, between any two of its transactions.            *)
(*                                                                         *)
(* Time is 0..Last.  Open stands for a missing lower bound (NULL): as a    *)
(* point of time it is everything before 0.                                *)
(***************************************************************************)
EXTENDS Integers, FiniteSets, Sequences, FiniteSetsExt

CONSTANTS
  Games,        \* how many games the provider has: ids 1..Games
  Ongoing,      \* the games that are unfinished at first
  Job,
  Request,      \* the collection requests jobs are made from
  Last,         \* bound: the last instant
  PageSize, MaxPageSize, BatchSize,
  MaxFaults     \* bound: crashes, stops and failed fetches

Open == -1
Game == 1..Games
NoCursor == [done |-> FALSE]
NoDate == Last + 1    \* a request without an upper bound

\* What the settings and the instances guarantee.
HistoryAssumption ==
  /\ Games \in Nat /\ Last \in Nat \ {0} /\ Ongoing \subseteq Game
  /\ MaxPageSize \in Nat /\ PageSize \in 1..MaxPageSize /\ BatchSize \in Nat \ {0}
  /\ \A q \in Request : /\ q.mode \in {"full", "incremental", "backfill"}
                        /\ q.since \in Open..Last /\ q.until \in 0..NoDate
ASSUME HistoryAllowed == HistoryAssumption

VARIABLES
  now, created, ended,    \* the provider: clock, creation times, finished games
  request, status,        \* jobs
  cursor,                 \* collection_checkpoints
  raw, logs,              \* raw_payloads of pages and the jobs that fetched them
  ranges, history,        \* collection_source_ranges, the history watermark
  follow,                 \* collection_followups
  run,                    \* the execution that holds the provider
  faults,
  used                    \* the games queued for each job's run

vars == <<now, created, ended, request, status, cursor, raw, logs, ranges,
          history, follow, run, faults, used>>
provider == <<created, request>>

Idle == [at |-> "idle"]
Visible == {g \in Game : created[g] <= now}
Captured == UNION {raw[i].games : i \in DOMAIN raw}

Span(lo, hi) == lo..(hi - 1)

CoveredBy(rs, h) == Span(Open, h) \cup UNION {Span(r.since, r.until) : r \in rs}
Covered == CoveredBy(ranges, history)

(* missing_windows, latest first: only the first one is ever used. *)
FirstMissing(lo, hi) ==
  LET M == Span(lo, hi) \ Covered
      top == Max(M)
  IN IF M = {} THEN [since |-> hi, until |-> hi]
     ELSE [since |-> Min({t \in M : t..top \subseteq M}), until |-> top + 1]

(* history_high_water: the end of the covered interval with no lower end. *)
HighWater ==
  Min({t \in Open..(Last + 1) : t \notin Covered})

(* record_coverage for the unit "history": the watermark only rises. *)
RecordHistory == history' = Max({history, HighWater})

(* covered_sources: stored pages whose proven range meets the window. *)
Sources(c) ==
  {r.raw : r \in {r \in ranges : r.since < c.upper /\ r.until > c.req}}

Batch(S) == {x \in S : Cardinality({y \in S : y < x}) < BatchSize}

NewCursor(j) ==
  LET q == request[j]
      until == IF q.until = NoDate THEN now ELSE q.until
      first == IF q.mode = "backfill" THEN [since |-> q.since, until |-> until]
               ELSE FirstMissing(q.since, until)
      known == Sources([upper |-> until, req |-> q.since])
      high == IF q.mode = "full" /\ known # {} THEN Max(known) ELSE 0
  IN [since |-> first.since, until |-> first.until, upper |-> until,
      req |-> q.since, limit |-> PageSize, after |-> 0,
      phase |-> IF high > 0 THEN "stored" ELSE "followups",
      lafter |-> 0, lhigh |-> high, done |-> FALSE]

Todo(c) ==
  CASE c.phase = "stored" -> Batch({i \in Sources(c) : i > c.lafter /\ i <= c.lhigh})
    [] c.phase = "followups" -> Batch({g \in follow : g > c.after})
    [] OTHER -> {}

Enter(j, c) ==
  [job |-> j, at |-> c.phase, cur |-> c, todo |-> Todo(c),
   full |-> Cardinality(Todo(c)) = BatchSize, n |-> 0, page |-> 0]

(* _track_game: unfinished or unfamiliar states are followed up. *)
Unfinished(S) == S \ ended
Track(shown, open) == follow' = (follow \ shown) \cup open

(* _use_local_payload: the games of a payload are queued for the job's run. *)
UsePayload(j, i) == used' = [used EXCEPT ![j] = @ \cup raw[i].games]

Save(j, c) == cursor' = [cursor EXCEPT ![j] = c]

-----------------------------------------------------------------------------
Init ==
  /\ now = 0 /\ created \in [Game -> 0..(Last - 1)] /\ ended = Game \ Ongoing
  /\ request \in [Job -> Request] /\ status = [j \in Job |-> "pending"]
  /\ cursor = [j \in Job |-> NoCursor]
  /\ raw = <<>> /\ logs = {} /\ ranges = {} /\ history = Open /\ follow = {}
  /\ run = Idle /\ faults = 0
  /\ used = [j \in Job |-> {}]

Tick ==
  /\ now < Last /\ now' = now + 1
  /\ UNCHANGED <<provider, ended, status, cursor, raw, logs, ranges, history,
                 follow, run, faults, used>>

GameEnds(g) ==
  /\ g \in Visible \ ended /\ ended' = ended \cup {g}
  /\ UNCHANGED <<provider, now, status, cursor, raw, logs, ranges, history,
                 follow, run, faults, used>>

(* execute_collection: create the checkpoint, or resume from it. *)
Begin(j) ==
  /\ run = Idle /\ status[j] = "pending"
  /\ LET fresh == cursor[j] = NoCursor
         c == IF fresh THEN NewCursor(j) ELSE cursor[j]
     IN IF c.done \/ c.req > c.upper
        THEN /\ status' = [status EXCEPT ![j] = IF c.done THEN "done" ELSE "error"]
             /\ UNCHANGED <<cursor, run>>
        ELSE /\ Save(j, c) /\ run' = Enter(j, c)
             /\ UNCHANGED status
  /\ UNCHANGED <<provider, now, ended, raw, logs, ranges, history, follow,
                 faults, used>>

(* A stored page is queued for this run and the checkpoint moves past it. *)
UseStored ==
  /\ run.at = "stored" /\ run.todo # {}
  /\ LET i == Min(run.todo)
         c == [run.cur EXCEPT !.lafter = i]
     IN /\ UsePayload(run.job, i)
        /\ Save(run.job, c)
        /\ run' = [run EXCEPT !.cur = c, !.todo = @ \ {i}, !.n = @ + 1]
  /\ UNCHANGED <<provider, now, ended, status, raw, logs, ranges, history,
                 follow, faults>>

StoredBatchEnds ==
  /\ run.at = "stored" /\ run.todo = {}
  /\ LET c == IF run.full THEN run.cur ELSE [run.cur EXCEPT !.phase = "followups"]
     IN Save(run.job, c) /\ run' = IF run.n > 0 THEN Idle ELSE Enter(run.job, c)
  /\ UNCHANGED <<provider, now, ended, status, raw, logs, ranges, history,
                 follow, faults, used>>

(* One unfinished game: fetched and tracked, or gone (404 and 410). *)
FollowUp ==
  /\ run.at = "followups" /\ run.todo # {}
  /\ LET g == Min(run.todo)
         c == [run.cur EXCEPT !.after = g]
     IN /\ Track({g}, Unfinished({g})) \/ UNCHANGED follow
        /\ Save(run.job, c)
        /\ run' = [run EXCEPT !.cur = c, !.todo = @ \ {g}, !.n = @ + 1]
  /\ UNCHANGED <<provider, now, ended, status, raw, logs, ranges, history,
                 faults, used>>

FollowUpBatchEnds ==
  /\ run.at = "followups" /\ run.todo = {}
  /\ LET c == [run.cur EXCEPT !.phase = "pages"]
     IN \/ run.full /\ run' = Idle /\ UNCHANGED cursor
        \/ ~run.full /\ Save(run.job, c)
           /\ run' = IF run.n > 0 THEN Idle ELSE Enter(run.job, c)
  /\ UNCHANGED <<provider, now, ended, status, raw, logs, ranges, history,
                 follow, faults, used>>

(* Mutant: a backfill, too, skips what is covered. *)
RefocusAlways(j, c) ==
  LET first == FirstMissing(c.req, c.upper)
  IN [c EXCEPT !.since = first.since, !.until = first.until]

(* The next window: what is still missing, except for a backfill. *)
Refocus(j, c) ==
  LET first == FirstMissing(c.req, c.upper)
      same == first = [since |-> c.since, until |-> c.until]
  IN IF request[j].mode = "backfill" THEN c
     ELSE [c EXCEPT !.since = first.since, !.until = first.until,
                    !.limit = IF same THEN c.limit ELSE PageSize]

(* The transaction that ends a job; the worker may die before it settles. *)
Complete(j, c) ==
  /\ Save(j, [c EXCEPT !.done = TRUE])
  /\ \E s \in {"done", "pending"} : status' = [status EXCEPT ![j] = s]

NothingMissing ==
  /\ run.at = "pages"
  /\ LET c == Refocus(run.job, run.cur)
     IN c.since = c.until /\ Complete(run.job, c)
  /\ RecordHistory /\ run' = Idle
  /\ UNCHANGED <<provider, now, ended, raw, logs, ranges, follow, faults,
                 used>>

(* What the provider may answer: the newest games of the window, at most   *)
(* `limit', the boundary millisecond cut anywhere.                          *)
Pages(c) ==
  LET W == {g \in Visible : c.since <= created[g] /\ created[g] < c.until}
  IN {S \in SUBSET W :
        /\ Cardinality(S) = IF Cardinality(W) < c.limit THEN Cardinality(W) ELSE c.limit
        /\ \A g \in S, h \in W \ S : created[g] >= created[h]}

(* fetch_lichess_games_page: the job's own earlier answer for this key, or *)
(* a new one, stored once per key and body with its fetch log.              *)
FetchPage ==
  /\ run.at = "pages"
  /\ LET c == Refocus(run.job, run.cur)
         key == [since |-> c.since, until |-> c.until, limit |-> c.limit]
         own == {i \in DOMAIN raw : raw[i].key = key /\ <<run.job, i>> \in logs}
     IN /\ c.since # c.until
        /\ \E page \in IF own # {} THEN {raw[Max(own)]}
                       ELSE {[key |-> key, games |-> S, open |-> Unfinished(S)] : S \in Pages(c)} :
             LET i == IF \E k \in DOMAIN raw : raw[k] = page
                      THEN CHOOSE k \in DOMAIN raw : raw[k] = page ELSE Len(raw) + 1
             IN /\ raw' = IF i > Len(raw) THEN Append(raw, page) ELSE raw
                /\ logs' = logs \cup {<<run.job, i>>}
                /\ used' = [used EXCEPT ![run.job] = @ \cup page.games]
                /\ run' = [run EXCEPT !.at = "page", !.cur = c, !.page = i]
  /\ UNCHANGED <<provider, now, ended, status, cursor, ranges, history, follow,
                 faults>>

Saturated == Cardinality(raw[run.page].games) >= run.cur.limit
Oldest == Min({created[g] : g \in raw[run.page].games})

(* Mutant: the boundary millisecond counted as proven. *)
CoveredSinceTies == IF Saturated THEN Oldest ELSE run.cur.since
(* A full page proves only what is newer than its oldest millisecond. *)
CoveredSince == IF Saturated THEN Oldest + 1 ELSE run.cur.since

RecordRange ==
  /\ run.at = "page"
  /\ LET p == raw[run.page]
     IN /\ ranges' = IF \E r \in ranges : r.raw = run.page THEN ranges
                     ELSE ranges \cup {[raw |-> run.page, since |-> CoveredSince,
                                        until |-> run.cur.until]}
        /\ Track(p.games, p.open)
  /\ run' = [run EXCEPT !.at = "recorded"]
  /\ UNCHANGED <<provider, now, ended, status, cursor, raw, logs, history,
                 faults, used>>

(* Mutant: the next page forgets the ties it must overlap. *)
NextLimitForgetsTies == PageSize

NextLimit ==
  LET ties == Cardinality({g \in raw[run.page].games : created[g] = Oldest})
      grown == PageSize + ties
  IN IF Oldest + 1 >= run.cur.until THEN Max({grown, 2 * run.cur.limit}) ELSE grown

(* The page's checkpoint: move down, finish, or give up on too many ties. *)
SavePage ==
  /\ run.at = "recorded"
  /\ LET j == run.job
         c == IF Saturated THEN [run.cur EXCEPT !.until = Oldest + 1, !.limit = NextLimit]
              ELSE run.cur
         done == IF request[j].mode = "backfill" THEN ~Saturated
                 ELSE Span(c.req, c.upper) \subseteq Covered
     IN \/ /\ Saturated /\ NextLimit > MaxPageSize
           /\ status' = [status EXCEPT ![j] = "error"]
           /\ UNCHANGED <<cursor, history>>
        \/ /\ ~(Saturated /\ NextLimit > MaxPageSize)
           /\ RecordHistory
           /\ IF done THEN Complete(j, c) ELSE Save(j, c) /\ UNCHANGED status
  /\ run' = Idle
  /\ UNCHANGED <<provider, now, ended, raw, logs, ranges, follow, faults, used>>

(* The worker dies or is stopped, or a fetch fails and the claim is kept   *)
(* for a retry: nothing but the committed transactions remains.             *)
Interrupt ==
  /\ run # Idle /\ faults < MaxFaults
  /\ faults' = faults + 1 /\ run' = Idle
  /\ UNCHANGED <<provider, now, ended, status, cursor, raw, logs, ranges,
                 history, follow, used>>

Step ==
  \/ UseStored \/ StoredBatchEnds \/ FollowUp \/ FollowUpBatchEnds
  \/ NothingMissing \/ FetchPage \/ RecordRange \/ SavePage

Settled == (\A j \in Job : status[j] # "pending") /\ UNCHANGED vars

Next ==
  \/ Tick \/ (\E g \in Game : GameEnds(g)) \/ (\E j \in Job : Begin(j))
  \/ Step \/ Interrupt \/ Settled

Spec == Init /\ [][Next]_vars
-----------------------------------------------------------------------------
Finished(j) == cursor[j].done
Wanted(j) ==
  {g \in Visible : cursor[j].req <= created[g] /\ created[g] < cursor[j].upper}
OwnPages(j) == UNION {raw[i].games : i \in {k \in DOMAIN raw : <<j, k>> \in logs}}

(* Types, and what the tables enforce: a page proves one well-formed range, *)
(* and no window or watermark leaves the time that pages can describe.      *)
TypeOK ==
  /\ now \in 0..Last /\ ended \subseteq Game /\ follow \subseteq Game
  /\ history \in Open..Last /\ faults \in 0..MaxFaults
  /\ status \in [Job -> {"pending", "done", "error"}]
  /\ \A r \in ranges : r.raw \in DOMAIN raw /\ r.since \in Open..r.until
  /\ \A r, s \in ranges : r.raw = s.raw => r = s
  /\ \A j \in Job : cursor[j] # NoCursor =>
       cursor[j].limit \in 1..MaxPageSize /\ cursor[j].until <= cursor[j].upper

(* Proven intervals are really proven (missing_windows: "Subtract only     *)
(* proven complete intervals; saturated boundary ties remain missing"):    *)
(* whatever crashes, ties and other jobs did, a page holds every game its  *)
(* recorded range can contain, and everything below the history watermark  *)
(* has been captured.                                                       *)
CoverageProven ==
  /\ \A r \in ranges, g \in Visible :
       created[g] \in Span(r.since, r.until) => g \in raw[r.raw].games
  /\ \A g \in Visible : created[g] < history => g \in Captured

(* A job that reports completion has its window: captured by some job for  *)
(* full and incremental collection, fetched again by this very job for a   *)
(* backfill, which "explicitly refreshes".                                  *)
DoneMeansCollected ==
  \A j \in Job : Finished(j) =>
    Wanted(j) \subseteq IF request[j].mode = "backfill" THEN OwnPages(j) ELSE Captured

(* Every collection ends: boundary ties cannot hold the walk at one        *)
(* millisecond for ever, and interrupted executions make progress.          *)
AllEnded == \A j \in Job : status[j] # "pending"
=============================================================================
