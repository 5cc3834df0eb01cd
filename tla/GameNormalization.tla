-------------------------- MODULE GameNormalization --------------------------
(***************************************************************************)
(* Normalization of stored game payloads (normalize/games.py,              *)
(* storage/normalization.py, storage/game_evidence.py and the run          *)
(* selection of storage/acquisition.py).  A response, a 200 or a 304, is   *)
(* logged as an observation of its payload and then, in a transaction of   *)
(* its own, its normalization is queued: one job per parser version.       *)
(* Workers run jobs concurrently, game by game, each game in one           *)
(* transaction, and certify the payload when all its games are recorded    *)
(* for the latest observation.  Several payloads may describe a game: the  *)
(* one observed last rules.                                                 *)
(***************************************************************************)
EXTENDS Integers, FiniteSets, Sequences, FiniteSetsExt, TLC

CONSTANTS
  Raw, Game,
  Holds,               \* the games of each payload, in order
  Ends,                \* ended_at of a game as a payload states it, 0 for none
  Run, Limit,          \* runs and max_games (NoLimit: none)
  Since, Until,        \* the window of a run, 0 for an open side
  Request,             \* max_games of a job (NoLimit: none)
  Parser, Worker,
  MaxObs, MaxCrashes   \* bounds: observations, and crashes or shutdowns

NoLimit == 99
Unset == "none"

\* What the settings and the instances guarantee.
HoldsAssumption ==
  /\ Holds \in [Raw -> Seq(Game)]
  /\ Limit \in [Run -> Nat] /\ Since \in [Run -> Nat] /\ Until \in [Run -> Nat]
  /\ Request \in Nat

VARIABLES
  obs,       \* fetch_logs of game payloads, in id order: [raw, run, jobs], where
             \* jobs is the state of the observation's job for each parser
  progress,  \* payload_normalization_runs
  items,     \* normalization_items: the observation a game was recorded for
  status,    \* raw_payloads: normalization_status and parser_version
  sources,   \* source_records and game_version_sources of each game
  facts,     \* the payload that gave the game its mutable facts
  current,   \* the payload of games.current_version_id
  member,    \* run_games
  proc, crashes

vars == <<obs, progress, items, status, sources, facts, current, member, proc, crashes>>
db == <<progress, items, status, sources, facts, current, member>>

Idle == [at |-> "idle"]
GamesOf(r) == {Holds[r][i] : i \in DOMAIN Holds[r]}

(* observation_id: the last successful fetch log of the payload. *)
Observation(r) == Max({0} \cup {i \in DOMAIN obs : obs[i].raw = r})
LatestOf(S) == CHOOSE r \in S : \A q \in S : Observation(q) <= Observation(r)

(* is_latest_game_source *)
IsLatest(g, r) == LatestOf(sources[g] \cup {r}) = r

Init ==
  /\ obs = <<>>
  /\ progress = [r \in Raw |-> [v \in Parser |-> [seen |-> 0, state |-> Unset]]]
  /\ items = [r \in Raw |-> [v \in Parser |-> [g \in Game |-> 0]]]
  /\ status = [r \in Raw |-> [state |-> "pending", parser |-> Unset]]
  /\ sources = [g \in Game |-> {}]
  /\ facts = [g \in Game |-> Unset] /\ current = [g \in Game |-> Unset]
  /\ member = [x \in Run |-> {}]
  /\ proc = [w \in Worker |-> Idle] /\ crashes = 0

(* _persist_response: a response is stored and logged. *)
Observe(r, x) ==
  /\ Len(obs) < MaxObs
  /\ obs' = Append(obs, [raw |-> r, run |-> x, jobs |-> [v \in Parser |-> Unset]])
  /\ UNCHANGED <<db, proc, crashes>>

SetJob(i, v, state) == obs' = [obs EXCEPT ![i].jobs[v] = state]
Queued(i) == {v \in Parser : obs[i].jobs[v] # Unset}

(* enqueue_payload_normalization, by the execution that logged the         *)
(* response or, when that one was lost, by the next execution of its job,  *)
(* which finds the logged payload (_reuse_game_acquisition).  A job lost   *)
(* after it had queued is executed again too: the same parser finds its    *)
(* job, another version queues one of its own.                              *)
Enqueue(i, v) ==
  /\ obs[i].jobs[v] = Unset
  /\ \/ Queued(i) = {} /\ UNCHANGED crashes
     \/ Queued(i) # {} /\ crashes < MaxCrashes /\ crashes' = crashes + 1
  /\ SetJob(i, v, "pending")
  /\ UNCHANGED <<db, proc>>

(* begin_normalization starts again for a newer observation, or when       *)
(* another parser has certified the payload since.                          *)
Resets(r, v, seen) ==
  \/ progress[r][v].seen # seen
  \/ progress[r][v].state = "complete" /\ status[r].parser # v

BeginNormalization(r, v, seen) ==
  IF Resets(r, v, seen)
  THEN /\ items' = [items EXCEPT ![r][v] = [g \in Game |-> 0]]
       /\ progress' = [progress EXCEPT ![r][v] = [seen |-> seen, state |-> "pending"]]
       /\ status' = [status EXCEPT ![r].state = "pending"]
  ELSE UNCHANGED <<items, progress, status>>

(* replay_raw_payload: a worker takes a queued job. *)
Begin(w, i, v) ==
  /\ proc[w] = Idle /\ obs[i].jobs[v] = "pending"
  /\ LET r == obs[i].raw
         seen == Observation(r)
     IN /\ BeginNormalization(r, v, seen)
        /\ proc' = [proc EXCEPT ![w] =
             [at |-> "load", job |-> i, raw |-> r, parser |-> v, run |-> obs[i].run,
              seen |-> seen, marks |-> {}, n |-> 1, left |-> Request]]
  /\ SetJob(i, v, "running")
  /\ UNCHANGED <<sources, facts, current, member, crashes>>

(* processed_items, a statement of its own. *)
Recorded(r, v, seen) == {g \in GamesOf(r) : items[r][v][g] = seen}
Load(w) ==
  /\ proc[w].at = "load"
  /\ proc' = [proc EXCEPT ![w].at = "game", ![w].marks =
               Recorded(proc[w].raw, proc[w].parser, proc[w].seen)]
  /\ UNCHANGED <<obs, db, crashes>>

(* run_game_bounds and RunGameBounds.includes *)
Allowance(x, left) ==
  IF Limit[x] = NoLimit THEN left
  ELSE Min({left, Max({0, Limit[x] - Cardinality(member[x])})})
Includes(x, ended) ==
  \/ Since[x] = 0 /\ Until[x] = 0
  \/ ended # 0 /\ ended >= Since[x] /\ (Until[x] = 0 \/ ended < Until[x])

Admits(p, g) ==
  /\ Includes(p.run, Ends[p.raw][g])
  /\ Allowance(p.run, p.left) > 0 \/ g \in member[p.run]

NextGame(p) == Holds[p.raw][p.n]

(* The preflight read outside a transaction. *)
Preflight(w) ==
  LET p == proc[w]
  IN /\ p.at = "game" /\ p.n <= Len(Holds[p.raw])
     /\ proc' = [proc EXCEPT ![w] =
          IF Admits(p, NextGame(p)) THEN [p EXCEPT !.at = "write"] ELSE [p EXCEPT !.n = @ + 1]]
     /\ UNCHANGED <<obs, db, crashes>>

(* The facts of a game follow the payload observed last. *)
UpdateCurrent(g, r) == sources[g] = {} \/ IsLatest(g, r)

(* game_source_needs_refresh *)
NeedsRefresh(g, r) == current[g] # r /\ IsLatest(g, r)

(* ended_at of the game once the payload has been applied. *)
EndedAt(g, r) == IF UpdateCurrent(g, r) THEN Ends[r][g] ELSE Ends[facts[g]][g]

(* insert_source_record *)
RecordSource(g, r) == sources' = [sources EXCEPT ![g] = @ \cup {r}]

(* upsert_game and its participants: an older payload leaves them alone. *)
UpsertGame(g, r) == facts' = IF UpdateCurrent(g, r) THEN [facts EXCEPT ![g] = r] ELSE facts

(* Mutant: the revision stored last is the current one. *)
StoreAsCurrent(g, r) == current' = [current EXCEPT ![g] = r]

(* store_game_evidence: the revision observed last is the current one. *)
StoreEvidence(g, r) == current' = [current EXCEPT ![g] = LatestOf(sources[g] \cup {r})]

(* _normalize_game *)
Normalize(g, r) == RecordSource(g, r) /\ UpsertGame(g, r) /\ StoreEvidence(g, r)

(* mark_item never replaces the record of a newer observation. *)
MarkItem(r, v, g, seen) ==
  IF seen >= items[r][v][g] THEN [items EXCEPT ![r][v][g] = seen] ELSE items

(* associate_run_game checks the stored game again: when another payload   *)
(* has given it an end outside the window, the transaction rolls back and  *)
(* the job fails.                                                           *)
Refused(p, g) ==
  /\ g \notin member[p.run]
  /\ ~Includes(p.run, EndedAt(g, p.raw)) \/ Allowance(p.run, NoLimit) = 0

(* One game: the transaction holds the locks of its run and its game. *)
Write(w) ==
  LET p == proc[w]
      g == NextGame(p)
      reusable == g \in p.marks /\ sources[g] # {}
      next == [p EXCEPT !.at = "game", !.n = @ + 1]
  IN /\ p.at = "write"
     /\ \/ /\ ~Admits(p, g)
           /\ proc' = [proc EXCEPT ![w] = next]
           /\ UNCHANGED <<obs, db>>
        \/ /\ Admits(p, g) /\ Refused(p, g)
           /\ SetJob(p.job, p.parser, "error") /\ proc' = [proc EXCEPT ![w] = Idle]
           /\ UNCHANGED db
        \/ /\ Admits(p, g) /\ ~Refused(p, g)
           /\ IF reusable /\ ~NeedsRefresh(g, p.raw)
              THEN UNCHANGED <<sources, facts, current>> ELSE Normalize(g, p.raw)
           /\ items' = MarkItem(p.raw, p.parser, g, p.seen)
           /\ member' = [member EXCEPT ![p.run] = @ \cup {g}]
           /\ proc' = [proc EXCEPT ![w] = [next EXCEPT !.marks = @ \cup {g},
                !.left = IF g \in member[p.run] \/ @ = NoLimit THEN @ ELSE @ - 1]]
           /\ UNCHANGED <<obs, progress, status>>
     /\ UNCHANGED crashes

(* finish_normalization: every game recorded, for the latest observation. *)
Certifies(r, v, seen) == Observation(r) = seen /\ GamesOf(r) = Recorded(r, v, seen)

Finish(w) ==
  LET p == proc[w]
      ok == Certifies(p.raw, p.parser, p.seen)
  IN /\ p.at = "game" /\ p.n > Len(Holds[p.raw])
     /\ progress' = IF ok /\ progress[p.raw][p.parser].seen = p.seen
                    THEN [progress EXCEPT ![p.raw][p.parser].state = "complete"] ELSE progress
     /\ status' = IF ok THEN [status EXCEPT ![p.raw] = [state |-> "parsed", parser |-> p.parser]]
                  ELSE status
     /\ SetJob(p.job, p.parser, "done") /\ proc' = [proc EXCEPT ![w] = Idle]
     /\ UNCHANGED <<items, sources, facts, current, member, crashes>>

(* NormalizationStopped, or a crash: the job is pending again. *)
Stop(w) ==
  /\ proc[w] # Idle /\ crashes < MaxCrashes
  /\ SetJob(proc[w].job, proc[w].parser, "pending") /\ proc' = [proc EXCEPT ![w] = Idle]
  /\ crashes' = crashes + 1 /\ UNCHANGED db

Work(w) == Load(w) \/ Preflight(w) \/ Write(w) \/ Finish(w)
Next ==
  \/ \E r \in Raw, x \in Run : Observe(r, x)
  \/ \E i \in DOMAIN obs, v \in Parser : Enqueue(i, v) \/ \E w \in Worker : Begin(w, i, v)
  \/ \E w \in Worker : Work(w) \/ Stop(w)

Spec == Init /\ [][Next]_vars
-----------------------------------------------------------------------------
Is(i, states) == Queued(i) # {} /\ \A v \in Queued(i) : obs[i].jobs[v] \in states
Settled == \A i \in DOMAIN obs : Is(i, {"done", "error"})

(* Types, and the foreign keys: what is recorded or a member exists. *)
TypeOK ==
  /\ Len(obs) <= MaxObs /\ crashes \in 0..MaxCrashes
  /\ \A r \in Raw, v \in Parser, g \in Game :
       items[r][v][g] # 0 => g \in GamesOf(r) /\ sources[g] # {}
  /\ \A x \in Run : \A g \in member[x] : sources[g] # {}

(* "The current revision follows fetch evidence, including a previously     *)
(* seen body returning later": once every response has been queued and all *)
(* jobs are done, the facts and the revision of a game come from the       *)
(* payload observed last of those that were stored for it.                  *)
SettledIsCurrent ==
  (\A i \in DOMAIN obs : Is(i, {"done"})) => \A g \in Game : sources[g] # {} =>
    facts[g] = LatestOf(sources[g]) /\ current[g] = facts[g]

(* The run of an observation has taken the game from its payload. *)
Acquires(i, g) ==
  /\ Is(i, {"done"}) /\ g \in GamesOf(obs[i].raw) \cap member[obs[i].run]
  /\ Includes(obs[i].run, Ends[obs[i].raw][g])

(* What the code achieves of it, whatever the order of the jobs: a body    *)
(* that returns rules again if the run that observed it last holds the     *)
(* game and has a window with the end that the body states.                 *)
AcquiredIsCurrent ==
  Settled => \A g \in Game, r \in Raw :
    LET i == Observation(r)
    IN i # 0 /\ IsLatest(g, r) /\ Acquires(i, g) => facts[g] = r /\ current[g] = r
=============================================================================
