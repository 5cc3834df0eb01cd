-------------------------- MODULE AccountIdentity --------------------------
(***************************************************************************)
(* The provider accounts of the archive and the transactions that change   *)
(* them (storage/repository.py, normalize/users.py, player_profiles.py).   *)
(* A game of Chess.com names its players; only a profile carries the       *)
(* stable id.  A row without a stable id is a placeholder.  A profile that *)
(* shows a known id under a new name renames its row, and absorbs the      *)
(* placeholder that held the name, with all the evidence attached to it.   *)
(*                                                                         *)
(* Ordinary transactions hold the provider's identity gate shared and the  *)
(* locks of the names and ids they touch, taken in one order; one that     *)
(* finds it must rename starts again with the gate held exclusively.  The  *)
(* expansion of a frontier reads row ids under neither.                    *)
(*                                                                         *)
(* A job here is one transaction over retained evidence: a profile, a game *)
(* (its two players), statistics (bound to the account at capture, parsed  *)
(* later), or an expansion that records an edge.                           *)
(***************************************************************************)
EXTENDS Integers, FiniteSets, Sequences, SequencesExt, FiniteSetsExt

CONSTANTS Workers,
          Jobs,      \* a set of numbers
          Kind,      \* "profile", "game", "stats" or "edge", per job
          Accounts,  \* the names and ids a job's evidence shows, per job: <<[name, sid]>>
          Time,      \* when the evidence was fetched, per job, all different
          MaxFaults  \* executions that die and done jobs that are replayed

NoId == 0
RowIds == (Jobs \X (1 .. 4)) \union {<<0, 0>>}   \* who inserted the row; 3 and 4 after 1 and 2 were used
NoRow == <<0, 0>>     \* NULL
Resources == UNION {{a.name, a.sid} : a \in UNION {Range(Accounts[j]) : j \in Jobs}} \ {NoId}

\* What the settings and the instances guarantee.
JobsAssumption ==
    /\ Jobs \subseteq Nat /\ MaxFaults \in Nat
    /\ \A j \in Jobs : Kind[j] \in {"profile", "game", "stats", "edge"}
    /\ \A j, k \in Jobs : j # k => Time[j] # Time[k]

VARIABLES rows,     \* provider_users
          part,     \* game_participants.provider_user_id, per game and colour
          bound,    \* fetch_logs.provider_user_id of a statistics fetch
          obs,      \* user_observations: the account a profile or statistics belongs to
          edges,    \* discovery_edges
          jobs, proc, gate, locks, faults

evidence == <<part, bound, obs, edges>>
vars == <<rows, part, bound, obs, edges, jobs, proc, gate, locks, faults>>

Absent == [live |-> FALSE, name |-> 0, sid |-> NoId, at |-> 0]
Idle == [job |-> 0, at |-> "idle", excl |-> FALSE, accts |-> << >>, todo |-> << >>,
         seen |-> << >>, ends |-> <<NoRow, NoRow>>]
Live == {r \in RowIds : rows[r].live}
Free == "free"

TypeOK ==
    /\ NoRow \notin Live
    /\ jobs \in [Jobs -> {"pending", "captured", "running", "done", "error"}]
    /\ \A w \in Workers : proc[w].job # 0 => jobs[proc[w].job] = "running"
    /\ gate.shared \union gate.excl \subseteq {w \in Workers : proc[w].at \in {"locking", "write"}}
    /\ Cardinality(gate.excl) <= 1 /\ (gate.excl # {} => gate.shared = {})
    /\ \A r \in Resources : locks[r] \in Workers => locks[r] \in gate.shared \union gate.excl
    /\ faults \in 0 .. MaxFaults

Init ==
    /\ rows = [r \in RowIds |-> Absent]
    /\ part = [x \in Jobs \X {1, 2} |-> NoRow]
    /\ bound = [j \in Jobs |-> NoRow] /\ obs = [j \in Jobs |-> NoRow]
    /\ edges = {}
    /\ jobs = [j \in Jobs |-> "pending"] /\ proc = [w \in Workers |-> Idle]
    /\ gate = [shared |-> {}, excl |-> {}] /\ locks = [r \in Resources |-> Free]
    /\ faults = 0

----------------------------------------------------------------------------
(* Rows by name and by stable id; at most one of each, or NoRow.           *)
Named(R, n) == IF \E r \in RowIds : R[r].live /\ R[r].name = n
               THEN CHOOSE r \in RowIds : R[r].live /\ R[r].name = n ELSE NoRow
Identified(R, s) == IF s # NoId /\ \E r \in RowIds : R[r].live /\ R[r].sid = s
                    THEN CHOOSE r \in RowIds : R[r].live /\ R[r].sid = s ELSE NoRow

(* _identity_needs_reconciliation                                          *)
NeedsReconciliation(R, a) == LET r == Identified(R, a.sid) IN r # NoRow /\ R[r].name # a.name

(* _is_latest_profile: no profile already attached to the row was fetched  *)
(* later than this one.                                                    *)
IsLatestProfile(r, j) ==
    \A k \in Jobs : Kind[k] = "profile" /\ obs[k] = r => Time[k] <= Time[j]

(* Mutant: a stable id that no row has yet is taken for the id of the name. *)
ConflictingIfKnown(R, j, a) ==
    LET named == Named(R, a.name)
        identified == Identified(R, a.sid)
    IN  /\ a.sid # NoId /\ named # NoRow /\ identified \notin {NoRow, named}
        /\ R[named].sid \notin {NoId, a.sid}
        /\ \/ Kind[j] = "profile" /\ IsLatestProfile(identified, j)
           \/ Kind[j] # "profile" /\ Time[j] >= R[identified].at

(* Two stable ids under one name: the observation cannot be reconciled.    *)
Conflicting(R, j, a) ==
    LET named == Named(R, a.name)
        identified == Identified(R, a.sid)
    IN  /\ a.sid # NoId /\ named # NoRow /\ named # identified
        /\ R[named].sid \notin {NoId, a.sid}
        /\ \/ identified = NoRow
           \/ Kind[j] = "profile" /\ IsLatestProfile(identified, j)
           \/ Kind[j] # "profile" /\ Time[j] >= R[identified].at

NewRow(R, j, i) == IF R[<<j, i>>].live THEN <<j, i + 2>> ELSE <<j, i>>

(* _upsert_provider_user_locked for the i-th account of job j.  A stale    *)
(* observation leaves the row as it is; a name held by a placeholder is    *)
(* taken over with the placeholder's evidence (gone).                      *)
Upsert(st, j, i, a, at) ==
    LET R == st.rows
        named == Named(R, a.name)
        identified == Identified(R, a.sid)
        id == IF identified # NoRow THEN identified ELSE IF named # NoRow THEN named ELSE NewRow(R, j, i)
        absorbs == named # NoRow /\ named # id
        stale == \/ Kind[j] = "profile" /\ named # NoRow /\ absorbs /\ ~IsLatestProfile(named, j)
                 \/ Kind[j] = "profile" /\ R[id].live /\ ~IsLatestProfile(id, j)
                 \/ Kind[j] # "profile" /\ identified # NoRow /\ at < R[id].at
        old == IF absorbs THEN Max({R[id].at, R[named].at}) ELSE R[id].at
    IN  IF stale THEN [st EXCEPT !.ids = Append(@, id)]
        ELSE [rows |-> [r \in RowIds |->
                  IF r = id THEN [live |-> TRUE, name |-> a.name,
                                  sid |-> IF a.sid # NoId THEN a.sid ELSE R[r].sid, at |-> Max({at, old})]
                  ELSE IF absorbs /\ r = named THEN Absent ELSE R[r]],
              ids |-> Append(st.ids, id),
              gone |-> IF absorbs THEN [st.gone EXCEPT ![named] = id] ELSE st.gone]

UpsertAll(R, j, accts) ==
    FoldLeft(LAMBDA st, i : Upsert(st, j, i, accts[i], Time[j]),
             [rows |-> R, ids |-> << >>, gone |-> [r \in RowIds |-> r]],
             [i \in 1 .. Len(accts) |-> i])

----------------------------------------------------------------------------
(* A worker takes a job.  An expansion reads the rows of two opponents, in *)
(* no transaction; everything else asks for the gate, shared at first.     *)
Begin(w, j) ==
    /\ proc[w] = Idle /\ jobs[j] \in {"pending", "captured"}
    /\ IF Kind[j] = "edge"
       THEN \E g \in Jobs :
              /\ part[<<g, 1>>] # NoRow
              /\ proc' = [proc EXCEPT ![w] = [Idle EXCEPT !.job = j, !.at = "edge",
                                                           !.ends = <<part[<<g, 1>>], part[<<g, 2>>]>>]]
       ELSE proc' = [proc EXCEPT ![w] = [Idle EXCEPT !.job = j, !.accts = Accounts[j],
                        !.at = IF jobs[j] = "captured" THEN "parse" ELSE "gate"]]
    /\ jobs' = [jobs EXCEPT ![j] = "running"]
    /\ UNCHANGED <<rows, evidence, gate, locks, faults>>

(* Mutant: the locks are taken in the order of the players.                *)
AsListed(accts) == FlattenSeq([i \in 1 .. Len(accts) |->
    IF accts[i].sid = NoId THEN <<accts[i].name>> ELSE <<accts[i].name, accts[i].sid>>])

(* user_identity_resources, in the one order every transaction uses.       *)
LockOrder(accts) ==
    LET keys == UNION {{a.name, a.sid} : a \in Range(accts)} \ {NoId}
    IN  SetToSortSeq(keys, LAMBDA x, y : x < y)

(* Statistics are parsed for the account their fetch was bound to, by the  *)
(* name and id it has now; the requested name is locked too.               *)
BoundAccounts(j) == LET r == rows[bound[j]] IN <<[name |-> r.name, sid |-> r.sid]>>

TakeGate(w) ==
    LET p == proc[w]
        accts == IF p.at = "parse" THEN BoundAccounts(p.job) ELSE p.accts
    IN  /\ p.at \in {"gate", "parse"}
        /\ gate.excl = {} /\ (p.excl => gate.shared = {})
        /\ gate' = IF p.excl THEN [gate EXCEPT !.excl = {w}] ELSE [gate EXCEPT !.shared = @ \union {w}]
        /\ proc' = [proc EXCEPT ![w].at = "locking", ![w].accts = accts,
                                ![w].todo = LockOrder(accts \o p.accts)]
        /\ UNCHANGED <<rows, evidence, jobs, locks, faults>>

TakeLock(w) ==
    LET p == proc[w]
    IN  /\ p.at = "locking" /\ p.todo # << >>
        /\ locks[Head(p.todo)] \in {Free, w}
        /\ locks' = [locks EXCEPT ![Head(p.todo)] = w]
        /\ proc' = [proc EXCEPT ![w].todo = Tail(@)]
        /\ UNCHANGED <<rows, evidence, jobs, gate, faults>>

Unlocked(w) == [r \in Resources |-> IF locks[r] = w THEN Free ELSE locks[r]]
Opened(w) == [shared |-> gate.shared \ {w}, excl |-> gate.excl \ {w}]

(* With its locks the transaction reads the rows.  A rename under the      *)
(* shared gate gives everything back and starts again, exclusively.        *)
ReadRows(w) ==
    LET p == proc[w]
    IN  /\ p.at = "locking" /\ p.todo = << >>
        /\ IF ~p.excl /\ \E a \in Range(p.accts) : NeedsReconciliation(rows, a)
           THEN /\ proc' = [proc EXCEPT ![w] = [Idle EXCEPT !.job = p.job, !.accts = p.accts,
                                                             !.excl = TRUE, !.at = "gate"]]
                /\ locks' = Unlocked(w) /\ gate' = Opened(w)
           ELSE /\ proc' = [proc EXCEPT ![w].at = "write", ![w].seen = rows]
                /\ UNCHANGED <<locks, gate>>
        /\ UNCHANGED <<rows, evidence, jobs, faults>>

MergedBindings(gone) == [j \in Jobs |-> gone[bound[j]]]
MergedEdges(gone) == {<<gone[e[1]], gone[e[2]]>> : e \in edges}   \* equal edges become one

(* _merge_user_placeholder: what was attached to the placeholder moves to  *)
(* the row that absorbs it.                                                *)
MoveEvidence(gone) ==
    /\ part' = [x \in DOMAIN part |-> gone[part[x]]]
    /\ bound' = MergedBindings(gone)
    /\ edges' = MergedEdges(gone)

(* resolve_capture_account: a fetch is bound to the account that has the   *)
(* requested name and changes no row that is there.                        *)
CaptureBinding(R, j, accts) ==
    IF Named(R, accts[1].name) = NoRow THEN UpsertAll(R, j, accts)
    ELSE [rows |-> R, ids |-> <<Named(R, accts[1].name)>>, gone |-> [r \in RowIds |-> r]]

WithParticipants(j, ids) == [x \in DOMAIN part |-> IF x[1] = j THEN ids[x[2]] ELSE part[x]]

(* The writes of the transaction, computed from the rows it read, and its  *)
(* commit.                                                                 *)
Commit(w) ==
    LET p == proc[w]
        j == p.job
        captures == Kind[j] = "stats" /\ bound[j] = NoRow
        done == IF captures THEN CaptureBinding(p.seen, j, p.accts) ELSE UpsertAll(p.seen, j, p.accts)
    IN  /\ p.at = "write"
        /\ IF \E a \in Range(p.accts) : Conflicting(p.seen, j, a)
           THEN /\ jobs' = [jobs EXCEPT ![j] = "error"]
                /\ UNCHANGED <<rows, evidence>>
           ELSE /\ jobs' = [jobs EXCEPT ![j] = IF captures THEN "captured" ELSE "done"]
                /\ rows' = [r \in RowIds |-> IF done.rows[r] # p.seen[r] THEN done.rows[r] ELSE rows[r]]
                /\ IF Kind[j] = "game"
                   THEN /\ part' = WithParticipants(j, done.ids)
                        /\ UNCHANGED <<bound, obs, edges>>
                   ELSE IF captures
                   THEN bound' = [bound EXCEPT ![j] = done.ids[1]] /\ UNCHANGED <<part, obs, edges>>
                   ELSE /\ MoveEvidence(done.gone)
                        /\ obs' = [[k \in Jobs |-> done.gone[obs[k]]] EXCEPT ![j] = done.ids[1]]
        /\ locks' = Unlocked(w) /\ gate' = Opened(w)
        /\ proc' = [proc EXCEPT ![w] = Idle]
        /\ UNCHANGED faults

(* record_discovery_edges with the ids read earlier: the foreign keys      *)
(* refuse a row that was merged away, and the job is tried again.          *)
RecordEdge(w) ==
    LET p == proc[w]
        there == {p.ends[1], p.ends[2]} \subseteq Live
    IN  /\ p.at = "edge"
        /\ edges' = IF there THEN edges \union {<<p.ends[1], p.ends[2]>>} ELSE edges
        /\ jobs' = [jobs EXCEPT ![p.job] = IF there THEN "done" ELSE "pending"]
        /\ proc' = [proc EXCEPT ![w] = Idle]
        /\ UNCHANGED <<rows, part, bound, obs, gate, locks, faults>>

(* The session dies: its transaction and its locks are gone, the job is    *)
(* recovered.                                                              *)
Crash(w) ==
    /\ proc[w] # Idle /\ faults < MaxFaults
    /\ jobs' = [jobs EXCEPT ![proc[w].job] = IF bound[proc[w].job] = NoRow THEN "pending" ELSE "captured"]
    /\ proc' = [proc EXCEPT ![w] = Idle]
    /\ locks' = Unlocked(w) /\ gate' = Opened(w) /\ faults' = faults + 1
    /\ UNCHANGED <<rows, evidence>>

(* Stored profiles and statistics are interpreted again by a new parser.   *)
Replay(j) ==
    /\ jobs[j] = "done" /\ Kind[j] \in {"profile", "stats"} /\ faults < MaxFaults
    /\ jobs' = [jobs EXCEPT ![j] = IF Kind[j] = "stats" THEN "captured" ELSE "pending"]
    /\ faults' = faults + 1
    /\ UNCHANGED <<rows, evidence, proc, gate, locks>>

Next ==
    \/ \E w \in Workers : \/ \E j \in Jobs : Begin(w, j)
                          \/ TakeGate(w) \/ TakeLock(w) \/ ReadRows(w) \/ Commit(w)
                          \/ RecordEdge(w) \/ Crash(w)
    \/ \E j \in Jobs : Replay(j)

Spec == Init /\ [][Next]_vars

----------------------------------------------------------------------------
(* Evidence stays with the account it is about, through every rename,      *)
(* merge and reuse of a name: a profile belongs to the row with the stable *)
(* id that it showed, and statistics to the row that their fetch was bound *)
(* to, whoever holds the requested name when they are parsed.              *)
EvidenceOnItsAccount ==
    \A j \in Jobs : obs[j] # NoRow =>
        /\ obs[j] \in Live
        /\ Kind[j] = "profile" => rows[obs[j]].sid = Accounts[j][1].sid
        /\ Kind[j] = "stats" => obs[j] = bound[j]

(* The workers whose locks a worker is waiting for.                        *)
WaitsFor(w) ==
    LET p == proc[w]
    IN  IF p.at \in {"gate", "parse"}
        THEN (IF p.excl THEN gate.shared \union gate.excl ELSE gate.excl) \ {w}
        ELSE IF p.at = "locking" /\ p.todo # << >> THEN {locks[Head(p.todo)]} \ {w, Free} ELSE {}

(* Nobody waits in a circle: the gate comes before the account locks, the  *)
(* locks come in one order, and a transaction that wants the gate for      *)
(* itself gives up what it holds before it asks.                           *)
NoWaitCycle == \A S \in (SUBSET Workers) \ {{}} : \E w \in S : WaitsFor(w) \intersect S = {}
=============================================================================
