------------------------- MODULE LichessHistoryProofs -------------------------
(***************************************************************************)
(* Proofs about LichessHistory, for every number of games, jobs and        *)
(* requests, every page size and every time: the intervals jobs record as  *)
(* proven are proven, and a job that completes has its window.             *)
(*                                                                         *)
(* Both need one thing of the requests, PastWindows: a provider asked for  *)
(* a window that reaches past its clock cannot show the games that are     *)
(* still to be created there.                                              *)
(***************************************************************************)
EXTENDS LichessHistory, TLAPS

(* No checkpoint reaches past the clock of the provider.                   *)
PastWindows == \A j \in Job : cursor[j] # NoCursor => cursor[j].upper <= now

Phase == {"stored", "followups", "pages"}
Cursor == [since : Int, until : Int, upper : Int, req : Int, limit : Nat \ {0}, after : Nat,
           phase : Phase, lafter : Nat, lhigh : Nat, done : BOOLEAN]
Page == [key : [since : Int, until : Int, limit : Nat], games : SUBSET Game, open : SUBSET Game]
Proof == [raw : Nat, since : Int, until : Int]
Execution == [job : Job, at : Phase \cup {"page", "recorded"}, cur : Cursor, todo : SUBSET Nat,
              full : BOOLEAN, n : Nat, page : Nat]

(* The types the argument needs, without the bounds of the model.          *)
Types ==
  /\ now \in 0..Last /\ created \in [Game -> 0..(Last - 1)] /\ request \in [Job -> Request]
  /\ cursor \in [Job -> Cursor \cup {NoCursor}] /\ run \in Execution \cup {Idle}
  /\ raw \in Seq(Page) /\ ranges \subseteq Proof /\ history \in Open..Last
  /\ follow \subseteq Nat /\ ended \subseteq Game

(* A page shows the games of its window: all of them if it has room, and   *)
(* otherwise the newest.  It does not matter when it was fetched, as the   *)
(* window had passed by then.                                              *)
Shows(p) ==
  /\ p.key.until <= Last
  /\ \A g \in p.games : created[g] \in Span(p.key.since, p.key.until)
  /\ \A h \in Game \ p.games : created[h] \in Span(p.key.since, p.key.until) =>
       Cardinality(p.games) >= p.key.limit /\ \A g \in p.games : created[g] >= created[h]

Proves(r) ==
  /\ r.raw \in DOMAIN raw /\ r.until <= Last
  /\ \A g \in Game : created[g] \in Span(r.since, r.until) => g \in raw[r.raw].games

StoredInv ==
  /\ \A i \in DOMAIN raw : Shows(raw[i])
  /\ \A r \in ranges : Proves(r)
  /\ \A g \in Game : created[g] < history => g \in Captured

(* A backfill has fetched what lies above its cursor itself.               *)
Walked(j, c) ==
  /\ c.until <= c.upper
  /\ request[j].mode = "backfill" =>
       /\ c.since = c.req
       /\ \A g \in Game : created[g] \in Span(c.until, c.upper) => g \in OwnPages(j)

Collected(j, c) ==
  c.done => \A g \in Game : created[g] \in Span(c.req, c.upper) =>
              g \in IF request[j].mode = "backfill" THEN OwnPages(j) ELSE Captured

JobInv == \A j \in Job : cursor[j] \in Cursor => Walked(j, cursor[j]) /\ Collected(j, cursor[j])

KeyOf(c) == [since |-> c.since, until |-> c.until, limit |-> c.limit]

(* An execution works on the window of its checkpoint, and the page it     *)
(* holds is one that its job fetched for its cursor.                       *)
RunInv ==
  run \in Execution =>
    /\ cursor[run.job] \in Cursor /\ cursor[run.job].upper = run.cur.upper
    /\ Walked(run.job, run.cur) /\ ~run.cur.done
    /\ run.at \in {"page", "recorded"} =>
         /\ run.page \in DOMAIN raw /\ <<run.job, run.page>> \in logs
         /\ raw[run.page].key = KeyOf(run.cur)

(* The inductive invariant.                                                *)
HInv == Types /\ StoredInv /\ JobInv /\ RunInv

-----------------------------------------------------------------------------
(* Numbers and sets.                                                       *)

(* What the argument uses of numbers and of the size of sets of games is a *)
(* hypothesis of the lemmas that need it; NumbersHold gives it for the     *)
(* theorems.                                                               *)
Numbers ==
  /\ \A T \in SUBSET Nat : T # {} => \E x \in T : \A y \in T : x <= y
  /\ Cardinality({}) = 0
  /\ \A S \in SUBSET Game : /\ Cardinality(S) \in Nat
                            /\ \A T \in SUBSET S : T # S => Cardinality(T) # Cardinality(S)

(* Min is the minimum of a set of times that is bounded below.             *)
LEMMA MinIn ==
  ASSUME Numbers, NEW T \in SUBSET Int, T # {}, NEW b \in Int, \A t \in T : b <= t
  PROVE  Min(T) \in T /\ \A t \in T : Min(T) <= t
<1> DEFINE U == {t - b : t \in T}
<1>0. \A t \in T : t - b \in Nat /\ t - b \in U
  OBVIOUS
<1>1. U \in SUBSET Nat /\ U # {}
  BY Zenon, <1>0
<1>2. PICK x \in U : \A y \in U : x <= y
  BY Zenon, <1>1 DEF Numbers
<1>3. PICK m \in T : x = m - b
  OBVIOUS
<1>4. \A t \in T : m <= t
  <2> HIDE DEF U
  <2> QED BY <1>0, <1>2, <1>3
<1> QED BY Zenon, <1>4 DEF Min

(* Max is the maximum of a set of times that is bounded above.             *)
LEMMA MaxIn ==
  ASSUME Numbers, NEW T \in SUBSET Int, T # {}, NEW b \in Int, \A t \in T : t <= b
  PROVE  Max(T) \in T /\ \A t \in T : t <= Max(T)
<1> DEFINE U == {b - t : t \in T}
<1>0. \A t \in T : b - t \in Nat /\ b - t \in U
  OBVIOUS
<1>1. U \in SUBSET Nat /\ U # {}
  BY Zenon, <1>0
<1>2. PICK x \in U : \A y \in U : x <= y
  BY Zenon, <1>1 DEF Numbers
<1>3. PICK m \in T : x = b - m
  OBVIOUS
<1>4. \A t \in T : m >= t
  <2> HIDE DEF U
  <2> QED BY <1>0, <1>2, <1>3
<1> QED BY Zenon, <1>4 DEF Max

(* What the settings and requests are.                                     *)
LEMMA Settings ==
  /\ Games \in Nat /\ Last \in Nat \ {0} /\ PageSize \in Nat \ {0} /\ Open \in Int /\ Open = 0 - 1
  /\ NoDate \in Int /\ \A g \in Game : g \in Nat
  /\ \A q \in Request : q.since \in Int /\ q.until \in Int
BY HistoryAllowed DEF HistoryAssumption, Open, NoDate, Game

-----------------------------------------------------------------------------
(* Time: windows, coverage and the watermark.                              *)

(* Everything covered has been captured.                                   *)
LEMMA CoveredCaptured ==
  ASSUME Types, StoredInv, NEW g \in Game, created[g] \in Covered
  PROVE  g \in Captured
<1>1. CASE created[g] \in Span(Open, history)
  <2>1. created[g] < history
    BY <1>1, Settings DEF Span, Types
  <2> QED BY Zenon, <2>1 DEF StoredInv
<1>2. CASE \E r \in ranges : created[g] \in Span(r.since, r.until)
  BY Zenon, <1>2 DEF StoredInv, Proves, Captured
<1> QED BY Zenon, <1>1, <1>2 DEF Covered, CoveredBy

(* history_high_water: the watermark rises over captured games only, and   *)
(* stays within the time pages can describe.                               *)
LEMMA HistoryRises ==
  ASSUME Numbers, Types, StoredInv, RecordHistory
  PROVE  history' \in Open..Last /\ \A g \in Game : created[g] < history' => g \in Captured
<1> DEFINE T == {t \in Open..(Last + 1) : t \notin Covered}
<1>0. Last \in Nat /\ Open \in Int /\ Open = 0 - 1 /\ history \in Int /\ history <= Last
  BY Settings DEF Types
<1>1. ASSUME NEW t \in Int, t >= Last PROVE t \notin Covered
  <2>1. t \notin Span(Open, history)
    BY <1>0, <1>1 DEF Span
  <2>2. \A r \in ranges : t \notin Span(r.since, r.until)
    BY <1>0, <1>1 DEF StoredInv, Proves, Span, Types, Proof
  <2> QED BY Zenon, <2>1, <2>2 DEF Covered, CoveredBy
<1>2. Last \in T /\ T \in SUBSET Int /\ \A t \in T : Open <= t
  BY <1>0, <1>1
<1>3. HighWater \in T /\ \A t \in T : HighWater <= t
  BY Zenon, <1>0, <1>2, MinIn DEF HighWater
<1>4. HighWater \in Open..Last
  BY <1>0, <1>2, <1>3
<1>5. ASSUME NEW g \in Game, created[g] < HighWater PROVE g \in Captured
  <2>1. created[g] \in Int /\ created[g] >= Open /\ created[g] <= Last
    BY <1>0 DEF Types
  <2>2. created[g] \in Covered
    BY <1>0, <1>3, <1>4, <1>5, <2>1
  <2> QED BY Zenon, <2>2, CoveredCaptured
<1>6. history' \in {history, HighWater}
  <2> DEFINE P == {history, HighWater}
  <2>1. P \in SUBSET Int /\ P # {} /\ \A t \in P : t <= Last
    BY <1>0, <1>4
  <2>2. Max(P) \in P
    BY <1>0, <2>1, MaxIn
  <2> QED BY Zenon, <2>2 DEF RecordHistory
<1> QED BY Zenon, <1>4, <1>5, <1>6 DEF StoredInv, Types

(* missing_windows: the first missing window lies within the window asked  *)
(* for, and is empty only if nothing is missing.                           *)
LEMMA MissingWindow ==
  ASSUME Numbers, NEW lo \in Int, NEW hi \in Int
  PROVE  LET f == FirstMissing(lo, hi) IN
         /\ f.since \in Int /\ f.until \in Int /\ f.until <= hi
         /\ f.since = f.until => Span(lo, hi) \subseteq Covered
<1> DEFINE M == Span(lo, hi) \ Covered
           top == Max(M)
           B == {t \in M : t..top \subseteq M}
<1>1. CASE M = {}
  BY <1>1 DEF FirstMissing
<1>2. CASE M # {}
  <2>1. M \in SUBSET Int /\ \A t \in M : lo <= t /\ t <= hi - 1
    BY DEF Span
  <2>2. top \in M /\ top \in Int /\ top <= hi - 1
    <3>1. hi - 1 \in Int
      OBVIOUS
    <3> HIDE DEF M
    <3> QED BY Zenon, <1>2, <2>1, <3>1, MaxIn
  <2> HIDE DEF M, top
  <2>3. top \in B /\ B \in SUBSET Int /\ \A t \in B : lo <= t
    <3>1. top..top = {top}
      BY <2>2
    <3> QED BY Zenon, <2>1, <2>2, <3>1
  <2>4. Min(B) \in Int /\ Min(B) <= top
    <3> HIDE DEF B
    <3> QED BY Zenon, <2>3, MinIn
  <2>5. FirstMissing(lo, hi) = [since |-> Min(B), until |-> top + 1]
    BY Zenon, <1>2 DEF FirstMissing, M, top
  <2> QED BY <2>2, <2>4, <2>5
<1> QED BY Zenon, <1>1, <1>2

-----------------------------------------------------------------------------
(* Cursors.                                                                *)

(* A cursor is not the missing one.                                        *)
LEMMA CursorIsOne == ASSUME NEW c \in Cursor PROVE c # NoCursor
<1>1. "upper" \in DOMAIN c
  BY Zenon DEF Cursor
<1>2. "upper" \notin DOMAIN NoCursor
  BY Zenon DEF NoCursor
<1> QED BY Zenon, <1>1, <1>2

(* What changes of a cursor while games are replayed or refreshed.         *)
SameWindow(c, d) ==
  /\ d.since = c.since /\ d.until = c.until /\ d.upper = c.upper /\ d.req = c.req
  /\ d.limit = c.limit /\ d.done = c.done

(* ... is not its window.                                                  *)
LEMMA WindowWalked ==
  ASSUME NEW j \in Job, NEW c, NEW d, SameWindow(c, d), Walked(j, c)
  PROVE  Walked(j, d)
BY Zenon DEF SameWindow, Walked

(* Setting the marks of a phase gives a cursor with the same window.       *)
LEMMA Marked ==
  ASSUME NEW c \in Cursor, NEW n \in Nat, NEW p \in Phase
  PROVE  /\ [c EXCEPT !.lafter = n] \in Cursor /\ SameWindow(c, [c EXCEPT !.lafter = n])
         /\ [c EXCEPT !.after = n] \in Cursor /\ SameWindow(c, [c EXCEPT !.after = n])
         /\ [c EXCEPT !.phase = p] \in Cursor /\ SameWindow(c, [c EXCEPT !.phase = p])
         /\ SameWindow(c, c)
BY Zenon DEF Cursor, SameWindow

(* The sources of a window are numbers of stored pages.                    *)
LEMMA SourcesStored ==
  ASSUME Types, StoredInv, NEW c
  PROVE  Sources(c) \in SUBSET Nat /\ Sources(c) \in SUBSET Int /\ \A i \in Sources(c) : i <= Len(raw)
<1>1. \A r \in ranges : r.raw \in 1..Len(raw)
  BY DEF StoredInv, Proves, Types
<1>2. Len(raw) \in Nat
  BY DEF Types
<1> QED BY <1>1, <1>2 DEF Sources

(* An execution that enters a phase.                                       *)
LEMMA EnterType ==
  ASSUME Types, StoredInv, NEW j \in Job, NEW c \in Cursor, ~c.done
  PROVE  /\ Enter(j, c) \in Execution /\ Enter(j, c).job = j /\ Enter(j, c).cur = c
         /\ Enter(j, c).at \in Phase
<1>1. Todo(c) \in SUBSET Nat
  <2>1. Sources(c) \in SUBSET Nat /\ follow \in SUBSET Nat
    BY Zenon, SourcesStored, Settings DEF Types
  <2> QED BY Zenon, <2>1 DEF Todo, Batch
<1>2. c.phase \in Phase
  BY Zenon DEF Cursor
<1>3. (Cardinality(Todo(c)) = BatchSize) \in BOOLEAN
  OBVIOUS
<1> QED BY Zenon, <1>1, <1>2, <1>3 DEF Enter, Execution

(* The checkpoint of a job's first execution.                              *)
LEMMA NewCursorWalks ==
  ASSUME Numbers, Types, StoredInv, NEW j \in Job
  PROVE  NewCursor(j) \in Cursor /\ Walked(j, NewCursor(j)) /\ ~NewCursor(j).done
<1> DEFINE q == request[j]
           until == IF q.until = NoDate THEN now ELSE q.until
           first == IF q.mode = "backfill" THEN [since |-> q.since, until |-> until]
                    ELSE FirstMissing(q.since, until)
           known == Sources([upper |-> until, req |-> q.since])
           high == IF q.mode = "full" /\ known # {} THEN Max(known) ELSE 0
           phase == IF high > 0 THEN "stored" ELSE "followups"
<1>1. q.since \in Int /\ until \in Int
  BY Settings DEF Types
<1>2. /\ first.since \in Int /\ first.until \in Int /\ first.until <= until
      /\ q.mode = "backfill" => first.since = q.since /\ first.until = until
  <2>1. CASE q.mode = "backfill"
    BY SMTT(60), <1>1, <2>1
  <2>2. CASE q.mode # "backfill"
    <3>1. first = FirstMissing(q.since, until)
      BY Zenon, <2>2
    <3> HIDE DEF first, until
    <3> QED BY Zenon, <1>1, <2>2, <3>1, MissingWindow
  <2> QED BY Zenon, <2>1, <2>2
<1>3. high \in Nat
  <2>1. known \in SUBSET Nat /\ known \in SUBSET Int /\ \A i \in known : i <= Len(raw)
    BY Zenon, SourcesStored
  <2>2. Len(raw) \in Int
    BY DEF Types
  <2> HIDE DEF known
  <2>3. known # {} => Max(known) \in known
    BY ZenonT(60), <2>1, <2>2, MaxIn
  <2> QED BY Zenon, <2>1, <2>3
<1>4. NewCursor(j) = [since |-> first.since, until |-> first.until, upper |-> until, req |-> q.since,
                      limit |-> PageSize, after |-> 0, phase |-> phase, lafter |-> 0,
                      lhigh |-> high, done |-> FALSE]
  BY Zenon DEF NewCursor
<1>5. phase \in Phase
  BY Zenon DEF Phase
<1> HIDE DEF first, until, high, phase
<1>6. NewCursor(j) \in Cursor
  BY <1>1, <1>2, <1>3, <1>4, <1>5, Settings DEF Cursor
<1>7. /\ NewCursor(j).since = first.since /\ NewCursor(j).until = first.until /\ NewCursor(j).upper = until
      /\ NewCursor(j).req = q.since /\ ~NewCursor(j).done
  BY <1>4
<1>8. q.mode = "backfill" => Span(NewCursor(j).until, NewCursor(j).upper) = {}
  BY <1>1, <1>2, <1>7 DEF Span
<1> QED BY Zenon, <1>2, <1>6, <1>7, <1>8 DEF Walked

(* The next window of an execution: nothing is missing if it is empty.     *)
LEMMA RefocusWalks ==
  ASSUME Numbers, Types, NEW j \in Job, NEW c \in Cursor, Walked(j, c)
  PROVE  LET d == Refocus(j, c) IN
         /\ d \in Cursor /\ Walked(j, d) /\ d.upper = c.upper /\ d.req = c.req /\ d.done = c.done
         /\ request[j].mode # "backfill" /\ d.since = d.until => Span(d.req, d.upper) \subseteq Covered
<1>1. CASE request[j].mode = "backfill"
  BY Zenon, <1>1 DEF Refocus
<1>2. CASE request[j].mode # "backfill"
  <2> DEFINE f == FirstMissing(c.req, c.upper)
             l == IF f = [since |-> c.since, until |-> c.until] THEN c.limit ELSE PageSize
             d == [c EXCEPT !.since = f.since, !.until = f.until, !.limit = l]
  <2>1. c.req \in Int /\ c.upper \in Int /\ c.limit \in Nat \ {0}
    BY Zenon DEF Cursor
  <2>2. /\ f.since \in Int /\ f.until \in Int /\ f.until <= c.upper
        /\ f.since = f.until => Span(c.req, c.upper) \subseteq Covered
    BY Zenon, <2>1, MissingWindow
  <2>3. l \in Nat \ {0}
    BY Zenon, <2>1, Settings
  <2>4. Refocus(j, c) = d
    BY Zenon, <1>2 DEF Refocus
  <2> HIDE DEF f, l
  <2>5. /\ d \in Cursor /\ d.since = f.since /\ d.until = f.until
        /\ d.upper = c.upper /\ d.req = c.req /\ d.done = c.done
    BY ZenonT(60), <2>2, <2>3 DEF Cursor
  <2> QED BY Zenon, <1>2, <2>2, <2>4, <2>5 DEF Walked
<1> QED BY Zenon, <1>1, <1>2

-----------------------------------------------------------------------------
(* Pages and what they prove.                                              *)

(* fetch_lichess_games_page: a page of a window that has passed shows all  *)
(* of its games, or the newest of them.                                    *)
LEMMA FetchedShows ==
  ASSUME Numbers, Types, NEW c \in Cursor, c.until <= now, NEW S \in Pages(c)
  PROVE  LET p == [key |-> KeyOf(c), games |-> S, open |-> Unfinished(S)]
         IN  p \in Page /\ Shows(p)
<1> DEFINE W == {g \in Visible : c.since <= created[g] /\ created[g] < c.until}
           p == [key |-> KeyOf(c), games |-> S, open |-> Unfinished(S)]
<1>0. /\ c.since \in Int /\ c.until \in Int /\ c.limit \in Nat /\ now \in Int /\ now <= Last
      /\ Last \in Int /\ \A g \in Game : created[g] \in Int
  BY Settings DEF Cursor, Types
<1>1. /\ S \in SUBSET W /\ W \in SUBSET Game
      /\ Cardinality(S) = IF Cardinality(W) < c.limit THEN Cardinality(W) ELSE c.limit
      /\ \A g \in S, h \in W \ S : created[g] >= created[h]
  BY Zenon DEF Pages, Visible
<1>2. \A g \in Game : created[g] \in Span(c.since, c.until) <=> g \in W
  BY <1>0 DEF Span, Visible
<1>3. p \in Page
  BY Zenon, <1>0, <1>1 DEF Page, KeyOf, Unfinished
<1>4. p.key.since = c.since /\ p.key.until = c.until /\ p.key.limit = c.limit /\ p.games = S
  BY Zenon DEF KeyOf
<1>5. ASSUME NEW h \in W \ S PROVE Cardinality(S) >= c.limit
  <2>1. Cardinality(W) \in Nat
    BY Zenon, <1>1 DEF Numbers
  <2>2. Cardinality(S) # Cardinality(W)
    <3> HIDE DEF W
    <3> QED BY Zenon, <1>1, <1>5 DEF Numbers
  <2> QED BY <1>0, <1>1, <2>1, <2>2
<1> HIDE DEF W, p
<1>6. p.key.until <= Last
  BY <1>0, <1>4
<1>7. \A g \in p.games : created[g] \in Span(p.key.since, p.key.until)
  BY Zenon, <1>1, <1>2, <1>4
<1>8. ASSUME NEW h \in Game \ p.games, created[h] \in Span(p.key.since, p.key.until)
      PROVE  Cardinality(p.games) >= p.key.limit /\ \A g \in p.games : created[g] >= created[h]
  <2>1. h \in W \ S
    BY Zenon, <1>2, <1>4, <1>8
  <2> QED BY Zenon, <1>1, <1>4, <1>5, <2>1
<1>9. Shows(p)
  BY Zenon, <1>6, <1>7, <1>8 DEF Shows
<1> QED BY Zenon, <1>3, <1>9 DEF p

(* A page that is not full has every game of its window; a full one every  *)
(* game newer than its oldest millisecond, which lies in the window.       *)
LEMMA PageProves ==
  ASSUME Numbers, Types, StoredInv, RunInv, run.at \in {"page", "recorded"}
  PROVE  /\ run \in Execution /\ run.page \in DOMAIN raw /\ run.cur.since \in Int /\ run.cur.until \in Int
         /\ run.cur.until <= Last
         /\ Saturated => /\ Oldest \in Int /\ Oldest < run.cur.until
                         /\ \A g \in Game : created[g] \in Span(Oldest + 1, run.cur.until)
                                              => g \in raw[run.page].games
         /\ ~Saturated => \A g \in Game : created[g] \in Span(run.cur.since, run.cur.until)
                                            => g \in raw[run.page].games
<1>1. run \in Execution
  BY DEF Types, Idle
<1>2. /\ run.page \in DOMAIN raw /\ raw[run.page].key = KeyOf(run.cur) /\ run.cur \in Cursor
      /\ Shows(raw[run.page]) /\ raw[run.page] \in Page
  BY <1>1 DEF RunInv, StoredInv, Execution, Types
<1> DEFINE p == raw[run.page]
<1>3. /\ p.key.since = run.cur.since /\ p.key.until = run.cur.until /\ p.key.limit = run.cur.limit
      /\ run.cur.since \in Int /\ run.cur.until \in Int /\ run.cur.limit \in Nat \ {0}
  BY SMTT(60), <1>2 DEF KeyOf, Cursor
<1>4. /\ run.cur.until <= Last
      /\ \A g \in p.games : created[g] \in Span(run.cur.since, run.cur.until)
      /\ \A h \in Game \ p.games : created[h] \in Span(run.cur.since, run.cur.until) =>
           Cardinality(p.games) >= run.cur.limit /\ \A g \in p.games : created[g] >= created[h]
  BY Zenon, <1>2, <1>3 DEF Shows
<1>5. p.games \in SUBSET Game /\ Cardinality(p.games) \in Nat
  <2>1. p.games \in SUBSET Game
    BY Zenon, <1>2 DEF Page
  <2> QED BY Zenon, <2>1 DEF Numbers
<1>6. \A g \in Game : created[g] \in Int /\ created[g] >= 0
  BY Settings DEF Types
<1> HIDE DEF p
<1>7. ASSUME Saturated
      PROVE  /\ Oldest \in Int /\ Oldest < run.cur.until
             /\ \A g \in Game : created[g] \in Span(Oldest + 1, run.cur.until) => g \in p.games
  <2> DEFINE C == {created[g] : g \in p.games}
  <2>1. p.games # {}
    <3>1. Cardinality(p.games) >= run.cur.limit
      BY Zenon, <1>7 DEF Saturated, p
    <3>2. Cardinality({}) = 0
      BY Zenon DEF Numbers
    <3> QED BY <1>3, <1>5, <3>1, <3>2
  <2>2. C \in SUBSET Int /\ C # {} /\ \A t \in C : 0 <= t
    BY Zenon, <1>5, <1>6, <2>1
  <2>3. Min(C) \in C /\ \A t \in C : Min(C) <= t
    <3> HIDE DEF C
    <3> QED BY <2>2, MinIn
  <2>4. Oldest = Min(C)
    BY Zenon DEF Oldest, p
  <2>5. PICK o \in p.games : Oldest = created[o]
    BY ZenonT(60), <2>3, <2>4
  <2>6. \A g \in p.games : Oldest <= created[g]
    BY Zenon, <2>3, <2>4
  <2>7. Oldest \in Int /\ run.cur.since <= Oldest /\ Oldest < run.cur.until
    BY <1>3, <1>4, <1>5, <1>6, <2>5 DEF Span
  <2>8. ASSUME NEW h \in Game \ p.games, created[h] \in Span(Oldest + 1, run.cur.until) PROVE FALSE
    <3>1. created[h] > Oldest /\ created[h] \in Span(run.cur.since, run.cur.until)
      BY SMTT(60), <1>3, <1>6, <2>7, <2>8 DEF Span
    <3>2. created[o] >= created[h]
      BY Zenon, <1>4, <3>1
    <3> QED BY <1>6, <2>5, <2>7, <3>1, <3>2
  <2> QED BY Zenon, <2>7, <2>8
<1>8. ASSUME ~Saturated
      PROVE  \A g \in Game : created[g] \in Span(run.cur.since, run.cur.until) => g \in p.games
  BY Zenon, <1>3, <1>4, <1>5, <1>8 DEF Saturated, p
<1> QED BY Zenon, <1>1, <1>2, <1>3, <1>4, <1>7, <1>8 DEF p

(* Storing pages and logging fetches takes nothing away.                   *)
Grows ==
  /\ UNCHANGED <<created, request>>
  /\ \A i \in DOMAIN raw : i \in DOMAIN raw' /\ raw'[i] = raw[i]
  /\ logs \subseteq logs'

(* ... so that what was proven, walked or collected remains so.            *)
LEMMA Kept ==
  ASSUME Grows
  PROVE  /\ Captured \subseteq Captured'
         /\ \A j : OwnPages(j) \subseteq OwnPages(j)'
         /\ \A p : Shows(p) => Shows(p)'
         /\ \A r : Proves(r) => Proves(r)'
         /\ \A j, c : Walked(j, c) => Walked(j, c)'
         /\ \A j, c : Collected(j, c) => Collected(j, c)'
<1>1. Captured \subseteq Captured'
  BY Zenon DEF Grows, Captured
<1>2. \A j : OwnPages(j) \subseteq OwnPages(j)'
  BY Zenon DEF Grows, OwnPages
<1>3. \A p : Shows(p) => Shows(p)'
  BY Zenon DEF Grows, Shows
<1>4. \A r : Proves(r) => Proves(r)'
  BY Zenon DEF Grows, Proves
<1>5. \A j, c : Walked(j, c) => Walked(j, c)'
  BY Zenon, <1>2 DEF Grows, Walked
<1>6. \A j, c : Collected(j, c) => Collected(j, c)'
  BY Zenon, <1>1, <1>2 DEF Grows, Collected
<1> QED BY Zenon, <1>1, <1>2, <1>3, <1>4, <1>5, <1>6

-----------------------------------------------------------------------------
(* The steps.                                                              *)

(* No execution holds the provider.                                        *)
LEMMA IdleIsNone == Idle \notin Execution
BY Zenon DEF Idle, Execution, Phase

(* The tables of pages, ranges and the watermark are left alone.           *)
Untouched == UNCHANGED <<created, request, raw, logs, ranges>>

(* ... so all but the watermark keeps what it says.                        *)
LEMMA StillStored ==
  ASSUME Numbers, Types, StoredInv, Untouched, UNCHANGED history \/ RecordHistory
  PROVE  StoredInv' /\ history' \in Open..Last
<1>1. Grows
  BY Zenon DEF Untouched, Grows
<1>2. ASSUME NEW i \in DOMAIN raw', NEW p, p = raw'[i] PROVE Shows(p)'
  <2>1. i \in DOMAIN raw /\ p = raw[i]
    BY Zenon, <1>2 DEF Untouched
  <2> QED BY Zenon, <1>1, <2>1, Kept DEF StoredInv
<1>3. (\A i \in DOMAIN raw : Shows(raw[i]))'
  BY Zenon, <1>2 DEF Shows
<1>4. \A r \in ranges' : Proves(r)'
  BY Zenon, <1>1, Kept DEF StoredInv, Untouched
<1>5. history' \in Open..Last /\ \A g \in Game : created[g] < history' => g \in Captured
  BY Zenon, HistoryRises DEF StoredInv, Types
<1>6. \A g \in Game : created'[g] < history' => g \in Captured'
  BY Zenon, <1>1, <1>5, Kept DEF Grows
<1> QED BY Zenon, <1>3, <1>4, <1>5, <1>6 DEF StoredInv

(* A step that saves a cursor, or none, and ends the execution or goes on  *)
(* with the cursor it saved.                                               *)
LEMMA Saves ==
  ASSUME Numbers, HInv, Untouched, UNCHANGED history \/ RecordHistory,
         now' \in 0..Last, follow' \subseteq Nat, ended' \subseteq Game,
         NEW j \in Job, NEW c \in Cursor, Walked(j, c), Collected(j, c),
         \/ run' = Idle /\ (UNCHANGED cursor \/ cursor' = [cursor EXCEPT ![j] = c])
         \/ /\ cursor' = [cursor EXCEPT ![j] = c]
            /\ run' \in Execution /\ run'.job = j /\ run'.cur = c /\ run'.at \in Phase /\ ~c.done
  PROVE  HInv'
<1>0. Types /\ StoredInv /\ JobInv
  BY Zenon DEF HInv
<1>1. Grows
  BY Zenon DEF Untouched, Grows
<1>2. Walked(j, c)' /\ Collected(j, c)'
  BY Zenon, <1>1, Kept
<1>3. StoredInv' /\ history' \in Open..Last
  BY Zenon, <1>0, StillStored
<1>4. Types'
  BY Zenon, <1>0, <1>3 DEF Types, Untouched
<1>5. JobInv'
  <2> SUFFICES ASSUME NEW k \in Job, NEW d \in Cursor, d = cursor'[k]
               PROVE  Walked(k, d)' /\ Collected(k, d)'
    BY Zenon DEF JobInv, Walked, Collected
  <2>1. Walked(k, d) /\ Collected(k, d)
    BY Zenon, <1>0 DEF JobInv, Types
  <2> QED BY Zenon, <1>1, <2>1, Kept
<1>6. RunInv'
  <2>1. CASE run' = Idle
    BY Zenon, <2>1, IdleIsNone DEF RunInv
  <2>2. CASE /\ cursor' = [cursor EXCEPT ![j] = c]
             /\ run' \in Execution /\ run'.job = j /\ run'.cur = c /\ run'.at \in Phase /\ ~c.done
    <3>1. cursor'[j] = c
      BY Zenon, <1>0, <2>2 DEF Types
    <3>2. Walked(run.job, run.cur)'
      BY Zenon, <1>2, <2>2 DEF Walked
    <3> QED BY Zenon, <2>2, <3>1, <3>2 DEF RunInv, Phase
  <2> QED BY Zenon, <2>1, <2>2
<1> QED BY Zenon, <1>3, <1>4, <1>5, <1>6 DEF HInv

(* Time, games that end, and executions that die.                          *)
LEMMA QuietStep ==
  ASSUME Numbers, HInv, Untouched, UNCHANGED <<history, cursor, follow>>, now' \in 0..Last, ended' \subseteq Game,
         run' \in {run, Idle}
  PROVE  HInv'
<1>0. Types /\ StoredInv /\ JobInv /\ RunInv
  BY Zenon DEF HInv
<1>1. Grows
  BY Zenon DEF Untouched, Grows
<1>2. StoredInv' /\ history' \in Open..Last
  BY Zenon, <1>0, StillStored
<1>3. Types'
  BY Zenon, <1>0, <1>2 DEF Types, Untouched
<1>4. JobInv'
  <2> SUFFICES ASSUME NEW j \in Job, NEW c \in Cursor, c = cursor'[j]
               PROVE  Walked(j, c)' /\ Collected(j, c)'
    BY Zenon DEF JobInv, Walked, Collected
  <2> QED BY Zenon, <1>0, <1>1, Kept DEF JobInv
<1>5. RunInv'
  <2>1. CASE run' = Idle
    BY Zenon, <2>1, IdleIsNone DEF RunInv
  <2>2. CASE run' = run
    BY Zenon, <1>0, <2>2 DEF RunInv, Walked, OwnPages, Untouched
  <2> QED BY Zenon, <2>1, <2>2
<1> QED BY Zenon, <1>2, <1>3, <1>4, <1>5 DEF HInv

(* An execution works with a cursor of its job.                            *)
LEMMA AtWork ==
  ASSUME HInv, run.at # "idle"
  PROVE  /\ run \in Execution /\ run.job \in Job /\ run.cur \in Cursor /\ run.todo \in SUBSET Nat
         /\ run.n \in Nat /\ Walked(run.job, run.cur) /\ ~run.cur.done
<1>1. run \in Execution
  BY DEF HInv, Types, Idle
<1> QED BY Zenon, <1>1 DEF HInv, RunInv, Execution

(* execute_collection opens a checkpoint or resumes one.                   *)
LEMMA BeginStep == ASSUME Numbers, HInv, NEW j \in Job, Begin(j) PROVE HInv'
<1>0. Types /\ StoredInv /\ JobInv
  BY Zenon DEF HInv
<1>1. Untouched /\ UNCHANGED <<now, ended, history, follow>>
  BY Zenon DEF Begin, Untouched, provider
<1> DEFINE c == IF cursor[j] = NoCursor THEN NewCursor(j) ELSE cursor[j]
<1>2. c \in Cursor /\ Walked(j, c)
  BY Zenon, <1>0, NewCursorWalks DEF JobInv, Types
<1>3. CASE c.done \/ c.req > c.upper
  <2>1. UNCHANGED <<cursor, run>>
    BY Zenon, <1>3 DEF Begin
  <2> QED BY Zenon, <1>0, <1>1, <2>1, QuietStep DEF Types
<1>4. CASE ~(c.done \/ c.req > c.upper)
  <2>1. cursor' = [cursor EXCEPT ![j] = c] /\ run' = Enter(j, c) /\ ~c.done
    BY Zenon, <1>4 DEF Begin, Save
  <2> HIDE DEF c
  <2>2. run' \in Execution /\ run'.job = j /\ run'.cur = c /\ run'.at \in Phase
    BY Zenon, <1>0, <1>2, <2>1, EnterType
  <2>3. Collected(j, c)
    BY Zenon, <2>1 DEF Collected
  <2> QED BY ZenonT(60), <1>0, <1>1, <1>2, <2>1, <2>2, <2>3, Saves DEF Types
<1> QED BY Zenon, <1>3, <1>4

(* A step of the execution that saves a cursor of the same window.         *)
LEMMA MarkStep ==
  ASSUME Numbers, HInv, run.at # "idle", NEW c \in Cursor, SameWindow(run.cur, c),
         Untouched, UNCHANGED <<now, ended, history>>, follow' \subseteq Nat,
         cursor' = [cursor EXCEPT ![run.job] = c],
         \/ run' \in {Idle, Enter(run.job, c)}
         \/ run' \in Execution /\ run'.job = run.job /\ run'.cur = c /\ run'.at \in Phase
  PROVE  HInv'
<1>0. Types /\ StoredInv
  BY Zenon DEF HInv
<1>1. PICK j \in Job : j = run.job
  BY Zenon, AtWork
<1>2. Walked(j, c) /\ ~c.done
  BY Zenon, <1>1, AtWork, WindowWalked DEF SameWindow
<1>3. Collected(j, c)
  BY Zenon, <1>2 DEF Collected
<1>4. \/ run' = Idle
      \/ run' \in Execution /\ run'.job = j /\ run'.cur = c /\ run'.at \in Phase
  BY SMTT(60), <1>0, <1>1, <1>2, EnterType
<1> QED BY ZenonT(60), <1>0, <1>1, <1>2, <1>3, <1>4, Saves DEF Types

(* Moving the marks of an execution.                                       *)
LEMMA NextOfBatch ==
  ASSUME HInv, run.at \in Phase, NEW c \in Cursor, NEW i,
         run' = [run EXCEPT !.cur = c, !.todo = @ \ {i}, !.n = @ + 1]
  PROVE  run' \in Execution /\ run'.job = run.job /\ run'.cur = c /\ run'.at \in Phase
<1>1. run \in Execution
  BY Zenon, AtWork DEF Phase
<1>2. run.todo \ {i} \in SUBSET Nat /\ run.n + 1 \in Nat /\ run.at \in Phase
  BY <1>1 DEF Execution
<1>3. run' = [job |-> run.job, at |-> run.at, cur |-> c, todo |-> run.todo \ {i},
              full |-> run.full, n |-> run.n + 1, page |-> run.page]
  BY Zenon, <1>1 DEF Execution
<1> QED BY Zenon, <1>1, <1>2, <1>3 DEF Execution

(* Stored pages are replayed and unfinished games refreshed.               *)
LEMMA ReplayStep ==
  ASSUME Numbers, HInv, UseStored \/ StoredBatchEnds \/ FollowUp \/ FollowUpBatchEnds
  PROVE  HInv'
<1>0. Types /\ StoredInv /\ run.at \in {"stored", "followups"} /\ run.at # "idle" /\ run.at \in Phase
  BY Zenon DEF HInv, UseStored, StoredBatchEnds, FollowUp, FollowUpBatchEnds, Phase
<1>1. Untouched /\ UNCHANGED <<now, ended, history>>
  BY Zenon DEF UseStored, StoredBatchEnds, FollowUp, FollowUpBatchEnds, Untouched, provider
<1>2. run \in Execution /\ run.job \in Job /\ run.cur \in Cursor /\ run.todo \in SUBSET Nat
  BY Zenon, <1>0, AtWork
<1>3. follow \subseteq Nat
  BY Zenon, <1>0 DEF Types
<1>4. run.todo # {} => Min(run.todo) \in run.todo /\ Min(run.todo) \in Nat
  <2>1. PICK T \in SUBSET Int : T = run.todo /\ T \in SUBSET Nat
    BY <1>2
  <2>2. \A t \in T : 0 <= t
    BY <2>1
  <2>3. T # {} => Min(T) \in T
    BY <2>2, MinIn
  <2> QED BY Zenon, <2>1, <2>3
<1>5. CASE UseStored
  <2>1. PICK i \in Nat : i = Min(run.todo)
    BY Zenon, <1>4, <1>5 DEF UseStored
  <2>2. PICK c : c = [run.cur EXCEPT !.lafter = i]
    BY ZenonT(60)
  <2>3. c \in Cursor /\ SameWindow(run.cur, c)
    BY ZenonT(60), <1>2, <2>2, Marked DEF Phase
  <2>4. /\ cursor' = [cursor EXCEPT ![run.job] = c] /\ UNCHANGED follow
        /\ run' = [run EXCEPT !.cur = c, !.todo = @ \ {i}, !.n = @ + 1]
    BY Zenon, <1>5, <2>1, <2>2 DEF UseStored, Save
  <2>5. run' \in Execution /\ run'.job = run.job /\ run'.cur = c /\ run'.at \in Phase
    BY Zenon, <1>0, <2>3, <2>4, NextOfBatch
  <2> QED BY Zenon, <1>0, <1>1, <1>3, <2>3, <2>4, <2>5, MarkStep
<1>6. CASE StoredBatchEnds
  <2>1. PICK c : c = IF run.full THEN run.cur ELSE [run.cur EXCEPT !.phase = "followups"]
    BY ZenonT(60)
  <2>2. c \in Cursor /\ SameWindow(run.cur, c)
    BY ZenonT(60), <1>2, <2>1, Marked DEF Phase
  <2>3. /\ cursor' = [cursor EXCEPT ![run.job] = c] /\ UNCHANGED follow
        /\ run' \in {Idle, Enter(run.job, c)}
    BY Zenon, <1>6, <2>1 DEF StoredBatchEnds, Save
  <2> QED BY Zenon, <1>0, <1>1, <1>3, <2>2, <2>3, MarkStep
<1>7. CASE FollowUp
  <2>1. PICK g \in Nat : g = Min(run.todo)
    BY Zenon, <1>4, <1>7 DEF FollowUp
  <2>2. PICK c : c = [run.cur EXCEPT !.after = g]
    BY ZenonT(60)
  <2>3. c \in Cursor /\ SameWindow(run.cur, c)
    BY ZenonT(60), <1>2, <2>2, Marked DEF Phase
  <2>4. /\ cursor' = [cursor EXCEPT ![run.job] = c]
        /\ run' = [run EXCEPT !.cur = c, !.todo = @ \ {g}, !.n = @ + 1]
        /\ Track({g}, Unfinished({g})) \/ UNCHANGED follow
    BY Zenon, <1>7, <2>1, <2>2 DEF FollowUp, Save
  <2>5. run' \in Execution /\ run'.job = run.job /\ run'.cur = c /\ run'.at \in Phase
    BY ZenonT(60), <1>0, <2>3, <2>4, NextOfBatch
  <2>6. follow' \subseteq Nat
    BY Zenon, <1>3, <2>1, <2>4 DEF Track, Unfinished
  <2> QED BY ZenonT(60), <1>0, <1>1, <2>3, <2>4, <2>5, <2>6, MarkStep
<1>8. CASE FollowUpBatchEnds
  <2>1. CASE run' = Idle /\ UNCHANGED cursor
    <3>1. UNCHANGED follow
      BY Zenon, <1>8 DEF FollowUpBatchEnds
    <3> QED BY Zenon, <1>0, <1>1, <2>1, <3>1, QuietStep DEF Types
  <2>2. CASE ~(run' = Idle /\ UNCHANGED cursor)
    <3>1. PICK c : c = [run.cur EXCEPT !.phase = "pages"]
      BY Zenon
    <3>2. c \in Cursor /\ SameWindow(run.cur, c)
      BY ZenonT(60), <1>2, <3>1, Marked DEF Phase
    <3>3. /\ cursor' = [cursor EXCEPT ![run.job] = c] /\ UNCHANGED follow
          /\ run' \in {Idle, Enter(run.job, c)}
      BY Zenon, <1>8, <2>2, <3>1 DEF FollowUpBatchEnds, Save
    <3> QED BY Zenon, <1>0, <1>1, <1>3, <3>2, <3>3, MarkStep
  <2> QED BY Zenon, <2>1, <2>2
<1> QED BY Zenon, <1>5, <1>6, <1>7, <1>8

(* Storing a page once per key and body.                                   *)
LEMMA StorePage ==
  ASSUME Types, NEW page \in Page, NEW i,
         i = IF \E k \in DOMAIN raw : raw[k] = page THEN CHOOSE k \in DOMAIN raw : raw[k] = page
             ELSE Len(raw) + 1,
         raw' = IF i > Len(raw) THEN Append(raw, page) ELSE raw
  PROVE  /\ raw' \in Seq(Page) /\ i \in Nat /\ i \in DOMAIN raw' /\ raw'[i] = page
         /\ \A k \in DOMAIN raw : k \in DOMAIN raw' /\ raw'[k] = raw[k]
         /\ \A k \in DOMAIN raw' : raw'[k] = page \/ (k \in DOMAIN raw /\ raw'[k] = raw[k])
<1>0. raw \in Seq(Page) /\ Len(raw) \in Nat /\ DOMAIN raw = 1..Len(raw)
  BY DEF Types
<1>1. CASE \E k \in DOMAIN raw : raw[k] = page
  <2>1. i \in DOMAIN raw /\ raw[i] = page
    BY Zenon, <1>1
  <2>2. i \in Nat /\ ~(i > Len(raw))
    BY <1>0, <2>1
  <2> QED BY Zenon, <1>0, <2>1, <2>2
<1>2. CASE ~\E k \in DOMAIN raw : raw[k] = page
  <2>1. i = Len(raw) + 1
    BY Zenon, <1>2
  <2>2. raw' = Append(raw, page)
    <3>1. Len(raw) + 1 > Len(raw)
      BY <1>0
    <3>2. i > Len(raw)
      BY Zenon, <2>1, <3>1
    <3> QED BY Zenon, <3>2
  <2> QED BY <1>0, <2>1, <2>2
<1> QED BY Zenon, <1>1, <1>2

(* fetch_lichess_games_page and save_raw_payload: where a window has       *)
(* passed, the page the execution goes on with shows it.                   *)
LEMMA FetchStep == ASSUME Numbers, HInv, PastWindows, FetchPage PROVE HInv'
<1>0. Types /\ StoredInv /\ JobInv /\ RunInv /\ run.at = "pages"
  BY Zenon DEF HInv, FetchPage
<1>1. PICK j \in Job : j = run.job
  BY Zenon, <1>0, AtWork
<1>2. PICK c \in Cursor : /\ c = Refocus(run.job, run.cur) /\ Walked(j, c) /\ c.upper = run.cur.upper
                          /\ ~c.done
  <2>1. run.job \in Job /\ run.cur \in Cursor /\ Walked(run.job, run.cur) /\ ~run.cur.done
    BY Zenon, <1>0, AtWork
  <2> QED BY SMTT(60), <1>0, <1>1, <2>1, RefocusWalks
<1>3. run \in Execution /\ cursor[j] \in Cursor /\ cursor[j].upper = c.upper
  BY Zenon, <1>0, <1>1, <1>2, AtWork DEF RunInv
<1>4. c.until <= now
  <2>1. c.upper <= now
    BY Zenon, <1>3, CursorIsOne DEF PastWindows
  <2> QED BY SMTT(60), <1>0, <1>2, <2>1, Settings DEF Walked, Cursor, Types
<1> DEFINE Own(x) == {i \in DOMAIN raw : raw[i].key = KeyOf(x) /\ <<run.job, i>> \in logs}
           Answers(x) == IF Own(x) # {} THEN {raw[Max(Own(x))]}
                         ELSE {[key |-> KeyOf(x), games |-> S, open |-> Unfinished(S)] : S \in Pages(x)}
           index(p) == IF \E k \in DOMAIN raw : raw[k] = p THEN CHOOSE k \in DOMAIN raw : raw[k] = p
                       ELSE Len(raw) + 1
           own == Own(c)
<1>5. PICK page \in Answers(c) :
        /\ raw' = IF index(page) > Len(raw) THEN Append(raw, page) ELSE raw
        /\ logs' = logs \cup {<<run.job, index(page)>>}
        /\ run' = [run EXCEPT !.at = "page", !.cur = c, !.page = index(page)]
  <2> DEFINE d == Refocus(run.job, run.cur)
  <2>1. \E page \in Answers(d) :
          /\ raw' = IF index(page) > Len(raw) THEN Append(raw, page) ELSE raw
          /\ logs' = logs \cup {<<run.job, index(page)>>}
          /\ run' = [run EXCEPT !.at = "page", !.cur = d, !.page = index(page)]
    BY ZenonT(60) DEF FetchPage, KeyOf
  <2>2. c = d
    BY Zenon, <1>2
  <2> HIDE DEF Own, Answers, index, d
  <2> QED BY ZenonT(60), <2>1, <2>2
<1>6. page \in Page /\ Shows(page) /\ page.key = KeyOf(c)
  <2>0. page \in Answers(c)
    BY ZenonT(60), <1>5
  <2>1. CASE own # {}
    <3>1. own \in SUBSET Int /\ Len(raw) \in Int /\ \A i \in own : i <= Len(raw)
      BY SMTT(60), <1>0 DEF Types
    <3>2. Max(own) \in own
      <4> HIDE DEF own
      <4> QED BY ZenonT(60), <2>1, <3>1, MaxIn
    <3>3. page = raw[Max(own)]
      BY Zenon, <2>0, <2>1
    <3>4. PICK m \in DOMAIN raw : m = Max(own) /\ raw[m].key = KeyOf(c)
      BY Zenon, <3>2
    <3>5. Shows(raw[m])
      BY Zenon, <1>0 DEF StoredInv
    <3>6. raw[m] \in Page
      <4> HIDE DEF own, Answers, index
      <4>1. raw \in Seq(Page)
        BY Zenon, <1>0 DEF Types
      <4> QED BY <4>1
    <3> QED BY Zenon, <3>3, <3>4, <3>5, <3>6
  <2>2. CASE own = {}
    <3>1. PICK S \in Pages(c) : page = [key |-> KeyOf(c), games |-> S, open |-> Unfinished(S)]
      BY ZenonT(60), <2>0, <2>2
    <3> QED BY Zenon, <1>0, <1>4, <3>1, FetchedShows
  <2> QED BY Zenon, <2>1, <2>2
<1>7. PICK i : i = index(page)
  OBVIOUS
<1>8. /\ raw' \in Seq(Page) /\ i \in Nat /\ i \in DOMAIN raw' /\ raw'[i] = page
      /\ \A k \in DOMAIN raw : k \in DOMAIN raw' /\ raw'[k] = raw[k]
      /\ \A k \in DOMAIN raw' : raw'[k] = page \/ (k \in DOMAIN raw /\ raw'[k] = raw[k])
  BY ZenonT(60), <1>0, <1>5, <1>6, <1>7, StorePage
<1>9. /\ UNCHANGED <<created, request, now, ended, cursor, ranges, history, follow>>
      /\ logs' = logs \cup {<<j, i>>} /\ run' = [run EXCEPT !.at = "page", !.cur = c, !.page = i]
  BY Zenon, <1>1, <1>5, <1>7 DEF FetchPage, provider
<1> HIDE DEF own, Own, Answers, index
<1>10. Grows
  BY Zenon, <1>8, <1>9 DEF Grows
<1>11. /\ run' \in Execution /\ run'.job = j /\ run'.cur = c /\ run'.page = i
  BY ZenonT(60), <1>1, <1>3, <1>8, <1>9 DEF Execution
<1>12. Types'
  BY Zenon, <1>0, <1>8, <1>9, <1>11 DEF Types
<1>13. StoredInv'
  <2>1. ASSUME NEW k \in DOMAIN raw', NEW p, p = raw'[k] PROVE Shows(p)'
    BY ZenonT(60), <1>0, <1>6, <1>8, <1>10, <2>1, Kept DEF StoredInv
  <2>2. \A r \in ranges' : Proves(r)'
    BY Zenon, <1>0, <1>9, <1>10, Kept DEF StoredInv
  <2>3. \A g \in Game : created'[g] < history' => g \in Captured'
    BY Zenon, <1>0, <1>9, <1>10, Kept DEF StoredInv
  <2>4. (\A k \in DOMAIN raw : Shows(raw[k]))'
    BY Zenon, <2>1 DEF Shows
  <2> QED BY Zenon, <2>2, <2>3, <2>4 DEF StoredInv
<1>14. JobInv'
  <2> SUFFICES ASSUME NEW k \in Job, NEW d \in Cursor, d = cursor'[k]
               PROVE  Walked(k, d)' /\ Collected(k, d)'
    BY Zenon DEF JobInv, Walked, Collected
  <2> QED BY Zenon, <1>0, <1>9, <1>10, Kept DEF JobInv
<1>15. RunInv'
  <2>1. Walked(j, c)'
    BY ZenonT(60), <1>2, <1>10, Kept
  <2>2. Walked(run.job, run.cur)'
    BY Zenon, <1>11, <2>1 DEF Walked
  <2>3. raw'[run'.page].key = KeyOf(run'.cur)
    BY Zenon, <1>6, <1>8, <1>11
  <2>4. <<run'.job, run'.page>> \in logs'
    BY <1>9, <1>11
  <2> QED BY Zenon, <1>2, <1>3, <1>8, <1>9, <1>11, <2>2, <2>3, <2>4 DEF RunInv, KeyOf
<1> QED BY Zenon, <1>12, <1>13, <1>14, <1>15 DEF HInv

(* record_source_range: the range of a page is one the page proves.        *)
LEMMA RecordStep == ASSUME Numbers, HInv, RecordRange PROVE HInv'
<1>0. Types /\ StoredInv /\ JobInv /\ RunInv /\ run.at = "page"
  BY Zenon DEF HInv, RecordRange
<1>1. /\ UNCHANGED <<created, request, now, ended, cursor, raw, logs, history>>
      /\ run' = [run EXCEPT !.at = "recorded"]
      /\ follow' = (follow \ raw[run.page].games) \cup raw[run.page].open
      /\ \/ UNCHANGED ranges
         \/ ranges' = ranges \cup {[raw |-> run.page, since |-> CoveredSince, until |-> run.cur.until]}
  BY Zenon DEF RecordRange, provider, Track
<1>2. Grows
  BY Zenon, <1>1 DEF Grows
<1>3. /\ run \in Execution /\ run.page \in DOMAIN raw /\ run.cur.until \in Int /\ run.cur.until <= Last
      /\ CoveredSince \in Int
      /\ \A g \in Game : created[g] \in Span(CoveredSince, run.cur.until) => g \in raw[run.page].games
  BY SMTT(60), <1>0, PageProves DEF CoveredSince
<1>4. PICK r : r = [raw |-> run.page, since |-> CoveredSince, until |-> run.cur.until]
  BY ZenonT(60)
<1>5. r \in Proof /\ Proves(r)
  <2>1. run.page \in Nat
    BY Zenon, <1>3 DEF Execution
  <2> QED BY Zenon, <1>3, <1>4, <2>1 DEF Proof, Proves
<1>6. \A q \in ranges' : q \in Proof /\ Proves(q)
  BY Zenon, <1>0, <1>1, <1>4, <1>5 DEF Types, StoredInv
<1>7. run' \in Execution /\ run'.job = run.job /\ run'.cur = run.cur /\ run'.page = run.page
  BY Zenon, <1>1, <1>3 DEF Execution
<1>8. Types'
  <2>1. raw[run.page].open \subseteq Nat
    <3>1. raw[run.page] \in Page
      BY SMTT(60), <1>0, <1>3 DEF Types
    <3>2. raw[run.page].open \subseteq Game
      BY Zenon, <3>1 DEF Page
    <3> QED BY Zenon, <3>2, Settings
  <2>2. follow' \subseteq Nat
    BY Zenon, <1>0, <1>1, <2>1 DEF Types
  <2> QED BY Zenon, <1>0, <1>1, <1>6, <1>7, <2>2 DEF Types
<1>9. StoredInv'
  <2>1. \A q \in ranges' : Proves(q)'
    BY Zenon, <1>2, <1>6, Kept
  <2>2. ASSUME NEW k \in DOMAIN raw', NEW p, p = raw'[k] PROVE Shows(p)'
    BY Zenon, <1>0, <1>1, <1>2, <2>2, Kept DEF StoredInv
  <2>3. (\A k \in DOMAIN raw : Shows(raw[k]))'
    BY Zenon, <2>2 DEF Shows
  <2>4. \A g \in Game : created'[g] < history' => g \in Captured'
    BY Zenon, <1>0, <1>1, <1>2, Kept DEF StoredInv
  <2> QED BY Zenon, <2>1, <2>3, <2>4 DEF StoredInv
<1>10. JobInv'
  <2> SUFFICES ASSUME NEW k \in Job, NEW d \in Cursor, d = cursor'[k]
               PROVE  Walked(k, d)' /\ Collected(k, d)'
    BY Zenon DEF JobInv, Walked, Collected
  <2> QED BY Zenon, <1>0, <1>1, <1>2, Kept DEF JobInv
<1>11. RunInv'
  <2>1. ASSUME NEW j, NEW c, j = run.job, c = run.cur PROVE Walked(j, c)'
    BY Zenon, <1>0, <1>2, <1>3, <2>1, Kept DEF RunInv
  <2>2. Walked(run.job, run.cur)'
    BY Zenon, <1>7, <2>1 DEF Walked
  <2> QED BY <1>0, <1>1, <1>3, <1>7, <2>2 DEF RunInv, KeyOf
<1> QED BY Zenon, <1>8, <1>9, <1>10, <1>11 DEF HInv

(* A completed cursor is a cursor of the same window.                      *)
LEMMA DoneCursor ==
  ASSUME NEW j \in Job, NEW c \in Cursor, Walked(j, c), NEW d, d = [c EXCEPT !.done = TRUE]
  PROVE  d \in Cursor /\ Walked(j, d) /\ d.req = c.req /\ d.upper = c.upper
<1>1. d \in Cursor /\ d.since = c.since /\ d.until = c.until /\ d.upper = c.upper /\ d.req = c.req
  BY Zenon DEF Cursor
<1> QED BY Zenon, <1>1 DEF Walked

(* A job with nothing left to fetch completes.                             *)
LEMMA NothingMissingStep == ASSUME Numbers, HInv, NothingMissing PROVE HInv'
<1>0. Types /\ StoredInv /\ run.at = "pages"
  BY Zenon DEF HInv, NothingMissing
<1>1. PICK j \in Job : j = run.job
  BY Zenon, <1>0, AtWork
<1>2. PICK c \in Cursor :
        /\ c = Refocus(run.job, run.cur) /\ Walked(j, c)
        /\ request[j].mode # "backfill" /\ c.since = c.until => Span(c.req, c.upper) \subseteq Covered
  <2>1. run.job \in Job /\ run.cur \in Cursor /\ Walked(run.job, run.cur)
    BY Zenon, <1>0, AtWork
  <2> QED BY Zenon, <1>0, <1>1, <2>1, RefocusWalks
<1>3. PICK d : d = [c EXCEPT !.done = TRUE]
  BY ZenonT(60)
<1>4. d \in Cursor /\ Walked(j, d) /\ d.req = c.req /\ d.upper = c.upper
  BY <1>2, <1>3, DoneCursor
<1>5. /\ c.since = c.until /\ cursor' = [cursor EXCEPT ![j] = d] /\ RecordHistory /\ run' = Idle
      /\ Untouched /\ UNCHANGED <<now, ended, follow>>
  BY Zenon, <1>1, <1>2, <1>3 DEF NothingMissing, Complete, Save, Untouched, provider
<1>6. Collected(j, d)
  <2>1. CASE request[j].mode = "backfill"
    BY ZenonT(60), <1>2, <1>4, <1>5, <2>1 DEF Walked, Collected
  <2>2. CASE request[j].mode # "backfill"
    BY ZenonT(60), <1>0, <1>2, <1>4, <1>5, <2>2, CoveredCaptured DEF Collected
  <2> QED BY Zenon, <2>1, <2>2
<1> QED BY ZenonT(60), <1>0, <1>4, <1>5, <1>6, Saves DEF Types

(* The limit of the next page.                                             *)
LEMMA NextLimitType ==
  ASSUME Numbers, Types, StoredInv, RunInv, run.at \in {"page", "recorded"}, Saturated
  PROVE  NextLimit \in Nat \ {0}
<1> DEFINE ties == Cardinality({g \in raw[run.page].games : created[g] = Oldest})
           grown == PageSize + ties
           twice == 2 * run.cur.limit
<1>1. run \in Execution /\ run.page \in DOMAIN raw
  BY Zenon, PageProves
<1>2. raw[run.page] \in Page /\ run.cur \in Cursor
  BY <1>1 DEF Types, Execution
<1>3. raw[run.page].games \in SUBSET Game /\ run.cur.limit \in Nat \ {0}
  BY Zenon, <1>2 DEF Page, Cursor
<1>4. ties \in Nat
  <2>1. {g \in raw[run.page].games : created[g] = Oldest} \in SUBSET Game
    BY Zenon, <1>3
  <2> QED BY Zenon, <2>1 DEF Numbers
<1>5. grown \in Nat \ {0} /\ twice \in Nat \ {0}
  <2> HIDE DEF ties
  <2> QED BY <1>3, <1>4, Settings
<1>6. NextLimit = IF Oldest + 1 >= run.cur.until THEN Max({grown, twice}) ELSE grown
  BY Zenon DEF NextLimit
<1> HIDE DEF grown, twice
<1>7. Max({grown, twice}) \in {grown, twice}
  <2>1. PICK T : T = {grown, twice}
    BY ZenonT(60)
  <2>2. T \in SUBSET Int /\ T # {}
    BY <1>5, <2>1
  <2>3. PICK b \in Int : \A t \in T : t <= b
    <3>1. \A t \in T : t <= grown + twice
      BY <1>5, <2>1
    <3> QED BY <1>5, <3>1
  <2>4. Max(T) \in T
    BY Zenon, <2>2, <2>3, MaxIn
  <2> QED BY Zenon, <2>1, <2>4
<1> QED BY Zenon, <1>5, <1>6, <1>7

(* What an execution walked when it has used its page, by itself or not.   *)
LEMMA PageWalked ==
  ASSUME Numbers, HInv, run.at \in {"page", "recorded"}, NEW g \in Game,
         request[run.job].mode = "backfill",
         \/ Saturated /\ created[g] \in Span(Oldest + 1, run.cur.upper)
         \/ ~Saturated /\ created[g] \in Span(run.cur.since, run.cur.upper)
  PROVE  g \in OwnPages(run.job)
<1>0. Types /\ StoredInv /\ RunInv /\ run.at # "idle"
  BY Zenon DEF HInv
<1>1. /\ run \in Execution /\ run.page \in DOMAIN raw /\ run.cur.since \in Int /\ run.cur.until \in Int
      /\ Saturated => /\ Oldest \in Int
                      /\ \A h \in Game : created[h] \in Span(Oldest + 1, run.cur.until)
                                           => h \in raw[run.page].games
      /\ ~Saturated => \A h \in Game : created[h] \in Span(run.cur.since, run.cur.until)
                                         => h \in raw[run.page].games
  BY Zenon, <1>0, PageProves
<1>2. created[g] \in Int /\ run.cur.upper \in Int
  <2>1. run.cur \in Cursor
    BY Zenon, <1>0, AtWork
  <2> QED BY SMTT(60), <1>0, <2>1, Settings DEF Types, Cursor
<1>3. CASE created[g] >= run.cur.until
  <2>1. created[g] \in Span(run.cur.until, run.cur.upper)
    BY SMTT(60), <1>1, <1>2, <1>3 DEF Span
  <2> QED BY Zenon, <1>0, <2>1, AtWork DEF Walked
<1>4. CASE ~(created[g] >= run.cur.until)
  <2>1. g \in raw[run.page].games
    BY SMTT(60), <1>1, <1>2, <1>4 DEF Span
  <2>2. <<run.job, run.page>> \in logs
    BY Zenon, <1>0, <1>1 DEF RunInv
  <2> QED BY Zenon, <1>1, <2>1, <2>2 DEF OwnPages
<1> QED BY Zenon, <1>3, <1>4

(* The page's checkpoint: the walk goes on below the page, or completes.   *)
LEMMA SavePageStep == ASSUME Numbers, HInv, SavePage PROVE HInv'
<1>0. Types /\ StoredInv /\ RunInv /\ run.at = "recorded" /\ run.at # "idle"
  BY Zenon DEF HInv, SavePage
<1>1. PICK j \in Job : j = run.job
  BY Zenon, <1>0, AtWork
<1>2. /\ run.cur \in Cursor /\ Walked(j, run.cur) /\ ~run.cur.done
      /\ run.cur.until \in Int /\ run.cur.upper \in Int
  BY Zenon, <1>0, <1>1, AtWork DEF Cursor
<1>3. Saturated => Oldest \in Int /\ Oldest < run.cur.until
  BY Zenon, <1>0, PageProves
<1> DEFINE cc == IF Saturated THEN [run.cur EXCEPT !.until = Oldest + 1, !.limit = NextLimit]
                 ELSE run.cur
<1>4. PICK c : c = cc
  OBVIOUS
<1>5. /\ c \in Cursor /\ c.since = run.cur.since /\ c.upper = run.cur.upper /\ c.req = run.cur.req
      /\ ~c.done /\ c.until = IF Saturated THEN Oldest + 1 ELSE run.cur.until
  <2>1. CASE Saturated
    <3>1. PICK u \in Int, l \in Nat \ {0} : u = Oldest + 1 /\ l = NextLimit
      BY <1>0, <1>3, <2>1, NextLimitType
    <3>2. c = [run.cur EXCEPT !.until = u, !.limit = l]
      BY Zenon, <1>4, <2>1, <3>1
    <3> QED BY ZenonT(60), <1>2, <2>1, <3>1, <3>2 DEF Cursor
  <2>2. CASE ~Saturated
    BY Zenon, <1>2, <1>4, <2>2
  <2> QED BY Zenon, <2>1, <2>2
<1>6. Walked(j, c)
  <2>1. c.until <= c.upper
    BY SMTT(60), <1>2, <1>3, <1>5 DEF Walked
  <2>2. ASSUME request[j].mode = "backfill" PROVE c.since = c.req
    BY Zenon, <1>2, <1>5, <2>2 DEF Walked
  <2>3. ASSUME request[j].mode = "backfill", NEW g \in Game, created[g] \in Span(c.until, c.upper)
        PROVE  g \in OwnPages(j)
    <3>1. CASE Saturated
      BY Zenon, <1>0, <1>1, <1>5, <2>3, <3>1, PageWalked
    <3>2. CASE ~Saturated
      BY Zenon, <1>2, <1>5, <2>3, <3>2 DEF Walked
    <3> QED BY Zenon, <3>1, <3>2
  <2> QED BY Zenon, <2>1, <2>2, <2>3 DEF Walked
<1>7. Untouched /\ UNCHANGED <<now, ended, follow>> /\ run' = Idle
  BY Zenon DEF SavePage, Untouched, provider
<1>8. CASE UNCHANGED <<cursor, history>>
  BY Zenon, <1>0, <1>7, <1>8, QuietStep DEF Types
<1>9. CASE RecordHistory /\ cursor' = [cursor EXCEPT ![j] = c]
  <2>1. Collected(j, c)
    BY Zenon, <1>5 DEF Collected
  <2> QED BY ZenonT(60), <1>0, <1>5, <1>6, <1>7, <1>9, <2>1, Saves DEF Types
<1>10. CASE /\ RecordHistory /\ cursor' = [cursor EXCEPT ![j] = [c EXCEPT !.done = TRUE]]
            /\ IF request[j].mode = "backfill" THEN ~Saturated ELSE Span(c.req, c.upper) \subseteq Covered
  <2>1. PICK d : d = [c EXCEPT !.done = TRUE]
    BY ZenonT(60)
  <2>2. d \in Cursor /\ Walked(j, d) /\ d.req = c.req /\ d.upper = c.upper
    BY Zenon, <1>5, <1>6, <2>1, DoneCursor
  <2>3. Collected(j, d)
    <3>1. CASE request[j].mode = "backfill"
      <4>1. d.req = run.cur.since /\ d.upper = run.cur.upper
        BY Zenon, <1>2, <1>5, <2>2, <3>1 DEF Walked
      <4> QED BY Zenon, <1>0, <1>1, <1>10, <3>1, <4>1, PageWalked DEF Collected
    <3>2. CASE request[j].mode # "backfill"
      BY Zenon, <1>0, <1>10, <2>2, <3>2, CoveredCaptured DEF Collected
    <3> QED BY Zenon, <3>1, <3>2
  <2> QED BY Zenon, <1>0, <1>7, <1>10, <2>1, <2>2, <2>3, Saves DEF Types
<1>11. \/ UNCHANGED <<cursor, history>>
       \/ RecordHistory /\ cursor' = [cursor EXCEPT ![j] = cc]
       \/ /\ RecordHistory /\ cursor' = [cursor EXCEPT ![j] = [cc EXCEPT !.done = TRUE]]
          /\ IF request[j].mode = "backfill" THEN ~Saturated ELSE Span(cc.req, cc.upper) \subseteq Covered
  BY Zenon, <1>1 DEF SavePage, Complete, Save
<1> HIDE DEF cc
<1> QED BY Zenon, <1>4, <1>8, <1>9, <1>10, <1>11

(* The tables start empty.                                                 *)
LEMMA HInit == Init => HInv
<1> SUFFICES ASSUME Init PROVE HInv
  OBVIOUS
<1>1. Types
  BY SMTT(60), Settings, HistoryAllowed DEF Init, Types, HistoryAssumption
<1>2. StoredInv
  <2>1. DOMAIN raw = {} /\ ranges = {} /\ history = Open
    BY DEF Init
  <2>2. \A g \in Game : ~(created[g] < Open)
    BY <1>1, Settings DEF Types
  <2> QED BY Zenon, <2>1, <2>2 DEF StoredInv
<1>3. JobInv
  <2>1. \A j \in Job : cursor[j] \notin Cursor
    BY Zenon, CursorIsOne DEF Init
  <2> QED BY Zenon, <2>1 DEF JobInv
<1>4. RunInv
  BY Zenon, IdleIsNone DEF Init, RunInv
<1> QED BY Zenon, <1>1, <1>2, <1>3, <1>4 DEF HInv

(* Every step keeps the invariant while windows lie in the past.           *)
LEMMA HStep == ASSUME Numbers, HInv, PastWindows, [Next]_vars PROVE HInv'
<1>0. Types
  BY Zenon DEF HInv
<1>1. CASE Tick \/ (\E g \in Game : GameEnds(g)) \/ Interrupt \/ Settled \/ UNCHANGED vars
  <2>1. /\ Untouched /\ UNCHANGED <<history, cursor, follow>> /\ run' \in {run, Idle}
        /\ now' = now \/ (now < Last /\ now' = now + 1)
        /\ ended' = ended \/ \E g \in Game : ended' = ended \cup {g}
    BY Zenon, <1>1 DEF Tick, GameEnds, Interrupt, Settled, vars, Untouched, provider
  <2>2. now' \in 0..Last
    BY SMTT(60), <1>0, <2>1, Settings DEF Types
  <2>3. ended' \subseteq Game
    BY Zenon, <1>0, <2>1 DEF Types
  <2> QED BY Zenon, <2>1, <2>2, <2>3, QuietStep
<1>2. CASE \E j \in Job : Begin(j)
  BY Zenon, <1>2, BeginStep
<1>3. CASE Step
  BY Zenon, <1>3, ReplayStep, NothingMissingStep, FetchStep, RecordStep, SavePageStep DEF Step
<1> QED BY Zenon, <1>1, <1>2, <1>3 DEF Next

(* In every behaviour with windows in the past the invariant holds.        *)
LEMMA HInvariant == Numbers => (Spec /\ []PastWindows => []HInv)
<1> SUFFICES ASSUME Numbers PROVE Spec /\ []PastWindows => []HInv
  OBVIOUS
<1>1. HInv /\ PastWindows /\ [Next]_vars => HInv'
  BY Zenon, HStep
<1> QED BY <1>1, HInit, PTL DEF Spec

(* The invariant says that proven intervals are proven.                    *)
LEMMA ProvenByInv == HInv => CoverageProven
BY Zenon DEF HInv, StoredInv, Proves, CoverageProven, Visible

(* ... and that a job that reports completion has its window.              *)
LEMMA CollectedByInv == HInv => DoneMeansCollected
<1> SUFFICES ASSUME HInv, NEW j \in Job, cursor[j].done, NEW g \in Wanted(j)
             PROVE  g \in IF request[j].mode = "backfill" THEN OwnPages(j) ELSE Captured
  BY Zenon DEF DoneMeansCollected, Finished
<1>1. cursor[j] \in Cursor
  <2>1. ~NoCursor.done
    BY Zenon DEF NoCursor
  <2> QED BY Zenon, <2>1 DEF HInv, Types
<1>2. Collected(j, cursor[j]) /\ cursor[j].req \in Int /\ cursor[j].upper \in Int
  BY Zenon, <1>1 DEF HInv, JobInv, Cursor
<1>3. g \in Game /\ created[g] \in Int
  BY SMTT(60), Settings DEF Wanted, Visible, HInv, Types
<1>4. created[g] \in Span(cursor[j].req, cursor[j].upper)
  BY SMTT(60), <1>2, <1>3 DEF Wanted, Span
<1> QED BY Zenon, <1>2, <1>3, <1>4 DEF Collected

-----------------------------------------------------------------------------
(* Requests without an end date: their windows end when the job starts.    *)

OpenEnded == \A q \in Request : q.until = NoDate

(* A checkpoint keeps the upper end it was made with, which was the clock. *)
LEMMA UpperKept ==
  ASSUME Numbers, HInv, OpenEnded, [Next]_vars, NEW k \in Job
  PROVE  \/ cursor'[k] = cursor[k]
         \/ cursor[k] \in Cursor /\ cursor'[k].upper = cursor[k].upper
         \/ cursor'[k].upper = now
<1>0. Types /\ StoredInv /\ RunInv /\ cursor \in [Job -> Cursor \cup {NoCursor}]
  BY Zenon DEF HInv, Types
<1>1. ASSUME run.at # "idle", NEW c, c.upper = run.cur.upper, cursor' = [cursor EXCEPT ![run.job] = c]
      PROVE  cursor'[k] = cursor[k] \/ (cursor[k] \in Cursor /\ cursor'[k].upper = cursor[k].upper)
  BY Zenon, <1>0, <1>1, AtWork DEF RunInv
<1>2. ASSUME NEW j \in Job, Begin(j)
      PROVE  cursor'[k] = cursor[k] \/ cursor'[k].upper = now
  <2>1. CASE cursor[j] = NoCursor
    <3>1. PICK c : c = NewCursor(j)
      OBVIOUS
    <3>2. c.upper = now
      BY ZenonT(60), <1>0, <3>1 DEF NewCursor, OpenEnded, Types
    <3>3. UNCHANGED cursor \/ cursor' = [cursor EXCEPT ![j] = c]
      BY Zenon, <1>2, <2>1, <3>1 DEF Begin, Save
    <3> QED BY Zenon, <1>0, <3>2, <3>3
  <2>2. CASE cursor[j] # NoCursor
    BY Zenon, <1>0, <1>2, <2>2 DEF Begin, Save
  <2> QED BY Zenon, <2>1, <2>2
<1>3. CASE UseStored \/ StoredBatchEnds \/ FollowUp \/ FollowUpBatchEnds
  <2>1. run.at # "idle" /\ run.cur \in Cursor
    BY Zenon, <1>3, AtWork DEF UseStored, StoredBatchEnds, FollowUp, FollowUpBatchEnds
  <2>2. \/ UNCHANGED cursor
        \/ \E n : cursor' = [cursor EXCEPT ![run.job] = [run.cur EXCEPT !.lafter = n]]
        \/ \E n : cursor' = [cursor EXCEPT ![run.job] = [run.cur EXCEPT !.after = n]]
        \/ \E p : cursor' = [cursor EXCEPT ![run.job] = [run.cur EXCEPT !.phase = p]]
        \/ cursor' = [cursor EXCEPT ![run.job] = run.cur]
    BY Zenon, <1>3 DEF UseStored, StoredBatchEnds, FollowUp, FollowUpBatchEnds, Save
  <2>3. \A n : /\ [run.cur EXCEPT !.lafter = n].upper = run.cur.upper
               /\ [run.cur EXCEPT !.after = n].upper = run.cur.upper
               /\ [run.cur EXCEPT !.phase = n].upper = run.cur.upper
    BY Zenon, <2>1 DEF Cursor
  <2> QED BY ZenonT(60), <1>1, <2>1, <2>2, <2>3
<1>4. CASE NothingMissing
  <2>1. /\ run.at # "idle" /\ run.job \in Job /\ run.cur \in Cursor /\ Walked(run.job, run.cur)
    BY Zenon, <1>4, AtWork DEF NothingMissing
  <2>2. PICK c \in Cursor : c = Refocus(run.job, run.cur) /\ c.upper = run.cur.upper
    BY Zenon, <1>0, <2>1, RefocusWalks
  <2>3. PICK d : d = [c EXCEPT !.done = TRUE]
    BY ZenonT(60)
  <2>4. d.upper = run.cur.upper
    BY Zenon, <2>2, <2>3 DEF Cursor
  <2>5. cursor' = [cursor EXCEPT ![run.job] = d]
    BY Zenon, <1>4, <2>2, <2>3 DEF NothingMissing, Complete, Save
  <2> QED BY ZenonT(60), <1>1, <2>1, <2>4, <2>5
<1>5. CASE SavePage
  <2>1. run.at # "idle" /\ run.cur \in Cursor
    BY Zenon, <1>5, AtWork DEF SavePage
  <2>2. PICK c : c = IF Saturated THEN [run.cur EXCEPT !.until = Oldest + 1, !.limit = NextLimit]
                     ELSE run.cur
    OBVIOUS
  <2>3. c.upper = run.cur.upper /\ [c EXCEPT !.done = TRUE].upper = run.cur.upper
    BY Zenon, <2>1, <2>2 DEF Cursor
  <2>4. \/ UNCHANGED cursor
        \/ cursor' = [cursor EXCEPT ![run.job] = c]
        \/ cursor' = [cursor EXCEPT ![run.job] = [c EXCEPT !.done = TRUE]]
    BY Zenon, <1>5, <2>2 DEF SavePage, Complete, Save
  <2> QED BY ZenonT(60), <1>1, <2>1, <2>3, <2>4
<1>6. CASE \/ Tick \/ (\E g \in Game : GameEnds(g)) \/ FetchPage \/ RecordRange
           \/ Interrupt \/ Settled \/ UNCHANGED vars
  BY ZenonT(60), <1>6 DEF Tick, GameEnds, FetchPage, RecordRange, Interrupt, Settled, vars
<1> QED BY Zenon, <1>2, <1>3, <1>4, <1>5, <1>6 DEF Next, Step

(* ... and the clock does not run backwards.                               *)
LEMMA PastStep == ASSUME Numbers, HInv, PastWindows, OpenEnded, [Next]_vars PROVE PastWindows'
<1>0. Types /\ now \in Int
  BY SMTT(60), Settings DEF HInv, Types
<1>1. now' = now \/ now' = now + 1
  BY Zenon DEF Next, Tick, GameEnds, Begin, Step, UseStored, StoredBatchEnds, FollowUp, FollowUpBatchEnds,
         NothingMissing, FetchPage, RecordRange, SavePage, Interrupt, Settled, vars
<1>2. ASSUME NEW j \in Job, cursor'[j] # NoCursor PROVE cursor'[j].upper <= now'
  <2>1. cursor[j] \in Cursor => cursor[j].upper \in Int /\ cursor[j].upper <= now
    BY Zenon, CursorIsOne DEF PastWindows, Cursor
  <2>2. cursor[j] = NoCursor \/ cursor[j] \in Cursor
    BY Zenon, <1>0 DEF Types
  <2>3. \/ cursor'[j] = cursor[j]
        \/ cursor[j] \in Cursor /\ cursor'[j].upper = cursor[j].upper
        \/ cursor'[j].upper = now
    BY Zenon, UpperKept
  <2> QED BY SMTT(60), <1>0, <1>1, <1>2, <2>1, <2>2, <2>3
<1> QED BY Zenon, <1>2 DEF PastWindows

(* ... so that no checkpoint ever reaches past the clock.                  *)
LEMMA PastAlways == Numbers /\ OpenEnded => (Spec => []PastWindows)
<1> SUFFICES ASSUME Numbers, OpenEnded PROVE Spec => []PastWindows
  OBVIOUS
<1>1. Init => PastWindows
  BY Zenon DEF Init, PastWindows
<1>2. HInv /\ PastWindows /\ [Next]_vars => HInv' /\ PastWindows'
  BY Zenon, HStep, PastStep
<1> QED BY <1>1, <1>2, HInit, PTL DEF Spec

-----------------------------------------------------------------------------
(* Finite sets and the order of the numbers, needed from here on only.     *)

INSTANCE FiniteSetTheorems
INSTANCE WellFoundedInduction

(* A set of natural numbers has a smallest member.                         *)
LEMMA SmallestNat ==
  ASSUME NEW T \in SUBSET Nat, T # {}
  PROVE  \E x \in T : \A y \in T : x <= y
<1> DEFINE R == {ss \in Nat \X Nat : ss[1] < ss[2]}
<1>0. IsWellFoundedOn(R, Nat)
  BY Zenon, NatLessThanWellFounded DEF OpToRel
<1> HIDE DEF R
<1>1. PICK x \in T : \A y \in T : <<y, x>> \notin R
  BY Zenon, <1>0, WFMin
<1>2. \A y \in T : ~(y < x)
  BY Zenon, <1>1 DEF R
<1> QED BY <1>2

(* The games are finitely many.                                            *)
LEMMA GamesFinite == ASSUME NEW S \in SUBSET Game PROVE IsFiniteSet(S) /\ Cardinality(S) \in Nat
<1>1. IsFiniteSet(Game)
  BY HistoryAllowed, FS_Interval DEF HistoryAssumption, Game
<1>2. IsFiniteSet(S)
  BY Zenon, <1>1, FS_Subset
<1> QED BY Zenon, <1>2, FS_CardinalityType

(* What the argument uses of numbers and of sets of games is so.           *)
LEMMA NumbersHold == Numbers
<1>1. ASSUME NEW S \in SUBSET Game, NEW T \in SUBSET S, T # S PROVE Cardinality(T) # Cardinality(S)
  <2>1. IsFiniteSet(S)
    BY Zenon, GamesFinite
  <2> QED BY Zenon, <1>1, <2>1, FS_Subset
<1> QED BY Zenon, <1>1, GamesFinite, SmallestNat, FS_EmptySet DEF Numbers

(* Proven intervals are proven: whatever executions die between the page,  *)
(* its range and its checkpoint, however many games share the millisecond  *)
(* at which pages are cut, and whichever jobs share the ranges, every game *)
(* of a recorded range is on its page, and every game below the watermark  *)
(* is on some page (_lichess, record_source_range, record_coverage).       *)
THEOREM ProvenRanges == Spec /\ []PastWindows => []CoverageProven
BY NumbersHold, HInvariant, ProvenByInv, PTL

(* A job that reports completion has its window: on pages of any job for   *)
(* a full or incremental collection, on pages it fetched itself for a      *)
(* backfill, across crashes, resumed checkpoints and replayed pages.       *)
THEOREM CompleteIsCollected == Spec /\ []PastWindows => []DoneMeansCollected
BY NumbersHold, HInvariant, CollectedByInv, PTL

(* Jobs whose requests have no end date never ask for the future, so that  *)
(* both results hold for them without a condition.                         *)
THEOREM OpenEndedHistory ==
  ASSUME OpenEnded
  PROVE  Spec => [](CoverageProven /\ DoneMeansCollected)
BY NumbersHold, PastAlways, ProvenRanges, CompleteIsCollected, PTL
=============================================================================
