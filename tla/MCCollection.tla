---------------------------- MODULE MCCollection ----------------------------
(* How evidence is collected: the crawl of opponents, the pages of a        *)
(* Lichess history (extended) and the months of a Chess.com history.  The   *)
(* parts share no state here: `part` is chosen once, the instance it names  *)
(* moves, and the variables of the other modules stay idle.                 *)
EXTENDS LichessHistory, TLC

CONSTANTS v1, v2, x1, x2, x3

\* A ring of five users with a tail: user 4 is two steps from the seed on one
\* side and three on the other, user 5 is reached only through user 4.
RingPlayers == <<{0, 1}, {0, 2}, {1, 3}, {3, 4}, {2, 4}, {4, 5}>>
OneMonth == [g \in 1..6 |-> 0]

\* A small graph over two months; the seed met user 2 twice.
KitePlayers == <<{0, 1}, {0, 2}, {0, 2}, {1, 3}, {2, 3}>>
KiteMonth == <<0, 1, 0, 1, 0>>

\* Requests with and without a lower bound, up to the job's start.
Ask(mode, since) == [mode |-> mode, since |-> since, until |-> NoDate]
Requested == {Ask("full", Open), Ask("incremental", 1), Ask("backfill", Open)}

\* Exchanging the two executions x1 and x2 changes nothing in any part.
Exchange == Permutations({x1, x2})

VARIABLES
    part,   \* the instance that moves
    acq, units, shown, exp, edges, member, crawlFaults,
    monthsNow, body, mode, asked, monthsStatus, index, monthsUnits, done, raws,
    monthsLogs, coverage, monthsRun, monthsFaults, opened, missed

Ring == INSTANCE OpponentCrawl WITH
    Users <- 0..5, Games <- 1..6, Players <- RingPlayers, Month <- OneMonth,
    Months <- 1, Streamed <- FALSE, MaxDepth <- 3, MaxUsers <- 6, MaxGames <- 6,
    MaxJobs <- 9, MaxFaults <- 2, faults <- crawlFaults
Kite == INSTANCE OpponentCrawl WITH
    Users <- 0..3, Games <- 1..5, Players <- KitePlayers, Month <- KiteMonth,
    Months <- 2, Streamed <- FALSE, MaxDepth <- 2, MaxUsers <- 3, MaxGames <- 4,
    MaxJobs <- 3, MaxFaults <- 3, faults <- crawlFaults
\* The ring where the provider streams the latest games up to a limit.
Stream == INSTANCE OpponentCrawl WITH
    Users <- 0..5, Games <- 1..6, Players <- RingPlayers, Month <- OneMonth,
    Months <- 1, Streamed <- TRUE, MaxDepth <- 3, MaxUsers <- 6, MaxGames <- 6,
    MaxJobs <- 6, MaxFaults <- 1, faults <- crawlFaults
\* Games that are unfinished when they are captured.
FollowUps == INSTANCE LichessHistory WITH
    Ongoing <- {1, 2}, Request <- {Ask("full", Open), Ask("incremental", Open)},
    PageSize <- 2, MaxPageSize <- 2
\* Two months, the last one open, for two jobs.
Reuse == INSTANCE ChesscomMonths WITH
    Months <- 2, Version <- {v1, v2}, Job <- {x1, x2},
    Mode <- {"incremental", "backfill"}, Asked <- {1..2}, BatchSize <- 1, Last <- 2,
    MaxLogs <- 4, MaxFaults <- 1, now <- monthsNow, status <- monthsStatus,
    units <- monthsUnits, logs <- monthsLogs, run <- monthsRun, faults <- monthsFaults
\* One month whose body changes and changes back, for three jobs.
Bodied == INSTANCE ChesscomMonths WITH
    Months <- 1, Version <- {v1, v2}, Job <- {x1, x2, x3}, Mode <- {"incremental"},
    Asked <- {{1}}, BatchSize <- 1, Last <- 2, MaxLogs <- 3, MaxFaults <- 1,
    now <- monthsNow, status <- monthsStatus, units <- monthsUnits, logs <- monthsLogs,
    run <- monthsRun, faults <- monthsFaults

\* The instances are ones the settings allow.
ASSUME SettingsAllowed == HistoryAssumption /\ Ring!BoundsAssumption /\
                          Kite!BoundsAssumption /\ Stream!BoundsAssumption /\
                          FollowUps!HistoryAssumption /\ Reuse!MonthsAssumption /\
                          Bodied!MonthsAssumption

crawlVars == <<acq, units, shown, exp, edges, member, crawlFaults>>
monthsVars == <<monthsNow, body, mode, asked, monthsStatus, index, monthsUnits, done,
                raws, monthsLogs, coverage, monthsRun, monthsFaults, opened, missed>>
everything == <<part, vars, crawlVars, monthsVars>>

Unused == "unused"
NoCrawl == acq = Unused /\ units = Unused /\ shown = Unused /\ exp = Unused /\
        edges = Unused /\ member = Unused /\ crawlFaults = Unused
NoMonths == monthsNow = Unused /\ body = Unused /\ mode = Unused /\ asked = Unused /\
         monthsStatus = Unused /\ index = Unused /\ monthsUnits = Unused /\
         done = Unused /\ raws = Unused /\ monthsLogs = Unused /\ coverage = Unused /\
         monthsRun = Unused /\ monthsFaults = Unused /\ opened = Unused /\
         missed = Unused

\* While no game is ongoing only creation times tell games apart, so one order of
\* the games stands for all; the first game is made at the first instant.
Sorted == created[1] = 0 /\ \A g, h \in Game : g < h => created[g] <= created[h]

NoHistory == Init /\ created = [g \in Game |-> 0] /\ request = [j \in Job |-> Ask("full", Open)]

CollectionInit ==
    \/ part = "pages" /\ Init /\ Sorted /\ NoCrawl /\ NoMonths
    \/ part = "ring" /\ Ring!Init /\ NoMonths /\ NoHistory
    \/ part = "kite" /\ Kite!Init /\ NoMonths /\ NoHistory
    \/ part = "stream" /\ Stream!Init /\ NoMonths /\ NoHistory
    \/ part = "followups" /\ FollowUps!Init /\ NoCrawl /\ NoMonths
    \/ part = "months" /\ Reuse!Init /\ NoCrawl /\ NoHistory
    \/ part = "bodies" /\ Bodied!Init /\ NoCrawl /\ NoHistory

CollectionNext ==
    \/ part = "pages" /\ Next /\ UNCHANGED <<part, crawlVars, monthsVars>>
    \/ part = "ring" /\ Ring!Next /\ UNCHANGED <<part, vars, monthsVars>>
    \/ part = "kite" /\ Kite!Next /\ UNCHANGED <<part, vars, monthsVars>>
    \/ part = "stream" /\ Stream!Next /\ UNCHANGED <<part, vars, monthsVars>>
    \/ part = "followups" /\ FollowUps!Next /\ UNCHANGED <<part, crawlVars, monthsVars>>
    \/ part = "months" /\ Reuse!Next /\ UNCHANGED <<part, vars, crawlVars>>
    \/ part = "bodies" /\ Bodied!Next /\ UNCHANGED <<part, vars, crawlVars>>

CollectionSpec == CollectionInit /\ [][CollectionNext]_everything

-----------------------------------------------------------------------------
(* However many expansions commit, in any order and after any crash, the    *)
(* run never has more users or jobs than it was bounded to.                 *)
CrawlWithinBounds ==
    /\ part = "ring" => Ring!CrawlWithinBounds
    /\ part = "kite" => Kite!CrawlWithinBounds
    /\ part = "stream" => Stream!CrawlWithinBounds

(* When no job is left, the crawl is what a sequential breadth-first walk   *)
(* would have found, in whatever order paths of different length were.      *)
FrontierClosed ==
    /\ part = "ring" => Ring!FrontierClosed
    /\ part = "kite" => Kite!FrontierClosed
    /\ part = "stream" => Stream!FrontierClosed

(* A job opened after a month ended completes only with the final body of   *)
(* that month, and a backfill has asked for every month itself.             *)
ClosedMonthsCollected ==
    (part = "months" => Reuse!ClosedMonthsCollected) /\ (part = "bodies" => Bodied!ClosedMonthsCollected)
=============================================================================
