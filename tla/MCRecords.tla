----------------------------- MODULE MCRecords ------------------------------
(* What becomes of evidence: the store of source bytes and the replay by a  *)
(* data upgrade (both extended, so that their theorems and this run speak   *)
(* of one definition), and normalization into games and accounts.  The      *)
(* parts share no state here: `part` is chosen once, the instance it names  *)
(* moves, and the variables of the other modules stay idle.                 *)
EXTENDS DataUpgrade, ArchiveStore, Sequences, TLC

CONSTANTS first, g1, g2, j1, j2, q1, q2, s1, s2, s3, second, v1, v2, w1, w2, w3, x1, x2

\* Sources s1 and s2 have the same bytes.
Bodies == (s1 :> 1) @@ (s2 :> 1) @@ (s3 :> 2)

\* Two payloads that share games, in different orders.  In Late, q2 shows g1 as
\* not ended and g2 with a later end than q1 does.
Both == (q1 :> <<g1, g2>>) @@ (q2 :> <<g2, g1>>)
AllEnded == (q1 :> (g1 :> 1 @@ g2 :> 2)) @@ (q2 :> (g1 :> 2 @@ g2 :> 2))
Late == (q1 :> (g1 :> 2 @@ g2 :> 2)) @@ (q2 :> (g1 :> 0 @@ g2 :> 3))
NoLimits == (x1 :> 99) @@ (x2 :> 99)
FirstLimited == (x1 :> 1) @@ (x2 :> 99)
Whole == (x1 :> 0) @@ (x2 :> 0)
From == (x1 :> 0) @@ (x2 :> 2)
To == (x1 :> 0) @@ (x2 :> 3)

\* Histories of accounts: names are 1, 2 and 3, stable ids 11 and 12.
A(name, sid) == [name |-> name, sid |-> sid]

\* Account 11 is renamed from 1 to 2, which a placeholder may hold: a game
\* between 1 and 2, its expansion, and statistics asked for as 2.
RenameKind == <<"profile", "profile", "game", "stats", "edge">>
RenameAccounts == <<<<A(1, 11)>>, <<A(2, 11)>>, <<A(1, 0), A(2, 0)>>, <<A(2, 0)>>, <<>>>>

\* The name is reused by a second account.
ReuseKind == <<"profile", "profile", "profile", "stats">>
ReuseAccounts == <<<<A(1, 11)>>, <<A(2, 11)>>, <<A(1, 12)>>, <<A(1, 0)>>>>

\* Two games of the same two players with the colours exchanged, during a
\* rename, and an expansion.
RematchKind == <<"profile", "profile", "game", "game", "edge">>
RematchAccounts == <<<<A(1, 11)>>, <<A(2, 11)>>, <<A(1, 0), A(2, 0)>>, <<A(2, 0), A(1, 0)>>, <<>>>>

\* Exchanging the two executions w1 and w2 changes nothing in any part.
Exchange == Permutations({w1, w2})

VARIABLES
    part,   \* the instance that moves
    obs, progress, items, status, sources, facts, current, member, gamesProc, crashes,
    accountsRows, accountsPart, bound, accountsObs, edges, jobs, accountsProc, gate,
    locks, faults

\* An upgrade one of whose payloads cannot be replayed, and a second job.
Reused == INSTANCE DataUpgrade WITH
    RawIds <- 1..4, Stored <- {1, 3}, Bad <- {3}, Parsers <- {1}, batch_size <- 1
\* Objects move between two stores while two writers run.
Moves == INSTANCE ArchiveStore WITH
    Writer <- {w1, w2}, Source <- {s1, s2}, BodyOf <- (s1 :> 1) @@ (s2 :> 1),
    Place <- {first, second}, Target <- second, FirstBackend <- first, BatchSize <- 1,
    MaxRows <- 3, MaxDamage <- 1
\* Bodies that recur, interpreted by two versions of the parser.
Observed == INSTANCE GameNormalization WITH
    Raw <- {q1, q2}, Game <- {g1, g2}, Run <- {x1}, Holds <- Both, Ends <- AllEnded,
    Limit <- (x1 :> 99), Since <- (x1 :> 0), Until <- (x1 :> 0), Request <- 99,
    Parser <- {v1, v2}, Worker <- {w1, w2}, MaxObs <- 3, MaxCrashes <- 0,
    proc <- gamesProc
\* The same, with executions that are lost: a job may queue for both versions.
Reparsed == INSTANCE GameNormalization WITH
    Raw <- {q1, q2}, Game <- {g1, g2}, Run <- {x1}, Holds <- Both, Ends <- AllEnded,
    Limit <- (x1 :> 99), Since <- (x1 :> 0), Until <- (x1 :> 0), Request <- 99,
    Parser <- {v1, v2}, Worker <- {w1, w2}, MaxObs <- 2, MaxCrashes <- 1,
    proc <- gamesProc
\* Two runs, one with a window of time.
Windows == INSTANCE GameNormalization WITH
    Raw <- {q1, q2}, Game <- {g1, g2}, Run <- {x1, x2}, Holds <- Both, Ends <- Late,
    Limit <- NoLimits, Since <- From, Until <- To, Request <- 99, Parser <- {v1},
    Worker <- {w1, w2}, MaxObs <- 3, MaxCrashes <- 0, proc <- gamesProc
\* Two runs, one with a limit of games.
Limits == INSTANCE GameNormalization WITH
    Raw <- {q1, q2}, Game <- {g1, g2}, Run <- {x1, x2}, Holds <- Both, Ends <- AllEnded,
    Limit <- FirstLimited, Since <- Whole, Until <- Whole, Request <- 99,
    Parser <- {v1}, Worker <- {w1, w2}, MaxObs <- 3, MaxCrashes <- 1, proc <- gamesProc
Rename == INSTANCE AccountIdentity WITH
    Workers <- {w1, w2}, Jobs <- 1..5, Kind <- RenameKind, Accounts <- RenameAccounts,
    Time <- <<1, 4, 2, 3, 5>>, MaxFaults <- 2, rows <- accountsRows,
    part <- accountsPart, obs <- accountsObs, proc <- accountsProc
Renamed == INSTANCE AccountIdentity WITH
    Workers <- {w1, w2}, Jobs <- 1..4, Kind <- ReuseKind, Accounts <- ReuseAccounts,
    Time <- <<1, 3, 4, 2>>, MaxFaults <- 2, rows <- accountsRows, part <- accountsPart,
    obs <- accountsObs, proc <- accountsProc
Rematch == INSTANCE AccountIdentity WITH
    Workers <- {w1, w2, w3}, Jobs <- 1..5, Kind <- RematchKind,
    Accounts <- RematchAccounts, Time <- <<1, 4, 2, 3, 5>>, MaxFaults <- 1,
    rows <- accountsRows, part <- accountsPart, obs <- accountsObs, proc <- accountsProc

\* The instances are ones the settings allow.
ASSUME SettingsAllowed == Observed!HoldsAssumption /\ Reparsed!HoldsAssumption /\ Windows!HoldsAssumption /\
                          Limits!HoldsAssumption /\ Rename!JobsAssumption /\
                          Renamed!JobsAssumption /\ Rematch!JobsAssumption

gamesVars == <<obs, progress, items, status, sources, facts, current, member, gamesProc,
               crashes>>
accountsVars == <<accountsRows, accountsPart, bound, accountsObs, edges, jobs,
                  accountsProc, gate, locks, faults>>
everything == <<part, vars, archiveVars, gamesVars, accountsVars>>

Unused == "unused"
NoGames == obs = Unused /\ progress = Unused /\ items = Unused /\ status = Unused /\
        sources = Unused /\ facts = Unused /\ current = Unused /\ member = Unused /\
        gamesProc = Unused /\ crashes = Unused
NoAccounts == accountsRows = Unused /\ accountsPart = Unused /\ bound = Unused /\
           accountsObs = Unused /\ edges = Unused /\ jobs = Unused /\
           accountsProc = Unused /\ gate = Unused /\ locks = Unused /\ faults = Unused

WindowsInit == part = "windows" /\ Windows!Init /\ ArchiveInit /\ NoAccounts /\ Init

RecordsInit ==
    \/ part = "resume" /\ Init /\ ArchiveInit /\ NoGames /\ NoAccounts
    \/ part = "reuse" /\ Reused!Init /\ ArchiveInit /\ NoGames /\ NoAccounts
    \/ part = "moves" /\ Moves!ArchiveInit /\ NoGames /\ NoAccounts /\ Init
    \/ part = "inlined" /\ ArchiveInit /\ NoGames /\ NoAccounts /\ Init
    \/ part = "observed" /\ Observed!Init /\ ArchiveInit /\ NoAccounts /\ Init
    \/ part = "reparsed" /\ Reparsed!Init /\ ArchiveInit /\ NoAccounts /\ Init
    \/ WindowsInit
    \/ part = "limits" /\ Limits!Init /\ ArchiveInit /\ NoAccounts /\ Init
    \/ part = "rename" /\ Rename!Init /\ ArchiveInit /\ NoGames /\ Init
    \/ part = "renamed" /\ Renamed!Init /\ ArchiveInit /\ NoGames /\ Init
    \/ part = "rematch" /\ Rematch!Init /\ ArchiveInit /\ NoGames /\ Init

RecordsNext ==
    \/ part = "resume" /\ Next /\ UNCHANGED <<part, archiveVars, gamesVars, accountsVars>>
    \/ part = "reuse" /\ Reused!Next /\ UNCHANGED <<part, archiveVars, gamesVars, accountsVars>>
    \/ part = "moves" /\ Moves!ArchiveNext /\ UNCHANGED <<part, vars, gamesVars, accountsVars>>
    \/ part = "inlined" /\ ArchiveNext /\ UNCHANGED <<part, vars, gamesVars, accountsVars>>
    \/ part = "observed" /\ Observed!Next /\ UNCHANGED <<part, vars, archiveVars, accountsVars>>
    \/ part = "reparsed" /\ Reparsed!Next /\ UNCHANGED <<part, vars, archiveVars, accountsVars>>
    \/ part = "windows" /\ Windows!Next /\ UNCHANGED <<part, vars, archiveVars, accountsVars>>
    \/ part = "limits" /\ Limits!Next /\ UNCHANGED <<part, vars, archiveVars, accountsVars>>
    \/ part = "rename" /\ Rename!Next /\ UNCHANGED <<part, vars, archiveVars, gamesVars>>
    \/ part = "renamed" /\ Renamed!Next /\ UNCHANGED <<part, vars, archiveVars, gamesVars>>
    \/ part = "rematch" /\ Rematch!Next /\ UNCHANGED <<part, vars, archiveVars, gamesVars>>

RecordsSpec == RecordsInit /\ [][RecordsNext]_everything

\* The part with a window of time alone.
WindowsSpec == WindowsInit /\ [][RecordsNext]_everything

-----------------------------------------------------------------------------
(* Once every response has been queued and the queue is empty, a game that  *)
(* the run of the last observation holds has the facts and the revision of  *)
(* the payload observed last, whatever the order of the jobs.               *)
AcquiredIsCurrent ==
    /\ part = "observed" => Observed!AcquiredIsCurrent
    /\ part = "reparsed" => Reparsed!AcquiredIsCurrent
    /\ part = "windows" => Windows!AcquiredIsCurrent
    /\ part = "limits" => Limits!AcquiredIsCurrent

(* "The current revision follows fetch evidence, including a previously     *)
(* seen body returning later", also when a run with a window observes it.   *)
SettledIsCurrent == part = "windows" => Windows!SettledIsCurrent

(* Evidence stays with the account it is about, through every rename,       *)
(* merge and reuse of a name.                                               *)
EvidenceOnItsAccount ==
    /\ part = "rename" => Rename!EvidenceOnItsAccount
    /\ part = "renamed" => Renamed!EvidenceOnItsAccount
    /\ part = "rematch" => Rematch!EvidenceOnItsAccount

(* Nobody waits in a circle for the gate and the account locks.             *)
NoWaitCycle == part = "rematch" => Rematch!NoWaitCycle
=============================================================================
