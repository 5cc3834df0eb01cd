----------------------------- MODULE MCServices -----------------------------
(* The services around the job queue: the admission of database sessions    *)
(* and submissions (both extended, so that their theorems and this run      *)
(* speak of one definition), export artifacts and the client of the chess   *)
(* providers.  They share no state, so one exploration takes them side by   *)
(* side: `part` is chosen once, the instance it names moves, and the        *)
(* variables of the other modules stay idle.                                *)
EXTENDS SessionAdmission, Submission, Naturals, Sequences, TLC

CONSTANTS a, b, c1, c2, d1, d2, e1, e2, k1, k2, p1, p2, t1, t2, t3, t4

\* Two servers of a rolling deployment: the second has a tighter policy.
Requests == {[op |-> "import", body |-> "bounded"], [op |-> "import", body |-> "batched"],
             [op |-> "resource", body |-> "statistics"]}
Rolling == (c1 :> 2) @@ (c2 :> 1)

\* Exchanging the two workers changes nothing in any part.
Exchange == Permutations({a, b})

VARIABLES
    part,   \* the instance that moves
    job, art, exportsPart, store, worker, pruner, down, lease, late, exportsCrashes,
    policy, updates, cooldown, lock, stop, last, notBefore, callsCall, callsCrashes,
    owed

\* One export, built three times by two workers beside two pruners and a download.
Attempts == INSTANCE Artifacts WITH
    Job <- {c1}, Worker <- {a, b}, Pruner <- {p1, p2}, Download <- {c2}, MaxCount <- 1,
    MaxBytes <- 2, ExportBytes <- 2, Slots <- 1, MaxAttempts <- 3, MaxCrashes <- 2,
    part <- exportsPart, crashes <- exportsCrashes
\* Two exports that do not both fit, and two downloads for one slot.
Quota == INSTANCE Artifacts WITH
    Job <- {e1, e2}, Worker <- {c1}, Pruner <- {c2}, Download <- {d1, d2},
    MaxCount <- 2, MaxBytes <- 2, ExportBytes <- 2, Slots <- 1, MaxAttempts <- 1,
    MaxCrashes <- 0, part <- exportsPart, crashes <- exportsCrashes
\* Two workers of one provider.
Pacing == INSTANCE ProviderHttp WITH
    Worker <- {a, b}, Provider <- "chess.com", Fixed <- 2, Delays <- {1, 2},
    Retries <- {0}, RetryAfter <- {2}, Limits <- {1}, ChunkSize <- 1, Timeout <- 1,
    MaxUpdates <- 2, MaxCrashes <- 1, call <- callsCall, crashes <- callsCrashes
\* One worker of Lichess, every body limit and retry policy.
Reading == INSTANCE ProviderHttp WITH
    Worker <- {c1}, Provider <- "lichess", Fixed <- 3, Delays <- {1}, Retries <- {0, 1},
    RetryAfter <- {2}, Limits <- {0, 1, 4}, ChunkSize <- 3, Timeout <- 2,
    MaxUpdates <- 1, MaxCrashes <- 1, call <- callsCall, crashes <- callsCrashes

\* The instances are ones the settings allow.
ASSUME SettingsAllowed == Attempts!SettingsAssumption /\ Quota!SettingsAssumption

exportsVars == <<job, art, exportsPart, store, worker, pruner, down, lease, late,
                 exportsCrashes>>
callsVars == <<policy, updates, cooldown, lock, stop, last, notBefore, callsCall,
               callsCrashes, owed>>
everything == <<part, vars, submissionVars, exportsVars, callsVars>>

Unused == "unused"
NoSubmissions == SubmissionInit /\ run = <<>>
NoExports == job = Unused /\ art = Unused /\ exportsPart = Unused /\ store = Unused /\
          worker = Unused /\ pruner = Unused /\ down = Unused /\ lease = Unused /\
          late = Unused /\ exportsCrashes = Unused
NoCalls == policy = Unused /\ updates = Unused /\ cooldown = Unused /\ lock = Unused /\
        stop = Unused /\ last = Unused /\ notBefore = Unused /\ callsCall = Unused /\
        callsCrashes = Unused /\ owed = Unused

ServicesInit ==
    \/ part = "permits" /\ Init /\ NoSubmissions /\ NoExports /\ NoCalls
    \/ part = "keys" /\ SubmissionInit /\ NoExports /\ NoCalls /\ Init
    \/ part = "attempts" /\ Attempts!Init /\ NoSubmissions /\ NoCalls /\ Init
    \/ part = "quota" /\ Quota!Init /\ NoSubmissions /\ NoCalls /\ Init
    \/ part = "pacing" /\ Pacing!Init /\ NoSubmissions /\ NoExports /\ Init
    \/ part = "reading" /\ Reading!Init /\ NoSubmissions /\ NoExports /\ Init

ServicesNext ==
    \/ part = "permits" /\ Next /\ UNCHANGED <<part, submissionVars, exportsVars, callsVars>>
    \/ part = "keys" /\ SubmissionNext /\ UNCHANGED <<part, vars, exportsVars, callsVars>>
    \/ part = "attempts" /\ Attempts!Next /\ UNCHANGED <<part, vars, submissionVars, callsVars>>
    \/ part = "quota" /\ Quota!Next /\ UNCHANGED <<part, vars, submissionVars, callsVars>>
    \/ part = "pacing" /\ Pacing!Next /\ UNCHANGED <<part, vars, submissionVars, exportsVars>>
    \/ part = "reading" /\ Reading!Next /\ UNCHANGED <<part, vars, submissionVars, exportsVars>>

ServicesSpec == ServicesInit /\ [][ServicesNext]_everything

-----------------------------------------------------------------------------
(* A finished artifact that has not expired is whole, of one attempt, with  *)
(* every object, whatever deletes of earlier attempts are under way.        *)
ReadyIntact == (part = "attempts" => Attempts!ReadyIntact) /\ (part = "quota" => Quota!ReadyIntact)

(* A download that ended as complete delivered every part, and until its    *)
(* deadline neither retention nor a crash takes a part away.                *)
DownloadWhole ==
    [][(part = "attempts" => Attempts!DownloadWhole) /\ (part = "quota" => Quota!DownloadWhole)]_everything

(* No request leaves, from any worker, while a completed response still     *)
(* asks for patience: the cooldown is shared through the database.          *)
AskedDelayRespected == [][part = "pacing" => Pacing!SendsOnlyWhenOwedNothing]_everything

(* Every reservation of bytes is settled once, on every path out of an      *)
(* attempt, so no idle worker keeps bytes of the budget.                    *)
ReservationSettled == part = "reading" => Reading!ReservationSettled
=============================================================================
