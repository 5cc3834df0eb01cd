# chess-crawl: TLA+ models and proofs

chess-crawl collects chess games from Lichess and Chess.com. Its work is a table
of durable jobs in PostgreSQL (`discovery_jobs`), grouped into crawl runs
(`crawl_runs`), executed by any number of worker processes. This directory holds
TLA+ models of its concurrent parts, the TLC instances that check them, and
TLAPS proofs. Paths below are relative to `src/src/chess_crawl/`.

## The system

A submission creates a run, its budget and its jobs. A trigger writes a hint to
the dispatch outbox. A worker, woken by a hint or by its poll, claims a job under
the admission conditions and executes it in short fenced transactions, each
reserving budget, storing captures, moving cursors and enqueuing children. It
talks to the providers through a paced HTTP client. Captured payloads are
normalized by further jobs, which maintain games and accounts. The worker
finishes the job and derives the status of its run; triggers write the events
that the publisher sends to a hub. Exports are built as jobs and downloaded
under leases.

What is hard is what happens between transactions. Ownership of a job is four
things at once (a session lock, a provider's lock, a row's state, a token), taken
and given back at different moments. Sessions die at any point, and the process
may not notice. Statements of one transaction read different snapshots. HTTP
requests and object writes take part in no transaction. `hazards` in
`PROJECT.json` names the line where each one bites and the property that would
catch it.

## Modules

| Module | Models | Code |
|---|---|---|
| `JobExecution` | claim, fence, execute, enqueue, finish, recover, cancel, unblock; run status; provider cooldowns | `jobs/state.py`, `jobs/runner.py`, `jobs/worker.py`, `jobs/locking.py`, `storage/db.py`, `storage/job_admission.py` |
| `JobLedger` | what job execution promises, without workers, locks or sessions | the same, abstractly |
| `ClaimTurns` | whose job a claim takes: turns, windows, busy providers, hints | `claim_next_job` |
| `WorkBudgets` | run and monthly budgets, reservations, policies, resume | `storage/work_budgets.py`, `jobs/budget_admin.py` |
| `WorkerProcess` | a worker and its heartbeat, its row, the identity binding and the probe | `jobs/worker.py`, `jobs/worker_identity.py` |
| `SessionAdmission` | permits for database sessions inside one process | `storage/session_admission.py`, `storage/db.py` |
| `DispatchOutbox` | hints, dispatcher, an at-least-once queue, maintenance | `jobs/dispatch.py`, `storage/execution.py` |
| `EventOutbox` | revisions, the publisher, pruning and discard | `events/publisher.py`, `storage/events.py` |
| `Submission` | idempotency keys and admission | `application/services.py` |
| `Artifacts` | exports: quota, attempts, objects, download leases, retention | `storage/artifacts.py`, `jobs/internal.py` |
| `ProviderHttp` | one request with pacing, retries, bounded reading, settlement | `providers/http.py`, `providers/base.py` |
| `OpponentCrawl` | acquisition, expansion, promotion and bounds of a crawl | `jobs/acquisition.py`, `jobs/discovery.py` |
| `LichessHistory` | resumable history collection: pages, ranges, watermark | `jobs/collection.py`, `storage/collection.py` |
| `ChesscomMonths` | monthly archives: reuse, conditional requests, sealing | `jobs/collection.py`, `ingest.py` |
| `ArchiveStore` | where source bytes live: publication, relocation, transfer | `storage/archives.py`, `storage/archive_transfer.py`, `storage/raw.py` |
| `GameNormalization` | games, revisions and run selection from payloads | `normalize/games.py`, `storage/game_evidence.py` |
| `AccountIdentity` | accounts, renames, merges and their locks | `storage/repository.py`, `normalize/users.py` |
| `DataUpgrade` | interrupted reprocessing of the archive | `storage/execution.py`, `jobs/runner.py` |

The head of each module says what its state stands for. `map` in `PROJECT.json`
gives the lines that each definition models.

Common conventions. Atomicity follows PostgreSQL at READ COMMITTED: a transaction
that another session can meet half-way is several actions (row locks are taken
by the first, writes become visible at the last, a session that dies in between
rolls them back); one that nobody can meet half-way is one action. Times are kept
as what the code compares (NULL, later, due), or as small counters where their
distance matters (`ProviderHttp`, `WorkerProcess`, the two collections). Every
bound on a behaviour is a constant named `Max...` (`Last`, `LastTime`,
`Restarts`). Variables marked "history" are read by no guard. Definitions marked
as mutants replace one definition by a plausible mistake: for every property of
a passing run there is one that TLC refutes.

### JobExecution and JobLedger

`row` is `discovery_jobs` as committed, `status` the committed status of runs,
`cooldown` the providers whose `not_before` lies ahead, `wrote` the generation
under which the job's last evidence was committed (history). `rowLock` and
`runLock` are row locks, `jobLock` and `provLock` the session advisory locks,
`gate` the transaction lock `workspace-scheduler`; `proc[w]` is what process `w`
knows and where it is in `Worker.run`.

| Code | Actions |
|---|---|
| `Worker.run`, startup | `Start`, `Refresh...`, `CommitStart` |
| `resume_stale_in_progress` | `RecoverSelect`, `RecoverCommit` |
| `claim_next_job` | `ClaimSelect`, `ClaimCommit`, or `ClaimNothing` |
| `_run_owned`, refresh after the claim | `BeginRefresh`, `Refresh...`, `CommitRefresh` |
| `refresh_run_status` | `RefreshLock`, `RefreshCount`, `RefreshPublish` |
| `_execute` and its handlers | `Checkpoint`, `DeferProvider`, `Enqueue` |
| `finish_attempt` | `FinishMark`, `Refresh...`, `CommitFinish` |
| `release_job_ownership` | `Release` |
| a session or process dies | `SessionLost`, later `LeaseLost` |
| operator, time | `Cancel`, `Unblock`, `RetryDue`, `CooldownOver` |

A token is the generation it was drawn for (the code draws a random one per
claim). Which candidate a claim takes is left open here; `ClaimTurns` is about
that. A handler is any sequence of fenced transactions that ends with an outcome
of the instance. In `_resume_stale_in_progress` the SELECT and the lock tries are
one action, because the row locks it holds keep claims and finishes away. Any
database error, `lock_timeout` included, is a lost session. `Paced` names the
providers whose `min_delay_s` is not zero.

`JobLedger`: every job is absent, open, held or closed. `Take` makes a new claim
and raises the generation; `Store` records evidence under that generation while
the job is held; `GiveBack` reopens jobs; `Close` ends one for good.
`ImplementsLedger` maps `row` and `wrote` to it.

### Where a component commits more than once

Some handlers read like one operation and are several transactions. The modules
keep them apart, because a crash in between leads to states that only the next
execution repairs.

- `Artifacts`: `finish_artifact` makes an artifact ready (`FinishArtifact`) while its
  job is in progress; `finish_attempt` ends the job later (`FinishAttempt`). In
  between the artifact is downloaded, and a lost worker leads to another execution
  that finds it ready (`Finalized` in `StartArtifact`).
- `OpponentCrawl`: a month is fetched and its response committed (`Fetch`), its
  normalization is queued (`QueueChild`), the cursor moves (`Checkpoint`), the attempt
  ends (`FinishAcquisition`). `AcquisitionCrash` may follow each; the next execution
  uses the stored payload again and queues the child that is missing. The child may
  run before the cursor has moved.
- `GameNormalization`: `_persist_response` logs an observation (`Observe`), and only
  then is its job queued (`Enqueue`), by that execution or a later one; an execution
  by a worker of another version queues a second job for the same observation. The
  order of observations is thus not the order of the jobs.
- `ArchiveStore`: publication, read-back and registration are steps of their own. The
  operator's part is left open: any cursor, any number of sweeps, and a restart of
  the writers on the target at any moment no write is under way.

## Runs

Three passing runs are about job execution alone (`MCJobExecution`, two workers):

| Run | Instance | Checks |
|---|---|---|
| `job_ownership` | two runs of one provider in two workspaces, two lost sessions, unblock | `OwnerKeepsJob`, `ProviderSerial`, `ImplementsLedger` |
| `active_jobs` | one workspace, cap 1, two providers (one paced), a retry, a lost session, a cancellation | `ActiveLimit` |
| `run_status` | a crawl, its normalization and its expansion, cap 2, two lost sessions | `ExecutingRunIsRunning`, `SettledRunStatus`, `ExpansionAfterParent` |

Five passing runs each put several components side by side. These are **not**
compositions: the components share no state in them. A variable `part`, chosen in
the initial state and never changed, names the one instance that moves; the
variables of the others keep a fixed value. The reachable states are therefore
the disjoint union of the states of the instances, and a property of one
instance, written `part = "x" => X!P`, is checked on exactly the states that
instance has alone. Where components do depend on each other (one worker per
job, one execution per provider) the module that needs the fact says which module
establishes it. The components in brackets are extended rather than instantiated,
so that their theorems and the run speak of the same definitions; they rest in
their initial state while another part moves, and their invariants are checked
in every part.

| Run | Instances | Checks |
|---|---|---|
| `services` | permits for four threads, two sessions [`SessionAdmission`]; two clients of a rolling deployment and two keys [`Submission`]; an export built three times beside two pruners and a download; two exports that do not both fit; two workers of a paced provider whose policy changes twice; one worker with every body limit and retry policy | `SessionsWithinLimit`, `OneRunPerKey`, `AdmittedWithinLimit`, `ReadyIntact`, `DownloadWhole`, `AskedDelayRespected`, `ReservationSettled` |
| `workers` | two incarnations over two process ids [`WorkerProcess`]; turns of two workspaces; a window full of a busy provider's jobs; two runs at the ceilings across a month's end; runs of an older version; operators that change the policy; one job through five revisions, two dispatchers, a crash [`DispatchOutbox`] | `LiveRowKept`, `TerminalIsQuiet`, `ProbeHonest`, `TwoSessionsSuffice`, `TurnsRespected`, `NothingMissed`, `BytesConserved`, `QuotaRespected`, `CurrentHintKept` |
| `collection` | three games with ties on pages of one, two jobs, a fault [`LichessHistory`]; games unfinished when captured; a crawl of a ring of six users, of a graph with two months, and of a streaming provider; two months for two jobs, and one whose body changes back for three | `CoverageProven`, `DoneMeansCollected`, `CrawlWithinBounds`, `FrontierClosed`, `ClosedMonthsCollected` |
| `records` | an upgrade over two parser versions, two interruptions, late captures, and one with a bad payload and a rival job [`DataUpgrade`]; transfer and relocation under two writers and a damaged object [`ArchiveStore`]; two payloads observed three times by a run without bounds, by one with a window and by one with a limit, and twice under two parsers with a crash; accounts through a rename, a reused name and a rematch | `CheckpointHonest`, `ReusePreserved`, `EvidenceReadable`, `AcquiredIsCurrent`, `EvidenceOnItsAccount`, `NoWaitCycle` |
| `progress` | two writers and two publishers of one resource, lost sessions, failures, a discard [`EventOutbox`]; three threads for one session; hints behind windows of one; two games of one millisecond, collected and fetched again; a capture and its normalization with two workers and cap 1, once with two lost sessions and once with a retry | `RevisionsInOrder`, `EventsDelivered`, `WaitEnds`, `HintPublished`, `CollectionEnds`, `EveryJobSettles` |

Four runs end in a violation, where the code and a text of the repository
disagree (`findings` quotes both).

- `early_done`. `refresh_run_status` counts the states of the jobs, then asks in a
  second statement whether a pending job is ready. A claim that commits between
  the two makes the job pending for the first and not for the second, so the run
  is published as `done` while its job is in progress. The claimer's own refresh
  repairs it: `ExecutingRunIsRunning` holds.
- `cancelled_orphan`. Recovery leaves jobs of cancelled runs alone. An orphan of a
  cancelled run stays `in_progress` and counts towards its workspace's active jobs,
  so with a cap of one no other job of the workspace is claimed again.
- `history_ahead`. A Lichess collection whose `until` lies ahead of the clock
  records its window as covered; games created later inside it are never requested.
- `body_returns`. `normalize_games_payload` passes over a game that the window of the
  observing run leaves out, or that its spent allowance does not admit, before it
  refreshes anything (`normalize/games.py:90`, `94-102`). When a body is observed,
  then another, then the first again by a run with such a window, all jobs are done
  and the game keeps the facts and the revision of the body in between, against
  "including a previously seen body returning later" (`docs/game-evidence.md:45-46`).
  `AcquiredIsCurrent`, in `records`, is what the code does give: the body observed
  last rules if the run that observed it holds the game and its window includes it.

Bounds. Two actors of a kind are enough for each pairwise race (owner and
recoverer, two claimers, two finishers, two publishers, closer and closer); three
or four where a third party matters (a barging thread, a third account
transaction). Faults are bounded by one to three per behaviour: two lost sessions
make an owner die and then its successor. `MaxClaims` bounds how often a job yields
or waits for its operator. Revisions, observations and rows are bounded at the
smallest number where a value can go away and come back (A, B, A). The theorems
below remove the bounds for what they state.

Symmetry is used for safety only. `active_jobs` and `run_status` use a view
without `wrote`, which no guard reads and which only `ImplementsLedger`
mentions. Deadlock is checked in the job runs, where a worker always has a step;
the five others allow it, because a bounded instance ends when its jobs, calls
and faults are used up.

Fairness. Job execution (`Fairness` of `JobExecution`): workers are supervised
processes that loop, handlers return, time passes, so `Loop`, `RetryDue` and
`CooldownOver` are weakly fair. `BeginRefresh` and `Finish` are strongly fair: they
wait for the job's row, which the recovery pass of idle workers locks for a moment
again and again, and PostgreSQL queues those who wait for a row lock. In
`progress` the jobs have the same fairness, with `BeginRefresh` and `Finish` of a worker
under one strong condition (which assumes less, and halves the work of TLC). For
the other parts all is weak: some publisher and dispatcher runs and is restarted,
transactions and executions end, native calls return, waits time out, deadlines
come due, a pending collection is claimed. Nothing is assumed of operators,
callers, cancellations or faults.

## Proofs

All theorems hold for every value of the constants that satisfies the named
assumptions of the module (finite sets of workers, jobs or threads, tables of the
right type, markers such as `None` distinct from what they mark). The assumptions
are `ASSUME`s that TLC evaluates in the runs. Nothing bounds how many jobs, rows,
hints, runs or answers there are, except the `Max...` constants, which a theorem
leaves open.

Facts of the library that a proof needs (a bijection numbers a finite set, a
subset has no more members, a set of numbers has a least member) are hypotheses
of its lemmas (`JobsCounted`, `RunsOrdered`, `Numbers`, `Ordered`, `Counted`). Each
is proved at the end of its module from `FiniteSetTheorems` or
`WellFoundedInduction`, and the theorems are stated after that, without
hypotheses.

| Module | Theorem | Statement |
|---|---|---|
| `JobExecutionProofs` | `TypeCorrect` | `Spec => []TypeOK` |
| | `LiveOwnerKeepsJob` | `Spec => []OwnerKeepsJob` |
| | `OneAcquisitionPerProvider` | `Spec => []ProviderSerial` |
| | `WorkersImplementLedger` | `Spec => ImplementsLedger` |
| | `LimitOfActiveJobs` | `Spec => []ActiveLimit` |
| | `ParentBeforeExpansion` | `Spec => []ExpansionAfterParent` |
| | `RunReadsRunning` | `Spec => []ExecutingRunIsRunning` |
| | `RunReadsSettled` | `Spec => []SettledRunStatus` |
| `EventOutboxProofs` | `HubHearsInOrder` | `Spec => []RevisionsInOrder` |
| | `NothingLostOrInvented` | `Spec => []DeliveredWasAccepted` |
| `LichessHistoryProofs` | `ProvenRanges` | `Spec /\ []PastWindows => []CoverageProven` |
| | `CompleteIsCollected` | `Spec /\ []PastWindows => []DoneMeansCollected` |
| | `OpenEndedHistory` | `OpenEnded` implies `Spec => [](CoverageProven /\ DoneMeansCollected)` |
| `SessionAdmissionProofs` | `PermitsAreConserved`, `LimitHolds`, `NoWakeupIsLost` | `Spec => []PermitsConserved`, `[]SessionsWithinLimit`, `[]NoLostWakeup` |
| `WorkersProofs` | `RowKept`, `LastWord`, `HonestProbe`, `PermitForHeartbeat` | `LiveRowKept`, `TerminalIsQuiet`, `ProbeHonest`, `TwoSessionsSuffice` always hold |
| | `HintNeverLost` | `DispatchSpec => []CurrentHintKept` |
| `SubmissionProofs` | `KeyNamesOneRun` | `SubmissionSpec => []OneRunPerKey` |
| | `LimitOfRuns` | `SubmissionSpec => AdmittedWithinLimit` |
| `ArchiveStoreProofs` | `LastCopyKept` | `ArchiveSpec => []EvidenceReadable` |
| `DataUpgradeProofs` | `OnlyItsParsers`, `HonestCheckpoint`, `RowIsItsJobs` | `ParserPinned`, `CheckpointHonest` (of the payloads stored when the upgrade began), `ReusePreserved` |

None of these properties is inductive. What each strengthening adds, and why:

- **Ownership** (`IInv` of `JobExecutionProofs`). `OwnerKeepsJob` says nothing of a
  claim that is not committed, nor of rows a recovery has picked and not yet
  reset. `IInv` adds per process (`Owns`): a claim in progress holds the locks of
  its job and row, which is still pending or blocked, and its token is the next
  generation; the jobs a recovery has picked are locked by it, in progress, and
  have no live owner; a process that refreshes or finishes has its job's row and
  lock; and the token of a job in progress is the one of its newest claim, which
  makes a stale token detectable. Each action re-establishes `Owns` for its own
  process and disturbs no other (`RespectedOwns`). The refinement needs it for two
  steps: a fenced write stores under the newest generation, and a recovery
  reopens only jobs that are held.
- **Admission** (`AdmissionInv`). A claim counts active jobs in one statement and
  becomes active in another. The invariant says that a claim in flight holds the
  gate, that its workspace is still below the cap, and that the parent of an
  expansion it has chosen has ended. Only a claim makes a job active, and the gate
  admits one at a time; a terminal job stays terminal (`RowChange`).
- **Run status** (`StatusInv`). A refresh counts in one statement, asks in another
  and publishes in a third, and reads no snapshot of one moment. While it has a
  status in hand it holds the run's row (`RefreshHolds`), and no job of that run
  can be added or end meanwhile, since both need that row. So what it saw is right
  *if nothing is left to do* (`CountFaithful`), which gives the settled status
  although `early_done` shows that a published status need not be true of any
  moment. A worker that executes has refreshed its run after its claim, and
  everyone who counts later sees its job in progress (`RunningKept`).
- **Events** (`EInv`). Order at the hub needs order in the table: an open event
  belongs to the one transaction that has its resource's row, so revisions rise
  with ids even if transactions roll back (`WriterInv`, `OrderInv`). Every post
  under way, also one whose session has died, is of an event all of whose
  predecessors the hub has (`PublisherInv`), because the publisher reads the oldest
  pending event under the lock. `HubInv` is the property, with its prefix closed.
- **History** (`HInv`). A stored page shows *all* games of its window, or its limit
  of the newest (`Shows`); ranges and the watermark rest on pages (`StoredInv`); a
  backfill has fetched everything above its cursor itself (`Walked`), and an
  execution works on the window of its checkpoint (`RunInv`). `Shows` is stable
  only if no game can still be created inside the window, which is the
  hypothesis `PastWindows`: no checkpoint's upper end lies past the provider's
  clock. It is needed: `history_ahead` refutes the property without it. It is
  proved, not assumed, for jobs without an `until` (`OpenEndedHistory`).
- **Sessions** (`IInv`, `WInv`). A permit is out exactly while a thread connects or
  has its connection open, and one of two closers returns it. For wakeups, a
  thread whose wait has timed out may still be in the deque and take a
  notification that does it no good. `WInv` therefore counts only the threads that
  are up *and* out of the deque against the free permits.
- **Worker process** (`IInv`). Which phases of the two threads go together, the
  permits each holds, and that rows of later incarnations are absent.
- **Upgrades** (`IInv`). An execution past `start_upgrade` owns the row under its
  own parsers; a batch leaves out only payloads above all it contains, and only
  when it is full.
- **Hints** (`DInv` of `WorkersProofs`). `CurrentHintKept` speaks of hints that are
  current. A dispatcher decides in one statement which hints it will retire, sends,
  and commits later, while the job may have moved on; so the invariant says that
  what it decided stays right (`PublisherSound`): a revision never comes back, and a
  hint that is not current never becomes so. A hint counts as delivered only once
  it was sent, and is retired or pruned only if it was sent or is not current
  (`HintSound`), and a job that waits has the hint the trigger wrote for its revision
  (`Hinted`).
- **Submissions** (`SInv`). Answers are compared through the record of their key:
  every answer that gives a run repeats the record (`AnswerKept`), and the record is
  of a run made for its request (`KeyStored`). The record never changes because
  the key's lock has one holder, and the key stays unused from its look-up to its
  commit (`KeyHeld`). The limit needs that between the count and the commit nobody
  else adds a run to the workspace or lowers its limit (`QuotaOf`).
- **Archive** (`AInv`). A row's bytes are safe because whoever will refer to an
  object has read it back, and knows if it was damaged since (`Published`); a
  relocation copies the bytes of the row it will change, and a transfer those of
  the object it will replace (`RelSound`, `TrnSound`), though rows are inserted and
  moved by others between the two.

TLC finds each of these invariants true on small instances like those of the runs.

## Only model-checked

- Liveness under fairness (`EveryJobSettles`, `EventsDelivered`, `WaitEnds`,
  `HintPublished`, `CollectionEnds`): the prover does not handle it.
- `FrontierClosed` speaks of depths along paths, and folds over the opponents,
  `BytesConserved` and `QuotaRespected` sum over reservations, and
  `ClosedMonthsCollected` rests on months listed in order, whose list exists by
  induction on their number: all need induction over data.
- `AskedDelayRespected` rests on backoff delays, powers of two that the provers
  cannot type.
- `ReservationSettled`, `ReadyIntact`, `DownloadWhole`, `TurnsRespected`, `NothingMissed`,
  `CrawlWithinBounds`, `AcquiredIsCurrent`, `EvidenceOnItsAccount` and `NoWaitCycle` are
  within reach of the method used here and have not been proved.

## Observations

Reading the code for these models showed four further places where it differs
from a text. No run is kept for them, and the properties above are stated so that
they hold beside them.

- `storage/events.py:113` says that the publisher's session lock "prevents deleting
  a notification in flight". The lock is free once the session dies, while the
  post may still arrive (`LatePost` after a discard in `EventOutbox`).
- `providers/http.py:154`: a response cut off by its byte budget, its deadline or
  its encoding raises before the provider's deadline is persisted, so another
  worker need not wait. `docs/aws-deployment.md:324` speaks of provider-wide pacing;
  `AskedDelayRespected` is about completed responses.
- `jobs/collection.py:188`: a full job replays stored pages up to a mark taken when
  it starts. Pages another job stores later count as covered, so its run is not
  associated with their games (`docs/collection.md:93-94`, `102-103`).
  `DoneMeansCollected` is about what is captured, by whichever job.
- `jobs/collection.py:148`: a month fetched while open, by a job that resumes after
  the month's end, is recorded as sealed (`docs/collection.md:54`, `57`). Later jobs
  judge by when the payload was observed, which `ClosedMonthsCollected` relies on.
## Not modelled

`components` in `PROJECT.json` lists every part with its status. Left out: parsing
and formatting of provider payloads, profiles and exported rows (data
conversion); request validation field by field; provider resources; read-only
queries, metrics, cost reports and archive views; authentication; saved working
sets (single statements); migrations (one transaction under one lock), role
bootstrap, deployment and configuration. The legacy exclusive executor lock and
`update_job_params` have no concurrent caller.
