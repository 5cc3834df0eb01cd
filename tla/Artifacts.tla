------------------------------- MODULE Artifacts -------------------------------
(***************************************************************************)
(* Export artifacts of one workspace: the quota reserved at admission, the *)
(* worker that clears an earlier attempt's parts, renders, uploads and     *)
(* finalizes (jobs/internal.py, storage/artifacts.py), downloads under a   *)
(* lease (api/artifact_downloads.py), and retention.  Objects live in a    *)
(* store outside the database: putting and deleting them is not part of    *)
(* any transaction, and outlives the session that began it.                *)
(*                                                                         *)
(* The unit of size is one chunk.  An object is named by its job, its      *)
(* attempt and its content, which the ordinal stands for.  A process acts  *)
(* only while its session lives; once lost, only its object I/O remains.   *)
(***************************************************************************)
EXTENDS Naturals, FiniteSets, FiniteSetsExt

CONSTANTS
  Job, Worker, Pruner, Download,
  MaxCount,     \* artifact_max_count
  MaxBytes,     \* artifact_max_bytes
  ExportBytes,  \* async_export_max_bytes
  Slots,        \* concurrent downloads
  MaxAttempts,  \* bound: ownership_generation of a job
  MaxCrashes,   \* bound: sessions lost in one behaviour
  None

\* What the settings and the instances guarantee.
SettingsAssumption == ExportBytes \in 1 .. MaxBytes /\ MaxCount \in Nat \ {0}

VARIABLES
  job,     \* discovery_jobs: state and generation of each export's job
  art,     \* archive_artifacts: state, reserved_bytes, manifest; and whether expires_at passed
  part,    \* artifact_chunks: the objects each artifact refers to
  store,   \* the object store
  worker, pruner,
  down,    \* downloads: the process side
  lease,   \* artifact_downloads: the download's lease row
  late,    \* deletes that outlived their process
  crashes

vars == <<job, art, part, store, worker, pruner, down, lease, late, crashes>>

Object == [job : Job, attempt : 1 .. MaxAttempts, ordinal : 1 .. ExportBytes]
Idle == [pc |-> "idle", job |-> None, left |-> {}, size |-> 0]
Outcome == {"done", "error", "pending"}   \* what the execution of a job returns

(* Types, and CHECK(reserved_bytes > 0).                                   *)
TypeOK ==
  /\ job \in [Job -> [state : {"absent", "pending", "in_progress", "done", "error"}, gen : 0 .. MaxAttempts]]
  /\ art \in [Job -> [state : {"absent", "pending", "building", "ready", "pruning", "expired"},
                      reserved : 0 .. ExportBytes, manifest : 0 .. ExportBytes, old : BOOLEAN]]
  /\ \A j \in Job : art[j].state # "absent" => art[j].reserved > 0
  /\ part \in [Job -> SUBSET Object] /\ store \subseteq Object /\ late \subseteq Object
  /\ worker \in [Worker -> [pc : {"idle", "start", "clear", "delete", "drop", "put", "add"} \cup Outcome,
                            job : Job \cup {None}, left : SUBSET Object, size : 0 .. ExportBytes]]
  /\ pruner \in [Pruner -> [pc : {"idle", "clear", "delete", "drop"}, job : Job \cup {None},
                            left : SUBSET Object, size : {0}]]
  /\ down \in [Download -> [pc : {"new", "open", "reading", "complete", "failed"}, job : Job \cup {None},
                            got : 0 .. ExportBytes, attempt : 0 .. MaxAttempts, over : BOOLEAN]]
  /\ lease \in [Download -> BOOLEAN]
  /\ crashes \in 0 .. MaxCrashes

-----------------------------------------------------------------------------
Retained == {j \in Job : art[j].state \notin {"absent", "expired"}}
Total(reserved) == MapThenSumSet(LAMBDA j : reserved[j], Retained)

(* reserve_artifact, under the lock "artifact-workspace".                  *)
Fits == /\ Cardinality(Retained) + 1 <= MaxCount
        /\ Total([j \in Job |-> art[j].reserved]) + ExportBytes <= MaxBytes

(* submit_archive_job(prepare_export): run, job, request and reservation.  *)
Submit(j) ==
  /\ job[j].state = "absent" /\ Fits
  /\ job' = [job EXCEPT ![j].state = "pending"]
  /\ art' = [art EXCEPT ![j] = [state |-> "pending", reserved |-> ExportBytes, manifest |-> 0, old |-> FALSE]]
  /\ UNCHANGED <<part, store, worker, pruner, down, lease, late, crashes>>

-----------------------------------------------------------------------------
(* The claim of the job by a worker.                                       *)
Claim(w, j) ==
  /\ worker[w].pc = "idle" /\ job[j].state = "pending" /\ job[j].gen < MaxAttempts
  /\ job' = [job EXCEPT ![j] = [state |-> "in_progress", gen |-> @.gen + 1]]
  /\ worker' = [worker EXCEPT ![w] = [Idle EXCEPT !.pc = "start", !.job = j]]
  /\ UNCHANGED <<art, part, store, pruner, down, lease, late, crashes>>

(* _prepare_export returns; the job stays in progress until its attempt is *)
(* finished, in another transaction.                                       *)
Return(w, outcome) == worker' = [worker EXCEPT ![w] = [Idle EXCEPT !.pc = outcome, !.job = worker[w].job]]

EndAs(w, state) ==
  /\ job' = [job EXCEPT ![worker[w].job].state = state]
  /\ worker' = [worker EXCEPT ![w] = Idle]

(* Mutant of Finalized: every execution builds the artifact.               *)
NeverFinalized(j) == FALSE
(* The artifact that _prepare_export finds.                                *)
Finalized(j) == art[j].state = "ready"

(* _prepare_export up to start_artifact: a ready artifact is done, an      *)
(* expired one an error.  It is ready already when the worker that built   *)
(* it was lost before it finished the attempt.                             *)
StartArtifact(w) ==
  LET j == worker[w].job
  IN
  /\ worker[w].pc = "start"
  /\ IF Finalized(j) THEN Return(w, "done") /\ UNCHANGED art
     ELSE IF art[j].state \in {"pruning", "expired"} \/ art[j].old THEN Return(w, "error") /\ UNCHANGED art
     ELSE /\ art' = [art EXCEPT ![j].state = "building"]
          /\ worker' = [worker EXCEPT ![w].pc = "clear", ![w].left = part[j]]
  /\ UNCHANGED <<job, part, store, pruner, down, lease, late, crashes>>

(* _authorize_chunk_deletion.                                              *)
MayDelete(j) == art[j].state \in {"building", "pruning"}

(* guard_artifact_chunks, the trigger on artifact_chunks.                  *)
ChunksMutable(j) == art[j].state \in {"building", "pruning"}

Row(p) == CHOOSE o \in p.left : \A q \in p.left : o.ordinal <= q.ordinal

(* delete_artifact_parts, row by row: authorize, delete the object outside *)
(* any transaction, then _remove_chunk_reference (a row that is gone       *)
(* already does not wake the trigger guard_artifact_chunks).               *)
Authorize(p) == p.pc = "clear" /\ p.left # {} /\ MayDelete(p.job)
DeleteObject(p) == p.pc = "delete" /\ store' = store \ {Row(p)}
RemoveReference(p) ==
  /\ p.pc = "drop" /\ (Row(p) \in part[p.job] => ChunksMutable(p.job))
  /\ part' = [part EXCEPT ![p.job] = @ \ {Row(p)}]

(* The worker clears what an earlier attempt left behind.                  *)
ClearPart(w) ==
  /\ \/ /\ Authorize(worker[w])
        /\ worker' = [worker EXCEPT ![w].pc = "delete"]
        /\ UNCHANGED <<part, store>>
     \/ /\ DeleteObject(worker[w])
        /\ worker' = [worker EXCEPT ![w].pc = "drop"]
        /\ UNCHANGED part
     \/ /\ RemoveReference(worker[w])
        /\ worker' = [worker EXCEPT ![w].pc = "clear", ![w].left = @ \ {Row(worker[w])}]
        /\ UNCHANGED store
  /\ UNCHANGED <<job, art, pruner, down, lease, late, crashes>>

(* write_export_snapshot: the rendered size, within the bounds, or an      *)
(* error.                                                                  *)
Render(w) ==
  /\ worker[w].pc = "clear" /\ part[worker[w].job] = {}
  /\ \/ \E n \in 0 .. ExportBytes : worker' = [worker EXCEPT ![w].pc = "put", ![w].size = n, ![w].left = {}]
     \/ Return(w, "error")
  /\ UNCHANGED <<job, art, part, store, pruner, down, lease, late, crashes>>

(* Mutant of PartOf: the key does not name the attempt.                    *)
PartOfJob(j, n) == [job |-> j, attempt |-> 1, ordinal |-> n]

(* The object a chunk is stored as: artifact_prefix, attempt, content.     *)
PartOf(j, n) == [job |-> j, attempt |-> job[j].gen, ordinal |-> n]

NextPart(w) == PartOf(worker[w].job, Cardinality(part[worker[w].job]) + 1)

(* prepare_archive_object, before the reference is committed.              *)
PutObject(w) ==
  /\ worker[w].pc = "put" /\ Cardinality(part[worker[w].job]) < worker[w].size
  /\ store' = store \cup {NextPart(w)}
  /\ worker' = [worker EXCEPT ![w].pc = "add"]
  /\ UNCHANGED <<job, art, part, pruner, down, lease, late, crashes>>

(* add_artifact_chunk; an artifact that expired meanwhile refuses it.      *)
AddChunk(w) ==
  LET j == worker[w].job
  IN
  /\ worker[w].pc = "add"
  /\ IF art[j].state # "building" \/ art[j].old \/ Cardinality(part[j]) + 1 > art[j].reserved
       THEN Return(w, "error") /\ UNCHANGED part
       ELSE /\ part' = [part EXCEPT ![j] = @ \cup {NextPart(w)}]
            /\ worker' = [worker EXCEPT ![w].pc = "put"]
  /\ UNCHANGED <<job, art, store, pruner, down, lease, late, crashes>>

(* What stays reserved for a finished artifact, positive by the schema.    *)
KeptBytes(n) == Max({1, n})

(* finish_artifact: the artifact is ready while its job is in progress.    *)
FinishArtifact(w) ==
  LET j == worker[w].job
  IN
  /\ worker[w].pc = "put" /\ Cardinality(part[j]) = worker[w].size
  /\ IF art[j].state # "building" \/ art[j].old
       THEN Return(w, "error") /\ UNCHANGED art
       ELSE /\ art' = [art EXCEPT ![j].state = "ready", ![j].manifest = worker[w].size,
                                  ![j].reserved = KeptBytes(worker[w].size)]
            /\ Return(w, "done")
  /\ UNCHANGED <<job, part, store, pruner, down, lease, late, crashes>>

(* _check_stop, or a store that fails for a while: the job is taken up     *)
(* again later, and the parts stay.                                        *)
Stop(w) ==
  /\ worker[w].pc \in {"start", "clear", "put"} /\ Return(w, "pending")
  /\ worker[w].pc = "start" => ~Finalized(worker[w].job)
  /\ UNCHANGED <<job, art, part, store, pruner, down, lease, late, crashes>>

(* finish_attempt, after the execution returned: the end of the job.       *)
FinishAttempt(w) ==
  /\ worker[w].pc \in Outcome /\ EndAs(w, worker[w].pc)
  /\ UNCHANGED <<art, part, store, pruner, down, lease, late, crashes>>

(* A process loses its session; the delete it had begun may happen later.  *)
(* A job whose worker is lost is recovered for another attempt.            *)
LoseSession(p) == late' = IF p.pc = "delete" THEN late \cup {Row(p)} ELSE late

LoseWorker(w) ==
  /\ worker[w].pc # "idle" /\ crashes < MaxCrashes
  /\ crashes' = crashes + 1
  /\ EndAs(w, "pending") /\ LoseSession(worker[w])
  /\ UNCHANGED <<art, part, store, pruner, down, lease>>

LateDelete(o) ==
  /\ o \in late
  /\ late' = late \ {o}
  /\ store' \in {store, store \ {o}}
  /\ UNCHANGED <<job, art, part, worker, pruner, down, lease, crashes>>

-----------------------------------------------------------------------------
Active(d) == lease[d] /\ ~down[d].over

(* mark_pruning: expired, its job not in progress, no live lease.          *)
Prunable(j) ==
  /\ art[j].state \notin {"absent", "expired"} /\ art[j].old
  /\ job[j].state # "in_progress"
  /\ ~\E d \in Download : Active(d) /\ down[d].job = j

MarkPruning(p, j) ==
  /\ pruner[p].pc = "idle" /\ Prunable(j)
  /\ art' = [art EXCEPT ![j].state = "pruning"]
  /\ pruner' = [pruner EXCEPT ![p] = [Idle EXCEPT !.pc = "clear", !.job = j, !.left = part[j]]]
  /\ UNCHANGED <<job, part, store, worker, down, lease, late, crashes>>

(* prune_artifacts; an artifact that another pruner finished ends it.      *)
PrunePart(p) ==
  /\ \/ /\ Authorize(pruner[p])
        /\ pruner' = [pruner EXCEPT ![p].pc = "delete"]
        /\ UNCHANGED <<part, store>>
     \/ /\ DeleteObject(pruner[p])
        /\ pruner' = [pruner EXCEPT ![p].pc = "drop"]
        /\ UNCHANGED part
     \/ /\ RemoveReference(pruner[p])
        /\ pruner' = [pruner EXCEPT ![p].pc = "clear", ![p].left = @ \ {Row(pruner[p])}]
        /\ UNCHANGED store
     \/ /\ pruner[p].pc = "clear" /\ pruner[p].left # {} /\ ~MayDelete(pruner[p].job)
        /\ pruner' = [pruner EXCEPT ![p] = Idle]
        /\ UNCHANGED <<part, store>>
  /\ UNCHANGED <<job, art, worker, down, lease, late, crashes>>

(* expire_if_empty: the quota is given back with the last part.            *)
ExpireIfEmpty(p) ==
  LET j == pruner[p].job
  IN
  /\ pruner[p].pc = "clear" /\ pruner[p].left = {}
  /\ IF art[j].state # "pruning" \/ part[j] # {} THEN UNCHANGED <<art, lease>>
     ELSE /\ art' = [art EXCEPT ![j].state = "expired", ![j].manifest = 0, ![j].reserved = 1]
          /\ lease' = [d \in Download |-> lease[d] /\ down[d].job # j]
  /\ pruner' = [pruner EXCEPT ![p] = Idle]
  /\ UNCHANGED <<job, part, store, worker, down, late, crashes>>

LosePruner(p) ==
  /\ pruner[p].pc # "idle" /\ crashes < MaxCrashes
  /\ crashes' = crashes + 1
  /\ pruner' = [pruner EXCEPT ![p] = Idle] /\ LoseSession(pruner[p])
  /\ UNCHANGED <<job, art, part, store, worker, down, lease>>

-----------------------------------------------------------------------------
SlotFree(j) == Cardinality({d \in Download : Active(d)}) < Slots

(* acquire_download, under the lock "artifact-workspace": expired leases   *)
(* are removed and a new one ends with the artifact at the latest.         *)
AcquireDownload(d, j) ==
  /\ down[d].pc = "new" /\ art[j].state = "ready" /\ ~art[j].old /\ SlotFree(j)
  /\ lease' = [e \in Download |-> e = d \/ Active(e)]
  /\ down' = [down EXCEPT ![d].pc = "open", ![d].job = j]
  /\ UNCHANGED <<job, art, part, store, worker, pruner, late, crashes>>

(* close and release_download, which may fail to reach the database.       *)
Close(d, pc) ==
  /\ down' = [down EXCEPT ![d].pc = pc]
  /\ lease' \in {lease, [lease EXCEPT ![d] = FALSE]}

Size(d) == art[down[d].job].manifest

(* _read_next: the reference of the next chunk, in its own session.        *)
ReadPage(d) ==
  LET next == {o \in part[down[d].job] : o.ordinal = down[d].got + 1}
  IN
  /\ down[d].pc = "open"
  /\ IF down[d].over THEN Close(d, "failed")
     ELSE IF down[d].got = Size(d) THEN Close(d, IF next = {} THEN "complete" ELSE "failed")
     ELSE IF \E o \in next : down[d].attempt \in {0, o.attempt}
       THEN /\ down' = [down EXCEPT ![d].pc = "reading", ![d].attempt = (CHOOSE o \in next : TRUE).attempt]
            /\ UNCHANGED lease
       ELSE Close(d, "failed")
  /\ UNCHANGED <<job, art, part, store, worker, pruner, late, crashes>>

(* ... then its object, and _check_lifetime once it is read.               *)
ReadObject(d) ==
  LET o == [job |-> down[d].job, attempt |-> down[d].attempt, ordinal |-> down[d].got + 1]
  IN
  /\ down[d].pc = "reading"
  /\ IF o \in store /\ ~down[d].over
       THEN down' = [down EXCEPT ![d].pc = "open", ![d].got = @ + 1] /\ UNCHANGED lease
       ELSE Close(d, "failed")
  /\ UNCHANGED <<job, art, part, store, worker, pruner, late, crashes>>

(* The client goes away.                                                   *)
Abandon(d) ==
  /\ down[d].pc = "open" /\ Close(d, "failed")
  /\ UNCHANGED <<job, art, part, store, worker, pruner, late, crashes>>

(* Time passes: a download's deadline, then the artifact's expiry.         *)
Deadline(d) ==
  /\ down[d].pc \in {"open", "reading", "complete", "failed"} /\ ~down[d].over
  /\ down' = [down EXCEPT ![d].over = TRUE]
  /\ UNCHANGED <<job, art, part, store, worker, pruner, lease, late, crashes>>

Expire(j) ==
  /\ art[j].state # "absent" /\ ~art[j].old
  /\ \A d \in Download : down[d].job = j => down[d].over
  /\ art' = [art EXCEPT ![j].old = TRUE]
  /\ UNCHANGED <<job, part, store, worker, pruner, down, lease, late, crashes>>

-----------------------------------------------------------------------------
Init ==
  /\ job = [j \in Job |-> [state |-> "absent", gen |-> 0]]
  /\ art = [j \in Job |-> [state |-> "absent", reserved |-> 0, manifest |-> 0, old |-> FALSE]]
  /\ part = [j \in Job |-> {}] /\ store = {} /\ late = {}
  /\ worker = [w \in Worker |-> Idle] /\ pruner = [p \in Pruner |-> Idle]
  /\ down = [d \in Download |-> [pc |-> "new", job |-> None, got |-> 0, attempt |-> 0, over |-> FALSE]]
  /\ lease = [d \in Download |-> FALSE]
  /\ crashes = 0

Work(w) == StartArtifact(w) \/ ClearPart(w) \/ Render(w) \/ PutObject(w) \/ AddChunk(w)
             \/ FinishArtifact(w) \/ FinishAttempt(w)
Prune(p) == PrunePart(p) \/ ExpireIfEmpty(p) \/ \E j \in Job : MarkPruning(p, j)

Next ==
  \/ \E j \in Job : Submit(j) \/ Expire(j) \/ \E w \in Worker : Claim(w, j)
  \/ \E w \in Worker : Work(w) \/ Stop(w) \/ LoseWorker(w)
  \/ \E p \in Pruner : Prune(p) \/ LosePruner(p)
  \/ \E d \in Download : ReadPage(d) \/ ReadObject(d) \/ Abandon(d) \/ Deadline(d)
                             \/ \E j \in Job : AcquireDownload(d, j)
  \/ \E o \in late : LateDelete(o)

Spec == Init /\ [][Next]_vars

-----------------------------------------------------------------------------
(* A finished artifact that has not expired is whole: the parts its        *)
(* manifest counts, all of one attempt, each with its object, whatever     *)
(* deletes of earlier attempts are still under way.                        *)
ReadyIntact ==
  \A j \in Job : art[j].state = "ready" /\ ~art[j].old =>
    /\ {o.ordinal : o \in part[j]} = 1 .. art[j].manifest
    /\ Cardinality({o.attempt : o \in part[j]}) <= 1
    /\ part[j] \subseteq store

(* A download that ended as complete delivered every part of the artifact, *)
(* and until its deadline neither retention nor a crash takes a part away. *)
DownloadWhole ==
  \A d \in Download :
       /\ down'[d].pc = "complete" /\ down[d].pc # "complete" => down[d].got = Size(d) /\ art[down[d].job].state = "ready"
       /\ down'[d].pc = "failed" /\ down[d].pc = "reading" => down[d].over

===============================================================================
