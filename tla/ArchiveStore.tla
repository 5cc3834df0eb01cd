---------------------------- MODULE ArchiveStore ----------------------------
(***************************************************************************)
(* Where source bytes live (storage/raw.py, archives.py,                   *)
(* archive_transfer.py, object_store.py).  A raw row holds its body inline *)
(* or points at an immutable object; imports always point at one.  Object  *)
(* writes cannot join a database transaction: every writer publishes,      *)
(* reads back, and only then registers the reference.  An operator moves   *)
(* inline bodies out (relocation) and objects between stores (transfer)    *)
(* while writers run.  Objects are addressed by their bytes, so two        *)
(* sources with one body share an object.  Objects may be damaged or lost  *)
(* outside the program at any time.                                         *)
(***************************************************************************)
EXTENDS Integers, FiniteSets, Sequences, FiniteSetsExt, TLC

CONSTANTS
  Writer, Source, BodyOf,  \* sources and their bytes
  Place, Target,           \* object stores, and the one a transfer fills
  FirstBackend,            \* where new sources go at first: Inline or a place
  BatchSize,
  MaxRows, MaxDamage       \* bounds

Inline == "inline"
Rel == "relocation"
Trn == "transfer"

\* What the settings guarantee; the two operator commands are no writers.
ASSUME ArchiveAssumption ==
  /\ Target \in Place /\ Inline \notin Place /\ BatchSize \in Nat \ {0}
  /\ FirstBackend \in Place \cup {Inline} /\ Writer \cap {Rel, Trn} = {}

VARIABLES
  rows,      \* raw_payloads and archive_imports, in id order
  reg,       \* archive_objects, in id order
  objs,      \* the bytes in the stores
  backend,   \* CHESS_CRAWL_ARCHIVE_BACKEND of the writers
  proc,      \* writers, the relocation and the transfer
  damage,
  harm       \* rows whose object was damaged after it was read back for them

archiveVars == <<rows, reg, objs, backend, proc, damage, harm>>

Proc == Writer \cup {Rel, Trn}
Body == {BodyOf[s] : s \in Source}
Idle == [pc |-> "idle"]

First(S) == {x \in S : Cardinality({y \in S : y < x}) < BatchSize}
At(i) == <<rows[i].at, BodyOf[rows[i].src]>>
HasRaw(s) == \E i \in DOMAIN rows : rows[i].kind = "raw" /\ rows[i].src = s
Inlined == {i \in DOMAIN rows : rows[i].at = Inline}

(* read_archive_object and read_raw_payload: the right bytes or an error. *)
ReadObject(o) == objs[o] = "good"
ReadRow(i) == rows[i].at = Inline \/ ReadObject(At(i))

(* A conditional write finds nothing, or the same bytes. *)
MayPut(o) == objs[o] # "damaged"

Referenced(o) == \E i \in DOMAIN rows : At(i) = o

(* register_archive_object: unique per store and key. *)
Register(o) == reg' = IF \E i \in DOMAIN reg : reg[i] = o THEN reg ELSE Append(reg, o)

ArchiveInit ==
  /\ rows = <<>> /\ reg = <<>> /\ objs = [o \in Place \X Body |-> "absent"]
  /\ backend = FirstBackend /\ proc = [p \in Proc |-> Idle]
  /\ damage = 0 /\ harm = {}

-----------------------------------------------------------------------------
Pending == {w \in Writer : proc[w] # Idle}

(* prepare_raw_payload and store_import_backup: a known source needs no    *)
(* object; an import needs a store.                                         *)
Prepare(w, k, s) ==
  /\ proc[w] = Idle /\ Len(rows) + Cardinality(Pending) < MaxRows
  /\ k = "raw" => ~HasRaw(s)
  /\ k = "import" => backend # Inline
  /\ proc' = [proc EXCEPT ![w] =
       [pc |-> IF backend = Inline THEN "commit" ELSE "put",
        kind |-> k, src |-> s, at |-> backend, hurt |-> FALSE]]
  /\ UNCHANGED <<rows, reg, objs, backend, damage, harm>>

Object(p) == <<proc[p].at, BodyOf[proc[p].src]>>

(* A failed step raises: a writer or a batch is given up. *)
GiveUp(p) == proc' = [proc EXCEPT ![p] = Idle]

(* ObjectStore.put never replaces: an existing object must be the same.    *)
Put(p) ==
  /\ proc[p].pc = "put"
  /\ LET o == Object(p)
     IN IF ~MayPut(o) THEN GiveUp(p) /\ UNCHANGED objs
        ELSE /\ objs' = [objs EXCEPT ![o] = "good"]
             /\ proc' = [proc EXCEPT ![p].pc = "check"]
  /\ UNCHANGED <<rows, reg, backend, damage, harm>>

(* Mutant: publication is not read back. *)
CheckBlind(p) ==
  /\ proc[p].pc = "check" /\ proc' = [proc EXCEPT ![p].pc = "commit"]
  /\ UNCHANGED <<rows, reg, objs, backend, damage, harm>>

(* _prepare_archive_object and _prepare_transfer: read back and compare. *)
Check(p) ==
  /\ proc[p].pc = "check"
  /\ IF objs[Object(p)] = "good" THEN proc' = [proc EXCEPT ![p].pc = "commit"] ELSE GiveUp(p)
  /\ UNCHANGED <<rows, reg, objs, backend, damage, harm>>

Insert(w) ==
  LET r == proc[w]
  IN /\ rows' = Append(rows, [kind |-> r.kind, src |-> r.src, at |-> r.at])
     /\ IF r.at = Inline THEN UNCHANGED reg ELSE Register(Object(w))
     /\ harm' = IF r.hurt THEN harm \cup {Len(rows) + 1} ELSE harm

(* _store_raw_payload, under the source's lock. *)
StoreRaw(w) ==
  /\ w \in Writer /\ proc[w].pc = "commit" /\ proc[w].kind = "raw"
  /\ IF HasRaw(proc[w].src) THEN UNCHANGED <<rows, reg, harm>> ELSE Insert(w)
  /\ proc' = [proc EXCEPT ![w] = Idle]
  /\ UNCHANGED <<objs, backend, damage>>

(* _register_import: every import is an observation of its own. *)
StoreImport(w) ==
  /\ w \in Writer /\ proc[w].pc = "commit" /\ proc[w].kind = "import"
  /\ Insert(w) /\ proc' = [proc EXCEPT ![w] = Idle]
  /\ UNCHANGED <<objs, backend, damage>>

-----------------------------------------------------------------------------
(* relocate_raw_payloads: a batch of inline rows. *)
RelocateBatch ==
  /\ proc[Rel] = Idle /\ Inlined # {}
  /\ proc' = [proc EXCEPT ![Rel] = [pc |-> "next", todo |-> First(Inlined)]]
  /\ UNCHANGED <<rows, reg, objs, backend, damage, harm>>

RelocateNext ==
  /\ proc[Rel].pc = "next"
  /\ LET r == proc[Rel]
         i == Min(r.todo)
     IN proc' = [proc EXCEPT ![Rel] =
          IF r.todo = {} THEN Idle
          ELSE IF rows[i].at # Inline THEN [r EXCEPT !.todo = @ \ {i}]
          ELSE [pc |-> "put", todo |-> r.todo, row |-> i, src |-> rows[i].src,
                at |-> Target, hurt |-> FALSE]]
  /\ UNCHANGED <<rows, reg, objs, backend, damage, harm>>

(* _register_relocated_payload: the inline bytes go only here. *)
RelocateCommit ==
  /\ proc[Rel].pc = "commit"
  /\ LET r == proc[Rel]
     IN /\ IF rows[r.row].at # Inline THEN UNCHANGED <<rows, reg, harm>>
           ELSE /\ rows' = [rows EXCEPT ![r.row].at = Target]
                /\ Register(Object(Rel))
                /\ harm' = IF r.hurt THEN harm \cup {r.row} ELSE harm
        /\ proc' = [proc EXCEPT ![Rel] = [pc |-> "next", todo |-> r.todo \ {r.row}]]
  /\ UNCHANGED <<objs, backend, damage>>

-----------------------------------------------------------------------------
Foreign(after) ==
  {i \in DOMAIN reg : i > after /\ reg[i][1] # Target /\ Referenced(reg[i])}

(* transfer_archive_objects: one batch from the cursor of the operator,    *)
(* who may go on from the last batch or start again, while writers run.    *)
TransferStart ==
  /\ proc[Trn] = Idle
  /\ \E after \in 0..Len(reg) :
       proc' = [proc EXCEPT ![Trn] = [pc |-> "tnext", todo |-> First(Foreign(after))]]
  /\ UNCHANGED <<rows, reg, objs, backend, damage, harm>>

TransferNext ==
  /\ proc[Trn].pc = "tnext" /\ proc[Trn].todo # {}
  /\ LET r == proc[Trn]
         i == Min(r.todo)
     IN IF ~ReadObject(reg[i]) THEN GiveUp(Trn)
        ELSE proc' = [proc EXCEPT ![Trn] = [pc |-> "put", from |-> i,
               src |-> CHOOSE s \in Source : BodyOf[s] = reg[i][2],
               at |-> Target, hurt |-> FALSE, todo |-> r.todo \ {i}]]
  /\ UNCHANGED <<rows, reg, objs, backend, damage, harm>>

(* _register_transfer: under the source row's lock every reference to it,  *)
(* those made during the copy included, moves at once.                     *)
TransferCommit ==
  /\ proc[Trn].pc = "commit"
  /\ LET r == proc[Trn]
         here == {i \in DOMAIN rows : At(i) = reg[r.from]}
         move == Referenced(reg[r.from])
     IN /\ IF move THEN Register(Object(Trn)) ELSE UNCHANGED reg
        /\ rows' = [i \in DOMAIN rows |-> IF move /\ i \in here
                                          THEN [rows[i] EXCEPT !.at = Target] ELSE rows[i]]
        /\ harm' = IF r.hurt THEN harm \cup here ELSE harm \ here
        /\ proc' = [proc EXCEPT ![Trn] = [pc |-> "tnext", todo |-> r.todo]]
  /\ UNCHANGED <<objs, backend, damage>>

TransferEnds ==
  /\ proc[Trn].pc = "tnext" /\ proc[Trn].todo = {} /\ GiveUp(Trn)
  /\ UNCHANGED <<rows, reg, objs, backend, damage, harm>>

-----------------------------------------------------------------------------
(* The operator restarts the writers on the target.  The documented order, *)
(* a last sweep from zero while no writer runs, is not imposed: it decides *)
(* when the old store may be dropped, and readability does not need it.    *)
Restart ==
  /\ backend # Target /\ Pending = {} /\ backend' = Target
  /\ UNCHANGED <<rows, reg, objs, proc, damage, harm>>

Crash(p) ==
  /\ proc[p] # Idle /\ GiveUp(p)
  /\ UNCHANGED <<rows, reg, objs, backend, damage, harm>>

(* Bytes are damaged or lost outside the program. *)
Damage(o) ==
  /\ objs[o] = "good" /\ damage < MaxDamage /\ damage' = damage + 1
  /\ \E bad \in {"damaged", "absent"} : objs' = [objs EXCEPT ![o] = bad]
  /\ harm' = harm \cup {i \in DOMAIN rows : At(i) = o}
  /\ proc' = [p \in Proc |-> IF proc[p].pc = "commit" /\ Object(p) = o
                             THEN [proc[p] EXCEPT !.hurt = TRUE] ELSE proc[p]]
  /\ UNCHANGED <<rows, reg, backend>>

Write ==
  \E w \in Writer : \/ \E k \in {"raw", "import"}, s \in Source : Prepare(w, k, s)
                    \/ StoreRaw(w) \/ StoreImport(w)
Publish == \E p \in Proc : Put(p) \/ Check(p)
Relocate == RelocateBatch \/ RelocateNext \/ RelocateCommit
Transfer == TransferStart \/ TransferNext \/ TransferCommit \/ TransferEnds

ArchiveNext ==
  \/ Write \/ Publish \/ Relocate \/ Transfer \/ Restart
  \/ (\E p \in Proc : Crash(p)) \/ \E o \in Place \X Body : Damage(o)

ArchiveSpec == ArchiveInit /\ [][ArchiveNext]_archiveVars

-----------------------------------------------------------------------------
(* Types, and the schema: objects are unique per store and key, and every  *)
(* external reference is registered.                                        *)
ArchiveTypes ==
  /\ backend \in Place \cup {Inline} /\ damage \in 0..MaxDamage
  /\ objs \in [Place \X Body -> {"absent", "good", "damaged"}]
  /\ \A i, j \in DOMAIN reg : reg[i] = reg[j] => i = j
  /\ \A i \in DOMAIN rows :
       rows[i].at # Inline => \E k \in DOMAIN reg : reg[k] = At(i)

(* "rollback may leave a reusable orphan, never a dangling FK": the bytes  *)
(* of every row can be read, inline or from the store, unless its object   *)
(* was damaged after it was last read back for that row.  No relocation,   *)
(* transfer, reuse or crash releases the last good copy.                    *)
EvidenceReadable ==
  \A i \in DOMAIN rows : i \notin harm => ReadRow(i)

=============================================================================
