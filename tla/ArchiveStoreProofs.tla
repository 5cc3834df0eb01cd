-------------------------- MODULE ArchiveStoreProofs --------------------------
(***************************************************************************)
(* Proofs about ArchiveStore: no relocation, transfer, reuse or crash      *)
(* releases the last good copy of a row's bytes.                           *)
(*                                                                         *)
(* A process that is about to commit has seen its object, or knows that it *)
(* was damaged since; the row or the object it started from still names    *)
(* the same bytes, because rows never change their source and registered   *)
(* objects stay registered.                                                *)
(***************************************************************************)
EXTENDS ArchiveStore, TLAPS

Stage == {"put", "check", "commit"}
RowType == [kind : {"raw", "import"}, src : Source, at : Place \cup {Inline}]
Key == Place \X Body

WriterCall == [pc : Stage, kind : {"raw", "import"}, src : Source, at : Place \cup {Inline}, hurt : BOOLEAN]
RelCall == [pc : Stage, todo : SUBSET Nat, row : Nat, src : Source, at : {Target}, hurt : BOOLEAN]
TrnCall == [pc : Stage, from : Nat, src : Source, at : {Target}, hurt : BOOLEAN, todo : SUBSET Nat]
RelBatch == [pc : {"next"}, todo : SUBSET Nat]
TrnBatch == [pc : {"tnext"}, todo : SUBSET Nat]

(* What a process may be doing.                                            *)
Shape(p) ==
  /\ p \in Writer => proc[p] \in {Idle} \cup WriterCall
  /\ p = Rel => proc[p] \in {Idle} \cup RelBatch \cup RelCall
  /\ p = Trn => proc[p] \in {Idle} \cup TrnBatch \cup TrnCall

(* Only a store is written to; an object about to be referenced was read   *)
(* back and is still good, or the process knows better.                    *)
Published(p) ==
  proc[p].pc \in Stage =>
    /\ proc[p].pc # "commit" => proc[p].at \in Place
    /\ proc[p].pc = "commit" /\ ~proc[p].hurt /\ proc[p].at # Inline => ReadObject(Object(p))

(* A relocation copies the bytes of the row it will change.                *)
RelSound ==
  proc[Rel] # Idle =>
    /\ proc[Rel].todo \subseteq DOMAIN rows
    /\ proc[Rel].pc \in Stage => proc[Rel].row \in DOMAIN rows /\ rows[proc[Rel].row].src = proc[Rel].src

(* A transfer copies the bytes of the object it will replace.              *)
TrnSound ==
  proc[Trn] # Idle =>
    /\ proc[Trn].todo \subseteq DOMAIN reg
    /\ proc[Trn].pc \in Stage => proc[Trn].from \in DOMAIN reg /\ reg[proc[Trn].from][2] = BodyOf[proc[Trn].src]

ProcSound(p) == Shape(p) /\ Published(p) /\ (p = Rel => RelSound) /\ (p = Trn => TrnSound)

RowSound(i) == i \notin harm => ReadRow(i)

Types ==
  /\ rows \in Seq(RowType) /\ reg \in Seq(Key)
  /\ objs \in [Key -> {"absent", "good", "damaged"}]
  /\ backend \in Place \cup {Inline}
  /\ proc = [p \in Proc |-> proc[p]]

AInv ==
  /\ Types
  /\ \A p \in Proc : ProcSound(p)
  /\ \A i \in DOMAIN rows : RowSound(i)

-----------------------------------------------------------------------------
(* Steps, seen from what they leave alone.                                 *)

(* Rows keep their sources, registered objects stay registered.            *)
Kept ==
  /\ DOMAIN rows \subseteq DOMAIN rows' /\ \A i \in DOMAIN rows : rows'[i].src = rows[i].src
  /\ DOMAIN reg \subseteq DOMAIN reg' /\ \A i \in DOMAIN reg : reg'[i] = reg[i]

(* No good object is lost.                                                 *)
NoneLost == \A o \in Key : objs[o] = "good" => objs'[o] = "good"

(* The three commands and writers are told apart, and the stores from the  *)
(* database.                                                               *)
LEMMA Apart ==
  /\ Rel # Trn /\ Rel \notin Writer /\ Trn \notin Writer /\ Rel \in Proc /\ Trn \in Proc
  /\ Target \in Place /\ Target # Inline
  BY ArchiveAssumption DEF Rel, Trn, Proc

(* What a process that publishes is working on.                            *)
LEMMA Working ==
  ASSUME AInv, NEW p \in Proc, proc[p].pc \in Stage
  PROVE  /\ p \in Writer => proc[p] \in WriterCall
         /\ p = Rel => proc[p] \in RelCall
         /\ p = Trn => proc[p] \in TrnCall
         /\ proc[p].src \in Source /\ proc[p].at \in Place \cup {Inline} /\ proc[p].hurt \in BOOLEAN
         /\ proc[p].at # Inline => Object(p) \in Key
<1>1. Shape(p) /\ Published(p)
  BY Zenon DEF AInv, ProcSound
<1>2. proc[p] # Idle /\ proc[p] \notin RelBatch /\ proc[p] \notin TrnBatch
  BY DEF Stage, Idle, RelBatch, TrnBatch
<1>3. /\ p \in Writer => proc[p] \in WriterCall
      /\ p = Rel => proc[p] \in RelCall
      /\ p = Trn => proc[p] \in TrnCall
  BY Zenon, <1>1, <1>2 DEF Shape
<1>4. proc[p].src \in Source /\ proc[p].at \in Place \cup {Inline} /\ proc[p].hurt \in BOOLEAN
  <2>1. CASE p \in Writer
    BY Zenon, <1>3, <2>1 DEF WriterCall
  <2>2. CASE p = Rel
    BY Zenon, <1>3, <2>2, Apart DEF RelCall
  <2>3. CASE p = Trn
    BY Zenon, <1>3, <2>3, Apart DEF TrnCall
  <2> QED
    BY Zenon, <2>1, <2>2, <2>3 DEF Proc
<1>5. proc[p].at # Inline => Object(p) \in Key
  BY Zenon, <1>4 DEF Object, Key, Body
<1> QED
  BY Zenon, <1>3, <1>4, <1>5

(* A process that does not move stays sound.                               *)
LEMMA Bystander ==
  ASSUME AInv, Kept, NoneLost, NEW q \in Proc, proc'[q] = proc[q]
  PROVE  ProcSound(q)'
<1>1. ProcSound(q)
  BY Zenon DEF AInv
<1>2. Shape(q)'
  BY Zenon, <1>1 DEF ProcSound, Shape
<1>3. Published(q)'
  <2>1. Object(q)' = Object(q)
    BY Zenon DEF Object
  <2>2. CASE proc[q].pc \in Stage
    BY Zenon, <1>1, <2>1, <2>2, Working DEF ProcSound, Published, ReadObject, NoneLost
  <2>3. CASE proc[q].pc \notin Stage
    BY Zenon, <2>3 DEF Published
  <2> QED
    BY Zenon, <2>2, <2>3
<1>4. q = Rel => RelSound'
  BY Zenon, <1>1 DEF ProcSound, RelSound, Kept
<1>5. q = Trn => TrnSound'
  BY Zenon, <1>1 DEF ProcSound, TrnSound, Kept
<1> QED
  BY Zenon, <1>2, <1>3, <1>4, <1>5 DEF ProcSound

(* What a step of one process has to show.                                 *)
LEMMA StepKeeps ==
  ASSUME AInv, Kept, NoneLost, Types', NEW c \in Proc, ProcSound(c)',
         \A q \in Proc \ {c} : proc'[q] = proc[q],
         \A i \in DOMAIN rows' : RowSound(i)'
  PROVE  AInv'
  BY Zenon, Bystander DEF AInv

(* Rows stay readable while the step leaves them alone.                    *)
LEMMA RowsUntouched ==
  ASSUME AInv, NoneLost, NEW i \in DOMAIN rows, rows'[i] = rows[i], i \in harm => i \in harm'
  PROVE  RowSound(i)'
<1>1. RowSound(i) /\ At(i)' = At(i)
  BY Zenon DEF AInv, At
<1>2. rows[i].at # Inline => At(i) \in Key
  <2>1. rows[i] \in RowType
    BY DEF AInv, Types
  <2> QED
    BY Zenon, <2>1 DEF RowType, At, Key, Body
<1> QED
  BY Zenon, <1>1, <1>2 DEF RowSound, ReadRow, ReadObject, NoneLost

(* A step that changes neither the rows nor the registry.                  *)
LEMMA QuietKeeps ==
  ASSUME AInv, NoneLost, UNCHANGED <<rows, reg, harm>>, Types', NEW c \in Proc, ProcSound(c)',
         \A q \in Proc \ {c} : proc'[q] = proc[q]
  PROVE  AInv'
<1>1. Kept
  BY Zenon DEF Kept
<1>2. \A i \in DOMAIN rows' : RowSound(i)'
  BY Zenon, RowsUntouched
<1> QED
  BY Zenon, <1>1, <1>2, StepKeeps

(* One process moves on.                                                   *)
LEMMA Moves ==
  ASSUME Types, NEW p \in Proc, NEW r, proc' = [proc EXCEPT ![p] = r]
  PROVE  /\ proc'[p] = r /\ proc' = [q \in Proc |-> proc'[q]]
         /\ \A q \in Proc \ {p} : proc'[q] = proc[q]
  BY Zenon DEF Types

(* A process that has ended, failed or died is sound.                      *)
LEMMA IdleSound ==
  ASSUME NEW p \in Proc, proc'[p] = Idle
  PROVE  ProcSound(p)'
<1>1. Idle.pc \notin Stage
  BY DEF Idle, Stage
<1> QED
  BY Zenon, <1>1 DEF ProcSound, Shape, Published, RelSound, TrnSound

(* What giving up changes.                                                 *)
LEMMA GiveUpKeeps ==
  ASSUME AInv, NEW p \in Proc, GiveUp(p), UNCHANGED <<rows, reg, objs, backend, harm>>
  PROVE  AInv'
<1>1. /\ proc'[p] = Idle /\ proc' = [q \in Proc |-> proc'[q]]
      /\ \A q \in Proc \ {p} : proc'[q] = proc[q]
  BY Zenon, Moves DEF AInv, GiveUp
<1>2. Types' /\ NoneLost
  BY Zenon, <1>1 DEF AInv, Types, NoneLost
<1> QED
  BY Zenon, <1>1, <1>2, IdleSound, QuietKeeps

(* A process that publishes goes on with the same object.                  *)
LEMMA Advance ==
  ASSUME AInv, NEW p \in Proc, proc[p].pc \in Stage, NEW c \in Stage, UNCHANGED <<rows, reg>>,
         proc' = [proc EXCEPT ![p].pc = c]
  PROVE  /\ proc' = [q \in Proc |-> proc'[q]] /\ \A q \in Proc \ {p} : proc'[q] = proc[q]
         /\ Shape(p)' /\ (p = Rel => RelSound') /\ (p = Trn => TrnSound')
         /\ proc'[p].pc = c /\ proc'[p].at = proc[p].at /\ proc'[p].hurt = proc[p].hurt
         /\ Object(p)' = Object(p)
<1> DEFINE r == [proc[p] EXCEPT !.pc = c]
<1>1. /\ proc'[p] = r /\ proc' = [q \in Proc |-> proc'[q]]
      /\ \A q \in Proc \ {p} : proc'[q] = proc[q]
  BY Zenon, Moves DEF AInv
<1>2. ProcSound(p) /\ proc[p] # Idle /\ rows' = rows /\ reg' = reg
  BY DEF AInv, Idle, Stage
<1>3. CASE p \in Writer
  <2>1. proc[p] \in WriterCall
    BY Zenon, <1>3, Working
  <2>2. r \in WriterCall /\ r.pc = c /\ r.at = proc[p].at /\ r.hurt = proc[p].hurt /\ r.src = proc[p].src
    BY <2>1 DEF WriterCall
  <2> HIDE DEF r
  <2> QED
    BY Zenon, <1>1, <1>3, <2>2, Apart DEF Shape, Object
<1>4. CASE p = Rel
  <2>1. proc[p] \in RelCall
    BY Zenon, <1>4, Working
  <2>2. /\ r \in RelCall /\ r.pc = c /\ r.at = proc[p].at /\ r.hurt = proc[p].hurt /\ r.src = proc[p].src
        /\ r.row = proc[p].row /\ r.todo = proc[p].todo
    BY <2>1 DEF RelCall
  <2> HIDE DEF r
  <2>3. RelSound'
    BY <1>1, <1>2, <1>4, <2>2 DEF ProcSound, RelSound
  <2> QED
    BY Zenon, <1>1, <1>4, <2>2, <2>3, Apart DEF Shape, Object
<1>5. CASE p = Trn
  <2>1. proc[p] \in TrnCall
    BY Zenon, <1>5, Working
  <2>2. /\ r \in TrnCall /\ r.pc = c /\ r.at = proc[p].at /\ r.hurt = proc[p].hurt /\ r.src = proc[p].src
        /\ r.from = proc[p].from /\ r.todo = proc[p].todo
    BY <2>1 DEF TrnCall
  <2> HIDE DEF r
  <2>3. TrnSound'
    BY <1>1, <1>2, <1>5, <2>2 DEF ProcSound, TrnSound
  <2> QED
    BY Zenon, <1>1, <1>5, <2>2, <2>3, Apart DEF Shape, Object
<1> QED
  BY Zenon, <1>3, <1>4, <1>5 DEF Proc

-----------------------------------------------------------------------------
(* Publication.                                                            *)

(* An object is written where there is none, or the same.                  *)
LEMMA PutKeeps ==
  ASSUME AInv, NEW p \in Proc, Put(p)
  PROVE  AInv'
<1>1. UNCHANGED <<rows, reg, backend, harm>> /\ proc[p].pc = "put" /\ proc[p].pc \in Stage
  BY Zenon DEF Put, Stage
<1>2. proc[p].at \in Place /\ proc[p].at # Inline
  BY Zenon, <1>1, ArchiveAssumption DEF AInv, ProcSound, Published
<1>3. Object(p) \in Key
  BY Zenon, <1>1, <1>2, Working
<1>4. CASE ~MayPut(Object(p))
  BY Zenon, <1>1, <1>4, GiveUpKeeps DEF Put
<1>5. CASE MayPut(Object(p))
  <2>1. objs' = [objs EXCEPT ![Object(p)] = "good"] /\ proc' = [proc EXCEPT ![p].pc = "check"] /\ "check" \in Stage
    BY Zenon, <1>5 DEF Put, Stage
  <2>2. /\ proc' = [q \in Proc |-> proc'[q]] /\ \A q \in Proc \ {p} : proc'[q] = proc[q]
        /\ Shape(p)' /\ (p = Rel => RelSound') /\ (p = Trn => TrnSound')
        /\ proc'[p].pc = "check" /\ proc'[p].at = proc[p].at
    BY Zenon, <1>1, <2>1, Advance
  <2>3. ProcSound(p)'
    BY Zenon, <1>2, <2>2 DEF ProcSound, Published
  <2>4. NoneLost /\ Types'
    BY Zenon, <1>1, <1>3, <2>1, <2>2 DEF AInv, Types, NoneLost
  <2> QED
    BY Zenon, <1>1, <2>2, <2>3, <2>4, QuietKeeps
<1> QED
  BY Zenon, <1>4, <1>5

(* Publication is read back before anything refers to it.                  *)
LEMMA CheckKeeps ==
  ASSUME AInv, NEW p \in Proc, Check(p)
  PROVE  AInv'
<1>1. UNCHANGED <<rows, reg, objs, backend, harm>> /\ proc[p].pc = "check" /\ proc[p].pc \in Stage
  BY Zenon DEF Check, Stage
<1>2. CASE objs[Object(p)] # "good"
  BY Zenon, <1>1, <1>2, GiveUpKeeps DEF Check
<1>3. CASE objs[Object(p)] = "good"
  <2>1. proc' = [proc EXCEPT ![p].pc = "commit"] /\ "commit" \in Stage
    BY Zenon, <1>3 DEF Check, Stage
  <2>2. /\ proc' = [q \in Proc |-> proc'[q]] /\ \A q \in Proc \ {p} : proc'[q] = proc[q]
        /\ Shape(p)' /\ (p = Rel => RelSound') /\ (p = Trn => TrnSound')
        /\ proc'[p].pc = "commit" /\ Object(p)' = Object(p)
    BY Zenon, <1>1, <2>1, Advance
  <2>3. ProcSound(p)'
    BY Zenon, <1>1, <1>3, <2>2 DEF ProcSound, Published, ReadObject
  <2>4. NoneLost /\ Types'
    BY Zenon, <1>1, <2>2 DEF AInv, Types, NoneLost
  <2> QED
    BY Zenon, <1>1, <2>2, <2>3, <2>4, QuietKeeps
<1> QED
  BY Zenon, <1>2, <1>3

-----------------------------------------------------------------------------
(* Writers.                                                                *)

(* A writer starts with a store to publish to, or with none to wait for.   *)
LEMMA PrepareKeeps ==
  ASSUME AInv, NEW w \in Writer, NEW k \in {"raw", "import"}, NEW s \in Source, Prepare(w, k, s)
  PROVE  AInv'
<1> DEFINE r == [pc |-> IF backend = Inline THEN "commit" ELSE "put",
                 kind |-> k, src |-> s, at |-> backend, hurt |-> FALSE]
<1>1. UNCHANGED <<rows, reg, objs, backend, harm>> /\ proc' = [proc EXCEPT ![w] = r]
  BY Zenon DEF Prepare
<1>2. w \in Proc /\ w # Rel /\ w # Trn
  BY Zenon, Apart DEF Proc
<1>3. backend \in Place \cup {Inline}
  BY Zenon DEF AInv, Types
<1>4. r \in WriterCall
  BY Zenon, <1>3 DEF WriterCall, Stage
<1>5. r.at = backend /\ (r.pc = "commit" => backend = Inline) /\ (backend = Inline => r.pc = "commit")
  OBVIOUS
<1> HIDE DEF r
<1>6. /\ proc'[w] = r /\ proc' = [q \in Proc |-> proc'[q]]
      /\ \A q \in Proc \ {w} : proc'[q] = proc[q]
  BY Zenon, <1>1, <1>2, Moves DEF AInv
<1>7. ProcSound(w)'
  BY Zenon, <1>2, <1>3, <1>4, <1>5, <1>6 DEF ProcSound, Shape, Published
<1>8. Types' /\ NoneLost
  BY Zenon, <1>1, <1>6 DEF AInv, Types, NoneLost
<1> QED
  BY Zenon, <1>1, <1>2, <1>6, <1>7, <1>8, QuietKeeps

(* Registering an object keeps those registered before.                    *)
LEMMA RegisterKeeps ==
  ASSUME reg \in Seq(Key), NEW o \in Key, Register(o)
  PROVE  /\ reg' \in Seq(Key) /\ DOMAIN reg \subseteq DOMAIN reg'
         /\ \A i \in DOMAIN reg : reg'[i] = reg[i]
<1>1. CASE reg' = reg
  BY Zenon, <1>1
<1>2. CASE reg' = Append(reg, o)
  BY <1>2
<1> QED
  BY Zenon, <1>1, <1>2 DEF Register

(* A new row refers to an object that was read back for it.                *)
LEMMA InsertKeeps ==
  ASSUME AInv, NEW w \in Writer, proc[w].pc = "commit", Insert(w),
         proc' = [proc EXCEPT ![w] = Idle], UNCHANGED <<objs, backend>>
  PROVE  AInv'
<1> DEFINE r == proc[w]
           new == [kind |-> r.kind, src |-> r.src, at |-> r.at]
           n == Len(rows) + 1
<1>1. /\ rows' = Append(rows, new)
      /\ r.at = Inline => reg' = reg
      /\ r.at # Inline => Register(Object(w))
      /\ harm' = IF r.hurt THEN harm \cup {n} ELSE harm
  BY Zenon DEF Insert
<1>2. w \in Proc /\ r.pc \in Stage
  BY Zenon DEF Proc, Stage
<1>3. r \in WriterCall /\ (r.at # Inline => Object(w) \in Key)
  BY Zenon, <1>2, Working
<1>4. new \in RowType /\ new.at = r.at /\ new.src = r.src
  BY Zenon, <1>3 DEF WriterCall, RowType
<1>5. rows \in Seq(RowType) /\ reg \in Seq(Key) /\ Len(rows) \in Nat
  BY DEF AInv, Types
<1> HIDE DEF new
<1>6. /\ rows' \in Seq(RowType) /\ DOMAIN rows' = DOMAIN rows \cup {n} /\ rows'[n] = new
      /\ \A i \in DOMAIN rows : rows'[i] = rows[i]
  BY <1>1, <1>4, <1>5
<1>7. /\ reg' \in Seq(Key) /\ DOMAIN reg \subseteq DOMAIN reg'
      /\ \A i \in DOMAIN reg : reg'[i] = reg[i]
  BY Zenon, <1>1, <1>3, <1>5, RegisterKeeps
<1>8. Kept /\ NoneLost
  BY Zenon, <1>6, <1>7 DEF Kept, NoneLost
<1>9. /\ proc'[w] = Idle /\ proc' = [q \in Proc |-> proc'[q]]
      /\ \A q \in Proc \ {w} : proc'[q] = proc[q]
  BY Zenon, <1>2, Moves DEF AInv
<1>10. Types'
  BY Zenon, <1>6, <1>7, <1>9 DEF AInv, Types
<1>11. ASSUME NEW i \in DOMAIN rows' PROVE RowSound(i)'
  <2>1. CASE i \in DOMAIN rows
    BY Zenon, <1>1, <1>6, <1>8, <2>1, RowsUntouched
  <2>2. CASE i = n
    <3>1. Published(w)
      BY Zenon, <1>2 DEF AInv, ProcSound
    <3>2. CASE r.hurt
      BY Zenon, <1>1, <2>2, <3>2 DEF RowSound
    <3>3. CASE ~r.hurt
      <4>1. r.at # Inline => objs[Object(w)] = "good"
        BY Zenon, <1>2, <3>1, <3>3 DEF Published, ReadObject
      <4>2. At(i)' = Object(w)
        BY Zenon, <1>4, <1>6, <2>2 DEF At, Object
      <4> QED
        BY Zenon, <1>4, <1>6, <2>2, <4>1, <4>2 DEF RowSound, ReadRow, ReadObject
    <3> QED
      BY Zenon, <3>2, <3>3
  <2> QED
    BY Zenon, <1>6, <2>1, <2>2
<1> QED
  BY Zenon, <1>2, <1>8, <1>9, <1>10, <1>11, IdleSound, StepKeeps

(* A source is stored once, an import every time.                          *)
LEMMA StoreKeeps ==
  ASSUME AInv, NEW w \in Writer, StoreRaw(w) \/ StoreImport(w)
  PROVE  AInv'
<1>1. proc[w].pc = "commit" /\ proc' = [proc EXCEPT ![w] = Idle] /\ UNCHANGED <<objs, backend>>
  BY Zenon DEF StoreRaw, StoreImport
<1>2. Insert(w) \/ UNCHANGED <<rows, reg, harm>>
  BY Zenon DEF StoreRaw, StoreImport
<1>3. CASE Insert(w)
  BY Zenon, <1>1, <1>3, InsertKeeps
<1>4. CASE UNCHANGED <<rows, reg, harm>>
  BY Zenon, <1>1, <1>4, GiveUpKeeps DEF GiveUp, Proc
<1> QED
  BY Zenon, <1>2, <1>3, <1>4

-----------------------------------------------------------------------------
(* The relocation of inline bytes.                                         *)

(* What is needed of numbers: a batch has a first member.  It is shown to  *)
(* hold at the end of this module.                                         *)
Ordered == \A T \in SUBSET Nat : T # {} => \E x \in T : \A y \in T : x <= y

(* The next member of a batch is one of its members.                       *)
LEMMA MinIn ==
  ASSUME Ordered, NEW T \in SUBSET Nat, T # {}
  PROVE  Min(T) \in T
  BY Zenon DEF Ordered, Min

(* Positions are numbers.                                                  *)
LEMMA Positions ==
  ASSUME AInv
  PROVE  DOMAIN rows \subseteq Nat /\ DOMAIN reg \subseteq Nat
  BY DEF AInv, Types

(* A batch is of rows that exist.                                          *)
LEMMA RelocateBatchKeeps == ASSUME AInv, RelocateBatch PROVE AInv'
<1> DEFINE r == [pc |-> "next", todo |-> First(Inlined)]
<1>1. UNCHANGED <<rows, reg, objs, backend, harm>> /\ proc' = [proc EXCEPT ![Rel] = r]
  BY Zenon DEF RelocateBatch
<1>2. First(Inlined) \subseteq DOMAIN rows
  BY Zenon DEF First, Inlined
<1>3. r \in RelBatch /\ r.pc \notin Stage /\ r.todo = First(Inlined)
  BY <1>2, Positions DEF RelBatch, Stage
<1> HIDE DEF r
<1>4. /\ proc'[Rel] = r /\ proc' = [q \in Proc |-> proc'[q]]
      /\ \A q \in Proc \ {Rel} : proc'[q] = proc[q]
  BY Zenon, <1>1, Apart, Moves DEF AInv
<1>5. RelSound'
  BY Zenon, <1>1, <1>2, <1>3, <1>4 DEF RelSound
<1>6. ProcSound(Rel)'
  BY Zenon, <1>3, <1>4, <1>5, Apart DEF ProcSound, Shape, Published
<1>7. Types' /\ NoneLost
  BY Zenon, <1>1, <1>4 DEF AInv, Types, NoneLost
<1> QED
  BY Zenon, <1>1, <1>4, <1>6, <1>7, Apart, QuietKeeps

(* The next row of the batch, if it is still inline, is to be published.   *)
LEMMA RelocateNextKeeps == ASSUME Ordered, AInv, RelocateNext PROVE AInv'
<1> DEFINE r == proc[Rel]
           i == Min(r.todo)
           skip == [r EXCEPT !.todo = @ \ {i}]
           go == [pc |-> "put", todo |-> r.todo, row |-> i, src |-> rows[i].src,
                  at |-> Target, hurt |-> FALSE]
<1>1. /\ UNCHANGED <<rows, reg, objs, backend, harm>> /\ r.pc = "next"
      /\ proc' = [proc EXCEPT ![Rel] = IF r.todo = {} THEN Idle
                                       ELSE IF rows[i].at # Inline THEN skip ELSE go]
  BY Zenon DEF RelocateNext
<1>2. r \in RelBatch /\ r.todo \subseteq DOMAIN rows
  <2>1. Shape(Rel) /\ RelSound
    BY Zenon, Apart DEF AInv, ProcSound
  <2>2. r # Idle /\ r \notin RelCall
    BY <1>1 DEF Idle, RelCall, Stage
  <2> QED
    BY Zenon, <2>1, <2>2 DEF Shape, RelSound
<1>3. /\ proc'[Rel] = IF r.todo = {} THEN Idle ELSE IF rows[i].at # Inline THEN skip ELSE go
      /\ proc' = [q \in Proc |-> proc'[q]] /\ \A q \in Proc \ {Rel} : proc'[q] = proc[q]
  BY Zenon, <1>1, Apart, Moves DEF AInv
<1>4. ProcSound(Rel)'
  <2>1. CASE r.todo = {}
    BY Zenon, <1>3, <2>1, Apart, IdleSound
  <2>2. CASE r.todo # {} /\ rows[i].at # Inline
    <3>1. skip \in RelBatch /\ skip.pc \notin Stage /\ skip.todo \subseteq DOMAIN rows
      BY <1>2 DEF RelBatch, Stage
    <3>2. proc'[Rel] = skip
      BY Zenon, <1>3, <2>2
    <3> HIDE DEF skip
    <3>3. RelSound'
      BY Zenon, <1>1, <3>1, <3>2 DEF RelSound
    <3> QED
      BY Zenon, <3>1, <3>2, <3>3, Apart DEF ProcSound, Shape, Published
  <2>3. CASE r.todo # {} /\ rows[i].at = Inline
    <3>1. i \in DOMAIN rows /\ i \in Nat /\ r.todo \in SUBSET Nat
      BY Zenon, <1>2, <2>3, MinIn, Positions
    <3>2. rows[i].src \in Source
      <4>1. rows[i] \in RowType
        BY <3>1 DEF AInv, Types
      <4> QED
        BY Zenon, <4>1 DEF RowType
    <3>3. /\ go \in RelCall /\ go.pc = "put" /\ go.at = Target /\ go.todo = r.todo /\ go.row = i
          /\ go.src = rows[i].src
      BY Zenon, <3>1, <3>2 DEF RelCall, Stage
    <3>4. proc'[Rel] = go
      BY Zenon, <1>3, <2>3
    <3> HIDE DEF go, i
    <3>5. RelSound'
      BY Zenon, <1>1, <1>2, <3>1, <3>3, <3>4 DEF RelSound
    <3>6. Published(Rel)'
      BY Zenon, <3>3, <3>4, Apart DEF Published
    <3> QED
      BY Zenon, <3>3, <3>4, <3>5, <3>6, Apart DEF ProcSound, Shape
  <2> QED
    BY Zenon, <2>1, <2>2, <2>3
<1>5. Types' /\ NoneLost
  BY Zenon, <1>1, <1>3 DEF AInv, Types, NoneLost
<1> QED
  BY Zenon, <1>1, <1>3, <1>4, <1>5, Apart, QuietKeeps

(* The inline bytes go only when the object with the same bytes was read   *)
(* back.                                                                   *)
LEMMA RelocateCommitKeeps == ASSUME AInv, RelocateCommit PROVE AInv'
<1> DEFINE r == proc[Rel]
           next == [pc |-> "next", todo |-> r.todo \ {r.row}]
<1>1. /\ UNCHANGED <<objs, backend>> /\ r.pc = "commit" /\ proc' = [proc EXCEPT ![Rel] = next]
      /\ \/ rows[r.row].at # Inline /\ UNCHANGED <<rows, reg, harm>>
         \/ /\ rows[r.row].at = Inline /\ rows' = [rows EXCEPT ![r.row].at = Target]
            /\ Register(Object(Rel)) /\ harm' = IF r.hurt THEN harm \cup {r.row} ELSE harm
  BY Zenon DEF RelocateCommit
<1>2. r.pc \in Stage /\ ProcSound(Rel) /\ r # Idle
  BY <1>1, Apart DEF AInv, Stage, Idle
<1>3. r \in RelCall /\ r.at = Target /\ r.at # Inline /\ Object(Rel) \in Key
  BY Zenon, <1>2, Apart, Working DEF RelCall
<1>4. /\ r.todo \subseteq DOMAIN rows /\ r.row \in DOMAIN rows /\ rows[r.row].src = r.src
      /\ (~r.hurt => objs[Object(Rel)] = "good")
  BY Zenon, <1>1, <1>2, <1>3 DEF ProcSound, RelSound, Published, ReadObject
<1>5. rows \in Seq(RowType) /\ reg \in Seq(Key) /\ rows[r.row] \in RowType
  BY <1>4 DEF AInv, Types
<1>6. next \in RelBatch /\ next.pc \notin Stage /\ next.todo \subseteq r.todo
  BY Zenon, <1>3 DEF RelBatch, RelCall, Stage
<1> HIDE DEF next
<1>7. /\ proc'[Rel] = next /\ proc' = [q \in Proc |-> proc'[q]]
      /\ \A q \in Proc \ {Rel} : proc'[q] = proc[q]
  BY Zenon, <1>1, Apart, Moves DEF AInv
<1>8. NoneLost
  BY Zenon, <1>1 DEF NoneLost
<1>9. CASE UNCHANGED <<rows, reg, harm>>
  <2>1. RelSound'
    BY Zenon, <1>4, <1>6, <1>7, <1>9 DEF RelSound
  <2>2. ProcSound(Rel)'
    BY Zenon, <1>6, <1>7, <2>1, Apart DEF ProcSound, Shape, Published
  <2>3. Types'
    BY Zenon, <1>1, <1>7, <1>9 DEF AInv, Types
  <2> QED
    BY Zenon, <1>7, <1>8, <1>9, <2>2, <2>3, Apart, QuietKeeps
<1>10. CASE /\ rows[r.row].at = Inline /\ rows' = [rows EXCEPT ![r.row].at = Target]
            /\ Register(Object(Rel)) /\ harm' = IF r.hurt THEN harm \cup {r.row} ELSE harm
  <2> DEFINE new == [rows[r.row] EXCEPT !.at = Target]
  <2>1. new \in RowType /\ new.at = Target /\ new.src = r.src
    BY <1>4, <1>5, Apart DEF RowType
  <2>2. rows' = [rows EXCEPT ![r.row] = new]
    BY Zenon, <1>10
  <2> HIDE DEF new
  <2>3. /\ rows' \in Seq(RowType) /\ DOMAIN rows' = DOMAIN rows /\ rows'[r.row] = new
        /\ \A i \in DOMAIN rows : i # r.row => rows'[i] = rows[i]
    BY <1>4, <1>5, <2>1, <2>2
  <2>4. /\ reg' \in Seq(Key) /\ DOMAIN reg \subseteq DOMAIN reg'
        /\ \A i \in DOMAIN reg : reg'[i] = reg[i]
    BY Zenon, <1>3, <1>5, <1>10, RegisterKeeps
  <2>5. \A i \in DOMAIN rows : rows'[i].src = rows[i].src
    BY Zenon, <1>4, <2>1, <2>3
  <2>6. Kept
    BY Zenon, <2>3, <2>4, <2>5 DEF Kept
  <2>7. RelSound'
    BY Zenon, <1>4, <1>6, <1>7, <2>3 DEF RelSound
  <2>8. ProcSound(Rel)'
    BY Zenon, <1>6, <1>7, <2>7, Apart DEF ProcSound, Shape, Published
  <2>9. Types'
    BY Zenon, <1>1, <1>7, <2>3, <2>4 DEF AInv, Types
  <2>10. ASSUME NEW i \in DOMAIN rows' PROVE RowSound(i)'
    <3>1. CASE i # r.row
      BY Zenon, <1>8, <1>10, <2>3, <3>1, RowsUntouched
    <3>2. CASE i = r.row /\ r.hurt
      BY Zenon, <1>10, <3>2 DEF RowSound
    <3>3. CASE i = r.row /\ ~r.hurt
      <4>1. At(i)' = Object(Rel)
        BY Zenon, <1>3, <2>1, <2>3, <3>3 DEF At, Object
      <4> QED
        BY Zenon, <1>1, <1>4, <3>3, <4>1 DEF RowSound, ReadRow, ReadObject
    <3> QED
      BY Zenon, <3>1, <3>2, <3>3
  <2> QED
    BY Zenon, <1>7, <1>8, <2>6, <2>8, <2>9, <2>10, Apart, StepKeeps
<1> QED
  BY Zenon, <1>1, <1>9, <1>10

-----------------------------------------------------------------------------
(* The transfer of objects between stores.                                 *)

(* The transfer is between two objects.                                    *)
LEMMA BatchKeeps ==
  ASSUME AInv, UNCHANGED <<rows, reg, objs, backend, harm>>, NEW r \in TrnBatch,
         r.todo \subseteq DOMAIN reg, proc' = [proc EXCEPT ![Trn] = r]
  PROVE  AInv'
<1>1. r.pc \notin Stage
  BY DEF TrnBatch, Stage
<1>2. /\ proc'[Trn] = r /\ proc' = [q \in Proc |-> proc'[q]]
      /\ \A q \in Proc \ {Trn} : proc'[q] = proc[q]
  BY Zenon, Apart, Moves DEF AInv
<1>3. TrnSound'
  BY Zenon, <1>1, <1>2 DEF TrnSound
<1>4. ProcSound(Trn)'
  BY Zenon, <1>1, <1>2, <1>3, Apart DEF ProcSound, Shape, Published
<1>5. Types' /\ NoneLost
  BY Zenon, <1>2 DEF AInv, Types, NoneLost
<1> QED
  BY Zenon, <1>2, <1>4, <1>5, Apart, QuietKeeps

(* What the transfer knows between two objects.                            *)
LEMMA BetweenObjects ==
  ASSUME AInv, proc[Trn].pc = "tnext"
  PROVE  proc[Trn] \in TrnBatch /\ proc[Trn].todo \subseteq DOMAIN reg
<1>1. Shape(Trn) /\ TrnSound
  BY Zenon, Apart DEF AInv, ProcSound
<1>2. proc[Trn] # Idle /\ proc[Trn] \notin TrnCall
  BY DEF Idle, TrnCall, Stage
<1> QED
  BY Zenon, <1>1, <1>2 DEF Shape, TrnSound

(* A batch is of objects that are registered, whatever the cursor.         *)
LEMMA TransferStartKeeps == ASSUME AInv, TransferStart PROVE AInv'
<1>1. PICK after \in 0..Len(reg) :
        proc' = [proc EXCEPT ![Trn] = [pc |-> "tnext", todo |-> First(Foreign(after))]]
  BY Zenon DEF TransferStart
<1> DEFINE todo == First(Foreign(after))
           b == [pc |-> "tnext", todo |-> todo]
<1>2. todo \subseteq DOMAIN reg
  BY Zenon DEF First, Foreign
<1>3. todo \in SUBSET Nat
  BY Zenon, <1>2, Positions DEF AInv, Types
<1> HIDE DEF todo
<1>4. b \in TrnBatch /\ b.todo \subseteq DOMAIN reg
  BY <1>2, <1>3 DEF TrnBatch
<1>5. UNCHANGED <<rows, reg, objs, backend, harm>> /\ proc' = [proc EXCEPT ![Trn] = b]
  BY Zenon, <1>1 DEF TransferStart, todo
<1> HIDE DEF b
<1> QED
  BY Zenon, <1>4, <1>5, BatchKeeps

(* The next object of the batch is read, and its bytes are to be published *)
(* in the target.                                                          *)
LEMMA TransferNextKeeps == ASSUME Ordered, AInv, TransferNext PROVE AInv'
<1> DEFINE r == proc[Trn]
           i == Min(r.todo)
           src == CHOOSE s \in Source : BodyOf[s] = reg[i][2]
           go == [pc |-> "put", from |-> i, src |-> src,
                  at |-> Target, hurt |-> FALSE, todo |-> r.todo \ {i}]
<1>1. /\ UNCHANGED <<rows, reg, objs, backend, harm>> /\ r.pc = "tnext" /\ r.todo # {}
      /\ GiveUp(Trn) \/ proc' = [proc EXCEPT ![Trn] = go]
  BY Zenon DEF TransferNext
<1>2. r \in TrnBatch /\ r.todo \subseteq DOMAIN reg
  BY Zenon, <1>1, BetweenObjects
<1>3. i \in DOMAIN reg /\ i \in Nat /\ r.todo \in SUBSET Nat
  BY Zenon, <1>1, <1>2, MinIn, Positions
<1>4. src \in Source /\ BodyOf[src] = reg[i][2]
  <2>1. reg[i] \in Key
    BY <1>3 DEF AInv, Types
  <2>2. reg[i][2] \in Body
    BY <2>1 DEF Key
  <2> QED
    BY Zenon, <2>2 DEF Body
<1> HIDE DEF src
<1>5. /\ go \in TrnCall /\ go.pc = "put" /\ go.at = Target /\ go.todo = r.todo \ {i} /\ go.from = i
      /\ go.src = src
  BY Zenon, <1>2, <1>3, <1>4 DEF TrnBatch, TrnCall, Stage
<1> HIDE DEF go, i
<1>6. CASE GiveUp(Trn)
  BY Zenon, <1>1, <1>6, Apart, GiveUpKeeps
<1>7. CASE proc' = [proc EXCEPT ![Trn] = go]
  <2>1. /\ proc'[Trn] = go /\ proc' = [q \in Proc |-> proc'[q]]
        /\ \A q \in Proc \ {Trn} : proc'[q] = proc[q]
    BY Zenon, <1>7, Apart, Moves DEF AInv
  <2>2. TrnSound'
    BY Zenon, <1>1, <1>2, <1>3, <1>4, <1>5, <2>1 DEF TrnSound
  <2>3. Published(Trn)'
    BY Zenon, <1>5, <2>1, Apart DEF Published
  <2>4. ProcSound(Trn)'
    BY Zenon, <1>5, <2>1, <2>2, <2>3, Apart DEF ProcSound, Shape
  <2>5. Types' /\ NoneLost
    BY Zenon, <1>1, <2>1 DEF AInv, Types, NoneLost
  <2> QED
    BY Zenon, <1>1, <2>1, <2>4, <2>5, Apart, QuietKeeps
<1> QED
  BY Zenon, <1>1, <1>6, <1>7

(* Every reference to the object, also one made during the copy, moves to  *)
(* the object with the same bytes that was read back.                      *)
LEMMA TransferCommitKeeps == ASSUME AInv, TransferCommit PROVE AInv'
<1> DEFINE r == proc[Trn]
           here == {i \in DOMAIN rows : At(i) = reg[r.from]}
           move == Referenced(reg[r.from])
           next == [pc |-> "tnext", todo |-> r.todo]
<1>1. /\ UNCHANGED <<objs, backend>> /\ r.pc = "commit" /\ proc' = [proc EXCEPT ![Trn] = next]
      /\ (move => Register(Object(Trn))) /\ (~move => reg' = reg)
      /\ rows' = [i \in DOMAIN rows |-> IF move /\ i \in here THEN [rows[i] EXCEPT !.at = Target] ELSE rows[i]]
      /\ harm' = IF r.hurt THEN harm \cup here ELSE harm \ here
  BY Zenon DEF TransferCommit
<1>2. r.pc \in Stage /\ ProcSound(Trn) /\ r # Idle
  BY <1>1, Apart DEF AInv, Stage, Idle
<1>3. r \in TrnCall /\ r.at = Target /\ r.at # Inline /\ Object(Trn) \in Key
  BY Zenon, <1>2, Apart, Working DEF TrnCall
<1>4. /\ r.todo \subseteq DOMAIN reg /\ r.from \in DOMAIN reg /\ reg[r.from][2] = BodyOf[r.src]
      /\ (~r.hurt => objs[Object(Trn)] = "good")
  BY Zenon, <1>1, <1>2, <1>3 DEF ProcSound, TrnSound, Published, ReadObject
<1>5. rows \in Seq(RowType) /\ reg \in Seq(Key)
  BY Zenon DEF AInv, Types
<1>6. next \in TrnBatch /\ next.pc \notin Stage /\ next.todo = r.todo
  BY Zenon, <1>3 DEF TrnBatch, TrnCall, Stage
<1>7. ASSUME NEW i \in DOMAIN rows
      PROVE  /\ rows'[i] \in RowType /\ rows'[i].src = rows[i].src
             /\ i \in here => rows'[i].at = Target /\ BodyOf[rows[i].src] = BodyOf[r.src]
             /\ i \notin here => rows'[i] = rows[i]
  <2>1. rows[i] \in RowType
    BY <1>5
  <2>2. [rows[i] EXCEPT !.at = Target] \in RowType /\ [rows[i] EXCEPT !.at = Target].at = Target
        /\ [rows[i] EXCEPT !.at = Target].src = rows[i].src
    BY <2>1, Apart DEF RowType
  <2>3. i \in here => move
    BY Zenon DEF Referenced
  <2>4. i \in here => BodyOf[rows[i].src] = BodyOf[r.src]
    BY <1>4 DEF At
  <2>5. rows'[i] = IF move /\ i \in here THEN [rows[i] EXCEPT !.at = Target] ELSE rows[i]
    BY Zenon, <1>1
  <2> HIDE DEF here, move
  <2> QED
    BY Zenon, <2>1, <2>2, <2>3, <2>4, <2>5
<1>8. rows' \in Seq(RowType) /\ DOMAIN rows' = DOMAIN rows
  <2>1. DOMAIN rows' = DOMAIN rows
    BY Zenon, <1>1
  <2>2. DOMAIN rows = 1 .. Len(rows) /\ Len(rows) \in Nat
    BY <1>5
  <2>3. rows' = [i \in 1 .. Len(rows) |-> rows'[i]]
    BY Zenon, <1>1, <2>2
  <2> QED
    BY <1>7, <2>1, <2>2, <2>3
<1> HIDE DEF next, here
<1>9. /\ reg' \in Seq(Key) /\ DOMAIN reg \subseteq DOMAIN reg'
      /\ \A i \in DOMAIN reg : reg'[i] = reg[i]
  BY Zenon, <1>1, <1>3, <1>5, RegisterKeeps
<1>10. /\ proc'[Trn] = next /\ proc' = [q \in Proc |-> proc'[q]]
       /\ \A q \in Proc \ {Trn} : proc'[q] = proc[q]
  BY Zenon, <1>1, Apart, Moves DEF AInv
<1>11. Kept /\ NoneLost
  BY Zenon, <1>1, <1>7, <1>8, <1>9 DEF Kept, NoneLost
<1>12. TrnSound'
  BY Zenon, <1>4, <1>6, <1>9, <1>10 DEF TrnSound
<1>13. ProcSound(Trn)'
  BY Zenon, <1>6, <1>10, <1>12, Apart DEF ProcSound, Shape, Published
<1>14. Types'
  BY Zenon, <1>1, <1>8, <1>9, <1>10 DEF AInv, Types
<1>15. ASSUME NEW i \in DOMAIN rows' PROVE RowSound(i)'
  <2>1. i \in DOMAIN rows
    BY Zenon, <1>8
  <2>2. CASE i \notin here
    BY Zenon, <1>1, <1>7, <1>11, <2>1, <2>2, RowsUntouched
  <2>3. CASE i \in here /\ r.hurt
    BY Zenon, <1>1, <2>3 DEF RowSound
  <2>4. CASE i \in here /\ ~r.hurt
    <3>1. At(i)' = Object(Trn)
      BY Zenon, <1>3, <1>7, <2>1, <2>4 DEF At, Object
    <3> QED
      BY Zenon, <1>1, <1>4, <2>4, <3>1 DEF RowSound, ReadRow, ReadObject
  <2> QED
    BY Zenon, <2>2, <2>3, <2>4
<1> QED
  BY Zenon, <1>10, <1>11, <1>13, <1>14, <1>15, Apart, StepKeeps

-----------------------------------------------------------------------------
(* Faults and the operator.                                                *)

(* Damage is charged to the rows and the commits that rely on the object.  *)
LEMMA DamageKeeps ==
  ASSUME AInv, NEW o \in Key, Damage(o)
  PROVE  AInv'
<1>1. PICK bad \in {"damaged", "absent"} : objs' = [objs EXCEPT ![o] = bad]
  BY Zenon DEF Damage
<1>2. /\ UNCHANGED <<rows, reg, backend>>
      /\ harm' = harm \cup {i \in DOMAIN rows : At(i) = o}
      /\ proc' = [p \in Proc |-> IF proc[p].pc = "commit" /\ Object(p) = o
                                 THEN [proc[p] EXCEPT !.hurt = TRUE] ELSE proc[p]]
  BY Zenon DEF Damage
<1>3. objs \in [Key -> {"absent", "good", "damaged"}]
  BY Zenon DEF AInv, Types
<1>4. objs' \in [Key -> {"absent", "good", "damaged"}] /\ \A x \in Key : x # o => objs'[x] = objs[x]
  BY Zenon, <1>1, <1>3
<1>5. Types'
  BY Zenon, <1>2, <1>4 DEF AInv, Types
<1>6. ASSUME NEW i \in DOMAIN rows' PROVE RowSound(i)'
  <2>1. i \in DOMAIN rows /\ RowSound(i) /\ At(i)' = At(i) /\ rows'[i] = rows[i]
    BY Zenon, <1>2 DEF AInv, At
  <2>2. rows[i].at # Inline => At(i) \in Key
    <3>1. rows[i] \in RowType
      BY <2>1 DEF AInv, Types
    <3> QED
      BY Zenon, <3>1 DEF RowType, At, Key, Body
  <2>3. CASE At(i) = o
    BY Zenon, <1>2, <2>1, <2>3 DEF RowSound
  <2>4. CASE At(i) # o
    BY Zenon, <1>2, <1>4, <2>1, <2>2, <2>4 DEF RowSound, ReadRow, ReadObject
  <2> QED
    BY Zenon, <2>3, <2>4
<1>7. ASSUME NEW p \in Proc PROVE ProcSound(p)'
  <2> DEFINE r == [proc[p] EXCEPT !.hurt = TRUE]
  <2>1. ProcSound(p) /\ rows' = rows /\ reg' = reg
    BY Zenon, <1>2 DEF AInv
  <2>2. CASE proc'[p] = proc[p] /\ ~(proc[p].pc = "commit" /\ Object(p) = o)
    <3>1. Object(p)' = Object(p)
      BY Zenon, <2>2 DEF Object
    <3>2. Published(p)'
      <4>1. CASE proc[p].pc \in Stage
        BY Zenon, <1>4, <2>1, <2>2, <3>1, <4>1, Working DEF ProcSound, Published, ReadObject
      <4>2. CASE proc[p].pc \notin Stage
        BY Zenon, <2>2, <4>2 DEF Published
      <4> QED
        BY Zenon, <4>1, <4>2
    <3> QED
      BY Zenon, <2>1, <2>2, <3>2 DEF ProcSound, Shape, RelSound, TrnSound
  <2>3. CASE proc'[p] = r /\ proc[p].pc = "commit" /\ Object(p) = o
    <3>1. proc[p].pc \in Stage /\ proc[p] # Idle
      BY <2>3 DEF Stage, Idle
    <3>2. CASE p \in Writer
      <4>1. proc[p] \in WriterCall
        BY Zenon, <3>1, <3>2, Working
      <4>2. r \in WriterCall /\ r.hurt /\ r.pc = "commit"
        BY <2>3, <4>1 DEF WriterCall
      <4> HIDE DEF r
      <4> QED
        BY Zenon, <2>3, <3>2, <4>2, Apart DEF ProcSound, Shape, Published
    <3>3. CASE p = Rel
      <4>1. proc[p] \in RelCall
        BY Zenon, <3>1, <3>3, Working
      <4>2. /\ r \in RelCall /\ r.hurt /\ r.pc = "commit" /\ r.row = proc[p].row /\ r.src = proc[p].src
            /\ r.todo = proc[p].todo
        BY <2>3, <4>1 DEF RelCall
      <4> HIDE DEF r
      <4>3. RelSound'
        BY <2>1, <2>3, <3>1, <3>3, <4>2 DEF ProcSound, RelSound
      <4> QED
        BY Zenon, <2>3, <3>3, <4>2, <4>3, Apart DEF ProcSound, Shape, Published
    <3>4. CASE p = Trn
      <4>1. proc[p] \in TrnCall
        BY Zenon, <3>1, <3>4, Working
      <4>2. /\ r \in TrnCall /\ r.hurt /\ r.pc = "commit" /\ r.from = proc[p].from /\ r.src = proc[p].src
            /\ r.todo = proc[p].todo
        BY <2>3, <4>1 DEF TrnCall
      <4> HIDE DEF r
      <4>3. TrnSound'
        BY <2>1, <2>3, <3>1, <3>4, <4>2 DEF ProcSound, TrnSound
      <4> QED
        BY Zenon, <2>3, <3>4, <4>2, <4>3, Apart DEF ProcSound, Shape, Published
    <3> QED
      BY Zenon, <3>2, <3>3, <3>4 DEF Proc
  <2> QED
    BY Zenon, <1>2, <2>2, <2>3
<1> QED
  BY Zenon, <1>5, <1>6, <1>7 DEF AInv

(* The operator changes where new sources go, and nothing else.            *)
LEMMA OperatorKeeps ==
  ASSUME AInv, UNCHANGED <<rows, reg, objs, proc, harm>>, backend' \in Place \cup {Inline}
  PROVE  AInv'
<1>1. Types' /\ Kept /\ NoneLost
  BY Zenon DEF AInv, Types, Kept, NoneLost
<1>2. \A q \in Proc : ProcSound(q)'
  BY Zenon, <1>1, Bystander
<1>3. \A i \in DOMAIN rows' : RowSound(i)'
  BY Zenon, <1>1, RowsUntouched
<1> QED
  BY Zenon, <1>1, <1>2, <1>3 DEF AInv

(* Every step keeps the invariant.                                         *)
LEMMA NextKeeps == Ordered /\ AInv /\ [ArchiveNext]_archiveVars => AInv'
<1> SUFFICES ASSUME Ordered, AInv, [ArchiveNext]_archiveVars PROVE AInv'
  OBVIOUS
<1>0. backend \in Place \cup {Inline}
  BY Zenon DEF AInv, Types
<1>1. CASE UNCHANGED archiveVars
  BY Zenon, <1>0, <1>1, OperatorKeeps DEF archiveVars
<1>2. CASE Write
  BY Zenon, <1>2, PrepareKeeps, StoreKeeps DEF Write
<1>3. CASE Publish
  BY Zenon, <1>3, PutKeeps, CheckKeeps DEF Publish
<1>4. CASE Relocate
  BY Zenon, <1>4, RelocateBatchKeeps, RelocateNextKeeps, RelocateCommitKeeps DEF Relocate
<1>5. CASE Transfer
  BY Zenon, <1>5, TransferStartKeeps, TransferNextKeeps, TransferCommitKeeps, GiveUpKeeps, Apart
     DEF Transfer, TransferEnds
<1>6. CASE Restart
  <2>1. UNCHANGED <<rows, reg, objs, proc, harm>> /\ backend' \in Place \cup {Inline}
    BY Zenon, <1>6, Apart DEF Restart
  <2> QED
    BY Zenon, <2>1, OperatorKeeps
<1>7. ASSUME NEW p \in Proc, Crash(p) PROVE AInv'
  BY Zenon, <1>7, GiveUpKeeps DEF Crash
<1>8. ASSUME NEW o \in Place \X Body, Damage(o) PROVE AInv'
  BY Zenon, <1>8, DamageKeeps DEF Key
<1> QED
  BY Zenon, <1>1, <1>2, <1>3, <1>4, <1>5, <1>6, <1>7, <1>8 DEF ArchiveNext

(* At first there is nothing to read.                                      *)
LEMMA InitAInv == ArchiveInit => AInv
<1> SUFFICES ASSUME ArchiveInit PROVE AInv
  OBVIOUS
<1>1. rows = <<>> /\ reg = <<>> /\ DOMAIN rows = {}
  BY DEF ArchiveInit
<1>2. rows \in Seq(RowType) /\ reg \in Seq(Key)
  BY <1>1
<1>3. objs \in [Key -> {"absent", "good", "damaged"}]
  BY Zenon DEF ArchiveInit, Key
<1>4. backend \in Place \cup {Inline}
  BY Zenon, ArchiveAssumption DEF ArchiveInit
<1>5. proc = [p \in Proc |-> proc[p]] /\ \A p \in Proc : proc[p] = Idle
  BY Zenon DEF ArchiveInit
<1>6. Types
  BY Zenon, <1>2, <1>3, <1>4, <1>5 DEF Types
<1>7. Idle.pc \notin Stage
  BY DEF Idle, Stage
<1>8. \A p \in Proc : ProcSound(p)
  BY Zenon, <1>5, <1>7 DEF ProcSound, Shape, Published, RelSound, TrnSound
<1> QED
  BY Zenon, <1>1, <1>6, <1>8 DEF AInv

(* With batches ordered, the invariant gives what is asked of every row.   *)
LEMMA ReadableAlways == Ordered => (ArchiveSpec => []EvidenceReadable)
<1> SUFFICES ASSUME Ordered PROVE ArchiveSpec => []EvidenceReadable
  OBVIOUS
<1>1. ArchiveInit => AInv
  BY Zenon, InitAInv
<1>2. AInv /\ [ArchiveNext]_archiveVars => AInv'
  BY Zenon, NextKeeps
<1>3. AInv => EvidenceReadable
  BY Zenon DEF AInv, RowSound, EvidenceReadable
<1> QED
  BY <1>1, <1>2, <1>3, PTL DEF ArchiveSpec

-----------------------------------------------------------------------------
(* Well-founded orders, needed from here on only.                          *)

INSTANCE WellFoundedInduction

(* A set of numbers has a smallest member.                                 *)
LEMMA BatchesAreOrdered == Ordered
<1> SUFFICES ASSUME NEW T \in SUBSET Nat, T # {} PROVE \E x \in T : \A y \in T : x <= y
  BY Zenon DEF Ordered
<1> DEFINE R == {ss \in Nat \X Nat : ss[1] < ss[2]}
<1>1. IsWellFoundedOn(R, Nat)
  BY Zenon, NatLessThanWellFounded DEF OpToRel
<1> HIDE DEF R
<1>2. PICK x \in T : \A y \in T : <<y, x>> \notin R
  BY Zenon, <1>1, WFMin
<1>3. \A y \in T : ~(y < x)
  BY Zenon, <1>2 DEF R
<1> QED
  BY <1>3

(* The bytes of every row can be read, inline or from the store, unless    *)
(* its object was damaged after it was last read back for that row         *)
(* (EvidenceReadable): for any writers, stores and batches, raw.py,        *)
(* archives.py and archive_transfer.py never release the last good copy.   *)
THEOREM LastCopyKept == ArchiveSpec => []EvidenceReadable
BY BatchesAreOrdered, ReadableAlways, PTL

===============================================================================
