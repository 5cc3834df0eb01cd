------------------------------ MODULE JobLedger ------------------------------
(***************************************************************************)
(* What the execution of jobs promises to everything built on it: a job is *)
(* held by at most one claim, every claim has a generation of its own,     *)
(* evidence is stored only under the claim that holds the job, a job that  *)
(* is closed stays closed, and a claim that is lost gives the job back.    *)
(* JobExecution implements this.                                           *)
(***************************************************************************)
EXTENDS Naturals

CONSTANT Job

VARIABLES
  phase,        \* "absent", "open" (may be claimed), "held" or "closed"
  generation,   \* how many times a job has been claimed
  evidence      \* the claim that last stored evidence for a job

ledger == <<phase, generation, evidence>>

LedgerInit ==
  /\ phase \in [Job -> {"absent", "open"}]
  /\ generation = [j \in Job |-> 0]
  /\ evidence = [j \in Job |-> 0]

(* A claim draws the next generation.                                      *)
Take(j) ==
  /\ phase[j] = "open"
  /\ phase' = [phase EXCEPT ![j] = "held"]
  /\ generation' = [generation EXCEPT ![j] = @ + 1]
  /\ UNCHANGED evidence

(* The holder stores evidence, and may enqueue further jobs with it.       *)
Store(j, new) ==
  /\ phase[j] = "held"
  /\ \A c \in new : phase[c] = "absent"
  /\ phase' = [c \in Job |-> IF c \in new THEN "open" ELSE phase[c]]
  /\ evidence' = [evidence EXCEPT ![j] = generation[j]]
  /\ UNCHANGED generation

(* Claims that yield, wait, or are found to have been lost.                *)
GiveBack(js) ==
  /\ \A j \in js : phase[j] = "held"
  /\ phase' = [j \in Job |-> IF j \in js THEN "open" ELSE phase[j]]
  /\ UNCHANGED <<generation, evidence>>

Close(j) ==
  /\ phase[j] = "held"
  /\ phase' = [phase EXCEPT ![j] = "closed"]
  /\ UNCHANGED <<generation, evidence>>

LedgerNext ==
  \/ \E j \in Job : Take(j) \/ Close(j) \/ \E new \in SUBSET Job : Store(j, new)
  \/ \E js \in SUBSET Job : GiveBack(js)

LedgerSpec == LedgerInit /\ [][LedgerNext]_ledger

==============================================================================
