----------------------------- MODULE BatchLedger -----------------------------
(***************************************************************************)
(* What the batch loop promises to whoever reads its progress: batches are *)
(* closed one at a time and in order, a batch is closed only once a commit *)
(* of its own exists, commits of a later batch never come before an        *)
(* earlier batch is closed, and nothing changes any more once the loop is  *)
(* over, either because every batch is closed or because a human stopped   *)
(* it.  BatchLoop implements this.                                         *)
(***************************************************************************)
EXTENDS Integers

CONSTANT NBatches

VARIABLES
  closed,     \* how many batches are DONE
  committed,  \* batches that have a commit labelled with their number
  over        \* "no", "built" (handed to the gates) or "stopped"

ledger == <<closed, committed, over>>

LedgerInit ==
  /\ closed = 0
  /\ committed = {}
  /\ over = "no"

\* The commit of the batch being built lands, and the loop has not noted it yet.
Commit ==
  /\ over = "no"
  /\ closed < NBatches
  /\ committed' = committed \cup {closed + 1}
  /\ UNCHANGED <<closed, over>>

\* The batch is marked DONE, together with its commit.
CloseNext ==
  /\ over = "no"
  /\ closed < NBatches
  /\ closed' = closed + 1
  /\ committed' = committed \cup {closed + 1}
  /\ over' \in {"no"} \cup (IF closed' = NBatches THEN {"built"} ELSE {})

\* The last batch was closed while an escalation was pending.
HandOver ==
  /\ over = "no"
  /\ closed = NBatches
  /\ over' = "built"
  /\ UNCHANGED <<closed, committed>>

Stop ==
  /\ over = "no"
  /\ over' = "stopped"
  /\ UNCHANGED <<closed, committed>>

LedgerNext == Commit \/ CloseNext \/ HandOver \/ Stop

LedgerSpec == LedgerInit /\ [][LedgerNext]_ledger
=============================================================================
