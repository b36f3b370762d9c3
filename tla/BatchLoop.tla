------------------------------ MODULE BatchLoop ------------------------------
(***************************************************************************)
(* The per-batch loop of the pipeline graph: implement, code_review,       *)
(* code_fix, code_verify, close_batch, the escalate node a human answers,  *)
(* and the routers between them (pipeline_graph/nodes/implement.py,        *)
(* review.py, common.py, graph.py), over the git working copy they share.  *)
(*                                                                         *)
(* LangGraph checkpoints the state after every node, so a node is one      *)
(* atomic action unless the process dies or the node raises in the middle: *)
(* ProcessCrash and NodeException keep the effects the node already had on *)
(* the working copy and lose the delta it would have returned.             *)
(***************************************************************************)
EXTENDS Integers, FiniteSets

CONSTANTS
  NBatches,      \* number of batches the judge wrote
  MaxTestFixes,  \* pipeline.max_test_fixes
  FixCycles,     \* resolved_fix_cycles of the run's effort level
  Tests,         \* identifiers of the tests of the repository
  DbFlaky,       \* may the e2e database be unreachable at some node?
  AgentCommits,  \* may the implementer commit its own work?
  Typos,         \* may the human type an answer that is not in the menu?
  Crashes        \* bound: process deaths in a behaviour

ASSUME BatchLoopAssumption ==
  /\ NBatches \in Nat \ {0}
  /\ MaxTestFixes \in Nat
  /\ FixCycles \in Nat
  /\ DbFlaky \in BOOLEAN
  /\ AgentCommits \in BOOLEAN
  /\ Typos \in BOOLEAN
  /\ Crashes \in Nat

VARIABLES
  next,     \* the node the checkpointer will run next
  st,       \* the channels of PipelineState the loop reads or writes
  repo,     \* the git working copy, seen from the batch's base commit
  crashes,  \* process deaths so far
  touched,  \* history: batches during which a human answered or the process died
  judged    \* history: batches given a verdict, by code_review or by force-close

vars == <<next, st, repo, crashes, touched, judged>>

-----------------------------------------------------------------------------
(* Values *)

Batches == 1..NBatches

\* Whose edits: a batch's, or (0) leftovers of a crashed run or a smoke run.
Origin == 0..NBatches

Verdicts == {"APPROVE", "REJECT", "UNKNOWN"}

\* Escalations that have the same menu and the same effects in escalate():
\* "tests" the gate's, "branch" the git guard's, "crash" a raised exception or
\* a killed agent, "generic" every other one of the loop.
Escalations == {"generic", "tests", "branch", "crash"}

None == ""

LoopNodes == {"implement", "code_review", "code_fix", "code_verify", "close_batch"}

\* "gates": all batches are built and the loop is left; "end": the run stopped.
Places == LoopNodes \cup {"escalate", "gates", "end"}

MaxCycle == IF FixCycles = 0 THEN 1 ELSE FixCycles

Channels ==
  [idx : Origin, escalation : Escalations \cup {None}, attempt : 0..MaxTestFixes,
   cycle : 0..MaxCycle, verdict : Verdicts \cup {None}, notMet : BOOLEAN,
   openBlockers : BOOLEAN, waived : BOOLEAN, baselineN : Origin,
   baseline : SUBSET Tests, taskBaseline : SUBSET Tests, baseSet : BOOLEAN]

\* tree: edits not committed yet; ahead: committed after the batch's base; wip:
\* committed behind it; shipped: the contents of each batch's own commit;
\* failing: the tests that fail on the current contents; stuck (history): the
\* untouched batches at whose base git refused to commit the leftovers.
WorkingCopies ==
  [tree : SUBSET Origin, ahead : SUBSET Origin, wip : SUBSET Origin,
   shipped : [Batches -> SUBSET Origin], failing : SUBSET Tests, stuck : SUBSET Batches]

-----------------------------------------------------------------------------
(* Derived state *)

Batch == st.idx + 1

\* What `git diff <batch_base_ref>` and `git ls-files -o` show: the edits after
\* the base commit, committed or not.  Edits are not supposed to cancel out.
Diff(s, r) == IF s.baseSet THEN r.ahead \cup r.tree ELSE r.tree

\* after() and the routers: a pending escalation wins over every other choice.
Route(s, dest) == IF s.escalation # None THEN "escalate" ELSE dest

Step(s, r, dest) ==
  /\ st' = s
  /\ repo' = r
  /\ next' = Route(s, dest)
  /\ UNCHANGED crashes

Escalate(s, r, reason) ==
  Step([s EXCEPT !.escalation = reason], r, "escalate")

\* A coding agent ran: it may have edited nothing, left its edits in the working
\* tree, or committed everything; any test may fail afterwards.
Edited(r) ==
  {r} \cup
  {[r EXCEPT !.tree = @ \cup {Batch}, !.failing = F] : F \in SUBSET Tests} \cup
  (IF AgentCommits
   THEN {[r EXCEPT !.tree = {}, !.ahead = @ \cup r.tree \cup {Batch}, !.failing = F] :
           F \in SUBSET Tests}
   ELSE {})

-----------------------------------------------------------------------------
\* The judge wrote the batches.  The debate may leave blockers open, and a "skip" of
\* an earlier escalation its approval, with which an answer to the escalation of
\* the rejected plan goes straight to code_review or close_batch.  A run that was
\* redone from the plan keeps the waiver of the tests, the baselines and the base
\* of the batch it was at, and the edits of the build it gave up.  An invalid answer
\* to an earlier escalation leads here too, with the escalation still pending.
Init ==
  /\ \E e \in IF Typos THEN {None, "generic", "crash"} ELSE {None},
        v \in {None, "APPROVE"}, ob, redone \in BOOLEAN, B \in SUBSET Tests :
       st = [idx |-> 0, escalation |-> e, attempt |-> 0, cycle |-> 0,
             verdict |-> v, notMet |-> FALSE, openBlockers |-> ob,
             waived |-> redone, baselineN |-> IF redone THEN 1 ELSE 0,
             baseline |-> IF redone THEN B ELSE {},
             taskBaseline |-> IF redone THEN B ELSE {}, baseSet |-> redone]
  /\ next \in {"implement"} \cup
       (CASE st.verdict = None -> {}
          [] st.verdict # None /\ st.openBlockers -> {"code_review"}
          [] OTHER -> {"close_batch"})
  /\ \E dirt \in {{}, {0}}, past \in {{}, {0}}, F \in SUBSET Tests :
       repo = [tree |-> dirt, ahead |-> IF st.waived THEN past ELSE {}, wip |-> {},
               shipped |-> [k \in Batches |-> {}], failing |-> F, stuck |-> {}]
  /\ crashes = 0
  /\ touched = IF next = "implement" /\ ~st.waived THEN {} ELSE {1}
  /\ judged = {}

-----------------------------------------------------------------------------
(* implement *)

DbUp == IF DbFlaky THEN BOOLEAN ELSE {TRUE}

\* _capture_test_baseline returns at once for a batch it already captured.
NeedsBaseline(db) == db /\ st.baselineN # Batch

Captured(db) ==
  IF NeedsBaseline(db)
  THEN [st EXCEPT !.baselineN = Batch,
                  !.baseline = repo.failing,
                  !.taskBaseline = IF @ = {} THEN repo.failing ELSE @]
  ELSE st

\* On a first attempt leftovers get a WIP commit of their own and the batch's
\* base becomes the new HEAD.
BasedState(s) == IF s.attempt = 0 THEN [s EXCEPT !.baseSet = TRUE] ELSE s

\* Mutant: the base is taken again before every attempt.
RebasedEveryAttempt == [repo EXCEPT !.wip = @ \cup repo.tree, !.tree = {}, !.ahead = {}]

\* Mutant: leftovers stay in the tree.
LeftoversStay == IF st.attempt = 0 THEN [repo EXCEPT !.ahead = {}] ELSE repo

BasedRepo ==
  IF st.attempt = 0
  THEN [repo EXCEPT !.wip = @ \cup repo.tree, !.tree = {}, !.ahead = {}]
  ELSE repo

\* _git drops the exit code: when a hook refuses the WIP commit the leftovers stay in
\* the tree, and the base is taken all the same.
StuckRepo == [repo EXCEPT !.ahead = {}, !.stuck = @ \cup ({Batch} \ touched)]

\* The working copies the implementer may be sent to.
Bases ==
  {BasedRepo} \cup (IF st.attempt = 0 /\ repo.tree # {} THEN {StuckRepo} ELSE {})

\* ... and those it may leave.
Implemented == UNION {Edited(r) : r \in Bases}

ImplementWaived ==
  /\ next = "implement"
  /\ st.waived
  /\ Step([st EXCEPT !.attempt = 0, !.cycle = 0], repo, "code_review")
  /\ UNCHANGED <<touched, judged>>

\* The suite produced no real failure list: nothing is captured, nothing runs.
BaselineUnmeasurable ==
  /\ next = "implement"
  /\ ~st.waived
  /\ \E db \in DbUp : NeedsBaseline(db)
  /\ Escalate(st, repo, "generic")
  /\ UNCHANGED <<touched, judged>>

ImplementRefusesBranch ==
  /\ next = "implement"
  /\ ~st.waived
  /\ st.attempt = 0
  /\ \E db \in DbUp : Escalate(Captured(db), repo, "branch")
  /\ UNCHANGED <<touched, judged>>

\* PLAN_DISCREPANCY and WRITE_ESCAPE are generic; a signal counts as a crash.
ImplementerStops ==
  /\ next = "implement"
  /\ ~st.waived
  /\ \E db \in DbUp, r \in Implemented, reason \in {"generic", "crash"} :
       Escalate(BasedState(Captured(db)), r, reason)
  /\ UNCHANGED <<touched, judged>>

\* Mutant: the retry is not counted.
RetryUncounted(s, r, reason) ==
  IF st.attempt + 1 > MaxTestFixes
  THEN Escalate(s, r, reason)
  ELSE Step(s, r, "implement")

\* Another attempt, or an escalation once the attempts are spent.
RetryOrEscalate(s, r, reason) ==
  IF st.attempt + 1 > MaxTestFixes
  THEN Escalate(s, r, reason)
  ELSE Step([s EXCEPT !.attempt = st.attempt + 1], r, "implement")

ImplementerFails ==
  /\ next = "implement"
  /\ ~st.waived
  /\ \E db \in DbUp, r \in Implemented :
       RetryOrEscalate(BasedState(Captured(db)), r, "generic")
  /\ UNCHANGED <<touched, judged>>

\* _in_graph_test_gate: failures that are not in the batch's baseline.
NewFailures(s, r, db) == IF db THEN r.failing \ s.baseline ELSE {}

GateFails ==
  /\ next = "implement"
  /\ ~st.waived
  /\ \E db \in DbUp, r \in Implemented :
       /\ NewFailures(Captured(db), r, db) # {}
       /\ RetryOrEscalate(BasedState(Captured(db)), r, "tests")
  /\ UNCHANGED <<touched, judged>>

ImplementDone ==
  /\ next = "implement"
  /\ ~st.waived
  /\ \E db \in DbUp, r \in Implemented :
       LET s == BasedState(Captured(db)) IN
       /\ NewFailures(s, r, db) = {}
       /\ IF s.baseSet /\ Diff(s, r) = {}
          THEN Escalate(s, r, "generic")
          ELSE Step([s EXCEPT !.attempt = 0, !.cycle = 0], r, "code_review")
  /\ UNCHANGED <<touched, judged>>

Implement ==
  \/ ImplementWaived
  \/ BaselineUnmeasurable
  \/ ImplementRefusesBranch
  \/ ImplementerStops
  \/ ImplementerFails
  \/ GateFails
  \/ ImplementDone

-----------------------------------------------------------------------------
(* code_review, code_fix, code_verify *)

Unresolved(s) == s.notMet \/ s.openBlockers

\* The reviewer's output was not usable: no channel but escalation is written.
ReviewerUntrusted ==
  /\ next \in {"code_review", "code_verify"}
  /\ Escalate(st, repo, "generic")
  /\ UNCHANGED <<touched, judged>>

Judged(v, nm, ob) ==
  [st EXCEPT !.verdict = v, !.notMet = nm, !.openBlockers = ob, !.cycle = 0]

\* An empty diff and no verdict (or "not applicable"): never close on it.
ReviewOfNothing ==
  /\ next = "code_review"
  /\ Diff(st, repo) = {}
  /\ \E v \in Verdicts, nm \in BOOLEAN :
       Escalate(Judged(v, nm, TRUE), repo, "generic")
  /\ judged' = judged \cup {Batch}
  /\ UNCHANGED touched

\* Nearly every item NOT MET although there is a diff: suspected wrong diff.
ReviewMismatch ==
  /\ next = "code_review"
  /\ Diff(st, repo) # {}
  /\ \E v \in Verdicts, ob \in BOOLEAN :
       Escalate(Judged(v, TRUE, ob), repo, "generic")
  /\ judged' = judged \cup {Batch}
  /\ UNCHANGED touched

ReviewDone ==
  /\ next = "code_review"
  /\ \E v \in Verdicts, nm, ob \in BOOLEAN :
       /\ ~(Diff(st, repo) = {} /\ v = "UNKNOWN")
       /\ Step(Judged(v, nm, ob), repo, IF nm \/ ob THEN "code_fix" ELSE "close_batch")
  /\ judged' = judged \cup {Batch}
  /\ UNCHANGED touched

\* Mutant: the cycle is not counted.
CodeFixUncounted ==
  /\ next = "code_fix"
  /\ \E r \in Edited(repo) : Step(st, r, "code_verify") \/ Escalate(st, r, "generic")
  /\ UNCHANGED <<touched, judged>>

CodeFix ==
  /\ next = "code_fix"
  /\ LET s == [st EXCEPT !.cycle = @ + 1] IN
     \E r \in Edited(repo) :
       \/ Step(s, r, "code_verify")
       \/ Escalate(s, r, "generic")      \* the implementer disputed items
  /\ UNCHANGED <<touched, judged>>

\* Mutant: a spent budget closes the batch instead of asking.
VerifyGivesUp ==
  /\ next = "code_verify"
  /\ Step(st, repo, IF st.cycle < FixCycles /\ Unresolved(st) THEN "code_fix" ELSE "close_batch")
  /\ UNCHANGED <<touched, judged>>

VerifyNotFixed ==
  /\ next = "code_verify"
  /\ IF st.cycle >= FixCycles
     THEN Escalate(st, repo, "generic")
     ELSE Step(st, repo, IF Unresolved(st) THEN "code_fix" ELSE "close_batch")
  /\ UNCHANGED <<touched, judged>>

VerifyConfirmed ==
  /\ next = "code_verify"
  /\ Step([st EXCEPT !.notMet = FALSE, !.openBlockers = FALSE], repo, "close_batch")
  /\ UNCHANGED <<touched, judged>>

Review ==
  \/ ReviewerUntrusted
  \/ ReviewOfNothing
  \/ ReviewMismatch
  \/ ReviewDone
  \/ CodeFix
  \/ VerifyNotFixed
  \/ VerifyConfirmed

-----------------------------------------------------------------------------
(* close_batch *)

CloseRefusesBranch ==
  /\ next = "close_batch"
  /\ Escalate(st, repo, "branch")
  /\ UNCHANGED <<touched, judged>>

\* `git add -A` and `git commit`: everything in the tree becomes one commit.
\* It fails when there is nothing to commit, or when a hook refuses it.
CommitTree(r) == [r EXCEPT !.shipped[Batch] = @ \cup r.tree, !.ahead = @ \cup r.tree, !.tree = {}]

\* Mutant: nothing to commit counts as done.
CloseWithoutCommit ==
  /\ next = "close_batch"
  /\ Step([st EXCEPT !.idx = @ + 1, !.cycle = 0], repo,
          IF Batch < NBatches THEN "implement" ELSE "gates")
  /\ UNCHANGED <<touched, judged>>

\* Nothing differs from the base, or HEAD did not advance.
CloseRefuses ==
  /\ next = "close_batch"
  /\ Escalate(st, repo, "generic")
  /\ UNCHANGED <<touched, judged>>

\* Mutant: a diff against the base is enough, whether or not HEAD advances.
CloseOnDiff ==
  /\ next = "close_batch"
  /\ Diff(st, repo) # {}
  /\ Step([st EXCEPT !.idx = @ + 1, !.cycle = 0, !.waived = FALSE,
                     !.baselineN = 0, !.baseline = {}],
          CommitTree(repo),
          IF Batch < NBatches THEN "implement" ELSE "gates")
  /\ UNCHANGED <<touched, judged>>

CloseBatch ==
  /\ next = "close_batch"
  /\ repo.tree # {}
  /\ Step([st EXCEPT !.idx = @ + 1, !.cycle = 0, !.waived = FALSE,
                     !.baselineN = 0, !.baseline = {}],
          CommitTree(repo),
          IF Batch < NBatches THEN "implement" ELSE "gates")
  /\ UNCHANGED <<touched, judged>>

Close == CloseRefusesBranch \/ CloseRefuses \/ CloseBatch

-----------------------------------------------------------------------------
(* escalate: the human's answer, and where the run resumes *)

\* _escalation_options: the canonical keys of each menu.  The universal stop
\* keys are accepted everywhere.
Menu(reason) == IF reason \in {"branch", "crash"} THEN {"ok"} ELSE {"ok", "skip"}

\* Mutant: an approval closes the batch whatever is still open.
ReturnOnApproval(s) ==
  CASE s.idx = NBatches -> "gates"
    [] s.idx < NBatches /\ s.verdict = "APPROVE" -> "close_batch"
    [] s.idx < NBatches /\ s.verdict # "APPROVE"
         /\ (s.waived \/ s.cycle > 0 \/ s.verdict # None) -> "code_review"
    [] OTHER -> "implement"

\* route_escalation_return, restricted to a run whose batches exist.
ReturnTo(s) ==
  CASE s.idx = NBatches -> "gates"
    [] s.idx < NBatches /\ s.verdict = "APPROVE" /\ ~s.openBlockers -> "close_batch"
    [] s.idx < NBatches /\ ~(s.verdict = "APPROVE" /\ ~s.openBlockers)
         /\ (s.waived \/ s.cycle > 0 \/ s.verdict # None) -> "code_review"
    [] OTHER -> "implement"

\* escalate() returns s; the edge out of it does not look at `escalation`.
Resume(s) ==
  /\ next = "escalate"
  /\ st' = s
  /\ next' = ReturnTo(s)
  /\ touched' = touched \cup {Batch}
  /\ UNCHANGED <<repo, crashes>>

\* The base delta of every recognised answer.
Answered == [st EXCEPT !.escalation = None, !.attempt = 0]

AnswerOk ==
  /\ Resume(CASE st.escalation = "crash" ->
                [Answered EXCEPT !.verdict = None, !.notMet = FALSE, !.openBlockers = FALSE]
              [] st.escalation = "tests" -> [Answered EXCEPT !.waived = TRUE]
              [] OTHER -> Answered)
  /\ UNCHANGED judged

AnswerSkip ==
  /\ "skip" \in Menu(st.escalation)
  /\ judged' = judged \cup {Batch}
  /\ Resume([Answered EXCEPT !.verdict = "APPROVE", !.notMet = FALSE, !.openBlockers = FALSE])

AnswerStop ==
  /\ next = "escalate"
  /\ st' = Answered
  /\ next' = "end"
  /\ touched' = touched \cup {Batch}
  /\ UNCHANGED <<repo, crashes, judged>>

\* The picker of the paused session passes on what was typed; escalate() keeps
\* the reason and returns it as its whole delta.
AnswerInvalid ==
  /\ Typos
  /\ Resume(st)
  /\ UNCHANGED judged

Human == AnswerOk \/ AnswerSkip \/ AnswerStop \/ AnswerInvalid

-----------------------------------------------------------------------------
(* Failures in the middle of a node *)

\* What the interrupted node may have done to the working copy.
Partial ==
  CASE next = "implement" /\ ~st.waived -> {repo} \cup Implemented
    [] next = "code_fix" -> Edited(repo)
    [] next = "close_batch" -> {repo, CommitTree(repo)}
    [] OTHER -> {repo}

\* instrument() turns an exception into an escalation and drops the delta.
NodeException ==
  /\ next \in LoopNodes
  /\ \E r \in Partial : Escalate(st, r, "crash")
  /\ UNCHANGED <<touched, judged>>

\* The process dies; `resume` runs the same node again from its last checkpoint.
ProcessCrash ==
  /\ next \in LoopNodes
  /\ crashes < Crashes
  /\ repo' \in Partial
  /\ crashes' = crashes + 1
  /\ touched' = touched \cup {Batch}
  /\ UNCHANGED <<next, st, judged>>

-----------------------------------------------------------------------------
(* The loop may be left for the gates or stopped: nothing more happens here. *)
Left ==
  /\ next \in {"gates", "end"}
  /\ UNCHANGED vars

Nodes == Implement \/ Review \/ Close \/ NodeException

Next == Nodes \/ Human \/ ProcessCrash \/ Left

\* The stream loop of run.py keeps running the next node until a pause.
Fairness == WF_vars(Nodes)

Spec == Init /\ [][Next]_vars /\ Fairness
-----------------------------------------------------------------------------
(* Safety *)

\* Every variable keeps its type.
TypeOK ==
  /\ next \in Places
  /\ st \in Channels
  /\ repo \in WorkingCopies
  /\ crashes \in 0..Crashes
  /\ touched \subseteq 1..(NBatches + 1)
  /\ judged \subseteq 1..(NBatches + 1)

\* A batch with open blockers never reaches close_batch, on whichever of the
\* routes there: from a review, from a verify, from a human's answer to an
\* escalation, or again after a crash (graph.py: route_code_review,
\* route_code_verify, route_escalation_return).
OpenBlockersBlockClose == next = "close_batch" => ~st.openBlockers

\* The fix loop stays inside its budget although fix_cycle is reset by a new
\* review and survives escalations, answers and crashes: the implementer is sent
\* to fix a batch only while cycles are left (review.py:115-196).
FixBudget == next = "code_fix" => st.cycle < MaxCycle

\* A batch the run went past has a commit of its own with something in it: no
\* answer, crash or failed commit makes the loop count an uncommitted batch as
\* DONE (implement.py:416-459).
ClosedIsCommitted == \A k \in 1..st.idx : repo.shipped[k] # {}

\* A batch no human touched and no crash interrupted reaches close_batch only
\* after a review of it, with no NOT MET item and no blocker left.
UnattendedCloseIsReviewed ==
  (next = "close_batch" /\ Batch \notin touched) =>
    (Batch \in judged /\ ~Unresolved(st))

\* In such a batch the reviewer's diff holds everything the batch did: none of
\* its edits went into a WIP commit behind the base, however often the test gate
\* sent the implementer back (the attempt-0 guard of implement.py:172-189).
UnattendedDiffIsWhole ==
  (next = "code_review" /\ Batch \notin touched) => Batch \notin repo.wip

\* The commit of such a batch holds its own edits and nothing else, unless git refused
\* the commit its leftovers were to have of their own: no edit of a crashed or a smoke
\* run or of another batch, however often the implementer was sent back
\* (implement.py:181-189, 438).
UnattendedCommitIsOwn == \A k \in Batches \ (touched \cup repo.stuck) : repo.shipped[k] \subseteq {k}

-----------------------------------------------------------------------------
(* Refinement: the loop implements the batch ledger *)

CommittedBatches == {k \in Batches : repo.shipped[k] # {}}

Over == CASE next = "gates" -> "built"
          [] next = "end" -> "stopped"
          [] OTHER -> "no"

Ledger == INSTANCE BatchLedger
            WITH closed <- st.idx, committed <- CommittedBatches, over <- Over

\* Batches are committed, closed and handed over as the ledger says.
ImplementsLedger == Ledger!LedgerSpec

-----------------------------------------------------------------------------
(* Progress *)

\* The most nodes that still run in the batch: attempts, then reviews and fixes.
Work ==
  CASE next = "implement" -> 2 * MaxCycle + 4 + MaxTestFixes - st.attempt
    [] next = "code_review" -> 2 * MaxCycle + 3
    [] next = "code_verify" -> 2 * (MaxCycle - st.cycle) + 2
    [] next = "code_fix" -> 2 * (MaxCycle - st.cycle) + 1
    [] OTHER -> 0

\* A node asks, leaves the loop, closes the batch, or leaves less to do: no two nodes
\* send a batch back and forth on counters that the one resets and the other reads
\* (test_fix_attempt, implement.py:303-344; fix_cycle, review.py:115-196).
WorkShrinks ==
  [][Nodes =>
       \/ next' \in {"escalate", "gates"}
       \/ Work' \in Nat /\ (st'.idx > st.idx \/ (st'.idx = st.idx /\ Work' < Work))]_vars

-----------------------------------------------------------------------------
(* Liveness *)

\* The loop never spins on its own: again and again it asks a human, hands over
\* to the gates, or has stopped.
AsksOrLeaves == []<>(next \in {"escalate", "gates", "end"})
=============================================================================
