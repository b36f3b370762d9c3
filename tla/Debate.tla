-------------------------------- MODULE Debate --------------------------------
(***************************************************************************)
(* From the brief to an approved decomposition: plan, checkpoint_effort,   *)
(* the debate (debate_tech, debate_ux, debate_reply), summary, judge and   *)
(* checkpoint_plan, with the debate's escalations, what a human's answer   *)
(* to each does to the channels, and where the run resumes                 *)
(* (nodes/planning.py, debate.py, finalize.py, common.py, graph.py,        *)
(* run.py).                                                                *)
(*                                                                         *)
(* The interview is one abstract node, "intake"; "implement",              *)
(* "code_review" and "close_batch" are the ways into BatchLoop.            *)
(***************************************************************************)
EXTENDS Integers, FiniteSets

CONSTANTS
  Rounds,        \* debate rounds of the effort levels that debate
  Eyes,          \* eyes_engaged: the designer takes part
  AutoMode,      \* --auto: nobody approves the plan
  MaxReintakes,  \* MAX_REQUIREMENTS_REINTAKES
  StuckRounds,   \* DEBATE_STUCK_ROUNDS, DEBATE_THRASH_ROUNDS
  MaxBlockers,   \* bound: blockers of one critique
  MaxBonus,      \* bound: debate_round_bonus
  Typos,         \* may the human type an answer that is not in the menu?
  Redo           \* may the human give a `redo` command?

ASSUME DebateAssumption ==
  /\ Rounds \in Nat
  /\ Eyes \in BOOLEAN
  /\ AutoMode \in BOOLEAN
  /\ MaxReintakes \in Nat
  /\ StuckRounds \in Nat
  /\ MaxBlockers \in Nat
  /\ MaxBonus \in Nat
  /\ Typos \in BOOLEAN
  /\ Redo \in BOOLEAN

VARIABLES
  next,    \* the node the checkpointer will run next
  d,       \* the channels of PipelineState these nodes read or write
  files,   \* the artifacts on disk
  past     \* history: what happened since the plan being debated was written

vars == <<next, d, files, past>>

-----------------------------------------------------------------------------
(* Values *)

None == ""

Counts == 0..MaxBlockers

\* What a critique counts as: its own verdict, else the last one in the debate file,
\* else UNKNOWN, which has the effects of a REJECT.
Verdicts == {"APPROVE", "APPROVE_WITH_CHANGES", "REJECT"}

Efforts == {"scout-monke", "troop-monke"}

\* Escalations that have the same menu and the same effects: "exhaustedUx" is an
\* exhausted debate whose text names the designer, "critic" a critique that
\* cannot be trusted, "rejected" the human's refusal of the plan, "plain" every
\* other one without a branch of its own.
Escalations == {"stuck", "thrashing", "requirements", "exhausted", "exhaustedUx", "critic",
                "judge", "crash", "rejected", "plain"}

DebateNodes == {"debate_tech", "debate_ux", "debate_reply"}

Nodes == {"intake", "plan", "checkpoint_effort", "summary", "judge"} \cup DebateNodes

LoopEntries == {"implement", "code_review", "close_batch"}

\* debate_round is capped one above the highest round that is not a verification:
\* beyond it nothing tells the values apart.
TopRound == Rounds + MaxBonus + 1

CapAt(n, top) == IF n > top THEN top ELSE n

\* tech, ux: did the critic give a plain APPROVE?  open, uxOpen: its open blockers.
Channels ==
  [esc : Escalations \cup {None}, effort : Efforts \cup {None}, intakeDone : BOOLEAN,
   round : 0..TopRound, bonus : 0..MaxBonus, grace : 0..(TopRound + 2),
   tech : BOOLEAN, open : Counts, ux : BOOLEAN, uxOpen : Counts,
   batches : BOOLEAN, retryJudge : BOOLEAN, forced : BOOLEAN, reintakes : 0..MaxReintakes]

\* plan: is there one?  gaps: the last round of the debate file blames the requirements.
Artifacts == [plan : BOOLEAN, gaps : BOOLEAN]

Events == {"asked", "redone"}

-----------------------------------------------------------------------------
(* Helpers *)

\* resolved_debate_rounds
Cap(s) == (IF s.effort = "scout-monke" THEN 0 ELSE Rounds) + s.bonus

\* The debate file and the UX review are deleted or archived.
NoDebateFile(f) == [f EXCEPT !.gaps = FALSE]

Route(s, dest) == IF s.esc # None THEN "escalate" ELSE dest

Step(s, dest) ==
  /\ d' = s
  /\ next' = Route(s, dest)

Escalate(s, reason) == Step([s EXCEPT !.esc = reason], "escalate")

\* Batches and debate channels as `redo` and `re-intake` reset them.
DebateReset(s) ==
  [s EXCEPT !.esc = None, !.round = 0, !.bonus = 0, !.tech = FALSE, !.open = 0, !.ux = FALSE,
            !.uxOpen = 0, !.batches = FALSE, !.forced = FALSE]

-----------------------------------------------------------------------------
Init ==
  /\ next \in {"intake", "plan"}
  /\ d = [esc |-> None, effort |-> None, intakeDone |-> next = "plan", round |-> 0, bonus |-> 0,
          grace |-> 0, tech |-> FALSE, open |-> 0, ux |-> FALSE, uxOpen |-> 0,
          batches |-> FALSE, retryJudge |-> FALSE, forced |-> FALSE, reintakes |-> 0]
  /\ files = [plan |-> FALSE, gaps |-> FALSE]
  /\ past = {}

\* The interview ends with a brief, or its rounds are spent on failures and the
\* plan starts without one.  It counts as a re-intake when it closed a gap.
Intake ==
  /\ next = "intake"
  /\ \E done \in BOOLEAN, n \in {d.reintakes, CapAt(d.reintakes + 1, MaxReintakes)} :
       /\ ~done => n = d.reintakes
       /\ Step([d EXCEPT !.intakeDone = done, !.reintakes = n], "plan")
  /\ UNCHANGED <<files, past>>

-----------------------------------------------------------------------------
(* plan and checkpoint_effort *)

PlanFails ==
  /\ next = "plan"
  /\ Escalate(d, "plain")
  /\ UNCHANGED <<files, past>>

\* A plan the proposer printed is saved only if there is no file yet.
PlanKept ==
  /\ next = "plan"
  /\ files.plan
  /\ Step([d EXCEPT !.round = 0], "checkpoint_effort")
  /\ past' = past \ {"asked"}
  /\ UNCHANGED files

PlanWritten ==
  /\ next = "plan"
  /\ Step([d EXCEPT !.round = 0], "checkpoint_effort")
  /\ files' = [files EXCEPT !.plan = TRUE]
  /\ past' = past \ {"asked"}

\* An effort that is set is kept; else the hint or the human decides.
EffortChosen ==
  /\ next = "checkpoint_effort"
  /\ \E e \in IF d.effort = None THEN Efforts ELSE {d.effort} :
       Step([d EXCEPT !.effort = e], IF e = "scout-monke" THEN "summary" ELSE "debate_tech")
  /\ UNCHANGED <<files, past>>

EffortStop ==
  /\ next = "checkpoint_effort"
  /\ ~AutoMode
  /\ d.effort = None
  /\ next' = "end"
  /\ UNCHANGED <<d, files, past>>

Planning == PlanFails \/ PlanKept \/ PlanWritten \/ EffortChosen \/ EffortStop

-----------------------------------------------------------------------------
(* The debate *)

\* A trend over the last rounds, unless the human's `continue` still covers this one.
Trends(s) ==
  IF s.round < StuckRounds \/ (s.grace > 0 /\ s.round <= s.grace)
  THEN {None}
  ELSE {None, "stuck", "thrashing"}

\* Mutant of Decision: the verification comes one round late.
DecisionLate(s) ==
  CASE s.tech /\ s.open = 0 /\ (Eyes => s.ux /\ s.uxOpen = 0) -> "summary"
    [] s.round > Cap(s) + 1 /\ s.open + s.uxOpen = 0 -> "summary"
    [] s.round > Cap(s) + 1 /\ s.open + s.uxOpen > 0 ->
         IF s.uxOpen > 0 THEN "exhaustedUx" ELSE "exhausted"
    [] OTHER -> "debate_reply"

\* _debate_decision: a node, or the escalation of an exhausted debate.
Decision(s) ==
  CASE s.tech /\ s.open = 0 /\ (Eyes => s.ux /\ s.uxOpen = 0) -> "summary"
    [] s.round > Cap(s) /\ s.open + s.uxOpen = 0 -> "summary"
    [] s.round > Cap(s) /\ s.open + s.uxOpen > 0 ->
         IF s.uxOpen > 0 THEN "exhaustedUx" ELSE "exhausted"
    [] OTHER -> "debate_reply"

\* Mutant of Decide: a trend hides the REQUIREMENTS blocker.
DecideTrendOnly(s, gaps, trend) ==
  LET choice == IF trend # None THEN trend ELSE Decision(s) IN
  IF choice \in Escalations THEN Escalate(s, choice) ELSE Step(s, choice)

\* Both critiques are in: requirements before stuck, thrashing and the decision.
Decide(s, gaps, trend) ==
  LET choice == CASE gaps -> "requirements"
                  [] ~gaps /\ trend # None -> trend
                  [] OTHER -> Decision(s) IN
  IF choice \in Escalations THEN Escalate(s, choice) ELSE Step(s, choice)

Ships(v) == v \in {"APPROVE", "APPROVE_WITH_CHANGES"}

TechUntrusted ==
  /\ next = "debate_tech"
  /\ Escalate([d EXCEPT !.round = CapAt(@ + 1, TopRound)], "critic")
  /\ UNCHANGED <<files, past>>

\* Mutant of TechReview: the rounds are not counted on.
TechReviewUncounted ==
  /\ next = "debate_tech"
  /\ \E v \in Verdicts, n \in Counts, gaps \in BOOLEAN :
       /\ Step([d EXCEPT !.round = 1, !.tech = v = "APPROVE", !.open = IF Ships(v) THEN 0 ELSE n],
               IF Eyes THEN "debate_ux" ELSE "debate_reply")
       /\ files' = [files EXCEPT !.gaps = gaps]
  /\ UNCHANGED past

TechReview ==
  /\ next = "debate_tech"
  /\ \E v \in Verdicts, n \in Counts, gaps \in BOOLEAN :
       LET s == [d EXCEPT !.round = CapAt(@ + 1, TopRound), !.tech = v = "APPROVE",
                          !.open = IF Ships(v) THEN 0 ELSE n] IN
       /\ IF Eyes
          THEN Step(s, "debate_ux")
          ELSE \E trend \in Trends(s) : Decide(s, gaps, trend)
       /\ files' = [files EXCEPT !.gaps = gaps]
  /\ UNCHANGED past

\* No verdict in any attempt, or output that is not trusted in spite of one.
UxUnusable ==
  /\ next = "debate_ux"
  /\ \E reason \in {"plain", "critic"} :
       Escalate([d EXCEPT !.ux = FALSE, !.uxOpen = 0], reason)
  /\ UNCHANGED <<files, past>>

\* A bare approval that does not walk the designer's blockers keeps them open.
UxReview ==
  /\ next = "debate_ux"
  /\ \E said \in Verdicts, n \in Counts, walked, gaps \in BOOLEAN :
       LET bare == said = "APPROVE" /\ d.round > 1 /\ d.uxOpen > 0 /\ ~walked
           s == [d EXCEPT !.ux = said = "APPROVE" /\ ~bare,
                          !.uxOpen = CASE bare -> d.uxOpen
                                       [] ~bare /\ Ships(said) -> 0
                                       [] OTHER -> n]
           tagged == files.gaps \/ gaps IN
       /\ \E trend \in Trends(s) : Decide(s, tagged, trend)
       /\ files' = [files EXCEPT !.gaps = tagged]
  /\ UNCHANGED past

\* A patch or a whole plan replaces the plan as it was; without either, whatever the
\* proposer did to the file is undone.
Reply ==
  /\ next = "debate_reply"
  /\ Step(d, "debate_tech")
  /\ UNCHANGED <<files, past>>

ReplyMalformed ==
  /\ next = "debate_reply"
  /\ Escalate(d, "plain")
  /\ UNCHANGED <<files, past>>

Debating ==
  \/ TechUntrusted
  \/ TechReview
  \/ UxUnusable
  \/ UxReview
  \/ Reply
  \/ ReplyMalformed

-----------------------------------------------------------------------------
(* summary, judge, checkpoint_plan *)

SummaryUntrusted ==
  /\ next = "summary"
  /\ Escalate(d, "plain")
  /\ UNCHANGED <<files, past>>

SummaryWritten ==
  /\ next = "summary"
  /\ Step(d, "judge")
  /\ UNCHANGED <<files, past>>

\* It escalated, or wrote no batches, or batches that are refused.
JudgeEscalates ==
  /\ next = "judge"
  /\ Escalate(d, "judge")
  /\ UNCHANGED <<files, past>>

\* Its output is not trusted and there is no report on disk.
JudgeUntrusted ==
  /\ next = "judge"
  /\ Escalate(d, "plain")
  /\ UNCHANGED <<files, past>>

JudgeDone ==
  /\ next = "judge"
  /\ Step([d EXCEPT !.batches = TRUE, !.retryJudge = FALSE], "checkpoint_plan")
  /\ UNCHANGED <<files, past>>

Judging == SummaryUntrusted \/ SummaryWritten \/ JudgeEscalates \/ JudgeUntrusted \/ JudgeDone

PlanApproved ==
  /\ next = "checkpoint_plan"
  /\ Step(d, "implement")
  /\ UNCHANGED <<files, past>>

PlanRejected ==
  /\ next = "checkpoint_plan"
  /\ ~AutoMode
  /\ Escalate(d, "rejected")
  /\ UNCHANGED <<files, past>>

-----------------------------------------------------------------------------
(* escalate *)

\* The canonical keys of the menus; the universal stop keys are always accepted.
Menu(s) ==
  CASE s.esc \in {"stuck", "thrashing"} -> {"continue", "redo", "ok"}
    [] s.esc = "requirements" ->
         {"continue", "redo", "re-intake"} \cup (IF s.reintakes >= MaxReintakes THEN {"ok"} ELSE {})
    [] s.esc = "exhausted" -> {"ok", "skip", "continue", "redo"}
    [] s.esc = "exhaustedUx" -> {"ok", "skip", "redo"}
    [] s.esc \in {"judge", "crash"} -> {"ok"}
    [] OTHER -> {"ok", "skip"}

\* Mutant of ReturnTo: whoever has no batches goes on to the verdict.
ReturnToVerdict(s) ==
  CASE s.retryJudge -> "judge"
    [] ~s.retryJudge /\ ~s.intakeDone -> "intake"
    [] ~s.retryJudge /\ s.intakeDone /\ ~s.batches -> IF s.bonus > 0 THEN "debate_tech" ELSE "summary"
    [] OTHER -> "implement"

\* route_escalation_return before the first batch.  redo_debate is no channel of
\* the graph: it never arrives here.
ReturnTo(s) ==
  CASE s.retryJudge -> "judge"
    [] ~s.retryJudge /\ ~s.intakeDone -> "intake"
    [] ~s.retryJudge /\ s.intakeDone /\ ~s.batches ->
         CASE s.bonus > 0 -> "debate_tech"
           [] s.bonus = 0 /\ s.round > 0 -> "summary"
           [] OTHER -> "plan"
    [] OTHER ->
         CASE s.forced /\ s.open = 0 -> "close_batch"
           [] s.forced /\ s.open > 0 -> "code_review"
           [] OTHER -> "implement"

\* The edge out of escalate does not look at the escalation.
Resume(s) ==
  /\ next = "escalate"
  /\ d' = s
  /\ next' = ReturnTo(s)
  /\ past' = past \cup {"asked"}

\* The base delta of every recognised answer.
Answered == [d EXCEPT !.esc = None, !.grace = 0]

AnswerOk ==
  /\ "ok" \in Menu(d)
  /\ Resume(CASE d.esc = "crash" -> [Answered EXCEPT !.forced = FALSE, !.open = 0]
              [] d.esc = "judge" -> [Answered EXCEPT !.retryJudge = TRUE]
              [] d.esc \in {"stuck", "thrashing", "requirements", "exhausted", "critic"} ->
                   [Answered EXCEPT !.bonus = 0]
              [] OTHER -> Answered)
  /\ UNCHANGED files

\* Force-closes a batch there is not yet: the approval stays behind.
AnswerSkip ==
  /\ "skip" \in Menu(d)
  /\ Resume([Answered EXCEPT !.forced = TRUE, !.open = 0])
  /\ UNCHANGED files

AnswerContinue ==
  /\ "continue" \in Menu(d)
  /\ d.bonus + 2 <= MaxBonus
  /\ Resume([Answered EXCEPT !.bonus = @ + 2, !.grace = d.round + 2])
  /\ UNCHANGED files

AnswerRedo ==
  /\ "redo" \in Menu(d)
  /\ Resume([DebateReset(d) EXCEPT !.grace = 0])
  /\ files' = NoDebateFile(files)

AnswerReintake ==
  /\ "re-intake" \in Menu(d)
  /\ Resume([DebateReset(d) EXCEPT !.grace = 0, !.intakeDone = FALSE])
  /\ files' = NoDebateFile(files)

AnswerStop ==
  /\ next = "escalate"
  /\ d' = Answered
  /\ next' = "end"
  /\ past' = past \cup {"asked"}
  /\ UNCHANGED files

AnswerInvalid ==
  /\ Typos
  /\ Resume(d)
  /\ UNCHANGED files

Human ==
  \/ AnswerOk
  \/ AnswerSkip
  \/ AnswerContinue
  \/ AnswerRedo
  \/ AnswerReintake
  \/ AnswerStop
  \/ AnswerInvalid

-----------------------------------------------------------------------------
(* redo: run.py repositions a run that is not running *)

Resting == {"escalate", "checkpoint_plan", "end"} \cup LoopEntries

\* The next node is the one that would follow the node the graph is put behind.
RedoFrom(s, dest) ==
  /\ Redo
  /\ next \in Resting
  /\ \E e \in {s.effort} \cup Efforts : d' = [s EXCEPT !.effort = e]
  /\ next' = dest
  /\ files' = NoDebateFile(files)
  /\ past' = (past \ {"asked"}) \cup {"redone"}

RedoIntake == RedoFrom([DebateReset(d) EXCEPT !.grace = 0, !.intakeDone = FALSE], "intake")

RedoPlan == RedoFrom([DebateReset(d) EXCEPT !.intakeDone = TRUE], "plan")

RedoDebate == RedoFrom(DebateReset(d), "checkpoint_effort")

-----------------------------------------------------------------------------
(* Failures in the middle of a node *)

\* What the interrupted node may have left on disk.
Partial ==
  CASE next = "debate_tech" -> {[files EXCEPT !.gaps = gaps] : gaps \in BOOLEAN}
    [] next = "debate_ux" -> {files, [files EXCEPT !.gaps = TRUE]}
    [] OTHER -> {files}

NodeException ==
  /\ next \in Nodes
  /\ files' \in Partial
  /\ Escalate(d, "crash")
  /\ UNCHANGED past

\* The process dies; `resume` runs the same node again.
ProcessCrash ==
  /\ next \in Nodes
  /\ files' \in Partial
  /\ UNCHANGED <<next, d, past>>

-----------------------------------------------------------------------------
\* The batches are being built, or the run has ended.
Left ==
  /\ next \in LoopEntries \cup {"end"}
  /\ UNCHANGED vars

Node == Intake \/ Planning \/ Debating \/ Judging \/ NodeException

Gate == PlanApproved \/ PlanRejected

Next == Node \/ Gate \/ Human \/ RedoIntake \/ RedoPlan \/ RedoDebate \/ ProcessCrash \/ Left

\* The stream loop of run.py keeps running the next node until a pause.
Fairness == WF_vars(Node)

Spec == Init /\ [][Next]_vars /\ Fairness

-----------------------------------------------------------------------------
(* Safety *)

\* Every variable keeps its type.
TypeOK ==
  /\ next \in Nodes \cup LoopEntries \cup {"checkpoint_plan", "escalate", "end"}
  /\ d \in Channels
  /\ files \in Artifacts
  /\ past \subseteq Events

\* A debate nobody intervened in reaches the summary only converged: no open
\* blocker of either critic, and none that blames the requirements
\* (debate.py:978-1037, debate.py:593-651).
UnattendedPlanConverged ==
  next = "summary" /\ d.round > 0 /\ "asked" \notin past =>
    /\ d.open = 0
    /\ d.uxOpen = 0
    /\ ~files.gaps

\* The proposer never changes the plan after the critics' last look at it: there is
\* no reply to a verification, whatever answers raised or reset the cap and the
\* round (debate.py:690-695).
NoReplyAfterVerification == next = "debate_reply" => d.round <= Cap(d)

\* In a run that was not redone no answer carries an undebated plan to the judge,
\* unless the effort level has no debate (graph.py:276-283).
JudgeAfterDebate ==
  next = "judge" /\ "redone" \notin past => d.effort = "scout-monke" \/ d.round > 0

-----------------------------------------------------------------------------
(* Progress *)

\* The most nodes that still run: two critiques and a reply in every round.  The round
\* of debate_tech is the one before.
Work ==
  LET rounds == 3 * (TopRound - d.round) IN
  CASE next = "intake" -> 3 * TopRound + 8
    [] next = "plan" -> 3 * TopRound + 7
    [] next = "checkpoint_effort" -> 3 * TopRound + 6
    [] next = "debate_tech" -> IF d.round < TopRound THEN rounds + 3 ELSE 6
    [] next = "debate_ux" -> rounds + 5
    [] next = "debate_reply" -> rounds + 4
    [] next = "summary" -> 2
    [] next = "judge" -> 1
    [] OTHER -> 0

\* A node asks, leaves the debate, or leaves less to do: whatever the critics say and
\* however the bonus was raised, the round they are in counts towards the last one
\* (debate.py:690-695).
WorkShrinks ==
  [][Node => \/ next' \in LoopEntries \cup {"checkpoint_plan", "escalate", "end"}
             \/ Work' \in Nat /\ Work' < Work]_vars

-----------------------------------------------------------------------------
(* Liveness *)

\* Critics and proposer never argue on their own for ever: again and again the run
\* waits for a human, leaves for the batches or ends.
DebateDecides ==
  []<>(next \in LoopEntries \cup {"checkpoint_plan", "escalate", "end"})
=============================================================================
