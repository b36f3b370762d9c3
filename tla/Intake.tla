-------------------------------- MODULE Intake --------------------------------
(***************************************************************************)
(* The interview and the REQUIREMENTS gaps: intake_ask, intake_wait and    *)
(* the escalations of both, the gap file that hands claims of the debate   *)
(* back to the interviewer, the in-graph re-intake and `redo --from        *)
(* intake` (nodes/intake.py, requirements_gap.py, intake_materialize.py,   *)
(* nodes/common.py, graph.py, run.py).                                     *)
(*                                                                         *)
(* The debate is one abstract node, "debate", which module Debate models   *)
(* in detail; "build" is everything after it.  The files of the interview  *)
(* are written before the delta of the node is checkpointed: a process     *)
(* that dies in between leaves the one without the other.                  *)
(***************************************************************************)
EXTENDS Integers, FiniteSets

CONSTANTS
  MaxRounds,     \* MAX_INTAKE_ROUNDS
  MaxReintakes,  \* MAX_REQUIREMENTS_REINTAKES
  MaxGaps,       \* bound: gaps on file
  MaxAnswers,    \* bound: answers in a transcript
  Typos          \* may the human type an answer that is not in the menu?

ASSUME IntakeAssumption ==
  /\ MaxRounds \in Nat \ {0}
  /\ MaxReintakes \in Nat
  /\ MaxGaps \in Nat \ {0}
  /\ MaxAnswers \in Nat
  /\ Typos \in BOOLEAN

VARIABLES
  next,  \* the node the checkpointer will run next
  s,     \* the channels of PipelineState these nodes read or write
  gap,   \* the gap file: its Status line and the number of its gaps
  desk,  \* the brief and the transcript of the interview
  past   \* history: see Pasts

vars == <<next, s, gap, desk, past>>

-----------------------------------------------------------------------------
(* Values *)

None == ""

\* "interview" is every escalation of intake_ask and intake_wait, "interviewCrash"
\* an exception in them: both name the intake and go to its branch of escalate().
\* "trend" is a stuck or a thrashing debate, "exhausted" every other escalation of it.
Escalations == {"interview", "interviewCrash", "requirements", "trend", "exhausted",
                "crash", "plain"}

Nodes == {"intake_ask", "intake_wait", "plan", "debate", "escalate"}

\* debated: debate_round > 0.  bonus: debate_round_bonus > 0.  recorded: the ledger
\* has a waived gap.  round and count are capped where nothing tells more apart.
Channels ==
  [esc : Escalations \cup {None}, round : 0..MaxRounds, done : BOOLEAN, count : 0..MaxReintakes,
   debated : BOOLEAN, bonus : BOOLEAN, recorded : BOOLEAN]

Gaps == [status : {"none", "active", "suspended", "waived"}, n : 0..MaxGaps]

\* answers: what ANSWER_RE finds in the transcript.
Desks == [brief : {"none", "seed", "other", "contract"}, questions : BOOLEAN,
          answers : 0..MaxAnswers]

\* found: how many answers came into the transcript since the interview was (re)opened.
\* broken: a node has been broken off.  plan: whether there is one, since the interview
\* was (re)opened or the plan redone, or whether a redo has jumped over it.
Pasts == [found : 0..MaxGaps, broken : BOOLEAN, plan : {"none", "made", "jumped"}]

NoGap == [status |-> "none", n |-> 0]

-----------------------------------------------------------------------------
(* Helpers *)

CapAt(n, top) == IF n > top THEN top ELSE n

NextRound == CapAt(s.round + 1, MaxRounds)

Counted == CapAt(s.count + 1, MaxReintakes)

Active == gap.status = "active"

\* _i3_gap_answered: the answers are counted, not matched.
GapsAnswered(k) == Active => k.answers >= gap.n

\* write_requirements_gap merges by claim, and whatever the file was it is active.
Raised == [status : {"active"}, n : (IF gap.n = 0 THEN 1 ELSE gap.n)..MaxGaps]

SetStatus(status) == IF gap.status = "none" THEN gap ELSE [gap EXCEPT !.status = status]

\* set_gap_status(active) of a suspended gap.
Reactivated == IF gap.status = "suspended" THEN SetStatus("active") ELSE gap

\* _seed_brief never replaces a brief.
Seeded(k) == IF k.brief = "none" THEN [k EXCEPT !.brief = "seed"] ELSE k

\* archive_intake_for_reintake.
Archived(k) == [k EXCEPT !.questions = FALSE, !.answers = 0]

\* What an interviewer may leave on the desk: questions, a brief, any of them.  The
\* expression takes the line after an empty answer for the answer, so that questions
\* alone may add to them.
Briefed(k) == {[k EXCEPT !.brief = b] : b \in {k.brief, "other", "contract"}}
Asked(k) == {[k EXCEPT !.questions = TRUE, !.answers = n] : n \in k.answers..MaxAnswers}
Interviewed(k) == Briefed(k) \cup UNION {Briefed(j) : j \in Asked(k)}

\* History: the answers that came in.
Noted(k) ==
  [past EXCEPT !.found =
     IF k.answers > desk.answers THEN CapAt(@ + (k.answers - desk.answers), MaxGaps) ELSE @]

Route(c, dest) == IF c.esc # None THEN "escalate" ELSE dest

Step(c, dest) ==
  /\ s' = c
  /\ next' = Route(c, dest)

Escalate(c, reason) == Step([c EXCEPT !.esc = reason], "escalate")

-----------------------------------------------------------------------------
\* --auto without --interview starts at the plan with a seeded brief.  A task id
\* that is used again finds a brief, but no transcript and no gap.
Init ==
  /\ next \in {"intake_ask", "plan"}
  /\ s = [esc |-> None, round |-> 0, done |-> next = "plan", count |-> 0,
          debated |-> FALSE, bonus |-> FALSE, recorded |-> FALSE]
  /\ gap = NoGap
  /\ desk \in [brief : IF next = "plan" THEN {"seed"} ELSE {"none", "other"},
               questions : {FALSE}, answers : {0}]
  /\ past = [found |-> 0, broken |-> FALSE, plan |-> "none"]

-----------------------------------------------------------------------------
(* intake_ask *)

\* The agent failed, or what it says it did is not on disk, or not a contract.
AskFails ==
  /\ next = "intake_ask"
  /\ Escalate([s EXCEPT !.round = NextRound], "interview")
  /\ desk' \in Interviewed(desk)
  /\ past' = Noted(desk')
  /\ UNCHANGED gap

\* A contract brief of this round, but a gap without an answer.
AskGapsOpen ==
  /\ next = "intake_ask"
  /\ \E k \in Interviewed(desk) :
       /\ k.brief = "contract"
       /\ ~GapsAnswered(k)
       /\ desk' = k
  /\ Escalate([s EXCEPT !.round = NextRound], "interview")
  /\ past' = Noted(desk')
  /\ UNCHANGED gap

AskDone ==
  /\ next = "intake_ask"
  /\ \E k \in Interviewed(desk) :
       /\ k.brief = "contract"
       /\ GapsAnswered(k)
       /\ desk' = k
  /\ Step([s EXCEPT !.round = NextRound, !.done = TRUE,
                    !.count = IF Active THEN Counted ELSE @], "plan")
  /\ gap' = NoGap
  /\ past' = Noted(desk')

AskQuestions ==
  /\ next = "intake_ask"
  /\ \E k \in Interviewed(desk) : k.questions /\ desk' = k
  /\ LET c == [s EXCEPT !.round = NextRound] IN
     IF s.round + 1 >= MaxRounds THEN Escalate(c, "interview") ELSE Step(c, "intake_wait")
  /\ past' = Noted(desk')
  /\ UNCHANGED gap

Ask == AskFails \/ AskGapsOpen \/ AskDone \/ AskQuestions

-----------------------------------------------------------------------------
(* intake_wait: the human *)

\* The human writes an answer into the transcript.  Where the line after an empty answer
\* was counted the count stays what it was, and nothing here changes.
Write ==
  /\ next \in {"intake_wait", "escalate"}
  /\ desk.questions
  /\ desk.answers < MaxAnswers
  /\ desk' = [desk EXCEPT !.answers = @ + 1]
  /\ past' = Noted(desk')
  /\ UNCHANGED <<next, s, gap>>

WaitStop ==
  /\ next = "intake_wait"
  /\ Active
  /\ next' = "end"
  /\ UNCHANGED <<s, gap, desk, past>>

\* Mutant of Waiving: the ledger is not written.
WaivingSilently(c) == [c EXCEPT !.done = TRUE, !.count = Counted, !.debated = FALSE]

\* skip, done, enough.
Waiving(c) ==
  [c EXCEPT !.done = TRUE, !.count = Counted, !.recorded = TRUE, !.debated = FALSE]

WaitWaive ==
  /\ next = "intake_wait"
  /\ Active
  /\ Step(Waiving(s), "plan")
  /\ gap' = SetStatus("waived")
  /\ desk' = Seeded(desk)
  /\ UNCHANGED past

\* Without a gap to answer every end answer, stop too, plans from what is there.
WaitEnd ==
  /\ next = "intake_wait"
  /\ ~Active
  /\ Step([s EXCEPT !.done = TRUE], "plan")
  /\ desk' = Seeded(desk)
  /\ UNCHANGED <<gap, past>>

WaitSubmit ==
  /\ next = "intake_wait"
  /\ desk.answers > 0
  /\ IF GapsAnswered(desk) THEN Step(s, "intake_ask") ELSE Escalate(s, "interview")
  /\ UNCHANGED <<gap, desk, past>>

\* Any other answer, and a submit without one in the transcript: wait again.
WaitAgain ==
  /\ next = "intake_wait"
  /\ Step(s, "intake_wait")
  /\ UNCHANGED <<gap, desk, past>>

Wait == Write \/ WaitStop \/ WaitWaive \/ WaitEnd \/ WaitSubmit \/ WaitAgain

-----------------------------------------------------------------------------
(* plan and debate *)

\* Mutant: whoever comes to plan has a brief.
PlanUnseeded ==
  /\ next = "plan"
  /\ \/ /\ \E dest \in {"debate", "build"} : Step([s EXCEPT !.debated = FALSE], dest)
        /\ past' = [past EXCEPT !.plan = "made"]
     \/ Escalate(s, "plain") /\ UNCHANGED past
  /\ UNCHANGED <<gap, desk>>

\* An effort level without a debate goes on to the verdict.
Plan ==
  /\ next = "plan"
  /\ desk' = Seeded(desk)
  /\ \/ /\ \E dest \in {"debate", "build"} : Step([s EXCEPT !.debated = FALSE], dest)
        /\ past' = [past EXCEPT !.plan = "made"]
     \/ Escalate(s, "plain") /\ UNCHANGED past
  /\ UNCHANGED gap

DebateRaises ==
  /\ next = "debate"
  /\ Escalate([s EXCEPT !.debated = TRUE], "requirements")
  /\ gap' \in Raised
  /\ UNCHANGED <<desk, past>>

DebateEscalates ==
  /\ next = "debate"
  /\ \E reason \in {"trend", "exhausted"} : Escalate([s EXCEPT !.debated = TRUE], reason)
  /\ UNCHANGED <<gap, desk, past>>

DebateDecides ==
  /\ next = "debate"
  /\ Step([s EXCEPT !.debated = TRUE], "build")
  /\ UNCHANGED <<gap, desk, past>>

-----------------------------------------------------------------------------
(* escalate *)

Menu ==
  CASE s.esc \in {"interview", "plain"} -> {"ok", "skip"}
    [] s.esc = "requirements" ->
         {"continue", "redo", "re-intake"} \cup (IF s.count >= MaxReintakes THEN {"ok"} ELSE {})
    [] s.esc = "trend" -> {"continue", "redo", "ok"}
    [] s.esc = "exhausted" -> {"continue", "redo", "ok", "skip"}
    [] OTHER -> {"ok"}

OfInterview == s.esc \in {"interview", "interviewCrash"}

Prefixed == s.esc \in {"requirements", "trend"}

\* route_escalation_return before the first batch.
ReturnTo(c, k) ==
  CASE ~c.done /\ k.questions /\ c.round > 0 -> "intake_wait"
    [] ~c.done /\ ~(k.questions /\ c.round > 0) /\ c.round < MaxRounds -> "intake_ask"
    [] ~c.done /\ ~(k.questions /\ c.round > 0) /\ c.round >= MaxRounds -> "plan"
    [] c.done /\ c.bonus -> "debate"
    [] c.done /\ ~c.bonus /\ c.debated -> "build"
    [] OTHER -> "plan"

\* The edge out of escalate does not look at the escalation.
Resume(c, g, k) ==
  /\ next = "escalate"
  /\ s' = c
  /\ gap' = g
  /\ desk' = k
  /\ next' = ReturnTo(c, k)

Answered == [s EXCEPT !.esc = None]

\* At the cap of re-intakes "ok" waives the gaps.
AnswerOk ==
  /\ "ok" \in Menu
  /\ CASE s.esc = "requirements" ->
            Resume([Answered EXCEPT !.bonus = FALSE, !.recorded = TRUE], SetStatus("waived"), desk)
       [] s.esc \in {"trend", "exhausted"} -> Resume([Answered EXCEPT !.bonus = FALSE], gap, desk)
       [] OTHER -> Resume(Answered, gap, desk)
  /\ UNCHANGED past

AnswerSkip ==
  /\ "skip" \in Menu
  /\ CASE OfInterview /\ Active -> Resume(Waiving(Answered), SetStatus("waived"), Seeded(desk))
       [] OfInterview /\ ~Active -> Resume([Answered EXCEPT !.done = TRUE], gap, Seeded(desk))
       [] OTHER -> Resume(Answered, gap, desk)
  /\ UNCHANGED past

AnswerContinue ==
  /\ "continue" \in Menu
  /\ Resume([Answered EXCEPT !.bonus = TRUE], gap, desk)
  /\ UNCHANGED past

\* The debate starts again on the same brief: the gap is suspended.
AnswerRedo ==
  /\ "redo" \in Menu
  /\ Resume([Answered EXCEPT !.bonus = FALSE, !.debated = FALSE],
            IF Prefixed THEN SetStatus("suspended") ELSE gap, desk)
  /\ UNCHANGED past

Reopened(c) == [c EXCEPT !.esc = None, !.done = FALSE, !.round = 0, !.bonus = FALSE, !.debated = FALSE]

Anew == [past EXCEPT !.found = 0, !.plan = "none"]

\* Mutant of AnswerReintake: the transcript of the last interview stays.
ReintakeUnarchived ==
  /\ "re-intake" \in Menu
  /\ Resume(Reopened(s), Reactivated, desk)
  /\ past' = Anew

AnswerReintake ==
  /\ "re-intake" \in Menu
  /\ Resume(Reopened(s), Reactivated, Archived(desk))
  /\ past' = Anew

\* A stop of the interview ends the run only if there are gaps to answer; a stop
\* of the debate saves its claims as gaps.
AnswerStop ==
  /\ next = "escalate"
  /\ IF OfInterview /\ ~Active
     THEN Resume([Answered EXCEPT !.done = TRUE], gap, Seeded(desk))
     ELSE /\ s' = Answered
          /\ next' = "end"
          /\ gap' \in CASE s.esc = "requirements" -> Raised
                        [] s.esc = "trend" -> {gap} \cup Raised
                        [] OTHER -> {gap}
          /\ UNCHANGED desk
  /\ UNCHANGED past

AnswerInvalid ==
  /\ Typos
  /\ Resume(s, gap, desk)
  /\ UNCHANGED past

Answer ==
  \/ AnswerOk
  \/ AnswerSkip
  \/ AnswerContinue
  \/ AnswerRedo
  \/ AnswerReintake
  \/ AnswerStop
  \/ AnswerInvalid

-----------------------------------------------------------------------------
(* redo: run.py repositions a run wherever it paused, ended or was killed *)

\* Mutant of GapForRedo: a suspended gap stays suspended.
GapAsItIs == IF gap.status = "none" THEN Raised ELSE {gap}

\* ensure_gap_from_debate_file; without a gap file the debate must have claims.
GapForRedo == IF gap.status = "none" THEN Raised ELSE {Reactivated}

RedoIntake ==
  /\ s' = Reopened(s)
  /\ gap' \in GapForRedo
  /\ desk' = Archived(desk)
  /\ next' = "intake_ask"
  /\ past' = Anew

RedoPlan ==
  /\ s' = [Reopened(s) EXCEPT !.done = TRUE, !.round = s.round]
  /\ next' = "plan"
  /\ past' = [past EXCEPT !.plan = "none"]
  /\ UNCHANGED <<gap, desk>>

\* The debate is entered as if the plan had just been made, and an interview that is not
\* over is not closed.
RedoDebate ==
  /\ s' = [s EXCEPT !.esc = None, !.bonus = FALSE, !.debated = FALSE]
  /\ next' \in {"debate", "build"}
  /\ past' = [past EXCEPT !.plan = IF @ = "made" THEN "made" ELSE "jumped"]
  /\ UNCHANGED <<gap, desk>>

-----------------------------------------------------------------------------
(* Failures in the middle of a node *)

\* What the interrupted node, or the processing of an answer, may have written.
PartialDesk ==
  CASE next = "intake_ask" -> Interviewed(desk)
    [] next \in {"plan", "intake_wait"} -> {desk, Seeded(desk)}
    [] next = "escalate" /\ OfInterview -> {desk, Seeded(desk)}
    [] next = "escalate" /\ s.esc = "requirements" -> {desk, Archived(desk)}
    [] OTHER -> {desk}

PartialGap(k) ==
  CASE next = "intake_ask" -> {gap} \cup (IF GapsAnswered(k) THEN {NoGap} ELSE {})
    [] next = "intake_wait" /\ Active -> {gap, SetStatus("waived")}
    [] next = "debate" -> {gap} \cup Raised
    [] next = "escalate" /\ OfInterview /\ Active -> {gap, SetStatus("waived")}
    [] next = "escalate" /\ Prefixed ->
         {gap, SetStatus("suspended")} \cup Raised
         \cup (IF "re-intake" \in Menu THEN {Reactivated} ELSE {})
         \cup (IF s.esc = "requirements" /\ "ok" \in Menu THEN {SetStatus("waived")} ELSE {})
    [] OTHER -> {gap}

NodeException ==
  /\ next \in Nodes \ {"escalate"}
  /\ desk' \in PartialDesk
  /\ gap' \in PartialGap(desk')
  /\ Escalate(s, IF next \in {"intake_ask", "intake_wait"} THEN "interviewCrash" ELSE "crash")
  /\ past' = [Noted(desk') EXCEPT !.broken = TRUE]

\* The process dies; `resume` runs the same node, or asks the same question, again.
ProcessCrash ==
  /\ next \in Nodes
  /\ desk' \in PartialDesk
  /\ gap' \in PartialGap(desk')
  /\ past' = [Noted(desk') EXCEPT !.broken = TRUE]
  /\ UNCHANGED <<next, s>>

-----------------------------------------------------------------------------
\* The plan is being judged and built, or the run has ended.
Left ==
  /\ next \in {"build", "end"}
  /\ UNCHANGED vars

Next ==
  \/ Ask
  \/ Wait
  \/ Plan
  \/ DebateRaises
  \/ DebateEscalates
  \/ DebateDecides
  \/ Answer
  \/ RedoIntake
  \/ RedoPlan
  \/ RedoDebate
  \/ NodeException
  \/ ProcessCrash
  \/ Left

Spec == Init /\ [][Next]_vars

-----------------------------------------------------------------------------
(* Safety *)

\* Every variable keeps its type.
TypeOK ==
  /\ next \in Nodes \cup {"build", "end"}
  /\ s \in Channels
  /\ gap \in Gaps
  /\ desk \in Desks
  /\ past \in Pasts

\* An interview closes the gaps of a debate only with as many answers as there are gaps,
\* all of them found since it was reopened: no earlier transcript counts, whatever broke
\* off in between (intake.py:69-82, requirements_gap.py:373).
GapsAnsweredInThisInterview ==
  [][Active /\ gap'.status = "none" => past'.found >= gap.n]_vars

\* Gaps the human waived are in the ledger the run reports, unless a node broke
\* off between the gap file and the checkpoint (intake.py:434-457, common.py:1325-1352,
\* common.py:1489-1500).
WaivedIsOnRecord == gap.status = "waived" /\ ~past.broken => s.recorded

\* An interview that is under way has no suspended gap: whoever reopened it, and
\* whatever interrupted that, the interviewer is shown the gaps.  A redo of the debate
\* that is taken before there is a plan leaves the interview open behind it, and is left
\* out (common.py:1262-1266, requirements_gap.py:305-311, run.py:3339-3360).
ReopenedOnTheGaps ==
  next \in {"intake_ask", "intake_wait"} /\ past.plan # "jumped" => gap.status # "suspended"

\* The debate has a brief to hold the plan against, by every way that comes past the plan:
\* a failed or skipped interview, a typo, a redo (planning.py:19-21, intake.py:101-114).
DebatedOnABrief == next = "debate" /\ past.plan # "jumped" => desk.brief # "none"
=============================================================================
