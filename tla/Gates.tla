-------------------------------- MODULE Gates --------------------------------
(***************************************************************************)
(* What follows the last batch: the visual gate (ux_render,                *)
(* ux_visual_review, ux_visual_fix), the perf gate (render_measure,        *)
(* render_review, render_fix), the final gate (final_check) and wrap_up,   *)
(* with the escalations a human answers on the way and the `redo` command  *)
(* that sends a run back (nodes/quality_gates.py, nodes/finalize.py,       *)
(* nodes/common.py, graph.py, run.py).                                     *)
(*                                                                         *)
(* The batches are built by the abstract node "build", which BatchLoop     *)
(* models in detail.                                                       *)
(***************************************************************************)
EXTENDS Integers, FiniteSets

CONSTANTS
  Eyes,           \* eyes_engaged: the visual gate applies to this task
  Perf,           \* has_perf and a PIPELINE_RENDER_CMD: the perf gate applies
  GatesOn,        \* resolved_gates_enabled: FALSE at the scout-monke effort
  MaxUxCycles,    \* MAX_UX_RENDER_CYCLES
  MaxPerfCycles,  \* MAX_RENDER_CYCLES
  Plateau,        \* PLATEAU_THRESHOLD
  MaxBlockers,    \* bound: blockers of one review, regressions of one profile
  Typos,          \* may the human type an answer that is not in the menu?
  Redos           \* bound: `redo` commands in a behaviour

ASSUME GatesAssumption ==
  /\ Eyes \in BOOLEAN
  /\ Perf \in BOOLEAN
  /\ GatesOn \in BOOLEAN
  /\ MaxUxCycles \in Nat
  /\ MaxPerfCycles \in Nat
  /\ Plateau \in Nat \ {0}
  /\ MaxBlockers \in Nat
  /\ Typos \in BOOLEAN
  /\ Redos \in Nat

VARIABLES
  next,    \* the node the checkpointer will run next
  g,       \* the channels of PipelineState the gates read or write
  ledger,  \* the degradations channel: compromises on record
  code,    \* the working copy: its uncommitted fixes, its regressions
  past,    \* history: what happened since the run was (re)built
  redos    \* `redo` commands so far

vars == <<next, g, ledger, code, past, redos>>

-----------------------------------------------------------------------------
(* Values *)

Counts == 0..MaxBlockers

\* A previous count that was never written.
NoCount == -1

\* Escalations by the menu and the effects they have in escalate(); "generic" is
\* everything without a branch of its own, of which two are told apart because
\* their text invites the human to accept: the plateaus and the perf cap.
Escalations == {"renderFailed", "visualBlocked", "visualPlateau", "perfBlocked",
                "finalTests", "crash", "generic"}

None == ""

VisualVerdicts == {"APPROVE", "APPROVE_WITH_CHANGES", "REJECT"}

PerfVerdicts == {"PASS", "BASELINE", "SKIPPED", "REGRESSED"}

Nodes == {"ux_render", "ux_visual_review", "ux_visual_fix", "render_measure",
          "render_review", "render_fix", "final_check", "wrap_up"}

\* What the last final_check found out about the tests; that no suite could be run, that
\* there was no database or no suite at all is not red, and not green either.
Unknowns == {"unmeasured", "dbDown", "unconfigured"}
TestStatuses == {"none", "green", "red", "waived"} \cup Unknowns

\* The entries of the ledger a property speaks of; those of the runner, of an app
\* that is not instrumented and of a "forced" batch are left out.
Compromises == {"visual", "noScreenshots", "tests", "db"}

\* A human answered since the batches were last built.
Events == {"asked"}

Channels ==
  [esc : Escalations \cup {None},
   cycle : 0..MaxUxCycles, verdict : VisualVerdicts \cup {"UNKNOWN", "SKIPPED_NO_SCREENSHOTS", None},
   blockers : Counts, prev : Counts \cup {NoCount}, stuck : 0..Plateau, shipped : BOOLEAN,
   perfCycle : 0..MaxPerfCycles, perfVerdict : PerfVerdicts \cup {None},
   perfBlockers : Counts, perfPrev : Counts \cup {NoCount}, perfStuck : 0..Plateau,
   waived : BOOLEAN, tests : TestStatuses]

WorkingCopies == [dirty : BOOLEAN, baseline : BOOLEAN, regressions : Counts]

-----------------------------------------------------------------------------
(* Routing *)

PerfPassed(s) == s.perfVerdict \in {"PASS", "BASELINE", "SKIPPED"} /\ s.perfBlockers = 0

AfterUiGate(s) == IF Perf /\ ~PerfPassed(s) THEN "render_measure" ELSE "final_check"

\* route_next_batch once every batch is built.
AfterBuild(s) ==
  CASE ~GatesOn -> "final_check"
    [] GatesOn /\ Eyes -> "ux_render"
    [] OTHER -> AfterUiGate(s)

\* after() and the routers: a pending escalation wins over every other choice.
Route(s, dest) == IF s.esc # None THEN "escalate" ELSE dest

Step(s, dest) ==
  /\ g' = s
  /\ next' = Route(s, dest)

Escalate(s, reason) == Step([s EXCEPT !.esc = reason], "escalate")

\* An agent, or a human, changed the code: its fixes are not committed and the
\* number of re-render regressions may be any.
Changed(c) ==
  {[c EXCEPT !.dirty = TRUE, !.regressions = n] : n \in IF c.baseline THEN Counts ELSE {0}}

-----------------------------------------------------------------------------
Init ==
  /\ next = "build"
  /\ g = [esc |-> None, cycle |-> 0, verdict |-> None, blockers |-> 0, prev |-> NoCount,
          stuck |-> 0, shipped |-> FALSE, perfCycle |-> 0, perfVerdict |-> None,
          perfBlockers |-> 0, perfPrev |-> NoCount, perfStuck |-> 0, waived |-> FALSE,
          tests |-> "none"]
  /\ ledger = {}
  /\ code \in [dirty : {FALSE}, baseline : IF Perf THEN BOOLEAN ELSE {FALSE},
               regressions : {0}]
  /\ past = {}
  /\ redos = 0

\* Every batch is built and committed, and close_batch routes on.  An invalid
\* answer to an escalation of the last batch may still be pending.
Build ==
  /\ next = "build"
  /\ code' \in {[c EXCEPT !.dirty = FALSE] : c \in Changed(code)}
  /\ \/ Step(g, AfterBuild(g))
     \/ Typos /\ Escalate(g, "generic")
  /\ UNCHANGED <<ledger, past, redos>>

-----------------------------------------------------------------------------
(* The visual gate *)

RenderOk ==
  /\ next = "ux_render"
  /\ Step(g, "ux_visual_review")
  /\ UNCHANGED <<ledger, code, past, redos>>

\* The stack, the fixtures, the command or the runner failed.  A timeout and the
\* errors of the new runner do not have the texts that offer "skip the gate".
RenderFails ==
  /\ next = "ux_render"
  /\ \E reason \in {"renderFailed", "generic"} : Escalate(g, reason)
  /\ UNCHANGED <<ledger, code, past, redos>>

NoScreenshots ==
  /\ next = "ux_visual_review"
  /\ Step([g EXCEPT !.verdict = "SKIPPED_NO_SCREENSHOTS", !.blockers = 0], AfterUiGate(g))
  /\ ledger' = ledger \cup {"noScreenshots"}
  /\ UNCHANGED <<code, past, redos>>

\* Untrusted output, or no verdict in two attempts.
ReviewUnusable ==
  /\ next = "ux_visual_review"
  /\ \E reason \in {"generic", "visualBlocked"} :
       Escalate([g EXCEPT !.verdict = "UNKNOWN", !.blockers = 0], reason)
  /\ UNCHANGED <<ledger, code, past, redos>>

\* Consecutive reviews whose count did not fall.
NoProgress(count, prev, stuck) ==
  IF prev # NoCount /\ count > 0 /\ count >= prev THEN stuck + 1 ELSE 0

\* The channel is capped at Plateau: above it nothing tells the values apart.
Capped(n) == IF n > Plateau THEN Plateau ELSE n

Reviewed(v, n) ==
  [g EXCEPT !.verdict = v, !.blockers = n, !.prev = n,
            !.stuck = Capped(NoProgress(n, g.prev, g.stuck))]

\* Mutant of VisualReview: only a REJECT is sent to the fixer.
FixRejectsOnly ==
  /\ next = "ux_visual_review"
  /\ \E v \in VisualVerdicts, n \in Counts :
       LET s == Reviewed(v, n) IN
       CASE n > 0 /\ s.stuck >= Plateau -> Escalate(s, "visualPlateau")
         [] n > 0 /\ s.stuck < Plateau /\ g.cycle >= MaxUxCycles -> Escalate(s, "visualBlocked")
         [] OTHER -> Step(s, IF v = "REJECT" THEN "ux_visual_fix" ELSE AfterUiGate(s))
  /\ UNCHANGED <<ledger, code, past, redos>>

VisualReview ==
  /\ next = "ux_visual_review"
  /\ \E v \in VisualVerdicts, n \in Counts :
       LET s == Reviewed(v, n) IN
       CASE n > 0 /\ s.stuck >= Plateau -> Escalate(s, "visualPlateau")
         [] n > 0 /\ s.stuck < Plateau /\ g.cycle >= MaxUxCycles -> Escalate(s, "visualBlocked")
         [] OTHER -> Step(s, IF n > 0 THEN "ux_visual_fix" ELSE AfterUiGate(s))
  /\ UNCHANGED <<ledger, code, past, redos>>

\* Mutant of VisualFix: the fix starts the gate over.
VisualFixStartsOver ==
  /\ next = "ux_visual_fix"
  /\ Step([g EXCEPT !.cycle = 0, !.prev = NoCount, !.stuck = 0], "ux_render")
  /\ code' \in {code} \cup Changed(code)
  /\ UNCHANGED <<ledger, past, redos>>

\* The fixer's exit code is not looked at; its edits are staged, not committed.
VisualFix ==
  /\ next = "ux_visual_fix"
  /\ Step([g EXCEPT !.cycle = @ + 1], "ux_render")
  /\ code' \in {code} \cup Changed(code)
  /\ UNCHANGED <<ledger, past, redos>>

VisualGate ==
  \/ RenderOk
  \/ RenderFails
  \/ NoScreenshots
  \/ ReviewUnusable
  \/ VisualReview
  \/ VisualFix

-----------------------------------------------------------------------------
(* The perf gate *)

MeasureOk ==
  /\ next = "render_measure"
  /\ Step(g, "render_review")
  /\ UNCHANGED <<ledger, code, past, redos>>

\* No stack, no fixtures, a timeout, no facts; or facts that do not parse.
MeasureFails ==
  /\ next \in {"render_measure", "render_review"}
  /\ Escalate(g, "generic")
  /\ UNCHANGED <<ledger, code, past, redos>>

\* Not instrumented, or an empty facts file.
PerfSkipped ==
  /\ next = "render_review"
  /\ Step([g EXCEPT !.perfVerdict = "SKIPPED", !.perfBlockers = 0], "final_check")
  /\ UNCHANGED <<ledger, code, past, redos>>

\* The first profile is the baseline, whatever code it was taken from.
PerfBaseline ==
  /\ next = "render_review"
  /\ ~code.baseline
  /\ Step([g EXCEPT !.perfVerdict = "BASELINE", !.perfBlockers = 0], "final_check")
  /\ code' = [code EXCEPT !.baseline = TRUE, !.regressions = 0]
  /\ UNCHANGED <<ledger, past, redos>>

Profiled(n) ==
  [g EXCEPT !.perfVerdict = IF n > 0 THEN "REGRESSED" ELSE "PASS",
            !.perfBlockers = n, !.perfPrev = n,
            !.perfStuck = Capped(NoProgress(n, g.perfPrev, g.perfStuck))]

PerfCompared ==
  /\ next = "render_review"
  /\ code.baseline
  /\ LET n == code.regressions
         s == Profiled(n) IN
     IF n > 0 /\ (s.perfStuck >= Plateau \/ g.perfCycle >= MaxPerfCycles)
     THEN Escalate(s, "perfBlocked")
     ELSE Step(s, IF n > 0 THEN "render_fix" ELSE "final_check")
  /\ UNCHANGED <<ledger, code, past, redos>>

PerfFix ==
  /\ next = "render_fix"
  /\ Step([g EXCEPT !.perfCycle = @ + 1], "render_measure")
  /\ code' \in {code} \cup Changed(code)
  /\ UNCHANGED <<ledger, past, redos>>

PerfGate ==
  \/ MeasureOk
  \/ MeasureFails
  \/ PerfSkipped
  \/ PerfBaseline
  \/ PerfCompared
  \/ PerfFix

-----------------------------------------------------------------------------
(* The final gate *)

\* _final_test_fix_loop: what the tests came to and the code it leaves.  A fixed
\* suite is staged and committed, but nobody looks whether the commit succeeded.
TestRuns ==
  IF g.waived
  THEN {[status |-> "waived", code |-> code]}
  ELSE {[status |-> t, code |-> code] : t \in {"green"} \cup Unknowns}
       \cup {[status |-> "unmeasured", code |-> c] : c \in Changed(code)}
       \cup {[status |-> "green", code |-> [c EXCEPT !.dirty = d]] :
               c \in Changed(code), d \in BOOLEAN}

\* New failures are left after every attempt to fix them.
FinalTestsRed ==
  /\ next = "final_check"
  /\ ~g.waived
  /\ code' \in {code} \cup Changed(code)
  /\ Escalate([g EXCEPT !.tests = "red"], "finalTests")
  /\ UNCHANGED <<ledger, past, redos>>

OnRecord(run) == IF run.status = "dbDown" THEN ledger \cup {"db"} ELSE ledger

\* Untrusted output of the checklist review: the database note is lost.
ChecklistUnusable ==
  /\ next = "final_check"
  /\ \E run \in TestRuns :
       /\ code' = run.code
       /\ Escalate([g EXCEPT !.tests = run.status], "generic")
  /\ UNCHANGED <<ledger, past, redos>>

ChecklistNotMet ==
  /\ next = "final_check"
  /\ \E run \in TestRuns :
       /\ code' = run.code
       /\ ledger' = OnRecord(run)
       /\ Escalate([g EXCEPT !.tests = run.status], "generic")
  /\ UNCHANGED <<past, redos>>

\* The only node whose delta clears a pending escalation.
ChecklistMet ==
  /\ next = "final_check"
  /\ \E run \in TestRuns :
       /\ code' = run.code
       /\ ledger' = OnRecord(run)
       /\ Step([g EXCEPT !.tests = run.status, !.esc = None], "wrap_up")
  /\ UNCHANGED <<past, redos>>

\* wrap_up reports the ledger and ends the run.
WrapUp ==
  /\ next = "wrap_up"
  /\ next' = "end"
  /\ UNCHANGED <<g, ledger, code, past, redos>>

\* wrap_up raised: its only edge leads to END, escalation or not.
WrapUpRaises ==
  /\ next = "wrap_up"
  /\ g' = [g EXCEPT !.esc = "crash"]
  /\ next' = "end"
  /\ UNCHANGED <<ledger, code, past, redos>>

FinalGate ==
  \/ FinalTestsRed
  \/ ChecklistUnusable
  \/ ChecklistNotMet
  \/ ChecklistMet
  \/ WrapUp
  \/ WrapUpRaises

-----------------------------------------------------------------------------
(* escalate *)

\* The canonical keys of the menus; the universal stop keys are always accepted.
Menu(reason) ==
  CASE reason = "visualBlocked" -> {"ok"}
    [] reason = "crash" -> {"ok"}
    [] reason = "finalTests" -> {"ok", "retry"}
    [] OTHER -> {"ok", "skip"}

VisualPassed(s) == s.verdict = "APPROVE" /\ s.blockers = 0

\* Mutant of ReturnTo: the perf gate alone is resumed.
ReturnToPerfOnly(s) ==
  IF GatesOn /\ Perf /\ ~PerfPassed(s) THEN "render_measure" ELSE "final_check"

\* route_escalation_return once every batch is built.
ReturnTo(s) ==
  CASE GatesOn /\ Eyes /\ ~VisualPassed(s) /\ ~s.shipped -> "ux_render"
    [] ~(GatesOn /\ Eyes /\ ~VisualPassed(s) /\ ~s.shipped)
         /\ GatesOn /\ Perf /\ ~PerfPassed(s) -> "render_measure"
    [] OTHER -> "final_check"

\* The edge out of escalate does not look at the escalation; the human may have
\* repaired the code before answering.
Resume(s) ==
  /\ next = "escalate"
  /\ g' = s
  /\ next' = ReturnTo(s)
  /\ code' \in {code} \cup Changed(code)
  /\ UNCHANGED redos

Answered == [g EXCEPT !.esc = None]

\* Mutant of AnswerOk: the waiver of failing tests is not recorded.
WaiveSilently ==
  /\ CASE g.esc = "visualBlocked" ->
            /\ Resume([Answered EXCEPT !.shipped = TRUE])
            /\ ledger' = ledger \cup {"visual"}
       [] g.esc = "finalTests" ->
            /\ Resume([Answered EXCEPT !.waived = TRUE])
            /\ UNCHANGED ledger
       [] OTHER ->
            /\ Resume(Answered)
            /\ UNCHANGED ledger
  /\ past' = past \cup {"asked"}

AnswerOk ==
  /\ CASE g.esc = "visualBlocked" ->
            /\ Resume([Answered EXCEPT !.shipped = TRUE])
            /\ ledger' = ledger \cup {"visual"}
       [] g.esc = "finalTests" ->
            /\ Resume([Answered EXCEPT !.waived = TRUE])
            /\ ledger' = ledger \cup {"tests"}
       [] OTHER ->
            /\ Resume(Answered)
            /\ UNCHANGED ledger
  /\ past' = past \cup {"asked"}

\* "retry" at the final test gate.
AnswerRetry ==
  /\ "retry" \in Menu(g.esc)
  /\ Resume(Answered)
  /\ past' = past \cup {"asked"}
  /\ UNCHANGED ledger

AnswerSkip ==
  /\ "skip" \in Menu(g.esc)
  /\ IF g.esc = "renderFailed"
     THEN /\ Resume([Answered EXCEPT !.shipped = TRUE])
          /\ ledger' = ledger \cup {"visual"}
     ELSE /\ Resume(Answered)
          /\ UNCHANGED ledger
  /\ past' = past \cup {"asked"}

AnswerStop ==
  /\ next = "escalate"
  /\ g' = Answered
  /\ next' = "end"
  /\ past' = past \cup {"asked"}
  /\ UNCHANGED <<ledger, code, redos>>

AnswerInvalid ==
  /\ Typos
  /\ Resume(g)
  /\ past' = past \cup {"asked"}
  /\ UNCHANGED ledger

Human == AnswerOk \/ AnswerRetry \/ AnswerSkip \/ AnswerStop \/ AnswerInvalid

-----------------------------------------------------------------------------
(* redo: run.py repositions a run that is not running *)

\* --from visual, from close_batch.
RedoVisual ==
  /\ next \in {"escalate", "end"}
  /\ redos < Redos
  /\ g' = [g EXCEPT !.esc = None, !.cycle = 0, !.verdict = None, !.blockers = 0,
                    !.shipped = FALSE]
  /\ next' = AfterBuild(g')
  /\ redos' = redos + 1
  /\ UNCHANGED <<ledger, code, past>>

\* --from intake, plan or debate: the batches are dropped and built again, and of
\* the gates' channels only the escalation is reset.
RedoBuild ==
  /\ next \in {"escalate", "end"}
  /\ redos < Redos
  /\ g' = [g EXCEPT !.esc = None]
  /\ next' = "build"
  /\ past' = {}
  /\ redos' = redos + 1
  /\ UNCHANGED <<ledger, code>>

-----------------------------------------------------------------------------
(* Failures in the middle of a node *)

\* What the interrupted node may have done to the code.
Partial ==
  CASE next \in {"ux_visual_fix", "render_fix"} -> {code} \cup Changed(code)
    [] next = "final_check" -> {run.code : run \in TestRuns}
    [] next = "render_review" /\ ~code.baseline ->
         {code, [code EXCEPT !.baseline = TRUE, !.regressions = 0]}
    [] OTHER -> {code}

\* instrument() turns an exception into an escalation and drops the delta.
NodeException ==
  /\ next \in Nodes \ {"wrap_up"}
  /\ code' \in Partial
  /\ Escalate(g, "crash")
  /\ UNCHANGED <<ledger, past, redos>>

\* The process dies; `resume` runs the same node again.
ProcessCrash ==
  /\ next \in Nodes
  /\ code' \in Partial
  /\ UNCHANGED <<next, g, ledger, past, redos>>

-----------------------------------------------------------------------------
\* A run that ended and is never redone.
Ended ==
  /\ next = "end"
  /\ UNCHANGED vars

Node == Build \/ VisualGate \/ PerfGate \/ FinalGate \/ NodeException

Next == Node \/ Human \/ RedoVisual \/ RedoBuild \/ ProcessCrash \/ Ended

\* The stream loop of run.py keeps running the next node until a pause.
Fairness == WF_vars(Node)

Spec == Init /\ [][Next]_vars /\ Fairness

-----------------------------------------------------------------------------
(* Safety *)

\* Every variable keeps its type.
TypeOK ==
  /\ next \in Nodes \cup {"build", "escalate", "end"}
  /\ g \in Channels
  /\ ledger \subseteq Compromises
  /\ code \in WorkingCopies
  /\ past \subseteq Events
  /\ redos \in 0..Redos

\* The fix loops of both gates stay inside their cycle budgets, whatever humans
\* answer, however the process dies and however often a run is redone
\* (quality_gates.py:255, quality_gates.py:447).
FixBudgets ==
  /\ next = "ux_visual_fix" => g.cycle < MaxUxCycles
  /\ next = "render_fix" => g.perfCycle < MaxPerfCycles

\* The final gate is never reached around a gate that applies: the visual gate
\* has given a verdict or a human waived it, and the perf gate has passed
\* (graph.py:296-315, "the bug that silently dropped the visual review").
GatesNotSkipped ==
  next \in {"final_check", "wrap_up"} /\ GatesOn =>
    /\ Eyes => g.verdict \notin {None, "UNKNOWN"} \/ g.shipped
    /\ Perf => PerfPassed(g)

\* Without a human the run wraps up only on clean gates: no visual blocker, no
\* regression, and tests that its own final_check found green or could not measure at
\* all (finalize.py:292-308, 358), never tests it found red or that were waived.
UnattendedShipsClean ==
  next = "wrap_up" /\ "asked" \notin past /\ redos = 0 =>
    /\ GatesOn /\ Eyes => g.blockers = 0
    /\ GatesOn /\ Perf => g.perfBlockers = 0
    /\ g.tests \in {"green"} \cup Unknowns

\* What is compromised at wrap_up is in the ledger wrap_up reports: visual
\* blockers, a skipped visual review, waived tests, tests skipped for want of a
\* database (finalize.py:492-498).
ShipsOnRecord ==
  next = "wrap_up" =>
    /\ g.blockers > 0 => "visual" \in ledger
    /\ g.verdict = "SKIPPED_NO_SCREENSHOTS" => "noScreenshots" \in ledger
    /\ g.tests = "waived" => "tests" \in ledger
    /\ g.tests = "dbDown" => "db" \in ledger

-----------------------------------------------------------------------------
(* Progress *)

\* The most nodes that still run: a render, a review and a fix in every cycle of a gate.
Work ==
  LET visual == 3 * (MaxUxCycles - g.cycle) + 3 * MaxPerfCycles + 5
      perf == 3 * (MaxPerfCycles - g.perfCycle) + 2 IN
  CASE next = "build" -> 3 * MaxUxCycles + 3 * MaxPerfCycles + 9
    [] next = "ux_render" -> visual + 3
    [] next = "ux_visual_review" -> visual + 2
    [] next = "ux_visual_fix" -> visual + 1
    [] next = "render_measure" -> perf + 3
    [] next = "render_review" -> perf + 2
    [] next = "render_fix" -> perf + 1
    [] next = "final_check" -> 2
    [] next = "wrap_up" -> 1
    [] OTHER -> 0

\* A node asks, ends the run, or leaves less to do: the cycle counters, which no review
\* resets, bring every fix back to its gate closer to the end (quality_gates.py:255,
\* quality_gates.py:447).
WorkShrinks ==
  [][Node => next' \in {"escalate", "end"} \/ (Work' \in Nat /\ Work' < Work)]_vars

-----------------------------------------------------------------------------
(* Liveness *)

\* The gates never spin on their own: again and again they ask or the run ends.
GatesAskOrEnd == []<>(next \in {"escalate", "end"})
=============================================================================
