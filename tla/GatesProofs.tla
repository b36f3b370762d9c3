----------------------------- MODULE GatesProofs -----------------------------
(***************************************************************************)
(* Proofs, for every budget, plateau, number of blockers and redos and     *)
(* whichever gates apply, that the safety invariants of Gates hold.        *)
(***************************************************************************)
EXTENDS Gates, TLAPS

(* The inductive invariants. *)

\* What makes the types inductive: the budgets bound the cycle counters.
TypeInv == TypeOK /\ FixBudgets

VisualNodes == {"ux_render", "ux_visual_review", "ux_visual_fix"}

\* The nodes behind the visual gate.
Behind == {"render_measure", "render_review", "render_fix", "final_check", "wrap_up"}

\* Behind the visual gate there is a verdict or a waiver, behind the perf gate a pass.
PassedInv ==
  GatesOn =>
    /\ next \in Behind /\ Eyes => g.verdict \notin {None, "UNKNOWN"} \/ g.shipped
    /\ next \in {"final_check", "wrap_up"} /\ Perf => PerfPassed(g)

\* A run nobody answered or redid has waived nothing, and no blocker went past the
\* visual gate.
CleanInv ==
  "asked" \notin past /\ redos = 0 =>
    /\ ~g.waived
    /\ next \in Behind /\ GatesOn /\ Eyes => g.blockers = 0
    /\ next = "wrap_up" => g.tests \in {"green"} \cup Unknowns

\* Waivers are on record when they are given; a visual gate that does not apply has
\* counted nothing.
RecordInv ==
  /\ g.shipped => "visual" \in ledger
  /\ g.verdict = "SKIPPED_NO_SCREENSHOTS" => "noScreenshots" \in ledger
  /\ g.waived \/ g.tests = "waived" => "tests" \in ledger
  /\ ~(GatesOn /\ Eyes) => next \notin VisualNodes /\ g.blockers = 0
  /\ next \in Behind /\ g.blockers > 0 => "visual" \in ledger
  /\ next = "wrap_up" /\ g.tests = "dbDown" => "db" \in ledger

-----------------------------------------------------------------------------
(* Lemmas about the operators. *)

\* A change of the code keeps its type.
LEMMA ChangedType ==
  ASSUME NEW c \in WorkingCopies, NEW r \in Changed(c) PROVE r \in WorkingCopies
<1>1. PICK n \in IF c.baseline THEN Counts ELSE {0} : r = [c EXCEPT !.dirty = TRUE, !.regressions = n]
  BY DEF Changed
<1>2. n \in Counts
  BY GatesAssumption DEF Counts
<1> QED
  BY <1>1, <1>2 DEF WorkingCopies

\* A run of the tests has a status that fits the waiver, and a working copy.
LEMMA TestRunsType ==
  ASSUME TypeOK, NEW run \in TestRuns
  PROVE  /\ run.status \in TestStatuses \ {"none", "red"} /\ run.code \in WorkingCopies
         /\ run.status = "waived" <=> g.waived
<1>1. CASE g.waived
  BY <1>1 DEF TestRuns, TestStatuses, TypeOK
<1>2. CASE ~g.waived
  <2>1. CASE run \in {[status |-> t, code |-> code] : t \in {"green"} \cup Unknowns}
    BY <2>1, <1>2 DEF TestStatuses, Unknowns, TypeOK
  <2>2. CASE run \in {[status |-> "unmeasured", code |-> c] : c \in Changed(code)}
    BY <2>2, <1>2, ChangedType DEF TestStatuses, Unknowns, TypeOK
  <2>3. CASE run \in {[status |-> "green", code |-> [c EXCEPT !.dirty = d]] : c \in Changed(code), d \in BOOLEAN}
    <3> PICK c \in Changed(code), d \in BOOLEAN : run = [status |-> "green", code |-> [c EXCEPT !.dirty = d]]
      BY <2>3
    <3> c \in WorkingCopies
      BY ChangedType DEF TypeOK
    <3> QED
      BY <1>2 DEF TestStatuses, Unknowns, WorkingCopies
  <2> QED
    BY <1>2, <2>1, <2>2, <2>3 DEF TestRuns
<1> QED
  BY <1>1, <1>2

\* The channels after a review and after a profile.
LEMMA ReviewedType ==
  ASSUME TypeOK, NEW v \in VisualVerdicts, NEW n \in Counts
  PROVE  /\ Reviewed(v, n) \in Channels
         /\ Reviewed(v, n) = [g EXCEPT !.verdict = v, !.blockers = n, !.prev = n, !.stuck = Reviewed(v, n).stuck]
         /\ Reviewed(v, n).stuck \in 0..Plateau
<1>1. g.stuck \in 0..Plateau /\ g.prev \in Counts \cup {NoCount}
  BY DEF TypeOK, Channels
<1>2. NoProgress(n, g.prev, g.stuck) \in Nat
  BY <1>1, GatesAssumption DEF NoProgress
<1>3. Capped(NoProgress(n, g.prev, g.stuck)) \in 0..Plateau
  BY <1>2, GatesAssumption DEF Capped
<1> QED
  BY <1>3 DEF Reviewed, TypeOK, Channels

LEMMA ProfiledType ==
  ASSUME TypeOK, NEW n \in Counts
  PROVE  /\ Profiled(n) \in Channels
         /\ Profiled(n) = [g EXCEPT !.perfVerdict = IF n > 0 THEN "REGRESSED" ELSE "PASS", !.perfBlockers = n,
                                    !.perfPrev = n, !.perfStuck = Profiled(n).perfStuck]
         /\ Profiled(n).perfStuck \in 0..Plateau
<1>1. g.perfStuck \in 0..Plateau /\ g.perfPrev \in Counts \cup {NoCount}
  BY DEF TypeOK, Channels
<1>2. NoProgress(n, g.perfPrev, g.perfStuck) \in Nat
  BY <1>1, GatesAssumption DEF NoProgress
<1>3. Capped(NoProgress(n, g.perfPrev, g.perfStuck)) \in 0..Plateau
  BY <1>2, GatesAssumption DEF Capped
<1> QED
  BY <1>3 DEF Profiled, TypeOK, Channels, PerfVerdicts

\* The router goes where the node says, or to escalate.
LEMMA StepRoute ==
  ASSUME NEW s, NEW dest, Step(s, dest)
  PROVE  /\ g' = s /\ next' \in {dest, "escalate"}
         /\ s.esc = None => next' = dest
BY DEF Step, Route

LEMMA EscalateRoute ==
  ASSUME NEW s \in Channels, NEW reason \in Escalations, Escalate(s, reason)
  PROVE  g' = [s EXCEPT !.esc = reason] /\ g' \in Channels /\ next' = "escalate"
BY DEF Escalate, Step, Route, Channels

-----------------------------------------------------------------------------
(* Types and budgets. *)

LEMMA Bounds == 0 \in Counts /\ 0 \in 0..MaxUxCycles /\ 0 \in 0..MaxPerfCycles /\ 0 \in 0..Plateau /\ 0 \in 0..Redos
BY GatesAssumption DEF Counts

LEMMA TypeInit == Init => TypeInv
<1> SUFFICES ASSUME Init PROVE TypeInv
  OBVIOUS
<1>1. g \in Channels
  BY Bounds DEF Init, Channels, TestStatuses
<1>2. code \in WorkingCopies
  <2> PICK c \in [dirty : {FALSE}, baseline : IF Perf THEN BOOLEAN ELSE {FALSE}, regressions : {0}] : code = c
    BY DEF Init
  <2> QED
    BY Bounds DEF WorkingCopies
<1> QED
  BY <1>1, <1>2, GatesAssumption DEF Init, TypeInv, TypeOK, FixBudgets

LEMMA TypeStep == TypeInv /\ [Next]_vars => TypeInv'
<1> SUFFICES ASSUME TypeInv, [Next]_vars PROVE TypeInv'
  OBVIOUS
<1> USE GatesAssumption, Bounds
<1>0. TypeOK /\ g \in Channels /\ code \in WorkingCopies
  BY DEF TypeInv, TypeOK
<1>a. \A c \in Changed(code) : c \in WorkingCopies
  BY <1>0, ChangedType
<1>b. {"renderFailed", "visualBlocked", "visualPlateau", "perfBlocked", "finalTests", "crash", "generic"} \subseteq Escalations
  BY DEF Escalations
<1>c. AfterUiGate(g) \in {"render_measure", "final_check"} /\ AfterBuild(g) \in {"render_measure", "final_check", "ux_render"}
  BY DEF AfterUiGate, AfterBuild
<1>1. CASE Build
  <2>1. code' \in WorkingCopies
    <3> PICK c \in Changed(code) : code' = [c EXCEPT !.dirty = FALSE]
      BY <1>1 DEF Build
    <3> QED
      BY <1>0, <1>a DEF WorkingCopies
  <2>2. g' \in Channels /\ next' \in {"render_measure", "final_check", "ux_render", "escalate"}
    BY <1>1, <1>0, <1>b, <1>c, StepRoute, EscalateRoute DEF Build
  <2> QED
    BY <1>1, <1>0, <2>1, <2>2 DEF Build, TypeInv, TypeOK, FixBudgets, Nodes
<1>2. CASE VisualReview
  <2> PICK v \in VisualVerdicts, n \in Counts :
        LET s == Reviewed(v, n) IN
        CASE n > 0 /\ s.stuck >= Plateau -> Escalate(s, "visualPlateau")
          [] n > 0 /\ s.stuck < Plateau /\ g.cycle >= MaxUxCycles -> Escalate(s, "visualBlocked")
          [] OTHER -> Step(s, IF n > 0 THEN "ux_visual_fix" ELSE AfterUiGate(s))
    BY <1>2 DEF VisualReview
  <2> DEFINE s == Reviewed(v, n)
  <2>1. s \in Channels /\ s.cycle = g.cycle /\ s.stuck \in 0..Plateau
    <3> DEFINE k == Reviewed(v, n).stuck
    <3>1. s = [g EXCEPT !.verdict = v, !.blockers = n, !.prev = n, !.stuck = k] /\ s \in Channels /\ k \in 0..Plateau
      BY <1>0, ReviewedType
    <3> HIDE DEF s, k
    <3>2. s.cycle = g.cycle /\ s.stuck = k
      BY <1>0, <3>1 DEF Channels
    <3> QED
      BY <3>1, <3>2
  <2>2. UNCHANGED <<ledger, code, past, redos>>
    BY <1>2 DEF VisualReview
  <2>3. CASE Escalate(s, "visualPlateau") \/ Escalate(s, "visualBlocked")
    BY <2>1, <2>2, <2>3, <1>b, EscalateRoute DEF TypeInv, TypeOK, FixBudgets
  <2>4. CASE Step(s, "ux_visual_fix") /\ g.cycle < MaxUxCycles
    BY <2>1, <2>2, <2>4, StepRoute DEF TypeInv, TypeOK, FixBudgets, Nodes
  <2>5. CASE Step(s, AfterUiGate(s))
    BY <2>1, <2>2, <2>5, StepRoute DEF TypeInv, TypeOK, FixBudgets, Nodes, AfterUiGate
  <2>6. g.cycle \in 0..MaxUxCycles /\ n \in Nat
    BY <1>0 DEF Channels, Counts
  <2> QED
    BY <2>1, <2>3, <2>4, <2>5, <2>6
<1>3. CASE VisualFix
  <2>1. [g EXCEPT !.cycle = @ + 1] \in Channels
    BY <1>3, <1>0 DEF VisualFix, TypeInv, FixBudgets, Channels
  <2> QED
    BY <1>3, <2>1, <1>0, <1>a, StepRoute DEF VisualFix, TypeInv, TypeOK, FixBudgets, Nodes
<1>4. CASE RenderOk
  BY <1>4, <1>0, StepRoute DEF RenderOk, TypeInv, TypeOK, FixBudgets, Nodes
<1>5. CASE RenderFails
  BY <1>5, <1>0, <1>b, EscalateRoute DEF RenderFails, TypeInv, TypeOK, FixBudgets
<1>6. CASE NoScreenshots
  <2>1. [g EXCEPT !.verdict = "SKIPPED_NO_SCREENSHOTS", !.blockers = 0] \in Channels
    BY <1>0 DEF Channels
  <2> QED
    BY <1>6, <2>1, <1>0, <1>c, StepRoute DEF NoScreenshots, TypeInv, TypeOK, FixBudgets, Nodes, Compromises
<1>7. CASE ReviewUnusable
  <2>1. [g EXCEPT !.verdict = "UNKNOWN", !.blockers = 0] \in Channels
    BY <1>0 DEF Channels
  <2> QED
    BY <1>7, <2>1, <1>0, <1>b, EscalateRoute DEF ReviewUnusable, TypeInv, TypeOK, FixBudgets
<1>8. CASE MeasureOk
  BY <1>8, <1>0, StepRoute DEF MeasureOk, TypeInv, TypeOK, FixBudgets, Nodes
<1>9. CASE MeasureFails
  BY <1>9, <1>0, <1>b, EscalateRoute DEF MeasureFails, TypeInv, TypeOK, FixBudgets
<1>10. CASE PerfSkipped
  <2>1. [g EXCEPT !.perfVerdict = "SKIPPED", !.perfBlockers = 0] \in Channels
    BY <1>0 DEF Channels, PerfVerdicts
  <2> QED
    BY <1>10, <2>1, <1>0, StepRoute DEF PerfSkipped, TypeInv, TypeOK, FixBudgets, Nodes
<1>11. CASE PerfBaseline
  <2>1. [g EXCEPT !.perfVerdict = "BASELINE", !.perfBlockers = 0] \in Channels
    BY <1>0 DEF Channels, PerfVerdicts
  <2>2. [code EXCEPT !.baseline = TRUE, !.regressions = 0] \in WorkingCopies
    BY <1>0 DEF WorkingCopies
  <2> QED
    BY <1>11, <2>1, <2>2, <1>0, StepRoute DEF PerfBaseline, TypeInv, TypeOK, FixBudgets, Nodes
<1>12. CASE PerfCompared
  <2> DEFINE n == code.regressions
             s == Profiled(n)
  <2>1. n \in Counts
    BY <1>0 DEF WorkingCopies
  <2>2. s \in Channels /\ s.perfCycle = g.perfCycle /\ s.cycle = g.cycle
    <3> DEFINE k == Profiled(n).perfStuck
               w == IF n > 0 THEN "REGRESSED" ELSE "PASS"
    <3>1. s = [g EXCEPT !.perfVerdict = w, !.perfBlockers = n, !.perfPrev = n, !.perfStuck = k] /\ s \in Channels
      BY <2>1, <1>0, ProfiledType
    <3> HIDE DEF s, k, w
    <3> QED
      BY <1>0, <3>1 DEF Channels
  <2>3. UNCHANGED <<ledger, code, past, redos>>
    BY <1>12 DEF PerfCompared
  <2>4. CASE Escalate(s, "perfBlocked")
    BY <2>2, <2>3, <2>4, <1>b, EscalateRoute DEF TypeInv, TypeOK, FixBudgets
  <2>5. CASE Step(s, "render_fix") /\ g.perfCycle < MaxPerfCycles
    BY <2>2, <2>3, <2>5, StepRoute DEF TypeInv, TypeOK, FixBudgets, Nodes
  <2>6. CASE Step(s, "final_check")
    BY <2>2, <2>3, <2>6, StepRoute DEF TypeInv, TypeOK, FixBudgets, Nodes
  <2>7. g.perfCycle \in 0..MaxPerfCycles
    BY <1>0 DEF Channels
  <2> QED
    BY <1>12, <2>4, <2>5, <2>6, <2>7 DEF PerfCompared
<1>13. CASE PerfFix
  <2>1. [g EXCEPT !.perfCycle = @ + 1] \in Channels
    BY <1>13, <1>0 DEF PerfFix, TypeInv, FixBudgets, Channels
  <2> QED
    BY <1>13, <2>1, <1>0, <1>a, StepRoute DEF PerfFix, TypeInv, TypeOK, FixBudgets, Nodes
<1>14. CASE FinalTestsRed
  <2>1. [g EXCEPT !.tests = "red"] \in Channels
    BY <1>0 DEF Channels, TestStatuses
  <2>2. g' \in Channels /\ next' = "escalate"
    BY <1>14, <2>1, <1>b, EscalateRoute DEF FinalTestsRed
  <2> QED
    BY <1>14, <2>2, <1>0, <1>a DEF FinalTestsRed, TypeInv, TypeOK, FixBudgets
<1>15. CASE ChecklistUnusable \/ ChecklistNotMet \/ ChecklistMet
  <2> PICK run \in TestRuns :
        /\ code' = run.code
        /\ \/ Escalate([g EXCEPT !.tests = run.status], "generic")
           \/ Step([g EXCEPT !.tests = run.status, !.esc = None], "wrap_up")
    BY <1>15 DEF ChecklistUnusable, ChecklistNotMet, ChecklistMet
  <2>1. run.status \in TestStatuses /\ run.code \in WorkingCopies
    BY <1>0, TestRunsType
  <2>2. [g EXCEPT !.tests = run.status] \in Channels /\ [g EXCEPT !.tests = run.status, !.esc = None] \in Channels
    BY <1>0, <2>1 DEF Channels
  <2>3. ledger' \subseteq Compromises /\ UNCHANGED <<past, redos>>
    BY <1>15, <1>0 DEF ChecklistUnusable, ChecklistNotMet, ChecklistMet, OnRecord, TypeOK, Compromises
  <2>4. g' \in Channels /\ next' \in {"escalate", "wrap_up"}
    BY <2>2, <1>b, StepRoute, EscalateRoute
  <2> QED
    BY <2>1, <2>3, <2>4, <1>0 DEF TypeInv, TypeOK, FixBudgets, Nodes
<1>16. CASE WrapUp \/ WrapUpRaises
  BY <1>16, <1>0, <1>b DEF WrapUp, WrapUpRaises, TypeInv, TypeOK, FixBudgets, Channels
<1>17. CASE Human
  <2>1. g' \in Channels
    <3>1. g' \in {Answered, g, [Answered EXCEPT !.shipped = TRUE], [Answered EXCEPT !.waived = TRUE]}
      BY <1>17 DEF Human, AnswerOk, AnswerRetry, AnswerSkip, AnswerStop, AnswerInvalid, Resume
    <3>2. Answered \in Channels
      BY <1>0 DEF Answered, Channels
    <3>3. [Answered EXCEPT !.shipped = TRUE] \in Channels /\ [Answered EXCEPT !.waived = TRUE] \in Channels
      BY <3>2 DEF Channels
    <3> QED
      BY <3>1, <3>2, <3>3, <1>0
  <2>2. code' \in WorkingCopies /\ UNCHANGED redos
    BY <1>17, <1>0, <1>a DEF Human, AnswerOk, AnswerRetry, AnswerSkip, AnswerStop, AnswerInvalid, Resume
  <2>3. next' \in {"ux_render", "render_measure", "final_check", "end"}
    BY <1>17 DEF Human, AnswerOk, AnswerRetry, AnswerSkip, AnswerStop, AnswerInvalid, Resume, ReturnTo
  <2>4. ledger' \subseteq Compromises /\ past' \subseteq Events
    BY <1>17, <1>0 DEF Human, AnswerOk, AnswerRetry, AnswerSkip, AnswerStop, AnswerInvalid, TypeOK, Compromises, Events
  <2> QED
    BY <2>1, <2>2, <2>3, <2>4, <1>0 DEF TypeInv, TypeOK, FixBudgets, Nodes
<1>18. CASE RedoVisual \/ RedoBuild
  <2>1. g' \in Channels
    <3>1. [g EXCEPT !.esc = None] \in Channels
      BY <1>0 DEF Channels
    <3>2. [g EXCEPT !.esc = None, !.cycle = 0, !.verdict = None, !.blockers = 0, !.shipped = FALSE] \in Channels
      BY <1>0 DEF Channels
    <3> QED
      BY <1>18, <3>1, <3>2 DEF RedoVisual, RedoBuild
  <2>2. next' \in {"ux_render", "render_measure", "final_check", "build"}
    BY <1>18 DEF RedoVisual, RedoBuild, AfterBuild, AfterUiGate
  <2>3. redos' \in 0..Redos
    BY <1>18, <1>0 DEF RedoVisual, RedoBuild, TypeOK
  <2> QED
    BY <1>18, <2>1, <2>2, <2>3, <1>0 DEF RedoVisual, RedoBuild, TypeInv, TypeOK, FixBudgets, Nodes
<1>19. CASE NodeException \/ ProcessCrash
  <2>1. code' \in WorkingCopies
    <3>1. CASE next = "render_review" /\ ~code.baseline
      <4>1. [code EXCEPT !.baseline = TRUE, !.regressions = 0] \in WorkingCopies
        BY <1>0, GatesAssumption DEF TypeOK, WorkingCopies, Counts
      <4>2. code' \in {code, [code EXCEPT !.baseline = TRUE, !.regressions = 0]}
        BY <1>19, <3>1 DEF NodeException, ProcessCrash, Partial
      <4> QED
        BY <4>1, <4>2, <1>0 DEF TypeOK
    <3>2. CASE next # "render_review" \/ code.baseline
      BY <1>19, <3>2, <1>0, <1>a, TestRunsType DEF NodeException, ProcessCrash, Partial
    <3> QED
      BY <3>1, <3>2
  <2> QED
    BY <1>19, <2>1, <1>0, <1>b, EscalateRoute DEF NodeException, ProcessCrash, TypeInv, TypeOK, FixBudgets
<1>20. CASE Ended \/ UNCHANGED vars
  BY <1>20 DEF Ended, vars, TypeInv, TypeOK, FixBudgets
<1> QED
  BY <1>1, <1>2, <1>3, <1>4, <1>5, <1>6, <1>7, <1>8, <1>9, <1>10, <1>11, <1>12, <1>13, <1>14,
     <1>15, <1>16, <1>17, <1>18, <1>19, <1>20 DEF Next, Node, VisualGate, PerfGate, FinalGate

LEMMA TypeInvariant == Spec => []TypeInv
BY TypeInit, TypeStep, PTL DEF Spec

\* Every variable keeps its type.
THEOREM TypeCorrect == Spec => []TypeOK
<1> TypeInv => TypeOK
  BY DEF TypeInv
<1> QED
  BY TypeInvariant, PTL

\* No fixer of a gate runs beyond its budget of cycles.
THEOREM BudgetsKept == Spec => []FixBudgets
<1> TypeInv => FixBudgets
  BY DEF TypeInv
<1> QED
  BY TypeInvariant, PTL

-----------------------------------------------------------------------------
(* What each group of steps does to the channels the other invariants read. *)

\* A step of the visual gate leaves to the nodes behind it only with a verdict and
\* without blockers.
LEMMA VisualEffect ==
  ASSUME TypeInv, VisualGate
  PROVE  /\ g'.perfVerdict = g.perfVerdict /\ g'.perfBlockers = g.perfBlockers
         /\ g'.shipped = g.shipped /\ g'.waived = g.waived /\ g'.tests = g.tests
         /\ next \in VisualNodes /\ ledger \subseteq ledger' /\ UNCHANGED <<past, redos>>
         /\ next' \in VisualNodes \cup {"render_measure", "final_check", "escalate"}
         /\ next' \in Behind => g'.verdict \notin {None, "UNKNOWN"} /\ g'.blockers = 0
         /\ next' = "final_check" => ~Perf \/ PerfPassed(g)
         /\ g'.verdict = "SKIPPED_NO_SCREENSHOTS" => g.verdict = g'.verdict \/ "noScreenshots" \in ledger'
<1> USE DEF VisualNodes, Behind
<1>0. g \in Channels /\ TypeOK
  BY DEF TypeInv, TypeOK
<1>c. AfterUiGate(g) \in {"render_measure", "final_check"} /\ (AfterUiGate(g) = "final_check" => ~Perf \/ PerfPassed(g))
  BY DEF AfterUiGate
<1>1. CASE RenderOk
  BY <1>1, StepRoute DEF RenderOk
<1>2. CASE RenderFails
  BY <1>2, <1>0, EscalateRoute DEF RenderFails, Escalations, Channels
<1>3. CASE NoScreenshots
  <2> DEFINE s == [g EXCEPT !.verdict = "SKIPPED_NO_SCREENSHOTS", !.blockers = 0]
  <2>1. /\ s.verdict = "SKIPPED_NO_SCREENSHOTS" /\ s.blockers = 0 /\ s.perfVerdict = g.perfVerdict
        /\ s.perfBlockers = g.perfBlockers /\ s.shipped = g.shipped /\ s.waived = g.waived /\ s.tests = g.tests
    BY <1>0 DEF Channels
  <2>2. /\ next = "ux_visual_review" /\ g' = s /\ next' \in {AfterUiGate(g), "escalate"}
        /\ ledger' = ledger \cup {"noScreenshots"} /\ UNCHANGED <<past, redos>>
    BY <1>3, StepRoute DEF NoScreenshots
  <2> HIDE DEF s
  <2> QED
    BY <2>1, <2>2, <1>c DEF None
<1>4. CASE ReviewUnusable
  BY <1>4, <1>0, Bounds DEF ReviewUnusable, Escalate, Step, Route, Channels, None
<1>5. CASE VisualReview
  <2> PICK v \in VisualVerdicts, n \in Counts :
        LET s == Reviewed(v, n) IN
        CASE n > 0 /\ s.stuck >= Plateau -> Escalate(s, "visualPlateau")
          [] n > 0 /\ s.stuck < Plateau /\ g.cycle >= MaxUxCycles -> Escalate(s, "visualBlocked")
          [] OTHER -> Step(s, IF n > 0 THEN "ux_visual_fix" ELSE AfterUiGate(s))
    BY <1>5 DEF VisualReview
  <2> DEFINE s == Reviewed(v, n)
             k == Reviewed(v, n).stuck
  <2>1. s = [g EXCEPT !.verdict = v, !.blockers = n, !.prev = n, !.stuck = k] /\ s \in Channels
    BY <1>0, ReviewedType
  <2>2. g' = s \/ g' = [s EXCEPT !.esc = "visualPlateau"] \/ g' = [s EXCEPT !.esc = "visualBlocked"]
    BY DEF Escalate, Step
  <2>3. next' \in {"escalate", "ux_visual_fix"} \/ (n = 0 /\ next' = AfterUiGate(s) /\ g' = s)
    BY GatesAssumption, StepRoute, <2>1 DEF Escalate, Counts, Step, Route
  <2>4. next = "ux_visual_review" /\ UNCHANGED <<ledger, past, redos>>
    BY <1>5 DEF VisualReview
  <2> HIDE DEF s, k
  <2>5. /\ s.verdict = v /\ s.blockers = n /\ s.perfVerdict = g.perfVerdict /\ s.perfBlockers = g.perfBlockers
        /\ s.shipped = g.shipped /\ s.waived = g.waived /\ s.tests = g.tests
    BY <2>1, <1>0 DEF Channels
  <2>6. /\ g'.verdict = v /\ g'.blockers = n /\ g'.perfVerdict = g.perfVerdict /\ g'.perfBlockers = g.perfBlockers
        /\ g'.shipped = g.shipped /\ g'.waived = g.waived /\ g'.tests = g.tests
    BY <2>1, <2>2, <2>5 DEF Channels
  <2>7. AfterUiGate(s) = AfterUiGate(g)
    BY <2>5 DEF AfterUiGate, PerfPassed
  <2> QED
    BY <2>3, <2>4, <2>6, <2>7, <1>c DEF VisualVerdicts, None
<1>6. CASE VisualFix
  BY <1>6, <1>0, StepRoute DEF VisualFix, Channels
<1> QED
  BY <1>1, <1>2, <1>3, <1>4, <1>5, <1>6 DEF VisualGate

\* A step of the perf gate leaves to the final gate only with a pass.
LEMMA PerfEffect ==
  ASSUME TypeInv, PerfGate
  PROVE  /\ g'.verdict = g.verdict /\ g'.blockers = g.blockers
         /\ g'.shipped = g.shipped /\ g'.waived = g.waived /\ g'.tests = g.tests
         /\ next \in {"render_measure", "render_review", "render_fix"} /\ UNCHANGED <<ledger, past, redos>>
         /\ next' \in {"render_measure", "render_review", "render_fix", "final_check", "escalate"}
         /\ next' = "final_check" => PerfPassed(g')
<1>0. g \in Channels /\ TypeOK
  BY DEF TypeInv, TypeOK
<1>1. CASE MeasureOk
  BY <1>1, StepRoute DEF MeasureOk
<1>2. CASE MeasureFails
  BY <1>2, <1>0, EscalateRoute DEF MeasureFails, Escalations, Channels
<1>3. CASE PerfSkipped
  <2> DEFINE s == [g EXCEPT !.perfVerdict = "SKIPPED", !.perfBlockers = 0]
  <2>1. /\ s.perfVerdict = "SKIPPED" /\ s.perfBlockers = 0 /\ s.verdict = g.verdict /\ s.blockers = g.blockers
        /\ s.shipped = g.shipped /\ s.waived = g.waived /\ s.tests = g.tests
    BY <1>0 DEF Channels
  <2>2. g' = s /\ next = "render_review" /\ next' \in {"final_check", "escalate"} /\ UNCHANGED <<ledger, past, redos>>
    BY <1>3, StepRoute DEF PerfSkipped
  <2> HIDE DEF s
  <2> QED
    BY <2>1, <2>2 DEF PerfPassed
<1>4. CASE PerfBaseline
  <2> DEFINE s == [g EXCEPT !.perfVerdict = "BASELINE", !.perfBlockers = 0]
  <2>1. /\ s.perfVerdict = "BASELINE" /\ s.perfBlockers = 0 /\ s.verdict = g.verdict /\ s.blockers = g.blockers
        /\ s.shipped = g.shipped /\ s.waived = g.waived /\ s.tests = g.tests
    BY <1>0 DEF Channels
  <2>2. g' = s /\ next = "render_review" /\ next' \in {"final_check", "escalate"} /\ UNCHANGED <<ledger, past, redos>>
    BY <1>4, StepRoute DEF PerfBaseline
  <2> HIDE DEF s
  <2> QED
    BY <2>1, <2>2 DEF PerfPassed
<1>5. CASE PerfCompared
  <2> DEFINE n == code.regressions
             s == Profiled(n)
             k == Profiled(n).perfStuck
             w == IF n > 0 THEN "REGRESSED" ELSE "PASS"
  <2>0. n \in Counts
    BY <1>0 DEF TypeOK, WorkingCopies
  <2>1. s = [g EXCEPT !.perfVerdict = w, !.perfBlockers = n, !.perfPrev = n, !.perfStuck = k] /\ s \in Channels
    BY <1>0, <2>0, ProfiledType
  <2>2. g' = s \/ g' = [s EXCEPT !.esc = "perfBlocked"]
    BY <1>5 DEF PerfCompared, Escalate, Step
  <2>3. next' \in {"escalate", "render_fix"} \/ (n = 0 /\ next' = "final_check" /\ g' = s)
    BY <1>5, <2>0, GatesAssumption DEF PerfCompared, Escalate, Counts, Step, Route
  <2>4. next = "render_review" /\ UNCHANGED <<ledger, past, redos>>
    BY <1>5 DEF PerfCompared
  <2>5. n = 0 => w = "PASS"
    OBVIOUS
  <2> HIDE DEF n, s, k, w
  <2>6. /\ s.perfVerdict = w /\ s.perfBlockers = n /\ s.verdict = g.verdict /\ s.blockers = g.blockers
        /\ s.shipped = g.shipped /\ s.waived = g.waived /\ s.tests = g.tests
    BY <2>1, <1>0 DEF Channels
  <2>7. /\ g'.verdict = g.verdict /\ g'.blockers = g.blockers
        /\ g'.shipped = g.shipped /\ g'.waived = g.waived /\ g'.tests = g.tests
    BY <2>1, <2>2, <2>6 DEF Channels
  <2> QED
    BY <2>3, <2>4, <2>5, <2>6, <2>7 DEF PerfPassed
<1>6. CASE PerfFix
  BY <1>6, <1>0, StepRoute DEF PerfFix, Channels
<1> QED
  BY <1>1, <1>2, <1>3, <1>4, <1>5, <1>6 DEF PerfGate

\* A step of the final gate looks at the tests, or ends.
LEMMA FinalEffect ==
  ASSUME TypeInv, FinalGate
  PROVE  /\ g'.verdict = g.verdict /\ g'.blockers = g.blockers /\ g'.shipped = g.shipped /\ g'.waived = g.waived
         /\ g'.perfVerdict = g.perfVerdict /\ g'.perfBlockers = g.perfBlockers
         /\ next \in {"final_check", "wrap_up"} /\ UNCHANGED <<past, redos>> /\ ledger \subseteq ledger'
         /\ next' \in {"wrap_up", "escalate", "end"}
         /\ g'.tests = g.tests \/ (g'.tests # "none" /\ (g'.tests = "waived" => g.waived))
         /\ next' = "wrap_up" => g'.tests \in {"green", "waived"} \cup Unknowns /\ (g'.tests = "waived" => g.waived)
         /\ next' = "wrap_up" /\ g'.tests = "dbDown" => "db" \in ledger'
<1>0. g \in Channels /\ TypeOK
  BY DEF TypeInv, TypeOK
<1>1. CASE FinalTestsRed
  <2>1. g' = [[g EXCEPT !.tests = "red"] EXCEPT !.esc = "finalTests"] /\ next' = "escalate"
    BY <1>1, <1>0, EscalateRoute DEF FinalTestsRed, Escalations, Escalate, Step, Route, None
  <2>2. next = "final_check" /\ UNCHANGED <<ledger, past, redos>>
    BY <1>1 DEF FinalTestsRed
  <2> QED
    BY <2>1, <2>2, <1>0 DEF Channels
<1>2. CASE ChecklistUnusable \/ ChecklistNotMet \/ ChecklistMet
  <2> PICK run \in TestRuns :
        \/ Escalate([g EXCEPT !.tests = run.status], "generic") /\ ledger' \in {ledger, OnRecord(run)}
        \/ Step([g EXCEPT !.tests = run.status, !.esc = None], "wrap_up") /\ ledger' = OnRecord(run)
    BY <1>2 DEF ChecklistUnusable, ChecklistNotMet, ChecklistMet
  <2>1. run.status \in TestStatuses \ {"none", "red"} /\ (run.status = "waived" <=> g.waived)
    BY <1>0, TestRunsType
  <2>2. next = "final_check" /\ UNCHANGED <<past, redos>>
    BY <1>2 DEF ChecklistUnusable, ChecklistNotMet, ChecklistMet
  <2>3. CASE Escalate([g EXCEPT !.tests = run.status], "generic") /\ ledger' \in {ledger, OnRecord(run)}
    BY <2>1, <2>2, <2>3, <1>0 DEF Escalate, Step, Route, None, Channels, OnRecord
  <2>4. CASE Step([g EXCEPT !.tests = run.status, !.esc = None], "wrap_up") /\ ledger' = OnRecord(run)
    <3> DEFINE s == [g EXCEPT !.tests = run.status, !.esc = None]
    <3>1. /\ s.verdict = g.verdict /\ s.blockers = g.blockers /\ s.shipped = g.shipped /\ s.waived = g.waived
          /\ s.perfVerdict = g.perfVerdict /\ s.perfBlockers = g.perfBlockers /\ s.tests = run.status
      BY <1>0 DEF Channels
    <3>2. g' = s /\ next' \in {"wrap_up", "escalate"}
      BY <2>4, StepRoute
    <3> HIDE DEF s
    <3> QED
      BY <2>1, <2>2, <2>4, <3>1, <3>2 DEF OnRecord, TestStatuses
  <2> QED
    BY <2>3, <2>4
<1>3. CASE WrapUp \/ WrapUpRaises
  <2>1. g' \in {g, [g EXCEPT !.esc = "crash"]} /\ next = "wrap_up" /\ next' = "end" /\ UNCHANGED <<ledger, past, redos>>
    BY <1>3 DEF WrapUp, WrapUpRaises
  <2> QED
    BY <2>1, <1>0 DEF Channels
<1> QED
  BY <1>1, <1>2, <1>3 DEF FinalGate

\* An answer may waive, and records what it waives; it resumes where nothing is missing.
LEMMA HumanEffect ==
  ASSUME TypeInv, Human
  PROVE  /\ g'.verdict = g.verdict /\ g'.blockers = g.blockers /\ g'.tests = g.tests
         /\ g'.perfVerdict = g.perfVerdict /\ g'.perfBlockers = g.perfBlockers
         /\ "asked" \in past' /\ UNCHANGED redos /\ ledger \subseteq ledger'
         /\ g'.shipped => g.shipped \/ "visual" \in ledger'
         /\ g'.waived => g.waived \/ "tests" \in ledger'
         /\ next' = "end" \/ next' = ReturnTo(g')
<1>0. g \in Channels
  BY DEF TypeInv, TypeOK
<1>1. CASE AnswerOk
  <2>1. CASE g.esc = "visualBlocked"
    BY <1>1, <2>1, <1>0 DEF AnswerOk, Resume, Answered, Channels
  <2>2. CASE g.esc = "finalTests"
    BY <1>1, <2>2, <1>0 DEF AnswerOk, Resume, Answered, Channels
  <2>3. CASE g.esc \notin {"visualBlocked", "finalTests"}
    BY <1>1, <2>3, <1>0 DEF AnswerOk, Resume, Answered, Channels
  <2> QED
    BY <2>1, <2>2, <2>3
<1>2. CASE AnswerRetry
  BY <1>2, <1>0 DEF AnswerRetry, Resume, Answered, Channels
<1>3. CASE AnswerSkip
  <2>1. CASE g.esc = "renderFailed"
    BY <1>3, <2>1, <1>0 DEF AnswerSkip, Resume, Answered, Channels
  <2>2. CASE g.esc # "renderFailed"
    BY <1>3, <2>2, <1>0 DEF AnswerSkip, Resume, Answered, Channels
  <2> QED
    BY <2>1, <2>2
<1>4. CASE AnswerStop
  BY <1>4, <1>0 DEF AnswerStop, Answered, Channels
<1>5. CASE AnswerInvalid
  BY <1>5 DEF AnswerInvalid, Resume
<1> QED
  BY <1>1, <1>2, <1>3, <1>4, <1>5 DEF Human

\* The rest: building, redoing, failures.
LEMMA BuildEffect ==
  ASSUME TypeInv, Build
  PROVE  /\ g'.verdict = g.verdict /\ g'.blockers = g.blockers /\ g'.shipped = g.shipped /\ g'.waived = g.waived
         /\ g'.perfVerdict = g.perfVerdict /\ g'.perfBlockers = g.perfBlockers /\ g'.tests = g.tests
         /\ UNCHANGED <<ledger, past, redos>> /\ next' \in {AfterBuild(g), "escalate"}
<1>0. g \in Channels
  BY DEF TypeInv, TypeOK
<1> QED
  BY <1>0, StepRoute DEF Build, Escalate, Step, Route, None, Channels

LEMMA RedoEffect ==
  ASSUME TypeInv, RedoVisual \/ RedoBuild
  PROVE  /\ redos' > 0 /\ g'.waived = g.waived /\ UNCHANGED ledger /\ g'.tests = g.tests
         /\ g'.perfVerdict = g.perfVerdict /\ g'.perfBlockers = g.perfBlockers
         /\ \/ next' = "build" /\ g'.verdict = g.verdict /\ g'.blockers = g.blockers /\ g'.shipped = g.shipped
            \/ next' = AfterBuild(g') /\ g'.verdict = None /\ g'.blockers = 0 /\ ~g'.shipped
<1>0. g \in Channels /\ redos \in Nat
  BY GatesAssumption DEF TypeInv, TypeOK
<1>1. CASE RedoVisual
  BY <1>1, <1>0 DEF RedoVisual, Channels
<1>2. CASE RedoBuild
  BY <1>2, <1>0 DEF RedoBuild, Channels
<1> QED
  BY <1>1, <1>2

LEMMA FailureEffect ==
  ASSUME TypeInv, NodeException \/ ProcessCrash \/ Ended \/ UNCHANGED vars
  PROVE  /\ g'.verdict = g.verdict /\ g'.blockers = g.blockers /\ g'.shipped = g.shipped /\ g'.waived = g.waived
         /\ g'.perfVerdict = g.perfVerdict /\ g'.perfBlockers = g.perfBlockers /\ g'.tests = g.tests
         /\ UNCHANGED <<ledger, past, redos>> /\ next' \in {next, "escalate"}
<1>0. g \in Channels
  BY DEF TypeInv, TypeOK
<1>1. CASE NodeException
  BY <1>1, <1>0, EscalateRoute DEF NodeException, Escalations, Channels
<1>2. CASE ProcessCrash \/ Ended \/ UNCHANGED vars
  BY <1>2 DEF ProcessCrash, Ended, vars
<1> QED
  BY <1>1, <1>2

-----------------------------------------------------------------------------
(* The gates are passed, clean runs are clean, compromises are on record. *)

SafeInv == PassedInv /\ CleanInv /\ RecordInv

LEMMA SafeInit == Init => SafeInv
<1> SUFFICES ASSUME Init PROVE SafeInv
  OBVIOUS
<1>1. /\ g.blockers = 0 /\ g.verdict = None /\ ~g.shipped /\ ~g.waived /\ g.tests = "none"
      /\ next = "build" /\ past = {} /\ redos = 0
  BY DEF Init
<1> QED
  BY <1>1 DEF SafeInv, PassedInv, CleanInv, RecordInv, Behind, VisualNodes, None

LEMMA PassedStep == TypeInv /\ PassedInv /\ [Next]_vars => PassedInv'
<1> SUFFICES ASSUME TypeInv, PassedInv, [Next]_vars PROVE PassedInv'
  OBVIOUS
<1> USE DEF PassedInv, Behind, VisualNodes, PerfPassed
<1>1. CASE Build
  BY <1>1, BuildEffect DEF AfterBuild, AfterUiGate
<1>2. CASE VisualGate
  BY <1>2, VisualEffect
<1>3. CASE PerfGate
  BY <1>3, PerfEffect
<1>4. CASE FinalGate
  BY <1>4, FinalEffect
<1>5. CASE Human
  BY <1>5, HumanEffect DEF ReturnTo, VisualPassed, None
<1>6. CASE RedoVisual \/ RedoBuild
  BY <1>6, RedoEffect DEF AfterBuild, AfterUiGate
<1>7. CASE NodeException \/ ProcessCrash \/ Ended \/ UNCHANGED vars
  BY <1>7, FailureEffect
<1> QED
  BY <1>1, <1>2, <1>3, <1>4, <1>5, <1>6, <1>7 DEF Next, Node

LEMMA CleanStep == TypeInv /\ CleanInv /\ [Next]_vars => CleanInv'
<1> SUFFICES ASSUME TypeInv, CleanInv, [Next]_vars PROVE CleanInv'
  OBVIOUS
<1> USE DEF CleanInv, Behind, VisualNodes
<1>1. CASE Build
  BY <1>1, BuildEffect DEF AfterBuild, AfterUiGate
<1>2. CASE VisualGate
  BY <1>2, VisualEffect
<1>3. CASE PerfGate
  BY <1>3, PerfEffect
<1>4. CASE FinalGate
  <2>1. /\ g'.blockers = g.blockers /\ g'.waived = g.waived /\ next \in Behind /\ UNCHANGED <<past, redos>>
        /\ next' = "wrap_up" => g'.tests \in {"green", "waived"} \cup Unknowns /\ (g'.tests = "waived" => g.waived)
    BY <1>4, FinalEffect
  <2> QED
    BY <2>1
<1>5. CASE Human
  BY <1>5, HumanEffect
<1>6. CASE RedoVisual \/ RedoBuild
  BY <1>6, RedoEffect
<1>7. CASE NodeException \/ ProcessCrash \/ Ended \/ UNCHANGED vars
  BY <1>7, FailureEffect
<1> QED
  BY <1>1, <1>2, <1>3, <1>4, <1>5, <1>6, <1>7 DEF Next, Node

LEMMA RecordStep == TypeInv /\ RecordInv /\ [Next]_vars => RecordInv'
<1> SUFFICES ASSUME TypeInv, RecordInv, [Next]_vars PROVE RecordInv'
  OBVIOUS
<1> USE DEF RecordInv, Behind, VisualNodes
<1>1. CASE Build
  BY <1>1, BuildEffect DEF AfterBuild, AfterUiGate, Build
<1>2. CASE VisualGate
  BY <1>2, VisualEffect
<1>3. CASE PerfGate
  BY <1>3, PerfEffect
<1>4. CASE FinalGate
  BY <1>4, FinalEffect
<1>5. CASE Human
  BY <1>5, HumanEffect DEF ReturnTo, VisualPassed
<1>6. CASE RedoVisual \/ RedoBuild
  <2>1. ledger' = ledger /\ g'.tests = g.tests /\ g'.waived = g.waived
    BY <1>6, RedoEffect
  <2>2. CASE next' = "build" /\ g'.verdict = g.verdict /\ g'.blockers = g.blockers /\ g'.shipped = g.shipped
    BY <2>1, <2>2
  <2>3. CASE next' = AfterBuild(g') /\ g'.verdict = None /\ g'.blockers = 0 /\ ~g'.shipped
    <3>1. ~(GatesOn /\ Eyes) => AfterBuild(g') \in {"render_measure", "final_check"}
      BY DEF AfterBuild, AfterUiGate
    <3>2. AfterBuild(g') # "wrap_up"
      BY DEF AfterBuild, AfterUiGate
    <3>3. g'.blockers = 0 /\ ~g'.shipped /\ g'.verdict # "SKIPPED_NO_SCREENSHOTS"
      BY <2>3 DEF None
    <3>4. g'.waived \/ g'.tests = "waived" => "tests" \in ledger'
      BY <2>1
    <3>5. next' # "wrap_up" /\ (~(GatesOn /\ Eyes) => next' \notin VisualNodes)
      BY <2>3, <3>1, <3>2
    <3>6. ~(0 > 0)
      OBVIOUS
    <3> QED
      BY <3>3, <3>4, <3>5, <3>6
  <2> QED
    BY <1>6, RedoEffect, <2>2, <2>3
<1>7. CASE NodeException \/ ProcessCrash \/ Ended \/ UNCHANGED vars
  BY <1>7, FailureEffect
<1> QED
  BY <1>1, <1>2, <1>3, <1>4, <1>5, <1>6, <1>7 DEF Next, Node

LEMMA SafeInvariant == Spec => [](TypeInv /\ SafeInv)
<1>1. TypeInv /\ SafeInv /\ [Next]_vars => SafeInv'
  BY PassedStep, CleanStep, RecordStep DEF SafeInv
<1> QED
  BY <1>1, SafeInit, TypeInvariant, PTL DEF Spec

\* Whatever is answered, redone or crashes, the final gate is reached only through the
\* gates that apply.
THEOREM NoGateSkipped == Spec => []GatesNotSkipped
<1> SafeInv => GatesNotSkipped
  BY DEF SafeInv, PassedInv, GatesNotSkipped, Behind
<1> QED
  BY SafeInvariant, PTL

\* A run nobody intervened in wraps up on clean gates.
THEOREM AloneShipsClean == Spec => []UnattendedShipsClean
<1> SafeInv => UnattendedShipsClean
  BY DEF SafeInv, PassedInv, CleanInv, UnattendedShipsClean, Behind, PerfPassed
<1> QED
  BY SafeInvariant, PTL

\* What is compromised when a run wraps up is in the ledger it reports.
THEOREM CompromisesOnRecord == Spec => []ShipsOnRecord
<1> TypeInv /\ SafeInv => ShipsOnRecord
  BY DEF SafeInv, RecordInv, ShipsOnRecord, Behind
<1> QED
  BY SafeInvariant, PTL

-----------------------------------------------------------------------------
(* Progress. *)

\* A step that was not sent to the human went where its node says.
LEMMA NotAsked ==
  ASSUME next' # "escalate"
  PROVE  /\ ~ \E s, reason : Escalate(s, reason)
         /\ \A s, dest : Step(s, dest) => g' = s /\ next' = dest
BY DEF Escalate, Step, Route

\* Where the nodes lead on their own: forward through the gates, and back only from
\* a fixer that used up a cycle.
LEMMA NodeRoutes ==
  ASSUME TypeInv, Node, next' \notin {"escalate", "end"}
  PROVE  \/ next = "build" /\ next' \in {"ux_render", "render_measure", "final_check"} /\ g' = g
         \/ next = "ux_render" /\ next' = "ux_visual_review" /\ g' = g
         \/ /\ next = "ux_visual_review"
            /\ next' \in {"ux_visual_fix", "render_measure", "final_check"}
            /\ g'.cycle = g.cycle /\ g'.perfCycle = g.perfCycle
         \/ /\ next = "ux_visual_fix" /\ next' = "ux_render"
            /\ g.cycle < MaxUxCycles
            /\ g'.cycle = g.cycle + 1 /\ g'.perfCycle = g.perfCycle
         \/ next = "render_measure" /\ next' = "render_review" /\ g' = g
         \/ /\ next = "render_review" /\ next' \in {"render_fix", "final_check"}
            /\ g'.perfCycle = g.perfCycle
         \/ /\ next = "render_fix" /\ next' = "render_measure"
            /\ g.perfCycle < MaxPerfCycles
            /\ g'.perfCycle = g.perfCycle + 1
         \/ next = "final_check" /\ next' = "wrap_up"
<1>0. TypeOK /\ g \in Channels /\ code \in WorkingCopies
  BY DEF TypeInv, TypeOK
<1>a. \A s : AfterUiGate(s) \in {"render_measure", "final_check"} /\ AfterBuild(s) \in {"ux_render", "render_measure", "final_check"}
  BY DEF AfterUiGate, AfterBuild
<1>1. CASE Build
  BY <1>1, <1>a, NotAsked DEF Build
<1>2. CASE RenderOk \/ MeasureOk
  BY <1>2, NotAsked DEF RenderOk, MeasureOk
<1>3. CASE RenderFails \/ ReviewUnusable \/ MeasureFails
  BY <1>3, NotAsked DEF RenderFails, ReviewUnusable, MeasureFails
<1>4. CASE NoScreenshots
  <2>1. /\ g' = [g EXCEPT !.verdict = "SKIPPED_NO_SCREENSHOTS", !.blockers = 0]
        /\ next' = AfterUiGate(g)
    BY <1>4, NotAsked DEF NoScreenshots
  <2>2. g'.cycle = g.cycle /\ g'.perfCycle = g.perfCycle
    BY <1>0, <2>1 DEF Channels
  <2> QED
    BY <1>4, <1>a, <2>1, <2>2 DEF NoScreenshots
<1>5. CASE VisualReview
  <2> PICK v \in VisualVerdicts, n \in Counts :
        LET s == Reviewed(v, n) IN
        CASE n > 0 /\ s.stuck >= Plateau -> Escalate(s, "visualPlateau")
          [] n > 0 /\ s.stuck < Plateau /\ g.cycle >= MaxUxCycles -> Escalate(s, "visualBlocked")
          [] OTHER -> Step(s, IF n > 0 THEN "ux_visual_fix" ELSE AfterUiGate(s))
    BY <1>5 DEF VisualReview
  <2> DEFINE s == Reviewed(v, n)
  <2>1. Step(s, IF n > 0 THEN "ux_visual_fix" ELSE AfterUiGate(s))
    <3>1. s.stuck \in Int /\ Plateau \in Int /\ g.cycle \in Int /\ MaxUxCycles \in Int /\ n \in Int
      <4>1. s.stuck \in 0..Plateau
        BY <1>0, ReviewedType
      <4> HIDE DEF s
      <4> QED
        BY <1>0, <4>1, GatesAssumption DEF Channels, Counts
    <3> QED
      BY <3>1, NotAsked
  <2>2. g' = s /\ next' \in {"ux_visual_fix", "render_measure", "final_check"}
    BY <2>1, <1>a, NotAsked
  <2>3. s.cycle = g.cycle /\ s.perfCycle = g.perfCycle
    BY <1>0 DEF Reviewed, Channels
  <2> QED
    BY <1>5, <2>2, <2>3 DEF VisualReview
<1>6. CASE VisualFix
  BY <1>0, <1>6, NotAsked DEF VisualFix, Channels, TypeInv, FixBudgets
<1>7. CASE PerfSkipped \/ PerfBaseline
  <2>1. PICK v \in {"SKIPPED", "BASELINE"} :
          g' = [g EXCEPT !.perfVerdict = v, !.perfBlockers = 0] /\ next' = "final_check"
    BY <1>7, NotAsked DEF PerfSkipped, PerfBaseline
  <2>2. g'.perfCycle = g.perfCycle
    BY <1>0, <2>1 DEF Channels
  <2> QED
    BY <1>7, <2>1, <2>2 DEF PerfSkipped, PerfBaseline
<1>8. CASE PerfCompared
  <2> DEFINE n == code.regressions
             s == Profiled(n)
  <2>1. Step(s, IF n > 0 THEN "render_fix" ELSE "final_check")
    BY <1>8, NotAsked DEF PerfCompared
  <2>2. g' = s /\ next' \in {"render_fix", "final_check"}
    BY <2>1, NotAsked
  <2>3. s.perfCycle = g.perfCycle
    BY <1>0 DEF Profiled, Channels
  <2> QED
    BY <1>8, <2>2, <2>3 DEF PerfCompared
<1>9. CASE PerfFix
  BY <1>0, <1>9, NotAsked DEF PerfFix, Channels, TypeInv, FixBudgets
<1>10. CASE FinalGate
  BY <1>10, NotAsked
     DEF FinalGate, FinalTestsRed, ChecklistUnusable, ChecklistNotMet, ChecklistMet, WrapUp, WrapUpRaises
<1>11. CASE NodeException
  BY <1>11, NotAsked DEF NodeException
<1> QED
  BY <1>1, <1>2, <1>3, <1>4, <1>5, <1>6, <1>7, <1>8, <1>9, <1>10, <1>11 DEF Node, VisualGate, PerfGate

\* What is left to do is a number.
LEMMA WorkType ==
  ASSUME TypeInv
  PROVE  Work \in Nat
<1> g.cycle \in 0..MaxUxCycles /\ g.perfCycle \in 0..MaxPerfCycles
  BY DEF TypeInv, TypeOK, Channels
<1> MaxUxCycles \in Nat /\ MaxPerfCycles \in Nat
  BY GatesAssumption
<1> QED
  BY DEF Work

\* No gate sends the run back for ever: a node that does not ask or end the run
\* leaves fewer renders, reviews and fixes to do than it found.
THEOREM GatesProgress == Spec => WorkShrinks
<1>0. TypeInv => Work \in Nat
  BY WorkType
<1>1. ASSUME TypeInv, (Work \in Nat)', Node, next' \notin {"escalate", "end"}
      PROVE  Work' < Work
  <2>1. /\ g.cycle \in 0..MaxUxCycles /\ g.perfCycle \in 0..MaxPerfCycles
        /\ MaxUxCycles \in Nat /\ MaxPerfCycles \in Nat
    BY <1>1, GatesAssumption DEF TypeInv, TypeOK, Channels
  <2>2. CASE next \in {"build", "ux_render", "ux_visual_review"}
    BY <1>1, <2>1, <2>2, NodeRoutes DEF Work
  <2>3. CASE next \in {"ux_visual_fix", "render_measure", "render_review"}
    BY <1>1, <2>1, <2>3, NodeRoutes DEF Work
  <2>4. CASE next \in {"render_fix", "final_check"}
    BY <1>1, <2>1, <2>4, NodeRoutes DEF Work
  <2> QED
    BY <1>1, <2>2, <2>3, <2>4, NodeRoutes
<1>2. TypeInv /\ (Work \in Nat)' =>
        [Node => next' \in {"escalate", "end"} \/ (Work' \in Nat /\ Work' < Work)]_vars
  BY <1>1
<1> QED
  BY <1>0, <1>2, TypeInvariant, PTL DEF Spec, WorkShrinks

=============================================================================
