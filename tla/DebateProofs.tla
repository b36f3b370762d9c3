----------------------------- MODULE DebateProofs -----------------------------
(***************************************************************************)
(* Proofs, for every number of rounds, blockers, re-intakes and `continue` *)
(* answers, with and without a designer, that the safety properties of     *)
(* Debate hold.                                                            *)
(***************************************************************************)
EXTENDS Debate, TLAPS

(* The inductive invariants. *)

\* What UnattendedPlanConverged needs of the ways into the summary that are no decision
\* of the debate, and of a critic who takes no part.
ConvergedInv ==
  /\ UnattendedPlanConverged
  /\ next = "checkpoint_effort" => d.round = 0
  /\ ~Eyes => d.uxOpen = 0 /\ next # "debate_ux"

Debated == d.effort = "scout-monke" \/ d.round > 0

\* A retry of the verdict that is owed, and an escalation of the judge, come from a
\* verdict on a debated plan; nothing resets the round while either is pending.
DebatedInv ==
  "redone" \notin past =>
    /\ next \in {"summary", "judge"} \/ d.retryJudge \/ d.esc = "judge" => Debated
    /\ next = "debate_ux" => d.round > 0
    /\ next = "plan" /\ d.esc # None => d.round = 0
    /\ d.retryJudge => next \in {"judge", "escalate", "end"} /\ d.esc \in {None, "judge", "plain", "crash"}

-----------------------------------------------------------------------------
(* Lemmas about the operators. *)

LEMMA Bounds ==
  /\ TopRound \in Nat /\ TopRound > 0 /\ MaxBonus \in Nat /\ MaxBlockers \in Nat /\ MaxReintakes \in Nat
  /\ 0 \in 0..TopRound /\ 0 \in 0..(TopRound + 2) /\ 0 \in 0..MaxBonus /\ 0 \in Counts /\ 0 \in 0..MaxReintakes
BY DebateAssumption DEF TopRound, Counts

LEMMA EscalationNames ==
  /\ None \notin Escalations
  /\ {"summary", "debate_reply"} \cap Escalations = {}
  /\ {"stuck", "thrashing", "requirements", "exhausted", "exhaustedUx", "critic", "judge", "crash",
      "rejected", "plain"} = Escalations
BY DEF Escalations, None

\* The next round is one further or at the cap.
LEMMA NextRound ==
  ASSUME d \in Channels
  PROVE  CapAt(d.round + 1, TopRound) \in 0..TopRound /\ CapAt(d.round + 1, TopRound) > 0
BY Bounds DEF Channels, CapAt

LEMMA FieldTypes ==
  ASSUME NEW c \in Channels
  PROVE  /\ c.round \in Nat /\ c.bonus \in Nat /\ c.open \in Nat /\ c.uxOpen \in Nat /\ Cap(c) \in Nat
         /\ c.round \in 0..TopRound /\ c.bonus \in 0..MaxBonus /\ c.open \in Counts /\ c.uxOpen \in Counts
BY DebateAssumption DEF Channels, Cap, Counts

\* The channels the invariants read, except the escalation.
Same(c, e) ==
  /\ c.effort = e.effort /\ c.round = e.round /\ c.bonus = e.bonus
  /\ c.open = e.open /\ c.uxOpen = e.uxOpen /\ c.retryJudge = e.retryJudge

\* The router goes where the node says, or to escalate.
LEMMA StepRoute ==
  ASSUME NEW c, NEW dest, Step(c, dest)
  PROVE  d' = c /\ next' \in {dest, "escalate"} /\ (c.esc # None => next' = "escalate")
BY DEF Step, Route

LEMMA EscalateRoute ==
  ASSUME NEW c \in Channels, NEW reason \in Escalations, Escalate(c, reason)
  PROVE  d' \in Channels /\ next' = "escalate" /\ d'.esc = reason /\ Same(d', c)
<1> DEFINE e == [c EXCEPT !.esc = reason]
<1>1. e \in Channels /\ e.esc = reason /\ Same(e, c)
  BY DEF Channels, Same
<1>2. Step(e, "escalate")
  BY DEF Escalate
<1> HIDE DEF e
<1> QED
  BY <1>1, <1>2, StepRoute

\* Where an answer leads.
LEMMA ReturnPlace ==
  ASSUME NEW c \in Channels
  PROVE  /\ ReturnTo(c) \in {"judge", "intake", "debate_tech", "summary", "plan"} \cup LoopEntries
         /\ (c.retryJudge <=> ReturnTo(c) = "judge")
         /\ (ReturnTo(c) = "summary" => c.round > 0)
         /\ (ReturnTo(c) = "plan" => c.round = 0)
<1>1. c.round \in Nat /\ c.bonus \in Nat /\ c.open \in Nat /\ c.retryJudge \in BOOLEAN
  BY FieldTypes DEF Channels
<1>2. CASE c.retryJudge
  BY <1>2 DEF ReturnTo
<1>3. CASE ~c.retryJudge /\ ~c.intakeDone
  BY <1>3 DEF ReturnTo
<1>4. CASE ~c.retryJudge /\ c.intakeDone /\ ~c.batches
  BY <1>1, <1>4 DEF ReturnTo
<1>5. CASE ~c.retryJudge /\ c.intakeDone /\ c.batches
  BY <1>1, <1>5 DEF ReturnTo, LoopEntries
<1> QED
  BY <1>2, <1>3, <1>4, <1>5 DEF Channels

\* What a decision of the debate is.
LEMMA DecisionKinds ==
  ASSUME NEW c \in Channels, ~Eyes => c.uxOpen = 0
  PROVE  /\ Decision(c) \in {"summary", "debate_reply", "exhausted", "exhaustedUx"}
         /\ (Decision(c) = "summary" => c.open = 0 /\ c.uxOpen = 0)
         /\ (Decision(c) = "debate_reply" => c.round <= Cap(c))
<1>1. c.round \in Nat /\ c.open \in Nat /\ c.uxOpen \in Nat /\ Cap(c) \in Nat
  BY FieldTypes
<1>2. CASE c.tech /\ c.open = 0 /\ (Eyes => c.ux /\ c.uxOpen = 0)
  BY <1>2 DEF Decision
<1>3. CASE ~(c.tech /\ c.open = 0 /\ (Eyes => c.ux /\ c.uxOpen = 0)) /\ c.round > Cap(c)
  BY <1>1, <1>3 DEF Decision
<1>4. CASE ~(c.tech /\ c.open = 0 /\ (Eyes => c.ux /\ c.uxOpen = 0)) /\ ~(c.round > Cap(c))
  BY <1>1, <1>4 DEF Decision
<1> QED
  BY <1>2, <1>3, <1>4

\* What both critiques lead to.
LEMMA DecideEffect ==
  ASSUME NEW c \in Channels, NEW gaps \in BOOLEAN, NEW trend \in {None, "stuck", "thrashing"},
         ~Eyes => c.uxOpen = 0, Decide(c, gaps, trend)
  PROVE  /\ d' \in Channels /\ Same(d', c) /\ next' \in {"summary", "debate_reply", "escalate"}
         /\ d'.esc \in {c.esc, "stuck", "thrashing", "requirements", "exhausted", "exhaustedUx"}
         /\ (next' = "summary" => ~gaps /\ c.open = 0 /\ c.uxOpen = 0)
         /\ (next' = "debate_reply" => c.round <= Cap(c))
<1> DEFINE choice == CASE gaps -> "requirements"
                       [] ~gaps /\ trend # None -> trend
                       [] OTHER -> Decision(c)
<1>1. IF choice \in Escalations THEN Escalate(c, choice) ELSE Step(c, choice)
  BY DEF Decide
<1>2. /\ choice \in {"requirements", "stuck", "thrashing", Decision(c)}
      /\ (choice = "summary" => ~gaps /\ Decision(c) = "summary")
      /\ (choice = "debate_reply" => Decision(c) = "debate_reply")
  BY DecisionKinds DEF None
<1> HIDE DEF choice
<1>3. CASE choice \in Escalations
  <2>1. choice \in {"stuck", "thrashing", "requirements", "exhausted", "exhaustedUx"}
    BY <1>2, <1>3, DecisionKinds, EscalationNames
  <2> QED
    BY <1>1, <1>3, <2>1, EscalateRoute
<1>4. CASE choice \notin Escalations
  <2>1. choice = Decision(c) /\ choice \in {"summary", "debate_reply"}
    BY <1>2, <1>4, DecisionKinds, EscalationNames
  <2>2. d' = c /\ next' \in {choice, "escalate"}
    BY <1>1, <1>4, StepRoute
  <2> QED
    BY <1>2, <2>1, <2>2, DecisionKinds DEF Same
<1> QED
  BY <1>3, <1>4

LEMMA TrendNames == ASSUME NEW c, NEW trend \in Trends(c) PROVE trend \in {None, "stuck", "thrashing"}
BY DEF Trends

-----------------------------------------------------------------------------
(* What each group of steps does to the channels the invariants read. *)

\* The interview, the plan and the effort level.
LEMMA PlanningEffect ==
  ASSUME TypeOK, Intake \/ Planning
  PROVE  /\ d' \in Channels /\ files' \in Artifacts /\ past' \in {past, past \ {"asked"}}
         /\ next \in {"intake", "plan", "checkpoint_effort"}
         /\ d'.uxOpen = d.uxOpen /\ d'.retryJudge = d.retryJudge /\ d'.esc \in {d.esc, "plain"}
         /\ (next = "intake" => next' \in {"plan", "escalate"} /\ Same(d', d))
         /\ (next = "intake" => d'.esc = d.esc /\ (d.esc # None => next' = "escalate"))
         /\ (next = "plan" => /\ next' \in {"checkpoint_effort", "escalate"}
                              /\ d'.effort = d.effort
                              /\ (d'.round = 0 \/ (d'.round = d.round /\ next' = "escalate")))
         /\ (next = "checkpoint_effort" =>
               /\ next' \in {"summary", "debate_tech", "escalate", "end"}
               /\ d'.round = d.round /\ past' = past
               /\ (d.effort = "scout-monke" => d'.effort = "scout-monke")
               /\ (next' = "summary" => d'.effort = "scout-monke"))
<1>0. d \in Channels /\ files \in Artifacts
  BY DEF TypeOK
<1>1. CASE Intake
  <2>1. PICK done \in BOOLEAN, n \in {d.reintakes, CapAt(d.reintakes + 1, MaxReintakes)} :
          Step([d EXCEPT !.intakeDone = done, !.reintakes = n], "plan")
    BY <1>1 DEF Intake
  <2> DEFINE e == [d EXCEPT !.intakeDone = done, !.reintakes = n]
  <2>2. d.reintakes \in 0..MaxReintakes /\ n \in 0..MaxReintakes
    BY <1>0, Bounds DEF Channels, CapAt
  <2>3. e \in Channels /\ Same(e, d) /\ e.esc = d.esc
    BY <1>0, <2>2 DEF Channels, Same
  <2>4. Step(e, "plan") /\ next = "intake" /\ UNCHANGED <<files, past>>
    BY <1>1, <2>1 DEF Intake
  <2> HIDE DEF e
  <2> QED
    BY <1>0, <2>3, <2>4, StepRoute DEF Same
<1>2. CASE PlanFails
  BY <1>2, <1>0, EscalateRoute, EscalationNames DEF PlanFails, Same
<1>3. CASE PlanKept \/ PlanWritten
  <2> DEFINE e == [d EXCEPT !.round = 0]
  <2>1. e \in Channels /\ e.round = 0 /\ e.effort = d.effort /\ e.uxOpen = d.uxOpen /\ e.retryJudge = d.retryJudge /\ e.esc = d.esc
    BY <1>0, Bounds DEF Channels
  <2>2. Step(e, "checkpoint_effort") /\ next = "plan" /\ files' \in Artifacts /\ past' = past \ {"asked"}
    BY <1>3, <1>0 DEF PlanKept, PlanWritten, Artifacts
  <2> HIDE DEF e
  <2> QED
    BY <2>1, <2>2, StepRoute
<1>4. CASE EffortChosen
  <2>1. PICK f \in IF d.effort = None THEN Efforts ELSE {d.effort} :
          Step([d EXCEPT !.effort = f], IF f = "scout-monke" THEN "summary" ELSE "debate_tech")
    BY <1>4 DEF EffortChosen
  <2> DEFINE e == [d EXCEPT !.effort = f]
  <2>2. f \in Efforts \cup {None} /\ (d.effort = "scout-monke" => f = "scout-monke")
    BY <1>0 DEF Channels, Efforts, None
  <2>3. e \in Channels /\ e.round = d.round /\ e.effort = f /\ e.uxOpen = d.uxOpen /\ e.retryJudge = d.retryJudge /\ e.esc = d.esc
    BY <1>0, <2>2 DEF Channels
  <2>4. next = "checkpoint_effort" /\ UNCHANGED <<files, past>>
        /\ ((Step(e, "summary") /\ f = "scout-monke") \/ Step(e, "debate_tech"))
    BY <1>4, <2>1 DEF EffortChosen
  <2> HIDE DEF e
  <2> QED
    BY <1>0, <2>2, <2>3, <2>4, StepRoute
<1>5. CASE EffortStop
  BY <1>5, <1>0 DEF EffortStop
<1> QED
  BY <1>1, <1>2, <1>3, <1>4, <1>5 DEF Planning

\* The critics and the proposer.
LEMMA DebateEffect ==
  ASSUME TypeOK, ~Eyes => d.uxOpen = 0 /\ next # "debate_ux", Debating
  PROVE  /\ d' \in Channels /\ files' \in Artifacts /\ past' = past
         /\ next \in DebateNodes /\ next' \in DebateNodes \cup {"summary", "escalate"}
         /\ d'.effort = d.effort /\ d'.retryJudge = d.retryJudge
         /\ (d'.esc = d.esc \/ d'.esc \notin {None, "judge", "crash"})
         /\ (~Eyes => d'.uxOpen = 0 /\ next' # "debate_ux")
         /\ (d'.round > 0 \/ d'.round = d.round)
         /\ (next' = "debate_ux" => d'.round > 0)
         /\ (next' = "summary" => /\ next \in {"debate_tech", "debate_ux"}
                                  /\ d'.open = 0 /\ d'.uxOpen = 0 /\ ~files'.gaps
                                  /\ (next = "debate_tech" => d'.round > 0))
         /\ (next' = "debate_reply" => d'.round <= Cap(d'))
<1>0. d \in Channels /\ files \in Artifacts /\ CapAt(d.round + 1, TopRound) \in 0..TopRound /\ CapAt(d.round + 1, TopRound) > 0
  BY NextRound DEF TypeOK
<1>c. \A c, e : Same(c, e) => Cap(c) = Cap(e)
  BY DEF Same, Cap
<1> DEFINE r == CapAt(d.round + 1, TopRound)
<1>1. CASE TechUntrusted
  <2> DEFINE e == [d EXCEPT !.round = r]
  <2>1. e \in Channels /\ e.round > 0 /\ e.uxOpen = d.uxOpen /\ e.effort = d.effort /\ e.retryJudge = d.retryJudge
    BY <1>0 DEF Channels
  <2>2. Escalate(e, "critic") /\ next = "debate_tech" /\ UNCHANGED <<files, past>>
    BY <1>1 DEF TechUntrusted
  <2> HIDE DEF e
  <2> QED
    BY <1>0, <2>1, <2>2, EscalateRoute, EscalationNames DEF Same, DebateNodes, None
<1>2. CASE TechReview
  <2>1. PICK v \in Verdicts, n \in Counts, gaps \in BOOLEAN :
          LET s == [d EXCEPT !.round = r, !.tech = v = "APPROVE", !.open = IF Ships(v) THEN 0 ELSE n] IN
          /\ IF Eyes
             THEN Step(s, "debate_ux")
             ELSE \E trend \in Trends(s) : Decide(s, gaps, trend)
          /\ files' = [files EXCEPT !.gaps = gaps]
    BY <1>2 DEF TechReview
  <2> DEFINE s == [d EXCEPT !.round = r, !.tech = v = "APPROVE", !.open = IF Ships(v) THEN 0 ELSE n]
  <2>2. s \in Channels /\ s.round > 0 /\ s.uxOpen = d.uxOpen /\ s.effort = d.effort /\ s.retryJudge = d.retryJudge /\ s.esc = d.esc
    BY <1>0, Bounds DEF Channels
  <2>3. files' \in Artifacts /\ files'.gaps = gaps
    BY <1>0, <2>1 DEF Artifacts
  <2>4. IF Eyes THEN Step(s, "debate_ux") ELSE \E trend \in Trends(s) : Decide(s, gaps, trend)
    BY <2>1
  <2>5. next = "debate_tech" /\ past' = past
    BY <1>2 DEF TechReview
  <2> HIDE DEF s
  <2>6. CASE Eyes
    <3>1. d' = s /\ next' \in {"debate_ux", "escalate"}
      BY <2>4, <2>6, StepRoute
    <3> QED
      BY <2>2, <2>3, <2>5, <2>6, <3>1 DEF DebateNodes
  <2>7. CASE ~Eyes
    <3>1. PICK trend \in Trends(s) : Decide(s, gaps, trend)
      BY <2>4, <2>7
    <3>2. /\ d' \in Channels /\ Same(d', s) /\ next' \in {"summary", "debate_reply", "escalate"}
          /\ d'.esc \in {s.esc, "stuck", "thrashing", "requirements", "exhausted", "exhaustedUx"}
          /\ (next' = "summary" => ~gaps /\ s.open = 0 /\ s.uxOpen = 0)
          /\ (next' = "debate_reply" => s.round <= Cap(s))
      BY <2>2, <2>7, <3>1, TrendNames, DecideEffect
    <3> QED
      BY <1>c, <2>2, <2>3, <2>5, <2>7, <3>2 DEF Same, DebateNodes, None
  <2> QED
    BY <2>6, <2>7
<1>3. CASE UxUnusable
  <2> DEFINE e == [d EXCEPT !.ux = FALSE, !.uxOpen = 0]
  <2>1. e \in Channels /\ e.uxOpen = 0 /\ e.round = d.round /\ e.effort = d.effort /\ e.retryJudge = d.retryJudge
    BY <1>0, Bounds DEF Channels
  <2>2. (Escalate(e, "plain") \/ Escalate(e, "critic")) /\ next = "debate_ux" /\ UNCHANGED <<files, past>>
    BY <1>3 DEF UxUnusable
  <2> HIDE DEF e
  <2> QED
    BY <1>0, <2>1, <2>2, EscalateRoute, EscalationNames DEF Same, DebateNodes, None
<1>4. CASE UxReview
  <2>1. PICK said \in Verdicts, n \in Counts, walked \in BOOLEAN, gaps \in BOOLEAN :
          LET bare == said = "APPROVE" /\ d.round > 1 /\ d.uxOpen > 0 /\ ~walked
              s == [d EXCEPT !.ux = said = "APPROVE" /\ ~bare,
                             !.uxOpen = CASE bare -> d.uxOpen
                                          [] ~bare /\ Ships(said) -> 0
                                          [] OTHER -> n]
              tagged == files.gaps \/ gaps IN
          /\ \E trend \in Trends(s) : Decide(s, tagged, trend)
          /\ files' = [files EXCEPT !.gaps = tagged]
    BY <1>4 DEF UxReview
  <2> DEFINE bare == said = "APPROVE" /\ d.round > 1 /\ d.uxOpen > 0 /\ ~walked
             left == CASE bare -> d.uxOpen
                       [] ~bare /\ Ships(said) -> 0
                       [] OTHER -> n
             ok == said = "APPROVE" /\ ~bare
             s == [d EXCEPT !.ux = ok, !.uxOpen = left]
             tagged == files.gaps \/ gaps
  <2>2. tagged \in BOOLEAN /\ files' \in Artifacts /\ files'.gaps = tagged
    BY <1>0, <2>1 DEF Artifacts
  <2>3. left \in Counts /\ ok \in BOOLEAN
    BY <1>0, FieldTypes, Bounds
  <2>4. PICK trend \in Trends(s) : Decide(s, tagged, trend)
    BY <2>1
  <2>5. next = "debate_ux" /\ past' = past
    BY <1>4 DEF UxReview
  <2> HIDE DEF left, ok
  <2>6. s \in Channels /\ s.round = d.round /\ s.effort = d.effort /\ s.retryJudge = d.retryJudge /\ s.esc = d.esc
    BY <1>0, <2>3 DEF Channels
  <2> HIDE DEF s, tagged
  <2>7. Eyes
    BY <2>5
  <2>8. /\ d' \in Channels /\ Same(d', s) /\ next' \in {"summary", "debate_reply", "escalate"}
        /\ d'.esc \in {s.esc, "stuck", "thrashing", "requirements", "exhausted", "exhaustedUx"}
        /\ (next' = "summary" => ~tagged /\ s.open = 0 /\ s.uxOpen = 0)
        /\ (next' = "debate_reply" => s.round <= Cap(s))
    BY <2>2, <2>4, <2>6, <2>7, TrendNames, DecideEffect
  <2> QED
    BY <1>c, <2>2, <2>5, <2>6, <2>7, <2>8 DEF Same, DebateNodes, None
<1>5. CASE Reply
  <2>1. d' = d /\ next' \in {"debate_tech", "escalate"} /\ next = "debate_reply" /\ UNCHANGED <<files, past>>
    BY <1>5, StepRoute DEF Reply
  <2> QED
    BY <1>0, <2>1 DEF DebateNodes
<1>6. CASE ReplyMalformed
  <2>1. Escalate(d, "plain") /\ next = "debate_reply" /\ UNCHANGED <<files, past>>
    BY <1>6 DEF ReplyMalformed
  <2> QED
    BY <1>0, <2>1, EscalateRoute, EscalationNames DEF Same, DebateNodes, None
<1> QED
  BY <1>1, <1>2, <1>3, <1>4, <1>5, <1>6 DEF Debating
\* The summary, the judge and the approval of the plan.
LEMMA JudgingEffect ==
  ASSUME TypeOK, Judging \/ Gate
  PROVE  /\ d' \in Channels /\ UNCHANGED <<files, past>>
         /\ next \in {"summary", "judge", "checkpoint_plan"}
         /\ next' \in {"judge", "checkpoint_plan", "implement", "escalate"}
         /\ d'.effort = d.effort /\ d'.round = d.round /\ d'.uxOpen = d.uxOpen
         /\ d'.esc \in {d.esc, "judge", "plain", "rejected"}
         /\ (next' = "judge" => next = "summary") /\ (d'.esc = "judge" => next = "judge" \/ d.esc = "judge")
         /\ (d'.retryJudge => d.retryJudge)
         /\ (d'.retryJudge /\ next = "judge" => next' = "escalate" /\ d'.esc \in {"judge", "plain"})
<1>0. d \in Channels
  BY DEF TypeOK
<1>1. CASE SummaryUntrusted \/ JudgeUntrusted
  <2>1. Escalate(d, "plain") /\ next \in {"summary", "judge"} /\ UNCHANGED <<files, past>>
    BY <1>1 DEF SummaryUntrusted, JudgeUntrusted
  <2> QED
    BY <1>0, <2>1, EscalateRoute, EscalationNames DEF Same
<1>2. CASE SummaryWritten
  <2>1. d' = d /\ next' \in {"judge", "escalate"} /\ next = "summary" /\ UNCHANGED <<files, past>>
    BY <1>2, StepRoute DEF SummaryWritten
  <2> QED
    BY <1>0, <2>1
<1>3. CASE JudgeEscalates
  <2>1. Escalate(d, "judge") /\ next = "judge" /\ UNCHANGED <<files, past>>
    BY <1>3 DEF JudgeEscalates
  <2> QED
    BY <1>0, <2>1, EscalateRoute, EscalationNames DEF Same
<1>4. CASE JudgeDone
  <2> DEFINE e == [d EXCEPT !.batches = TRUE, !.retryJudge = FALSE]
  <2>1. /\ e \in Channels /\ e.effort = d.effort /\ e.round = d.round /\ e.uxOpen = d.uxOpen
        /\ e.esc = d.esc /\ ~e.retryJudge
    BY <1>0 DEF Channels
  <2>2. Step(e, "checkpoint_plan") /\ next = "judge" /\ UNCHANGED <<files, past>>
    BY <1>4 DEF JudgeDone
  <2> HIDE DEF e
  <2> QED
    BY <2>1, <2>2, StepRoute
<1>5. CASE PlanApproved
  <2>1. d' = d /\ next' \in {"implement", "escalate"} /\ next = "checkpoint_plan" /\ UNCHANGED <<files, past>>
    BY <1>5, StepRoute DEF PlanApproved
  <2> QED
    BY <1>0, <2>1
<1>6. CASE PlanRejected
  <2>1. Escalate(d, "rejected") /\ next = "checkpoint_plan" /\ UNCHANGED <<files, past>>
    BY <1>6 DEF PlanRejected
  <2> QED
    BY <1>0, <2>1, EscalateRoute, EscalationNames DEF Same
<1> QED
  BY <1>1, <1>2, <1>3, <1>4, <1>5, <1>6 DEF Judging, Gate

\* The answers that throw the debate away are those to its own escalations.
OfDebate == d.esc \in {"stuck", "thrashing", "requirements", "exhausted", "exhaustedUx"}

LEMMA MenuOfRedo ==
  /\ ("redo" \in Menu(d) => OfDebate)
  /\ ("re-intake" \in Menu(d) => OfDebate)
BY DEF Menu, OfDebate

LEMMA ResetType ==
  ASSUME d \in Channels
  PROVE  /\ DebateReset(d) \in Channels /\ DebateReset(d).esc = None /\ DebateReset(d).round = 0
         /\ DebateReset(d).uxOpen = 0 /\ DebateReset(d).effort = d.effort
         /\ DebateReset(d).retryJudge = d.retryJudge
BY Bounds DEF DebateReset, Channels

\* Every answer goes to the node its channels say, or ends the run.
LEMMA AnswerEffect ==
  ASSUME TypeOK, Human
  PROVE  /\ d' \in Channels /\ files' \in Artifacts /\ past' = past \cup {"asked"}
         /\ next = "escalate" /\ next' \in {ReturnTo(d'), "end"}
         /\ d'.effort = d.effort /\ d'.uxOpen \in {d.uxOpen, 0} /\ d'.esc \in {None, d.esc}
         /\ \/ d'.round = d.round /\ (d'.retryJudge = d.retryJudge \/ (d.esc = "judge" /\ next' = ReturnTo(d')))
            \/ OfDebate /\ d'.esc = None /\ d'.retryJudge = d.retryJudge /\ next' = ReturnTo(d')
<1>0. d \in Channels /\ files \in Artifacts /\ NoDebateFile(files) \in Artifacts
  BY DEF TypeOK, NoDebateFile, Artifacts
<1> DEFINE Keeps(c) == /\ c \in Channels /\ c.effort = d.effort /\ c.round = d.round /\ c.uxOpen = d.uxOpen /\ c.esc = None
<1>a. Keeps(Answered) /\ Answered.retryJudge = d.retryJudge
  BY <1>0, Bounds DEF Answered, Channels
<1>1. CASE AnswerOk
  <2> DEFINE e == CASE d.esc = "crash" -> [Answered EXCEPT !.forced = FALSE, !.open = 0]
                    [] d.esc = "judge" -> [Answered EXCEPT !.retryJudge = TRUE]
                    [] d.esc \in {"stuck", "thrashing", "requirements", "exhausted", "critic"} ->
                         [Answered EXCEPT !.bonus = 0]
                    [] OTHER -> Answered
  <2>1. Keeps([Answered EXCEPT !.forced = FALSE, !.open = 0]) /\ [Answered EXCEPT !.forced = FALSE, !.open = 0].retryJudge = d.retryJudge
    BY <1>a, Bounds DEF Channels
  <2>2. Keeps([Answered EXCEPT !.retryJudge = TRUE])
    BY <1>a DEF Channels
  <2>3. Keeps([Answered EXCEPT !.bonus = 0]) /\ [Answered EXCEPT !.bonus = 0].retryJudge = d.retryJudge
    BY <1>a, Bounds DEF Channels
  <2>4. Keeps(e) /\ (e.retryJudge = d.retryJudge \/ d.esc = "judge")
    BY <1>a, <2>1, <2>2, <2>3
  <2>5. Resume(e) /\ UNCHANGED files
    BY <1>1 DEF AnswerOk
  <2> HIDE DEF e
  <2> QED
    BY <1>0, <2>4, <2>5 DEF Resume
<1>2. CASE AnswerSkip
  <2> DEFINE e == [Answered EXCEPT !.forced = TRUE, !.open = 0]
  <2>1. Keeps(e) /\ e.retryJudge = d.retryJudge
    BY <1>a, Bounds DEF Channels
  <2>2. Resume(e) /\ UNCHANGED files
    BY <1>2 DEF AnswerSkip
  <2> HIDE DEF e
  <2> QED
    BY <1>0, <2>1, <2>2 DEF Resume
<1>3. CASE AnswerContinue
  <2> DEFINE e == [Answered EXCEPT !.bonus = @ + 2, !.grace = d.round + 2]
  <2>1. d.bonus + 2 \in 0..MaxBonus /\ d.round + 2 \in 0..(TopRound + 2) /\ Answered.bonus = d.bonus
    BY <1>0, <1>3, Bounds DEF AnswerContinue, Answered, Channels
  <2>2. Keeps(e) /\ e.retryJudge = d.retryJudge
    BY <1>a, <2>1 DEF Channels
  <2>3. Resume(e) /\ UNCHANGED files
    BY <1>3 DEF AnswerContinue
  <2> HIDE DEF e
  <2> QED
    BY <1>0, <2>2, <2>3 DEF Resume
<1>4. CASE AnswerRedo
  <2> DEFINE e == [DebateReset(d) EXCEPT !.grace = 0]
  <2>1. e \in Channels /\ e.effort = d.effort /\ e.uxOpen = 0 /\ e.esc = None /\ e.retryJudge = d.retryJudge
    BY <1>0, ResetType, Bounds DEF Channels
  <2>2. Resume(e) /\ files' = NoDebateFile(files) /\ OfDebate
    BY <1>4, MenuOfRedo DEF AnswerRedo
  <2> HIDE DEF e
  <2> QED
    BY <1>0, <2>1, <2>2 DEF Resume
<1>5. CASE AnswerReintake
  <2> DEFINE e == [DebateReset(d) EXCEPT !.grace = 0, !.intakeDone = FALSE]
  <2>1. e \in Channels /\ e.effort = d.effort /\ e.uxOpen = 0 /\ e.esc = None /\ e.retryJudge = d.retryJudge
    BY <1>0, ResetType, Bounds DEF Channels
  <2>2. Resume(e) /\ files' = NoDebateFile(files) /\ OfDebate
    BY <1>5, MenuOfRedo DEF AnswerReintake
  <2> HIDE DEF e
  <2> QED
    BY <1>0, <2>1, <2>2 DEF Resume
<1>6. CASE AnswerStop
  <2>1. d' = Answered /\ next = "escalate" /\ next' = "end" /\ past' = past \cup {"asked"} /\ UNCHANGED files
    BY <1>6 DEF AnswerStop
  <2> QED
    BY <1>0, <1>a, <2>1
<1>7. CASE AnswerInvalid
  <2>1. Resume(d) /\ UNCHANGED files
    BY <1>7 DEF AnswerInvalid
  <2> QED
    BY <1>0, <2>1 DEF Resume
<1> QED
  BY <1>1, <1>2, <1>3, <1>4, <1>5, <1>6, <1>7 DEF Human

\* redo starts the debate anew.
LEMMA RedoEffect ==
  ASSUME TypeOK, RedoIntake \/ RedoPlan \/ RedoDebate
  PROVE  /\ d' \in Channels /\ files' \in Artifacts /\ past' = (past \ {"asked"}) \cup {"redone"}
         /\ next' \in {"intake", "plan", "checkpoint_effort"}
         /\ d'.round = 0 /\ d'.uxOpen = 0
<1>0. d \in Channels /\ files \in Artifacts /\ NoDebateFile(files) \in Artifacts
  BY DEF TypeOK, NoDebateFile, Artifacts
<1> DEFINE Fresh(c) == c \in Channels /\ c.round = 0 /\ c.uxOpen = 0
<1>1. /\ Fresh([DebateReset(d) EXCEPT !.grace = 0, !.intakeDone = FALSE])
      /\ Fresh([DebateReset(d) EXCEPT !.intakeDone = TRUE]) /\ Fresh(DebateReset(d))
  BY <1>0, ResetType, Bounds DEF Channels
<1>2. PICK c \in Channels, dest \in {"intake", "plan", "checkpoint_effort"} : Fresh(c) /\ RedoFrom(c, dest)
  <2>1. CASE RedoIntake
    BY <1>1, <2>1 DEF RedoIntake
  <2>2. CASE RedoPlan
    BY <1>1, <2>2 DEF RedoPlan
  <2>3. CASE RedoDebate
    BY <1>1, <2>3 DEF RedoDebate
  <2> QED
    BY <2>1, <2>2, <2>3
<1>3. PICK f \in {c.effort} \cup Efforts : d' = [c EXCEPT !.effort = f]
  BY <1>2 DEF RedoFrom
<1>4. Fresh([c EXCEPT !.effort = f])
  BY <1>2 DEF Channels
<1> QED
  BY <1>0, <1>2, <1>3, <1>4 DEF RedoFrom

\* A node that is broken off.
LEMMA BrokenEffect ==
  ASSUME TypeOK, NodeException \/ ProcessCrash
  PROVE  /\ d' \in Channels /\ files' \in Artifacts /\ past' = past /\ Same(d', d)
         /\ \/ next' = "escalate" /\ d'.esc = "crash"
            \/ next' = next /\ d' = d
         /\ (next = "summary" => files' = files)
<1>0. d \in Channels /\ files \in Artifacts
  BY DEF TypeOK
<1>1. files' \in Artifacts /\ (next = "summary" => files' = files)
  BY <1>0 DEF NodeException, ProcessCrash, Partial, Artifacts
<1>2. CASE NodeException
  BY <1>0, <1>1, <1>2, EscalateRoute, EscalationNames DEF NodeException
<1>3. CASE ProcessCrash
  BY <1>0, <1>1, <1>3 DEF ProcessCrash, Same
<1> QED
  BY <1>2, <1>3

-----------------------------------------------------------------------------
(* Types and the converged debate: the one needs the other. *)

LEMMA InitInv == Init => TypeOK /\ ConvergedInv /\ DebatedInv /\ NoReplyAfterVerification
<1> SUFFICES ASSUME Init PROVE TypeOK /\ ConvergedInv /\ DebatedInv /\ NoReplyAfterVerification
  OBVIOUS
<1>1. d \in Channels
  BY Bounds DEF Init, Channels, None
<1>2. next \in {"intake", "plan"} /\ d.esc = None /\ d.round = 0 /\ ~d.retryJudge /\ d.uxOpen = 0
  BY DEF Init
<1>3. TypeOK
  BY <1>1 DEF Init, TypeOK, Nodes, Artifacts
<1>4. ConvergedInv
  BY <1>2 DEF ConvergedInv, UnattendedPlanConverged
<1>5. DebatedInv
  BY <1>2 DEF DebatedInv, None
<1> QED
  BY <1>2, <1>3, <1>4, <1>5 DEF NoReplyAfterVerification

LEMMA TypeStep == TypeOK /\ ConvergedInv /\ [Next]_vars => TypeOK'
<1> SUFFICES ASSUME TypeOK, ConvergedInv, [Next]_vars PROVE TypeOK'
  OBVIOUS
<1> USE DEF TypeOK, Nodes, DebateNodes, LoopEntries, Events
<1>1. CASE Intake \/ Planning
  BY <1>1, PlanningEffect
<1>2. CASE Debating
  BY <1>2, DebateEffect DEF ConvergedInv
<1>3. CASE Judging \/ Gate
  BY <1>3, JudgingEffect
<1>4. CASE Human
  BY <1>4, AnswerEffect, ReturnPlace
<1>5. CASE RedoIntake \/ RedoPlan \/ RedoDebate
  BY <1>5, RedoEffect
<1>6. CASE NodeException \/ ProcessCrash
  BY <1>6, BrokenEffect
<1>7. CASE Left \/ UNCHANGED vars
  BY <1>7 DEF Left, vars
<1> QED
  BY <1>1, <1>2, <1>3, <1>4, <1>5, <1>6, <1>7 DEF Next, Node

LEMMA ConvergedStep == TypeOK /\ ConvergedInv /\ [Next]_vars => ConvergedInv'
<1> SUFFICES ASSUME TypeOK, ConvergedInv, [Next]_vars PROVE ConvergedInv'
  OBVIOUS
<1> USE DEF ConvergedInv, UnattendedPlanConverged
<1>1. CASE Intake \/ Planning
  <2>1. next' = "checkpoint_effort" => d'.round = 0
    BY <1>1, PlanningEffect
  <2>2. next' = "summary" => d'.round = 0
    BY <1>1, PlanningEffect
  <2>3. d'.uxOpen = d.uxOpen /\ next' # "debate_ux"
    BY <1>1, PlanningEffect
  <2>4. d'.round = 0 => ~(d'.round > 0)
    OBVIOUS
  <2> QED
    BY <2>1, <2>2, <2>3, <2>4
<1>2. CASE Debating
  BY <1>2, DebateEffect DEF DebateNodes
<1>3. CASE Judging \/ Gate
  BY <1>3, JudgingEffect
<1>4. CASE Human
  <2>1. next' \notin {"checkpoint_effort", "debate_ux"} /\ "asked" \in past' /\ d'.uxOpen \in {d.uxOpen, 0}
    BY <1>4, AnswerEffect, ReturnPlace DEF LoopEntries
  <2> QED
    BY <2>1
<1>5. CASE RedoIntake \/ RedoPlan \/ RedoDebate
  BY <1>5, RedoEffect
<1>6. CASE NodeException \/ ProcessCrash
  BY <1>6, BrokenEffect DEF Same
<1>7. CASE Left \/ UNCHANGED vars
  BY <1>7 DEF Left, vars
<1> QED
  BY <1>1, <1>2, <1>3, <1>4, <1>5, <1>6, <1>7 DEF Next, Node

\* Every variable keeps its type.
THEOREM TypeCorrect == Spec => []TypeOK
BY InitInv, TypeStep, ConvergedStep, PTL DEF Spec

\* A debate nobody intervened in comes to the summary converged.
THEOREM PlanConverged == Spec => []UnattendedPlanConverged
<1>1. ConvergedInv => UnattendedPlanConverged
  BY DEF ConvergedInv
<1> QED
  BY <1>1, InitInv, TypeStep, ConvergedStep, PTL DEF Spec

-----------------------------------------------------------------------------
(* The verification is the last word of the critics. *)

LEMMA ReplyStep == TypeOK /\ ConvergedInv /\ NoReplyAfterVerification /\ [Next]_vars => NoReplyAfterVerification'
<1> SUFFICES ASSUME TypeOK, ConvergedInv, NoReplyAfterVerification, [Next]_vars PROVE NoReplyAfterVerification'
  OBVIOUS
<1> USE DEF NoReplyAfterVerification
<1>1. CASE Intake \/ Planning
  BY <1>1, PlanningEffect
<1>2. CASE Debating
  BY <1>2, DebateEffect DEF ConvergedInv, Cap
<1>3. CASE Judging \/ Gate
  BY <1>3, JudgingEffect
<1>4. CASE Human
  BY <1>4, AnswerEffect, ReturnPlace DEF LoopEntries
<1>5. CASE RedoIntake \/ RedoPlan \/ RedoDebate
  BY <1>5, RedoEffect
<1>6. CASE NodeException \/ ProcessCrash
  BY <1>6, BrokenEffect DEF Cap
<1>7. CASE Left \/ UNCHANGED vars
  BY <1>7 DEF Left, vars, Cap
<1> QED
  BY <1>1, <1>2, <1>3, <1>4, <1>5, <1>6, <1>7 DEF Next, Node

\* There is no reply to a verification.
THEOREM VerificationIsLast == Spec => []NoReplyAfterVerification
BY InitInv, TypeStep, ConvergedStep, ReplyStep, PTL DEF Spec

-----------------------------------------------------------------------------
(* No answer carries an undebated plan to the judge. *)

LEMMA DebatedStep == TypeOK /\ ConvergedInv /\ DebatedInv /\ [Next]_vars => DebatedInv'
<1> SUFFICES ASSUME TypeOK, ConvergedInv, DebatedInv, [Next]_vars, "redone" \notin past' PROVE DebatedInv'
  BY DEF DebatedInv
<1>0. d \in Channels /\ d.round \in Nat
  BY FieldTypes DEF TypeOK
<1> USE DEF DebatedInv, Debated
<1>1. CASE Intake \/ Planning
  <2>1. "redone" \notin past
    BY <1>1, PlanningEffect
  <2>2. ~d'.retryJudge
    BY <1>1, <2>1, PlanningEffect
  <2>3. CASE next = "intake"
    BY <1>1, <2>1, <2>2, <2>3, PlanningEffect DEF Same
  <2>4. CASE next = "plan"
    <3>1. d'.esc = "judge" => d.esc = "judge" /\ d.esc # None
      BY <1>1, PlanningEffect DEF None
    <3>2. d'.esc = "judge" => d.effort = "scout-monke"
      BY <1>0, <2>1, <2>4, <3>1
    <3> QED
      BY <1>1, <2>1, <2>2, <2>4, <3>2, PlanningEffect
  <2>5. CASE next = "checkpoint_effort"
    BY <1>1, <2>1, <2>2, <2>5, PlanningEffect
  <2> QED
    BY <1>1, <2>3, <2>4, <2>5, PlanningEffect
<1>2. CASE Debating
  <2>1. "redone" \notin past /\ next \in DebateNodes /\ next' \in DebateNodes \cup {"summary", "escalate"}
    BY <1>2, DebateEffect DEF ConvergedInv
  <2>2. ~d'.retryJudge
    BY <1>2, <2>1, DebateEffect DEF ConvergedInv, DebateNodes
  <2>3. Debated => Debated'
    BY <1>2, DebateEffect DEF ConvergedInv
  <2>4. next' = "summary" \/ next' = "debate_ux" => d'.round > 0
    BY <1>2, <2>1, DebateEffect DEF ConvergedInv
  <2>5. d'.esc = "judge" => Debated
    BY <1>2, <2>1, DebateEffect DEF ConvergedInv
  <2> QED
    BY <2>1, <2>2, <2>3, <2>4, <2>5 DEF DebateNodes
<1>3. CASE Judging \/ Gate
  <2>1. "redone" \notin past /\ (Debated => Debated')
    BY <1>3, JudgingEffect
  <2>2. next' = "judge" \/ d'.esc = "judge" \/ d'.retryJudge => Debated
    BY <1>3, <2>1, JudgingEffect
  <2>3. d'.retryJudge => next' \in {"judge", "escalate", "end"} /\ d'.esc \in {None, "judge", "plain", "crash"}
    BY <1>3, <2>1, JudgingEffect
  <2> QED
    BY <1>3, <2>1, <2>2, <2>3, JudgingEffect
<1>4. CASE Human
  <2>1. "redone" \notin past /\ d' \in Channels /\ next' \in {ReturnTo(d'), "end"} /\ d'.esc \in {None, d.esc}
    BY <1>4, AnswerEffect
  <2>2. /\ next' \notin {"debate_ux"} /\ (next' = "judge" => d'.retryJudge)
        /\ (next' = "summary" => d'.round > 0) /\ (next' = "plan" => d'.round = 0)
        /\ (next' = ReturnTo(d') /\ d'.retryJudge => next' = "judge")
    BY <2>1, ReturnPlace DEF LoopEntries
  <2>3. CASE d'.round = d.round /\ (d'.retryJudge = d.retryJudge \/ (d.esc = "judge" /\ next' = ReturnTo(d')))
    <3>1. Debated' = Debated
      BY <1>4, <2>3, AnswerEffect
    <3>2. d'.retryJudge \/ d'.esc = "judge" => Debated
      BY <2>1, <2>3 DEF None
    <3>3. d'.retryJudge => next' \in {"judge", "escalate", "end"} /\ d'.esc \in {None, "judge", "plain", "crash"}
      BY <2>1, <2>2, <2>3
    <3> QED
      BY <2>1, <2>2, <3>1, <3>2, <3>3
  <2>4. CASE OfDebate /\ d'.esc = None /\ d'.retryJudge = d.retryJudge
    <3>1. ~d'.retryJudge /\ d'.esc # "judge"
      BY <2>1, <2>4 DEF OfDebate, None
    <3> QED
      BY <2>2, <2>4, <3>1
  <2> QED
    BY <1>4, <2>3, <2>4, AnswerEffect
<1>5. CASE RedoIntake \/ RedoPlan \/ RedoDebate
  BY <1>5, RedoEffect
<1>6. CASE NodeException \/ ProcessCrash
  <2>1. "redone" \notin past /\ (Debated' = Debated) /\ d'.retryJudge = d.retryJudge /\ d'.round = d.round
    BY <1>6, BrokenEffect DEF Same
  <2>2. CASE next' = "escalate" /\ d'.esc = "crash"
    BY <2>1, <2>2
  <2>3. CASE next' = next /\ d' = d
    BY <2>1, <2>3
  <2> QED
    BY <1>6, <2>2, <2>3, BrokenEffect
<1>7. CASE Left \/ UNCHANGED vars
  BY <1>7 DEF Left, vars
<1> QED
  BY <1>1, <1>2, <1>3, <1>4, <1>5, <1>6, <1>7 DEF Next, Node

\* In a run that was not redone the judge sees a debated plan.
THEOREM DebatedBeforeJudged == Spec => []JudgeAfterDebate
<1>1. DebatedInv => JudgeAfterDebate
  BY DEF DebatedInv, Debated, JudgeAfterDebate
<1> QED
  BY <1>1, InitInv, TypeStep, ConvergedStep, DebatedStep, PTL DEF Spec

-----------------------------------------------------------------------------
(* Progress. *)

\* The round a node of the debate leaves behind: the reviewer's is the next one, and
\* neither the designer nor the proposer changes it.
LEMMA RoundsCount ==
  ASSUME TypeOK, ~Eyes => d.uxOpen = 0 /\ next # "debate_ux", Debating, next' # "escalate"
  PROVE  \/ /\ next = "debate_tech" /\ next' \in {"debate_ux", "debate_reply", "summary"}
            /\ d'.round = CapAt(d.round + 1, TopRound)
         \/ next = "debate_ux" /\ next' \in {"debate_reply", "summary"} /\ d'.round = d.round
         \/ next = "debate_reply" /\ next' = "debate_tech" /\ d'.round = d.round
<1>0. d \in Channels
  BY DEF TypeOK
<1>1. ASSUME NEW s, NEW reason, Escalate(s, reason) PROVE FALSE
  BY <1>1 DEF Escalate, Step, Route
<1>2. ASSUME NEW s \in Channels, NEW gaps \in BOOLEAN, NEW trend \in Trends(s), Decide(s, gaps, trend)
      PROVE  d' = s /\ next' \in {"debate_reply", "summary"}
  <2> DEFINE choice == CASE gaps -> "requirements"
                         [] ~gaps /\ trend # None -> trend
                         [] OTHER -> Decision(s)
  <2>1. IF choice \in Escalations THEN Escalate(s, choice) ELSE Step(s, choice)
    BY <1>2 DEF Decide
  <2>2. choice \in {"requirements", "stuck", "thrashing", "summary", "debate_reply", "exhausted", "exhaustedUx"}
    <3>1. s.round \in Nat /\ s.open \in Nat /\ s.uxOpen \in Nat /\ Cap(s) \in Nat
      BY FieldTypes
    <3>2. Decision(s) \in {"summary", "debate_reply", "exhausted", "exhaustedUx"}
      BY <3>1 DEF Decision
    <3> QED
      BY <3>2, TrendNames
  <2> HIDE DEF choice
  <2>3. choice \notin Escalations /\ Step(s, choice)
    BY <1>1, <2>1
  <2> QED
    BY <2>2, <2>3, EscalationNames, StepRoute
<1>3. CASE TechReview
  <2>1. PICK v \in Verdicts, n \in Counts, gaps \in BOOLEAN :
          LET s == [d EXCEPT !.round = CapAt(@ + 1, TopRound), !.tech = v = "APPROVE",
                             !.open = IF Ships(v) THEN 0 ELSE n] IN
          IF Eyes
          THEN Step(s, "debate_ux")
          ELSE \E trend \in Trends(s) : Decide(s, gaps, trend)
    BY <1>3 DEF TechReview
  <2> DEFINE s == [d EXCEPT !.round = CapAt(@ + 1, TopRound), !.tech = v = "APPROVE",
                            !.open = IF Ships(v) THEN 0 ELSE n]
  <2>2. s \in Channels /\ s.round = CapAt(d.round + 1, TopRound)
    BY <1>0, NextRound, Bounds DEF Channels
  <2>3. Step(s, "debate_ux") \/ \E trend \in Trends(s) : Decide(s, gaps, trend)
    BY <2>1
  <2> HIDE DEF s
  <2>4. d' = s /\ next' \in {"debate_ux", "debate_reply", "summary"}
    BY <1>2, <2>2, <2>3, StepRoute
  <2> QED
    BY <1>3, <2>2, <2>4 DEF TechReview
<1>4. CASE UxReview
  <2>1. PICK ok \in BOOLEAN, left \in Counts, tagged \in BOOLEAN :
          LET s == [d EXCEPT !.ux = ok, !.uxOpen = left] IN
          \E trend \in Trends(s) : Decide(s, tagged, trend)
    <3>1. PICK said \in Verdicts, n \in Counts, walked \in BOOLEAN, gaps \in BOOLEAN :
            LET bare == said = "APPROVE" /\ d.round > 1 /\ d.uxOpen > 0 /\ ~walked
                s == [d EXCEPT !.ux = said = "APPROVE" /\ ~bare,
                               !.uxOpen = CASE bare -> d.uxOpen
                                            [] ~bare /\ Ships(said) -> 0
                                            [] OTHER -> n]
                tagged == files.gaps \/ gaps IN
            /\ \E trend \in Trends(s) : Decide(s, tagged, trend)
            /\ files' = [files EXCEPT !.gaps = tagged]
      BY <1>4 DEF UxReview
    <3> DEFINE bare == said = "APPROVE" /\ d.round > 1 /\ d.uxOpen > 0 /\ ~walked
               ok == said = "APPROVE" /\ ~bare
               left == CASE bare -> d.uxOpen
                         [] ~bare /\ Ships(said) -> 0
                         [] OTHER -> n
               tagged == files.gaps \/ gaps
    <3>2. ok \in BOOLEAN /\ left \in Counts /\ tagged \in BOOLEAN
      BY <1>0, FieldTypes, Bounds DEF TypeOK, Artifacts
    <3>3. LET s == [d EXCEPT !.ux = ok, !.uxOpen = left] IN
          \E trend \in Trends(s) : Decide(s, tagged, trend)
      BY <3>1
    <3> HIDE DEF ok, left, tagged
    <3> QED
      BY <3>2, <3>3
  <2> DEFINE s == [d EXCEPT !.ux = ok, !.uxOpen = left]
  <2>2. s \in Channels /\ s.round = d.round
    BY <1>0 DEF Channels
  <2>3. \E trend \in Trends(s) : Decide(s, tagged, trend)
    BY <2>1
  <2> HIDE DEF s
  <2>4. d' = s /\ next' \in {"debate_reply", "summary"}
    BY <1>2, <2>2, <2>3
  <2> QED
    BY <1>4, <2>2, <2>4 DEF UxReview
<1>5. CASE Reply
  BY <1>5, StepRoute DEF Reply
<1>6. CASE TechUntrusted \/ UxUnusable \/ ReplyMalformed
  BY <1>1, <1>6 DEF TechUntrusted, UxUnusable, ReplyMalformed
<1> QED
  BY <1>3, <1>4, <1>5, <1>6 DEF Debating

\* The round is behind the last one whenever the proposer replies.
LEMMA ReplyBelowTop ==
  ASSUME TypeOK, NoReplyAfterVerification
  PROVE  next = "debate_reply" => d.round < TopRound
<1>1. d \in Channels /\ d.round \in Nat /\ d.bonus \in 0..MaxBonus
  BY FieldTypes DEF TypeOK
<1> QED
  BY <1>1, DebateAssumption DEF NoReplyAfterVerification, Cap, TopRound

\* What is left to do is a number.
LEMMA WorkType == ASSUME TypeOK PROVE Work \in Nat
<1> d.round \in 0..TopRound
  BY DEF TypeOK, Channels
<1> TopRound \in Nat
  BY Bounds
<1> QED
  BY DEF Work

\* Whatever the critics say and however often the rounds were extended, a node that does
\* not ask or leave the debate leaves fewer critiques and replies to come than it found.
THEOREM DebateProgresses == Spec => WorkShrinks
<1> DEFINE Out == LoopEntries \cup {"checkpoint_plan", "escalate", "end"}
<1>0. TypeOK => Work \in Nat
  BY WorkType
<1>1. ASSUME TypeOK, ConvergedInv, NoReplyAfterVerification, (TypeOK)', Node, next' \notin Out
      PROVE  Work' < Work
  <2>0. d.round \in 0..TopRound /\ d'.round \in 0..TopRound /\ TopRound \in Nat /\ TopRound > 0
    BY <1>1, Bounds DEF TypeOK, Channels
  <2>1. next' # "escalate" /\ next' # "end" /\ next' # "checkpoint_plan"
    BY <1>1
  <2>2. CASE Intake \/ Planning
    <3>1. \/ next = "intake" /\ next' = "plan"
          \/ next = "plan" /\ next' = "checkpoint_effort"
          \/ next = "checkpoint_effort" /\ next' \in {"summary", "debate_tech"}
      BY <1>1, <2>1, <2>2, PlanningEffect
    <3> QED
      BY <2>0, <3>1 DEF Work
  <2>3. CASE Debating
    <3>1. \/ /\ next = "debate_tech" /\ next' \in {"debate_ux", "debate_reply", "summary"}
             /\ d'.round = CapAt(d.round + 1, TopRound)
          \/ next = "debate_ux" /\ next' \in {"debate_reply", "summary"} /\ d'.round = d.round
          \/ next = "debate_reply" /\ next' = "debate_tech" /\ d'.round = d.round /\ d.round < TopRound
      BY <1>1, <2>1, <2>3, RoundsCount, ReplyBelowTop DEF ConvergedInv
    <3>2. CASE next = "debate_tech"
      BY <2>0, <3>1, <3>2 DEF Work, CapAt
    <3>3. CASE next = "debate_ux"
      BY <2>0, <3>1, <3>3 DEF Work
    <3>4. CASE next = "debate_reply"
      BY <2>0, <3>1, <3>4 DEF Work
    <3> QED
      BY <3>1, <3>2, <3>3, <3>4
  <2>4. CASE Judging
    <3>1. next = "summary" /\ next' = "judge"
      BY <2>1, <2>4 DEF Judging, SummaryUntrusted, SummaryWritten, JudgeEscalates, JudgeUntrusted,
                        JudgeDone, Escalate, Step, Route
    <3> QED
      BY <3>1 DEF Work
  <2>5. CASE NodeException
    BY <2>1, <2>5 DEF NodeException, Escalate, Step, Route
  <2> QED
    BY <1>1, <2>2, <2>3, <2>4, <2>5 DEF Node
<1>2. /\ TypeOK /\ ConvergedInv /\ NoReplyAfterVerification /\ TypeOK' /\ (Work \in Nat)'
      => [Node => next' \in Out \/ (Work' \in Nat /\ Work' < Work)]_vars
  BY <1>1
<1> QED
  BY <1>0, <1>2, InitInv, TypeStep, ConvergedStep, ReplyStep, PTL DEF Spec, WorkShrinks
=============================================================================
