----------------------------- MODULE IntakeProofs -----------------------------
(***************************************************************************)
(* Proofs, for every number of rounds, re-intakes, gaps and answers, that  *)
(* the safety properties of Intake hold.                                   *)
(***************************************************************************)
EXTENDS Intake, TLAPS

(* The inductive invariants. *)

InInterview == next \in {"intake_ask", "intake_wait"}

\* The interview is over: it said so, or its rounds are spent and no question is open.
Settled == s.done \/ (~desk.questions /\ s.round >= MaxRounds)

\* The plan is made after the interview.  Unless a redo jumped over it, what the debate
\* left, an escalation about the requirements or a suspended gap, is never met by an
\* interview that goes on.
SettledInv ==
  /\ next = "plan" => Settled
  /\ past.plan = "made" => Settled /\ ~InInterview
  /\ past.plan # "jumped" =>
       /\ next = "debate" \/ Prefixed \/ gap.status = "suspended" => Settled
       /\ InInterview => ~Prefixed /\ gap.status # "suspended"

\* A brief that was written stays: there is one where there is a plan, and whoever has
\* been in the debate had one.
BriefInv ==
  /\ past.plan = "made" => desk.brief # "none"
  /\ past.plan # "jumped" =>
       (next = "debate" \/ s.bonus \/ s.esc \in {"requirements", "trend", "exhausted"}
          => desk.brief # "none")

\* Every answer of the transcript came into it since the interview was opened.
EarnedInv == past.found >= CapAt(desk.answers, MaxGaps)

-----------------------------------------------------------------------------
(* Lemmas about the operators. *)

LEMMA Bounds ==
  /\ 0 \in 0..MaxRounds /\ 0 \in 0..MaxReintakes /\ 0 \in 0..MaxGaps /\ 0 \in 0..MaxAnswers
  /\ MaxRounds > 0 /\ MaxGaps > 0
BY IntakeAssumption

LEMMA CapType ==
  ASSUME NEW n \in Nat, NEW top \in Nat
  PROVE  CapAt(n, top) \in 0..top /\ CapAt(n, top) <= n /\ (CapAt(n, top) = n \/ CapAt(n, top) = top)
BY DEF CapAt

\* The helpers on the desk keep its type, its brief and its answers.
LEMMA DeskHelpers ==
  ASSUME desk \in Desks
  PROVE  /\ Seeded(desk) \in Desks /\ Seeded(desk).brief # "none"
         /\ Seeded(desk).questions = desk.questions /\ Seeded(desk).answers = desk.answers
         /\ Archived(desk) \in Desks /\ Archived(desk).brief = desk.brief
         /\ ~Archived(desk).questions /\ Archived(desk).answers = 0
<1>1. [desk EXCEPT !.brief = "seed"] \in Desks /\ [desk EXCEPT !.brief = "seed"].questions = desk.questions
      /\ [desk EXCEPT !.brief = "seed"].answers = desk.answers /\ [desk EXCEPT !.brief = "seed"].brief = "seed"
  BY DEF Desks
<1> QED
  BY <1>1, Bounds DEF Desks, Seeded, Archived

LEMMA BriefedDesk ==
  ASSUME NEW k \in Desks, NEW j \in Briefed(k)
  PROVE  j \in Desks /\ (k.brief # "none" => j.brief # "none")
<1>1. PICK b \in {k.brief, "other", "contract"} : j = [k EXCEPT !.brief = b]
  BY DEF Briefed
<1> QED
  BY <1>1 DEF Desks

LEMMA InterviewedDesk ==
  ASSUME desk \in Desks, NEW k \in Interviewed(desk)
  PROVE  k \in Desks /\ (desk.brief # "none" => k.brief # "none")
<1>1. CASE k \in Briefed(desk)
  BY <1>1, BriefedDesk
<1>2. CASE \E j \in Asked(desk) : k \in Briefed(j)
  <2>1. PICK j \in Asked(desk) : k \in Briefed(j)
    BY <1>2
  <2>2. PICK n \in desk.answers..MaxAnswers : j = [desk EXCEPT !.questions = TRUE, !.answers = n]
    BY <2>1 DEF Asked
  <2>3. n \in 0..MaxAnswers
    BY IntakeAssumption DEF Desks
  <2>4. j \in Desks /\ j.brief = desk.brief
    BY <2>2, <2>3 DEF Desks
  <2> QED
    BY <2>1, <2>4, BriefedDesk
<1> QED
  BY <1>1, <1>2 DEF Interviewed

\* The answers that came in are noted.
LEMMA NotedPast ==
  ASSUME past \in Pasts, desk \in Desks, NEW k \in Desks
  PROVE  /\ Noted(k) \in Pasts /\ Noted(k).broken = past.broken /\ Noted(k).plan = past.plan
         /\ past.found >= CapAt(desk.answers, MaxGaps) => Noted(k).found >= CapAt(k.answers, MaxGaps)
<1>1. /\ past.found \in 0..MaxGaps /\ desk.answers \in Nat /\ k.answers \in Nat /\ MaxGaps \in Nat
      /\ past.broken \in BOOLEAN /\ past.plan \in {"none", "made", "jumped"}
  BY IntakeAssumption DEF Pasts, Desks
<1>2. CASE k.answers > desk.answers
  <2> DEFINE n == CapAt(past.found + (k.answers - desk.answers), MaxGaps)
  <2>4. past.found + (k.answers - desk.answers) \in Nat
    BY <1>1, <1>2
  <2>1. n \in 0..MaxGaps
    BY <1>1, <2>4, CapType
  <2>2. past.found >= CapAt(desk.answers, MaxGaps) => n >= CapAt(k.answers, MaxGaps)
    BY <1>1, <1>2 DEF CapAt
  <2>3. Noted(k) = [past EXCEPT !.found = n]
    BY <1>2 DEF Noted
  <2> HIDE DEF n
  <2> QED
    BY <1>1, <2>1, <2>2, <2>3 DEF Pasts
<1>3. CASE ~(k.answers > desk.answers)
  <2>1. Noted(k) = past
    BY <1>1, <1>3 DEF Noted, Pasts
  <2>2. CapAt(desk.answers, MaxGaps) >= CapAt(k.answers, MaxGaps)
    BY <1>1, <1>3 DEF CapAt
  <2>3. CapAt(desk.answers, MaxGaps) \in Nat /\ CapAt(k.answers, MaxGaps) \in Nat
    BY <1>1, CapType
  <2> QED
    BY <1>1, <2>1, <2>2, <2>3 DEF Pasts
<1> QED
  BY <1>2, <1>3

LEMMA PastHelpers ==
  ASSUME past \in Pasts
  PROVE  /\ Anew \in Pasts /\ Anew.found = 0 /\ Anew.plan = "none" /\ Anew.broken = past.broken
         /\ \A plan \in {"none", "made", "jumped"} :
              /\ [past EXCEPT !.plan = plan] \in Pasts /\ [past EXCEPT !.plan = plan].plan = plan
              /\ [past EXCEPT !.plan = plan].found = past.found /\ [past EXCEPT !.plan = plan].broken = past.broken
BY Bounds DEF Pasts, Anew

\* The helpers on the gap file.
LEMMA GapHelpers ==
  ASSUME gap \in Gaps
  PROVE  /\ NoGap \in Gaps /\ Raised \subseteq Gaps /\ Reactivated \in Gaps /\ GapForRedo \subseteq Gaps
         /\ \A status \in {"active", "suspended", "waived"} : SetStatus(status) \in Gaps
         /\ \A r \in Raised : r.status = "active"
         /\ \A r \in GapForRedo : r.status # "suspended" /\ (r.status = "waived" => gap.status = "waived")
         /\ Reactivated.status # "suspended" /\ (Reactivated.status = "waived" => gap.status = "waived")
         /\ SetStatus("suspended").status \in {"none", "suspended"}
         /\ SetStatus("waived").status \in {"none", "waived"}
<1>1. NoGap \in Gaps /\ NoGap.status = "none"
  BY Bounds DEF NoGap, Gaps
<1>2. \A r \in Raised : r \in Gaps /\ r.status = "active"
  BY IntakeAssumption DEF Raised, Gaps
<1>3. \A status \in {"active", "suspended", "waived"} :
        SetStatus(status) \in Gaps /\ SetStatus(status).status \in {"none", status}
  BY DEF SetStatus, Gaps
<1>4. Reactivated \in Gaps /\ Reactivated.status # "suspended" /\ (Reactivated.status = "waived" => gap.status = "waived")
  BY <1>3 DEF Reactivated
<1>5. \A r \in GapForRedo : r \in Gaps /\ r.status # "suspended" /\ (r.status = "waived" => gap.status = "waived")
  BY <1>2, <1>4 DEF GapForRedo
<1> QED
  BY <1>1, <1>2, <1>3, <1>4, <1>5

\* The router goes where the node says, or to escalate.
LEMMA StepRoute ==
  ASSUME NEW c, NEW dest, Step(c, dest)
  PROVE  s' = c /\ next' \in {dest, "escalate"}
BY DEF Step, Route

LEMMA EscalateRoute ==
  ASSUME NEW c \in Channels, NEW reason \in Escalations, Escalate(c, reason)
  PROVE  /\ s' = [c EXCEPT !.esc = reason] /\ s' \in Channels /\ next' = "escalate"
         /\ s'.esc = reason /\ s'.done = c.done /\ s'.round = c.round /\ s'.bonus = c.bonus
         /\ s'.recorded = c.recorded /\ s'.debated = c.debated
BY DEF Escalate, Step, Route, Channels, Escalations, None

LEMMA EscalationNames ==
  {"interview", "interviewCrash", "requirements", "trend", "exhausted", "crash", "plain"} = Escalations
BY DEF Escalations

\* Where an answer leads.
LEMMA ReturnPlace ==
  ASSUME NEW c \in Channels, NEW k
  PROVE  /\ ReturnTo(c, k) \in {"intake_ask", "intake_wait", "plan", "debate", "build"}
         /\ ReturnTo(c, k) \in {"intake_ask", "intake_wait"} => ~c.done /\ ((k.questions /\ c.round > 0) \/ ~(c.round >= MaxRounds))
         /\ ReturnTo(c, k) \in {"debate", "build"} => c.done
         /\ ReturnTo(c, k) = "debate" => c.bonus
         /\ ReturnTo(c, k) = "plan" => c.done \/ (~(k.questions /\ c.round > 0) /\ c.round >= MaxRounds)
<1>1. c.round \in Nat /\ MaxRounds \in Nat /\ (c.round >= MaxRounds <=> ~(c.round < MaxRounds))
  BY IntakeAssumption DEF Channels
<1>2. CASE ~c.done /\ k.questions /\ c.round > 0
  BY <1>1, <1>2 DEF ReturnTo
<1>3. CASE ~c.done /\ ~(k.questions /\ c.round > 0) /\ c.round < MaxRounds
  BY <1>1, <1>3 DEF ReturnTo
<1>4. CASE ~c.done /\ ~(k.questions /\ c.round > 0) /\ c.round >= MaxRounds
  BY <1>1, <1>4 DEF ReturnTo
<1>5. CASE c.done
  BY <1>1, <1>5 DEF ReturnTo
<1> QED
  BY <1>1, <1>2, <1>3, <1>4, <1>5

-----------------------------------------------------------------------------
(* Types. *)

LEMMA TypeInit == Init => TypeOK
<1> SUFFICES ASSUME Init PROVE TypeOK
  OBVIOUS
<1>1. s \in Channels
  BY Bounds DEF Init, Channels, None
<1>2. desk \in Desks
  BY Bounds DEF Init, Desks
<1>3. gap \in Gaps
  BY Bounds DEF Init, Gaps, NoGap
<1> QED
  BY <1>1, <1>2, <1>3, Bounds DEF Init, TypeOK, Nodes, Pasts

\* The channels after an escalation by the interviewer, and those of a waiver and of a
\* reopened interview.
LEMMA ChannelHelpers ==
  ASSUME TypeOK
  PROVE  /\ NextRound \in 0..MaxRounds /\ Counted \in 0..MaxReintakes
         /\ [s EXCEPT !.round = NextRound] \in Channels /\ Answered \in Channels
         /\ \A c \in Channels : Waiving(c) \in Channels /\ Reopened(c) \in Channels
<1>1. s.round \in Nat /\ s.count \in Nat /\ MaxRounds \in Nat /\ MaxReintakes \in Nat
  BY IntakeAssumption DEF TypeOK, Channels
<1>2. NextRound \in 0..MaxRounds
  BY <1>1, CapType DEF NextRound
<1>3. Counted \in 0..MaxReintakes
  BY <1>1, CapType DEF Counted
<1>4. [s EXCEPT !.round = NextRound] \in Channels /\ Answered \in Channels
  BY <1>2 DEF TypeOK, Channels, Answered
<1>5. \A c \in Channels : Waiving(c) \in Channels /\ Reopened(c) \in Channels
  BY <1>3, Bounds DEF Channels, Waiving, Reopened
<1> QED
  BY <1>2, <1>3, <1>4, <1>5

\* What a node that is broken off leaves behind has its type.
LEMMA PartialType ==
  ASSUME TypeOK
  PROVE  PartialDesk \subseteq Desks /\ \A k : PartialGap(k) \subseteq Gaps
<1>1. desk \in Desks /\ gap \in Gaps
  BY DEF TypeOK
<1>2. Interviewed(desk) \subseteq Desks /\ Seeded(desk) \in Desks /\ Archived(desk) \in Desks
  BY <1>1, InterviewedDesk, DeskHelpers
<1>3. PartialDesk \subseteq Desks
  BY <1>1, <1>2 DEF PartialDesk
<1>4. \A k : PartialGap(k) \subseteq Gaps
  BY <1>1, GapHelpers DEF PartialGap
<1> QED
  BY <1>3, <1>4

LEMMA TypeStep == TypeOK /\ [Next]_vars => TypeOK'
<1> SUFFICES ASSUME TypeOK, [Next]_vars PROVE TypeOK'
  OBVIOUS
<1>0. s \in Channels /\ gap \in Gaps /\ desk \in Desks /\ past \in Pasts
  BY DEF TypeOK
<1>a. \A k \in Interviewed(desk) : k \in Desks
  BY <1>0, InterviewedDesk
<1>c. \A k \in Interviewed(desk) : Noted(k) \in Pasts
  BY <1>0, <1>a, NotedPast
<1>b. NextRound \in 0..MaxRounds /\ Counted \in 0..MaxReintakes /\ [s EXCEPT !.round = NextRound] \in Channels
  BY ChannelHelpers
<1>1. CASE AskFails \/ AskGapsOpen
  BY <1>1, <1>0, <1>a, <1>b, <1>c, EscalateRoute, EscalationNames DEF AskFails, AskGapsOpen, TypeOK, Nodes
<1>2. CASE AskDone
  <2> DEFINE c == [s EXCEPT !.round = NextRound, !.done = TRUE, !.count = IF Active THEN Counted ELSE @]
  <2>1. c \in Channels
    BY <1>0, <1>b DEF Channels
  <2>2. s' = c /\ next' \in {"plan", "escalate"}
    BY <1>2, StepRoute DEF AskDone
  <2> QED
    BY <1>2, <2>1, <2>2, <1>0, <1>a, <1>c, GapHelpers DEF AskDone, TypeOK, Nodes
<1>3. CASE AskQuestions
  <2> DEFINE c == [s EXCEPT !.round = NextRound]
  <2>1. s' \in Channels /\ next' \in {"intake_wait", "escalate"}
    BY <1>3, <1>b, EscalateRoute, EscalationNames, StepRoute DEF AskQuestions
  <2> QED
    BY <1>3, <2>1, <1>0, <1>a, <1>c DEF AskQuestions, TypeOK, Nodes
<1>4. CASE Write
  <2>1. desk' \in Desks
    BY <1>4, <1>0, IntakeAssumption DEF Write, Desks
  <2>2. past' \in Pasts
    BY <1>4, <2>1, <1>0, NotedPast DEF Write
  <2> QED
    BY <1>4, <2>1, <2>2, <1>0 DEF Write, TypeOK
<1>5. CASE WaitStop
  BY <1>5, <1>0 DEF WaitStop, TypeOK, Nodes
<1>6. CASE WaitWaive
  BY <1>6, <1>0, ChannelHelpers, GapHelpers, DeskHelpers, StepRoute DEF WaitWaive, TypeOK, Nodes
<1>7. CASE WaitEnd
  <2>1. [s EXCEPT !.done = TRUE] \in Channels
    BY <1>0 DEF Channels
  <2> QED
    BY <1>7, <2>1, <1>0, DeskHelpers, StepRoute DEF WaitEnd, TypeOK, Nodes
<1>8. CASE WaitSubmit
  BY <1>8, <1>0, EscalateRoute, EscalationNames, StepRoute DEF WaitSubmit, TypeOK, Nodes
<1>9. CASE WaitAgain
  BY <1>9, <1>0, StepRoute DEF WaitAgain, TypeOK, Nodes
<1>10. CASE Plan
  <2>1. [s EXCEPT !.debated = FALSE] \in Channels
    BY <1>0 DEF Channels
  <2>2. s' \in Channels /\ next' \in {"debate", "build", "escalate"}
    BY <1>10, <2>1, <1>0, EscalateRoute, EscalationNames, StepRoute DEF Plan
  <2> QED
    BY <1>10, <2>2, <1>0, DeskHelpers, PastHelpers DEF Plan, TypeOK, Nodes
<1>11. CASE DebateRaises \/ DebateEscalates \/ DebateDecides
  <2>1. [s EXCEPT !.debated = TRUE] \in Channels
    BY <1>0 DEF Channels
  <2>2. s' \in Channels /\ next' \in {"build", "escalate"}
    BY <1>11, <2>1, EscalateRoute, EscalationNames, StepRoute DEF DebateRaises, DebateEscalates, DebateDecides
  <2>3. gap' \in Gaps /\ UNCHANGED <<desk, past>>
    BY <1>11, <1>0, GapHelpers DEF DebateRaises, DebateEscalates, DebateDecides
  <2> QED
    BY <2>2, <2>3, <1>0 DEF TypeOK, Nodes
<1>12. CASE Answer
  <2>1. Answered \in Channels
    BY ChannelHelpers
  <2>2. s' \in Channels
    <3>1. CASE AnswerOk
      <4>1. s' \in {Answered, [Answered EXCEPT !.bonus = FALSE], [Answered EXCEPT !.bonus = FALSE, !.recorded = TRUE]}
        BY <3>1 DEF AnswerOk, Resume
      <4> QED
        BY <4>1, <2>1 DEF Channels
    <3>2. CASE AnswerSkip
      <4>1. s' \in {Answered, [Answered EXCEPT !.done = TRUE], Waiving(Answered)}
        BY <3>2 DEF AnswerSkip, Resume
      <4> QED
        BY <4>1, <2>1, ChannelHelpers DEF Channels
    <3>3. CASE AnswerContinue \/ AnswerRedo
      <4>1. s' \in {[Answered EXCEPT !.bonus = TRUE], [Answered EXCEPT !.bonus = FALSE, !.debated = FALSE]}
        BY <3>3 DEF AnswerContinue, AnswerRedo, Resume
      <4> QED
        BY <4>1, <2>1 DEF Channels
    <3>4. CASE AnswerReintake
      BY <3>4, <1>0, ChannelHelpers DEF AnswerReintake, Resume
    <3>5. CASE AnswerStop \/ AnswerInvalid
      <4>1. s' \in {s, Answered, [Answered EXCEPT !.done = TRUE]}
        BY <3>5 DEF AnswerStop, AnswerInvalid, Resume
      <4> QED
        BY <4>1, <2>1, <1>0 DEF Channels
    <3> QED
      BY <1>12, <3>1, <3>2, <3>3, <3>4, <3>5 DEF Answer
  <2>3. desk' \in Desks
    BY <1>12, <1>0, DeskHelpers DEF Answer, AnswerOk, AnswerSkip, AnswerContinue, AnswerRedo, AnswerReintake, AnswerStop, AnswerInvalid, Resume
  <2>4. gap' \in Gaps
    BY <1>12, <1>0, GapHelpers DEF Answer, AnswerOk, AnswerSkip, AnswerContinue, AnswerRedo, AnswerReintake, AnswerStop, AnswerInvalid, Resume
  <2>5. next' = "end" \/ next' = ReturnTo(s', desk')
    BY <1>12 DEF Answer, AnswerOk, AnswerSkip, AnswerContinue, AnswerRedo, AnswerReintake, AnswerStop, AnswerInvalid, Resume
  <2>6. past' \in {past, Anew}
    BY <1>12 DEF Answer, AnswerOk, AnswerSkip, AnswerContinue, AnswerRedo, AnswerReintake, AnswerStop, AnswerInvalid, Resume
  <2> QED
    BY <2>2, <2>3, <2>4, <2>5, <2>6, <1>0, PastHelpers, ReturnPlace DEF TypeOK, Nodes
<1>13. CASE RedoIntake
  <2>1. past' \in Pasts
    BY <1>13, <1>0, PastHelpers DEF RedoIntake
  <2>2. s' \in Channels /\ gap' \in Gaps /\ desk' \in Desks
    BY <1>13, <1>0, ChannelHelpers, GapHelpers, DeskHelpers DEF RedoIntake
  <2> QED
    BY <1>13, <2>1, <2>2 DEF RedoIntake, TypeOK, Nodes
<1>14. CASE RedoPlan
  <2>1. Reopened(s) \in Channels
    BY <1>0, ChannelHelpers
  <2>2. s' \in Channels
    BY <1>14, <2>1, <1>0 DEF RedoPlan, Channels
  <2> QED
    BY <1>14, <2>2, <1>0, PastHelpers DEF RedoPlan, TypeOK, Nodes
<1>18. CASE RedoDebate
  <2>1. s' \in Channels
    BY <1>18, <1>0 DEF RedoDebate, Channels, None
  <2>2. past' \in Pasts
    BY <1>18, <1>0 DEF RedoDebate, Pasts
  <2> QED
    BY <1>18, <2>1, <2>2, <1>0 DEF RedoDebate, TypeOK, Nodes
<1>15. CASE NodeException
  <2>1. s' \in Channels /\ next' = "escalate"
    BY <1>15, <1>0, EscalateRoute, EscalationNames DEF NodeException
  <2>2. desk' \in Desks /\ gap' \in Gaps
    BY <1>15, PartialType DEF NodeException
  <2>3. Noted(desk') \in Pasts /\ past' = [Noted(desk') EXCEPT !.broken = TRUE]
    BY <1>15, <1>0, <2>2, NotedPast DEF NodeException
  <2>4. past' \in Pasts
    BY <2>3 DEF Pasts
  <2> QED
    BY <2>1, <2>2, <2>4, <1>0 DEF TypeOK, Nodes
<1>16. CASE ProcessCrash
  <2>2. desk' \in Desks /\ gap' \in Gaps
    BY <1>16, PartialType DEF ProcessCrash
  <2>3. Noted(desk') \in Pasts /\ past' = [Noted(desk') EXCEPT !.broken = TRUE]
    BY <1>16, <1>0, <2>2, NotedPast DEF ProcessCrash
  <2>4. past' \in Pasts
    BY <2>3 DEF Pasts
  <2> QED
    BY <1>16, <2>2, <2>4, <1>0 DEF ProcessCrash, TypeOK
<1>17. CASE Left \/ UNCHANGED vars
  BY <1>17 DEF Left, vars, TypeOK
<1> QED
  BY <1>1, <1>2, <1>3, <1>4, <1>5, <1>6, <1>7, <1>8, <1>9, <1>10, <1>11, <1>12, <1>13, <1>14,
     <1>15, <1>16, <1>17, <1>18 DEF Next, Ask, Wait

\* Every variable keeps its type.
THEOREM TypeCorrect == Spec => []TypeOK
BY TypeInit, TypeStep, PTL DEF Spec

-----------------------------------------------------------------------------
(* What each group of steps does to the channels the other invariants read. *)

\* intake_ask: nothing but its own escalation is left, and it is done only with the gaps.
LEMMA AskEffect ==
  ASSUME TypeOK, Ask
  PROVE  /\ next = "intake_ask" /\ past' = Noted(desk')
         /\ next' \in {"plan", "intake_wait", "escalate"}
         /\ s'.bonus = s.bonus /\ s'.recorded = s.recorded
         /\ s'.esc \in {s.esc, "interview"}
         /\ \/ s'.done = s.done /\ gap' = gap /\ next' # "plan"
            \/ s'.done /\ next' # "intake_wait" /\ gap' = NoGap /\ (Active => desk'.answers >= gap.n)
         /\ desk' \in Desks /\ (desk.brief # "none" => desk'.brief # "none")
<1>0. s \in Channels /\ desk \in Desks /\ [s EXCEPT !.round = NextRound] \in Channels
  BY ChannelHelpers DEF TypeOK
<1>a. \A k \in Interviewed(desk) : k \in Desks /\ (desk.brief # "none" => k.brief # "none")
  BY <1>0, InterviewedDesk
<1> DEFINE c == [s EXCEPT !.round = NextRound]
<1>b. c.done = s.done /\ c.bonus = s.bonus /\ c.recorded = s.recorded /\ c.esc = s.esc
  BY <1>0 DEF Channels
<1>1. CASE AskFails \/ AskGapsOpen
  <2>1. Escalate(c, "interview") /\ gap' = gap /\ past' = Noted(desk') /\ next = "intake_ask" /\ desk' \in Interviewed(desk)
    BY <1>1 DEF AskFails, AskGapsOpen
  <2>2. next' = "escalate" /\ s'.esc = "interview" /\ s'.done = c.done /\ s'.bonus = c.bonus /\ s'.recorded = c.recorded
    BY <2>1, <1>0, EscalateRoute, EscalationNames
  <2> QED
    BY <2>1, <2>2, <1>a, <1>b
<1>2. CASE AskDone
  <2> DEFINE e == [s EXCEPT !.round = NextRound, !.done = TRUE, !.count = IF Active THEN Counted ELSE @]
  <2>1. e.done /\ e.bonus = s.bonus /\ e.recorded = s.recorded /\ e.esc = s.esc
    BY <1>0 DEF Channels
  <2>2. s' = e /\ next' \in {"plan", "escalate"} /\ next = "intake_ask" /\ past' = Noted(desk') /\ gap' = NoGap
    BY <1>2, StepRoute DEF AskDone
  <2>3. desk' \in Interviewed(desk) /\ GapsAnswered(desk')
    BY <1>2 DEF AskDone
  <2>4. Active => desk'.answers >= gap.n
    BY <2>3 DEF GapsAnswered
  <2> HIDE DEF e
  <2> QED
    BY <2>1, <2>2, <2>3, <2>4, <1>a
<1>3. CASE AskQuestions
  <2>1. (Escalate(c, "interview") \/ Step(c, "intake_wait")) /\ gap' = gap /\ past' = Noted(desk') /\ next = "intake_ask"
        /\ desk' \in Interviewed(desk)
    BY <1>3 DEF AskQuestions
  <2>2. CASE Escalate(c, "interview")
    <3>1. next' = "escalate" /\ s'.esc = "interview" /\ s'.done = c.done /\ s'.bonus = c.bonus /\ s'.recorded = c.recorded
      BY <2>2, <1>0, EscalateRoute, EscalationNames
    <3> QED
      BY <2>1, <3>1, <1>a, <1>b
  <2>3. CASE Step(c, "intake_wait")
    <3>1. next' \in {"intake_wait", "escalate"} /\ s' = c
      BY <2>3, StepRoute
    <3> QED
      BY <2>1, <3>1, <1>a, <1>b
  <2> QED
    BY <2>1, <2>2, <2>3
<1> QED
  BY <1>1, <1>2, <1>3 DEF Ask

\* intake_wait: the interview goes on, or is done.
LEMMA WaitEffect ==
  ASSUME TypeOK, Wait, ~Write
  PROVE  /\ next = "intake_wait" /\ UNCHANGED past /\ desk'.answers = desk.answers
         /\ next' \in {"plan", "intake_ask", "intake_wait", "escalate", "end"}
         /\ s'.bonus = s.bonus /\ (s.recorded => s'.recorded)
         /\ s'.esc \in {s.esc, "interview"}
         /\ \/ s'.done = s.done /\ next' # "plan"
            \/ s'.done /\ next' \in {"plan", "escalate"}
         /\ \/ gap' = gap
            \/ gap' = SetStatus("waived") /\ s'.recorded
         /\ desk.brief # "none" => desk'.brief # "none"
<1>0. s \in Channels /\ desk \in Desks
  BY DEF TypeOK
<1>1. CASE WaitStop
  <2>1. next = "intake_wait" /\ next' = "end" /\ UNCHANGED <<s, gap, desk, past>>
    BY <1>1 DEF WaitStop
  <2> QED
    BY <2>1
<1>2. CASE WaitWaive
  <2>1. Waiving(s).done /\ Waiving(s).recorded /\ Waiving(s).bonus = s.bonus /\ Waiving(s).esc = s.esc
    BY <1>0 DEF Waiving, Channels
  <2> QED
    BY <1>2, <2>1, <1>0, StepRoute, DeskHelpers DEF WaitWaive
<1>3. CASE WaitEnd
  <2> DEFINE e == [s EXCEPT !.done = TRUE]
  <2>1. e.done /\ e.recorded = s.recorded /\ e.bonus = s.bonus /\ e.esc = s.esc
    BY <1>0 DEF Channels
  <2>2. s' = e /\ next' \in {"plan", "escalate"} /\ next = "intake_wait" /\ UNCHANGED <<gap, past>> /\ desk' = Seeded(desk)
    BY <1>3, StepRoute DEF WaitEnd
  <2> HIDE DEF e
  <2> QED
    BY <2>1, <2>2, <1>0, DeskHelpers
<1>4. CASE WaitSubmit
  <2>1. next = "intake_wait" /\ UNCHANGED <<gap, desk, past>> /\ (Step(s, "intake_ask") \/ Escalate(s, "interview"))
    BY <1>4 DEF WaitSubmit
  <2>2. CASE Step(s, "intake_ask")
    <3>1. s' = s /\ next' \in {"intake_ask", "escalate"}
      BY <2>2, StepRoute
    <3> QED
      BY <2>1, <3>1
  <2>3. CASE Escalate(s, "interview")
    <3>1. /\ next' = "escalate" /\ s'.esc = "interview" /\ s'.done = s.done
          /\ s'.bonus = s.bonus /\ s'.recorded = s.recorded
      BY <2>3, <1>0, EscalateRoute, EscalationNames
    <3> QED
      BY <2>1, <3>1
  <2> QED
    BY <2>1, <2>2, <2>3
<1>5. CASE WaitAgain
  <2>1. next = "intake_wait" /\ s' = s /\ next' \in {"intake_wait", "escalate"} /\ UNCHANGED <<gap, desk, past>>
    BY <1>5, StepRoute DEF WaitAgain
  <2> QED
    BY <2>1
<1> QED
  BY <1>1, <1>2, <1>3, <1>4, <1>5 DEF Wait

\* plan and debate go on with a brief, and leave the interview as it is.
LEMMA DebateEffect ==
  ASSUME TypeOK, Plan \/ DebateRaises \/ DebateEscalates \/ DebateDecides
  PROVE  /\ next \in {"plan", "debate"} /\ past' \in {past, [past EXCEPT !.plan = "made"]}
         /\ next = "debate" => past' = past
         /\ next' \in {"debate", "build", "escalate"}
         /\ s'.bonus = s.bonus /\ s'.recorded = s.recorded /\ s'.done = s.done /\ s'.round = s.round
         /\ desk'.answers = desk.answers /\ desk'.questions = desk.questions
         /\ next = "plan" => desk'.brief # "none" /\ (s'.esc = s.esc \/ s'.esc = "plain")
         /\ next = "debate" => desk' = desk /\ next' # "debate"
         /\ gap' = gap \/ gap'.status = "active"
<1>0. s \in Channels /\ desk \in Desks /\ gap \in Gaps
  BY DEF TypeOK
<1>1. CASE Plan
  <2> DEFINE e == [s EXCEPT !.debated = FALSE]
  <2>1. e.done = s.done /\ e.recorded = s.recorded /\ e.bonus = s.bonus /\ e.round = s.round /\ e.esc = s.esc
    BY <1>0 DEF Channels
  <2>2. next = "plan" /\ desk' = Seeded(desk) /\ UNCHANGED gap /\ past' \in {past, [past EXCEPT !.plan = "made"]}
        /\ ((\E dest \in {"debate", "build"} : Step(e, dest)) \/ Escalate(s, "plain"))
    BY <1>1 DEF Plan
  <2> HIDE DEF e
  <2>3. CASE \E dest \in {"debate", "build"} : Step(e, dest)
    <3>1. s' = e /\ next' \in {"debate", "build", "escalate"}
      BY <2>3, StepRoute
    <3> QED
      BY <2>1, <2>2, <3>1, <1>0, DeskHelpers
  <2>4. CASE Escalate(s, "plain")
    BY <2>2, <2>4, <1>0, DeskHelpers, EscalateRoute, EscalationNames
  <2> QED
    BY <2>2, <2>3, <2>4
<1>2. CASE DebateRaises \/ DebateEscalates \/ DebateDecides
  <2> DEFINE e == [s EXCEPT !.debated = TRUE]
  <2>1. e \in Channels /\ e.done = s.done /\ e.recorded = s.recorded /\ e.bonus = s.bonus /\ e.round = s.round
    BY <1>0 DEF Channels
  <2>2. next = "debate" /\ UNCHANGED <<desk, past>> /\ gap' \in {gap} \cup Raised
        /\ ((\E reason \in Escalations : Escalate(e, reason)) \/ Step(e, "build"))
    BY <1>2, EscalationNames DEF DebateRaises, DebateEscalates, DebateDecides
  <2> HIDE DEF e
  <2>3. next' \in {"build", "escalate"} /\ s'.done = e.done /\ s'.recorded = e.recorded /\ s'.bonus = e.bonus /\ s'.round = e.round
    BY <2>1, <2>2, EscalateRoute, StepRoute
  <2>4. gap' = gap \/ gap'.status = "active"
    BY <2>2, <1>0, GapHelpers
  <2> QED
    BY <2>1, <2>2, <2>3, <2>4
<1> QED
  BY <1>1, <1>2

\* An answer other than re-intake ends an interview or leaves it as it is; a gap it
\* suspends is one of a debate.
LEMMA AnswerEffect ==
  ASSUME TypeOK, Answer, ~AnswerReintake
  PROVE  /\ next = "escalate" /\ UNCHANGED past
         /\ next' = "end" \/ next' = ReturnTo(s', desk')
         /\ s.recorded => s'.recorded
         /\ s'.done \/ s'.done = s.done
         /\ s'.round = s.round /\ desk'.questions = desk.questions /\ desk'.answers = desk.answers
         /\ s'.esc \in {None, s.esc}
         /\ s'.bonus => s.bonus \/ s.esc \in {"requirements", "trend", "exhausted"}
         /\ desk.brief # "none" => desk'.brief # "none"
         /\ gap'.status = "suspended" => gap.status = "suspended" \/ Prefixed
         /\ gap'.status = "waived" => gap.status = "waived" \/ s'.recorded
<1>0. s \in Channels /\ desk \in Desks /\ gap \in Gaps
  BY DEF TypeOK
<1>a. /\ Answered \in Channels /\ Answered.esc = None /\ Answered.done = s.done /\ Answered.round = s.round
      /\ Answered.bonus = s.bonus /\ Answered.recorded = s.recorded
  BY <1>0, ChannelHelpers DEF Answered, Channels
<1> DEFINE Keeps(c) == /\ c.esc = None /\ c.round = s.round /\ (s.recorded => c.recorded) /\ (c.done \/ c.done = s.done)
           End == [Answered EXCEPT !.done = TRUE]
<1>b. Keeps(End) /\ End.bonus = s.bonus
  BY <1>a DEF Channels
<1>1. CASE AnswerOk
  <2> DEFINE w == [Answered EXCEPT !.bonus = FALSE, !.recorded = TRUE]
             b == [Answered EXCEPT !.bonus = FALSE]
  <2>1. Keeps(w) /\ ~w.bonus /\ w.recorded /\ Keeps(b) /\ ~b.bonus
    BY <1>a DEF Channels
  <2>2. \/ Resume(w, SetStatus("waived"), desk)
        \/ Resume(b, gap, desk)
        \/ Resume(Answered, gap, desk)
    BY <1>1 DEF AnswerOk
  <2> HIDE DEF w, b
  <2> QED
    BY <1>1, <2>1, <2>2, <1>0, <1>a, GapHelpers DEF Resume, AnswerOk
<1>2. CASE AnswerSkip
  <2> DEFINE w == Waiving(Answered)
  <2>1. Keeps(w) /\ w.bonus = s.bonus /\ w.recorded
    BY <1>a DEF Channels, Waiving
  <2>2. \/ Resume(w, SetStatus("waived"), Seeded(desk))
        \/ Resume(End, gap, Seeded(desk))
        \/ Resume(Answered, gap, desk)
    BY <1>2 DEF AnswerSkip
  <2> HIDE DEF w, End
  <2> QED
    BY <1>2, <2>1, <2>2, <1>0, <1>a, <1>b, GapHelpers, DeskHelpers DEF Resume, AnswerSkip
<1>3. CASE AnswerContinue
  <2> DEFINE b == [Answered EXCEPT !.bonus = TRUE]
  <2>1. Keeps(b)
    BY <1>a DEF Channels
  <2>2. Resume(b, gap, desk) /\ s.esc \in {"requirements", "trend", "exhausted"} /\ UNCHANGED past
    BY <1>3 DEF AnswerContinue, Menu
  <2> HIDE DEF b
  <2> QED
    BY <2>1, <2>2 DEF Resume
<1>4. CASE AnswerRedo
  <2> DEFINE b == [Answered EXCEPT !.bonus = FALSE, !.debated = FALSE]
  <2>1. Keeps(b) /\ ~b.bonus
    BY <1>a DEF Channels
  <2>2. Resume(b, IF Prefixed THEN SetStatus("suspended") ELSE gap, desk) /\ UNCHANGED past
    BY <1>4 DEF AnswerRedo
  <2> HIDE DEF b
  <2> QED
    BY <2>1, <2>2, <1>0, GapHelpers DEF Resume
<1>5. CASE AnswerStop
  <2>1. CASE OfInterview /\ ~Active
    <3>1. Resume(End, gap, Seeded(desk)) /\ UNCHANGED past
      BY <1>5, <2>1 DEF AnswerStop
    <3> HIDE DEF End
    <3> QED
      BY <3>1, <1>b, <1>0, DeskHelpers DEF Resume
  <2>2. CASE ~(OfInterview /\ ~Active)
    <3>1. s' = Answered /\ next = "escalate" /\ next' = "end" /\ gap' \in {gap} \cup Raised /\ UNCHANGED <<desk, past>>
      BY <1>5, <2>2 DEF AnswerStop
    <3> QED
      BY <3>1, <1>a, <1>0, GapHelpers
  <2> QED
    BY <2>1, <2>2
<1>6. CASE AnswerInvalid
  BY <1>6 DEF AnswerInvalid, Resume
<1> QED
  BY <1>1, <1>2, <1>3, <1>4, <1>5, <1>6 DEF Answer

\* A re-intake and redo --from intake open the interview, with its gaps.
LEMMA OpenEffect ==
  ASSUME TypeOK, AnswerReintake \/ RedoIntake
  PROVE  /\ s'.esc = None /\ ~s'.done /\ ~s'.bonus /\ s'.recorded = s.recorded
         /\ next' \in {"intake_ask", "intake_wait", "plan", "debate", "build"}
         /\ next' \notin {"plan", "debate", "build"}
         /\ desk'.answers = 0 /\ desk'.brief = desk.brief /\ past' = Anew
         /\ gap'.status # "suspended" /\ (gap'.status = "waived" => gap.status = "waived")
<1>0. s \in Channels /\ desk \in Desks /\ gap \in Gaps /\ Reopened(s) \in Channels
  BY ChannelHelpers DEF TypeOK
<1>1. Reopened(s).esc = None /\ ~Reopened(s).done /\ ~Reopened(s).bonus /\ Reopened(s).recorded = s.recorded /\ Reopened(s).round = 0
  BY <1>0 DEF Reopened, Channels
<1>2. ReturnTo(Reopened(s), Archived(desk)) \in {"intake_ask", "intake_wait"}
  BY <1>1, IntakeAssumption DEF ReturnTo
<1>3. CASE AnswerReintake
  BY <1>3, <1>0, <1>1, <1>2, GapHelpers, DeskHelpers DEF AnswerReintake, Resume
<1>4. CASE RedoIntake
  BY <1>4, <1>0, <1>1, GapHelpers, DeskHelpers DEF RedoIntake
<1> QED
  BY <1>3, <1>4

\* A node that is broken off.
LEMMA BrokenEffect ==
  ASSUME TypeOK, NodeException \/ ProcessCrash
  PROVE  /\ past' = [Noted(desk') EXCEPT !.broken = TRUE] /\ next \in Nodes
         /\ next' = "escalate" \/ (next' = next /\ s' = s)
         /\ s'.done = s.done /\ s'.round = s.round /\ s'.bonus = s.bonus /\ s'.recorded = s.recorded
         /\ s'.esc \in {s.esc, "interviewCrash", "crash"}
         /\ desk.brief # "none" => desk'.brief # "none"
         /\ desk' \in Desks /\ (gap'.status = "none" /\ Active => desk'.answers >= gap.n)
         /\ next # "intake_ask" /\ desk'.questions => desk.questions
         /\ gap'.status = "suspended" => gap.status = "suspended" \/ (next = "escalate" /\ Prefixed)
<1>0. s \in Channels /\ desk \in Desks /\ gap \in Gaps
  BY DEF TypeOK
<1>1. /\ s'.done = s.done /\ s'.round = s.round /\ s'.bonus = s.bonus /\ s'.recorded = s.recorded
      /\ s'.esc \in {s.esc, "interviewCrash", "crash"} /\ next \in Nodes
      /\ next' = "escalate" \/ (next' = next /\ s' = s)
  BY <1>0, EscalateRoute, EscalationNames DEF NodeException, ProcessCrash
<1>2. desk' \in PartialDesk /\ gap' \in PartialGap(desk') /\ past' = [Noted(desk') EXCEPT !.broken = TRUE]
  BY DEF NodeException, ProcessCrash
<1>3. /\ desk.brief # "none" => desk'.brief # "none"
      /\ desk' \in Desks
      /\ next # "intake_ask" /\ desk'.questions => desk.questions
  BY <1>0, <1>2, DeskHelpers, InterviewedDesk, PartialType DEF PartialDesk
<1>4. gap'.status = "suspended" => gap.status = "suspended" \/ (next = "escalate" /\ Prefixed)
  BY <1>0, <1>2, GapHelpers DEF PartialGap, NoGap
<1>5. gap'.status = "none" /\ Active => desk'.answers >= gap.n
  <2>1. CASE next = "intake_ask"
    BY <2>1, <1>2 DEF PartialGap, GapsAnswered, NoGap, Active
  <2>2. CASE next # "intake_ask"
    BY <2>2, <1>0, <1>2, GapHelpers DEF PartialGap, Active, SetStatus, Raised, Reactivated, Gaps
  <2> QED
    BY <2>1, <2>2
<1> QED
  BY <1>1, <1>2, <1>3, <1>4, <1>5
-----------------------------------------------------------------------------
(* The waived gaps and the ledger. *)

LEMMA WaivedStep == TypeOK /\ WaivedIsOnRecord /\ [Next]_vars => WaivedIsOnRecord'
<1> SUFFICES ASSUME TypeOK, WaivedIsOnRecord, [Next]_vars PROVE WaivedIsOnRecord'
  OBVIOUS
<1>0. gap \in Gaps /\ s \in Channels /\ past \in Pasts /\ desk \in Desks /\ desk' \in Desks
  BY TypeStep DEF TypeOK
<1>n. Noted(desk').broken = past.broken
  BY <1>0, NotedPast
<1>1. CASE Ask
  BY <1>1, <1>n, AskEffect DEF WaivedIsOnRecord, NoGap
<1>2. CASE Wait /\ ~Write
  BY <1>2, WaitEffect DEF WaivedIsOnRecord
<1>3. CASE Write
  BY <1>3, <1>n DEF Write, WaivedIsOnRecord
<1>4. CASE Plan \/ DebateRaises \/ DebateEscalates \/ DebateDecides
  <2>1. past'.broken = past.broken
    BY <1>4, <1>0, DebateEffect, PastHelpers
  <2> QED
    BY <1>4, <2>1, DebateEffect DEF WaivedIsOnRecord
<1>5. CASE Answer /\ ~AnswerReintake
  BY <1>5, AnswerEffect DEF WaivedIsOnRecord
<1>6. CASE AnswerReintake \/ RedoIntake
  BY <1>6, <1>0, OpenEffect, PastHelpers DEF WaivedIsOnRecord
<1>7. CASE RedoPlan \/ RedoDebate
  <2>1. past'.broken = past.broken
    BY <1>7, <1>0 DEF RedoPlan, RedoDebate, Pasts
  <2>2. s'.recorded = s.recorded /\ gap' = gap
    BY <1>7, <1>0 DEF RedoPlan, RedoDebate, Reopened, Channels
  <2> QED
    BY <2>1, <2>2 DEF WaivedIsOnRecord
<1>8. CASE NodeException \/ ProcessCrash
  <2>1. past'.broken
    BY <1>8, <1>0, NotedPast, BrokenEffect DEF Pasts
  <2> QED
    BY <2>1 DEF WaivedIsOnRecord
<1>9. CASE Left \/ UNCHANGED vars
  BY <1>9 DEF Left, vars, WaivedIsOnRecord
<1> QED
  BY <1>1, <1>2, <1>3, <1>4, <1>5, <1>6, <1>7, <1>8, <1>9 DEF Next, Answer

\* Gaps the human waived are in the ledger, unless a node was broken off.
THEOREM WaiversRecorded == Spec => []WaivedIsOnRecord
<1>1. Init => WaivedIsOnRecord
  BY DEF Init, NoGap, WaivedIsOnRecord
<1> QED
  BY <1>1, WaivedStep, TypeCorrect, PTL DEF Spec

-----------------------------------------------------------------------------
(* A suspended gap never meets an interview that goes on. *)

LEMMA SettledStep == TypeOK /\ SettledInv /\ [Next]_vars => SettledInv'
<1> SUFFICES ASSUME TypeOK, SettledInv, [Next]_vars PROVE SettledInv'
  OBVIOUS
<1>0. /\ gap \in Gaps /\ s \in Channels /\ desk \in Desks /\ s' \in Channels /\ past \in Pasts /\ desk' \in Desks
      /\ past.plan \in {"none", "made", "jumped"}
  BY TypeStep DEF TypeOK, Pasts
<1>n. Noted(desk').plan = past.plan
  BY <1>0, NotedPast
<1>1. CASE Ask
  <2>1. past'.plan = past.plan /\ past.plan # "made" /\ next' # "debate"
    BY <1>1, <1>n, AskEffect DEF SettledInv, InInterview
  <2>2. past.plan # "jumped" => ~Prefixed' /\ gap'.status # "suspended"
    BY <1>1, AskEffect DEF NoGap, Prefixed, SettledInv, InInterview
  <2>3. next' = "plan" => s'.done
    BY <1>1, AskEffect
  <2> QED
    BY <2>1, <2>2, <2>3 DEF SettledInv, Settled
<1>2. CASE Wait /\ ~Write
  <2>1. past' = past /\ past.plan # "made" /\ next' # "debate"
    BY <1>2, WaitEffect DEF SettledInv, InInterview
  <2>2. past.plan # "jumped" => gap'.status # "suspended"
    BY <1>2, <1>0, WaitEffect, GapHelpers DEF SettledInv, InInterview
  <2>3. past.plan # "jumped" => ~Prefixed'
    BY <1>2, WaitEffect DEF Prefixed, SettledInv, InInterview
  <2>4. next' = "plan" => s'.done
    BY <1>2, WaitEffect
  <2> QED
    BY <2>1, <2>2, <2>3, <2>4 DEF SettledInv, Settled
<1>3. CASE Write
  <2>1. desk'.questions = desk.questions /\ UNCHANGED <<next, s, gap>> /\ past'.plan = past.plan
    BY <1>3, <1>0, <1>n DEF Write, Desks
  <2> QED
    BY <2>1 DEF SettledInv, Settled, InInterview, Prefixed
<1>4. CASE Plan \/ DebateRaises \/ DebateEscalates \/ DebateDecides
  <2>1. UNCHANGED <<s.done, s.round, desk.questions>> /\ next' \in {"debate", "build", "escalate"}
    BY <1>4, DebateEffect
  <2>2. Settled => Settled'
    BY <2>1 DEF Settled
  <2>3. next = "plan" \/ past.plan # "jumped" => Settled
    BY <1>4, DebateEffect DEF SettledInv
  <2>4. past'.plan = past.plan \/ (next = "plan" /\ past'.plan = "made")
    BY <1>4, <1>0, DebateEffect, PastHelpers
  <2> QED
    BY <2>1, <2>2, <2>3, <2>4 DEF SettledInv, InInterview
<1>5. CASE Answer /\ ~AnswerReintake
  <2>1. /\ next = "escalate" /\ s'.round = s.round /\ desk'.questions = desk.questions
        /\ s'.done \/ s'.done = s.done
        /\ past' = past
    BY <1>5, AnswerEffect
  <2>2. Settled => Settled'
    BY <2>1 DEF Settled
  <2>3. past.plan # "jumped" /\ (gap'.status = "suspended" \/ Prefixed') => Settled
    BY <1>5, AnswerEffect DEF SettledInv, Prefixed, None
  <2>4. next' \in {"plan", "debate"} => Settled'
    BY <1>5, <1>0, AnswerEffect, ReturnPlace, IntakeAssumption DEF Settled, Channels
  <2>5. InInterview' => ~Settled'
    BY <1>5, <1>0, AnswerEffect, ReturnPlace DEF Settled, InInterview
  <2> QED
    BY <2>1, <2>2, <2>3, <2>4, <2>5 DEF SettledInv
<1>6. CASE AnswerReintake \/ RedoIntake
  <2>1. past'.plan = "none"
    BY <1>6, <1>0, OpenEffect, PastHelpers
  <2> QED
    BY <1>6, <2>1, OpenEffect DEF SettledInv, Prefixed, None
<1>7. CASE RedoPlan
  <2>1. s'.done /\ next' = "plan" /\ past'.plan = "none"
    BY <1>7, <1>0, PastHelpers DEF RedoPlan, Reopened, Channels
  <2> QED
    BY <2>1 DEF SettledInv, Settled, InInterview
<1>10. CASE RedoDebate
  <2>1. /\ s'.done = s.done /\ s'.round = s.round /\ s'.esc = None /\ UNCHANGED <<gap, desk>>
        /\ next' \in {"debate", "build"}
    BY <1>10, <1>0 DEF RedoDebate, Channels
  <2>2. past'.plan = (IF past.plan = "made" THEN "made" ELSE "jumped")
    BY <1>10, <1>0 DEF RedoDebate, Pasts
  <2>3. Settled' <=> Settled
    BY <2>1 DEF Settled
  <2> QED
    BY <2>1, <2>2, <2>3 DEF SettledInv, InInterview
<1>8. CASE NodeException \/ ProcessCrash
  <2>0. past'.plan = past.plan
    BY <1>8, <1>0, NotedPast, BrokenEffect DEF Pasts
  <2>1. Settled => Settled' \/ next = "intake_ask"
    BY <1>8, BrokenEffect DEF Settled
  <2>2. CASE InInterview
    <3>1. past.plan # "made" /\ (past.plan # "jumped" => gap'.status # "suspended" /\ ~Prefixed')
      BY <1>8, <2>2, BrokenEffect DEF SettledInv, InInterview, Prefixed
    <3>2. next' \notin {"plan", "debate"}
      BY <1>8, <2>2, BrokenEffect DEF InInterview
    <3> QED
      BY <2>0, <3>1, <3>2 DEF SettledInv
  <2>3. CASE ~InInterview
    <3>1. past.plan # "jumped" /\ (gap'.status = "suspended" \/ Prefixed') => Settled
      BY <1>8, BrokenEffect DEF SettledInv, Prefixed
    <3>2. ~InInterview' /\ (next' = "plan" => Settled) /\ (past.plan # "jumped" /\ next' = "debate" => Settled)
      BY <1>8, <2>3, BrokenEffect DEF SettledInv, InInterview
    <3>3. Settled => Settled'
      BY <2>1, <2>3 DEF InInterview
    <3> QED
      BY <2>0, <2>3, <3>1, <3>2, <3>3 DEF SettledInv, InInterview
  <2> QED
    BY <2>2, <2>3
<1>9. CASE Left \/ UNCHANGED vars
  BY <1>9 DEF Left, vars, SettledInv, Settled, InInterview, Prefixed
<1> QED
  BY <1>1, <1>2, <1>3, <1>4, <1>5, <1>6, <1>7, <1>8, <1>9, <1>10 DEF Next, Answer

\* The interviewer is never sent back to an interview whose gaps are suspended, unless a
\* redo of the debate jumped over the plan.
THEOREM GapsShownAgain == Spec => []ReopenedOnTheGaps
<1>1. Init => SettledInv
  <2> SUFFICES ASSUME Init PROVE SettledInv
    OBVIOUS
  <2>1. s.esc = None /\ (next = "plan" => s.done) /\ next \in {"intake_ask", "plan"} /\ gap.status = "none" /\ past.plan = "none"
    BY DEF Init, NoGap
  <2> QED
    BY <2>1 DEF SettledInv, Settled, InInterview, Prefixed, None
<1>2. SettledInv => ReopenedOnTheGaps
  BY DEF SettledInv, InInterview, ReopenedOnTheGaps
<1> QED
  BY <1>1, <1>2, SettledStep, TypeCorrect, PTL DEF Spec

-----------------------------------------------------------------------------
(* The debate and its brief. *)

LEMMA BriefStep == TypeOK /\ BriefInv /\ [Next]_vars => BriefInv'
<1> SUFFICES ASSUME TypeOK, BriefInv, [Next]_vars PROVE BriefInv'
  OBVIOUS
<1>0. /\ gap \in Gaps /\ s \in Channels /\ desk \in Desks /\ s' \in Channels /\ past \in Pasts /\ desk' \in Desks
      /\ past.plan \in {"none", "made", "jumped"}
  BY TypeStep DEF TypeOK, Pasts
<1>n. Noted(desk').plan = past.plan
  BY <1>0, NotedPast
<1>1. CASE Ask
  BY <1>1, <1>n, AskEffect DEF BriefInv
<1>2. CASE Wait /\ ~Write
  BY <1>2, WaitEffect DEF BriefInv
<1>3. CASE Write
  BY <1>3, <1>0, <1>n DEF Write, BriefInv, Desks
<1>4. CASE Plan \/ DebateRaises \/ DebateEscalates \/ DebateDecides
  <2>1. past'.plan = past.plan \/ (next = "plan" /\ past'.plan = "made")
    BY <1>4, <1>0, DebateEffect, PastHelpers
  <2>2. next = "plan" => desk'.brief # "none"
    BY <1>4, DebateEffect
  <2> QED
    BY <1>4, <2>1, <2>2, DebateEffect DEF BriefInv
<1>5. CASE Answer /\ ~AnswerReintake
  <2>1. next' = "debate" => s'.bonus
    BY <1>5, <1>0, AnswerEffect, ReturnPlace
  <2> QED
    BY <2>1, <1>5, AnswerEffect DEF BriefInv, None
<1>6. CASE AnswerReintake \/ RedoIntake
  <2>1. past'.plan = "none"
    BY <1>6, <1>0, OpenEffect, PastHelpers
  <2> QED
    BY <1>6, <2>1, OpenEffect DEF BriefInv, None
<1>7. CASE RedoPlan
  <2>1. ~s'.bonus /\ s'.esc = None /\ next' = "plan" /\ past'.plan = "none"
    BY <1>7, <1>0, PastHelpers DEF RedoPlan, Reopened, Channels, None
  <2> QED
    BY <2>1 DEF BriefInv, None
<1>10. CASE RedoDebate
  <2>1. past'.plan = (IF past.plan = "made" THEN "made" ELSE "jumped") /\ desk' = desk
    BY <1>10, <1>0 DEF RedoDebate, Pasts
  <2> QED
    BY <2>1 DEF BriefInv
<1>8. CASE NodeException \/ ProcessCrash
  <2>1. past'.plan = past.plan
    BY <1>8, <1>0, NotedPast, BrokenEffect DEF Pasts
  <2> QED
    BY <1>8, <2>1, BrokenEffect DEF BriefInv
<1>9. CASE Left \/ UNCHANGED vars
  BY <1>9 DEF Left, vars, BriefInv
<1> QED
  BY <1>1, <1>2, <1>3, <1>4, <1>5, <1>6, <1>7, <1>8, <1>9, <1>10 DEF Next, Answer

\* By every way that comes past the plan, the debate has a brief.
THEOREM DebateHasBrief == Spec => []DebatedOnABrief
<1>1. Init => BriefInv
  <2> SUFFICES ASSUME Init PROVE BriefInv
    OBVIOUS
  <2>1. s.esc = None /\ ~s.bonus /\ next # "debate" /\ past.plan = "none"
    BY DEF Init
  <2> QED
    BY <2>1 DEF BriefInv, None
<1>2. BriefInv => DebatedOnABrief
  BY DEF BriefInv, DebatedOnABrief
<1> QED
  BY <1>1, <1>2, BriefStep, TypeCorrect, PTL DEF Spec

-----------------------------------------------------------------------------
(* The gaps and the answers of this interview. *)

LEMMA EarnedStep == TypeOK /\ EarnedInv /\ [Next]_vars => EarnedInv'
<1> SUFFICES ASSUME TypeOK, EarnedInv, [Next]_vars PROVE EarnedInv'
  OBVIOUS
<1>0. desk \in Desks /\ desk' \in Desks /\ past \in Pasts /\ past' \in Pasts
  BY TypeStep DEF TypeOK
<1>n. Noted(desk').found >= CapAt(desk'.answers, MaxGaps)
  BY <1>0, NotedPast DEF EarnedInv
<1>1. CASE Ask \/ Write
  <2>1. past' = Noted(desk')
    BY <1>1, AskEffect DEF Write
  <2> QED
    BY <1>n, <2>1 DEF EarnedInv
<1>2. CASE NodeException \/ ProcessCrash
  <2>1. past'.found = Noted(desk').found
    BY <1>2, <1>0, NotedPast, BrokenEffect DEF Pasts
  <2> QED
    BY <1>n, <2>1 DEF EarnedInv
<1>3. CASE AnswerReintake \/ RedoIntake
  <2>1. desk'.answers = 0 /\ past'.found = 0
    BY <1>3, <1>0, OpenEffect, PastHelpers
  <2>2. CapAt(0, MaxGaps) = 0
    BY IntakeAssumption DEF CapAt
  <2> QED
    BY <2>1, <2>2 DEF EarnedInv
<1>4. ASSUME desk'.answers = desk.answers, past'.found = past.found PROVE EarnedInv'
  BY <1>4 DEF EarnedInv
<1>5. CASE Wait /\ ~Write
  BY <1>4, <1>5, WaitEffect
<1>6. CASE Plan \/ DebateRaises \/ DebateEscalates \/ DebateDecides
  <2>1. past'.found = past.found /\ desk'.answers = desk.answers
    BY <1>6, <1>0, DebateEffect, PastHelpers
  <2> QED
    BY <1>4, <2>1
<1>7. CASE Answer /\ ~AnswerReintake
  BY <1>4, <1>7, AnswerEffect
<1>8. CASE RedoPlan \/ RedoDebate
  <2>1. past'.found = past.found /\ desk'.answers = desk.answers
    BY <1>8, <1>0 DEF RedoPlan, RedoDebate, Pasts
  <2> QED
    BY <1>4, <2>1
<1>9. CASE Left \/ UNCHANGED vars
  BY <1>9 DEF Left, vars, EarnedInv
<1> QED
  BY <1>1, <1>2, <1>3, <1>5, <1>6, <1>7, <1>8, <1>9 DEF Next, Answer

\* Nobody but the interviewer removes the gaps, and not without an answer for each.
LEMMA EnoughAnswers ==
  ASSUME TypeOK, [Next]_vars, Active, gap'.status = "none"
  PROVE  desk'.answers >= gap.n
<1>0. gap \in Gaps /\ desk \in Desks /\ gap.status = "active"
  BY DEF TypeOK, Active
<1>1. CASE Ask
  BY <1>0, <1>1, AskEffect
<1>2. CASE NodeException \/ ProcessCrash
  BY <1>2, BrokenEffect
<1>3. CASE Wait /\ ~Write
  BY <1>0, <1>3, WaitEffect DEF SetStatus, Gaps
<1>4. CASE Plan \/ DebateRaises \/ DebateEscalates \/ DebateDecides
  BY <1>0, <1>4, DebateEffect
<1>5. CASE Answer
  BY <1>0, <1>5 DEF Answer, AnswerOk, AnswerSkip, AnswerContinue, AnswerRedo, AnswerReintake, AnswerStop,
                    AnswerInvalid, Resume, SetStatus, Reactivated, Raised, Gaps
<1>6. CASE RedoIntake
  BY <1>0, <1>6 DEF RedoIntake, GapForRedo, Reactivated, Raised
<1>7. CASE Write \/ RedoPlan \/ RedoDebate \/ Left \/ UNCHANGED vars
  BY <1>0, <1>7 DEF Write, RedoPlan, RedoDebate, Left, vars
<1> QED
  BY <1>1, <1>2, <1>3, <1>4, <1>5, <1>6, <1>7 DEF Next

\* The gaps are closed only with as many answers of this interview as there are gaps.
THEOREM GapsEarned == Spec => GapsAnsweredInThisInterview
<1>1. Init => EarnedInv
  <2> SUFFICES ASSUME Init PROVE EarnedInv
    OBVIOUS
  <2>1. past.found = 0 /\ desk.answers = 0
    BY DEF Init
  <2>2. CapAt(0, MaxGaps) = 0
    BY IntakeAssumption DEF CapAt
  <2> QED
    BY <2>1, <2>2 DEF EarnedInv
<1>2. TypeOK /\ EarnedInv /\ [Next]_vars
        => [Active /\ gap'.status = "none" => past'.found >= gap.n]_vars
  <2> SUFFICES ASSUME TypeOK, EarnedInv, [Next]_vars, Active, gap'.status = "none"
               PROVE  past'.found >= gap.n
    OBVIOUS
  <2>1. gap \in Gaps /\ desk' \in Desks /\ past' \in Pasts
    BY TypeStep DEF TypeOK
  <2>2. past'.found >= CapAt(desk'.answers, MaxGaps) /\ desk'.answers >= gap.n
    BY EarnedStep, EnoughAnswers DEF EarnedInv
  <2>3. past'.found \in Nat /\ desk'.answers \in Nat /\ gap.n \in 0..MaxGaps /\ MaxGaps \in Nat
    BY <2>1, IntakeAssumption DEF Gaps, Desks, Pasts
  <2> QED
    BY <2>2, <2>3 DEF CapAt
<1> QED
  BY <1>1, <1>2, EarnedStep, TypeCorrect, PTL DEF Spec, GapsAnsweredInThisInterview
=============================================================================
