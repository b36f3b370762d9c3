--------------------------- MODULE BatchLoopProofs ---------------------------
(***************************************************************************)
(* Proofs, for every number of batches, attempts, cycles, tests and        *)
(* crashes, that the safety invariants of BatchLoop hold.                  *)
(***************************************************************************)
EXTENDS BatchLoop, TLAPS

(* The inductive invariants. *)

\* While the loop runs there is a batch to work on.
HasBatch == next \in LoopNodes => st.idx < NBatches

\* What makes the types inductive: the fix budget bounds the cycle counter.
TypeInv == TypeOK /\ HasBatch /\ FixBudget

\* A fix only ever follows a review of the same batch.
FixedIsJudged == next \in {"code_fix", "code_verify"} => Batch \in judged

\* No edit belongs to a batch that has not begun.
NoEditsAhead == repo.tree \cup repo.ahead \cup repo.wip \subseteq 0..Batch

\* An untouched batch has nothing behind its base, and before its first attempt
\* nothing in the tree that the base commit could carry there.
UntouchedEdits ==
  (next \in LoopNodes /\ Batch \notin touched) =>
    /\ Batch \notin repo.wip
    /\ next = "implement" /\ st.attempt = 0 => Batch \notin repo.tree

\* An untouched batch works on its own: the tests are not waived, and once the base
\* of its first attempt is taken nothing but its edits is in the tree, unless git
\* refused the leftovers their commit.
OwnInv ==
  /\ UnattendedCommitIsOwn
  /\ (next \in LoopNodes /\ Batch \notin touched) =>
       /\ next = "implement" => ~st.waived
       /\ (next # "implement" \/ st.attempt # 0) /\ Batch \notin repo.stuck =>
            repo.tree \subseteq {Batch}

-----------------------------------------------------------------------------
(* Lemmas about the operators *)

\* The budget counter has room for at least one cycle.
LEMMA MaxCycleType == MaxCycle \in Nat /\ MaxCycle >= 1 /\ (FixCycles # 0 => MaxCycle = FixCycles)
  BY BatchLoopAssumption DEF MaxCycle

\* While a batch is being built its number is one.
LEMMA BatchType == ASSUME TypeInv, next \in LoopNodes PROVE Batch \in Batches
  BY BatchLoopAssumption DEF TypeInv, TypeOK, HasBatch, Batch, Batches, Channels, Origin

\* A working copy an agent edited: only the tree, the commits after the base and
\* the failing tests moved, and only by the batch's own edits.
LEMMA EditedRepo ==
  ASSUME Batch \in Batches, NEW r \in WorkingCopies, NEW q \in Edited(r)
  PROVE  /\ q \in WorkingCopies
         /\ q.shipped = r.shipped
         /\ q.wip = r.wip
         /\ q.stuck = r.stuck
         /\ q.tree \subseteq r.tree \cup {Batch}
         /\ q.ahead \subseteq r.ahead \cup r.tree \cup {Batch}
<1> Batch \in Origin
  BY BatchLoopAssumption DEF Batches, Origin
<1>1. CASE q = r
  BY <1>1
<1>2. CASE q \in {[r EXCEPT !.tree = @ \cup {Batch}, !.failing = F] : F \in SUBSET Tests}
  <2> PICK F \in SUBSET Tests : q = [r EXCEPT !.tree = @ \cup {Batch}, !.failing = F]
    BY <1>2
  <2> QED
    BY DEF WorkingCopies
<1>3. CASE q \in {[r EXCEPT !.tree = {}, !.ahead = @ \cup r.tree \cup {Batch}, !.failing = F] :
                    F \in SUBSET Tests}
  <2> PICK F \in SUBSET Tests :
        q = [r EXCEPT !.tree = {}, !.ahead = @ \cup r.tree \cup {Batch}, !.failing = F]
    BY <1>3
  <2> QED
    BY DEF WorkingCopies
<1> QED
  BY <1>1, <1>2, <1>3 DEF Edited

\* The base of a first attempt moves the leftovers behind it, or the batch is stuck
\* with them; a later attempt starts from what the earlier ones left.
LEMMA BasesType ==
  ASSUME TypeInv, Batch \in Batches, NEW b \in Bases
  PROVE  /\ b \in WorkingCopies
         /\ b.shipped = repo.shipped
         /\ b.tree \subseteq repo.tree
         /\ b.ahead \subseteq repo.ahead
         /\ b.wip \subseteq repo.wip \cup repo.tree
         /\ st.attempt # 0 => b.wip = repo.wip
         /\ repo.stuck \subseteq b.stuck
         /\ Batch \in b.stuck \cup touched \/ b.tree = (IF st.attempt = 0 THEN {} ELSE repo.tree)
<1> repo \in WorkingCopies
  BY DEF TypeInv, TypeOK
<1>1. CASE b = BasedRepo
  BY <1>1 DEF WorkingCopies, BasedRepo
<1>2. CASE b = StuckRepo /\ st.attempt = 0
  BY <1>2 DEF WorkingCopies, StuckRepo
<1> QED
  BY <1>1, <1>2 DEF Bases

\* What an attempt leaves: the edits of the batch on top of its base.
LEMMA ImplementedRepo ==
  ASSUME TypeInv, Batch \in Batches, NEW r \in Implemented
  PROVE  /\ r \in WorkingCopies
         /\ r.shipped = repo.shipped
         /\ r.tree \cup r.ahead \subseteq repo.tree \cup repo.ahead \cup {Batch}
         /\ r.wip \subseteq repo.wip \cup repo.tree
         /\ st.attempt # 0 => r.wip = repo.wip
         /\ repo.stuck \subseteq r.stuck
         /\ \/ Batch \in r.stuck \cup touched
            \/ r.tree \subseteq (IF st.attempt = 0 THEN {} ELSE repo.tree) \cup {Batch}
<1> PICK b \in Bases : r \in Edited(b)
  BY DEF Implemented
<1> QED
  BY BasesType, EditedRepo

\* Capturing a baseline and setting the base touch three channels only.
LEMMA BasedStateType ==
  ASSUME TypeInv, Batch \in Batches, NEW db \in BOOLEAN
  PROVE  LET s == BasedState(Captured(db)) IN
         /\ s \in Channels
         /\ Captured(db) \in Channels
         /\ s.idx = st.idx
         /\ s.attempt = st.attempt
         /\ s.cycle = st.cycle
         /\ Captured(db).idx = st.idx
         /\ Captured(db).attempt = st.attempt
<1> Batch \in Origin
  BY BatchLoopAssumption DEF Batches, Origin
<1>1. /\ Captured(db) \in Channels
      /\ Captured(db).idx = st.idx
      /\ Captured(db).attempt = st.attempt
      /\ Captured(db).cycle = st.cycle
  BY DEF TypeInv, TypeOK, Channels, Captured, WorkingCopies
<1> QED
  BY <1>1 DEF BasedState, Channels

\* An escalation changes one channel and leads to the escalate node.
LEMMA EscalateStep ==
  ASSUME NEW s \in Channels, NEW r, NEW reason \in Escalations, Escalate(s, r, reason)
  PROVE  /\ st' \in Channels
         /\ st' = [s EXCEPT !.escalation = reason]
         /\ st'.idx = s.idx
         /\ repo' = r
         /\ next' = "escalate"
         /\ UNCHANGED crashes
<1> DEFINE s2 == [s EXCEPT !.escalation = reason]
<1>1. s2 \in Channels /\ s2.idx = s.idx /\ s2.escalation = reason
  BY DEF Channels
<1>2. reason # None
  BY DEF Escalations, None
<1> QED
  BY <1>1, <1>2 DEF Escalate, Step, Route

-----------------------------------------------------------------------------
(* What each group of steps may do *)

\* A step of implement: same batch, same commits, edits of this batch only; it
\* goes to the reviewer, tries again later, or asks.
ImplementFrame ==
  /\ st' \in Channels
  /\ st'.idx = st.idx
  /\ repo' \in WorkingCopies
  /\ repo'.shipped = repo.shipped
  /\ repo'.tree \cup repo'.ahead \subseteq repo.tree \cup repo.ahead \cup {Batch}
  /\ repo'.wip \subseteq repo.wip \cup repo.tree
  /\ st.attempt # 0 => repo'.wip = repo.wip
  /\ repo.stuck \subseteq repo'.stuck
  /\ next' \in {"implement", "code_review", "escalate"}
  /\ next' = "implement" => st'.attempt # 0
  /\ UNCHANGED <<crashes, touched, judged>>

LEMMA ImplementStep == ASSUME TypeInv, Implement PROVE ImplementFrame
<1> next = "implement" /\ next \in LoopNodes
  BY DEF Implement, ImplementWaived, BaselineUnmeasurable, ImplementRefusesBranch,
         ImplementerStops, ImplementerFails, GateFails, ImplementDone, LoopNodes
<1> Batch \in Batches
  BY BatchType
<1> DbUp \subseteq BOOLEAN
  BY DEF DbUp
<1> st \in Channels /\ repo \in WorkingCopies
  BY DEF TypeInv, TypeOK
<1> 0 \in 0..MaxCycle /\ 0 \in 0..MaxTestFixes
  BY MaxCycleType, BatchLoopAssumption
<1>1. CASE ImplementWaived
  BY <1>1 DEF ImplementWaived, Step, Route, ImplementFrame, Channels
<1>2. CASE BaselineUnmeasurable
  BY <1>2, EscalateStep DEF BaselineUnmeasurable, ImplementFrame, Escalations
<1>3. CASE ImplementRefusesBranch
  <2> PICK db \in BOOLEAN : Escalate(Captured(db), repo, "branch")
    BY <1>3 DEF ImplementRefusesBranch
  <2> QED
    BY <1>3, BasedStateType, EscalateStep DEF ImplementRefusesBranch, ImplementFrame, Escalations
<1> DEFINE S(db) == BasedState(Captured(db))
<1>4. ASSUME NEW db \in BOOLEAN, NEW r \in Implemented
      PROVE  /\ S(db) \in Channels
             /\ S(db).idx = st.idx
             /\ S(db).attempt = st.attempt
             /\ r \in WorkingCopies
             /\ r.shipped = repo.shipped
             /\ r.tree \cup r.ahead \subseteq repo.tree \cup repo.ahead \cup {Batch}
             /\ r.wip \subseteq repo.wip \cup repo.tree
             /\ st.attempt # 0 => r.wip = repo.wip
             /\ repo.stuck \subseteq r.stuck
  BY ImplementedRepo, BasedStateType
<1>5. ASSUME NEW s \in Channels, s.idx = st.idx, NEW r \in WorkingCopies,
             NEW reason \in Escalations, RetryOrEscalate(s, r, reason)
      PROVE  /\ st' \in Channels /\ st'.idx = st.idx /\ repo' = r
             /\ next' \in {"implement", "escalate"}
             /\ next' = "implement" => st'.attempt # 0
             /\ UNCHANGED crashes
  <2>1. CASE st.attempt + 1 > MaxTestFixes
    BY <1>5, <2>1, EscalateStep DEF RetryOrEscalate
  <2>2. CASE ~(st.attempt + 1 > MaxTestFixes)
    <3> DEFINE s2 == [s EXCEPT !.attempt = st.attempt + 1]
    <3>1. st.attempt + 1 \in 1..MaxTestFixes
      BY <2>2, BatchLoopAssumption DEF Channels
    <3>2. s2 \in Channels /\ s2.idx = st.idx /\ s2.attempt # 0
      BY <3>1, <1>5 DEF Channels
    <3> QED
      BY <1>5, <2>2, <3>2 DEF RetryOrEscalate, Step, Route
  <2> QED
    BY <2>1, <2>2
<1> HIDE DEF S
<1>6. CASE ImplementerStops
  <2> PICK db \in BOOLEAN, r \in Implemented, reason \in {"generic", "crash"} :
        Escalate(S(db), r, reason)
    BY <1>6 DEF ImplementerStops, S
  <2> QED
    BY <1>4, <1>6, EscalateStep DEF ImplementerStops, ImplementFrame, Escalations
<1>7. CASE ImplementerFails
  <2> PICK db \in BOOLEAN, r \in Implemented : RetryOrEscalate(S(db), r, "generic")
    BY <1>7 DEF ImplementerFails, S
  <2> QED
    BY <1>4, <1>5, <1>7 DEF ImplementerFails, ImplementFrame, Escalations
<1>8. CASE GateFails
  <2> PICK db \in BOOLEAN, r \in Implemented : RetryOrEscalate(S(db), r, "tests")
    BY <1>8 DEF GateFails, S
  <2> QED
    BY <1>4, <1>5, <1>8 DEF GateFails, ImplementFrame, Escalations
<1>9. CASE ImplementDone
  <2> PICK db \in BOOLEAN, r \in Implemented :
        \/ Escalate(S(db), r, "generic")
        \/ Step([S(db) EXCEPT !.attempt = 0, !.cycle = 0], r, "code_review")
    BY <1>9 DEF ImplementDone, S
  <2> QED
    <3>1. CASE Escalate(S(db), r, "generic")
      BY <1>4, <1>9, <3>1, EscalateStep DEF ImplementDone, ImplementFrame, Escalations
    <3>2. CASE Step([S(db) EXCEPT !.attempt = 0, !.cycle = 0], r, "code_review")
      <4> DEFINE s2 == [S(db) EXCEPT !.attempt = 0, !.cycle = 0]
      <4>1. s2 \in Channels /\ s2.idx = st.idx
        BY <1>4 DEF Channels
      <4>2. /\ st' = s2 /\ repo' = r /\ UNCHANGED crashes
            /\ next' = Route(s2, "code_review")
        BY <3>2 DEF Step
      <4>3. next' = "code_review" \/ next' = "escalate"
        BY <4>2 DEF Route
      <4> HIDE DEF s2
      <4> QED
        BY <1>4, <1>9, <4>1, <4>2, <4>3 DEF ImplementDone, ImplementFrame
    <3> QED
      BY <3>1, <3>2
<1> QED
  BY <1>1, <1>2, <1>3, <1>6, <1>7, <1>8, <1>9 DEF Implement

\* A step of the reviewer or of a fix: the batch gets a verdict on the way to a
\* fix, a fix is inside the budget, and nothing unresolved goes to close_batch.
ReviewFrame ==
  /\ st' \in Channels
  /\ st'.idx = st.idx
  /\ repo' \in WorkingCopies
  /\ repo'.shipped = repo.shipped
  /\ repo'.tree \cup repo'.ahead \subseteq repo.tree \cup repo.ahead \cup {Batch}
  /\ repo'.wip = repo.wip
  /\ repo'.stuck = repo.stuck
  /\ next' \in {"code_fix", "code_verify", "close_batch", "escalate"}
  /\ next' = "code_fix" => st'.cycle < MaxCycle
  /\ next' = "close_batch" => ~Unresolved(st')
  /\ judged' = judged \/ judged' = judged \cup {Batch}
  /\ next = "code_review" /\ next' # "escalate" => Batch \in judged'
  /\ UNCHANGED <<crashes, touched>>

LEMMA ReviewStep == ASSUME TypeInv, Review PROVE ReviewFrame
<1> next \in {"code_review", "code_fix", "code_verify"} /\ next \in LoopNodes
  BY DEF Review, ReviewerUntrusted, ReviewOfNothing, ReviewMismatch, ReviewDone, CodeFix,
         VerifyNotFixed, VerifyConfirmed, LoopNodes
<1> Batch \in Batches
  BY BatchType
<1> st \in Channels /\ repo \in WorkingCopies
  BY DEF TypeInv, TypeOK
<1>1. ASSUME NEW v \in Verdicts, NEW nm \in BOOLEAN, NEW ob \in BOOLEAN
      PROVE  /\ Judged(v, nm, ob) \in Channels
             /\ Judged(v, nm, ob).idx = st.idx
             /\ Judged(v, nm, ob).cycle = 0
             /\ Judged(v, nm, ob).escalation = st.escalation
             /\ Unresolved(Judged(v, nm, ob)) <=> (nm \/ ob)
  <2> DEFINE s == Judged(v, nm, ob)
  <2>1. 0 \in 0..MaxCycle
    BY MaxCycleType
  <2>2. s \in Channels /\ s.idx = st.idx /\ s.cycle = 0 /\ s.escalation = st.escalation
    BY <2>1 DEF Judged, Channels
  <2>3. s.notMet = nm /\ s.openBlockers = ob
    BY DEF Judged, Channels
  <2> QED
    BY <2>2, <2>3 DEF Unresolved
<1>2. CASE ReviewerUntrusted
  BY <1>2, EscalateStep DEF ReviewerUntrusted, ReviewFrame, Escalations
<1>3. CASE ReviewOfNothing
  <2> PICK v \in Verdicts, nm \in BOOLEAN : Escalate(Judged(v, nm, TRUE), repo, "generic")
    BY <1>3 DEF ReviewOfNothing
  <2> QED
    BY <1>1, <1>3, EscalateStep DEF ReviewOfNothing, ReviewFrame, Escalations
<1>4. CASE ReviewMismatch
  <2> PICK v \in Verdicts, ob \in BOOLEAN : Escalate(Judged(v, TRUE, ob), repo, "generic")
    BY <1>4 DEF ReviewMismatch
  <2> QED
    BY <1>1, <1>4, EscalateStep DEF ReviewMismatch, ReviewFrame, Escalations
<1>5. CASE ReviewDone
  <2> PICK v \in Verdicts, nm \in BOOLEAN, ob \in BOOLEAN :
        Step(Judged(v, nm, ob), repo, IF nm \/ ob THEN "code_fix" ELSE "close_batch")
    BY <1>5 DEF ReviewDone
  <2> DEFINE s == Judged(v, nm, ob)
  <2>1. /\ st' = s /\ repo' = repo /\ UNCHANGED <<crashes, touched>>
        /\ judged' = judged \cup {Batch}
        /\ next' \in {"escalate", IF nm \/ ob THEN "code_fix" ELSE "close_batch"}
    BY <1>5 DEF ReviewDone, Step, Route
  <2> HIDE DEF s
  <2>2. s \in Channels /\ s.idx = st.idx /\ s.cycle = 0 /\ (Unresolved(s) <=> (nm \/ ob))
    BY <1>1 DEF s
  <2> QED
    BY <2>1, <2>2, MaxCycleType DEF ReviewFrame
<1>6. CASE CodeFix
  <2> DEFINE s == [st EXCEPT !.cycle = @ + 1]
  <2>1. s \in Channels /\ s.idx = st.idx
    <3>1. st.cycle + 1 \in 0..MaxCycle
      BY <1>6, MaxCycleType DEF CodeFix, TypeInv, FixBudget, Channels
    <3> QED
      BY <3>1 DEF Channels
  <2>2. PICK r \in Edited(repo) : Step(s, r, "code_verify") \/ Escalate(s, r, "generic")
    BY <1>6 DEF CodeFix
  <2> HIDE DEF s
  <2>3. /\ st' \in Channels /\ st'.idx = st.idx /\ repo' = r /\ UNCHANGED crashes
        /\ next' \in {"code_verify", "escalate"}
    BY <2>1, <2>2, EscalateStep DEF Step, Route, Escalations
  <2> QED
    BY <1>6, <2>3, EditedRepo DEF CodeFix, ReviewFrame
<1>7. CASE VerifyNotFixed
  <2>1. CASE st.cycle >= FixCycles
    BY <1>7, <2>1, EscalateStep DEF VerifyNotFixed, ReviewFrame, Escalations
  <2>2. CASE ~(st.cycle >= FixCycles)
    <3>1. st.cycle < MaxCycle
      BY <2>2, MaxCycleType, BatchLoopAssumption DEF Channels
    <3> QED
      BY <1>7, <2>2, <3>1 DEF VerifyNotFixed, Step, Route, ReviewFrame
  <2> QED
    BY <2>1, <2>2
<1>8. CASE VerifyConfirmed
  <2> DEFINE s == [st EXCEPT !.notMet = FALSE, !.openBlockers = FALSE]
  <2>1. s \in Channels /\ s.idx = st.idx /\ ~Unresolved(s)
    BY DEF Channels, Unresolved
  <2> QED
    BY <1>8, <2>1 DEF VerifyConfirmed, Step, Route, ReviewFrame
<1> QED
  BY <1>2, <1>3, <1>4, <1>5, <1>6, <1>7, <1>8 DEF Review

\* close_batch asks, or commits the tree and moves on with nothing uncommitted.
CloseFrame ==
  \/ /\ st' \in Channels
     /\ st'.idx = st.idx
     /\ next' = "escalate"
     /\ UNCHANGED <<repo, crashes, touched, judged>>
  \/ /\ st' \in Channels
     /\ st'.idx = Batch
     /\ repo' = CommitTree(repo)
     /\ repo.tree # {}
     /\ next' = "escalate" \/ next' = IF Batch < NBatches THEN "implement" ELSE "gates"
     /\ UNCHANGED <<crashes, touched, judged>>

LEMMA CommitTreeType ==
  ASSUME Batch \in Batches, repo \in WorkingCopies
  PROVE  LET c == CommitTree(repo) IN
         /\ c \in WorkingCopies
         /\ c.shipped = [repo.shipped EXCEPT ![Batch] = @ \cup repo.tree]
         /\ c.tree \cup c.ahead = repo.tree \cup repo.ahead
         /\ c.wip = repo.wip
         /\ c.stuck = repo.stuck
         /\ c.tree = {}
  BY DEF CommitTree, WorkingCopies

LEMMA CloseStep == ASSUME TypeInv, Close PROVE CloseFrame
<1> next = "close_batch" /\ next \in LoopNodes
  BY DEF Close, CloseRefusesBranch, CloseRefuses, CloseBatch, LoopNodes
<1> Batch \in Batches /\ st \in Channels
  BY BatchType DEF TypeInv, TypeOK
<1>1. CASE CloseRefusesBranch \/ CloseRefuses
  BY <1>1, EscalateStep DEF CloseRefusesBranch, CloseRefuses, CloseFrame, Escalations
<1>2. CASE CloseBatch
  <2> DEFINE s == [st EXCEPT !.idx = @ + 1, !.cycle = 0, !.waived = FALSE,
                             !.baselineN = 0, !.baseline = {}]
  <2>1. s \in Channels /\ s.idx = Batch
    <3>1. 0 \in 0..MaxCycle /\ 0 \in Origin /\ Batch \in Origin /\ st.idx + 1 = Batch
      BY MaxCycleType, BatchLoopAssumption DEF Batch, Batches, Origin
    <3> QED
      BY <3>1 DEF Channels
  <2> QED
    BY <1>2, <2>1 DEF CloseBatch, Step, Route, CloseFrame
<1> QED
  BY <1>1, <1>2 DEF Close

\* An answer touches the batch, commits nothing, and never leads into the middle
\* of a fix nor, with a blocker open, to close_batch.
HumanFrame ==
  /\ next = "escalate"
  /\ st' \in Channels
  /\ st'.idx = st.idx
  /\ next' \in {"implement", "code_review", "close_batch", "gates", "end"}
  /\ next' \in LoopNodes => st.idx < NBatches
  /\ next' = "gates" => st.idx = NBatches
  /\ next' = "close_batch" => ~st'.openBlockers
  /\ touched' = touched \cup {Batch}
  /\ judged' = judged \/ judged' = judged \cup {Batch}
  /\ UNCHANGED <<repo, crashes>>

LEMMA HumanStep == ASSUME TypeInv, Human PROVE HumanFrame
<1> st \in Channels
  BY DEF TypeInv, TypeOK
<1>1. ASSUME NEW s \in Channels, s.idx = st.idx, Resume(s),
             judged' = judged \/ judged' = judged \cup {Batch}
      PROVE  HumanFrame
  <2>1. CASE s.idx = NBatches
    BY <1>1, <2>1 DEF Resume, ReturnTo, HumanFrame, LoopNodes
  <2>2. CASE s.idx # NBatches
    <3>1. s.idx < NBatches
      BY <2>2, BatchLoopAssumption DEF Channels, Origin
    <3>2. ReturnTo(s) \in {"implement", "code_review", "close_batch"}
      BY <2>2 DEF ReturnTo
    <3>3. ReturnTo(s) = "close_batch" => ~s.openBlockers
      BY <2>2 DEF ReturnTo
    <3> QED
      BY <1>1, <3>1, <3>2, <3>3 DEF Resume, HumanFrame
  <2> QED
    BY <2>1, <2>2
<1>2. Answered \in Channels /\ Answered.idx = st.idx
  <2>1. 0 \in 0..MaxTestFixes
    BY BatchLoopAssumption
  <2> QED
    BY <2>1 DEF Answered, Channels
<1>3. CASE AnswerOk
  <2> DEFINE a == [Answered EXCEPT !.verdict = None, !.notMet = FALSE, !.openBlockers = FALSE]
             b == [Answered EXCEPT !.waived = TRUE]
  <2>1. a \in Channels /\ b \in Channels /\ a.idx = st.idx /\ b.idx = st.idx
    BY <1>2 DEF Channels
  <2>2. Resume(a) \/ Resume(b) \/ Resume(Answered)
    BY <1>3 DEF AnswerOk
  <2> HIDE DEF a, b
  <2> QED
    BY <1>1, <1>2, <1>3, <2>1, <2>2 DEF AnswerOk
<1>4. CASE AnswerSkip
  <2> DEFINE a == [Answered EXCEPT !.verdict = "APPROVE", !.notMet = FALSE, !.openBlockers = FALSE]
  <2>1. a \in Channels /\ a.idx = st.idx
    BY <1>2 DEF Channels, Verdicts
  <2>2. Resume(a) /\ judged' = judged \cup {Batch}
    BY <1>4 DEF AnswerSkip
  <2> QED
    BY <1>1, <2>1, <2>2
<1>5. CASE AnswerStop
  BY <1>2, <1>5 DEF AnswerStop, HumanFrame, LoopNodes
<1>6. CASE AnswerInvalid
  BY <1>1, <1>6 DEF AnswerInvalid
<1> QED
  BY <1>3, <1>4, <1>5, <1>6 DEF Human

\* A node that fails in the middle leaves part of its effects on the repository;
\* only close_batch can have committed the batch.
FailureFrame ==
  /\ next \in LoopNodes
  /\ st' \in Channels
  /\ st'.idx = st.idx
  /\ repo' \in WorkingCopies
  /\ \/ repo'.shipped = repo.shipped
     \/ next = "close_batch" /\ repo' = CommitTree(repo)
  /\ repo'.tree \cup repo'.ahead \subseteq repo.tree \cup repo.ahead \cup {Batch}
  /\ repo'.wip \subseteq repo.wip \cup repo.tree
  /\ repo.stuck \subseteq repo'.stuck
  /\ judged' = judged
  /\ \/ next' = "escalate" /\ UNCHANGED <<crashes, touched>>
     \/ /\ UNCHANGED <<next, st>>
        /\ crashes' \in 0..Crashes
        /\ touched' = touched \cup {Batch}

LEMMA FailureStep ==
  ASSUME TypeInv, NodeException \/ ProcessCrash PROVE FailureFrame
<1> next \in LoopNodes
  BY DEF NodeException, ProcessCrash
<1> Batch \in Batches
  BY BatchType
<1> st \in Channels /\ repo \in WorkingCopies /\ crashes \in 0..Crashes
  BY DEF TypeInv, TypeOK
<1>1. ASSUME NEW r \in Partial
      PROVE  /\ r \in WorkingCopies
             /\ r.shipped = repo.shipped \/ (next = "close_batch" /\ r = CommitTree(repo))
             /\ r.tree \cup r.ahead \subseteq repo.tree \cup repo.ahead \cup {Batch}
             /\ r.wip \subseteq repo.wip \cup repo.tree
             /\ repo.stuck \subseteq r.stuck
  <2>1. CASE r = repo
    BY <2>1
  <2>2. CASE r \in Implemented
    BY <2>2, ImplementedRepo
  <2>3. CASE r \in Edited(repo)
    BY <2>3, EditedRepo
  <2>4. CASE next = "close_batch" /\ r = CommitTree(repo)
    BY <2>4, CommitTreeType
  <2> QED
    BY <2>1, <2>2, <2>3, <2>4 DEF Partial
<1>2. CASE NodeException
  <2> PICK r \in Partial : Escalate(st, r, "crash")
    BY <1>2 DEF NodeException
  <2> QED
    BY <1>1, <1>2, EscalateStep DEF NodeException, FailureFrame, Escalations
<1>3. CASE ProcessCrash
  <2>1. crashes' \in 0..Crashes
    BY <1>3, BatchLoopAssumption DEF ProcessCrash
  <2> QED
    BY <1>1, <1>3, <2>1 DEF ProcessCrash, FailureFrame
<1> QED
  BY <1>2, <1>3

-----------------------------------------------------------------------------
(* Types *)

LEMMA TypeInit == ASSUME Init PROVE TypeInv
<1>1. st \in Channels
  <2>1. 0 \in Origin /\ 0 \in 0..MaxCycle /\ 0 \in 0..MaxTestFixes
    BY MaxCycleType, BatchLoopAssumption DEF Origin
  <2>2. 1 \in Origin
    BY BatchLoopAssumption DEF Origin
  <2> PICK e \in IF Typos THEN {None, "generic", "crash"} ELSE {None}, v \in {None, "APPROVE"},
           ob \in BOOLEAN, redone \in BOOLEAN, B \in SUBSET Tests :
        st = [idx |-> 0, escalation |-> e, attempt |-> 0, cycle |-> 0,
              verdict |-> v, notMet |-> FALSE, openBlockers |-> ob,
              waived |-> redone, baselineN |-> IF redone THEN 1 ELSE 0,
              baseline |-> IF redone THEN B ELSE {},
              taskBaseline |-> IF redone THEN B ELSE {}, baseSet |-> redone]
    BY DEF Init
  <2>3. e \in Escalations \cup {None}
    BY DEF Escalations
  <2> QED
    BY <2>1, <2>2, <2>3 DEF Channels, Verdicts, None
<1>2. repo \in WorkingCopies
  <2> PICK dirt \in {{}, {0}}, past \in {{}, {0}}, F \in SUBSET Tests :
        repo = [tree |-> dirt, ahead |-> IF st.waived THEN past ELSE {}, wip |-> {},
                shipped |-> [k \in Batches |-> {}], failing |-> F, stuck |-> {}]
    BY DEF Init
  <2>1. dirt \subseteq Origin /\ past \subseteq Origin
    BY BatchLoopAssumption DEF Origin
  <2> QED
    BY <2>1 DEF WorkingCopies
<1>3. HasBatch /\ FixBudget
  BY BatchLoopAssumption DEF Init, HasBatch, FixBudget
<1> QED
  BY <1>1, <1>2, <1>3, BatchLoopAssumption
     DEF Init, TypeInv, TypeOK, Places, LoopNodes

LEMMA TypeStep == ASSUME TypeInv, [Next]_vars PROVE TypeInv'
<1> /\ next \in Places /\ st \in Channels /\ repo \in WorkingCopies
    /\ crashes \in 0..Crashes
    /\ touched \subseteq 1..(NBatches + 1) /\ judged \subseteq 1..(NBatches + 1)
  BY DEF TypeInv, TypeOK
<1>1. Batch \in 1..(NBatches + 1)
  BY BatchLoopAssumption DEF Channels, Origin, Batch
<1>2. CASE Implement
  <2>1. next = "implement"
    BY <1>2 DEF Implement, ImplementWaived, BaselineUnmeasurable, ImplementRefusesBranch,
           ImplementerStops, ImplementerFails, GateFails, ImplementDone
  <2> QED
    BY <1>2, <2>1, ImplementStep
       DEF ImplementFrame, TypeInv, TypeOK, HasBatch, FixBudget, Places, LoopNodes
<1>3. CASE Review
  <2>1. next \in LoopNodes
    BY <1>3 DEF Review, ReviewerUntrusted, ReviewOfNothing, ReviewMismatch, ReviewDone,
           CodeFix, VerifyNotFixed, VerifyConfirmed, LoopNodes
  <2> QED
    BY <1>1, <1>3, <2>1, ReviewStep
       DEF ReviewFrame, TypeInv, TypeOK, HasBatch, FixBudget, Places, LoopNodes
<1>4. CASE Close
  <2>1. next \in LoopNodes
    BY <1>4 DEF Close, CloseRefusesBranch, CloseRefuses, CloseBatch, LoopNodes
  <2>2. CommitTree(repo) \in WorkingCopies
    BY <2>1, BatchType, CommitTreeType
  <2>3. next' = "implement" => st'.idx < NBatches
    BY <1>4, <2>1, CloseStep DEF CloseFrame, TypeInv, HasBatch
  <2> QED
    BY <1>4, <2>2, <2>3, CloseStep
       DEF CloseFrame, TypeInv, TypeOK, HasBatch, FixBudget, Places, LoopNodes
<1>5. CASE Human
  BY <1>1, <1>5, HumanStep
     DEF HumanFrame, TypeInv, TypeOK, HasBatch, FixBudget, Places, LoopNodes
<1>6. CASE NodeException \/ ProcessCrash
  BY <1>1, <1>6, FailureStep
     DEF FailureFrame, TypeInv, TypeOK, HasBatch, FixBudget, Places, LoopNodes
<1>7. CASE UNCHANGED vars
  BY <1>7 DEF vars, TypeInv, TypeOK, HasBatch, FixBudget
<1> QED
  BY <1>2, <1>3, <1>4, <1>5, <1>6, <1>7 DEF Next, Nodes, Left

LEMMA TypeInvariant == Spec => []TypeInv
<1>1. Init => TypeInv
  BY TypeInit
<1>2. TypeInv /\ [Next]_vars => TypeInv'
  BY TypeStep
<1> QED
  BY <1>1, <1>2, PTL DEF Spec

\* Every variable keeps its type.
THEOREM TypeCorrect == Spec => []TypeOK
<1>1. TypeInv => TypeOK
  BY DEF TypeInv
<1> QED
  BY <1>1, TypeInvariant, PTL

\* The implementer is sent to fix a batch only while fix cycles are left.
THEOREM BudgetKept == Spec => []FixBudget
<1>1. TypeInv => FixBudget
  BY DEF TypeInv
<1> QED
  BY <1>1, TypeInvariant, PTL

-----------------------------------------------------------------------------
(* No blocker open at close_batch *)

\* A batch with open blockers never reaches close_batch, whether from a review, a
\* verification, a human's answer or a restart.
THEOREM BlockersBlock == Spec => []OpenBlockersBlockClose
<1>1. Init => OpenBlockersBlockClose
  BY DEF Init, OpenBlockersBlockClose
<1>2. ASSUME TypeInv, OpenBlockersBlockClose, [Next]_vars
      PROVE  OpenBlockersBlockClose'
  <2>1. CASE Implement
    BY <1>2, <2>1, ImplementStep DEF ImplementFrame, OpenBlockersBlockClose
  <2>2. CASE Review
    BY <1>2, <2>2, ReviewStep DEF ReviewFrame, Unresolved, OpenBlockersBlockClose
  <2>3. CASE Close
    BY <1>2, <2>3, CloseStep DEF CloseFrame, OpenBlockersBlockClose
  <2>4. CASE Human
    BY <1>2, <2>4, HumanStep DEF HumanFrame, OpenBlockersBlockClose
  <2>5. CASE NodeException \/ ProcessCrash
    BY <1>2, <2>5, FailureStep DEF FailureFrame, OpenBlockersBlockClose
  <2>6. CASE UNCHANGED vars
    BY <1>2, <2>6 DEF vars, OpenBlockersBlockClose
  <2> QED
    BY <1>2, <2>1, <2>2, <2>3, <2>4, <2>5, <2>6 DEF Next, Nodes, Left
<1> QED
  BY <1>1, <1>2, TypeInvariant, PTL DEF Spec

-----------------------------------------------------------------------------
(* Every closed batch has a commit *)

\* Commits are never lost, and close_batch moves on only with one.
LEMMA ShippedGrows ==
  ASSUME TypeInv, [Next]_vars
  PROVE  /\ \A k \in Batches : repo.shipped[k] \subseteq repo'.shipped[k]
         /\ \/ st'.idx = st.idx
            \/ Batch \in Batches /\ st'.idx = Batch /\ repo'.shipped[Batch] # {}
<1> repo \in WorkingCopies
  BY DEF TypeInv, TypeOK
<1>1. CASE Implement
  BY <1>1, ImplementStep DEF ImplementFrame
<1>2. CASE Review
  BY <1>2, ReviewStep DEF ReviewFrame
<1> DEFINE c == CommitTree(repo)
<1>3. ASSUME Batch \in Batches
      PROVE  /\ \A k \in Batches : repo.shipped[k] \subseteq c.shipped[k]
             /\ repo.tree # {} => c.shipped[Batch] # {}
  <2>1. c.shipped = [repo.shipped EXCEPT ![Batch] = @ \cup repo.tree]
    BY <1>3, CommitTreeType
  <2> QED
    BY <1>3, <2>1 DEF WorkingCopies
<1> HIDE DEF c
<1>4. CASE Close
  <2>1. Batch \in Batches
    BY <1>4, BatchType DEF Close, CloseRefusesBranch, CloseRefuses, CloseBatch, LoopNodes
  <2>2. CASE UNCHANGED repo /\ st'.idx = st.idx
    BY <2>2
  <2>3. CASE repo' = c /\ repo.tree # {} /\ st'.idx = Batch
    BY <1>3, <2>1, <2>3
  <2> QED
    BY <1>4, <2>2, <2>3, CloseStep DEF CloseFrame, c
<1>5. CASE Human
  BY <1>5, HumanStep DEF HumanFrame
<1>6. CASE NodeException \/ ProcessCrash
  <2>1. next \in LoopNodes /\ st'.idx = st.idx /\ (repo'.shipped = repo.shipped \/ repo' = c)
    BY <1>6, FailureStep DEF FailureFrame, c
  <2> QED
    BY <1>3, <2>1, BatchType
<1>7. CASE UNCHANGED vars
  BY <1>7 DEF vars
<1> QED
  BY <1>1, <1>2, <1>4, <1>5, <1>6, <1>7 DEF Next, Nodes, Left

\* Every batch the run went past has a commit of its own.
THEOREM ClosedHasCommit == Spec => []ClosedIsCommitted
<1>1. Init => ClosedIsCommitted
  BY DEF Init, ClosedIsCommitted
<1>2. ASSUME TypeInv, ClosedIsCommitted, [Next]_vars
      PROVE  ClosedIsCommitted'
  <2> st.idx \in 0..NBatches
    BY <1>2 DEF TypeInv, TypeOK, Channels, Origin
  <2> SUFFICES ASSUME NEW k \in 1..st'.idx PROVE repo'.shipped[k] # {}
    BY DEF ClosedIsCommitted
  <2>1. CASE k \in 1..st.idx
    <3>1. repo.shipped[k] # {} /\ k \in Batches
      BY <1>2, <2>1, BatchLoopAssumption DEF ClosedIsCommitted, Batches
    <3> QED
      BY <1>2, <3>1, ShippedGrows
  <2>2. CASE k \notin 1..st.idx
    <3>1. st'.idx # st.idx
      BY <2>2
    <3>2. k = Batch
      BY <1>2, <2>2, <3>1, ShippedGrows DEF Batch
    <3> QED
      BY <1>2, <3>1, <3>2, ShippedGrows
  <2> QED
    BY <2>1, <2>2
<1> QED
  BY <1>1, <1>2, TypeInvariant, PTL DEF Spec

-----------------------------------------------------------------------------
(* What a run does on its own *)

AloneInv == FixedIsJudged /\ UnattendedCloseIsReviewed

LEMMA AloneInvariant == Spec => []AloneInv
<1>1. ASSUME Init PROVE AloneInv
  <2>1. Batch = 1 /\ next \in {"implement", "code_review", "close_batch"}
    BY <1>1 DEF Init, Batch
  <2>2. next # "implement" => touched = {1}
    BY <1>1 DEF Init
  <2> QED
    BY <2>1, <2>2 DEF AloneInv, FixedIsJudged, UnattendedCloseIsReviewed
<1>2. ASSUME TypeInv, AloneInv, [Next]_vars
      PROVE  AloneInv'
  <2> USE DEF AloneInv, FixedIsJudged, UnattendedCloseIsReviewed
  <2>1. CASE Implement
    BY <1>2, <2>1, ImplementStep DEF ImplementFrame
  <2>2. CASE Review
    <3>1. next \in {"code_review", "code_fix", "code_verify"}
      BY <2>2 DEF Review, ReviewerUntrusted, ReviewOfNothing, ReviewMismatch, ReviewDone,
             CodeFix, VerifyNotFixed, VerifyConfirmed
    <3>2. st'.idx = st.idx /\ Batch' = Batch
      BY <1>2, <2>2, ReviewStep DEF ReviewFrame, Batch
    <3> QED
      BY <1>2, <2>2, <3>1, <3>2, ReviewStep DEF ReviewFrame
  <2>3. CASE Close
    BY <1>2, <2>3, CloseStep DEF CloseFrame
  <2>4. CASE Human
    <3>1. Batch' = Batch
      BY <1>2, <2>4, HumanStep DEF HumanFrame, Batch
    <3> QED
      BY <1>2, <2>4, <3>1, HumanStep DEF HumanFrame
  <2>5. CASE NodeException \/ ProcessCrash
    <3>1. Batch' = Batch
      BY <1>2, <2>5, FailureStep DEF FailureFrame, Batch
    <3> QED
      BY <1>2, <2>5, <3>1, FailureStep DEF FailureFrame
  <2>6. CASE UNCHANGED vars
    BY <1>2, <2>6 DEF vars, Batch
  <2> QED
    BY <1>2, <2>1, <2>2, <2>3, <2>4, <2>5, <2>6 DEF Next, Nodes, Left
<1> QED
  BY <1>1, <1>2, TypeInvariant, PTL DEF Spec

\* A batch nobody touched and no crash interrupted is closed only after a review
\* of that batch that left nothing unresolved.
THEOREM AloneIsReviewed == Spec => []UnattendedCloseIsReviewed
<1>1. AloneInv => UnattendedCloseIsReviewed
  BY DEF AloneInv
<1> QED
  BY <1>1, AloneInvariant, PTL

DiffInv == NoEditsAhead /\ UntouchedEdits

LEMMA DiffInit == ASSUME Init PROVE DiffInv
<1> PICK dirt \in {{}, {0}}, past \in {{}, {0}}, F \in SUBSET Tests :
      repo = [tree |-> dirt, ahead |-> IF st.waived THEN past ELSE {}, wip |-> {},
              shipped |-> [k \in Batches |-> {}], failing |-> F, stuck |-> {}]
  BY DEF Init
<1> st.idx = 0 /\ Batch = 1 /\ st.attempt = 0
  BY DEF Init, Batch
<1> next # "implement" => touched = {1}
  BY DEF Init
<1> QED
  BY DEF DiffInv, NoEditsAhead, UntouchedEdits

LEMMA DiffStep ==
  ASSUME TypeInv, DiffInv, [Next]_vars
  PROVE  DiffInv'
<1> USE DEF DiffInv, NoEditsAhead, UntouchedEdits
<1>0. st.idx \in 0..NBatches /\ Batch = st.idx + 1 /\ Batch' = st'.idx + 1
  BY DEF TypeInv, TypeOK, Channels, Origin, Batch
<1>1. CASE Implement
  <2>1. next = "implement" /\ next \in LoopNodes
    BY <1>1 DEF Implement, ImplementWaived, BaselineUnmeasurable, ImplementRefusesBranch,
           ImplementerStops, ImplementerFails, GateFails, ImplementDone, LoopNodes
  <2>2. Batch' = Batch /\ Batch \in 0..Batch
    BY <1>0, <1>1, ImplementStep, BatchLoopAssumption DEF ImplementFrame
  <2> QED
    BY <1>1, <2>1, <2>2, ImplementStep DEF ImplementFrame
<1>2. CASE Review
  <2>1. next \in LoopNodes
    BY <1>2 DEF Review, ReviewerUntrusted, ReviewOfNothing, ReviewMismatch, ReviewDone,
           CodeFix, VerifyNotFixed, VerifyConfirmed, LoopNodes
  <2>2. Batch' = Batch /\ Batch \in 0..Batch
    BY <1>0, <1>2, ReviewStep, BatchLoopAssumption DEF ReviewFrame
  <2> QED
    BY <1>2, <2>1, <2>2, ReviewStep DEF ReviewFrame
<1>3. CASE Close
  <2>1. Batch \in Batches /\ repo \in WorkingCopies
    BY <1>3, BatchType DEF Close, CloseRefusesBranch, CloseRefuses, CloseBatch, LoopNodes,
       TypeInv, TypeOK
  <2>2. CASE UNCHANGED repo /\ st'.idx = st.idx /\ next' = "escalate"
    BY <1>0, <2>2 DEF LoopNodes
  <2>3. CASE repo' = CommitTree(repo) /\ st'.idx = Batch
    <3>1. 0..Batch \subseteq 0..Batch' /\ Batch' \notin 0..Batch
      BY <1>0, <2>3, BatchLoopAssumption
    <3> QED
      BY <2>1, <2>3, <3>1, CommitTreeType
  <2> QED
    BY <1>3, <2>2, <2>3, CloseStep DEF CloseFrame
<1>4. CASE Human
  BY <1>0, <1>4, HumanStep DEF HumanFrame
<1>5. CASE NodeException \/ ProcessCrash
  <2>1. Batch' = Batch /\ Batch \in 0..Batch
    BY <1>0, <1>5, FailureStep, BatchLoopAssumption DEF FailureFrame
  <2> QED
    BY <1>5, <2>1, FailureStep DEF FailureFrame, LoopNodes
<1>6. CASE UNCHANGED vars
  BY <1>6 DEF vars, Batch
<1> QED
  BY <1>1, <1>2, <1>3, <1>4, <1>5, <1>6 DEF Next, Nodes, Left

\* In a batch nobody touched, none of its edits is hidden behind the base commit
\* when the reviewer looks at the diff.
THEOREM AloneDiffIsWhole == Spec => []UnattendedDiffIsWhole
<1>1. Init => DiffInv
  BY DiffInit
<1>2. TypeInv /\ DiffInv /\ [Next]_vars => DiffInv'
  BY DiffStep
<1>3. DiffInv => UnattendedDiffIsWhole
  BY DEF DiffInv, UntouchedEdits, UnattendedDiffIsWhole, LoopNodes
<1> QED
  BY <1>1, <1>2, <1>3, TypeInvariant, PTL DEF Spec

\* An attempt of an untouched batch adds its edits to those it began with, and a
\* retry does not waive the tests.
LEMMA ImplementOwn ==
  ASSUME TypeInv, Implement, ~st.waived, next' # "escalate"
  PROVE  /\ \/ Batch \in repo'.stuck \cup touched
            \/ repo'.tree \subseteq (IF st.attempt = 0 THEN {} ELSE repo.tree) \cup {Batch}
         /\ next' = "implement" => ~st'.waived
<1> next = "implement" /\ next \in LoopNodes
  BY DEF Implement, ImplementWaived, BaselineUnmeasurable, ImplementRefusesBranch,
         ImplementerStops, ImplementerFails, GateFails, ImplementDone, LoopNodes
<1> Batch \in Batches
  BY BatchType
<1>0. st \in Channels /\ repo \in WorkingCopies /\ DbUp \subseteq BOOLEAN
  BY DEF TypeInv, TypeOK, DbUp
<1>2. \A r \in Implemented :
        \/ Batch \in r.stuck \cup touched
        \/ r.tree \subseteq (IF st.attempt = 0 THEN {} ELSE repo.tree) \cup {Batch}
  BY ImplementedRepo
<1> DEFINE S(db) == BasedState(Captured(db))
<1>3. ASSUME NEW db \in BOOLEAN PROVE S(db) \in Channels /\ ~S(db).waived
  <2>1. Captured(db) \in Channels /\ Captured(db).waived = st.waived
    BY <1>0, BasedStateType DEF Captured, Channels
  <2> QED
    BY <2>1, BasedStateType DEF BasedState, Channels
<1>4. ASSUME NEW s, NEW r, NEW reason \in Escalations, Escalate(s, r, reason), s \in Channels PROVE FALSE
  BY <1>4, EscalateStep
<1> HIDE DEF S
<1>5. ~ImplementWaived /\ ~BaselineUnmeasurable /\ ~ImplementRefusesBranch /\ ~ImplementerStops
  <2>1. ~ImplementWaived
    BY DEF ImplementWaived
  <2>2. ~BaselineUnmeasurable
    BY <1>0, <1>4 DEF BaselineUnmeasurable, Escalations
  <2>3. ~ImplementRefusesBranch
    BY <1>0, <1>4, BasedStateType DEF ImplementRefusesBranch, Escalations
  <2>4. ~ImplementerStops
    BY <1>0, <1>3, <1>4 DEF ImplementerStops, Escalations, S
  <2> QED
    BY <2>1, <2>2, <2>3, <2>4
<1>6. CASE ImplementerFails \/ GateFails
  <2> PICK db \in BOOLEAN, r \in Implemented, reason \in {"generic", "tests"} : RetryOrEscalate(S(db), r, reason)
    BY <1>0, <1>6 DEF ImplementerFails, GateFails, S
  <2>1. Step([S(db) EXCEPT !.attempt = st.attempt + 1], r, "implement")
    BY <1>3, <1>4 DEF RetryOrEscalate, Escalations
  <2>2. repo' = r /\ st' = [S(db) EXCEPT !.attempt = st.attempt + 1]
    BY <2>1 DEF Step
  <2>3. ~st'.waived
    BY <1>3, <2>2 DEF Channels
  <2> QED
    BY <1>2, <2>2, <2>3
<1>7. CASE ImplementDone
  <2> PICK db \in BOOLEAN, r \in Implemented :
        \/ Escalate(S(db), r, "generic")
        \/ Step([S(db) EXCEPT !.attempt = 0, !.cycle = 0], r, "code_review")
    BY <1>0, <1>7 DEF ImplementDone, S
  <2>1. Step([S(db) EXCEPT !.attempt = 0, !.cycle = 0], r, "code_review")
    BY <1>3, <1>4 DEF Escalations
  <2>2. repo' = r /\ next' # "implement"
    BY <2>1 DEF Step, Route
  <2> QED
    BY <1>2, <2>2
<1> QED
  BY <1>5, <1>6, <1>7 DEF Implement

LEMMA OwnStep ==
  ASSUME TypeInv, OwnInv, [Next]_vars
  PROVE  OwnInv'
<1> USE DEF OwnInv, UnattendedCommitIsOwn
<1>0. st \in Channels /\ repo \in WorkingCopies /\ st.idx \in 0..NBatches /\ Batch = st.idx + 1 /\ Batch' = st'.idx + 1
  BY DEF TypeInv, TypeOK, Channels, Origin, Batch
<1>1. CASE Implement
  <2>1. next = "implement" /\ next \in LoopNodes
    BY <1>1 DEF Implement, ImplementWaived, BaselineUnmeasurable, ImplementRefusesBranch,
           ImplementerStops, ImplementerFails, GateFails, ImplementDone, LoopNodes
  <2>2. /\ Batch' = Batch /\ repo'.shipped = repo.shipped /\ touched' = touched
        /\ repo.stuck \subseteq repo'.stuck
    BY <1>0, <1>1, ImplementStep DEF ImplementFrame
  <2>3. ASSUME next' # "escalate", Batch \notin touched
        PROVE  /\ Batch \in repo'.stuck \/ repo'.tree \subseteq {Batch}
               /\ next' = "implement" => ~st'.waived
    BY <1>1, <2>1, <2>2, <2>3, ImplementOwn
  <2> QED
    BY <2>2, <2>3 DEF LoopNodes
<1>2. CASE Review
  <2>1. next \in {"code_review", "code_fix", "code_verify"}
    BY <1>2 DEF Review, ReviewerUntrusted, ReviewOfNothing, ReviewMismatch, ReviewDone,
           CodeFix, VerifyNotFixed, VerifyConfirmed
  <2>2. /\ Batch' = Batch /\ repo'.shipped = repo.shipped /\ touched' = touched
        /\ repo'.stuck = repo.stuck /\ next' # "implement"
    BY <1>0, <1>2, ReviewStep DEF ReviewFrame
  <2>3. repo'.tree \subseteq repo.tree \cup {Batch}
    <3>1. Batch \in Batches
      BY <2>1, BatchType DEF LoopNodes
    <3>2. repo' = repo \/ repo' \in Edited(repo)
      BY <1>2 DEF Review, ReviewerUntrusted, ReviewOfNothing, ReviewMismatch, ReviewDone,
           CodeFix, VerifyNotFixed, VerifyConfirmed, Escalate, Step
    <3> QED
      BY <1>0, <3>1, <3>2, EditedRepo
  <2> QED
    BY <2>1, <2>2, <2>3 DEF LoopNodes
<1>3. CASE Close
  <2>1. Batch \in Batches /\ next = "close_batch" /\ next \in LoopNodes
    BY <1>3, BatchType DEF Close, CloseRefusesBranch, CloseRefuses, CloseBatch, LoopNodes
  <2>2. CASE UNCHANGED <<repo, touched>> /\ next' = "escalate"
    BY <2>2 DEF LoopNodes
  <2>3. CASE repo' = CommitTree(repo) /\ touched' = touched
    <3>1. \A k \in Batches \ (touched' \cup repo'.stuck) : repo'.shipped[k] \subseteq {k}
      BY <1>0, <2>1, <2>3, CommitTreeType DEF WorkingCopies
    <3>2. repo'.tree = {}
      BY <1>0, <2>1, <2>3, CommitTreeType
    <3>3. next' = "implement" => ~st'.waived
      <4>1. CASE CloseBatch
        <5> DEFINE e == [st EXCEPT !.idx = @ + 1, !.cycle = 0, !.waived = FALSE, !.baselineN = 0, !.baseline = {}]
        <5>1. ~e.waived
          BY <1>0 DEF Channels
        <5>2. st' = e
          BY <4>1 DEF CloseBatch, Step
        <5> QED
          BY <5>1, <5>2
      <4>2. CASE ~CloseBatch
        BY <1>0, <1>3, <4>2, EscalateStep DEF Close, CloseRefusesBranch, CloseRefuses, Escalations
      <4> QED
        BY <4>1, <4>2
    <3> QED
      BY <3>1, <3>2, <3>3
  <2> QED
    BY <1>3, <2>2, <2>3, CloseStep DEF CloseFrame
<1>4. CASE Human
  BY <1>0, <1>4, HumanStep DEF HumanFrame
<1>5. CASE NodeException \/ ProcessCrash
  <2>1. /\ Batch' = Batch /\ Batch \in Batches /\ repo.stuck \subseteq repo'.stuck
        /\ touched' = touched \/ touched' = touched \cup {Batch}
    BY <1>0, <1>5, FailureStep, BatchType DEF FailureFrame
  <2>2. \A k \in Batches \ (touched' \cup repo'.stuck) : repo'.shipped[k] \subseteq {k}
    <3>1. CASE repo'.shipped = repo.shipped
      BY <2>1, <3>1
    <3>2. CASE next = "close_batch" /\ repo' = CommitTree(repo)
      BY <1>0, <2>1, <3>2, CommitTreeType DEF WorkingCopies, LoopNodes
    <3> QED
      BY <1>5, <3>1, <3>2, FailureStep DEF FailureFrame
  <2>3. next' \in LoopNodes => Batch \in touched'
    BY <1>5, FailureStep DEF FailureFrame, LoopNodes
  <2> QED
    BY <2>1, <2>2, <2>3
<1>6. CASE UNCHANGED vars
  BY <1>6 DEF vars, Batch
<1> QED
  BY <1>1, <1>2, <1>3, <1>4, <1>5, <1>6 DEF Next, Nodes, Left

\* The commit of a batch nobody touched holds its own edits and nothing else, unless
\* git refused the commit its leftovers were to have of their own.
THEOREM AloneCommitIsOwn == Spec => []UnattendedCommitIsOwn
<1>1. Init => OwnInv
  <2> SUFFICES ASSUME Init PROVE OwnInv
    OBVIOUS
  <2>1. \A k \in Batches : repo.shipped[k] = {}
    BY DEF Init
  <2>2. Batch = 1 /\ st.attempt = 0
    BY DEF Init, Batch
  <2>3. 1 \notin touched => next = "implement" /\ ~st.waived
    BY DEF Init
  <2> QED
    BY <2>1, <2>2, <2>3 DEF OwnInv, UnattendedCommitIsOwn
<1>2. TypeInv /\ OwnInv /\ [Next]_vars => OwnInv'
  BY OwnStep
<1>3. OwnInv => UnattendedCommitIsOwn
  BY DEF OwnInv
<1> QED
  BY <1>1, <1>2, <1>3, TypeInvariant, PTL DEF Spec

-----------------------------------------------------------------------------
(* Progress *)

\* A retry of the implementer is one attempt further, and inside the budget.
LEMMA RetryCounts ==
  ASSUME TypeInv, Implement, next' = "implement"
  PROVE  st.attempt < MaxTestFixes /\ st'.attempt = st.attempt + 1
<1>0. st \in Channels /\ DbUp \subseteq BOOLEAN /\ Batch \in Batches
  <2>1. next \in LoopNodes
    BY DEF Implement, ImplementWaived, BaselineUnmeasurable, ImplementRefusesBranch,
           ImplementerStops, ImplementerFails, GateFails, ImplementDone, LoopNodes
  <2> QED
    BY <2>1, BatchType DEF TypeInv, TypeOK, DbUp
<1>1. ASSUME NEW s, NEW r, NEW reason, Escalate(s, r, reason) PROVE next' \in {"escalate"}
  BY <1>1 DEF Escalate, Step, Route
<1>2. ASSUME NEW s, NEW r, Step(s, r, "code_review") PROVE FALSE
  BY <1>2 DEF Step, Route
<1>3. PICK db \in BOOLEAN, r \in Implemented, reason \in {"generic", "tests"} :
        RetryOrEscalate(BasedState(Captured(db)), r, reason)
  <2>1. ~ImplementWaived
    BY <1>2 DEF ImplementWaived
  <2>2. ~BaselineUnmeasurable /\ ~ImplementRefusesBranch /\ ~ImplementerStops
    BY <1>1 DEF BaselineUnmeasurable, ImplementRefusesBranch, ImplementerStops
  <2>3. ~ImplementDone
    BY <1>1, <1>2 DEF ImplementDone
  <2>4. ImplementerFails \/ GateFails
    BY <2>1, <2>2, <2>3 DEF Implement
  <2> QED
    BY <1>0, <2>4 DEF ImplementerFails, GateFails
<1> DEFINE s == BasedState(Captured(db))
<1>4. s \in Channels
  BY <1>0, BasedStateType
<1> HIDE DEF s
<1>5. ~(st.attempt + 1 > MaxTestFixes) /\ st' = [s EXCEPT !.attempt = st.attempt + 1]
  BY <1>1, <1>3 DEF RetryOrEscalate, Step, s
<1> QED
  BY <1>0, <1>4, <1>5, BatchLoopAssumption DEF Channels

\* The reviewer sends a batch to a fix with every cycle ahead, a fix uses one up, and
\* a verification sends it back with the cycles it has.
LEMMA CyclesCount ==
  ASSUME TypeInv, Review, next' \in {"code_fix", "code_verify"}
  PROVE  \/ next = "code_review" /\ next' = "code_fix" /\ st'.cycle = 0
         \/ next = "code_fix" /\ next' = "code_verify" /\ st'.cycle = st.cycle + 1
         \/ next = "code_verify" /\ next' = "code_fix" /\ st'.cycle = st.cycle
<1>0. st \in Channels
  BY DEF TypeInv, TypeOK
<1>1. ASSUME NEW s, NEW r, NEW reason, Escalate(s, r, reason) PROVE FALSE
  BY <1>1 DEF Escalate, Step, Route
<1>2. ~ReviewerUntrusted /\ ~ReviewOfNothing /\ ~ReviewMismatch
  BY <1>1 DEF ReviewerUntrusted, ReviewOfNothing, ReviewMismatch
<1>3. CASE ReviewDone
  <2> PICK v \in Verdicts, nm \in BOOLEAN, ob \in BOOLEAN :
        Step(Judged(v, nm, ob), repo, IF nm \/ ob THEN "code_fix" ELSE "close_batch")
    BY <1>3 DEF ReviewDone
  <2>1. next' \in {"escalate", "code_fix", "close_batch"} /\ st' = Judged(v, nm, ob)
    BY DEF Step, Route
  <2>2. st'.cycle = 0
    BY <1>0, <2>1 DEF Judged, Channels
  <2> QED
    BY <1>3, <2>1, <2>2 DEF ReviewDone
<1>4. CASE CodeFix
  <2>1. PICK r \in Edited(repo) : Step([st EXCEPT !.cycle = @ + 1], r, "code_verify")
    BY <1>1, <1>4 DEF CodeFix
  <2>2. next' \in {"escalate", "code_verify"} /\ st' = [st EXCEPT !.cycle = @ + 1]
    BY <2>1 DEF Step, Route
  <2> QED
    BY <1>0, <1>4, <2>2 DEF CodeFix, Channels
<1>5. CASE VerifyNotFixed
  BY <1>1, <1>5 DEF VerifyNotFixed, Step, Route
<1>6. CASE VerifyConfirmed
  BY <1>6 DEF VerifyConfirmed, Step, Route
<1> QED
  BY <1>2, <1>3, <1>4, <1>5, <1>6 DEF Review

\* What is left to do is a number, more of it at the nodes that come first.
LEMMA WorkType ==
  ASSUME TypeInv
  PROVE  /\ Work \in Nat
         /\ next = "implement" => Work > 2 * MaxCycle + 3
         /\ next = "code_review" => Work = 2 * MaxCycle + 3
         /\ next \in {"code_fix", "code_verify"} => Work >= 1
         /\ next \in {"code_fix", "code_verify"} => Work =< 2 * MaxCycle + 2
<1> st.attempt \in 0..MaxTestFixes /\ st.cycle \in 0..MaxCycle
  BY DEF TypeInv, TypeOK, Channels
<1> MaxCycle \in Nat /\ MaxTestFixes \in Nat
  BY MaxCycleType, BatchLoopAssumption
<1> QED
  BY DEF Work

\* Nobody but a human sends a batch round again: a node that does not ask, leave the
\* loop or close the batch leaves fewer attempts, reviews and fixes to do than it found.
THEOREM LoopProgresses == Spec => WorkShrinks
<1> DEFINE Shrinks ==
      \/ next' \in {"escalate", "gates"}
      \/ Work' \in Nat /\ (st'.idx > st.idx \/ (st'.idx = st.idx /\ Work' < Work))
<1>0. TypeInv => Work \in Nat
  BY WorkType
<1>1. ASSUME TypeInv, (Work \in Nat)', Nodes PROVE Shrinks
  <2>0. /\ st \in Channels /\ st.idx \in Nat
        /\ MaxCycle \in Nat /\ MaxTestFixes \in Nat
    BY <1>1, MaxCycleType, BatchLoopAssumption DEF TypeInv, TypeOK, Channels, Origin
  <2>1. Work \in Nat /\ Work' \in Nat
    BY <1>1, WorkType
  <2>2. CASE Implement
    <3>1. next = "implement" /\ st'.idx = st.idx /\ next' \in {"implement", "code_review", "escalate"}
      BY <1>1, <2>2, ImplementStep
         DEF ImplementFrame, Implement, ImplementWaived, BaselineUnmeasurable,
             ImplementRefusesBranch, ImplementerStops, ImplementerFails, GateFails, ImplementDone
    <3>2. CASE next' = "implement"
      <4>1. st'.attempt = st.attempt + 1 /\ st.attempt \in Nat
        BY <1>1, <2>0, <2>2, <3>2, RetryCounts DEF Channels
      <4> QED
        BY <2>0, <2>1, <3>1, <3>2, <4>1 DEF Work
    <3>3. CASE next' = "code_review"
      <4>1. Work' = 2 * MaxCycle + 3
        BY <3>3 DEF Work
      <4> QED
        BY <1>1, <2>0, <2>1, <3>1, <4>1, WorkType
    <3> QED
      BY <3>1, <3>2, <3>3
  <2>3. CASE Review
    <3>1. /\ next \in {"code_review", "code_fix", "code_verify"} /\ st'.idx = st.idx
          /\ next' \in {"code_fix", "code_verify", "close_batch", "escalate"}
      BY <1>1, <2>3, ReviewStep
         DEF ReviewFrame, Review, ReviewerUntrusted, ReviewOfNothing, ReviewMismatch, ReviewDone,
             CodeFix, VerifyNotFixed, VerifyConfirmed
    <3>2. CASE next' = "close_batch"
      <4>1. Work' = 0
        BY <3>2 DEF Work
      <4>2. Work >= 1
        BY <1>1, <2>0, <3>1, WorkType
      <4> QED
        BY <2>1, <3>1, <4>1, <4>2
    <3>3. CASE next' \in {"code_fix", "code_verify"}
      <4>1. st.cycle \in Nat
        BY <2>0 DEF Channels
      <4> QED
        BY <1>1, <2>0, <2>1, <2>3, <3>1, <3>3, <4>1, CyclesCount DEF Work
    <3> QED
      BY <3>1, <3>2, <3>3
  <2>4. CASE Close
    BY <1>1, <2>0, <2>1, <2>4, CloseStep DEF CloseFrame, Batch
  <2>5. CASE NodeException
    BY <2>5 DEF NodeException, Escalate, Step, Route
  <2> QED
    BY <1>1, <2>2, <2>3, <2>4, <2>5 DEF Nodes
<1>2. TypeInv /\ (Work \in Nat)' => [Nodes => Shrinks]_vars
  BY <1>1
<1> QED
  BY <1>0, <1>2, TypeInvariant, PTL DEF Spec, WorkShrinks

-----------------------------------------------------------------------------
(* The loop implements the ledger *)

LEMMA LedgerStart == ASSUME Init PROVE Ledger!LedgerInit
  BY DEF Init, Ledger!LedgerInit, CommittedBatches, Over

\* A node that commits the tree, completed or not, is a Commit or changes nothing.
LEMMA CommitIsLedgerStep ==
  ASSUME TypeInv, next = "close_batch", repo' = CommitTree(repo)
  PROVE  /\ CommittedBatches' \in {CommittedBatches, CommittedBatches \cup {Batch}}
         /\ repo.tree # {} => CommittedBatches' = CommittedBatches \cup {Batch}
<1>1. Batch \in Batches /\ repo \in WorkingCopies
  BY BatchType DEF LoopNodes, TypeInv, TypeOK
<1>2. repo'.shipped = [repo.shipped EXCEPT ![Batch] = @ \cup repo.tree]
  BY <1>1, CommitTreeType
<1> QED
  BY <1>1, <1>2 DEF CommittedBatches, WorkingCopies

LEMMA LedgerStep ==
  ASSUME TypeInv, [Next]_vars
  PROVE  [Ledger!LedgerNext]_(Ledger!ledger)
<1> st.idx \in 0..NBatches /\ Batch = st.idx + 1
  BY DEF TypeInv, TypeOK, Channels, Origin, Batch
<1> USE DEF Ledger!ledger, Over
<1>0. next \in LoopNodes => Over = "no" /\ st.idx < NBatches
  BY DEF LoopNodes, TypeInv, HasBatch
<1>1. CASE Implement
  BY <1>1, ImplementStep DEF ImplementFrame, CommittedBatches, Implement, ImplementWaived,
     BaselineUnmeasurable, ImplementRefusesBranch, ImplementerStops, ImplementerFails,
     GateFails, ImplementDone
<1>2. CASE Review
  BY <1>2, ReviewStep DEF ReviewFrame, CommittedBatches, Review, ReviewerUntrusted,
     ReviewOfNothing, ReviewMismatch, ReviewDone, CodeFix, VerifyNotFixed, VerifyConfirmed
<1>3. CASE Close
  <2>1. next = "close_batch" /\ next \in LoopNodes
    BY <1>3 DEF Close, CloseRefusesBranch, CloseRefuses, CloseBatch, LoopNodes
  <2>2. CASE st'.idx = st.idx /\ next' = "escalate" /\ UNCHANGED repo
    BY <2>1, <2>2 DEF CommittedBatches
  <2>3. CASE /\ st'.idx = Batch /\ repo' = CommitTree(repo) /\ repo.tree # {}
             /\ next' = "escalate" \/ next' = IF Batch < NBatches THEN "implement" ELSE "gates"
    <3>1. Over' \in {"no"} \cup (IF Batch = NBatches THEN {"built"} ELSE {})
      BY <1>0, <2>1, <2>3, BatchLoopAssumption
    <3>2. Over = "no" /\ st.idx < NBatches /\ st'.idx = st.idx + 1
      BY <1>0, <2>1, <2>3
    <3>3. CommittedBatches' = CommittedBatches \cup {st.idx + 1}
      BY <2>1, <2>3, CommitIsLedgerStep
    <3> HIDE DEF Over
    <3> QED
      BY <2>3, <3>1, <3>2, <3>3 DEF Ledger!LedgerNext, Ledger!CloseNext
  <2> QED
    BY <1>3, <2>2, <2>3, CloseStep DEF CloseFrame
<1>4. CASE Human
  <2>1. /\ Over = "no" /\ st'.idx = st.idx /\ CommittedBatches' = CommittedBatches
        /\ Over' \in {"no", "built", "stopped"}
        /\ Over' = "built" => st.idx = NBatches
    BY <1>4, HumanStep DEF HumanFrame, CommittedBatches
  <2> QED
    BY <2>1 DEF Ledger!LedgerNext, Ledger!HandOver, Ledger!Stop
<1>5. CASE NodeException \/ ProcessCrash
  <2>1. /\ next \in LoopNodes /\ st'.idx = st.idx
        /\ next' \in LoopNodes \cup {"escalate"}
    BY <1>5, FailureStep DEF FailureFrame
  <2>2. Over = "no" /\ Over' = "no" /\ st.idx < NBatches
    BY <1>0, <2>1 DEF LoopNodes
  <2>3. CASE repo'.shipped = repo.shipped
    BY <2>1, <2>2, <2>3 DEF CommittedBatches
  <2>4. CASE next = "close_batch" /\ repo' = CommitTree(repo)
    BY <2>1, <2>2, <2>4, CommitIsLedgerStep DEF Ledger!LedgerNext, Ledger!Commit
  <2> QED
    BY <1>5, <2>3, <2>4, FailureStep DEF FailureFrame
<1>6. CASE UNCHANGED vars
  BY <1>6 DEF vars, CommittedBatches
<1> QED
  BY <1>1, <1>2, <1>3, <1>4, <1>5, <1>6 DEF Next, Nodes, Left

\* Seen through its commits and its progress counter the loop is the ledger:
\* batches are committed, closed and handed over in order, one at a time.
THEOREM LoopImplementsLedger == Spec => ImplementsLedger
  BY LedgerStart, LedgerStep, TypeInvariant, PTL
     DEF Spec, ImplementsLedger, Ledger!LedgerSpec
=============================================================================
