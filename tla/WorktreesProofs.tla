--------------------------- MODULE WorktreesProofs ---------------------------
(***************************************************************************)
(* The worktrees for any set of tasks and any number of commits.           *)
(***************************************************************************)
EXTENDS Worktrees, SequenceTheorems, TLAPS

-----------------------------------------------------------------------------
(* What the git calls do to a branch.                                      *)

LEMMA NoBranchType == NoBranch \in Branches /\ NoBranch.own = <<>> /\ NoBranch.base = 0 /\ ~NoBranch.there
BY DEF NoBranch, Branches

LEMMA EmptyRange == Range(<<>>) = {}
BY DEF Range

LEMMA AppendRange ==
  ASSUME NEW s \in Seq(Patches), NEW p \in Patches
  PROVE  Append(s, p) \in Seq(Patches) /\ Range(Append(s, p)) = Range(s) \cup {p}
<1>1. Append(s, p) = s \o <<p>> /\ <<p>> \in Seq(Patches)
  BY AppendIsConcat
<1>2. Range(<<p>>) = {p}
  BY DEF Range
<1>3. s \o <<p>> \in Seq(Patches)
  BY <1>1, ConcatProperties
<1>4. Range(s \o <<p>>) = Range(s) \cup Range(<<p>>)
  BY <1>1, RangeConcatenation
<1> QED
  BY <1>1, <1>2, <1>3, <1>4

LEMMA NewPatchEffect ==
  ASSUME TypeOK, NEW t \in Task, NewPatch(t)
  PROVE  /\ made' \in 0..MaxPatches /\ made' \in Patches /\ made' = made + 1
         /\ edits' \in [Task -> BOOLEAN] /\ late' \subseteq Patches
         /\ late' = IF op[t] \in {"ask", "drop"} THEN late \cup {made'} ELSE late
<1>1. made' \in 0..MaxPatches /\ made' \in Patches /\ made' = made + 1
  BY WorktreesAssumption DEF NewPatch, TypeOK, Patches
<1> QED
  BY <1>1 DEF NewPatch, TypeOK

\* A commit appends a new patch to the branch or to what is picked.
LEMMA CommitEffect ==
  ASSUME TypeOK, NEW t \in Task, Commit(t)
  PROVE  /\ made' \in 0..MaxPatches /\ made' \in Patches /\ made' = made + 1
         /\ edits' \in [Task -> BOOLEAN] /\ late' \subseteq Patches
         /\ branch' \in [Task -> Branches] /\ picked' \in [Task -> Seq(Patches)]
         /\ \A u \in Task \ {t} : branch'[u] = branch[u] /\ picked'[u] = picked[u]
         /\ branch'[t].base = branch[t].base /\ branch'[t].there = branch[t].there
         /\ head[t] = "branch" =>
              picked'[t] = picked[t] /\ Range(branch'[t].own) = Range(branch[t].own) \cup {made'}
         /\ head[t] = "detached" =>
              branch'[t] = branch[t] /\ Range(picked'[t]) = Range(picked[t]) \cup {made'}
         /\ late' = IF op[t] \in {"ask", "drop"} THEN late \cup {made'} ELSE late
<1>1. made' \in 0..MaxPatches /\ made' \in Patches /\ made' = made + 1
  BY NewPatchEffect DEF Commit
<1>2. branch[t].own \in Seq(Patches) /\ picked[t] \in Seq(Patches)
  BY DEF TypeOK, Branches
<1>3. /\ edits' \in [Task -> BOOLEAN] /\ late' \subseteq Patches
      /\ late' = IF op[t] \in {"ask", "drop"} THEN late \cup {made'} ELSE late
  BY NewPatchEffect DEF Commit
<1>4. CASE head[t] = "branch"
  <2>1. branch' = [branch EXCEPT ![t].own = Append(branch[t].own, made')] /\ picked' = picked
    BY <1>4 DEF Commit, TypeOK, Branches
  <2>2. /\ Append(branch[t].own, made') \in Seq(Patches)
        /\ Range(Append(branch[t].own, made')) = Range(branch[t].own) \cup {made'}
    BY <1>1, <1>2, AppendRange
  <2>3. branch \in [Task -> Branches] /\ picked \in [Task -> Seq(Patches)]
    BY DEF TypeOK
  <2>4. /\ branch' \in [Task -> Branches]
        /\ \A u \in Task \ {t} : branch'[u] = branch[u]
        /\ branch'[t].base = branch[t].base /\ branch'[t].there = branch[t].there
        /\ branch'[t].own = Append(branch[t].own, made')
    BY <2>1, <2>2, <2>3 DEF Branches
  <2> QED
    BY <2>1, <2>2, <2>3, <2>4, <1>1, <1>3, <1>4
<1>5. CASE head[t] = "detached"
  <2>1. picked' = [picked EXCEPT ![t] = Append(@, made')] /\ branch' = branch
    BY <1>5 DEF Commit
  <2> QED
    BY <2>1, <1>1, <1>2, <1>3, <1>5, AppendRange DEF TypeOK
<1> QED
  BY <1>4, <1>5 DEF TypeOK

LEMMA RebaseEffect ==
  ASSUME TypeOK, NEW t \in Task, Rebases(t)
  PROVE  /\ branch' \in [Task -> Branches]
         /\ \A u \in Task \ {t} : branch'[u] = branch[u]
         /\ branch'[t].there = branch[t].there /\ branch'[t].base = Len(main) /\ branch'[t].own = branch[t].own
<1>1. Len(main) \in Nat /\ branch \in [Task -> Branches]
  BY LenProperties DEF TypeOK
<1> QED
  BY <1>1 DEF Rebases, Branches

\* A land that merges: what the branch has is on main, and it is at main.
LEMMA MergeEffect ==
  ASSUME TypeOK, NEW t \in Task, main' = main \o branch[t].own,
         branch' = [branch EXCEPT ![t].base = Len(main'), ![t].own = <<>>]
  PROVE  /\ main' \in Seq(Patches) /\ Len(main) <= Len(main')
         /\ \A i \in 1..Len(main) : main'[i] = main[i]
         /\ Range(main') = Range(main) \cup Range(branch[t].own)
         /\ branch' \in [Task -> Branches]
         /\ \A u \in Task \ {t} : branch'[u] = branch[u]
         /\ branch'[t].there = branch[t].there /\ branch'[t].base = Len(main') /\ branch'[t].own = <<>>
<1>1. branch[t].own \in Seq(Patches) /\ main \in Seq(Patches)
  BY DEF TypeOK, Branches
<1>2. /\ main' \in Seq(Patches) /\ Len(main') = Len(main) + Len(branch[t].own)
      /\ \A i \in 1..Len(main) : main'[i] = main[i]
  BY <1>1, ConcatProperties, LenProperties
<1>3. Range(main') = Range(main) \cup Range(branch[t].own)
  BY <1>1, RangeConcatenation
<1>4. Len(main') \in Nat /\ Len(main) <= Len(main')
  BY <1>1, <1>2, LenProperties
<1>5. <<>> \in Seq(Patches) /\ branch \in [Task -> Branches]
  BY DEF TypeOK
<1>6. /\ branch' \in [Task -> Branches]
      /\ \A u \in Task \ {t} : branch'[u] = branch[u]
      /\ branch'[t].there = branch[t].there /\ branch'[t].base = Len(main') /\ branch'[t].own = <<>>
  BY <1>4, <1>5 DEF Branches
<1> QED
  BY <1>2, <1>3, <1>4, <1>6

\* A rebase that is continued: what was picked, then what the branch had.
LEMMA ContinueEffect ==
  ASSUME TypeOK, NEW t \in Task, Continue(t)
  PROVE  /\ branch' \in [Task -> Branches]
         /\ \A u \in Task \ {t} : branch'[u] = branch[u]
         /\ branch'[t].there = branch[t].there /\ branch'[t].base = onto[t]
         /\ Range(branch'[t].own) = Range(picked[t]) \cup Range(saved[t].own)
<1>1. picked[t] \in Seq(Patches) /\ saved[t].own \in Seq(Patches) /\ onto[t] \in Nat
  BY DEF TypeOK, Branches
<1>2. picked[t] \o saved[t].own \in Seq(Patches)
  BY <1>1, ConcatProperties
<1>3. Range(picked[t] \o saved[t].own) = Range(picked[t]) \cup Range(saved[t].own)
  BY <1>1, RangeConcatenation
<1>4. branch \in [Task -> Branches]
  BY DEF TypeOK
<1> QED
  BY <1>1, <1>2, <1>3, <1>4 DEF Continue, Branches

\* init in a worktree whose rebase has stopped: the branch is what HEAD has.
LEMMA CheckoutEffect ==
  ASSUME TypeOK, NEW t \in Task, NEW own \in Seq(Patches), Checkout(t, own)
  PROVE  /\ branch' \in [Task -> Branches] /\ picked' \in [Task -> Seq(Patches)]
         /\ head' \in [Task -> {"branch", "detached"}]
         /\ \A u \in Task \ {t} : branch'[u] = branch[u] /\ picked'[u] = picked[u] /\ head'[u] = head[u]
         /\ branch'[t].there = branch[t].there /\ branch'[t].base = onto[t]
         /\ branch'[t].own = own /\ picked'[t] = <<>> /\ head'[t] = "branch"
<1>1. branch \in [Task -> Branches] /\ onto[t] \in Nat /\ <<>> \in Seq(Patches)
  BY DEF TypeOK
<1>2. /\ branch' \in [Task -> Branches]
      /\ \A u \in Task \ {t} : branch'[u] = branch[u]
      /\ branch'[t].there = branch[t].there /\ branch'[t].base = onto[t] /\ branch'[t].own = own
  BY <1>1 DEF Checkout, Branches
<1> QED
  BY <1>1, <1>2 DEF Checkout, TypeOK

\* What HEAD has then: what was picked, with a commit of the dirty tree.
LEMMA InitCases ==
  ASSUME TypeOK, NEW t \in Task, InitNode(t)
  PROVE  \/ Commit(t) /\ UNCHANGED head
         \/ NoCommit /\ UNCHANGED head
         \/ /\ head[t] = "detached" /\ UNCHANGED <<made, edits, late>>
            /\ picked[t] \in Seq(Patches) /\ Checkout(t, picked[t])
         \/ /\ head[t] = "detached" /\ NewPatch(t) /\ made' \in Patches
            /\ \E own \in Seq(Patches) :
                 Checkout(t, own) /\ Range(own) = Range(picked[t]) \cup {made'}
<1>1. picked[t] \in Seq(Patches)
  BY DEF TypeOK
<1>2. CASE head[t] = "detached" /\ NewPatch(t) /\ Checkout(t, Append(picked[t], made'))
  BY <1>1, <1>2, NewPatchEffect, AppendRange
<1> QED
  BY <1>1, <1>2 DEF InitNode

LEMMA MainMovesEffect ==
  ASSUME TypeOK, MainMoves
  PROVE  /\ made' \in 0..MaxPatches /\ made' \in Patches /\ made' = made + 1
         /\ main' \in Seq(Patches) /\ Len(main') = Len(main) + 1
         /\ \A i \in 1..Len(main) : main'[i] = main[i]
         /\ Range(main') = Range(main) \cup {made'}
<1>1. made' \in 0..MaxPatches /\ made' \in Patches /\ made' = made + 1
  BY WorktreesAssumption DEF MainMoves, TypeOK, Patches
<1> QED
  BY <1>1, AppendProperties, AppendRange DEF MainMoves, TypeOK

-----------------------------------------------------------------------------
(* Types.                                                                  *)

LEMMA TypeInit == Init => TypeOK
<1> SUFFICES ASSUME Init PROVE TypeOK
  OBVIOUS
<1>1. main \in Seq(Patches) /\ Len(main) = 0 /\ <<>> \in Seq(Patches)
  BY DEF Init
<1>2. made \in 0..MaxPatches
  BY WorktreesAssumption DEF Init
<1>3. branch \in [Task -> Branches] /\ saved \in [Task -> Branches]
  BY NoBranchType DEF Init
<1>4. \A t \in Task : branch[t].base = 0 /\ saved[t].base = 0
  BY NoBranchType DEF Init
<1> QED
  BY <1>1, <1>2, <1>3, <1>4 DEF Init, TypeOK

LEMMA RangeType == ASSUME TypeOK, NEW t \in Task
                   PROVE  Range(branch[t].own) \subseteq Patches /\ InTree(t) \subseteq Patches
BY RangeOfSeq DEF TypeOK, Branches, InTree

LEMMA TypeStep == TypeOK /\ [Next]_vars => TypeOK'
<1> SUFFICES ASSUME TypeOK, [Next]_vars PROVE TypeOK'
  OBVIOUS
<1>0. Len(main) \in Nat /\ Len(main) <= Len(main)
  BY LenProperties DEF TypeOK
<1>a. \A u \in Task : /\ branch[u].base \in Nat /\ branch[u].base <= Len(main)
                     /\ saved[u].base \in Nat /\ saved[u].base <= Len(main)
                     /\ onto[u] \in Nat /\ onto[u] <= Len(main)
  BY DEF TypeOK, Branches
<1> DEFINE Ops == {"idle", "merge", "ask", "drop", "discard", "refused", "cut"}
<1> USE DEF repo, command, fate
<1>1. ASSUME NEW t \in Task, Start(t) PROVE TypeOK'
  <2>1. CASE UNCHANGED repo
    BY <1>1, <2>1 DEF Start, Begins, Goes, TypeOK
  <2>2. CASE Create(t)
    <3>1. [there |-> TRUE, base |-> Len(main), own |-> <<>>] \in Branches
      BY <1>0 DEF Branches
    <3> QED
      BY <1>0, <1>1, <2>2, <3>1 DEF Start, Create, Begins, Goes, TypeOK
  <2> QED
    BY <1>1, <2>1, <2>2 DEF Start
<1>2. ASSUME NEW t \in Task, InitNode(t) PROVE TypeOK'
  <2>0. UNCHANGED <<main, tree, stopped, onto, saved, command, givenUp>> /\ Goes(t, "plan")
    BY <1>2 DEF InitNode
  <2>1. CASE Commit(t) /\ UNCHANGED head
    BY <2>0, <2>1, CommitEffect DEF Goes, TypeOK
  <2>2. CASE NoCommit /\ UNCHANGED head
    BY <2>0, <2>2 DEF Goes, NoCommit, TypeOK
  <2>3. ASSUME NEW own \in Seq(Patches), Checkout(t, own)
        PROVE  /\ branch' \in [Task -> Branches] /\ picked' \in [Task -> Seq(Patches)]
               /\ head' \in [Task -> {"branch", "detached"}]
               /\ \A u \in Task : branch'[u].base <= Len(main) /\ (head'[u] = "detached" => stopped[u])
    BY <2>3, <1>a, CheckoutEffect DEF TypeOK
  <2>4. CASE \E own \in Seq(Patches) : Checkout(t, own) /\ UNCHANGED <<made, edits, late>>
    BY <2>0, <2>3, <2>4 DEF Goes, TypeOK
  <2>5. CASE \E own \in Seq(Patches) : Checkout(t, own) /\ NewPatch(t)
    BY <2>0, <2>3, <2>5, NewPatchEffect DEF Goes, TypeOK
  <2> QED
    BY <1>2, <2>1, <2>2, <2>4, <2>5, InitCases
<1>3. ASSUME NEW t \in Task, BeginBatch(t) PROVE TypeOK'
  BY <1>3, CommitEffect DEF BeginBatch, NoCommit, Goes, KeepsRest, TypeOK
<1>4. ASSUME NEW t \in Task, Edit(t) PROVE TypeOK'
  BY <1>4 DEF Edit, TypeOK
<1>5. ASSUME NEW t \in Task, CloseBatch(t) PROVE TypeOK'
  <2>1. phase' \in [Task -> {"new", "plan", "batch", "gates"}]
    BY <1>5 DEF CloseBatch, Goes, TypeOK
  <2> QED
    BY <1>5, <2>1, CommitEffect DEF CloseBatch, KeepsRest, TypeOK
<1>6. ASSUME NEW t \in Task, FinalFix(t) PROVE TypeOK'
  BY <1>6, CommitEffect DEF FinalFix, KeepsRest, TypeOK
<1>7. ASSUME NEW t \in Task, Rebases(t), UNCHANGED <<main, made, phase, fate>>,
             op' \in [Task -> Ops], syncing' \subseteq Task
      PROVE  TypeOK'
  <2>1. /\ \A u \in Task \ {t} : branch'[u] = branch[u]
        /\ branch'[t].base = Len(main)
    BY <1>7, RebaseEffect
  <2>2. \A u \in Task : branch'[u].base <= Len(main')
    BY <1>0, <1>a, <1>7, <2>1
  <2> QED
    BY <1>7, <2>2, RebaseEffect DEF Rebases, TypeOK
<1>8. ASSUME NEW t \in Task, Conflicts(t), UNCHANGED <<main, made, phase, fate>>,
             op' \in [Task -> Ops], syncing' \subseteq Task
      PROVE  TypeOK'
  BY <1>0, <1>8 DEF Conflicts, TypeOK
<1>9. ASSUME NEW t \in Task, LandRebase(t) PROVE TypeOK'
  <2>1. op' \in [Task -> Ops] /\ syncing' \subseteq Task
    BY <1>9 DEF LandRebase, TypeOK
  <2> QED
    BY <1>7, <1>8, <1>9, <2>1 DEF LandRebase
<1>10. ASSUME NEW t \in Task, LandMerge(t) PROVE TypeOK'
  <2>0. op' \in [Task -> Ops]
    BY <1>10 DEF LandMerge, TypeOK
  <2>1. CASE UNCHANGED <<main, branch>>
    BY <1>10, <2>0, <2>1 DEF LandMerge, TypeOK
  <2>2. CASE main' = main \o branch[t].own /\ branch' = [branch EXCEPT ![t].base = Len(main'), ![t].own = <<>>]
    <3>1. Len(main') \in Nat /\ Len(main) <= Len(main')
      BY <2>2, MergeEffect, LenProperties
    <3>2. (\A u \in Task \ {t} : branch'[u] = branch[u]) /\ branch'[t].base = Len(main')
      BY <2>2, MergeEffect
    <3>3. \A u \in Task : branch'[u].base <= Len(main') /\ saved[u].base <= Len(main') /\ onto[u] <= Len(main')
      BY <1>0, <1>a, <3>1, <3>2
    <3>4. main' \in Seq(Patches) /\ branch' \in [Task -> Branches]
      BY <2>2, MergeEffect
    <3> QED
      BY <1>10, <2>0, <3>3, <3>4 DEF LandMerge, TypeOK
  <2> QED
    BY <1>10, <2>1, <2>2 DEF LandMerge
<1>11. ASSUME NEW t \in Task, KeepTree(t) PROVE TypeOK'
  BY <1>11 DEF KeepTree, Stays, TypeOK
<1>12. ASSUME NEW t \in Task, NEW to \in {"none", "gone", "husk"}, TreeGoes(t, to), UNCHANGED <<main, made, syncing>>,
             op' \in [Task -> Ops],
             late' \subseteq Patches, givenUp' \subseteq Patches
      PROVE  TypeOK'
  <2>1. <<>> \in Seq(Patches) /\ NoBranch \in Branches /\ NoBranch.base <= Len(main)
    BY <1>0, NoBranchType
  <2>2. saved' \in [Task -> Branches] /\ \A u \in Task : saved'[u].base <= Len(main')
    BY <1>12, <2>1 DEF TreeGoes, TypeOK
  <2> QED
    BY <1>0, <1>12, <2>1, <2>2 DEF TreeGoes, Goes, TypeOK
<1>13. ASSUME NEW t \in Task, RemoveTree(t) PROVE TypeOK'
  <2>1. op' \in [Task -> Ops]
    BY <1>13 DEF RemoveTree, BeginRemoval, TypeOK
  <2>2. late' \subseteq Patches /\ givenUp' \subseteq Patches
    BY <1>13, RangeType DEF RemoveTree, BeginRemoval, TypeOK
  <2> QED
    BY <1>12, <1>13, <2>1, <2>2 DEF RemoveTree, BeginRemoval
<1>23. ASSUME NEW t \in Task, RemovalRefused(t) PROVE TypeOK'
  <2>1. late' \subseteq late
    BY <1>23 DEF RemovalRefused, Stays
  <2> QED
    BY <1>23, <2>1 DEF RemovalRefused, TypeOK
<1>14. ASSUME NEW t \in Task, DeleteBranch(t) PROVE TypeOK'
  <2>1. NoBranch \in Branches /\ NoBranch.base <= Len(main)
    BY <1>0, NoBranchType
  <2> QED
    BY <1>14, <2>1 DEF DeleteBranch, TypeOK
<1>15. ASSUME NEW t \in Task, Interrupt(t) PROVE TypeOK'
  BY <1>15 DEF Interrupt, TypeOK
<1>16. ASSUME NEW t \in Task, SyncNext(t) PROVE TypeOK'
  <2>1. CASE Rebases(t)
    BY <1>7, <1>16, <2>1 DEF SyncNext, TypeOK
  <2>2. CASE Conflicts(t)
    BY <1>8, <1>16, <2>2 DEF SyncNext, TypeOK
  <2>3. CASE Refuses(t)
    BY <1>16, <2>3 DEF SyncNext, Refuses, TypeOK
  <2> QED
    BY <1>16, <2>1, <2>2, <2>3 DEF SyncNext
<1>17. ASSUME NEW t \in Task, Continue(t) PROVE TypeOK'
  <2>1. <<>> \in Seq(Patches) /\ NoBranch \in Branches /\ NoBranch.base <= Len(main)
    BY <1>0, NoBranchType
  <2>2. saved' \in [Task -> Branches] /\ \A u \in Task : saved'[u].base <= Len(main')
    BY <1>17, <2>1 DEF Continue, TypeOK
  <2>3. \A u \in Task : branch'[u].base <= Len(main')
    BY <1>17, <1>a, ContinueEffect DEF Continue
  <2>4. /\ head' \in [Task -> {"branch", "detached"}] /\ edits' \in [Task -> BOOLEAN]
        /\ stopped' \in [Task -> BOOLEAN] /\ \A u \in Task : head'[u] = "detached" => stopped'[u]
        /\ picked' \in [Task -> Seq(Patches)]
    BY <1>17, <2>1 DEF Continue, TypeOK
  <2>5. onto' \in [Task -> Nat] /\ \A u \in Task : onto'[u] <= Len(main')
    BY <1>0, <1>17 DEF Continue, TypeOK
  <2>6. branch' \in [Task -> Branches]
    BY <1>17, ContinueEffect
  <2> QED
    BY <1>17, <2>2, <2>3, <2>4, <2>5, <2>6 DEF Continue, TypeOK
<1>18. ASSUME NEW t \in Task, Abort(t) PROVE TypeOK'
  <2>1. <<>> \in Seq(Patches) /\ NoBranch \in Branches /\ NoBranch.base <= Len(main)
    BY <1>0, NoBranchType
  <2>2. saved' \in [Task -> Branches] /\ \A u \in Task : saved'[u].base <= Len(main')
    BY <1>18, <2>1 DEF Abort, TypeOK
  <2>3. /\ Range(branch[t].own) \subseteq Patches /\ Range(picked[t]) \subseteq Patches
        /\ Range(saved[t].own) \subseteq Patches
    BY RangeType DEF InTree
  <2>4. branch' \in [Task -> Branches] /\ \A u \in Task : branch'[u].base <= Len(main')
    <3>1. CASE branch' = branch
      BY <1>18, <1>a, <3>1 DEF Abort, TypeOK
    <3>2. CASE branch' = [branch EXCEPT ![t] = saved[t]]
      BY <1>18, <1>a, <3>2 DEF Abort, TypeOK
    <3> QED
      BY <1>18, <3>1, <3>2 DEF Abort
  <2>5. late' \subseteq Patches /\ givenUp' \subseteq Patches
    BY <1>18, <2>3 DEF Abort, TypeOK
  <2> QED
    BY <1>0, <1>18, <2>1, <2>2, <2>4, <2>5 DEF Abort, TypeOK
<1>19. ASSUME NEW t \in Task, DeleteByHand(t) PROVE TypeOK'
  BY <1>12, <1>19, RangeType DEF DeleteByHand, TypeOK
<1>20. CASE SyncBegin
  BY <1>20 DEF SyncBegin, TypeOK
<1>21. CASE MainMoves
  <2>1. \A u \in Task : branch[u].base <= Len(main') /\ saved[u].base <= Len(main') /\ onto[u] <= Len(main')
    <3>1. Len(main') = Len(main) + 1
      BY <1>21, MainMovesEffect
    <3> QED
      BY <1>0, <1>a, <3>1
  <2>2. made' \in 0..MaxPatches /\ main' \in Seq(Patches)
    BY <1>21, MainMovesEffect
  <2> QED
    BY <1>21, <2>1, <2>2 DEF MainMoves, TypeOK
<1>22. CASE UNCHANGED vars
  BY <1>22 DEF vars, TypeOK
<1> QED
  BY <1>1, <1>2, <1>3, <1>4, <1>5, <1>6, <1>9, <1>10, <1>11, <1>13, <1>14, <1>15, <1>16, <1>17, <1>18, <1>19, <1>20, <1>21, <1>22, <1>23
  DEF Next, Drives, Operates

\* The state stays in its types: a branch is based on a commit of main.
THEOREM TypeCorrect == Spec => []TypeOK
BY TypeInit, TypeStep, PTL DEF Spec

-----------------------------------------------------------------------------
(* main.                                                                   *)

\* main loses no commit and none of its commits is replaced, whoever does what when.
THEOREM MainIsKept == Spec => MainOnlyGrows
<1> DEFINE Grows == Len(main) <= Len(main') /\ \A i \in 1..Len(main) : main'[i] = main[i]
<1>1. TypeOK /\ [Next]_vars => Grows \/ UNCHANGED main
  <2> SUFFICES ASSUME TypeOK, [Next]_vars, main' # main PROVE Grows
    OBVIOUS
  <2>0. Len(main) \in Nat
    BY LenProperties DEF TypeOK
  <2>1. MainMoves \/ \E t \in Task : LandMerge(t)
    BY DEF Next, Drives, Operates, SyncBegin, Start, Begins, InitNode, BeginBatch, Edit, CloseBatch, FinalFix, KeepsRest,
       LandRebase, KeepTree, RemoveTree, BeginRemoval, RemovalRefused, DeleteBranch, Interrupt, SyncNext, Continue, Abort, DeleteByHand, vars
  <2>2. CASE MainMoves
    BY <2>0, <2>2, MainMovesEffect
  <2>3. ASSUME NEW t \in Task, LandMerge(t) PROVE Grows
    BY <2>3, MergeEffect DEF LandMerge
  <2> QED
    BY <2>1, <2>2, <2>3
<1> QED
  BY TypeInit, TypeStep, <1>1, PTL DEF Spec, MainOnlyGrows

-----------------------------------------------------------------------------
(* Branches and worktrees.                                                 *)

\* A worktree has its branch, a command in progress has its branch, and a removal has no
\* worktree left unless git refused it; what a rebase has put aside is a branch.
Lives(t) ==
  /\ Listed(t) => branch[t].there
  /\ op[t] # "idle" => branch[t].there
  /\ op[t] \in {"drop", "discard", "cut"} => ~Listed(t)
  /\ op[t] = "refused" => Listed(t)
  /\ branch[t].there /\ ~Listed(t) => op[t] \in {"drop", "discard", "cut"}
  /\ stopped[t] => saved[t].there /\ tree[t] = "here"

LifeInv == \A t \in Task : Lives(t)

LEMMA LifeInit == Init => LifeInv
BY NoBranchType DEF Init, LifeInv, Lives, Listed

LEMMA LifeStep == TypeOK /\ LifeInv /\ [Next]_vars => LifeInv'
<1> SUFFICES ASSUME TypeOK, LifeInv, [Next]_vars, NEW u \in Task PROVE Lives(u)'
  BY DEF LifeInv
<1>0. Lives(u)
  BY DEF LifeInv
<1> USE DEF repo, command, fate
<1>a. ASSUME NEW t \in Task, UNCHANGED <<tree, op, stopped, saved>>, branch'[u].there = branch[u].there
      PROVE  Lives(u)'
  BY <1>0, <1>a DEF Lives, Listed
<1>1. ASSUME NEW t \in Task, Start(t) PROVE Lives(u)'
  <2>1. CASE UNCHANGED repo
    BY <1>1, <2>1, <1>a DEF Start, Begins
  <2>2. CASE ~branch[t].there /\ tree[t] = "none" /\ Create(t)
    BY <1>1, <2>2, <1>0 DEF Start, Begins, Create, Lives, Listed, TypeOK, Branches
  <2> QED
    BY <1>1, <2>1, <2>2 DEF Start
<1>2. ASSUME NEW t \in Task, InitNode(t) PROVE Lives(u)'
  <2>1. Commit(t) \/ NoCommit => branch'[u].there = branch[u].there
    BY CommitEffect DEF NoCommit
  <2>2. ASSUME NEW own \in Seq(Patches), Checkout(t, own) PROVE branch'[u].there = branch[u].there
    BY <2>2, CheckoutEffect
  <2>3. branch'[u].there = branch[u].there
    BY <1>2, <2>1, <2>2, InitCases
  <2> QED
    BY <1>2, <2>3, <1>0 DEF InitNode, Lives, Listed
<1>3. ASSUME NEW t \in Task, BeginBatch(t) PROVE Lives(u)'
  <2>1. branch'[u].there = branch[u].there
    BY <1>3, CommitEffect DEF BeginBatch, NoCommit, KeepsRest
  <2> QED
    BY <1>3, <2>1, <1>a DEF BeginBatch, NoCommit, KeepsRest
<1>4. ASSUME NEW t \in Task, CloseBatch(t) PROVE Lives(u)'
  <2>1. branch'[u].there = branch[u].there
    BY <1>4, CommitEffect DEF CloseBatch, KeepsRest
  <2> QED
    BY <1>4, <2>1, <1>a DEF CloseBatch, KeepsRest
<1>5. ASSUME NEW t \in Task, FinalFix(t) PROVE Lives(u)'
  <2>1. branch'[u].there = branch[u].there
    BY <1>5, CommitEffect DEF FinalFix, KeepsRest
  <2> QED
    BY <1>5, <2>1, <1>a DEF FinalFix, KeepsRest
<1>6. ASSUME NEW t \in Task, Edit(t) PROVE Lives(u)'
  BY <1>6, <1>a DEF Edit
<1>7. ASSUME NEW t \in Task, LandRebase(t) PROVE Lives(u)'
  <2>1. CASE Rebases(t)
    <3>1. branch'[u].there = branch[u].there
      BY <2>1, RebaseEffect
    <3> QED
      BY <1>7, <2>1, <3>1, <1>0 DEF LandRebase, Rebases, Lives, Listed, TypeOK
  <2>2. CASE Conflicts(t)
    BY <1>7, <2>2, <1>0 DEF LandRebase, Conflicts, CanRebase, Lives, Listed, TypeOK
  <2> QED
    BY <1>7, <2>1, <2>2 DEF LandRebase
<1>8. ASSUME NEW t \in Task, LandMerge(t) PROVE Lives(u)'
  <2>1. branch'[u].there = branch[u].there
    BY <1>8, MergeEffect DEF LandMerge
  <2> QED
    BY <1>8, <2>1, <1>0 DEF LandMerge, Lives, Listed, TypeOK
<1>9. ASSUME NEW t \in Task, KeepTree(t) PROVE Lives(u)'
  BY <1>9, <1>0 DEF KeepTree, Lives, Listed, TypeOK
<1>10. ASSUME NEW t \in Task, RemoveTree(t) PROVE Lives(u)'
  BY <1>10, <1>0 DEF RemoveTree, BeginRemoval, TreeGoes, Lives, Listed, TypeOK
<1>20. ASSUME NEW t \in Task, RemovalRefused(t) PROVE Lives(u)'
  BY <1>20, <1>0 DEF RemovalRefused, Lives, Listed, TypeOK
<1>11. ASSUME NEW t \in Task, DeleteBranch(t) PROVE Lives(u)'
  BY <1>11, <1>0, NoBranchType DEF DeleteBranch, Lives, Listed, TypeOK
<1>12. ASSUME NEW t \in Task, Interrupt(t) PROVE Lives(u)'
  BY <1>12, <1>0 DEF Interrupt, Lives, Listed, TypeOK
<1>13. ASSUME NEW t \in Task, SyncNext(t) PROVE Lives(u)'
  <2>1. CASE Rebases(t)
    <3>1. branch'[u].there = branch[u].there
      BY <2>1, RebaseEffect
    <3> QED
      BY <1>13, <2>1, <3>1, <1>a DEF SyncNext, Rebases
  <2>2. CASE Conflicts(t)
    BY <1>13, <2>2, <1>0 DEF SyncNext, Conflicts, CanRebase, Lives, Listed, TypeOK
  <2>3. CASE Refuses(t)
    BY <1>13, <2>3, <1>a DEF SyncNext, Refuses
  <2> QED
    BY <1>13, <2>1, <2>2, <2>3 DEF SyncNext
<1>14. ASSUME NEW t \in Task, Continue(t) PROVE Lives(u)'
  <2>1. branch'[u].there = branch[u].there
    BY <1>14, ContinueEffect
  <2> QED
    BY <1>14, <2>1, <1>0 DEF Continue, Lives, Listed, TypeOK
<1>15. ASSUME NEW t \in Task, Abort(t) PROVE Lives(u)'
  <2>1. stopped[t] /\ tree[t] = "here" /\ branch[t].there /\ saved[t].there
    BY <1>15 DEF Abort, LifeInv, Lives, Listed
  <2>2. branch'[u] = branch[u] \/ (u = t /\ branch'[u] = saved[u])
    BY <1>15 DEF Abort, TypeOK
  <2>3. UNCHANGED <<tree, op>> /\ saved' = [saved EXCEPT ![t] = NoBranch] /\ stopped' = [stopped EXCEPT ![t] = FALSE]
    BY <1>15 DEF Abort
  <2> QED
    BY <2>1, <2>2, <2>3, <1>0 DEF Lives, Listed, TypeOK
<1>16. ASSUME NEW t \in Task, DeleteByHand(t) PROVE Lives(u)'
  BY <1>16, <1>0 DEF DeleteByHand, TreeGoes, Lives, Listed, TypeOK
<1>17. CASE SyncBegin
  BY <1>17, <1>0 DEF SyncBegin, Lives, Listed
<1>18. CASE MainMoves
  BY <1>18, <1>0 DEF MainMoves, Lives, Listed
<1>19. CASE UNCHANGED vars
  BY <1>19, <1>0 DEF vars, Lives, Listed
<1> QED
  BY <1>1, <1>2, <1>3, <1>4, <1>5, <1>6, <1>7, <1>8, <1>9, <1>10, <1>11, <1>12, <1>13, <1>14, <1>15, <1>16, <1>17, <1>18, <1>19, <1>20
  DEF Next, Drives, Operates

\* A worktree always has its branch; a branch without one is being removed, or its
\* removal was interrupted.
THEOREM TreesHaveBranches == Spec => []BranchHasTree
<1>1. TypeOK /\ LifeInv => BranchHasTree
  BY DEF LifeInv, Lives, Listed, BranchHasTree
<1> QED
  BY TypeInit, TypeStep, LifeInit, LifeStep, <1>1, PTL DEF Spec

\* A removal that is not interrupted takes both the worktree and the branch, or neither
\* when git refuses it.
THEOREM RemovalsAreWhole == Spec => RemovalIsWhole
<1> DEFINE Whole ==
      \A t \in Task : op[t] \in {"drop", "discard", "refused"} /\ op'[t] = "idle"
        => IF op[t] = "refused" THEN Listed(t)' /\ branch'[t].there
                                ELSE ~Listed(t)' /\ ~branch'[t].there
<1>1. TypeOK /\ LifeInv /\ [Next]_vars => Whole \/ UNCHANGED op
  <2> SUFFICES ASSUME TypeOK, LifeInv, [Next]_vars, NEW u \in Task,
                      op[u] \in {"drop", "discard", "refused"}, op'[u] = "idle"
               PROVE  IF op[u] = "refused" THEN Listed(u)' /\ branch'[u].there
                                           ELSE ~Listed(u)' /\ ~branch'[u].there
    OBVIOUS
  <2>1. PICK t \in Task : LandRebase(t) \/ LandMerge(t) \/ KeepTree(t) \/ RemoveTree(t) \/ RemovalRefused(t)
                          \/ DeleteBranch(t) \/ Interrupt(t)
    BY DEF Next, Drives, Operates, SyncBegin, MainMoves, command, Start, Begins, InitNode, BeginBatch, Edit, CloseBatch,
       FinalFix, KeepsRest, SyncNext, Continue, Abort, DeleteByHand, vars
  <2>2. DeleteBranch(u) \/ (op[u] = "refused" /\ UNCHANGED <<tree, branch>>)
    BY <2>1 DEF LandRebase, LandMerge, KeepTree, RemoveTree, BeginRemoval, RemovalRefused, DeleteBranch, Interrupt, repo, TypeOK
  <2> QED
    BY <2>2, NoBranchType DEF DeleteBranch, LifeInv, Lives, Listed, TypeOK
<1> QED
  BY TypeInit, TypeStep, LifeInit, LifeStep, <1>1, PTL DEF Spec, RemovalIsWhole

-----------------------------------------------------------------------------
(* Patches.                                                                *)

Own(t) == Range(branch[t].own)
Pick(t) == Range(picked[t])
Save(t) == Range(saved[t].own)
Mine(t) == Own(t) \cup Pick(t) \cup Save(t)

\* A patch has a task of its own until it is on main, late or given up.
Sorted ==
  /\ \A t \in Task : Mine(t) \subseteq 1..made
  /\ \A t, u \in Task : t # u => Mine(t) \cap Mine(u) = {}
  /\ \A p \in 1..made : p \in Range(main) \cup late \cup givenUp \/ \E t \in Task : p \in Mine(t)

\* While HEAD is detached the branch is what the rebase has put aside, and is not at main.
Apart(t) ==
  /\ head[t] = "branch" => Pick(t) = {}
  /\ ~stopped[t] => Save(t) = {}
  /\ head[t] = "detached" => branch[t] = saved[t] /\ branch[t].own # <<>> /\ branch[t].base < Len(main)
  /\ ~branch[t].there => Own(t) = {}

\* After the merge of a land what the worktree has is late; what a remove deletes is
\* given up.
Judged(t) ==
  /\ op[t] \in {"ask", "drop"} => Own(t) \subseteq late /\ Pick(t) \subseteq late
  /\ op[t] = "discard" => Own(t) \subseteq givenUp

PatchInv == Sorted /\ \A t \in Task : Apart(t) /\ Judged(t)

\* A step of one task that makes no patch.
LEMMA CarriedOver ==
  ASSUME TypeOK, Sorted, NEW t \in Task, made' = made,
         \A u \in Task \ {t} : Mine(u)' = Mine(u),
         Mine(t)' \subseteq Mine(t),
         Mine(t) \subseteq Mine(t)' \cup Range(main') \cup late' \cup givenUp',
         Range(main) \subseteq Range(main'), givenUp \subseteq givenUp', late \subseteq late' \cup Mine(t)'
  PROVE  Sorted'
<1>1. \A u \in Task : Mine(u)' \subseteq Mine(u)
  OBVIOUS
<1>2. \A u \in Task : Mine(u)' \subseteq 1..made'
  BY <1>1 DEF Sorted
<1>3. \A v, u \in Task : v # u => Mine(v)' \cap Mine(u)' = {}
  BY <1>1 DEF Sorted
<1>4. ASSUME NEW p \in 1..made'
      PROVE  p \in Range(main') \cup late' \cup givenUp' \/ \E u \in Task : p \in Mine(u)'
  <2>1. CASE p \in Range(main) \cup late \cup givenUp
    BY <2>1
  <2>2. ASSUME NEW u \in Task, p \in Mine(u) PROVE p \in Range(main') \cup late' \cup givenUp' \/ \E v \in Task : p \in Mine(v)'
    BY <2>2
  <2> QED
    BY <2>1, <2>2 DEF Sorted
<1> QED
  BY <1>2, <1>3, <1>4 DEF Sorted

\* A commit of one task.
LEMMA OneMore ==
  ASSUME TypeOK, Sorted, NEW t \in Task, made' = made + 1, made \in Nat,
         \A u \in Task \ {t} : Mine(u)' = Mine(u),
         Mine(t)' = Mine(t) \cup {made'},
         main' = main, givenUp' = givenUp, late \subseteq late'
  PROVE  Sorted'
<1>1. \A u \in Task : Mine(u) \subseteq 1..made /\ made' \notin Mine(u) /\ Mine(u) \subseteq 1..made'
  BY DEF Sorted
<1>2. \A u \in Task : Mine(u)' \subseteq 1..made'
  BY <1>1
<1>3. \A v, u \in Task : v # u => Mine(v)' \cap Mine(u)' = {}
  BY <1>1 DEF Sorted
<1>4. ASSUME NEW p \in 1..made'
      PROVE  p \in Range(main') \cup late' \cup givenUp' \/ \E u \in Task : p \in Mine(u)'
  <2>1. CASE p = made'
    BY <2>1
  <2>2. CASE p \in 1..made
    BY <2>2 DEF Sorted
  <2> QED
    BY <2>1, <2>2
<1> QED
  BY <1>2, <1>3, <1>4 DEF Sorted

LEMMA PatchInit == Init => PatchInv
<1> SUFFICES ASSUME Init PROVE PatchInv
  OBVIOUS
<1>1. \A t \in Task : Own(t) = {} /\ Pick(t) = {} /\ Save(t) = {}
  BY NoBranchType, EmptyRange DEF Init, Own, Pick, Save
<1>2. Sorted
  BY <1>1 DEF Init, Sorted, Mine
<1> QED
  BY <1>1, <1>2 DEF Init, PatchInv, Apart, Judged

LEMMA PatchStep == TypeOK /\ LifeInv /\ PatchInv /\ [Next]_vars => PatchInv'
<1> SUFFICES ASSUME TypeOK, LifeInv, PatchInv, [Next]_vars PROVE PatchInv'
  OBVIOUS
<1>0. /\ Len(main) \in Nat /\ made \in Nat
      /\ \A u \in Task : branch[u].base \in Nat /\ branch[u].base <= Len(main)
  BY LenProperties DEF TypeOK, Branches
<1>a. /\ Sorted
      /\ \A u \in Task : Apart(u) /\ Judged(u) /\ Lives(u)
  BY DEF PatchInv, LifeInv
<1>b. \A t \in Task : head[t] \in {"branch", "detached"} /\ (head[t] = "detached" => stopped[t])
  BY DEF TypeOK
<1> USE DEF repo, command, fate
\* What a step does not touch stays as it is.
<1>c. ASSUME NEW u \in Task, branch'[u] = branch[u], picked'[u] = picked[u], saved'[u] = saved[u]
      PROVE  Own(u)' = Own(u) /\ Pick(u)' = Pick(u) /\ Save(u)' = Save(u) /\ Mine(u)' = Mine(u)
  BY <1>c DEF Own, Pick, Save, Mine
<1>d. ASSUME NEW u \in Task, branch'[u] = branch[u], picked'[u] = picked[u], saved'[u] = saved[u],
             head'[u] = head[u], stopped'[u] = stopped[u], Len(main') \in Nat, Len(main) <= Len(main')
      PROVE  Apart(u)'
  BY <1>0, <1>a, <1>c, <1>d DEF Apart
\* What a task keeps late stays late when another one keeps its worktree.
<1>e. ASSUME NEW t \in Task, NEW u \in Task \ {t}, branch'[u] = branch[u], picked'[u] = picked[u], saved'[u] = saved[u],
             op'[u] = op[u], late \subseteq late' \cup Mine(t), givenUp \subseteq givenUp'
      PROVE  Judged(u)'
  <2>1. Mine(t) \cap Mine(u) = {}
    BY <1>a, <1>e DEF Sorted
  <2>2. Own(u) \subseteq Mine(u) /\ Pick(u) \subseteq Mine(u)
    BY DEF Mine
  <2> QED
    BY <1>a, <1>c, <1>e, <2>1, <2>2 DEF Judged
\* A step that leaves the branches, what is picked and what is saved alone.
<1>f. ASSUME UNCHANGED <<main, made, branch, picked, saved, head, stopped, op, fate>>
      PROVE  PatchInv'
  BY <1>a, <1>f DEF PatchInv, Sorted, Mine, Own, Pick, Save, Apart, Judged
\* A commit.
<1>g. ASSUME NEW t \in Task, Commit(t), tree[t] = "here",
             UNCHANGED <<main, head, stopped, saved, op, givenUp>>
      PROVE  PatchInv'
  <2>1. /\ made' = made + 1 /\ late \subseteq late'
        /\ \A u \in Task \ {t} : branch'[u] = branch[u] /\ picked'[u] = picked[u] /\ saved'[u] = saved[u]
        /\ branch'[t].base = branch[t].base /\ branch'[t].there = branch[t].there
    BY <1>g, CommitEffect
  <2>2. CASE head[t] = "branch"
    <3>1. Own(t)' = Own(t) \cup {made'} /\ Pick(t)' = Pick(t) /\ Save(t)' = Save(t)
      BY <1>g, <2>2, CommitEffect DEF Own, Pick, Save
    <3>2. Sorted'
      BY <1>0, <1>a, <1>c, <1>g, <2>1, <3>1, OneMore DEF Mine
    <3>3. Apart(t)'
      BY <1>a, <1>g, <2>1, <2>2, <3>1 DEF Apart, Lives, Listed
    <3>4. Judged(t)'
      BY <1>a, <1>g, <3>1, CommitEffect DEF Judged, Lives, Listed
    <3> QED
      BY <1>0, <1>d, <1>e, <1>g, <2>1, <3>2, <3>3, <3>4 DEF PatchInv
  <2>3. CASE head[t] = "detached"
    <3>1. Own(t)' = Own(t) /\ Pick(t)' = Pick(t) \cup {made'} /\ Save(t)' = Save(t) /\ branch'[t] = branch[t]
      BY <1>g, <2>3, CommitEffect DEF Own, Pick, Save
    <3>2. Sorted'
      BY <1>0, <1>a, <1>c, <1>g, <2>1, <3>1, OneMore DEF Mine
    <3>3. Apart(t)'
      BY <1>a, <1>b, <1>g, <2>1, <2>3, <3>1 DEF Apart
    <3>4. Judged(t)'
      BY <1>a, <1>g, <3>1, CommitEffect DEF Judged, Lives
    <3> QED
      BY <1>0, <1>d, <1>e, <1>g, <2>1, <3>2, <3>3, <3>4 DEF PatchInv
  <2> QED
    BY <1>b, <2>2, <2>3
\* A rebase of a worktree.
<1>h. ASSUME NEW t \in Task, Rebases(t), UNCHANGED <<main, made, late, givenUp>>,
             \A u \in Task : op'[u] = op[u] \/ op'[u] = "merge"
      PROVE  PatchInv'
  <2>1. /\ \A u \in Task \ {t} : branch'[u] = branch[u]
        /\ branch'[t].there = branch[t].there /\ branch'[t].own = branch[t].own
    BY <1>h, RebaseEffect
  <2>2. UNCHANGED <<head, stopped, saved, picked>> /\ head[t] = "branch"
    BY <1>b, <1>h DEF Rebases, CanRebase
  <2>3. \A u \in Task : Own(u)' = Own(u) /\ Pick(u)' = Pick(u) /\ Save(u)' = Save(u)
    BY <2>1, <2>2 DEF Own, Pick, Save
  <2>4. Sorted'
    BY <1>a, <1>h, <2>3 DEF Sorted, Mine
  <2>5. \A u \in Task : Judged(u)'
    BY <1>a, <1>h, <2>3 DEF Judged
  <2>6. \A u \in Task : Apart(u)'
    BY <1>0, <1>a, <1>h, <2>1, <2>2, <2>3 DEF Apart
  <2> QED
    BY <2>4, <2>5, <2>6 DEF PatchInv
\* A rebase that stops.
<1>i. ASSUME NEW t \in Task, Conflicts(t), UNCHANGED <<main, made, late, givenUp, op>>
      PROVE  PatchInv'
  <2>1. /\ UNCHANGED <<branch, picked>> /\ ~stopped[t]
        /\ head' = [head EXCEPT ![t] = "detached"] /\ stopped' = [stopped EXCEPT ![t] = TRUE]
        /\ saved' = [saved EXCEPT ![t] = branch[t]]
        /\ branch[t].base < Len(main) /\ branch[t].own # <<>> /\ tree[t] = "here"
    BY <1>i DEF Conflicts, CanRebase
  <2>2. saved'[t] = branch[t] /\ head'[t] = "detached" /\ stopped'[t] /\ head[t] = "branch"
    BY <1>b, <2>1 DEF TypeOK
  <2>3. \A u \in Task \ {t} : saved'[u] = saved[u] /\ head'[u] = head[u] /\ stopped'[u] = stopped[u]
    BY <2>1 DEF TypeOK
  <2>4. Own(t)' = Own(t) /\ Pick(t)' = Pick(t) /\ Save(t)' = Own(t) /\ Save(t) = {}
    BY <1>a, <2>1, <2>2 DEF Own, Pick, Save, Apart
  <2>5. Mine(t)' = Mine(t) /\ \A u \in Task \ {t} : Mine(u)' = Mine(u)
    BY <1>c, <2>1, <2>3, <2>4 DEF Mine
  <2>6. Sorted'
    BY <1>a, <1>i, <2>5, CarriedOver
  <2>7. Apart(t)'
    BY <1>a, <1>i, <2>1, <2>2, <2>4 DEF Apart, Lives
  <2>8. Judged(t)'
    BY <1>a, <1>i, <2>4 DEF Judged
  <2>9. ASSUME NEW u \in Task \ {t} PROVE Apart(u)'
    <3>1. /\ branch'[u] = branch[u] /\ picked'[u] = picked[u] /\ saved'[u] = saved[u]
          /\ head'[u] = head[u] /\ stopped'[u] = stopped[u] /\ main' = main
      BY <1>i, <2>1, <2>3
    <3> QED
      BY <1>0, <1>d, <3>1
  <2>10. \A u \in Task \ {t} : Judged(u)'
    BY <1>e, <1>i, <2>1, <2>3
  <2> QED
    BY <2>6, <2>7, <2>8, <2>9, <2>10 DEF PatchInv
<1>1. ASSUME NEW t \in Task, Start(t) PROVE PatchInv'
  <2>1. CASE UNCHANGED repo
    BY <1>1, <1>f, <2>1 DEF Start, Begins
  <2>2. CASE tree[t] = "none" /\ ~branch[t].there /\ Create(t)
    <3>1. /\ UNCHANGED <<main, made, head, stopped, saved, picked, op, late, givenUp>>
          /\ branch' = [branch EXCEPT ![t] = [there |-> TRUE, base |-> Len(main), own |-> <<>>]]
      BY <1>1, <2>2 DEF Start, Begins, Create
    <3>2. branch'[t].there /\ branch'[t].own = <<>> /\ \A u \in Task \ {t} : branch'[u] = branch[u]
      BY <3>1 DEF TypeOK
    <3>3. ~stopped[t] /\ head[t] = "branch" /\ op[t] = "idle" /\ Own(t) = {}
      BY <1>a, <1>b, <2>2 DEF Lives, Apart
    <3>4. Own(t)' = {} /\ Pick(t)' = Pick(t) /\ Save(t)' = Save(t)
      BY <3>1, <3>2, EmptyRange DEF Own, Pick, Save
    <3>5. Sorted'
      BY <1>a, <1>c, <3>1, <3>2, <3>3, <3>4, CarriedOver DEF Mine
    <3>6. Apart(t)' /\ Judged(t)'
      BY <1>a, <3>1, <3>2, <3>3, <3>4 DEF Apart, Judged
    <3> QED
      BY <1>0, <1>d, <1>e, <3>1, <3>2, <3>5, <3>6 DEF PatchInv
  <2> QED
    BY <1>1, <2>1, <2>2 DEF Start
<1>2. ASSUME NEW t \in Task, InitNode(t) PROVE PatchInv'
  <2>0. UNCHANGED <<main, tree, stopped, onto, saved, command, givenUp>>
    BY <1>2 DEF InitNode
  <2>1. CASE Commit(t) /\ UNCHANGED head
    BY <1>2, <1>g, <2>1 DEF InitNode, Works
  <2>2. CASE NoCommit /\ UNCHANGED head
    BY <2>0, <1>f, <2>2 DEF NoCommit
  <2>3. ASSUME head[t] = "detached", NEW own \in Seq(Patches), Checkout(t, own)
        PROVE  /\ \A u \in Task \ {t} : branch'[u] = branch[u] /\ picked'[u] = picked[u] /\ head'[u] = head[u]
               /\ Own(t)' = Range(own) /\ Pick(t)' = {} /\ Save(t)' = Save(t) /\ Own(t) = Save(t)
               /\ Apart(t)'
    <3>1. /\ \A u \in Task \ {t} : branch'[u] = branch[u] /\ picked'[u] = picked[u] /\ head'[u] = head[u]
          /\ branch'[t].there = branch[t].there /\ branch'[t].own = own
          /\ picked'[t] = <<>> /\ head'[t] = "branch"
      BY <2>3, CheckoutEffect
    <3>2. Own(t)' = Range(own) /\ Pick(t)' = {} /\ Save(t)' = Save(t) /\ Own(t) = Save(t)
      BY <1>a, <2>0, <2>3, <3>1, EmptyRange DEF Own, Pick, Save, Apart
    <3>3. stopped[t] /\ branch[t].there
      BY <1>a, <1>b, <2>3 DEF Lives, Listed
    <3> QED
      BY <2>0, <3>1, <3>2, <3>3 DEF Apart
  <2>4. CASE /\ head[t] = "detached" /\ UNCHANGED <<made, edits, late>>
             /\ picked[t] \in Seq(Patches) /\ Checkout(t, picked[t])
    <3>1. Own(t)' = Pick(t) /\ Pick(t)' = {} /\ Save(t)' = Save(t) /\ Own(t) = Save(t) /\ Apart(t)'
      BY <2>3, <2>4 DEF Pick
    <3>2. \A u \in Task \ {t} : branch'[u] = branch[u] /\ picked'[u] = picked[u] /\ head'[u] = head[u]
      BY <2>3, <2>4
    <3>3. Sorted'
      BY <1>a, <1>c, <2>0, <2>4, <3>1, <3>2, CarriedOver DEF Mine
    <3>4. op[t] # "discard"
      BY <1>a, <1>2 DEF InitNode, Works, Lives, Listed
    <3>5. Judged(t)'
      BY <1>a, <2>0, <2>4, <3>1, <3>4 DEF Judged
    <3> QED
      BY <1>0, <1>d, <1>e, <2>0, <2>4, <3>1, <3>2, <3>3, <3>5 DEF PatchInv
  <2>5. CASE /\ head[t] = "detached" /\ NewPatch(t) /\ made' \in Patches
             /\ \E own \in Seq(Patches) :
                  Checkout(t, own) /\ Range(own) = Range(picked[t]) \cup {made'}
    <3>1. PICK own \in Seq(Patches) :
            Checkout(t, own) /\ Range(own) = Range(picked[t]) \cup {made'}
      BY <2>5
    <3>2. /\ Own(t)' = Pick(t) \cup {made'} /\ Pick(t)' = {} /\ Save(t)' = Save(t)
          /\ Own(t) = Save(t) /\ Apart(t)'
      BY <2>3, <2>5, <3>1 DEF Pick
    <3>3. \A u \in Task \ {t} : branch'[u] = branch[u] /\ picked'[u] = picked[u] /\ head'[u] = head[u]
      BY <2>3, <2>5, <3>1
    <3>4. made' = made + 1 /\ late' = IF op[t] \in {"ask", "drop"} THEN late \cup {made'} ELSE late
      BY <2>5, NewPatchEffect
    <3>5. Sorted'
      BY <1>0, <1>a, <1>c, <2>0, <3>2, <3>3, <3>4, OneMore DEF Mine
    <3>6. op[t] # "discard"
      BY <1>a, <1>2 DEF InitNode, Works, Lives, Listed
    <3>7. Judged(t)'
      BY <1>a, <2>0, <3>2, <3>4, <3>6 DEF Judged
    <3> QED
      BY <1>0, <1>d, <1>e, <2>0, <3>2, <3>3, <3>4, <3>5, <3>7 DEF PatchInv
  <2> QED
    BY <1>2, <2>1, <2>2, <2>4, <2>5, InitCases
<1>3. ASSUME NEW t \in Task, BeginBatch(t) PROVE PatchInv'
  BY <1>3, <1>f, <1>g DEF BeginBatch, Works, NoCommit, KeepsRest
<1>4. ASSUME NEW t \in Task, Edit(t) PROVE PatchInv'
  BY <1>4, <1>f DEF Edit
<1>5. ASSUME NEW t \in Task, CloseBatch(t) PROVE PatchInv'
  BY <1>5, <1>g DEF CloseBatch, Works, KeepsRest
<1>6. ASSUME NEW t \in Task, FinalFix(t) PROVE PatchInv'
  BY <1>6, <1>g DEF FinalFix, Works, KeepsRest
<1>7. ASSUME NEW t \in Task, LandRebase(t) PROVE PatchInv'
  <2>1. CASE Rebases(t) /\ op' = [op EXCEPT ![t] = "merge"]
    BY <1>7, <1>h, <2>1 DEF LandRebase, TypeOK
  <2>2. CASE Conflicts(t) /\ UNCHANGED op
    BY <1>7, <1>i, <2>2 DEF LandRebase
  <2> QED
    BY <1>7, <2>1, <2>2 DEF LandRebase
<1>8. ASSUME NEW t \in Task, LandMerge(t) PROVE PatchInv'
  <2>1. UNCHANGED <<made, head, stopped, saved, picked, late, givenUp>>
    BY <1>8 DEF LandMerge
  <2>2. CASE branch[t].there /\ branch[t].base = Len(main)
    <3>1. /\ main' = main \o branch[t].own /\ op' = [op EXCEPT ![t] = "ask"]
          /\ branch' = [branch EXCEPT ![t].base = Len(main'), ![t].own = <<>>]
      BY <1>8, <2>2 DEF LandMerge
    <3>2. /\ Len(main') \in Nat /\ Len(main) <= Len(main')
          /\ Range(main') = Range(main) \cup Own(t)
          /\ \A u \in Task \ {t} : branch'[u] = branch[u]
          /\ branch'[t].there = branch[t].there /\ branch'[t].own = <<>>
      BY <3>1, MergeEffect, LenProperties DEF Own
    <3>3. head[t] = "branch"
      BY <1>0, <1>a, <1>b, <2>2 DEF Apart
    <3>4. Own(t)' = {} /\ Pick(t)' = {} /\ Save(t)' = Save(t) /\ Pick(t) = {}
      BY <1>a, <2>1, <3>2, <3>3, EmptyRange DEF Own, Pick, Save, Apart
    <3>5. Sorted'
      BY <1>a, <1>c, <2>1, <3>2, <3>4, CarriedOver DEF Mine
    <3>6. Apart(t)' /\ Judged(t)'
      BY <1>a, <2>1, <3>2, <3>3, <3>4 DEF Apart, Judged
    <3>7. \A u \in Task \ {t} : op'[u] = op[u]
      BY <3>1 DEF TypeOK
    <3> QED
      BY <1>0, <1>d, <1>e, <2>1, <3>2, <3>5, <3>6, <3>7 DEF PatchInv
  <2>3. CASE ~(branch[t].there /\ branch[t].base = Len(main))
    <3>1. /\ UNCHANGED <<main, branch>>
          /\ op' = [op EXCEPT ![t] = IF branch[t].there /\ branch[t].own = <<>> THEN "ask" ELSE "idle"]
      BY <1>8, <2>3 DEF LandMerge
    <3>2. \A u \in Task \ {t} : op'[u] = op[u]
      BY <3>1 DEF TypeOK
    <3>3. op'[t] = "ask" => Own(t) = {} /\ Pick(t) = {}
      BY <1>a, <1>b, <3>1, EmptyRange DEF Apart, Own, TypeOK
    <3>4. op'[t] \in {"ask", "idle"}
      BY <3>1 DEF TypeOK
    <3>5. Judged(t)'
      BY <1>c, <2>1, <3>1, <3>3, <3>4 DEF Judged
    <3>6. Sorted'
      BY <1>a, <1>c, <2>1, <3>1, CarriedOver
    <3>7. \A u \in Task : Apart(u)'
      BY <1>0, <1>d, <2>1, <3>1
    <3> QED
      BY <1>e, <2>1, <3>1, <3>2, <3>5, <3>6, <3>7 DEF PatchInv
  <2> QED
    BY <2>2, <2>3
<1>9. ASSUME NEW t \in Task, KeepTree(t) \/ RemovalRefused(t) PROVE PatchInv'
  <2>1. /\ UNCHANGED <<main, made, branch, picked, saved, head, stopped, givenUp>>
        /\ late' = late \ (Own(t) \cup Pick(t)) \/ late' = late
    BY <1>9 DEF KeepTree, RemovalRefused, Stays, Own, Pick
  <2>2. (\A u \in Task \ {t} : op'[u] = op[u]) /\ op'[t] \in {"idle", "refused"}
    BY <1>9 DEF KeepTree, RemovalRefused, TypeOK
  <2>3. \A u \in Task : Mine(u)' = Mine(u)
    BY <1>c, <2>1
  <2>4. late \subseteq late' \cup Mine(t)
    BY <2>1 DEF Mine
  <2>5. Sorted'
    BY <1>a, <2>1, <2>3, <2>4, CarriedOver
  <2>6. Judged(t)'
    BY <2>2 DEF Judged
  <2> QED
    BY <1>0, <1>d, <1>e, <2>1, <2>2, <2>4, <2>5, <2>6 DEF PatchInv
<1>j. ASSUME NEW t \in Task, NEW to \in {"none", "gone", "husk"}, TreeGoes(t, to), UNCHANGED <<main, made>>,
             \A u \in Task \ {t} : op'[u] = op[u],
             late \subseteq late', givenUp \subseteq givenUp',
             InTree(t) \subseteq Own(t) \cup late' \cup givenUp',
             op'[t] \in {"ask", "drop"} => Own(t) \subseteq late',
             op'[t] = "discard" => Own(t) \subseteq givenUp'
      PROVE  PatchInv'
  <2>1. /\ branch' = branch
        /\ head' = [head EXCEPT ![t] = "branch"] /\ stopped' = [stopped EXCEPT ![t] = FALSE]
        /\ saved' = [saved EXCEPT ![t] = NoBranch] /\ picked' = [picked EXCEPT ![t] = <<>>]
    BY <1>j DEF TreeGoes
  <2>2. /\ head'[t] = "branch" /\ ~stopped'[t] /\ saved'[t] = NoBranch /\ picked'[t] = <<>>
        /\ \A u \in Task \ {t} : /\ head'[u] = head[u] /\ stopped'[u] = stopped[u]
                                 /\ saved'[u] = saved[u] /\ picked'[u] = picked[u]
    BY <2>1 DEF TypeOK
  <2>3. Own(t)' = Own(t) /\ Pick(t)' = {} /\ Save(t)' = {}
    BY <2>1, <2>2, NoBranchType, EmptyRange DEF Own, Pick, Save
  <2>4. Mine(t) = Own(t) \cup InTree(t)
    BY DEF Mine, InTree, Pick, Save
  <2>5. Mine(t)' = Own(t)
    BY <2>3 DEF Mine
  <2>6. Sorted'
    BY <1>a, <1>c, <1>j, <2>1, <2>2, <2>4, <2>5, CarriedOver
  <2>7. Apart(t)' /\ Judged(t)'
    BY <1>a, <1>j, <2>1, <2>2, <2>3 DEF Apart, Judged
  <2>8. ASSUME NEW u \in Task \ {t} PROVE Apart(u)'
    <3>1. /\ branch'[u] = branch[u] /\ picked'[u] = picked[u] /\ saved'[u] = saved[u]
          /\ head'[u] = head[u] /\ stopped'[u] = stopped[u] /\ main' = main
      BY <1>0, <1>d, <1>j, <2>1, <2>2
    <3> QED
      BY <1>0, <1>d, <3>1
  <2>9. \A u \in Task \ {t} : Judged(u)'
    BY <1>e, <1>j, <2>1, <2>2
  <2> QED
    BY <2>6, <2>7, <2>8, <2>9 DEF PatchInv
<1>10. ASSUME NEW t \in Task, RemoveTree(t) PROVE PatchInv'
  <2>1. PICK to \in {"none", "husk"} : TreeGoes(t, to) /\ UNCHANGED <<main, made>>
    BY <1>10 DEF RemoveTree, BeginRemoval
  <2>2. CASE op[t] = "ask" /\ op' = [op EXCEPT ![t] = "drop"] /\ late' = late \cup InTree(t) /\ UNCHANGED givenUp
    <3>1. op'[t] = "drop" /\ \A u \in Task \ {t} : op'[u] = op[u]
      BY <2>2 DEF TypeOK
    <3>2. Own(t) \subseteq late
      BY <1>a, <2>2 DEF Judged
    <3> QED
      BY <1>j, <2>1, <2>2, <3>1, <3>2
  <2>3. CASE /\ op' = [op EXCEPT ![t] = "discard"]
             /\ givenUp' = givenUp \cup Range(branch[t].own) \cup InTree(t) /\ UNCHANGED late
    <3>1. op'[t] = "discard" /\ \A u \in Task \ {t} : op'[u] = op[u]
      BY <2>3 DEF TypeOK
    <3> QED
      BY <1>j, <2>1, <2>3, <3>1 DEF Own
  <2> QED
    BY <1>10, <2>2, <2>3 DEF RemoveTree, BeginRemoval
<1>k. ASSUME NEW t \in Task, op' = [op EXCEPT ![t] = "idle"],
             UNCHANGED <<main, made, repo, late, givenUp>>
      PROVE  PatchInv'
  <2>1. op'[t] = "idle" /\ \A u \in Task \ {t} : op'[u] = op[u]
    BY <1>k DEF TypeOK
  <2>2. Sorted' /\ Judged(t)'
    BY <1>a, <1>c, <1>k, <2>1, CarriedOver DEF Judged
  <2> QED
    BY <1>0, <1>d, <1>e, <1>k, <2>1, <2>2 DEF PatchInv
<1>11. ASSUME NEW t \in Task, DeleteBranch(t), op[t] # "refused" PROVE PatchInv'
  <2>0. op[t] \in {"drop", "discard"} /\ ~Listed(t)
    BY <1>11, <1>a DEF DeleteBranch, Lives
  <2>1. /\ UNCHANGED <<main, made, head, stopped, saved, picked, late, givenUp>>
        /\ branch' = [branch EXCEPT ![t] = NoBranch] /\ op' = [op EXCEPT ![t] = "idle"]
        /\ op[t] \in {"drop", "discard"} /\ tree[t] # "here"
    BY <1>11, <1>a, <2>0 DEF DeleteBranch, Lives, Listed
  <2>2. /\ branch'[t] = NoBranch /\ op'[t] = "idle"
        /\ \A u \in Task \ {t} : branch'[u] = branch[u] /\ op'[u] = op[u]
    BY <2>1 DEF TypeOK
  <2>3. Own(t) \subseteq late \cup givenUp
    BY <1>a, <2>1 DEF Judged
  <2>4. ~stopped[t] /\ head[t] = "branch"
    BY <1>a, <1>b, <2>1 DEF Lives
  <2>5. Own(t)' = {} /\ Pick(t)' = Pick(t) /\ Save(t)' = Save(t)
    BY <2>1, <2>2, NoBranchType, EmptyRange DEF Own, Pick, Save
  <2>6. Sorted'
    BY <1>a, <1>c, <2>1, <2>2, <2>3, <2>5, CarriedOver DEF Mine
  <2>7. Apart(t)' /\ Judged(t)'
    BY <1>a, <2>1, <2>2, <2>4, <2>5 DEF Apart, Judged
  <2> QED
    BY <1>0, <1>d, <1>e, <2>1, <2>2, <2>6, <2>7 DEF PatchInv
<1>20. ASSUME NEW t \in Task, DeleteBranch(t), op[t] = "refused" PROVE PatchInv'
  BY <1>20, <1>a, <1>k DEF DeleteBranch, Lives
<1>12. ASSUME NEW t \in Task, Interrupt(t) PROVE PatchInv'
  <2>1. /\ UNCHANGED <<main, made, branch, picked, saved, head, stopped, late, givenUp>>
        /\ op' = [op EXCEPT ![t] = IF op[t] \in {"drop", "discard"} THEN "cut" ELSE "idle"]
    BY <1>12 DEF Interrupt
  <2>2. op'[t] \in {"idle", "cut"} /\ \A u \in Task \ {t} : op'[u] = op[u]
    BY <2>1 DEF TypeOK
  <2>3. Sorted'
    BY <1>a, <1>c, <2>1, CarriedOver
  <2>4. Judged(t)'
    BY <2>2 DEF Judged
  <2> QED
    BY <1>0, <1>d, <1>e, <2>1, <2>2, <2>3, <2>4 DEF PatchInv
<1>13. ASSUME NEW t \in Task, SyncNext(t) PROVE PatchInv'
  <2>1. CASE Rebases(t)
    BY <1>13, <1>h, <2>1 DEF SyncNext
  <2>2. CASE Conflicts(t)
    BY <1>13, <1>i, <2>2 DEF SyncNext
  <2>3. CASE Refuses(t)
    BY <1>13, <1>f, <2>3 DEF SyncNext, Refuses
  <2> QED
    BY <1>13, <2>1, <2>2, <2>3 DEF SyncNext
<1>14. ASSUME NEW t \in Task, Continue(t) PROVE PatchInv'
  <2>1. /\ UNCHANGED <<main, made, op, late, givenUp>> /\ head[t] = "detached"
        /\ head' = [head EXCEPT ![t] = "branch"] /\ stopped' = [stopped EXCEPT ![t] = FALSE]
        /\ saved' = [saved EXCEPT ![t] = NoBranch] /\ picked' = [picked EXCEPT ![t] = <<>>]
    BY <1>14 DEF Continue
  <2>2. /\ head'[t] = "branch" /\ ~stopped'[t] /\ saved'[t] = NoBranch /\ picked'[t] = <<>>
        /\ \A u \in Task \ {t} : /\ head'[u] = head[u] /\ stopped'[u] = stopped[u]
                                 /\ saved'[u] = saved[u] /\ picked'[u] = picked[u]
    BY <2>1 DEF TypeOK
  <2>3. /\ \A u \in Task \ {t} : branch'[u] = branch[u]
        /\ branch'[t].there = branch[t].there /\ Own(t)' = Pick(t) \cup Save(t)
    BY <1>14, ContinueEffect DEF Own, Pick, Save
  <2>4. Pick(t)' = {} /\ Save(t)' = {} /\ Own(t) = Save(t) /\ branch[t].there
    BY <1>a, <1>b, <2>1, <2>2, NoBranchType, EmptyRange DEF Own, Pick, Save, Apart, Lives
  <2>5. Sorted'
    BY <1>a, <1>c, <2>1, <2>2, <2>3, <2>4, CarriedOver DEF Mine
  <2>6. op[t] # "discard"
    BY <1>a, <1>b, <2>1 DEF Lives, Listed
  <2>7. Apart(t)' /\ Judged(t)'
    BY <1>a, <2>1, <2>2, <2>3, <2>4, <2>6 DEF Apart, Judged
  <2>8. ASSUME NEW u \in Task \ {t} PROVE Apart(u)'
    <3>1. /\ branch'[u] = branch[u] /\ picked'[u] = picked[u] /\ saved'[u] = saved[u]
          /\ head'[u] = head[u] /\ stopped'[u] = stopped[u] /\ main' = main
      BY <1>0, <1>d, <2>1, <2>2, <2>3
    <3> QED
      BY <1>0, <1>d, <3>1
  <2>9. \A u \in Task \ {t} : Judged(u)'
    BY <1>e, <2>1, <2>2, <2>3
  <2> QED
    BY <2>5, <2>7, <2>8, <2>9 DEF PatchInv
<1>15. ASSUME NEW t \in Task, Abort(t) PROVE PatchInv'
  <2>1. /\ UNCHANGED <<main, made, op>> /\ stopped[t]
        /\ head' = [head EXCEPT ![t] = "branch"] /\ stopped' = [stopped EXCEPT ![t] = FALSE]
        /\ saved' = [saved EXCEPT ![t] = NoBranch] /\ picked' = [picked EXCEPT ![t] = <<>>]
    BY <1>15 DEF Abort
  <2>2. /\ head'[t] = "branch" /\ ~stopped'[t] /\ saved'[t] = NoBranch /\ picked'[t] = <<>>
        /\ \A u \in Task \ {t} : /\ head'[u] = head[u] /\ stopped'[u] = stopped[u]
                                 /\ saved'[u] = saved[u] /\ picked'[u] = picked[u]
    BY <2>1 DEF TypeOK
  <2>3. Pick(t)' = {} /\ Save(t)' = {} /\ branch[t].there /\ saved[t].there /\ op[t] \notin {"drop", "discard"}
    BY <1>a, <2>1, <2>2, NoBranchType, EmptyRange DEF Pick, Save, Lives, Listed
  <2>4. CASE head[t] = "detached"
    <3>1. givenUp' = givenUp \cup Pick(t) /\ UNCHANGED <<branch, late>>
      BY <1>15, <2>4 DEF Abort, Pick
    <3>2. Own(t)' = Own(t) /\ Own(t) = Save(t)
      BY <1>a, <2>4, <3>1 DEF Own, Save, Apart
    <3>3. Sorted'
      BY <1>a, <1>c, <2>1, <2>2, <2>3, <3>1, <3>2, CarriedOver DEF Mine
    <3>4. Apart(t)' /\ Judged(t)'
      BY <1>a, <2>1, <2>2, <2>3, <3>1, <3>2 DEF Apart, Judged
    <3>5. ASSUME NEW u \in Task \ {t} PROVE Apart(u)'
      <4>1. /\ branch'[u] = branch[u] /\ picked'[u] = picked[u] /\ saved'[u] = saved[u]
            /\ head'[u] = head[u] /\ stopped'[u] = stopped[u] /\ main' = main
        BY <1>0, <1>d, <2>1, <2>2, <3>1
      <4> QED
        BY <1>0, <1>d, <4>1
    <3>6. \A u \in Task \ {t} : Judged(u)'
      BY <1>e, <2>1, <2>2, <3>1
    <3> QED
      BY <3>3, <3>4, <3>5, <3>6 DEF PatchInv
  <2>5. CASE head[t] = "branch"
    <3>1. /\ givenUp' = givenUp \cup Own(t) /\ branch' = [branch EXCEPT ![t] = saved[t]]
          /\ late' = IF op[t] = "ask" THEN late \cup Save(t) ELSE late
      BY <1>15, <2>5 DEF Abort, Own, Save
    <3>2. branch'[t] = saved[t] /\ \A u \in Task \ {t} : branch'[u] = branch[u]
      BY <3>1 DEF TypeOK
    <3>3. Own(t)' = Save(t) /\ Pick(t) = {}
      BY <1>a, <2>5, <3>2 DEF Own, Save, Apart
    <3>4. Sorted'
      BY <1>a, <1>c, <2>1, <2>2, <2>3, <3>1, <3>2, <3>3, CarriedOver DEF Mine
    <3>5. Apart(t)' /\ Judged(t)'
      BY <1>a, <2>1, <2>2, <2>3, <3>1, <3>2, <3>3 DEF Apart, Judged
    <3>6. ASSUME NEW u \in Task \ {t} PROVE Apart(u)'
      <4>1. /\ branch'[u] = branch[u] /\ picked'[u] = picked[u] /\ saved'[u] = saved[u]
            /\ head'[u] = head[u] /\ stopped'[u] = stopped[u] /\ main' = main
        BY <1>0, <1>d, <2>1, <2>2, <3>2
      <4> QED
        BY <1>0, <1>d, <4>1
    <3>7. \A u \in Task \ {t} : Judged(u)'
      BY <1>e, <2>1, <2>2, <3>1, <3>2
    <3> QED
      BY <3>4, <3>5, <3>6, <3>7 DEF PatchInv
  <2> QED
    BY <1>b, <2>4, <2>5
<1>16. ASSUME NEW t \in Task, DeleteByHand(t) PROVE PatchInv'
  <2>1. /\ TreeGoes(t, "gone") \/ TreeGoes(t, "none")
        /\ UNCHANGED <<main, made, op, late>>
        /\ givenUp' = givenUp \cup (InTree(t) \ Own(t))
    BY <1>16 DEF DeleteByHand, Own
  <2>2. /\ op[t] \in {"ask", "drop"} => Own(t) \subseteq late
        /\ op[t] = "discard" => Own(t) \subseteq givenUp
    BY <1>a DEF Judged
  <2> QED
    BY <1>j, <2>1, <2>2
<1>17. CASE SyncBegin
  BY <1>17, <1>f DEF SyncBegin
<1>18. CASE MainMoves
  <2>1. /\ made' = made + 1 /\ Len(main') \in Nat /\ Len(main) <= Len(main')
        /\ Range(main') = Range(main) \cup {made'}
        /\ UNCHANGED <<branch, picked, saved, head, stopped, op, late, givenUp>>
    BY <1>0, <1>18, MainMovesEffect DEF MainMoves
  <2>2. \A u \in Task : Mine(u)' = Mine(u)
    BY <1>c, <2>1
  <2>3. Sorted'
    BY <1>0, <1>a, <2>1, <2>2 DEF Sorted
  <2>4. \A u \in Task : Apart(u)'
    BY <1>d, <2>1
  <2>5. \A u \in Task : Judged(u)'
    BY <1>a, <1>c, <2>1 DEF Judged
  <2> QED
    BY <2>3, <2>4, <2>5 DEF PatchInv
<1>19. CASE UNCHANGED vars
  BY <1>19, <1>f DEF vars
<1> QED
  BY <1>1, <1>2, <1>3, <1>4, <1>5, <1>6, <1>7, <1>8, <1>9, <1>10, <1>11, <1>12, <1>13, <1>14, <1>15, <1>16, <1>17, <1>18, <1>19, <1>20
  DEF Next, Drives, Operates

\* A patch is on main, on the branch or in the worktree of its task, or the operator gave
\* it up, or it was committed between the merge of a land and the removal.
THEOREM PatchesKept == Spec => []NothingLost
<1>1. TypeOK /\ PatchInv => NothingLost
  <2> SUFFICES ASSUME PatchInv, NEW p \in 1..made
               PROVE  OnMain(p) \/ p \in late \cup givenUp \/ \E t \in Task : p \in Held(t)
    BY DEF NothingLost
  <2>1. \A t \in Task : Mine(t) = Held(t)
    BY DEF PatchInv, Apart, Mine, Held, InTree, Own, Pick, Save
  <2> QED
    BY <2>1 DEF PatchInv, Sorted, OnMain
<1> QED
  BY TypeInit, TypeStep, LifeInit, LifeStep, PatchInit, PatchStep, <1>1, PTL DEF Spec

=============================================================================
