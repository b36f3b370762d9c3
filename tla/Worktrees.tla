------------------------------ MODULE Worktrees ------------------------------
(***************************************************************************)
(* Tasks that run in parallel, each in a git worktree on a branch of its   *)
(* own.  The driver of a task commits its batches there; the operator lands*)
(* the branch (rebase it onto main, fast-forward main, then remove the     *)
(* worktree and the branch), rebases all of them, or removes one.  Nothing *)
(* keeps the operator and the driver from working at the same time, and    *)
(* the commands of the operator are sequences of git calls.                *)
(*                                                                         *)
(* A commit is the patch it makes.  A branch is the number of commits of   *)
(* main it is based on and the patches it has above them.                  *)
(***************************************************************************)
EXTENDS Naturals, Sequences, Functions, TLC

CONSTANTS
  Task,         \* the ids of the tasks
  MaxPatches    \* bound: commits made

ASSUME WorktreesAssumption == MaxPatches \in Nat

VARIABLES
  main,      \* the commits of main
  made,      \* number of patches made
  branch,    \* of every task: whether its branch exists, its base, the patches above it
  tree,      \* its worktree: none, here, gone (deleted, and git still lists it), or a
             \* husk (git lists it no more, and its directory has survived)
  edits,     \* whether the worktree has changes git tracks
  head,      \* what HEAD names: the branch, or a commit in a rebase that has stopped
  stopped,   \* whether a rebase has stopped there: git refuses another one
  onto,      \* ... the commits of main it began with
  saved,     \* ... the branch as it was then, which rebase --abort brings back
  picked,    \* patches committed where HEAD is detached
  phase,     \* where its driver is, or where it will resume
  op,        \* the command of the operator: the git call that comes next
  syncing,   \* worktrees a sync has yet to rebase
  late,      \* patches that a land removes unmerged: made since its merge, or in its worktree
  givenUp    \* patches the operator has given up: remove, or rebase --abort

repo == <<branch, tree, edits, head, stopped, onto, saved, picked>>
command == <<op, syncing>>
fate == <<late, givenUp>>
vars == <<main, made, repo, phase, command, fate>>

Patches == 1..MaxPatches
Branches == [there : BOOLEAN, base : Nat, own : Seq(Patches)]
NoBranch == [there |-> FALSE, base |-> 0, own |-> <<>>]

TypeOK ==
  /\ main \in Seq(Patches) /\ made \in 0..MaxPatches
  /\ branch \in [Task -> Branches] /\ saved \in [Task -> Branches]
  /\ \A t \in Task : branch[t].base <= Len(main) /\ saved[t].base <= Len(main)
  /\ tree \in [Task -> {"none", "here", "gone", "husk"}]
  /\ edits \in [Task -> BOOLEAN]
  /\ head \in [Task -> {"branch", "detached"}]
  /\ onto \in [Task -> Nat] /\ \A t \in Task : onto[t] <= Len(main)
  /\ picked \in [Task -> Seq(Patches)]
  /\ stopped \in [Task -> BOOLEAN] /\ \A t \in Task : head[t] = "detached" => stopped[t]
  /\ phase \in [Task -> {"new", "plan", "batch", "gates"}]
  /\ op \in [Task -> {"idle", "merge", "ask", "drop", "discard", "refused", "cut"}]
  /\ syncing \subseteq Task
  /\ late \subseteq Patches /\ givenUp \subseteq Patches

Init ==
  /\ main = <<>> /\ made = 0
  /\ branch = [t \in Task |-> NoBranch] /\ tree = [t \in Task |-> "none"]
  /\ edits = [t \in Task |-> FALSE] /\ head = [t \in Task |-> "branch"]
  /\ stopped = [t \in Task |-> FALSE] /\ onto = [t \in Task |-> 0]
  /\ saved = [t \in Task |-> NoBranch] /\ picked = [t \in Task |-> <<>>]
  /\ phase = [t \in Task |-> "new"]
  /\ op = [t \in Task |-> "idle"] /\ syncing = {}
  /\ late = {} /\ givenUp = {}

-----------------------------------------------------------------------------
(* The driver of a task.                                                   *)

\* What every commit changes.
NewPatch(t) ==
  /\ made < MaxPatches /\ made' = made + 1
  /\ edits' = [edits EXCEPT ![t] = FALSE]
  /\ late' = IF op[t] \in {"ask", "drop"} THEN late \cup {made'} ELSE late

\* A commit goes to what HEAD names.
Commit(t) ==
  /\ NewPatch(t)
  /\ IF head[t] = "branch"
     THEN branch' = [branch EXCEPT ![t].own = Append(@, made')] /\ UNCHANGED picked
     ELSE picked' = [picked EXCEPT ![t] = Append(@, made')] /\ UNCHANGED branch

NoCommit == UNCHANGED <<made, edits, branch, picked, late>>

Goes(t, to) == phase' = [phase EXCEPT ![t] = to]

\* git worktree add -b.
Create(t) ==
  /\ branch' = [branch EXCEPT ![t] = [there |-> TRUE, base |-> Len(main), own |-> <<>>]]
  /\ tree' = [tree EXCEPT ![t] = "here"]
  /\ UNCHANGED <<edits, head, stopped, onto, saved, picked>>

Begins(t) ==
  /\ Goes(t, "new") /\ UNCHANGED <<main, made, command, fate>>

\* run.py start: the worktree is reused when it is there, and created on a new branch at
\* main unless one of that name is left over.  One deleted by hand leaves its branch; a
\* husk is taken for a worktree to reuse, and the child process dies for it is none.
Start(t) ==
  /\ Begins(t)
  /\ \/ tree[t] = "here" /\ UNCHANGED repo
     \/ tree[t] = "none" /\ ~branch[t].there /\ Create(t)

\* A driver goes on only in a worktree that is there, and stops where a guard fails;
\* the operator resumes it, or starts the task again.
Works(t, at) == phase[t] = at /\ tree[t] = "here"
KeepsRest == UNCHANGED <<main, tree, head, stopped, onto, saved, command, givenUp>>

\* git checkout -B at HEAD, in a rebase that has stopped: the branch is what was picked so
\* far, and the rest is with the rebase.
Checkout(t, own) ==
  /\ branch' = [branch EXCEPT ![t].base = onto[t], ![t].own = own]
  /\ head' = [head EXCEPT ![t] = "branch"] /\ picked' = [picked EXCEPT ![t] = <<>>]

\* The tree has the conflict the rebase has stopped in, and git does not check out: it
\* is resolved by the first commit.
InConflict(t) == head[t] = "detached" /\ picked[t] = <<>>

\* init: a dirty tree stops an interactive run; --auto checks the branch out, when git
\* can, and commits the tree.  In a clean one the branch is checked out unless HEAD names it.
InitNode(t) ==
  /\ Works(t, "new") /\ Goes(t, "plan")
  /\ \/ edits[t] /\ (head[t] = "branch" \/ InConflict(t)) /\ Commit(t) /\ UNCHANGED head
     \/ ~edits[t] /\ head[t] = "branch" /\ NoCommit /\ UNCHANGED head
     \/ /\ edits[t] /\ head[t] = "detached" /\ ~InConflict(t)
        /\ NewPatch(t) /\ Checkout(t, Append(picked[t], made'))
     \/ /\ ~edits[t] /\ head[t] = "detached" /\ Checkout(t, picked[t])
        /\ UNCHANGED <<made, edits, late>>
  /\ UNCHANGED <<main, tree, stopped, onto, saved, command, givenUp>>

\* implement, at the first attempt: HEAD must name the branch, and what is left in the
\* tree is committed before the agent edits.
BeginBatch(t) ==
  /\ Works(t, "plan") /\ head[t] = "branch"
  /\ IF edits[t] THEN Commit(t) ELSE NoCommit
  /\ Goes(t, "batch")
  /\ KeepsRest

\* An agent edits: the implementer, a fixer of a gate or of the final check.
Edit(t) ==
  /\ Works(t, "batch") \/ Works(t, "gates")
  /\ edits' = [edits EXCEPT ![t] = TRUE]
  /\ UNCHANGED <<main, made, branch, tree, head, stopped, onto, saved, picked, phase, command, fate>>

\* close_batch: HEAD must name the branch, and there must be something to commit.
CloseBatch(t) ==
  /\ Works(t, "batch") /\ head[t] = "branch" /\ edits[t]
  /\ Commit(t)
  /\ \E to \in {"plan", "gates"} : Goes(t, to)
  /\ KeepsRest

\* final_check commits the fix of its tests, whatever HEAD names.
FinalFix(t) ==
  /\ Works(t, "gates") /\ edits[t]
  /\ Commit(t) /\ UNCHANGED phase
  /\ KeepsRest

-----------------------------------------------------------------------------
(* The operator.                                                           *)

\* git rebase main: refused in a dirty tree and while another one has stopped; it may
\* stop in a conflict, at the first patch, which leaves the branch where it was.
CanRebase(t) == tree[t] = "here" /\ ~edits[t] /\ ~stopped[t]

Rebases(t) ==
  /\ CanRebase(t) /\ branch' = [branch EXCEPT ![t].base = Len(main)]
  /\ UNCHANGED <<tree, edits, head, stopped, onto, saved, picked>>

Conflicts(t) ==
  /\ CanRebase(t) /\ branch[t].base < Len(main) /\ branch[t].own # <<>>
  /\ head' = [head EXCEPT ![t] = "detached"] /\ edits' = [edits EXCEPT ![t] = TRUE]
  /\ stopped' = [stopped EXCEPT ![t] = TRUE] /\ onto' = [onto EXCEPT ![t] = Len(main)]
  /\ saved' = [saved EXCEPT ![t] = branch[t]]
  /\ UNCHANGED <<branch, tree, picked>>

Refuses(t) == ~CanRebase(t) /\ UNCHANGED repo

\* land_to_main: the rebase ...
LandRebase(t) ==
  /\ op[t] = "idle" /\ tree[t] = "here" /\ branch[t].there
  /\ \/ Rebases(t) /\ op' = [op EXCEPT ![t] = "merge"]
     \/ Conflicts(t) /\ UNCHANGED op
  /\ UNCHANGED <<main, made, phase, syncing, fate>>

\* Slip: the merge forces main to the branch.
MergeForced(t) ==
  /\ op[t] = "merge" /\ op' = [op EXCEPT ![t] = "ask"]
  /\ main' = SubSeq(main, 1, branch[t].base) \o branch[t].own
  /\ branch' = [branch EXCEPT ![t].base = Len(main'), ![t].own = <<>>]
  /\ UNCHANGED <<made, tree, edits, head, stopped, onto, saved, picked, phase, syncing, fate>>

\* Slip: a merge that is refused is taken for done.
MergeUnchecked(t) ==
  /\ op[t] = "merge" /\ op' = [op EXCEPT ![t] = "ask"]
  /\ IF branch[t].base = Len(main)
     THEN /\ main' = main \o branch[t].own
          /\ branch' = [branch EXCEPT ![t].base = Len(main'), ![t].own = <<>>]
     ELSE UNCHANGED <<main, branch>>
  /\ UNCHANGED <<made, tree, edits, head, stopped, onto, saved, picked, phase, syncing, fate>>

\* ... and merge --ff-only, which fails when main has moved since, unless there is
\* nothing to merge.
LandMerge(t) ==
  /\ op[t] = "merge"
  /\ IF branch[t].there /\ branch[t].base = Len(main)
     THEN /\ main' = main \o branch[t].own /\ op' = [op EXCEPT ![t] = "ask"]
          /\ branch' = [branch EXCEPT ![t].base = Len(main'), ![t].own = <<>>]
     ELSE /\ op' = [op EXCEPT ![t] = IF branch[t].there /\ branch[t].own = <<>> THEN "ask" ELSE "idle"]
          /\ UNCHANGED <<main, branch>>
  /\ UNCHANGED <<made, tree, edits, head, stopped, onto, saved, picked, phase, syncing, fate>>

\* The worktree and the branch stay: what was committed since is not late.
Stays(t) == late' = late \ (Range(branch[t].own) \cup Range(picked[t]))

KeepTree(t) ==
  /\ op[t] = "ask" /\ op' = [op EXCEPT ![t] = "idle"] /\ Stays(t)
  /\ UNCHANGED <<main, made, repo, phase, syncing, givenUp>>

\* What is in a worktree and nowhere else.
InTree(t) == Range(picked[t]) \cup Range(saved[t].own)

\* A driver without its worktree stops for good: a task is resumed only where it is.
TreeGoes(t, to) ==
  /\ tree' = [tree EXCEPT ![t] = to] /\ edits' = [edits EXCEPT ![t] = FALSE]
  /\ head' = [head EXCEPT ![t] = "branch"] /\ stopped' = [stopped EXCEPT ![t] = FALSE]
  /\ saved' = [saved EXCEPT ![t] = NoBranch] /\ picked' = [picked EXCEPT ![t] = <<>>]
  /\ onto' = [onto EXCEPT ![t] = 0] /\ Goes(t, "new") /\ UNCHANGED branch

\* What git has on its list of worktrees.
Listed(t) == tree[t] \in {"here", "gone"}

BeginRemoval(t) ==
  /\ \/ /\ op[t] = "ask" /\ op' = [op EXCEPT ![t] = "drop"]
        /\ late' = late \cup InTree(t) /\ UNCHANGED givenUp
     \/ /\ op[t] \in {"idle", "cut"} /\ branch[t].there /\ op' = [op EXCEPT ![t] = "discard"]
        /\ givenUp' = givenUp \cup Range(branch[t].own) \cup InTree(t) /\ UNCHANGED late
  /\ UNCHANGED <<main, made, syncing>>

\* Slip: worktrees deleted by hand are not pruned.
RemoveOnly(t) ==
  /\ BeginRemoval(t)
  /\ IF tree[t] = "here" THEN TreeGoes(t, "none") ELSE UNCHANGED <<repo, phase>>

\* worktree remove --force and worktree prune, after the land or by the command remove.
\* Where somebody is writing, git forgets the worktree and cannot delete the directory;
\* a husk it does not know.
RemoveTree(t) ==
  /\ BeginRemoval(t)
  /\ \E to \in {"none", "husk"} :
       /\ to = "husk" => tree[t] \in {"here", "husk"}
       /\ tree[t] = "husk" => to = "husk"
       /\ TreeGoes(t, to)

\* A locked worktree git neither removes nor prunes, and nobody looks at what it returned.
RemovalRefused(t) ==
  /\ Listed(t)
  /\ \/ op[t] = "ask" /\ Stays(t)
     \/ op[t] = "idle" /\ UNCHANGED late
  /\ op' = [op EXCEPT ![t] = "refused"]
  /\ UNCHANGED <<main, made, repo, phase, syncing, givenUp>>

\* branch -D, which git refuses while a worktree has the branch: the command fails.
DeleteBranch(t) ==
  /\ op[t] \in {"drop", "discard", "refused"} /\ op' = [op EXCEPT ![t] = "idle"]
  /\ branch' = IF Listed(t) THEN branch ELSE [branch EXCEPT ![t] = NoBranch]
  /\ UNCHANGED <<main, made, tree, edits, head, stopped, onto, saved, picked, phase, syncing, fate>>

\* The command is interrupted between two git calls; the branch may be left alone.
Interrupt(t) ==
  /\ op[t] \in {"merge", "drop", "discard", "refused"}
  /\ op' = [op EXCEPT ![t] = IF op[t] \in {"drop", "discard"} THEN "cut" ELSE "idle"]
  /\ UNCHANGED <<main, made, repo, phase, syncing, fate>>

\* cmd_sync: the worktrees git lists, up to the first one that cannot be rebased.
SyncBegin ==
  /\ syncing = {} /\ syncing' = {t \in Task : Listed(t)}
  /\ UNCHANGED <<main, made, repo, phase, op, fate>>

SyncNext(t) ==
  /\ t \in syncing
  /\ \/ Rebases(t) /\ syncing' = syncing \ {t}
     \/ (Conflicts(t) \/ Refuses(t)) /\ syncing' = {}
  /\ UNCHANGED <<main, made, phase, op, fate>>

\* A rebase that has stopped is resolved ...
Continue(t) ==
  /\ head[t] = "detached"
  /\ head' = [head EXCEPT ![t] = "branch"] /\ stopped' = [stopped EXCEPT ![t] = FALSE]
  /\ branch' = [branch EXCEPT ![t].base = onto[t], ![t].own = picked[t] \o saved[t].own]
  /\ edits' = [edits EXCEPT ![t] = FALSE]
  /\ saved' = [saved EXCEPT ![t] = NoBranch] /\ picked' = [picked EXCEPT ![t] = <<>>]
  /\ onto' = [onto EXCEPT ![t] = 0]
  /\ UNCHANGED <<main, made, tree, phase, command, fate>>

\* ... or given up, with what was committed since; the branch is what it was.
Abort(t) ==
  /\ stopped[t]
  /\ head' = [head EXCEPT ![t] = "branch"] /\ stopped' = [stopped EXCEPT ![t] = FALSE]
  /\ edits' = [edits EXCEPT ![t] = FALSE] /\ onto' = [onto EXCEPT ![t] = 0]
  /\ saved' = [saved EXCEPT ![t] = NoBranch] /\ picked' = [picked EXCEPT ![t] = <<>>]
  /\ IF head[t] = "detached"
     THEN givenUp' = givenUp \cup Range(picked[t]) /\ UNCHANGED <<branch, late>>
     ELSE /\ givenUp' = givenUp \cup Range(branch[t].own)
          /\ branch' = [branch EXCEPT ![t] = saved[t]]
          /\ late' = IF op[t] = "ask" THEN late \cup Range(saved[t].own) ELSE late
  /\ UNCHANGED <<main, made, tree, phase, command>>

\* The directory is deleted, also the one a removal has left.
DeleteByHand(t) ==
  /\ \/ tree[t] = "here" /\ TreeGoes(t, "gone")
     \/ tree[t] = "husk" /\ TreeGoes(t, "none")
  /\ givenUp' = givenUp \cup (InTree(t) \ Range(branch[t].own))
  /\ UNCHANGED <<main, made, command, late>>

\* Someone else commits on main.
MainMoves ==
  /\ made < MaxPatches /\ made' = made + 1 /\ main' = Append(main, made')
  /\ UNCHANGED <<repo, phase, command, fate>>

-----------------------------------------------------------------------------
Drives(t) ==
  \/ Start(t) \/ InitNode(t) \/ BeginBatch(t) \/ Edit(t) \/ CloseBatch(t)
  \/ FinalFix(t)
Operates(t) ==
  \/ LandRebase(t) \/ LandMerge(t) \/ KeepTree(t) \/ RemoveTree(t) \/ RemovalRefused(t)
  \/ DeleteBranch(t)
  \/ Interrupt(t) \/ SyncNext(t) \/ Continue(t) \/ Abort(t) \/ DeleteByHand(t)

Next == SyncBegin \/ MainMoves \/ \E t \in Task : Drives(t) \/ Operates(t)

Spec == Init /\ [][Next]_vars

-----------------------------------------------------------------------------
(* Properties.                                                             *)

\* Whoever lands, syncs or commits at the same time: main loses no commit and none of
\* its commits is replaced.
MainOnlyGrows ==
  [][Len(main) <= Len(main') /\ \A i \in 1..Len(main) : main'[i] = main[i]]_main

\* A patch is on main, or on the branch of its task, or in its worktree (on the HEAD, or
\* with a rebase that can be aborted); or the operator gave it up; or its driver
\* committed it between the merge of the land and the removal of the branch.
Held(t) == (IF branch[t].there THEN Range(branch[t].own) ELSE {}) \cup InTree(t)
OnMain(p) == p \in Range(main)
NothingLost == \A p \in 1..made : OnMain(p) \/ p \in late \cup givenUp \/ \E t \in Task : p \in Held(t)

\* A removal, after a land or by the command remove, that is not interrupted takes both
\* the worktree and the branch, or, when git refuses the one, neither: also after the
\* directory was deleted by hand (worktree_runtime.py:922-934, 1017-1033).
RemovalIsWhole ==
  [][\A t \in Task : op[t] \in {"drop", "discard", "refused"} /\ op'[t] = "idle"
       => IF op[t] = "refused" THEN Listed(t)' /\ branch'[t].there
                               ELSE ~Listed(t)' /\ ~branch'[t].there]_op

\* A worktree always has its branch; a branch that git lists in no worktree is there only
\* while it is being removed, or when the removal was interrupted.
BranchHasTree ==
  \A t \in Task :
    /\ Listed(t) => branch[t].there
    /\ branch[t].there /\ ~Listed(t) => op[t] \in {"drop", "discard", "cut"}

-----------------------------------------------------------------------------
TaskSymmetry == Permutations(Task)
=============================================================================
