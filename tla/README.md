# MonkeForge in TLA+

MonkeForge drives coding agents through a fixed pipeline: an interview turns a
request into a brief, a proposer writes a plan, critics debate it, a judge cuts it
into batches, an implementer builds the batches under review, gates check the
result, and a human is asked whenever a step cannot decide. The pipeline is a
LangGraph state machine (`pipeline_graph/graph.py`) whose state is checkpointed
after every node, so that a run survives a pause, an exception or a crash.

This directory holds TLA+ models of that pipeline, TLC configurations that check
them, and TLAPS proofs about every module. Paths below are relative to the root of the
repository.

| file | what it is |
| --- | --- |
| `BatchLoop.tla` | the loop that builds, reviews, fixes and commits batches |
| `BatchLedger.tla` | what that loop promises, as an abstract specification |
| `BatchLoopProofs.tla` | TLAPS proofs about `BatchLoop` |
| `Gates.tla` | the visual, perf and final gates and the wrap-up |
| `GatesProofs.tla` | TLAPS proofs about `Gates` |
| `Debate.tla` | plan, effort, debate, summary, judge, approval of the plan |
| `DebateProofs.tla` | TLAPS proofs about `Debate` |
| `Intake.tla` | the interview, the requirement gaps and the re-intake |
| `IntakeProofs.tla` | TLAPS proofs about `Intake` |
| `AnswerChannel.tla` | a question, the terminal and the chat bot that may answer it |
| `PauseNotice.tla` | webhook or bot: who announces a pause |
| `BotProofs.tla` | TLAPS proofs about `AnswerChannel` and `PauseNotice` |
| `NotifyQueue.tla` | the notification daemon: socket, queue, spool, restart |
| `NotifyQueueProofs.tla` | TLAPS proofs about `NotifyQueue` |
| `Worktrees.tla` | tasks in git worktrees, their landing and removal |
| `WorktreesProofs.tla` | TLAPS proofs about `Worktrees` |
| `DebateFile.tla` | the debate file, condensed while the debate goes on |
| `DebateFileProofs.tla` | TLAPS proofs about `DebateFile` |
| `*.cfg` | one TLC instance each; the first line says which |
| `PROJECT.json` | which definition models which lines, the runs, hazards and theorems |

To check an instance: `tlc -config BatchLoop.cfg BatchLoop.tla`; to check proofs:
`tlapm BatchLoopProofs.tla`. `BatchLoopLive` is a second instance of `BatchLoop`,
`VisualGate` and `BothGates` are instances of `Gates`, and `ClaimCatchUp` is one of
`PauseNotice` that ends in a counterexample.

## 1. The system

### Components

**Graph, state and routers** (`graph.py`, `state.py`). Nodes are Python functions
from the state to a delta. The checkpointer merges the delta into the channels of
`PipelineState` and then a router picks the next node. Every router looks at
`escalation` first. A crash loses the delta of the node that was running and nothing
else of the state, but everything the node did to files, to git and to the working
copy stays. *Correct when* no order of answers and crashes leads around a step that
had to happen.

**Escalations** (`nodes/common.py`). Any node may set `escalation` to a text. The
`escalate` node interrupts the graph, a human picks from a menu chosen by substrings
of that text, and `escalate()` turns the answer into a delta;
`route_escalation_return` picks where to go on from the channels alone, since
nothing records which node asked. `instrument()` wraps every node and turns an
exception into an escalation. *Hard*: where an answer resumes depends on channels
that other nodes, other answers and `redo` reset in different combinations.
*Correct when* each answer does what its menu says and no guard is bypassed.

**Interview and requirement gaps** (`nodes/intake.py`, `requirements_gap.py`,
`intake_materialize.py`). State: `intake_round`, `intake_done`, the questions file,
the transcript, the brief, and a gap file with a status line (active, suspended,
waived). Operations: ask, wait for answers, close the gaps, waive them, seed a brief,
archive a transcript before a re-intake. *Hard*: two files and the checkpoint are
written one after the other; a gap is raised by the debate and closed by another
component. *Correct when* a gap is closed only by answers given to it or by a human
who waives it on record, and no debate runs without a brief.

**Planning and debate** (`nodes/planning.py`, `nodes/debate.py`). State: the round,
its bonus, the verdicts and open blockers of two critics, their trend, the plan and
the debate file. Operations: plan, choose the effort, a critique by each critic, a
reply, summary, judge, approval. *Hard*: five conditions (requirements, convergence,
stuck, thrashing, exhausted) can hold in one round and their order matters; the last
round verifies and must not be replied to. *Correct when* what reaches the judge has
converged or a human said so, and the debate ends.

**Batch loop** (`nodes/implement.py`, `nodes/review.py`). State: `batch_idx`,
`code_verdict`, the open blockers, `test_fix_attempt`, `fix_cycle`, the base commit
and the baseline of failing tests; the git tree, index and commits. Operations:
implement until the tests pass, review, fix, verify, commit. *Hard*: the commit and
the checkpoint are two steps; agents may commit; leftovers of a crash are in the tree;
the database the tests need comes and goes. *Correct when* every closed batch has its
own reviewed commit.

**Gates** (`nodes/quality_gates.py`, `nodes/finalize.py`). State: cycle counters,
plateau counters, verdicts and blocker counts of the visual and the perf gate, the
ledger of degradations. Operations: render, review, fix; measure, review, fix; the
final run of all suites; the report. *Hard*: each gate may be waived, skipped, redone
or crash, and they share one resume router. *Correct when* no gate that applies is
skipped, the fix loops are bounded, and what is compromised is reported.

**Command line and driver** (`run.py`). `start`, `resume`, `redo`, `status`; the
stream loop runs nodes until the graph pauses, and pauses in the terminal or exits.
`redo` rewrites channels and repositions the checkpoint. *Hard*: the set of channels
it resets.

**Answer channel** (`pending_answer.py`, `bot/bot.py`, the pause of `run.py`). State:
`current.json` with the pid that drives the task, the pending-answer file, the pause-wait
mark. Operations: the terminal marks, drops, polls and takes; the bot stamps, places,
looks, withdraws, refuses, or starts `run.py resume`. *Hard*: several processes on the
same files, no lock, and each read is a step before the unlink it decides. *Correct when*
an answer reaches the pause it was given for, no answer is left behind, and a checkpoint
has one driver.

**Announcement of a pause** (`events.py`, the poller of `bot/bot.py`, `_ensure_bot`).
State: the event log, `.bot.pid`, `.bot.ready`, the saved cursor. Operations: append and
decide; start, recognise a crash restart, read, post, commit, become ready. *Hard*: the
decision follows the append, the sentinel follows the cursor, and the bot may die
in between. *Correct when* each pause is announced by one of them.

**Notification daemon** (`notify_daemon.py`, `_push` of `events.py`,
`_ensure_notify_daemon` of `run.py`). State: a socket with its backlog, a queue by priority
and arrival, the times of the last sends, a heartbeat with a pid, a queue file, a spool
directory. Operations: hand over or spool a notice; start, load, accept, send, requeue, give
up, stop, persist. *Hard*: the daemon accepts only when its queue is empty; the queue file
and the spool are read before they are unlinked; the heartbeat comes only after the
first pass, so two daemons may start. *Correct when* no notice is sent twice or lost by a
clean restart, notices of a priority keep their order, and a stopped daemon ends.

**Worktrees** (`worktree_runtime.py`, the git calls of `init_node`, `implement`,
`close_batch` and `final_check`). State: a branch and a worktree per task, `main`, a
rebase that may have stopped. Operations: create or reuse, commit, land (rebase, merge,
remove), sync all, remove. *Hard*: each command is a sequence of git calls that may stop in
between, and the driver of the task works on. *Correct when* `main` only grows, no commit
is lost unless the operator gave it up, and a removed task can be started again.

**Condenser** (`condenser.py`, `run_agent` of `agents.py`, the windows of `config.py`).
State: the debate file and its archive. Operations: collapse old rounds before an
agent is called, report what is stuck or thrashing, build the ledger. *Hard*: archive,
truncation, rewrite and the next section are separate writes, and a crash runs the node
again. *Correct when* nothing said is lost and the debate is judged as if nothing had
been condensed.

**Agents** (`agents.py`), **test runner** (`test_runner.py`), **eyes** (`eyes/`):
subprocesses and text processing with retries and timeouts of their own.

**Configuration, metrics, chat formatting, repository selection, prompts**: no
behaviour that a property would be about.

### How they interact

```
intake_ask <-> intake_wait -> plan -> checkpoint_effort -> debate_tech -> debate_ux
     ^                                                        ^               |
     | re-intake (gap file)                                   +- debate_reply <
     |                                                                        |
     +------------- escalate <---- any node ----- summary -> judge -> checkpoint_plan
                                                                        |
   wrap_up <- final_check <- perf gate <- visual gate <- close_batch <- implement
                                                             ^   |        |
                                                             |   +--------+
                                                             +-- code_review <-> code_fix, code_verify
```

The nodes share the channels of the state, files under `docs/`, and the working copy.
A pause is appended to the event log, announced by webhook or bot, and answered in the
terminal, through the answer file, or by another `run.py resume`.
Everything else (agents, test suites, browser, database) is an environment that
answers in any way the code is prepared to read.

## 2. How code becomes TLA+

The same conventions hold in all modules.

- `next` is the node the checkpointer runs next. A node is one or more actions, one
  for each way it returns: the guard is `next = "<node>"` and the conditions on the
  way to that return; the primed channels are its delta; `Step` applies the
  router behind it, which looks at the escalation first.
- The channels a module's nodes read or write are one record (`st`, `g`, `d`, `s`).
  A channel that only carries text is left out, a text with several meanings to the
  code is the class it falls in. `Escalations` are the classes that have different
  menus or different effects in `escalate()`.
- `Answer...` actions are `escalate()` and `route_escalation_return` together. Typed
  text that is in no menu is the action `AnswerInvalid`: the code returns the
  escalation unchanged and still follows the edge out of `escalate`.
- `NodeException` is an exception in a node (`instrument`), `ProcessCrash` the death
  of the process and `resume`. Both drop the delta and keep any part of what the node
  did outside the state (`Partial`, `PartialDesk`, `PartialGap`).
- An agent, a suite or a human is the set of results the code distinguishes, chosen
  with `\E`.
- History variables (`touched`, `judged`, `past`, `stuck`, `blind`) record what happened for the
  properties to speak of; no guard reads them.

### `BatchLoop`

`repo` is the working copy: `tree` holds the batches whose edits are uncommitted (0
stands for leftovers nobody's batch made), `ahead` those committed after the base
commit of the batch, `wip` those the code committed as leftovers behind the base,
`shipped[k]` the edits in the commits labelled with batch k, `failing` the tests that fail.
The commit of leftovers may be refused by a hook, which nobody looks at (`StuckRepo`): the leftovers
are then still in the tree when the batch begins, and `stuck` remembers it.
`implement.py` is `ImplementWaived` to `ImplementRefusesBranch` and the outcomes of
the test gate; `review.py` is `Review`; `close_batch` is `Close`. The loop starts
with the decomposition approved and ends in `gates`, entered at `implement` or, by answers of earlier phases, at
`code_review` and `close_batch`, with what a redone run may have kept, and with an escalation still
pending if the answer that led here was mistyped (`Debate` reaches such states).

### `BatchLedger`

Batches committed, closed in order, handed over or stopped. `ImplementsLedger` maps
`closed` to `batch_idx`, `committed` to the batches with a labelled commit, and `over` to the
node the loop left for. A crash between the commit and the checkpoint is `Commit`.

### `Gates`

`g` are the channels of both gates, `ledger` the degradations, `code` whether
fixes are uncommitted and how many regressions a profile would show. `build` is the
batch loop as one node. `g.tests` is what the last `final_check` found, red and the three kinds of
no result (`Unknowns`) included. `RedoVisual` is `redo --from visual`; `RedoBuild` stands for
the redo commands that build everything again and keep the channels of the gates.

### `Debate`

`d` are the channels of the debate, `files` whether there is a plan and whether the
last round of the debate file blames the requirements. The critics' rounds, the trend
detection and the cap follow `debate.py`; the trend is any outcome once there have been
enough rounds for one. `checkpoint_plan` is a pause of its own, with approve and reject.
The three `redo` commands that reach these nodes are actions; each may also
change the effort.

### `Intake`

`gap` is the gap file with its status and the number of its gaps, `desk` the brief,
the questions and the number of answers in the transcript. The debate is one node that raises
gaps, escalates or decides. Writes to files happen before the delta is checkpointed, and
`PartialDesk` and `PartialGap` are what a death in between leaves. The number of answers is what
`ANSWER_RE` finds, so that an interviewer may raise it by writing questions with empty answers (`Asked`);
`past.found` counts what came in since the interview was opened last. The three redo commands of
these nodes are actions. `RedoDebate` enters the debate as if the plan had been made; `past.plan`
tells whether it has.

### `AnswerChannel`

Processes here are concurrent, so an action is what one process does between two accesses
to a shared file, or between two `await`s of the bot (`Awaits`: while one click writes its
file no other is served). `cli` is where the terminal is, `click[c]` where the delivery of
a press is, `current` the live pid `current.json` shows. That file is truncated and then
written (`WriteCurrent`); a torn file, an idle record and a dead pid read alike and are
`Nobody`. Time stamps are only ever compared with the mark: `stale` is the set of clicks
stamped before it. The mark is left in the model when the code unlinks it
(`end_pause_wait`), since nothing is taken before the next one. `Mark`, `Look`, `Drop` are
`begin_pause_wait`; `Read`, `Take` are `take_pending_answer`; `Press`, `Place`, `Poll` are
`_deliver_answer`; `Check` is the validation at the edge of `resume`, and `Continue` is the
resume of the graph. `cli = "gone"` may come back with `Start`, a `resume` typed by a human.
What two drivers do to one checkpoint is not a question of this module: each of them goes on,
and the checkpoint holds the last question either has asked.

### `PauseNotice`

Pauses are numbers in the order of the log and the cursor counts them. `Append` and `Decide` are the two
halves of `emit()`. `OnReady` is the login, or a gateway reconnect that finds no live poller; `Greet` is the
start of `_poller` and `PollerEnds` its end without a channel or with a refused greeting; `Relay`,
`EndOfLog`, `Truncate`, `Commit` and `WriteReady` are one pass of it. The cursor file is cut and then
written, and `NoCursor` stands for a file that is missing or empty. `greeted` records who was appended while
the bot was alive. `EnsureBot` is a start by `run.py`, `StartBot` one by the operator. `blind` records how
the place in the log, or the sign that there is something to catch up with, was lost. A reconnect that finds
a live poller is no step. Names that `AnswerChannel` has as well begin with `Notice` here, since one proof
module extends both; they share no variable.

### `NotifyQueue`

Daemons are processes, at most two at once. `pc[d]` walks through `run_daemon`: `Bind`,
`ReadFile`, `UnlinkFile`, `TakeSpool`, `Loaded`, then the loop (`Accept`, `Send` with its three
answers, `Beat`), then `Close` and `Persist`. `Unreadable` is a payload cut at 65536 bytes or no JSON,
`PersistFails` a queue file that could not be written. `sock` and `hb` are the socket path and the living
pid in the heartbeat. The heap ordered by (priority, `_seq`), the queue file that is
numbered again when it is loaded, and the spool files named by the millisecond are sets
whose members carry a stamp above those of the members that were there. `recent` is the number of
sends in the window and `Tick` lets one of them leave it. `Connect` is taken by the system
into the backlog whatever the daemon does. `cut` are the notices the code gives up: in a backlog that is closed,
in a spool file that is overwritten within a millisecond, unreadable, or in a queue that could not be written.

### `Worktrees`

A commit is the patch it makes; a branch is how much of `main` it is based on and its patches above. `head`
tells whether HEAD names the branch; a rebase that stops in a conflict leaves it detached and keeps the
branch as it was (`saved`) for `Abort`. `LandRebase`, `LandMerge`, `KeepTree`, `RemoveTree` and
`DeleteBranch` are the git calls of `land_to_main`, in `op[t]`; `Interrupt` ends a command between two of
them. Nobody looks at what `worktree remove` returned: a locked worktree stays (`RemovalRefused`), and where
an agent is writing git forgets the worktree and its directory survives (a *husk*), which `start` takes for
a worktree to reuse until somebody deletes it. `SyncBegin` and `SyncNext` are `cmd_sync`. `InitNode`,
`BeginBatch`, `CloseBatch` and `FinalFix` are the four places where the driver commits, each under the guard
of its node. A driver whose guard fails stops and is resumed, or the task is started again. A rebase that
stops does so at its first patch. Continue, abort and deletion by hand are the operator's own git commands.
Commits of others on `main` are `MainMoves`.

### `DebateFile`

A section is its round, who wrote it, whether it ships, the blockers it raises, and the items it calls
resolved: a reply by their ids, the designer by their numbers in the ledger (`closed` and `still`, for
`RESOLVED n` and `STILL OPEN n`). A number means the n-th of the designer's items of earlier rounds in the
file that is read (`ByNumber`). A section names its blockers in the order of their ids. `said` is the
sequence of all sections written, and a file is the set of the places in it of the sections that are in the
file: sections are appended to a file or leave it, and are never changed or moved. The functions of
`condenser.py` are operators on such sets. `Read` is `from_state`; `Archive`, `Truncate` and `Rewrite` are
what `run_agent` does over budget; `Criticise` and `Reply` append; `Commit` is the checkpoint. `All` is the
file nobody condensed, which the properties compare with. A crash while the file is written leaves a prefix
of it (`torn`); the properties about what can be read from it speak of a file that is whole
and has been condensed.

## 3. What the runs check

| run | instance | what it shows |
| --- | --- | --- |
| `BatchLoop` | 2 batches, 1 test, 1 retry, 1 fix cycle, flaky database, agents that commit, refused commits, typos, 1 crash | every way into `close_batch` requires that no blocker is open; every batch passed has a commit of its own; a batch nobody intervened in is reviewed, on its whole diff, and its commit holds only its own edits, unless the commit of leftovers was refused |
| `BatchLoopLive` | 2 batches, 1 crash | the loop asks, leaves or stops again and again, because every node it runs on its own leaves less to do; it implements `BatchLedger` |
| `VisualGate` | visual gate, 3 cycles, plateau 2, 2 blockers, typos, 1 redo | an unattended run wraps up without a blocker, and with tests that were not found red; what is compromised is on the ledger |
| `BothGates` | both gates, 1 cycle each, plateau 2, typos | no gate that applies is bypassed; both fix loops come to an end |
| `Debate` | 2 rounds and 2 more by `continue`, both critics, 1 blocker, trend after 2 rounds, 1 re-intake, typos, redo | an unattended debate is summed up only converged; no reply follows a verification; no undebated plan reaches the judge; the critics never argue for ever |
| `Intake` | 2 rounds, 2 gaps, 2 answers, 1 counted re-intake, typos | gaps are closed by answers found since the interview was opened or waived on record; a re-opened interview sees its gaps; who comes past the plan has a brief |
| `AnswerChannel` | 2 clicks, 2 questions, 2 looks, crashes of both sides | a stale click never answers; no answer file outlives its delivery; no click starts a driver beside one on record; every click is told its outcome |
| `PauseNotice` | 3 pauses, 2 deaths of the bot, 1 refused card or greeting, automatic restarts | what is left to a ready bot is posted while it lives, and over deaths by the catch-up unless the sign was lost; cards are repeated only after an error or a death |
| `NotifyQueue` | 2 daemons, 2 notices of 2 priorities, 2 starts, 2 faults (stop, kill, 429, failed request, unreadable payload, unwritable queue file) | nothing is sent twice; clean restarts lose nothing but what the code gives up (`cut`); order within a priority survives a 429 and a restart; a handed notice is settled and a stopped daemon ends |
| `Worktrees` | 2 tasks, 3 commits | `main` only grows; no patch is lost unless given up or committed after the merge of its land; an uninterrupted removal takes worktree and branch, or neither |
| `DebateFile` | both critics with 1 item each, 3 rounds, 4 sections, the last 2 rounds kept, 1 crash | what was said stays in the file or the archive; the kept rounds are verbatim; stuck debates, trends and the ledger (but for misread numbers) read as in the whole file |
| `ClaimCatchUp` | small | checks the comment that the next bot posts what a dead one left, and finds `run.py` restarting it as new (section 6) |

The type invariants are left to the proofs, which establish them for every instance, and so are
`FixBudget`, `FixBudgets`, `Reachable`, `BranchHasTree` and `WorkShrinks` of `Gates` and `Debate`: TLC
agreed with them while the modules were written. The types of `DebateFile` also say that no file is
written anew when it cannot be condensed further.

### The bounds and why they suffice

Two batches are the least with a *next* batch, which is where stale state bites:
whatever a batch leaves behind is inherited by exactly one successor, and the third
inherits nothing the second does not. One retry and one fix cycle give a first,
a last and an exhausted attempt; the cases `FixCycles = 0` and larger budgets are
covered by the proofs. One crash may hit any node; a second one meets
a state the first one could have left. In `Gates` the default budgets are used where
the gate's counters matter (`VisualGate`), and the combination of both gates is checked with one cycle
each. In `Debate` two rounds are a round that may be replied to and a
verification; a bonus of two is one `continue`. Two gaps are the least for which the count of
answers is not the presence of one. `TopRound`, `MaxBonus`, `MaxBlockers`,
`MaxGaps`, `MaxAnswers`, `Crashes` and `Redos` bound counters the code does not bound;
`Gates` in `AnswerChannel`, `MaxPauses`, `MaxCrashes` and `MaxErrors` do the same there;
`CapAt` saturates a counter where nothing tells higher values apart.

Two clicks are the least that can overwrite or unlink each other's file, two questions the least with a late
click. The 120 looks of a delivery are two: a look that is not the last and the last. Three pauses are one
before, one in and one after the window of a first pass; the second death of the bot falls in the catch-up
after the first, or while it writes its cursor. `MaxErrors` counts refused cards and greetings.

In `NotifyQueue` two daemons are the least that can be there at once, and with one daemon
at a time the second start is the restart; two notices are the least with an order, and a
window of one send is full after the first. In `Worktrees` two tasks are the least that can
land over each other. Three commits give one that is on `main`, one that is rebased onto it
and one that comes late. The case of a dirty worktree in which a rebase has stopped and
been committed to, and a task is then started with `--auto`, takes a fourth; the proofs
cover it. In `DebateFile` three rounds are one more than are kept, and the
windows of the yaml file are wider than that, so that the clamp matters. With one item of the designer a number
means it or nothing; that it may stand for another item is left to the proof.

`CHECK_DEADLOCK` is off in `NotifyQueue`, `Worktrees` and `DebateFile`: once their bounds on
starts, commits and sections are spent there may be nothing left to do. It is on in
all others. Where one of these ends (a finished run, or a part another
module continues) it stutters by an action named `Left` or `Ended`.

### Fairness

`WF_vars(Nodes)` (`Node` in `Gates` and `Debate`): the stream loop of `run.py` runs the
next node until the graph pauses or ends, so a node that can run does. Nothing is
assumed of the human, of redo or of crashes, and nothing of which outcome a node
has: a reviewer may object for ever. What the liveness properties
(`AsksOrLeaves`, `GatesAskOrEnd`, `DebateDecides`) say is therefore that the counters of the
code end each loop, also when exceptions interrupt it; they do not
say that a run gets finished. `Gates` and `Debate` allow any number of crashes: weak fairness of the
nodes then also means that the process does not die for ever at the same node, since a
crash leaves `next` where it is and a node that is enabled for ever is run.
`Intake` waits for a human at every turn and has no liveness property.

In `AnswerChannel` the event loop of the bot comes round to each delivery (`Place`, `Poll`),
and its wait for a resume has a timeout (`Kill` is `RESUME_TIMEOUT`). The terminal,
the human and the agents owe nothing. In `PauseNotice` the poller of a
bot wakes up every `POLL_SECONDS`; nobody has to start one, and no login, greeting or reconnect has to come.

In `NotifyQueue` a daemon that is not killed goes on (`Work`): its request to Discord has a timeout, so each
send gets an answer or none within bounded time. Time passes (`Tick`). Nobody has to emit, start or stop
anything. `Worktrees` and `DebateFile` state no fairness: whether a driver or a human goes on is not up to
the code.

## 4. What is proved

### The batch loop

`BatchLoopProofs` proves, for every number of batches, retries, cycles, tests and
crashes, from `BatchLoopAssumption` alone:

| theorem | property |
| --- | --- |
| `TypeCorrect` | `TypeOK` |
| `BudgetKept` | `FixBudget` |
| `BlockersBlock` | `OpenBlockersBlockClose` |
| `ClosedHasCommit` | `ClosedIsCommitted` |
| `AloneIsReviewed` | `UnattendedCloseIsReviewed` |
| `AloneDiffIsWhole` | `UnattendedDiffIsWhole` |
| `AloneCommitIsOwn` | `UnattendedCommitIsOwn` |
| `LoopImplementsLedger` | `ImplementsLedger` |
| `LoopProgresses` | `WorkShrinks` |

The argument has three layers.

1. *Types* are not inductive alone. `TypeInv` adds that a node of the loop runs only
   while there is a batch (`HasBatch`), because the batch's number indexes `shipped`, and
   the fix budget, because it bounds the cycle counter. For each group of actions a
   lemma (`ImplementStep`, `ReviewStep`, `CloseStep`, `HumanStep`, `FailureStep`) states a *frame*: the
   types, and which parts of the state the group leaves alone. Later proofs cite the
   frames and do not open the actions again.
2. *Commits.* `ShippedGrows` shows that no step takes edits out of a commit; a batch
   counts as closed only in `CloseBatch`, whose guard is a tree with something in it.
3. *Unattended batches.* `AloneInv` adds that a fix only ever follows a review of the
   same batch (`FixedIsJudged`): without it the verdict in the state could be that of the
   previous batch. `DiffInv` adds that no edit belongs to a batch that has not begun
   (`NoEditsAhead`) and that an untouched batch before its first attempt has none in the tree
   that the base commit could carry off (`UntouchedEdits`). `OwnInv` adds that such a batch has
   not waived its tests, so that its first attempt does make the base commit, after which only its
   own edits are in the tree, unless git refused that commit (`stuck`).

The refinement maps `Init` to `LedgerInit` and every step to a ledger action or a
stutter, using the frames; `CommitIsLedgerStep` is the case of a commit whose node then fails.

*Progress.* `Work` counts the nodes that may still run before the batch is closed or a human is asked:
the attempts left, then twice the cycles left. `RetryCounts` and `CyclesCount` say that a retry
and a fix use one up, and `LoopProgresses` that every node leaves less than it found, unless it asks, closes
the batch or leaves the loop. That the counters are bounded (`TypeInv`) is not enough: a review resets
`fix_cycle`, and only because no verification leads back to a review is the reset harmless.
With `WF_vars(Nodes)` this is why `AsksOrLeaves` holds; the last step, from a measure that
shrinks to "eventually", is induction, which the prover does not do.

### The gates

`GatesProofs` proves, for every budget, plateau, number of blockers and redos and whichever gates
apply, from `GatesAssumption`:

| theorem | property |
| --- | --- |
| `TypeCorrect` | `TypeOK` |
| `BudgetsKept` | `FixBudgets` |
| `NoGateSkipped` | `GatesNotSkipped` |
| `AloneShipsClean` | `UnattendedShipsClean` |
| `CompromisesOnRecord` | `ShipsOnRecord` |
| `GatesProgress` | `WorkShrinks` |

For each group of steps a lemma states what it does to the verdicts, the waivers and the ledger
and where it may lead. `PassedInv` says what has been passed by whoever stands behind a gate, also
when an answer put the run there. `CleanInv` carries the empty blocker list of an
unattended run from the visual gate to the wrap-up. About the tests `AloneShipsClean` says no more than the code
does: green, or without a result, never red or waived. `RecordInv` says that each waiver is on the
ledger from the step that gives it: the wrap-up reads the ledger only, and a later step
may have overwritten the verdict.

`Work` is three nodes for every cycle left to a gate and the nodes behind it. `NodeRoutes` says where each
node leads when it does not ask: forward, but for the two fixers, which use up a cycle that
`FixBudgets` says they have. `GatesProgress` follows, and with fairness `GatesAskOrEnd`.

### The debate

`DebateProofs` proves, for every number of rounds, blockers, re-intakes and bonus rounds, with and
without a designer, from `DebateAssumption`:

| theorem | property |
| --- | --- |
| `TypeCorrect` | `TypeOK` |
| `PlanConverged` | `UnattendedPlanConverged` |
| `VerificationIsLast` | `NoReplyAfterVerification` |
| `DebatedBeforeJudged` | `JudgeAfterDebate` |
| `DebateProgresses` | `WorkShrinks` |

`DecideEffect` is the heart: what follows from two critiques, by the order in which
requirements, trend, convergence and the cap are looked at. `ConvergedInv` adds the way into
the summary that is no decision (an effort level without a debate has no round yet) and that a designer
who takes no part has no blockers. `DebatedInv` is what makes the last theorem inductive: a pending retry
of the verdict and a pending escalation of the judge both stem from a verdict on a debated
plan, and the answers that reset the round are only offered by escalations of the debate, during which
neither can be pending; a mistyped answer that carries an old escalation back to `plan` does so only
when there was no round to lose.

`Work` is three nodes for every round left, and the nodes behind the debate. The round in which the cap is
passed must not begin a new one, whatever the bonus: `ReplyBelowTop` takes it from
`NoReplyAfterVerification`. With `RoundsCount`, which says that the reviewer and nobody else counts the
round, `DebateProgresses` follows, and with fairness `DebateDecides`.

### The interview

`IntakeProofs` proves, for every number of rounds, re-intakes, gaps and answers, from
`IntakeAssumption`:

| theorem | property |
| --- | --- |
| `TypeCorrect` | `TypeOK` |
| `GapsEarned` | `GapsAnsweredInThisInterview` |
| `WaiversRecorded` | `WaivedIsOnRecord` |
| `GapsShownAgain` | `ReopenedOnTheGaps` |
| `DebateHasBrief` | `DebatedOnABrief` |

`SettledInv` says that whatever suspends a gap, or may, finds the interview over for good: done, or with its
rounds spent and no question open, so that no answer leads back into it but the ones that reactivate the
gap. `BriefInv` follows the brief from the plan through every return to the debate. Both hold of runs that
came past the plan: a redo of the debate that is taken before it (`jumped`) breaks what they say, as it does
in the code (section 6), and once the plan is made it does not. `EarnedInv` compares the transcript with the
answers found since the interview was opened: the archive and the reset of the counter belong to one step,
and a death in the middle of it leaves fewer answers, never more. `WaivedIsOnRecord` is inductive as it
stands.

### The answer channel

`BotProofs` proves about `AnswerChannel`, for any number of clicks, questions and looks, from
`NamesDiffer` and `BoundsAreCounts`:

| theorem | property |
| --- | --- |
| `TypeCorrect` | `TypeOK` |
| `AnswersAreFresh` | `FreshAnswersOnly` |
| `NothingLeftBehind` | `NoAnswerLeftBehind` |
| `NoSecondDriver` | `NoSpawnOverOwner` |

The invariant adds to the properties `AnswerHeld` (the terminal has an answer exactly
between picker and graph, so that a new mark cannot make one stale) and `LooksLeft` (a
delivery that still waits has looks left, which the type of `polls` needs).

### The announcement of a pause

`BotProofs` proves about `PauseNotice`, for any number of pauses, deaths and errors, from
`PauseNoticeAssumption`:

| theorem | property |
| --- | --- |
| `NoticeTypesCorrect` | `NoticeTypeOK` |
| `CardsAreCounted` | `CardsPosted` |
| `HeldGetsItsCard` | `HeldIsPosted` |

`Cursors` relates the two cursors, the place in the pass and the log; `CardCount` says that what lies ahead
of the pass has been posted at most once for each error and death so far. For `HeldIsPosted` the invariant
is `Readiness` (where a pid, a sentinel and a cursor can be), `CatchesUp` (as long as no sign was lost,
`blind = {}`, every first pass after something was left to a bot is a crash restart with a cursor, after any
number of deaths) and `Posted` (what was left to the bot and lies behind the pass has its card). `BotDies`,
`EnsureBot`, `PollerEnds` and the torn cursor are where `blind` grows, each at the step that loses the sign.

### The notification daemon

`NotifyQueueProofs` proves, for any number of daemons, notices, starts and faults and any
rate, from `NotifyAssumption`:

| theorem | property |
| --- | --- |
| `TypeCorrect` | `TypeOK` |
| `NoNoticeTwice` | `SentOnce` |
| `ServerIsReached` | `Reachable` |
| `NoticesKept` | `Kept` |
| `TurnsKept` | `InTurn` |

The types need `HasRoom`: a send is begun only below the rate. `PlaceInv` says that while no
two daemons have lived at once there is one at most (`Solo`), that it holds each notice in one
place (`Holds`, `Apart`: the file and the queue share notices only between reading and
unlinking the file), and that a notice that was sent is in none of them (`Settled`). A notice can
then be sent only by taking it out of the one place it is in.

`InTurn` relates two numberings: `came`, when a notice was handed over, and `stamp`, which orders the queue,
the file and the spool and is given anew whenever a notice moves. `Numbered` says that the former is a
numbering. `TurnInv` says that where notices are kept together the two agree for those that came the same
way (`InOrder`), and that the places follow one another (`Ahead`): the file and the queue before the backlog
and the spool, what has been listed of the spool before what has been spooled since, and the notice that is
being sent before its like in the queue. A step then needs three facts: what it moves it moves to the end,
to the place it came from, or in the order it is in.

### The worktrees

`WorktreesProofs` proves, for any set of tasks and any number of commits:

| theorem | property |
| --- | --- |
| `TypeCorrect` | `TypeOK` |
| `MainIsKept` | `MainOnlyGrows` |
| `TreesHaveBranches` | `BranchHasTree` |
| `RemovalsAreWhole` | `RemovalIsWhole` |
| `PatchesKept` | `NothingLost` |

A lemma for each git call states its effect on the branch, the worktree and the places a patch
can be in; the proofs cite these. `LifeInv` relates the existence of branch and worktree to the
command under way: a removal that has got to the branch has no worktree that git lists, or was refused one and
cannot take the branch. `PatchInv` adds that a patch is in the hands of one task at most (`Apart`), that what is
above the base is not on `main` yet, in order (`Sorted`), and what a land has judged safe to remove
(`Judged`): between its merge and the removal every patch above the base is a late one.

### The debate file

`DebateFileProofs` proves, for any blockers, with and without a designer, for all windows and any number of
rounds, sections and crashes, from `DebateFileAssumption`:

| theorem | property |
| --- | --- |
| `TypeCorrect` | `TypeOK` |
| `NothingLost` | `NothingSaidIsLost` |
| `RecentKept` | `RecentVerbatim` |
| `StuckSeen` | `StuckIsStuck` |
| `LedgerKept` | `LedgerAgrees` |
| `TrendSeen` | `TrendIsSeen` |

`Archived` says that between the archive and the end of the rewrite all that was said is in the archive: the
rewrite uses the debate as it was read before, and nobody speaks in between. `FileInv` says that rounds
follow one another (`RoundsRise`), and that the file, and what a node has read of it, have the last rounds
(`KeepsRecent`) and everything said after anything they have (`KeepsEnd`). The last part carries the ledger,
which follows an item from the place it was raised at: `SignalsAgree` says that the signals of an item that
is not misread are those of the whole debate as far as the file goes, and what the file has lost came before
all of them. The second carries the window. That condensing a file that has been condensed before keeps both
(`CondensedKeeps`) is where *the last k rounds of a part* meet *the last k rounds*: `LastOfPart`,
`LastAreEnough`, `LastOfTail`, `LastIsUp`, `LastOfFewer` state what they have in common, for any finite set
of numbers. The greatest member of such a set exists because the least one of any set of naturals does,
which comes from the well-foundedness of `<`.

`TrendSeen` has the hypothesis of its property: no round of the window has shipped. Without it the
windows differ (section 6). Where the window is one round wide the two files need not
agree on it, and both report "unknown".

### Only model-checked

Liveness, which the prover does not do: `AsksOrLeaves`, `GatesAskOrEnd`, `DebateDecides`,
`EveryClickIsReported`, `HeldIsAnnounced`, `HandedIsSettled`, `StopEnds`. Of the first three the measure
is proved (`WorkShrinks`), of the others nothing. Every other property of a run that passes is proved.

## 5. What is not modelled

- The *content* of plans, reviews, diffs, screenshots and test reports: a review is
  its verdict and whether blockers are open. Edits never cancel out.
- The substrings a menu is chosen by. A reason is its class. Free text inside a reason
  (an agent's words, an exception) that happens to contain the words of another class is
  outside the models.
- `intake` and the batch loop within `Debate`, the debate within `Intake`, the batch
  loop within `Gates`: abstract nodes, each modelled in its own module. A run through all four is not.
- `start` on a task id that was used before, beyond the brief it finds.
- Agents' processes, timeouts, retries; the parsing of test output; the browser;
  configuration but for the windows of the debate.
- Of the worktrees: ports of databases, of which two tasks may share one (`worktree_runtime.py:101`), the
  copying of the brief and the environment of child processes, the guard against a dirty target of the
  merge. `land` does not ask whether the run has ended, and neither does the model.
- Of the condenser: budgets and their estimates, how a marker and the ledger are worded.
- What two drivers of the same checkpoint do to its channels. `AnswerChannel` shows how a
  second one comes about.
- The slash commands of the bot: `/resume` without a card delivers like a click, `/stop` kills
  the pid in `current.json` (`Die`, `Kill`). Two bots at once.
- An emitter that connects to the notification daemon and never closes: `conn.recv` has no timeout
  (`notify_daemon.py:294`), and the daemon would wait for it for ever.
- That a card is refused for ever: `MaxErrors` is finite, while the code tries such a card again in every pass
  and never gets past it (`bot.py:400`).

## 6. Known divergences

One is checked by a run that finds a counterexample (`findings` in `PROJECT.json` quotes
the sentence): a bot that died is restarted by `run.py` as if it were new, and the pauses left
to the dead one are never posted (`ClaimCatchUp`, `run.py:1995`).

Others were met while modelling. They are in the models unless marked *(not in a model)*.

*Batch loop.* An approval outlives its batch, so an answered escalation of the next batch closes it
unreviewed (`graph.py:285`). Leftovers whose own commit a hook refuses are committed with the batch
(`implement.py:185`, `438`), which `tests/test_no_git.py:9` rules out; `UnattendedCommitIsOwn` leaves that
out. Retrying a batch moves its base behind its own edits, out of sight of the review (`implement.py:172`).
A mistyped answer runs a node before the menu comes back (`common.py:1096`). An empty baseline counts as
none and is captured again later (`implement.py:95`), and a baseline may be captured after the batch's edits
when the database comes back (`implement.py:51`). A batch whose agent committed everything itself can never
be closed (`implement.py:446`), nor one whose process died between commit and checkpoint
(`implement.py:439`). "skip" before the batches exist sets `code_verdict` (`common.py:1304`). `redo --from
plan` and `debate` keep the waiver of the tests and the base of the batch they interrupt, so `implement`
skips the first batch of the new plan (`run.py:3353`, `implement.py:151`).

*Gates.* Fixes of the gates are staged and may never be committed (`quality_gates.py:471`). The texts of the
visual plateau and of the perf cap offer to accept and ship, and no answer does (`quality_gates.py:252`,
`quality_gates.py:447`, `common.py:1064`). `redo --from visual` keeps the plateau counters (`run.py:3264`).
`redo --from plan` and `debate` keep the perf verdict (`run.py:3340`). A final gate that measured nothing
passes and leaves no degradation (`finalize.py:306`), also when an earlier attempt was red
(`finalize.py:358`). An exception in `wrap_up` ends the run (`graph.py:417`). The perf baseline may be taken
from the changed code (`quality_gates.py:393`). A visual REJECT without tagged blockers passes
(`quality_gates.py:228`).

*Debate.* A rejected plan is built once its escalation is answered (`finalize.py:231`). Retrying a crashed
critic goes on to the verdict (`common.py:898`). Several answers keep the bonus rounds, so "ok" to an
escalation that names the designer, or "skip", goes back into the debate (`graph.py:272`). Without a verdict
of its own a critique counts as the last one in the file, and a rejecting verification without tagged
blockers converges (`debate.py:355`). A stale `retry_judge` can send a failed re-plan to the judge after a
redo (`run.py:3340`). `redo --from debate` goes through `plan`'s successor, and no channel records it. A
proposer that only prints does not replace an existing plan. An existing BATCHES file wins over what the
judge printed (`finalize.py:113`) *(not in a model)*.

*Intake.* After an interview that only failed, `proceed` plans again (`graph.py:264`). Ending a re-interview
early keeps the old brief, and the new answers are not in it (`intake.py:101`). Submitting without a new
answer burns a round. "stop" at an escalation of the interview without an active gap plans instead of
stopping (`common.py:1302`). A gap is closed by the count of answers, whatever they answer (`intake.py:70`),
and `ANSWER_RE` crosses line ends: after an empty `**A:**` the next line that is not blank counts as the
answer, so that questions alone may close a gap (`intake.py:55`; the docstring of `intake_answers` says
"non-empty answers"). `redo --from debate` before there is a plan enters the debate without the brief that
`_seed_brief` is there to guarantee (`intake.py:101`) and leaves `intake_done` false, so that a later answer
leads into an interview whose gap is suspended (`run.py:3339`, `3360`); `DebatedOnABrief` and
`ReopenedOnTheGaps` leave those runs out. A process that dies between the waiver of the gap file and the
checkpoint loses the ledger entry (`intake.py:449`). `start` on a used task id keeps the old transcript
*(not in a model)*. The comment at `state.py:44` names an older resume route.

*Answer channel.* A session that pauses before its first agent, or a `resume` picker, is in
no `current.json`, and a click starts a second driver beside it (`pending_answer.py:156`).
`current.json` is not replaced but rewritten, and a reader in between sees no
owner (`agents.py:271`). `pending_answer.py:42` says that "a late Discord click cannot apply to
the wrong gate"; a click on an old card made during the next pause has a fresh stamp and does.
`begin_pause_wait` and `take_pending_answer` unlink whatever is at the path by then, also a newer
answer (`pending_answer.py:58`, `pending_answer.py:121`), and a delivery that ends removes the file
of another one (`bot.py:92`, `bot.py:102`). "Delivered" means that the file is gone: taken,
dropped as stale, overwritten and taken, or cleared by Ctrl-C (`bot.py:94`). An answer taken by a
driver that ends before the next look is given again to a resume (`bot.py:91`). A `resume` in
a terminal looks at no owner at all (`run.py:2998`).

*Announcement of a pause.* Besides the restart by `run.py` the sign that pauses are to be posted is lost
when the bot dies in its catch-up (`bot.py:595`) and when its poller ends early and a reconnect starts
another one, which finds no sentinel (`bot.py:353`, `590`). The cursor file is cut before it is written: a
death in between makes the next bot begin at the end of the log (`bot.py:386`). `HeldIsPosted` leaves these
four out (`Losses`). A pause pushed by the webhook while the bot was dead and read by a crash-restart
catch-up is announced twice. A pause appended before the sentinel and decided after it is left to a bot
whose first pass may already have skipped it.

*Notification daemon.* Two runs that start before the first heartbeat launch a daemon each, and the second
takes the socket path from the first (`run.py:2011`, `notify_daemon.py:230`). Connections not yet accepted
when the daemon stops are lost, though a docstring says that the queue survives (`notify_daemon.py:316`). A
payload over 65536 bytes is cut and then dropped as malformed (`notify_daemon.py:298`), and a queue file
that cannot be written loses the queue without a word (`notify_daemon.py:170`). Two notices spooled in the
same millisecond share a file (`events.py:166`).

*Worktrees.* What a driver commits between the merge of a land and the removal of the worktree is deleted
unmerged (`worktree_runtime.py:923`). `worktree remove --force` is not checked (`worktree_runtime.py:925`,
`1025`): a locked worktree stays with its branch, and the command fails only at the branch. A directory that
outlives its worktree is not noticed at all: `remove` reports success, and `start` takes it for the worktree
(`worktree_runtime.py:661`) and fails in the child process (`worktree_runtime.py:616`) until it is deleted
by hand. After `checkout -B` in a stopped rebase the patches not yet picked are known only to that rebase.

*Debate file.* The trend is taken over the last active rounds, so a round that shipped makes a condensed
debate "unknown" instead of "thrashing" (`config.py:720`). The `RESOLVED` indices of the designer's ledger
count the items of the condensed file and shift with it (`condenser.py:808`): once a round is collapsed, a
number in a kept section may mean another item, and mark an open one resolved. `LedgerAgrees` leaves such
items out (`Misread`). Writing the file truncates it first, and a torn file is read as the whole debate
(`agents.py:391`). `stop` counts rounds in the archive and the file one after the other (`common.py:1132`).
`redo --from intake` archives the file before it looks for a gap (`run.py:3295`), and `start` of a used id
appends to what is left of it (`run.py:1849`) *(not in a model)*.

## 7. Plan

Done: all modules of the table at the top.

Worth doing next: the parsing and comparison of test results against reference definitions; the
retries of agents; a composition of `Intake`, `Debate`, `BatchLoop` and
`Gates` that carries one task through all four.
