---------------------------- MODULE AnswerChannel ----------------------------
(***************************************************************************)
(* One question, two ways to answer it: the terminal in which the human    *)
(* started ./run.py, and the Discord bot, another process.  They share     *)
(* three files and no lock: current.json (whose pid drives the task),      *)
(* pending-answer-<task>.json (an answer on its way from the bot to the    *)
(* terminal) and pause-wait-<task>.json (since when the terminal listens). *)
(* When nobody seems to drive the task the bot starts a driver of its own, *)
(* `run.py resume`, named here by the click it was started for.            *)
(*                                                                         *)
(* Time stamps are compared and never counted: `stale' is the set of the   *)
(* clicks whose stamp is older than the current pause-wait mark.  The pid  *)
(* of a dead process, an idle record and a half-written current.json all   *)
(* read alike (live_session_pid returns None) and are Nobody.              *)
(***************************************************************************)
EXTENDS Naturals, FiniteSets

CONSTANTS
  Clicks,     \* the presses of a button that may happen
  CLI,        \* the terminal session
  Keyboard,   \* the answer typed in the terminal
  None,       \* no file, no answer
  Nobody,     \* current.json shows no live process
  Gates,      \* bound: how many questions the run asks
  Polls       \* how often the bot looks for the file to disappear (120)

ASSUME NamesDiffer == /\ Clicks \cap {CLI, Keyboard, None, Nobody} = {}
                      /\ Keyboard # None
                      /\ CLI # Nobody
ASSUME BoundsAreCounts == Gates \in Nat /\ Polls \in Nat \ {0}

VARIABLES
  gate,       \* the questions asked so far; the last is the open one
  graph,      \* the checkpoint: between questions, at a question, finished
  cli,        \* where the terminal session is
  current,    \* the live pid current.json shows
  file,       \* the click whose answer is in the pending-answer file
  read,       \* the answer file the terminal has read and not yet unlinked
  answer,     \* the answer the terminal has for the open question
  stale,      \* the clicks stamped before the last pause-wait mark
  click,      \* where the delivery of each click is
  polls,      \* how often each delivery has looked
  card,       \* the question on the card whose button was pressed
  crashed     \* whether the bot was ever restarted

channel == <<file, read, answer, stale>>
deliveries == <<polls, card, crashed>>
vars == <<gate, graph, cli, current, channel, click, deliveries>>

Drivers == Clicks \cup {CLI}
Graphs == {"running", "asking", "finished"}
Picker == {"asked", "marked", "dropping", "listening", "taking", "leaving"}
Terminal == Picker \cup {"gone", "driving", "stamping", "answered"}
Resuming == {"spawned", "checked", "driving", "stamping"}
Reported == {"delivered", "refused", "rejected", "resumed", "killed"}
Delivery == {"unpressed", "writing", "waiting", "lost"} \cup Resuming \cup Reported

TypeOK ==
  /\ gate \in 0..Gates /\ graph \in Graphs /\ cli \in Terminal
  /\ current \in Drivers \cup {Nobody}
  /\ file \in Clicks \cup {None} /\ read \in Clicks \cup {None}
  /\ answer \in Clicks \cup {Keyboard, None} /\ stale \subseteq Clicks
  /\ click \in [Clicks -> Delivery] /\ polls \in [Clicks -> 0..Polls]
  /\ card \in [Clicks -> 0..Gates] /\ crashed \in BOOLEAN

\* `start' in a terminal, before the first agent has written current.json.
Init ==
  /\ gate = 0 /\ graph = "running" /\ cli = "driving" /\ current = Nobody
  /\ file = None /\ read = None /\ answer = None /\ stale = {}
  /\ click = [c \in Clicks |-> "unpressed"] /\ polls = [c \in Clicks |-> 0]
  /\ card = [c \in Clicks |-> 0] /\ crashed = FALSE

At(d) == IF d = CLI THEN cli ELSE click[d]

\* Driver d goes to p; the other processes stay where they are.
Move(d, p) ==
  IF d = CLI THEN cli' = p /\ UNCHANGED click
             ELSE click' = [click EXCEPT ![d] = p] /\ UNCHANGED cli

Left(d) == IF current = d THEN Nobody ELSE current

-----------------------------------------------------------------------------
(* A driver, in the terminal or started by the bot.                        *)

\* An agent step or a heartbeat rewrites current.json in place: between the
\* truncation and the write nobody can read it.
WriteCurrent(d) ==
  \/ /\ At(d) = "driving" /\ Move(d, "stamping") /\ current' = Nobody
     /\ UNCHANGED <<gate, graph, channel, deliveries>>
  \/ /\ At(d) = "stamping" /\ Move(d, "driving") /\ current' = d
     /\ UNCHANGED <<gate, graph, channel, deliveries>>

\* The process exits by itself, and marks the run idle.
Exit(d) ==
  /\ current' = Nobody
  /\ Move(d, IF d = CLI THEN "gone" ELSE "resumed")

\* The graph stops at a question.  The terminal asks it there; a resume of the
\* bot has no input, marks the run idle and exits.
Pause(d) ==
  /\ At(d) = "driving" /\ gate < Gates
  /\ gate' = gate + 1 /\ graph' = "asking"
  /\ IF d = CLI THEN Move(d, "asked") /\ UNCHANGED current ELSE Exit(d)
  /\ UNCHANGED <<channel, deliveries>>

\* The graph ends, or stalls between two nodes.
Finish(d) ==
  /\ At(d) = "driving"
  /\ graph' \in {"finished", graph}
  /\ Exit(d)
  /\ UNCHANGED <<gate, channel, deliveries>>

\* Command(resume=...) with the answer; without an open question on to the next
\* node, and out at once when there is none.
Continue(d) ==
  /\ At(d) = IF d = CLI THEN "answered" ELSE "checked"
  /\ graph' = IF graph = "asking" THEN "running" ELSE graph
  /\ answer' = IF d = CLI THEN None ELSE answer
  /\ IF graph = "finished" THEN Exit(d) ELSE Move(d, "driving") /\ UNCHANGED current
  /\ UNCHANGED <<gate, file, read, stale, deliveries>>

-----------------------------------------------------------------------------
(* The terminal.                                                           *)

\* `resume' typed in a terminal: the picker for an open question, or straight
\* on.  Nothing looks at who drives the task already.
Start ==
  /\ cli = "gone" /\ graph # "finished"
  /\ cli' = IF graph = "asking" THEN "asked" ELSE "driving"
  /\ UNCHANGED <<gate, graph, current, channel, click, deliveries>>

\* begin_pause_wait: take the time and leave the mark ...
Mark ==
  /\ cli = "asked" /\ cli' = "marked"
  /\ stale' = {c \in Clicks : click[c] # "unpressed"}
  /\ UNCHANGED <<gate, graph, current, file, read, answer, click, deliveries>>

\* ... then look at the answer that may be there, and unlink it if it is older.
Look ==
  /\ cli = "marked"
  /\ cli' = IF file \in stale THEN "dropping" ELSE "listening"
  /\ UNCHANGED <<gate, graph, current, channel, click, deliveries>>

Drop ==
  /\ cli = "dropping" /\ cli' = "listening" /\ file' = None
  /\ UNCHANGED <<gate, graph, current, read, answer, stale, click, deliveries>>

\* take_pending_answer reads the file ...
Read ==
  /\ cli = "listening" /\ file # None
  /\ cli' = "taking" /\ read' = file
  /\ UNCHANGED <<gate, graph, current, file, answer, stale, click, deliveries>>

\* Slip: take_pending_answer trusts that begin_pause_wait dropped the old answer.
AcceptedAll == TRUE

\* (an answer older than the mark is not for this question)
Accepted == read \notin stale

\* ... and unlinks whatever the file is by now; an older answer is discarded.
Take ==
  /\ cli = "taking" /\ file' = None /\ read' = None
  /\ IF Accepted THEN cli' = "answered" /\ answer' = read
                 ELSE cli' = "listening" /\ UNCHANGED answer
  /\ UNCHANGED <<gate, graph, current, stale, click, deliveries>>

Type ==
  /\ cli = "listening" /\ cli' = "answered" /\ answer' = Keyboard
  /\ UNCHANGED <<gate, graph, current, file, read, stale, click, deliveries>>

\* Ctrl-C or Ctrl-D at the picker clears the file ...
Clear ==
  /\ cli = "listening" /\ cli' = "leaving" /\ file' = None
  /\ UNCHANGED <<gate, graph, current, read, answer, stale, click, deliveries>>

\* ... and then marks the run idle.
Bail ==
  /\ cli = "leaving" /\ cli' = "gone" /\ current' = Nobody
  /\ UNCHANGED <<gate, graph, channel, click, deliveries>>

\* Ctrl-C while an agent runs, /stop, or the death of the process: current.json
\* stays, with the pid of a process that is gone.
Die ==
  /\ cli # "gone" /\ cli' = "gone" /\ current' = Left(CLI)
  /\ read' = None /\ answer' = None
  /\ UNCHANGED <<gate, graph, file, stale, click, deliveries>>

-----------------------------------------------------------------------------
(* The bot: one thread, that serves other clicks only where it awaits.     *)

Awaits == \A c \in Clicks : click[c] # "writing"
Live == current \in Drivers

\* A button of any card still in the channel.  With a live driver the answer
\* is stamped and goes to the file; without one to `run.py resume'.
Press(c) ==
  /\ Awaits /\ click[c] = "unpressed"
  /\ \E g \in 1..gate : card' = [card EXCEPT ![c] = g]
  /\ click' = [click EXCEPT ![c] = IF Live THEN "writing" ELSE "spawned"]
  /\ UNCHANGED <<gate, graph, cli, current, channel, polls, crashed>>

\* The file replaces the one that was there.
Place(c) ==
  /\ click[c] = "writing"
  /\ click' = [click EXCEPT ![c] = "waiting"] /\ file' = c
  /\ UNCHANGED <<gate, graph, cli, current, read, answer, stale, deliveries>>

\* The delivery takes the file away, whosever it is, and goes on to p.
Withdraw(c, p) == file' = None /\ click' = [click EXCEPT ![c] = p]

\* Slip: a delivery that gives up leaves its file.
GiveUpFile(c) == UNCHANGED file /\ click' = [click EXCEPT ![c] = "refused"]

\* Slip: a delivery that gives up resumes all the same (the incident of TASK-030).
GiveUpResume(c) == Withdraw(c, "spawned")

GiveUp(c) == Withdraw(c, "refused")

MoreLooks(c) == polls[c] + 1 < Polls

\* A look, every quarter of a second: the driver is gone, the file is gone, or
\* both are still there; after the last look the answer is withdrawn.
Poll(c) ==
  /\ Awaits /\ click[c] = "waiting"
  /\ polls' = [polls EXCEPT ![c] = @ + 1]
  /\ \/ ~Live /\ Withdraw(c, "spawned")
     \/ Live /\ file = None /\ Withdraw(c, "delivered")
     \/ Live /\ file # None /\ MoreLooks(c) /\ UNCHANGED <<click, file>>
     \/ Live /\ file # None /\ ~MoreLooks(c) /\ GiveUp(c)
  /\ UNCHANGED <<gate, graph, cli, current, read, answer, stale, card, crashed>>

\* The resume checks its answer against the menu of the open question; the
\* answer of another card may or may not be in it.
Check(c) ==
  /\ click[c] = "spawned"
  /\ \E ok \in BOOLEAN :
       /\ graph # "asking" \/ card[c] = gate => ok
       /\ click' = [click EXCEPT ![c] = IF ok THEN "checked" ELSE "rejected"]
  /\ UNCHANGED <<gate, graph, cli, current, channel, deliveries>>

\* Slip: the bot waits for its resume without a timeout.
KillOnlyAgent(c) ==
  /\ click[c] = "stamping"
  /\ click' = [click EXCEPT ![c] = "killed"] /\ current' = Left(c)
  /\ UNCHANGED <<gate, graph, cli, channel, deliveries>>

\* RESUME_TIMEOUT, or the resume dies.
Kill(c) ==
  /\ click[c] \in Resuming
  /\ click' = [click EXCEPT ![c] = "killed"] /\ current' = Left(c)
  /\ UNCHANGED <<gate, graph, cli, channel, deliveries>>

\* The bot dies and is restarted: its deliveries are forgotten, the resumes it
\* started go on.
BotCrash ==
  /\ crashed' = TRUE
  /\ click' = [c \in Clicks |-> IF click[c] \in {"writing", "waiting"} THEN "lost" ELSE click[c]]
  /\ UNCHANGED <<gate, graph, cli, current, channel, polls, card>>

-----------------------------------------------------------------------------
Driver == \E d \in Drivers : WriteCurrent(d) \/ Pause(d) \/ Finish(d) \/ Continue(d)
Session == Start \/ Mark \/ Look \/ Drop \/ Read \/ Take \/ Type \/ Clear \/ Bail \/ Die
Bot == \E c \in Clicks : Press(c) \/ Place(c) \/ Poll(c) \/ Check(c) \/ Kill(c)

Next == Driver \/ Session \/ Bot \/ BotCrash

\* The event loop of the bot comes round to every task, and its wait for a
\* resume has a timeout.  The human and the agents owe nothing.
Fairness == \A c \in Clicks : WF_vars(Place(c)) /\ WF_vars(Poll(c)) /\ WF_vars(Kill(c))

Spec == Init /\ [][Next]_vars /\ Fairness

-----------------------------------------------------------------------------
(* Properties.                                                             *)

\* A click older than the listening never answers it: whatever the order in
\* which the bot stamps and places its file and the terminal marks, looks,
\* reads and unlinks, the terminal answers with a click made after the mark.
FreshAnswersOnly == answer \notin stale

\* The file never outlives its delivery: an answer in it belongs to a click
\* the bot is still waiting for, or to one a crash of the bot cut off.
NoAnswerLeftBehind == file # None => click[file] \in {"waiting", "lost"}

\* TASK-030: while current.json shows a live driver no click starts another,
\* also not one that has waited in vain.
NoSpawnOverOwner ==
  [][\A c \in Clicks : click'[c] = "spawned" /\ click[c] # "spawned" => ~Live]_vars

\* Every click is told how it ended, unless the bot was restarted.
EveryClickIsReported ==
  \A c \in Clicks : click[c] # "unpressed" ~> (click[c] \in Reported \/ crashed)
=============================================================================
