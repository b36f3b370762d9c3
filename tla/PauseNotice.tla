----------------------------- MODULE PauseNotice -----------------------------
(***************************************************************************)
(* Who tells the human that a run is paused.  The run appends run_paused   *)
(* to events.jsonl and then decides whether to push it through the webhook;*)
(* it leaves that to the Discord bot when the bot is alive and has written *)
(* .bot.ready.  The bot tails the same file from a cursor it saves, and    *)
(* posts a card with buttons for every run_paused it reads, except in the  *)
(* first pass after a fresh start, whose pauses the webhook has pushed.    *)
(*                                                                         *)
(* The pauses are numbered in the order of the log, and the cursor counts  *)
(* them: other kinds of events are left out.                               *)
(***************************************************************************)
EXTENDS Naturals

CONSTANTS
  MaxPauses,    \* bound: pauses in the log
  MaxCrashes,   \* bound: deaths of the bot
  MaxErrors,    \* bound: cards and greetings Discord refuses to take
  AutoStart     \* whether run.py restarts a dead bot (the operator always may)

ASSUME PauseNoticeAssumption ==
  /\ MaxPauses \in Nat /\ MaxCrashes \in Nat /\ MaxErrors \in Nat
  /\ AutoStart \in BOOLEAN

VARIABLES
  logged,     \* pauses appended to events.jsonl
  undecided,  \* appended, and the run has not yet looked for the bot
  pushed,     \* pushed through the webhook
  held,       \* left to the bot
  greeted,    \* appended while the bot was alive
  bot,        \* the bot: down, starting, its poller greeting, in its first pass,
              \* steady; idle when the poller has ended without a pass
  pid,        \* whether .bot.pid names the live bot
  sentinel,   \* whether .bot.ready exists
  restart,    \* _crash_restart: the first pass posts as well
  saved,      \* the cursor in the state file; MaxPauses + 1 when there is none
  offset,     \* the cursor of the poller
  pos,        \* how far the pass has read
  pass,       \* reading the log, having read it, writing the cursor, having written it
  cards,      \* how often the bot posted each pause
  crashes, errors,
  blind       \* history: how the place in the log, or the sign of a crash, was lost

emitter == <<logged, undecided, pushed, held, greeted>>
poller == <<restart, offset, pos, pass>>
files == <<pid, sentinel, saved>>
history == <<crashes, errors, blind>>
noticeVars == <<emitter, bot, files, poller, cards, history>>

Pauses == 1..MaxPauses
Up == {"first", "steady"}

\* No cursor file, or one that a death has left empty.
NoCursor == MaxPauses + 1

\* run.py unlinked the sentinel before it spawned the bot; a poller that was to catch up
\* ended early; the bot died in its catch-up, or while it wrote the cursor.
Losses == {"spawned", "relaunched", "again", "torn"}

NoticeTypeOK ==
  /\ logged \in 0..MaxPauses
  /\ undecided \subseteq Pauses /\ pushed \subseteq Pauses
  /\ held \subseteq Pauses /\ greeted \subseteq Pauses
  /\ bot \in {"down", "starting", "greeting", "idle"} \cup Up
  /\ pid \in BOOLEAN /\ sentinel \in BOOLEAN /\ restart \in BOOLEAN
  /\ pass \in {"reading", "read", "writing", "written"}
  /\ saved \in 0..NoCursor /\ offset \in 0..MaxPauses /\ pos \in offset..MaxPauses
  /\ cards \in [Pauses -> 0..(1 + MaxErrors + MaxCrashes)]
  /\ crashes \in 0..MaxCrashes /\ errors \in 0..MaxErrors /\ blind \subseteq Losses

\* A repository in which the bot never ran.
NoticeInit ==
  /\ logged = 0 /\ undecided = {} /\ pushed = {} /\ held = {} /\ greeted = {}
  /\ bot = "down" /\ pid = FALSE /\ sentinel = FALSE /\ saved = NoCursor
  /\ restart = FALSE /\ offset = 0 /\ pos = 0 /\ pass = "reading"
  /\ cards = [p \in Pauses |-> 0]
  /\ crashes = 0 /\ errors = 0 /\ blind = {}

-----------------------------------------------------------------------------
(* The run.                                                                *)

BotAlive == pid /\ sentinel

\* emit(): first the log ...
Append ==
  /\ logged < MaxPauses
  /\ logged' = logged + 1
  /\ undecided' = undecided \cup {logged'}
  /\ greeted' = IF BotAlive THEN greeted \cup {logged'} ELSE greeted
  /\ UNCHANGED <<pushed, held, bot, files, poller, cards, history>>

\* ... then the webhook, unless the bot is there by now.
Decide(p) ==
  /\ p \in undecided /\ undecided' = undecided \ {p}
  /\ IF BotAlive THEN held' = held \cup {p} /\ UNCHANGED pushed
                 ELSE pushed' = pushed \cup {p} /\ UNCHANGED held
  /\ UNCHANGED <<logged, greeted, bot, files, poller, cards, history>>

\* start or resume finds no live bot: the sentinel goes before the spawn.
EnsureBot ==
  /\ AutoStart /\ bot = "down"
  /\ bot' = "starting" /\ pid' = TRUE /\ sentinel' = FALSE
  /\ blind' = IF sentinel THEN blind \cup {"spawned"} ELSE blind
  /\ UNCHANGED <<emitter, saved, poller, cards, crashes, errors>>

-----------------------------------------------------------------------------
(* The bot.                                                                *)

\* The operator runs bot/bot.py; the files are those of the last bot.
StartBot ==
  /\ bot = "down" /\ bot' = "starting"
  /\ UNCHANGED <<emitter, files, poller, cards, history>>

\* Slip: the restart after a crash is taken for a fresh start.
OnReadyFresh ==
  /\ bot \in {"starting", "idle"} /\ bot' = "greeting"
  /\ pid' = TRUE /\ restart' = FALSE /\ sentinel' = FALSE
  /\ UNCHANGED <<emitter, saved, offset, pos, pass, cards, history>>

\* on_ready, at the login or at a reconnect without a live poller: a sentinel that is
\* still there means that the last bot died while pauses were left to it.
OnReady ==
  /\ bot \in {"starting", "idle"} /\ bot' = "greeting"
  /\ pid' = TRUE /\ restart' = sentinel /\ sentinel' = FALSE
  /\ UNCHANGED <<emitter, saved, offset, pos, pass, cards, history>>

\* The poller has a channel, takes the saved cursor or the end of the log, and greets.
Greet ==
  /\ bot = "greeting" /\ bot' = "first"
  /\ offset' = IF saved = NoCursor THEN logged ELSE saved
  /\ pos' = offset' /\ pass' = "reading"
  /\ UNCHANGED <<emitter, files, restart, cards, history>>

\* No channel, or a refused greeting, ends the poller; the bot stays.
PollerEnds ==
  /\ bot = "greeting" /\ errors < MaxErrors
  /\ bot' = "idle" /\ errors' = errors + 1
  /\ blind' = IF restart THEN blind \cup {"relaunched"} ELSE blind
  /\ UNCHANGED <<emitter, files, poller, cards, crashes>>

Posts == bot = "steady" \/ restart

\* The pass reads the next pause, and posts it or skips it.
Relay ==
  /\ bot \in Up /\ pass = "reading" /\ pos < logged
  /\ pos' = pos + 1
  /\ cards' = IF Posts THEN [cards EXCEPT ![pos'] = @ + 1] ELSE cards
  /\ UNCHANGED <<emitter, bot, files, restart, offset, pass, history>>

\* Discord refuses the card: the pass is given up, the cursor stays.
PollerError ==
  /\ bot \in Up /\ pass = "reading" /\ pos < logged /\ Posts /\ errors < MaxErrors
  /\ errors' = errors + 1 /\ pos' = offset
  /\ UNCHANGED <<emitter, bot, files, restart, offset, pass, cards, crashes, blind>>

EndOfLog ==
  /\ bot \in Up /\ pass = "reading" /\ pos = logged /\ pass' = "read"
  /\ UNCHANGED <<emitter, bot, files, restart, offset, pos, cards, history>>

\* write_text empties the file before it writes.
Truncate ==
  /\ bot \in Up /\ pass = "read" /\ pass' = "writing"
  /\ saved' = NoCursor
  /\ UNCHANGED <<emitter, bot, pid, sentinel, restart, offset, pos, cards, history>>

PassEnds == pass' = IF bot = "first" THEN "written" ELSE "reading"

\* Slip: the cursor is the size of the log, not the place the pass has read to.
CommitSize ==
  /\ bot \in Up /\ pass = "writing" /\ PassEnds
  /\ offset' = logged /\ saved' = logged /\ pos' = logged
  /\ UNCHANGED <<emitter, bot, pid, sentinel, restart, cards, history>>

\* Slip: only the file gets the new cursor.
CommitFileOnly ==
  /\ bot \in Up /\ pass = "writing" /\ PassEnds
  /\ saved' = pos /\ pos' = offset
  /\ UNCHANGED <<emitter, bot, pid, sentinel, restart, offset, cards, history>>

\* The cursor is committed; the first pass has one more thing to write.
Commit ==
  /\ bot \in Up /\ pass = "writing" /\ PassEnds
  /\ offset' = pos /\ saved' = pos
  /\ UNCHANGED <<emitter, bot, pid, sentinel, restart, pos, cards, history>>

\* The sentinel, and the first pass is over.
WriteReady ==
  /\ bot = "first" /\ pass = "written"
  /\ sentinel' = TRUE /\ bot' = "steady" /\ pass' = "reading"
  /\ UNCHANGED <<emitter, pid, saved, restart, offset, pos, cards, history>>

\* The bot is killed; the sentinel, the pid file and the cursor stay, its memory is gone.
BotDies ==
  /\ bot # "down" /\ crashes < MaxCrashes
  /\ bot' = "down" /\ pid' = FALSE /\ crashes' = crashes + 1
  /\ restart' = FALSE /\ offset' = 0 /\ pos' = 0 /\ pass' = "reading"
  /\ blind' = blind \cup (IF pass = "writing" THEN {"torn"} ELSE {})
                   \cup (IF bot \in {"greeting", "first"} /\ restart THEN {"again"} ELSE {})
  /\ UNCHANGED <<emitter, sentinel, saved, cards, errors>>

-----------------------------------------------------------------------------
Pass == Relay \/ EndOfLog \/ Truncate \/ Commit \/ WriteReady
NoticeNext == \/ Append \/ \E p \in Pauses : Decide(p)
        \/ EnsureBot \/ StartBot \/ OnReady \/ Greet \/ PollerEnds
        \/ Pass \/ PollerError \/ BotDies

\* The poller wakes up every POLL_SECONDS.  Nobody has to start a bot, and no login or
\* reconnect has to come.
NoticeFairness == WF_noticeVars(Pass)

NoticeSpec == NoticeInit /\ [][NoticeNext]_noticeVars /\ NoticeFairness

-----------------------------------------------------------------------------
(* Properties.                                                             *)

Announced(p) == p \in pushed \/ cards[p] > 0

\* No pause that was logged with the bot alive and left to it lies behind the
\* cursor unposted.
HeldBehindCursor == {p \in greeted \cap held : saved # NoCursor /\ p <= saved}
AllPosted == \A p \in HeldBehindCursor : cards[p] > 0

\* What is left to the bot gets its card, over any number of deaths, restarts and
\* refusals: the catch-up of the next bot posts it, unless the sign that there is
\* something to catch up with was lost on the way, in one of the four ways of Losses
\* (bot.py:349-402, bot.py:583-596, run.py:1984-1995).
HeldIsPosted == blind = {} => AllPosted

\* A card is posted again only after an error or a death of the bot.
CardsPosted == \A p \in Pauses : cards[p] <= 1 + errors + crashes

\* What a live bot is left to announce it announces, as long as it lives.
HeldIsAnnounced ==
  \A p \in Pauses : p \in greeted \cap held ~> (Announced(p) \/ crashes > 0)

-----------------------------------------------------------------------------
(* What the documentation says, and the code does not do.                  *)

\* bot.py:376-379 "On a crash-restart the previous bot was ready ... the catch-up
\* MUST post it or the escalation is lost": also when run.py restarts the bot.
CatchUpPosts == blind \subseteq {"spawned"} => AllPosted
=============================================================================
