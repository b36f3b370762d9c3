------------------------------ MODULE BotProofs ------------------------------
(***************************************************************************)
(* What the Discord bot and the terminals owe one another: the answer      *)
(* channel for any number of clicks, questions and looks, and after it the *)
(* announcement of pauses for any number of pauses, deaths of the bot and  *)
(* refused cards.  The two specifications share no variable.               *)
(***************************************************************************)
EXTENDS AnswerChannel, PauseNotice, TLAPS

-----------------------------------------------------------------------------
(* The answer channel.                                                     *)

\* The terminal holds an answer exactly between the picker and the graph, and
\* the file it has read until it has unlinked it.
AnswerHeld == /\ answer # None <=> cli = "answered"
              /\ cli = "taking" => read # None

\* A delivery that is not over has looks left.
LooksLeft ==
  \A c \in Clicks : click[c] \in {"unpressed", "writing", "waiting"} => polls[c] < Polls

Inv == TypeOK /\ AnswerHeld /\ FreshAnswersOnly /\ LooksLeft /\ NoAnswerLeftBehind

LEMMA InitInv == Init => Inv
<1> SUFFICES ASSUME Init PROVE Inv
  OBVIOUS
<1>1. TypeOK
  <2>1. gate \in 0..Gates /\ card \in [Clicks -> 0..Gates] /\ polls \in [Clicks -> 0..Polls]
    BY BoundsAreCounts DEF Init
  <2>2. click \in [Clicks -> Delivery]
    BY DEF Init, Delivery
  <2> QED
    BY <2>1, <2>2 DEF Init, TypeOK, Graphs, Terminal
<1>2. AnswerHeld
  BY DEF Init, AnswerHeld
<1>3. FreshAnswersOnly /\ LooksLeft /\ NoAnswerLeftBehind
  BY BoundsAreCounts DEF Init, FreshAnswersOnly, LooksLeft, NoAnswerLeftBehind
<1> QED
  BY <1>1, <1>2, <1>3 DEF Inv

\* Where a process may go keeps both program counters in their types.
LEMMA MoveTypes ==
  ASSUME TypeOK, NEW d \in Drivers, NEW p \in Terminal \cap Delivery, Move(d, p)
  PROVE  /\ cli' \in Terminal /\ click' \in [Clicks -> Delivery]
         /\ d = CLI => cli' = p /\ click' = click
         /\ d # CLI => cli' = cli /\ d \in Clicks /\ click' = [click EXCEPT ![d] = p]
  BY DEF TypeOK, Move, Drivers

LEMMA NotATerminal == \A c \in Clicks : c # CLI /\ c # None /\ c # Nobody /\ c # Keyboard
  BY NamesDiffer

\* Exit and the moves of a driver: no answer appears, no delivery is disturbed.
LEMMA ExitTypes ==
  ASSUME TypeOK, NEW d \in Drivers, Exit(d)
  PROVE  /\ cli' \in Terminal /\ click' \in [Clicks -> Delivery] /\ current' = Nobody
         /\ d = CLI => cli' = "gone" /\ click' = click
         /\ d # CLI => cli' = cli /\ d \in Clicks /\ click' = [click EXCEPT ![d] = "resumed"]
  BY DEF TypeOK, Exit, Move, Drivers, Terminal, Delivery, Reported

-----------------------------------------------------------------------------
(* Drivers.                                                                *)

LEMMA WriteCurrentInv == ASSUME Inv, NEW d \in Drivers, WriteCurrent(d) PROVE Inv'
<1> USE DEF Inv
<1>1. PICK p \in {"stamping", "driving"} :
        /\ Move(d, p) /\ At(d) \in {"stamping", "driving"}
        /\ current' \in Drivers \cup {Nobody} /\ UNCHANGED <<gate, graph, channel, deliveries>>
  BY DEF WriteCurrent
<1>2. p \in Terminal \cap Delivery
  BY DEF Terminal, Delivery, Resuming
<1>3. TypeOK'
  BY <1>1, <1>2, MoveTypes DEF TypeOK, channel, deliveries
<1>4. AnswerHeld' /\ FreshAnswersOnly'
  BY <1>1, <1>2, MoveTypes DEF AnswerHeld, FreshAnswersOnly, At, channel
<1>5. NoAnswerLeftBehind' /\ LooksLeft'
  BY <1>1, <1>2, MoveTypes DEF NoAnswerLeftBehind, LooksLeft, TypeOK, deliveries, At, channel
<1> QED
  BY <1>3, <1>4, <1>5

LEMMA PauseInv == ASSUME Inv, NEW d \in Drivers, Pause(d) PROVE Inv'
<1> USE DEF Inv
<1>1. /\ At(d) = "driving" /\ UNCHANGED <<channel, deliveries>>
      /\ gate' \in 0..Gates /\ graph' \in Graphs /\ current' \in Drivers \cup {Nobody}
      /\ cli' \in Terminal /\ click' \in [Clicks -> Delivery]
  <2>1. gate' \in 0..Gates /\ graph' \in Graphs
    BY BoundsAreCounts DEF Pause, TypeOK, Graphs
  <2>2. CASE d = CLI
    BY <2>1, <2>2, MoveTypes DEF Pause, TypeOK, Move, Terminal, Picker
  <2>3. CASE d # CLI
    BY <2>1, <2>3, ExitTypes DEF Pause
  <2> QED
    BY <2>2, <2>3
<1>2. /\ d = CLI => cli = "driving" /\ cli' = "asked" /\ click' = click
      /\ d # CLI => /\ cli' = cli /\ d \in Clicks /\ click[d] = "driving"
                    /\ click' = [click EXCEPT ![d] = "resumed"]
  BY <1>1, ExitTypes DEF Pause, Move, At
<1>3. TypeOK'
  BY <1>1 DEF TypeOK, channel, deliveries
<1>4. AnswerHeld' /\ FreshAnswersOnly'
  BY <1>1, <1>2 DEF AnswerHeld, FreshAnswersOnly, channel
<1>5. NoAnswerLeftBehind' /\ LooksLeft'
  BY <1>1, <1>2 DEF NoAnswerLeftBehind, LooksLeft, TypeOK, deliveries, channel
<1> QED
  BY <1>3, <1>4, <1>5

LEMMA FinishInv == ASSUME Inv, NEW d \in Drivers, Finish(d) PROVE Inv'
<1> USE DEF Inv
<1>1. /\ At(d) = "driving" /\ Exit(d) /\ graph' \in Graphs /\ UNCHANGED <<gate, channel, deliveries>>
  BY DEF Finish, TypeOK, Graphs
<1>2. TypeOK'
  BY <1>1, ExitTypes DEF TypeOK, channel, deliveries
<1>3. AnswerHeld' /\ FreshAnswersOnly'
  BY <1>1, ExitTypes DEF AnswerHeld, FreshAnswersOnly, At, channel
<1>4. NoAnswerLeftBehind' /\ LooksLeft'
  BY <1>1, ExitTypes DEF NoAnswerLeftBehind, LooksLeft, TypeOK, deliveries, At, channel
<1> QED
  BY <1>2, <1>3, <1>4

LEMMA ContinueInv == ASSUME Inv, NEW d \in Drivers, Continue(d) PROVE Inv'
<1> USE DEF Inv
<1>1. /\ graph' \in Graphs /\ UNCHANGED <<gate, file, read, stale, deliveries>>
      /\ answer' \in {answer, None} /\ current' \in Drivers \cup {Nobody}
      /\ cli' \in Terminal /\ click' \in [Clicks -> Delivery]
      /\ d = CLI => cli' \in {"driving", "gone"} /\ answer' = None /\ click' = click
      /\ d # CLI => /\ cli' = cli /\ answer' = answer /\ d \in Clicks /\ click[d] = "checked"
                    /\ click' \in {[click EXCEPT ![d] = p] : p \in {"driving", "resumed"}}
  <2>1. graph' \in Graphs
    BY DEF Continue, TypeOK, Graphs
  <2>2. CASE graph = "finished"
    BY <2>1, <2>2, ExitTypes DEF Continue, At
  <2>3. CASE graph # "finished"
    <3>1. Move(d, "driving") /\ UNCHANGED current
      BY <2>3 DEF Continue
    <3>2. "driving" \in Terminal \cap Delivery
      BY DEF Terminal, Delivery, Resuming
    <3> QED
      BY <2>1, <2>3, <3>1, <3>2, MoveTypes DEF Continue, At, TypeOK
  <2> QED
    BY <2>2, <2>3
<1>2. TypeOK'
  BY <1>1 DEF TypeOK, deliveries
<1>3. AnswerHeld' /\ FreshAnswersOnly'
  BY <1>1, NamesDiffer DEF AnswerHeld, FreshAnswersOnly, TypeOK
<1>4. NoAnswerLeftBehind' /\ LooksLeft'
  BY <1>1 DEF NoAnswerLeftBehind, LooksLeft, TypeOK, deliveries
<1> QED
  BY <1>2, <1>3, <1>4

-----------------------------------------------------------------------------
(* The terminal.                                                           *)

\* The steps of the picker before it has an answer touch the file only to
\* empty it.
LEMMA PickerInv ==
  ASSUME Inv, Start \/ Mark \/ Look \/ Drop \/ Read \/ Type \/ Clear \/ Bail
  PROVE  Inv'
<1> USE DEF Inv
<1>1. /\ cli' \in Terminal /\ current' \in Drivers \cup {Nobody}
      /\ read' \in Clicks \cup {None} /\ stale' \subseteq Clicks
      /\ file' \in {file, None} /\ UNCHANGED <<gate, graph, click, deliveries>>
  BY DEF Start, Mark, Look, Drop, Read, Type, Clear, Bail, TypeOK, Terminal, Picker, channel
<1>2. \/ cli # "answered" /\ cli' # "answered" /\ answer' = answer
      \/ cli' = "answered" /\ answer' = Keyboard /\ stale' = stale
  BY DEF Start, Mark, Look, Drop, Read, Type, Clear, Bail, channel
<1>3. Keyboard # None /\ Keyboard \notin Clicks
  BY NamesDiffer
<1>4. TypeOK'
  BY <1>1, <1>2 DEF TypeOK, deliveries
<1>5. AnswerHeld'
  <2>1. cli' = "taking" => read' # None
    BY DEF Start, Mark, Look, Drop, Read, Type, Clear, Bail
  <2> QED
    BY <1>2, <1>3, <2>1 DEF AnswerHeld
<1>6. FreshAnswersOnly'
  BY <1>1, <1>2, <1>3, NotATerminal DEF AnswerHeld, FreshAnswersOnly
<1>7. NoAnswerLeftBehind' /\ LooksLeft'
  BY <1>1 DEF NoAnswerLeftBehind, LooksLeft, TypeOK, deliveries
<1> QED
  BY <1>4, <1>5, <1>6, <1>7

\* What is taken was not older than the mark.
LEMMA TakeInv == ASSUME Inv, Take PROVE Inv'
<1> USE DEF Inv
<1>1. TypeOK'
  BY DEF Take, TypeOK, Terminal, Picker, deliveries
<1>2. AnswerHeld' /\ FreshAnswersOnly'
  BY DEF Take, Accepted, AnswerHeld, FreshAnswersOnly
<1>3. NoAnswerLeftBehind' /\ LooksLeft'
  BY DEF Take, NoAnswerLeftBehind, LooksLeft, TypeOK, deliveries
<1> QED
  BY <1>1, <1>2, <1>3

LEMMA DieInv == ASSUME Inv, Die PROVE Inv'
<1> USE DEF Inv
<1>1. TypeOK'
  BY DEF Die, Left, TypeOK, Terminal, deliveries
<1>2. AnswerHeld' /\ FreshAnswersOnly'
  BY NotATerminal DEF Die, AnswerHeld, FreshAnswersOnly, TypeOK
<1>3. NoAnswerLeftBehind' /\ LooksLeft'
  BY DEF Die, NoAnswerLeftBehind, LooksLeft, TypeOK, deliveries
<1> QED
  BY <1>1, <1>2, <1>3

-----------------------------------------------------------------------------
(* The bot.                                                                *)

LEMMA PressInv == ASSUME Inv, NEW c \in Clicks, Press(c) PROVE Inv'
<1> USE DEF Inv
<1>1. PICK g \in 1..gate : card' = [card EXCEPT ![c] = g]
  BY DEF Press
<1>2. g \in 0..Gates
  BY <1>1, BoundsAreCounts DEF TypeOK
<1>3. PICK p \in {"writing", "spawned"} : click' = [click EXCEPT ![c] = p]
  BY DEF Press
<1>4. TypeOK'
  BY <1>1, <1>2, <1>3 DEF Press, TypeOK, Delivery, Resuming, channel
<1>5. AnswerHeld' /\ FreshAnswersOnly'
  BY DEF Press, AnswerHeld, FreshAnswersOnly, channel
<1>6. NoAnswerLeftBehind' /\ LooksLeft'
  BY <1>3 DEF Press, NoAnswerLeftBehind, LooksLeft, TypeOK, deliveries, channel
<1> QED
  BY <1>4, <1>5, <1>6

LEMMA PlaceInv == ASSUME Inv, NEW c \in Clicks, Place(c) PROVE Inv'
<1> USE DEF Inv
<1>1. TypeOK'
  BY DEF Place, TypeOK, Delivery, deliveries
<1>2. AnswerHeld' /\ FreshAnswersOnly'
  BY DEF Place, AnswerHeld, FreshAnswersOnly
<1>3. NoAnswerLeftBehind' /\ LooksLeft'
  BY DEF Place, NoAnswerLeftBehind, LooksLeft, TypeOK, deliveries
<1> QED
  BY <1>1, <1>2, <1>3

LEMMA PollInv == ASSUME Inv, NEW c \in Clicks, Poll(c) PROVE Inv'
<1> USE DEF Inv
<1>1. polls' \in [Clicks -> 0..Polls]
  BY BoundsAreCounts DEF Poll, TypeOK, LooksLeft
<1>2. \/ file' = None /\ \E p \in {"spawned", "delivered", "refused"} :
                           click' = [click EXCEPT ![c] = p]
      \/ UNCHANGED <<click, file>> /\ polls[c] + 1 < Polls
  BY DEF Poll, Withdraw, GiveUp, MoreLooks
<1>3. TypeOK'
  BY <1>1, <1>2 DEF Poll, TypeOK, Delivery, Resuming, Reported
<1>4. AnswerHeld' /\ FreshAnswersOnly'
  BY DEF Poll, AnswerHeld, FreshAnswersOnly
<1>5. NoAnswerLeftBehind'
  BY <1>2 DEF NoAnswerLeftBehind
<1>6. LooksLeft'
  BY <1>2 DEF Poll, LooksLeft, TypeOK
<1> QED
  BY <1>3, <1>4, <1>5, <1>6

LEMMA ResumeInv == ASSUME Inv, NEW c \in Clicks, Check(c) \/ Kill(c) PROVE Inv'
<1> USE DEF Inv
<1>1. PICK p \in {"checked", "rejected", "killed"} : click' = [click EXCEPT ![c] = p]
  BY DEF Check, Kill
<1>2. /\ click[c] \in Resuming /\ current' \in {current, Nobody}
      /\ UNCHANGED <<gate, graph, cli, channel, deliveries>>
  BY DEF Check, Kill, Left, Resuming
<1>3. TypeOK'
  BY <1>1, <1>2 DEF TypeOK, Delivery, Resuming, Reported, channel, deliveries
<1>4. AnswerHeld' /\ FreshAnswersOnly'
  BY <1>2 DEF AnswerHeld, FreshAnswersOnly, channel
<1>5. NoAnswerLeftBehind' /\ LooksLeft'
  BY <1>1, <1>2 DEF NoAnswerLeftBehind, LooksLeft, TypeOK, deliveries, Resuming, channel
<1> QED
  BY <1>3, <1>4, <1>5

LEMMA BotCrashInv == ASSUME Inv, BotCrash PROVE Inv'
<1> USE DEF Inv
<1>1. TypeOK'
  BY DEF BotCrash, TypeOK, Delivery, channel
<1>2. AnswerHeld' /\ FreshAnswersOnly'
  BY DEF BotCrash, AnswerHeld, FreshAnswersOnly, channel
<1>3. NoAnswerLeftBehind' /\ LooksLeft'
  BY DEF BotCrash, NoAnswerLeftBehind, LooksLeft, TypeOK, deliveries, channel
<1> QED
  BY <1>1, <1>2, <1>3

-----------------------------------------------------------------------------
LEMMA StepInv == Inv /\ [Next]_vars => Inv'
<1> SUFFICES ASSUME Inv, [Next]_vars PROVE Inv'
  OBVIOUS
<1>1. CASE Driver
  BY <1>1, WriteCurrentInv, PauseInv, FinishInv, ContinueInv DEF Driver
<1>2. CASE Session
  BY <1>2, PickerInv, TakeInv, DieInv DEF Session
<1>3. CASE Bot
  BY <1>3, PressInv, PlaceInv, PollInv, ResumeInv DEF Bot
<1>4. CASE BotCrash
  BY <1>4, BotCrashInv
<1>5. CASE UNCHANGED vars
  BY <1>5 DEF vars, channel, deliveries, Inv, TypeOK, AnswerHeld, FreshAnswersOnly, LooksLeft,
              NoAnswerLeftBehind
<1> QED
  BY <1>1, <1>2, <1>3, <1>4, <1>5 DEF Next

LEMMA AlwaysInv == Spec => []Inv
  BY InitInv, StepInv, PTL DEF Spec

\* The types, the number of looks included.
THEOREM TypeCorrect == Spec => []TypeOK
<1> Inv => TypeOK
  BY DEF Inv
<1> QED
  BY AlwaysInv, PTL

\* A click made before the terminal listened never answers what it listens to,
\* however many clicks and questions there are.
THEOREM AnswersAreFresh == Spec => []FreshAnswersOnly
<1> Inv => FreshAnswersOnly
  BY DEF Inv
<1> QED
  BY AlwaysInv, PTL

\* The answer file belongs to a click that waits or that a crash cut off.
THEOREM NothingLeftBehind == Spec => []NoAnswerLeftBehind
<1> Inv => NoAnswerLeftBehind
  BY DEF Inv
<1> QED
  BY AlwaysInv, PTL

\* No step of the bot starts a driver while current.json shows a live one.
THEOREM NoSecondDriver == Spec => NoSpawnOverOwner
<1> DEFINE Guarded == \A c \in Clicks : click'[c] = "spawned" /\ click[c] # "spawned" => ~Live
<1>1. ASSUME Inv, [Next]_vars PROVE [Guarded]_vars
  <2>1. CASE Driver
    <3> PICK d \in Drivers : WriteCurrent(d) \/ Pause(d) \/ Finish(d) \/ Continue(d)
      BY <2>1 DEF Driver
    <3>1. \/ click' = click
          \/ d \in Clicks /\ \E p \in {"stamping", "driving", "resumed"} :
                               click' = [click EXCEPT ![d] = p]
      BY DEF WriteCurrent, Pause, Finish, Continue, Exit, Move, Drivers
    <3> QED
      BY <1>1, <3>1 DEF Inv, TypeOK
  <2>2. CASE Session
    BY <2>2 DEF Session, Start, Mark, Look, Drop, Read, Take, Type, Clear, Bail, Die
  <2>3. CASE Bot
    <3> PICK c \in Clicks : Press(c) \/ Place(c) \/ Poll(c) \/ Check(c) \/ Kill(c)
      BY <2>3 DEF Bot
    <3>1. CASE Live
      <4>1. click' = click \/ \E p \in Delivery \ {"spawned"} : click' = [click EXCEPT ![c] = p]
        BY <3>1 DEF Press, Place, Poll, Withdraw, GiveUp, Check, Kill, Delivery, Resuming, Reported
      <4> QED
        BY <1>1, <4>1 DEF Inv, TypeOK
    <3> QED
      BY <3>1
  <2>4. CASE BotCrash
    BY <2>4, <1>1 DEF BotCrash, Inv, TypeOK
  <2> QED
    BY <1>1, <2>1, <2>2, <2>3, <2>4 DEF Next, vars
<1> QED
  BY <1>1, AlwaysInv, PTL DEF Spec, NoSpawnOverOwner

-----------------------------------------------------------------------------
(* The announcement of pauses: types and the number of cards.              *)

Types ==
  /\ logged \in 0..MaxPauses
  /\ undecided \subseteq Pauses /\ pushed \subseteq Pauses
  /\ held \subseteq Pauses /\ greeted \subseteq Pauses
  /\ bot \in {"down", "starting", "greeting", "idle"} \cup Up
  /\ pid \in BOOLEAN /\ sentinel \in BOOLEAN /\ restart \in BOOLEAN
  /\ pass \in {"reading", "read", "writing", "written"}
  /\ saved \in 0..NoCursor /\ offset \in 0..MaxPauses /\ pos \in 0..MaxPauses
  /\ cards \in [Pauses -> Nat]
  /\ crashes \in 0..MaxCrashes /\ errors \in 0..MaxErrors /\ blind \subseteq Losses

\* The cursors follow one another and the log.
Cursors == offset <= pos /\ pos <= logged /\ (saved # NoCursor => saved <= logged)

\* A pause ahead of the pass has been posted only before an error or a death.
Ahead(p) == p > pos \/ bot \notin Up

CardCount ==
  \A p \in Pauses : cards[p] <= IF Ahead(p) THEN errors + crashes ELSE 1 + errors + crashes

TypeInv == Types /\ Cursors /\ CardCount

LEMMA TypeInit == NoticeInit => TypeInv
<1> SUFFICES ASSUME NoticeInit PROVE TypeInv
  OBVIOUS
<1>1. Types
  <2>1. cards \in [Pauses -> Nat] /\ crashes \in 0..MaxCrashes /\ errors \in 0..MaxErrors
    BY PauseNoticeAssumption DEF NoticeInit
  <2>2. logged \in 0..MaxPauses /\ offset \in 0..MaxPauses /\ pos \in 0..MaxPauses
    BY PauseNoticeAssumption DEF NoticeInit
  <2>3. saved \in 0..NoCursor
    BY PauseNoticeAssumption DEF NoticeInit, NoCursor
  <2> QED
    BY <2>1, <2>2, <2>3 DEF NoticeInit, Types
<1>2. Cursors
  BY PauseNoticeAssumption DEF NoticeInit, Cursors, NoCursor
<1>3. CardCount
  BY PauseNoticeAssumption DEF NoticeInit, CardCount, Ahead, Up
<1> QED
  BY <1>1, <1>2, <1>3 DEF TypeInv

LEMMA TypeStep == TypeInv /\ [NoticeNext]_noticeVars => TypeInv'
<1> SUFFICES ASSUME TypeInv, [NoticeNext]_noticeVars PROVE TypeInv'
  OBVIOUS
<1> USE PauseNoticeAssumption DEF TypeInv, Types, Cursors, emitter, files, poller, history
<1>1. CASE Append
  <2>1. Types' /\ Cursors'
    BY <1>1 DEF Append, Pauses
  <2> QED
    BY <1>1, <2>1 DEF Append, CardCount, Ahead
<1>2. ASSUME NEW p \in Pauses, Decide(p) PROVE TypeInv'
  BY <1>2 DEF Decide, CardCount, Ahead
<1>3. CASE EnsureBot \/ StartBot
  BY <1>3 DEF EnsureBot, StartBot, CardCount, Ahead, Up, Losses
<1>4. CASE OnReady \/ PollerEnds
  <2>1. pid' \in BOOLEAN /\ sentinel' \in BOOLEAN /\ restart' \in BOOLEAN
    BY <1>4, Zenon DEF OnReady, PollerEnds
  <2>2. blind' \subseteq Losses
    BY <1>4, Zenon DEF OnReady, PollerEnds, Losses
  <2>3. errors' \in 0..MaxErrors /\ bot' \in {"greeting", "idle"}
    BY <1>4 DEF OnReady, PollerEnds
  <2>4. UNCHANGED <<emitter, saved, offset, pos, pass, cards, crashes>>
    BY <1>4 DEF OnReady, PollerEnds
  <2>5. Types' /\ Cursors'
    BY <2>1, <2>2, <2>3, <2>4
  <2> QED
    BY <1>4, <2>5 DEF OnReady, PollerEnds, CardCount, Ahead, Up
<1>12. CASE Greet
  <2>1. offset' \in 0..MaxPauses /\ pos' = offset' /\ offset' <= logged
    BY <1>12 DEF Greet, NoCursor
  <2>2. Types' /\ Cursors'
    BY <1>12, <2>1 DEF Greet, Up
  <2>3. CardCount'
    BY <1>12, <2>1 DEF Greet, CardCount, Ahead, Up, Pauses
  <2> QED
    BY <2>2, <2>3
<1>5. CASE Relay
  <2>1. pos' \in Pauses /\ pos' <= logged
    BY <1>5 DEF Relay, Pauses
  <2>2. Types' /\ Cursors'
    BY <1>5, <2>1 DEF Relay
  <2>3. CardCount'
    BY <1>5, <2>1 DEF Relay, CardCount, Ahead, Pauses
  <2> QED
    BY <2>2, <2>3
<1>6. CASE PollerError
  BY <1>6 DEF PollerError, CardCount, Ahead, Pauses
<1>7. CASE EndOfLog
  BY <1>7 DEF EndOfLog, CardCount, Ahead
<1>8. CASE Truncate \/ Commit
  <2>1. Types' /\ Cursors'
    BY <1>8 DEF Truncate, Commit, PassEnds, NoCursor
  <2> QED
    BY <1>8, <2>1 DEF Truncate, Commit, CardCount, Ahead
<1>9. CASE WriteReady
  BY <1>9 DEF WriteReady, CardCount, Ahead, Up
<1>10. CASE BotDies
  <2>1. Types' /\ Cursors'
    <3>1. crashes' \in 0..MaxCrashes
      BY <1>10 DEF BotDies
    <3>2. blind' \subseteq Losses
      BY <1>10, Zenon DEF BotDies, Losses
    <3>3. offset' = 0 /\ pos' = 0 /\ pass' = "reading" /\ bot' = "down"
      BY <1>10 DEF BotDies
    <3>4. pid' \in BOOLEAN /\ restart' \in BOOLEAN /\ sentinel' \in BOOLEAN
      BY <1>10, Zenon DEF BotDies
    <3>5. UNCHANGED <<emitter, saved, cards, errors>>
      BY <1>10 DEF BotDies
    <3> QED
      BY <3>1, <3>2, <3>3, <3>4, <3>5
  <2>2. CardCount'
    BY <1>10 DEF BotDies, CardCount, Ahead, Up
  <2> QED
    BY <2>1, <2>2
<1>11. CASE UNCHANGED noticeVars
  BY <1>11 DEF noticeVars, CardCount, Ahead
<1> QED
  BY <1>1, <1>2, <1>3, <1>4, <1>5, <1>6, <1>7, <1>8, <1>9, <1>10, <1>11, <1>12
     DEF NoticeNext, Pass

LEMMA AlwaysTypes == NoticeSpec => []TypeInv
  BY TypeInit, TypeStep, PTL DEF NoticeSpec

\* The types: a cursor behind the pass, and as many cards as errors and deaths
\* of the bot account for.
THEOREM NoticeTypesCorrect == NoticeSpec => []NoticeTypeOK
<1>1. TypeInv => NoticeTypeOK
  <2> SUFFICES ASSUME TypeInv PROVE NoticeTypeOK
    OBVIOUS
  <2>1. \A p \in Pauses : cards[p] \in 0..(1 + MaxErrors + MaxCrashes)
    BY PauseNoticeAssumption DEF TypeInv, Types, CardCount
  <2> QED
    BY <2>1, PauseNoticeAssumption DEF TypeInv, Types, Cursors, NoticeTypeOK
<1> QED
  BY <1>1, AlwaysTypes, PTL

\* A pause gets one card, and another one for every error and every death.
THEOREM CardsAreCounted == NoticeSpec => []CardsPosted
<1>1. TypeInv => CardsPosted
  BY DEF TypeInv, Types, CardCount, CardsPosted
<1> QED
  BY <1>1, AlwaysTypes, PTL

-----------------------------------------------------------------------------
(* What is left to the bot gets its card.                                  *)

\* The run takes the bot for alive only when it is past its first pass.  The file is
\* without a cursor only before the first one is written, and while one is.
Readiness ==
  /\ bot = "steady" => sentinel /\ pass # "written"
  /\ pid /\ sentinel => bot = "steady"
  /\ bot \in Up /\ pass = "written" => saved # NoCursor
  /\ bot = "steady" /\ saved = NoCursor => pass = "writing"

\* Once a pause has been left to the bot there is a cursor, unless it is being
\* written, and the bot is past its first pass or is going to catch up: when it died
\* the sentinel is there until the next bot takes note of it.
CatchesUp ==
  blind = {} /\ greeted # {} =>
    /\ saved = NoCursor => bot \in Up /\ pass = "writing"
    /\ bot # "idle"
    /\ bot \in {"down", "starting"} => sentinel
    /\ bot \in {"greeting", "first"} => restart

\* Behind the cursors nothing that was logged with the bot alive is unposted.
Posted ==
  blind = {} =>
    \A p \in greeted : p <= pos \/ (saved # NoCursor /\ p <= saved) => cards[p] > 0

HeldInv == TypeInv /\ Readiness /\ CatchesUp /\ Posted

LEMMA HeldInit == NoticeInit => HeldInv
  BY TypeInit DEF NoticeInit, HeldInv, Readiness, CatchesUp, Posted, Up

LEMMA ReadinessStep == HeldInv /\ [NoticeNext]_noticeVars => Readiness'
<1> SUFFICES ASSUME HeldInv, [NoticeNext]_noticeVars PROVE Readiness'
  OBVIOUS
<1> USE PauseNoticeAssumption
    DEF HeldInv, TypeInv, Types, Cursors, Readiness, emitter, files, poller, history, Up
<1>1. CASE Append \/ \E p \in Pauses : Decide(p)
  BY <1>1 DEF Append, Decide
<1>2. CASE EnsureBot \/ StartBot
  BY <1>2 DEF EnsureBot, StartBot
<1>3. CASE OnReady \/ Greet \/ PollerEnds \/ BotDies
  <2>1. /\ bot' \in {"greeting", "first", "idle", "down"} /\ ~(pid' /\ sentinel')
        /\ bot' = "first" => pass' = "reading"
    BY <1>3 DEF OnReady, Greet, PollerEnds, BotDies
  <2> QED
    BY <2>1
<1>4. CASE Relay \/ PollerError \/ EndOfLog \/ Truncate
  BY <1>4 DEF Relay, PollerError, EndOfLog, Truncate
<1>5. CASE Commit
  <2>1. saved' # NoCursor
    BY <1>5 DEF Commit, NoCursor
  <2> QED
    BY <1>5, <2>1 DEF Commit, PassEnds
<1>6. CASE WriteReady
  BY <1>6 DEF WriteReady
<1>7. CASE UNCHANGED noticeVars
  BY <1>7 DEF noticeVars
<1> QED
  BY <1>1, <1>2, <1>3, <1>4, <1>5, <1>6, <1>7 DEF NoticeNext, Pass

LEMMA CatchesUpStep == HeldInv /\ [NoticeNext]_noticeVars => CatchesUp'
<1> SUFFICES ASSUME HeldInv, [NoticeNext]_noticeVars PROVE CatchesUp'
  OBVIOUS
<1> USE PauseNoticeAssumption
    DEF HeldInv, TypeInv, Types, Cursors, CatchesUp, emitter, files, poller, history, Up
<1>1. CASE Append
  BY <1>1 DEF Append, BotAlive, Readiness
<1>2. CASE EnsureBot \/ StartBot
  BY <1>2 DEF EnsureBot, StartBot
<1>3. CASE OnReady \/ Greet
  BY <1>3 DEF OnReady, Greet
<1>4. CASE PollerEnds
  BY <1>4 DEF PollerEnds
<1>5. CASE BotDies
  BY <1>5 DEF BotDies, Readiness
<1>6. CASE Relay \/ PollerError \/ EndOfLog \/ \E p \in Pauses : Decide(p)
  BY <1>6 DEF Relay, PollerError, EndOfLog, Decide
<1>7. CASE Truncate
  BY <1>7 DEF Truncate
<1>8. CASE Commit
  <2>1. saved' # NoCursor
    BY <1>8 DEF Commit, NoCursor
  <2> QED
    BY <1>8, <2>1 DEF Commit
<1>9. CASE WriteReady
  BY <1>9 DEF WriteReady
<1>10. CASE UNCHANGED noticeVars
  BY <1>10 DEF noticeVars
<1> QED
  BY <1>1, <1>2, <1>3, <1>4, <1>5, <1>6, <1>7, <1>8, <1>9, <1>10 DEF NoticeNext, Pass

LEMMA PostedStep == HeldInv /\ [NoticeNext]_noticeVars => Posted'
<1> SUFFICES ASSUME HeldInv, [NoticeNext]_noticeVars PROVE Posted'
  OBVIOUS
<1> USE PauseNoticeAssumption
    DEF HeldInv, TypeInv, Types, Cursors, Posted, emitter, files, poller, history
<1>1. CASE Append
  BY <1>1 DEF Append, NoCursor
<1>2. CASE EnsureBot \/ StartBot \/ OnReady \/ PollerEnds
  BY <1>2 DEF EnsureBot, StartBot, OnReady, PollerEnds
<1>3. CASE Greet
  BY <1>3 DEF Greet, CatchesUp, Up
<1>4. CASE Relay
  BY <1>4 DEF Relay, Posts, CatchesUp, Up, Pauses
<1>5. CASE PollerError
  BY <1>5 DEF PollerError, Pauses
<1>6. CASE EndOfLog \/ Truncate \/ WriteReady \/ \E p \in Pauses : Decide(p)
  BY <1>6 DEF EndOfLog, Truncate, WriteReady, Decide
<1>7. CASE Commit
  BY <1>7 DEF Commit
<1>8. CASE BotDies
  BY <1>8 DEF BotDies, Pauses
<1>9. CASE UNCHANGED noticeVars
  BY <1>9 DEF noticeVars
<1> QED
  BY <1>1, <1>2, <1>3, <1>4, <1>5, <1>6, <1>7, <1>8, <1>9 DEF NoticeNext, Pass

\* A pause left to a live bot gets its card over any number of deaths of the bot, unless
\* the sign of the death or the place in the log was lost.
THEOREM HeldGetsItsCard == NoticeSpec => []HeldIsPosted
<1>1. HeldInv => HeldIsPosted
  BY DEF HeldInv, TypeInv, Types, Posted, HeldIsPosted, AllPosted, HeldBehindCursor
<1>2. HeldInv /\ [NoticeNext]_noticeVars => HeldInv'
  BY TypeStep, ReadinessStep, CatchesUpStep, PostedStep DEF HeldInv
<1> QED
  BY HeldInit, <1>1, <1>2, PTL DEF NoticeSpec
=============================================================================
