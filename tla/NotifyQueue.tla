----------------------------- MODULE NotifyQueue -----------------------------
(***************************************************************************)
(* The notification daemon.  Whoever emits an event hands its notice to    *)
(* the socket of the daemon, or leaves it in a spool directory which the   *)
(* next daemon reads when it starts.  The daemon takes one connection      *)
(* whenever its queue is empty, sends the queue by priority and arrival    *)
(* under a rate limit, and writes what is left of it to a file when it is  *)
(* stopped.  run.py starts a daemon unless the pid of the heartbeat lives. *)
(*                                                                         *)
(* A heap ordered by (priority, _seq), a file written in that order and    *)
(* numbered again when it is loaded, and files named by the time are sets  *)
(* whose members carry a stamp above those of the members before them.     *)
(***************************************************************************)
EXTENDS Integers, FiniteSets

CONSTANTS
  Daemon,        \* processes of the daemon that may be there at once
  NoDaemon,
  MaxNotices,    \* bound: notices emitted
  Ranks,         \* the numbers of PRIO_ORDER, 0 the most urgent
  Rate,          \* sends in a window
  Backlog,       \* connections the socket holds before they are accepted
  MaxStarts,     \* bound: daemons started
  MaxFaults      \* bound: stops, kills, answers 429, failed requests, payloads that
                 \* cannot be read and queue files that cannot be written

ASSUME NotifyAssumption ==
  /\ NoDaemon \notin Daemon /\ "stale" \notin Daemon
  /\ Ranks \subseteq Nat /\ MaxNotices \in Nat
  /\ Rate \in Nat \ {0} /\ Backlog \in Nat
  /\ MaxStarts \in Nat /\ MaxFaults \in Nat

VARIABLES
  prio,     \* of every notice
  push,     \* of every notice: new, refused by the socket, done
  sock,     \* the daemon whose socket SOCKET_PATH names, or stale: a dead one's
  hb,       \* the living pid in the heartbeat file
  file,     \* the notices in QUEUE_FILE
  spool,    \* the notices in SPOOL_DIR
  pc,       \* of every daemon: where it is in run_daemon
  stop,     \* not _running
  backlog,  \* connections of every daemon not yet accepted
  listing,  \* the spool files _load has found and not yet read
  queue, sending,
  recent,   \* length of _send_times
  stamp,    \* of every notice: its place in the queue or the spool it is in
  accepted, \* the notices the socket took
  came,     \* of every notice: its place among those the socket or the spool took
  sent,     \* how often Discord took each notice
  dropped,  \* given up after an answer of Discord or none
  cut,      \* in the backlog of a socket that was closed, overwritten in the spool, not
            \* to be read, or queued when the queue file could not be written
  overlap,  \* whether two daemons ever lived at once
  killed,   \* whether a daemon was ever killed
  starts, faults

Notices == 1..MaxNotices
NoNotice == 0

emitters == <<prio, push, spool, accepted, came>>
disk == <<sock, hb, file>>
process == <<pc, stop, backlog, listing, queue, sending, recent, stamp>>
fate == <<sent, dropped, cut, overlap, killed>>
bounds == <<starts, faults>>
vars == <<emitters, disk, process, fate, bounds>>

Alive(d) == pc[d] # "off"
Listening(d) == pc[d] \in {"bound", "read", "spooling", "serving", "sending"}

Init ==
  /\ prio \in [Notices -> Ranks] /\ push = [n \in Notices |-> "new"]
  /\ sock = NoDaemon /\ hb = NoDaemon /\ file = {} /\ spool = {}
  /\ pc = [d \in Daemon |-> "off"] /\ stop = [d \in Daemon |-> FALSE]
  /\ backlog = [d \in Daemon |-> {}] /\ listing = [d \in Daemon |-> {}]
  /\ queue = [d \in Daemon |-> {}] /\ sending = [d \in Daemon |-> NoNotice]
  /\ recent = [d \in Daemon |-> 0]
  /\ stamp = [n \in Notices |-> 0] /\ accepted = {} /\ came = [n \in Notices |-> 0]
  /\ sent = [n \in Notices |-> 0] /\ dropped = {} /\ cut = {} /\ overlap = FALSE
  /\ killed = FALSE /\ starts = 0 /\ faults = 0

Fault == faults < MaxFaults /\ faults' = faults + 1

\* n comes after every member of S.
StampIn(n, S) ==
  \E k \in {1} \cup {stamp[m] + 1 : m \in S} :
    (\A m \in S : stamp[m] < k) /\ stamp' = [stamp EXCEPT ![n] = k]

Earliest(S, rank) == {n \in S : \A m \in S : rank[n] <= rank[m]}

-----------------------------------------------------------------------------
(* Emitters.                                                               *)

\* The notices are numbered in the order in which their _push begins.
Begins(n) == push[n] = "new" /\ \A m \in 1..(n - 1) : push[m] # "new"

Taken == \E d \in Daemon : sock = d /\ Listening(d) /\ Cardinality(backlog[d]) < Backlog

HandedOver(n) ==
  /\ push' = [push EXCEPT ![n] = "done"]
  /\ came' = [came EXCEPT ![n] = 1 + Cardinality({m \in Notices : push[m] = "done"})]

\* The connection is taken by the system, whatever the daemon is doing.
Connect(n) ==
  /\ Begins(n) /\ Taken
  /\ HandedOver(n)
  /\ backlog' = [backlog EXCEPT ![sock] = @ \cup {n}]
  /\ accepted' = accepted \cup {n}
  /\ UNCHANGED <<prio, spool, disk, pc, stop, listing, queue, sending, recent, stamp,
                 fate, bounds>>

Refused(n) ==
  /\ Begins(n) /\ ~Taken
  /\ push' = [push EXCEPT ![n] = "refused"]
  /\ UNCHANGED <<prio, spool, accepted, came, disk, process, fate, bounds>>

\* The file is named by the millisecond: a second one in it takes its place.
Spool(n) ==
  /\ push[n] = "refused" /\ HandedOver(n)
  /\ StampIn(n, spool)
  /\ \E over \in SUBSET {m \in spool : /\ stamp[m] = stamp'[n] - 1
                                      /\ \A d \in Daemon : m \notin listing[d]} :
       spool' = (spool \ over) \cup {n} /\ cut' = cut \cup over
  /\ UNCHANGED <<prio, accepted, disk, pc, stop, backlog, listing, queue, sending,
                 recent, sent, dropped, overlap, killed, bounds>>

-----------------------------------------------------------------------------
(* Starting and stopping.                                                  *)

\* _ensure_notify_daemon: no living pid in the heartbeat.  Processes that are not there
\* are alike.
Ensure(d) ==
  /\ hb = NoDaemon /\ starts < MaxStarts
  /\ ~Alive(d) /\ d = CHOOSE e \in Daemon : ~Alive(e)
  /\ starts' = starts + 1
  /\ pc' = [pc EXCEPT ![d] = "launched"]
  /\ overlap' = (overlap \/ \E e \in Daemon : Alive(e))
  /\ UNCHANGED <<emitters, disk, stop, backlog, listing, queue, sending, recent, stamp,
                 sent, dropped, cut, killed, faults>>

\* Whatever socket is there is taken for a stale one.
Bind(d) ==
  /\ pc[d] = "launched" /\ pc' = [pc EXCEPT ![d] = "bound"]
  /\ sock' = d
  /\ UNCHANGED <<emitters, hb, file, stop, backlog, listing, queue, sending, recent,
                 stamp, fate, bounds>>

\* _load: first the queue file ...
ReadFile(d) ==
  /\ pc[d] = "bound" /\ pc' = [pc EXCEPT ![d] = "read"]
  /\ queue' = [queue EXCEPT ![d] = file]
  /\ UNCHANGED <<emitters, disk, stop, backlog, listing, sending, recent, stamp, fate,
                 bounds>>

\* ... which is removed, then the spool is listed ...
UnlinkFile(d) ==
  /\ pc[d] = "read" /\ pc' = [pc EXCEPT ![d] = "spooling"]
  /\ file' = {} /\ listing' = [listing EXCEPT ![d] = spool]
  /\ UNCHANGED <<emitters, sock, hb, stop, backlog, queue, sending, recent, stamp, fate,
                 bounds>>

\* Slip: the files stay in the spool.
TakeSpoolKeep(d) ==
  /\ pc[d] = "spooling"
  /\ \E n \in Earliest(listing[d], stamp) :
       /\ listing' = [listing EXCEPT ![d] = @ \ {n}]
       /\ queue' = [queue EXCEPT ![d] = @ \cup {n}] /\ StampIn(n, queue[d])
  /\ UNCHANGED <<prio, push, spool, accepted, came, disk, pc, stop, backlog, sending, recent,
                 fate, bounds>>

\* ... and its files are enqueued in the order of their names, each one removed.
\* A file that another daemon has removed by now is passed over.
TakeSpool(d) ==
  /\ pc[d] = "spooling"
  /\ \E n \in Earliest(listing[d], stamp) :
       /\ listing' = [listing EXCEPT ![d] = @ \ {n}]
       /\ spool' = spool \ {n}
       /\ IF n \in spool
          THEN queue' = [queue EXCEPT ![d] = @ \cup {n}] /\ StampIn(n, queue[d])
          ELSE UNCHANGED <<queue, stamp>>
  /\ UNCHANGED <<prio, push, accepted, came, disk, pc, stop, backlog, sending, recent,
                 fate, bounds>>

Loaded(d) ==
  /\ pc[d] = "spooling" /\ listing[d] = {} /\ pc' = [pc EXCEPT ![d] = "serving"]
  /\ UNCHANGED <<emitters, disk, stop, backlog, listing, queue, sending, recent, stamp,
                 fate, bounds>>

\* stop(): SIGTERM to the pid of the heartbeat.
Stop(d) ==
  /\ hb = d /\ ~stop[d] /\ Fault
  /\ stop' = [stop EXCEPT ![d] = TRUE]
  /\ UNCHANGED <<emitters, disk, pc, backlog, listing, queue, sending, recent, stamp,
                 fate, starts>>

\* The process of the daemon is gone, and with it what it held.
Gone(d) ==
  /\ pc' = [pc EXCEPT ![d] = "off"] /\ stop' = [stop EXCEPT ![d] = FALSE]
  /\ backlog' = [backlog EXCEPT ![d] = {}] /\ listing' = [listing EXCEPT ![d] = {}]
  /\ queue' = [queue EXCEPT ![d] = {}] /\ sending' = [sending EXCEPT ![d] = NoNotice]
  /\ recent' = [recent EXCEPT ![d] = 0]
  /\ hb' = IF hb = d THEN NoDaemon ELSE hb

Kill(d) ==
  /\ Alive(d) /\ Fault /\ killed' = TRUE
  /\ sock' = IF sock = d THEN "stale" ELSE sock
  /\ Gone(d)
  /\ UNCHANGED <<emitters, file, stamp, sent, dropped, cut, overlap, starts>>

-----------------------------------------------------------------------------
(* The loop.                                                               *)

Running(d) == pc[d] = "serving" /\ ~stop[d]
WindowFull(d) == recent[d] >= Rate

\* The head of the heap is popped and posted ...
Send(d) ==
  /\ Running(d) /\ ~WindowFull(d)
  /\ \E n \in Earliest(Earliest(queue[d], prio), stamp) :
       /\ queue' = [queue EXCEPT ![d] = @ \ {n}]
       /\ sending' = [sending EXCEPT ![d] = n]
  /\ pc' = [pc EXCEPT ![d] = "sending"]
  /\ UNCHANGED <<emitters, disk, stop, backlog, listing, recent, stamp, fate, bounds>>

Answered(d) ==
  /\ pc[d] = "sending" /\ pc' = [pc EXCEPT ![d] = "serving"]
  /\ sending' = [sending EXCEPT ![d] = NoNotice] /\ hb' = d

\* ... 204 ...
Delivered(d) ==
  /\ Answered(d)
  /\ sent' = [sent EXCEPT ![sending[d]] = @ + 1]
  /\ recent' = [recent EXCEPT ![d] = @ + 1]
  /\ UNCHANGED <<emitters, sock, file, stop, backlog, listing, queue, stamp, dropped,
                 cut, overlap, killed, bounds>>

\* Slip: a notice that is told to wait is enqueued as a new one.
RequeueLast(d) ==
  /\ Answered(d) /\ Fault
  /\ queue' = [queue EXCEPT ![d] = @ \cup {sending[d]}]
  /\ StampIn(sending[d], queue[d])
  /\ UNCHANGED <<emitters, sock, file, stop, backlog, listing, recent, fate,
                 starts>>

\* ... 429: the item goes back under its old key ...
Throttled(d) ==
  /\ Answered(d) /\ Fault
  /\ queue' = [queue EXCEPT ![d] = @ \cup {sending[d]}]
  /\ UNCHANGED <<emitters, sock, file, stop, backlog, listing, recent, stamp, fate,
                 starts>>

\* ... anything else, the network being down included.
Dropped(d) ==
  /\ Answered(d) /\ Fault
  /\ dropped' = dropped \cup {sending[d]}
  /\ UNCHANGED <<emitters, sock, file, stop, backlog, listing, queue, recent, stamp,
                 sent, cut, overlap, killed, starts>>

\* One connection is accepted and read when the queue is empty.
Accept(d) ==
  /\ Running(d) /\ queue[d] = {}
  /\ \E n \in backlog[d] :
       /\ \A m \in backlog[d] : n <= m
       /\ backlog' = [backlog EXCEPT ![d] = @ \ {n}]
       /\ queue' = [queue EXCEPT ![d] = {n}]
       /\ StampIn(n, queue[d])
  /\ hb' = d
  /\ UNCHANGED <<emitters, sock, file, pc, stop, listing, sending, recent, fate, bounds>>

\* A payload cut at 65536 bytes, or no JSON at all, is only logged.
Unreadable(d) ==
  /\ Running(d) /\ queue[d] = {} /\ Fault
  /\ \E n \in backlog[d] :
       /\ \A m \in backlog[d] : n <= m
       /\ backlog' = [backlog EXCEPT ![d] = @ \ {n}]
       /\ cut' = cut \cup {n}
  /\ hb' = d
  /\ UNCHANGED <<emitters, sock, file, pc, stop, listing, queue, sending, recent, stamp,
                 sent, dropped, overlap, killed, starts>>

\* Nothing to accept, or to wait for the window: the daemon only shows that it lives.
Beat(d) ==
  /\ Running(d) /\ IF queue[d] = {} THEN backlog[d] = {} ELSE WindowFull(d)
  /\ hb' = d
  /\ UNCHANGED <<emitters, sock, file, process, fate, bounds>>

\* Slip: the send times are never taken out of the window.
TickNever(d) == Alive(d) /\ recent[d] > 0 /\ UNCHANGED vars

\* The oldest send leaves the window.
Tick(d) ==
  /\ recent[d] > 0 /\ recent' = [recent EXCEPT ![d] = @ - 1]
  /\ UNCHANGED <<emitters, disk, pc, stop, backlog, listing, queue, sending, stamp, fate,
                 bounds>>

\* Slip: a daemon that is stopped drains its queue first.
CloseDrained(d) ==
  /\ pc[d] = "serving" /\ stop[d] /\ queue[d] = {}
  /\ pc' = [pc EXCEPT ![d] = "closed"]
  /\ sock' = NoDaemon /\ hb' = d
  /\ cut' = cut \cup backlog[d] /\ backlog' = [backlog EXCEPT ![d] = {}]
  /\ UNCHANGED <<emitters, file, stop, listing, queue, sending, recent, stamp, sent,
                 dropped, overlap, killed, bounds>>

\* The socket is closed with all that waits in it, and the path removed, whoever's
\* socket it names.
Close(d) ==
  /\ pc[d] = "serving" /\ stop[d]
  /\ pc' = [pc EXCEPT ![d] = "closed"]
  /\ sock' = NoDaemon /\ hb' = d
  /\ cut' = cut \cup backlog[d] /\ backlog' = [backlog EXCEPT ![d] = {}]
  /\ UNCHANGED <<emitters, file, stop, listing, queue, sending, recent, stamp, sent,
                 dropped, overlap, killed, bounds>>

\* Slip: the queue file goes whether or not something is queued.
PersistNothing(d) ==
  /\ pc[d] = "closed" /\ file' = {} /\ Gone(d)
  /\ UNCHANGED <<emitters, sock, stamp, fate, bounds>>

\* The queue file is written, or removed when nothing is queued.
Persist(d) ==
  /\ pc[d] = "closed" /\ file' = queue[d] /\ Gone(d)
  /\ UNCHANGED <<emitters, sock, stamp, fate, bounds>>

\* An OSError of the write is swallowed, and what was queued ends with the process.
PersistFails(d) ==
  /\ pc[d] = "closed" /\ queue[d] # {} /\ Fault
  /\ cut' = cut \cup queue[d] /\ Gone(d)
  /\ UNCHANGED <<emitters, sock, file, stamp, sent, dropped, overlap, killed, starts>>

-----------------------------------------------------------------------------
Answer(d) == Delivered(d) \/ Throttled(d) \/ Dropped(d)
Work(d) ==
  \/ Bind(d) \/ ReadFile(d) \/ UnlinkFile(d) \/ TakeSpool(d) \/ Loaded(d)
  \/ Send(d) \/ Answer(d) \/ Accept(d) \/ Unreadable(d)
  \/ Close(d) \/ Persist(d) \/ PersistFails(d)

Next ==
  \/ \E n \in Notices : Connect(n) \/ Refused(n) \/ Spool(n)
  \/ \E d \in Daemon : Ensure(d) \/ Work(d) \/ Beat(d) \/ Tick(d) \/ Stop(d) \/ Kill(d)

\* A daemon that is not killed goes on, Discord answers (the request has a timeout),
\* and time passes.  Nobody has to start a daemon, to stop it or to emit.
Fairness == \A d \in Daemon : WF_vars(Work(d)) /\ WF_vars(Tick(d))

Spec == Init /\ [][Next]_vars /\ Fairness

-----------------------------------------------------------------------------
(* Properties.                                                             *)

TypeOK ==
  /\ prio \in [Notices -> Ranks] /\ push \in [Notices -> {"new", "refused", "done"}]
  /\ sock \in Daemon \cup {NoDaemon, "stale"} /\ hb \in Daemon \cup {NoDaemon}
  /\ file \subseteq Notices /\ spool \subseteq Notices
  /\ pc \in [Daemon -> {"off", "launched", "bound", "read", "spooling",
                        "serving", "sending", "closed"}]
  /\ stop \in [Daemon -> BOOLEAN]
  /\ backlog \in [Daemon -> SUBSET Notices] /\ listing \in [Daemon -> SUBSET Notices]
  /\ queue \in [Daemon -> SUBSET Notices] /\ recent \in [Daemon -> 0..Rate]
  /\ sending \in [Daemon -> Notices \cup {NoNotice}]
  /\ \A d \in Daemon : sending[d] # NoNotice <=> pc[d] = "sending"
  /\ stamp \in [Notices -> Nat] /\ accepted \subseteq Notices
  /\ came \in [Notices -> 0..MaxNotices]
  /\ sent \in [Notices -> Nat] /\ dropped \subseteq Notices /\ cut \subseteq Notices
  /\ overlap \in BOOLEAN /\ killed \in BOOLEAN
  /\ starts \in 0..MaxStarts /\ faults \in 0..MaxFaults

InHand(n) == \E d \in Daemon : n \in backlog[d] \cup queue[d] \/ sending[d] = n
Waiting(n) == n \in file \cup spool \/ \E d \in Daemon : n \in backlog[d] \cup queue[d]

\* Over clean stops and restarts a notice is sent, given up after an answer, or still
\* there to be sent: only a backlog that is closed, a spool file that is overwritten, a
\* payload that cannot be read and a queue file that cannot be written lose one.
Kept ==
  ~killed /\ ~overlap =>
    \A n \in Notices : push[n] = "done" =>
      InHand(n) \/ n \in file \cup spool \cup dropped \cup cut \/ sent[n] > 0

\* No notice is sent twice, whatever is killed or restarted when, as long as there is
\* one daemon at a time.
SentOnce == ~overlap => \A n \in Notices : sent[n] <= 1

\* Of two notices of a priority that came the same way, by the socket or by the spool,
\* the earlier is sent first, also when it was told to wait and when a restart came
\* between them.
InTurn ==
  ~overlap => \A d \in Daemon, m, n \in Notices :
    /\ sending[d] = n /\ Waiting(m) /\ m # n
    /\ prio[m] = prio[n] /\ (m \in accepted <=> n \in accepted)
    => came[n] < came[m]

\* The one daemon that serves is the one the socket leads to.
Reachable == ~overlap => \A d \in Daemon : Listening(d) => sock = d

\* What a daemon was handed is settled, unless it is killed.
HandedIsSettled ==
  \A n \in Notices : InHand(n) ~> (~InHand(n) \/ killed)

\* A daemon that is told to stop ends, however much it has queued.
StopEnds == \A d \in Daemon : stop[d] ~> ~stop[d]
=============================================================================
