-------------------------- MODULE NotifyQueueProofs --------------------------
(***************************************************************************)
(* The notification queue for any number of daemons, notices, priorities,  *)
(* restarts and faults, and any rate.                                      *)
(***************************************************************************)
EXTENDS NotifyQueue, FiniteSetTheorems, TLAPS

-----------------------------------------------------------------------------
(* Types.                                                                  *)

\* What is being sent was taken from the queue while the window had room.
HasRoom == \A d \in Daemon : pc[d] = "sending" => recent[d] < Rate

TypeInv == TypeOK /\ HasRoom

\* A notice that begins its place among those handed over: there is one left.
LEMMA CameBound ==
  ASSUME NEW n \in Notices, n \notin {m \in Notices : push[m] = "done"}
  PROVE  1 + Cardinality({m \in Notices : push[m] = "done"}) \in 0..MaxNotices
<1> DEFINE S == {m \in Notices : push[m] = "done"}
<1>1. IsFiniteSet(Notices) /\ Cardinality(Notices) = MaxNotices
  BY NotifyAssumption, FS_Interval DEF Notices
<1>2. IsFiniteSet(Notices \ {n}) /\ Cardinality(Notices \ {n}) = MaxNotices - 1
  BY <1>1, FS_RemoveElement
<1>3. Cardinality(S) \in Nat /\ Cardinality(S) <= MaxNotices - 1
  BY <1>2, FS_Subset, FS_CardinalityType, S \subseteq Notices \ {n}
<1> QED
  BY <1>3, NotifyAssumption

\* A stamp is given among the natural numbers.
LEMMA StampType ==
  ASSUME stamp \in [Notices -> Nat], NEW n \in Notices, NEW S \in SUBSET Notices, StampIn(n, S)
  PROVE  stamp' \in [Notices -> Nat]
BY DEF StampIn

LEMMA NoticeIsSome == \A n \in Notices : n # NoNotice
BY DEF Notices, NoNotice

LEMMA TypeInit == Init => TypeInv
<1> SUFFICES ASSUME Init PROVE TypeInv
  OBVIOUS
<1>1. came \in [Notices -> 0..MaxNotices] /\ stamp \in [Notices -> Nat] /\ sent \in [Notices -> Nat]
  BY NotifyAssumption DEF Init
<1>2. recent \in [Daemon -> 0..Rate] /\ starts \in 0..MaxStarts /\ faults \in 0..MaxFaults
  BY NotifyAssumption DEF Init
<1>3. sending \in [Daemon -> Notices \cup {NoNotice}] /\ pc \in [Daemon -> {"off"}]
  BY DEF Init
<1> QED
  BY <1>1, <1>2, <1>3 DEF Init, TypeInv, TypeOK, HasRoom

LEMMA TypeStep == TypeInv /\ [Next]_vars => TypeInv'
<1> SUFFICES ASSUME TypeInv, [Next]_vars PROVE TypeInv'
  OBVIOUS
<1> USE NotifyAssumption DEF TypeInv, TypeOK, HasRoom, NoNotice, emitters, disk, process, fate, bounds
<1>1. ASSUME NEW n \in Notices, Connect(n) PROVE TypeInv'
  BY <1>1, CameBound DEF Connect, HandedOver, Taken, Begins
<1>2. ASSUME NEW n \in Notices, Refused(n) PROVE TypeInv'
  BY <1>2 DEF Refused, Begins
<1>3. ASSUME NEW n \in Notices, Spool(n) PROVE TypeInv'
  BY <1>3, CameBound, StampType DEF Spool, HandedOver
<1>4. ASSUME NEW d \in Daemon, Ensure(d) PROVE TypeInv'
  BY <1>4 DEF Ensure, Alive
<1>5. ASSUME NEW d \in Daemon, Bind(d) PROVE TypeInv'
  BY <1>5 DEF Bind
<1>6. ASSUME NEW d \in Daemon, ReadFile(d) PROVE TypeInv'
  BY <1>6 DEF ReadFile
<1>7. ASSUME NEW d \in Daemon, UnlinkFile(d) PROVE TypeInv'
  BY <1>7 DEF UnlinkFile
<1>8. ASSUME NEW d \in Daemon, TakeSpool(d) PROVE TypeInv'
  BY <1>8, StampType DEF TakeSpool, Earliest
<1>9. ASSUME NEW d \in Daemon, Loaded(d) PROVE TypeInv'
  BY <1>9 DEF Loaded
<1>10. ASSUME NEW d \in Daemon, Send(d) PROVE TypeInv'
  <2>1. PICK n \in queue[d] : queue' = [queue EXCEPT ![d] = @ \ {n}] /\ sending' = [sending EXCEPT ![d] = n]
    BY <1>10 DEF Send, Earliest
  <2>2. n \in Notices /\ n # NoNotice
    BY DEF Notices
  <2> QED
    BY <1>10, <2>1, <2>2 DEF Send, Running, WindowFull
<1>11. ASSUME NEW d \in Daemon, Delivered(d) PROVE TypeInv'
  BY <1>11 DEF Delivered, Answered
<1>12. ASSUME NEW d \in Daemon, Throttled(d) PROVE TypeInv'
  BY <1>12 DEF Throttled, Answered, Fault
<1>13. ASSUME NEW d \in Daemon, Dropped(d) PROVE TypeInv'
  BY <1>13 DEF Dropped, Answered, Fault
<1>14. ASSUME NEW d \in Daemon, Accept(d) PROVE TypeInv'
  BY <1>14, StampType DEF Accept, Running
<1>15. ASSUME NEW d \in Daemon, Close(d) PROVE TypeInv'
  BY <1>15 DEF Close
<1>16. ASSUME NEW d \in Daemon, Persist(d) PROVE TypeInv'
  BY <1>16 DEF Persist, Gone
<1>17. ASSUME NEW d \in Daemon, Beat(d) PROVE TypeInv'
  BY <1>17 DEF Beat, Running
<1>18. ASSUME NEW d \in Daemon, Tick(d) PROVE TypeInv'
  BY <1>18 DEF Tick
<1>19. ASSUME NEW d \in Daemon, Stop(d) PROVE TypeInv'
  BY <1>19 DEF Stop, Fault
<1>20. ASSUME NEW d \in Daemon, Kill(d) PROVE TypeInv'
  BY <1>20 DEF Kill, Gone, Fault, Alive
<1>22. ASSUME NEW d \in Daemon, Unreadable(d) PROVE TypeInv'
  BY <1>22 DEF Unreadable, Running, Fault
<1>23. ASSUME NEW d \in Daemon, PersistFails(d) PROVE TypeInv'
  BY <1>23 DEF PersistFails, Gone, Fault
<1>21. CASE UNCHANGED vars
  BY <1>21 DEF vars
<1> QED
  BY <1>1, <1>2, <1>3, <1>4, <1>5, <1>6, <1>7, <1>8, <1>9, <1>10, <1>11, <1>12, <1>13, <1>14, <1>15, <1>16, <1>17, <1>18, <1>19, <1>20, <1>21, <1>22, <1>23 DEF Next, Work, Answer

\* The state stays in its types; no window ever holds more sends than the rate.
THEOREM TypeCorrect == Spec => []TypeOK
<1>1. TypeInv => TypeOK
  BY DEF TypeInv
<1> QED
  BY TypeInit, TypeStep, <1>1, PTL DEF Spec

-----------------------------------------------------------------------------
(* Every notice is in one place.                                           *)

\* One daemon lives.
Solo == \A d, e \in Daemon : Alive(d) /\ Alive(e) => d = e

\* What a daemon holds, and what the disk holds then, by where the daemon is.
Holds(d) ==
  /\ pc[d] \in {"off", "launched", "bound"} => queue[d] = {}
  /\ pc[d] \in {"off", "launched", "closed"} => backlog[d] = {}
  /\ pc[d] = "read" => queue[d] = file
  /\ pc[d] \in {"spooling", "serving", "sending", "closed"} => file = {}
  /\ Listening(d) => sock = d

InDaemon(n, d) == n \in backlog[d] \/ n \in queue[d] \/ sending[d] = n

\* Only between reading the queue file and removing it is a notice in two places.
Apart(n) ==
  /\ n \in spool => n \notin file /\ \A d \in Daemon : ~InDaemon(n, d)
  /\ n \in file => \A d \in Daemon : n \notin backlog[d] /\ sending[d] # n
  /\ \A d \in Daemon :
       /\ n \in backlog[d] => n \notin queue[d] /\ sending[d] # n
       /\ n \in queue[d] => sending[d] # n

\* A notice is nowhere before it is handed over, and nowhere but with Discord after it
\* was sent.
Nowhere(n) == n \notin spool /\ n \notin file /\ \A d \in Daemon : ~InDaemon(n, d)
Settled(n) ==
  /\ push[n] # "done" => Nowhere(n) /\ sent[n] = 0
  /\ sent[n] <= 1
  /\ sent[n] = 1 => Nowhere(n)

Places ==
  /\ Solo
  /\ \A d \in Daemon : Holds(d)
  /\ \A n \in Notices : Apart(n) /\ Settled(n)

PlaceInv == ~overlap => Places

LEMMA PlaceInit == Init => PlaceInv
BY DEF Init, PlaceInv, Places, Solo, Alive, Holds, Listening, Apart, InDaemon, Settled, Nowhere, Notices, NoNotice

\* That two daemons met, and that one was killed, is never taken back.
LEMMA MarksStay == [Next]_vars => (overlap => overlap') /\ (killed => killed')
<1> DEFINE Stays == (overlap => overlap') /\ (killed => killed')
<1>1. ASSUME NEW n \in Notices, Connect(n) \/ Refused(n) \/ Spool(n) PROVE Stays
  BY <1>1 DEF Connect, Refused, Spool, fate
<1>2. ASSUME NEW d \in Daemon, Ensure(d) PROVE Stays
  BY <1>2 DEF Ensure, fate
<1>3. ASSUME NEW d \in Daemon, Bind(d) \/ ReadFile(d) PROVE Stays
  BY <1>3 DEF Bind, ReadFile, fate
<1>4. ASSUME NEW d \in Daemon, UnlinkFile(d) \/ TakeSpool(d) \/ Loaded(d) PROVE Stays
  BY <1>4 DEF UnlinkFile, TakeSpool, Loaded, fate
<1>5. ASSUME NEW d \in Daemon, Send(d) \/ Delivered(d) \/ Throttled(d) \/ Dropped(d) PROVE Stays
  BY <1>5 DEF Send, Delivered, Throttled, Dropped, fate
<1>6. ASSUME NEW d \in Daemon, Accept(d) \/ Unreadable(d) \/ Close(d) \/ Persist(d) \/ PersistFails(d) PROVE Stays
  BY <1>6 DEF Accept, Unreadable, Close, Persist, PersistFails, fate
<1>7. ASSUME NEW d \in Daemon, Beat(d) \/ Tick(d) \/ Stop(d) \/ Kill(d) PROVE Stays
  BY <1>7 DEF Beat, Tick, Stop, Kill, fate
<1>8. CASE UNCHANGED vars
  BY <1>8 DEF vars, fate
<1> QED
  BY <1>1, <1>2, <1>3, <1>4, <1>5, <1>6, <1>7, <1>8 DEF Next, Work, Answer

LEMMA PlaceStep == TypeInv /\ PlaceInv /\ [Next]_vars => PlaceInv'
<1> SUFFICES ASSUME TypeInv, Places, ~overlap, [Next]_vars, ~overlap' PROVE Places'
  BY MarksStay DEF PlaceInv
<1> USE DEF Places, TypeInv, TypeOK, NoNotice, emitters, disk, process, fate, bounds
<1>1. ASSUME NEW n \in Notices, Connect(n) PROVE Places'
  <2>1. Solo'
    BY <1>1 DEF Solo, Connect, HandedOver, Taken, Begins, Alive
  <2>2. ASSUME NEW e \in Daemon PROVE Holds(e)'
    BY <1>1 DEF Solo, Holds, Listening, Connect, HandedOver, Taken, Begins, Alive
  <2>3. ASSUME NEW m \in Notices PROVE Apart(m)'
    BY <1>1 DEF Solo, Holds, Listening, Apart, InDaemon, Settled, Nowhere, Connect, HandedOver, Taken, Begins, Alive
  <2>4. ASSUME NEW m \in Notices PROVE Settled(m)'
    BY <1>1 DEF Solo, Holds, Listening, Apart, InDaemon, Settled, Nowhere, Connect, HandedOver, Taken, Begins, Alive
  <2> QED
    BY <2>1, <2>2, <2>3, <2>4
<1>2. ASSUME NEW n \in Notices, Refused(n) PROVE Places'
  <2>1. Solo'
    BY <1>2 DEF Solo, Refused, Begins, Alive
  <2>2. ASSUME NEW e \in Daemon PROVE Holds(e)'
    BY <1>2 DEF Solo, Holds, Listening, Refused, Begins, Alive
  <2>3. ASSUME NEW m \in Notices PROVE Apart(m)'
    BY <1>2 DEF Solo, Holds, Listening, Apart, InDaemon, Settled, Nowhere, Refused, Begins, Alive
  <2>4. ASSUME NEW m \in Notices PROVE Settled(m)'
    BY <1>2 DEF Solo, Holds, Listening, Apart, InDaemon, Settled, Nowhere, Refused, Begins, Alive
  <2> QED
    BY <2>1, <2>2, <2>3, <2>4
<1>3. ASSUME NEW n \in Notices, Spool(n) PROVE Places'
  <2>1. Solo'
    BY <1>3 DEF Solo, Spool, HandedOver, Alive
  <2>2. ASSUME NEW e \in Daemon PROVE Holds(e)'
    BY <1>3 DEF Solo, Holds, Listening, Spool, HandedOver, Alive
  <2>3. ASSUME NEW m \in Notices PROVE Apart(m)'
    BY <1>3 DEF Solo, Holds, Listening, Apart, InDaemon, Settled, Nowhere, Spool, HandedOver, Alive
  <2>4. ASSUME NEW m \in Notices PROVE Settled(m)'
    BY <1>3 DEF Solo, Holds, Listening, Apart, InDaemon, Settled, Nowhere, Spool, HandedOver, Alive
  <2> QED
    BY <2>1, <2>2, <2>3, <2>4
<1>4. ASSUME NEW d \in Daemon, Ensure(d) PROVE Places'
  <2>1. Solo'
    BY <1>4 DEF Solo, Ensure, Alive
  <2>2. ASSUME NEW e \in Daemon PROVE Holds(e)'
    BY <1>4 DEF Solo, Holds, Listening, Ensure, Alive
  <2>3. ASSUME NEW m \in Notices PROVE Apart(m)'
    BY <1>4 DEF Solo, Holds, Listening, Apart, InDaemon, Settled, Nowhere, Ensure, Alive
  <2>4. ASSUME NEW m \in Notices PROVE Settled(m)'
    BY <1>4 DEF Solo, Holds, Listening, Apart, InDaemon, Settled, Nowhere, Ensure, Alive
  <2> QED
    BY <2>1, <2>2, <2>3, <2>4
<1>5. ASSUME NEW d \in Daemon, Bind(d) PROVE Places'
  <2>1. Solo'
    BY <1>5 DEF Solo, Bind, Alive
  <2>2. ASSUME NEW e \in Daemon PROVE Holds(e)'
    BY <1>5 DEF Solo, Holds, Listening, Bind, Alive
  <2>3. ASSUME NEW m \in Notices PROVE Apart(m)'
    BY <1>5 DEF Solo, Holds, Listening, Apart, InDaemon, Settled, Nowhere, Bind, Alive
  <2>4. ASSUME NEW m \in Notices PROVE Settled(m)'
    BY <1>5 DEF Solo, Holds, Listening, Apart, InDaemon, Settled, Nowhere, Bind, Alive
  <2> QED
    BY <2>1, <2>2, <2>3, <2>4
<1>6. ASSUME NEW d \in Daemon, ReadFile(d) PROVE Places'
  <2>1. Solo'
    BY <1>6 DEF Solo, ReadFile, Alive
  <2>2. ASSUME NEW e \in Daemon PROVE Holds(e)'
    BY <1>6 DEF Solo, Holds, Listening, ReadFile, Alive
  <2>3. ASSUME NEW m \in Notices PROVE Apart(m)'
    BY <1>6 DEF Solo, Holds, Listening, Apart, InDaemon, Settled, Nowhere, ReadFile, Alive
  <2>4. ASSUME NEW m \in Notices PROVE Settled(m)'
    BY <1>6 DEF Solo, Holds, Listening, Apart, InDaemon, Settled, Nowhere, ReadFile, Alive
  <2> QED
    BY <2>1, <2>2, <2>3, <2>4
<1>7. ASSUME NEW d \in Daemon, UnlinkFile(d) PROVE Places'
  <2>1. Solo'
    BY <1>7 DEF Solo, UnlinkFile, Alive
  <2>2. ASSUME NEW e \in Daemon PROVE Holds(e)'
    BY <1>7 DEF Solo, Holds, Listening, UnlinkFile, Alive
  <2>3. ASSUME NEW m \in Notices PROVE Apart(m)'
    BY <1>7 DEF Solo, Holds, Listening, Apart, InDaemon, Settled, Nowhere, UnlinkFile, Alive
  <2>4. ASSUME NEW m \in Notices PROVE Settled(m)'
    BY <1>7 DEF Solo, Holds, Listening, Apart, InDaemon, Settled, Nowhere, UnlinkFile, Alive
  <2> QED
    BY <2>1, <2>2, <2>3, <2>4
<1>8. ASSUME NEW d \in Daemon, TakeSpool(d) PROVE Places'
  <2>1. Solo'
    BY <1>8 DEF Solo, TakeSpool, Earliest, Alive
  <2>2. ASSUME NEW e \in Daemon PROVE Holds(e)'
    BY <1>8 DEF Solo, Holds, Listening, TakeSpool, Earliest, Alive
  <2>3. ASSUME NEW m \in Notices PROVE Apart(m)'
    BY <1>8 DEF Solo, Holds, Listening, Apart, InDaemon, Settled, Nowhere, TakeSpool, Earliest, Alive
  <2>4. ASSUME NEW m \in Notices PROVE Settled(m)'
    BY <1>8 DEF Solo, Holds, Listening, Apart, InDaemon, Settled, Nowhere, TakeSpool, Earliest, Alive
  <2> QED
    BY <2>1, <2>2, <2>3, <2>4
<1>9. ASSUME NEW d \in Daemon, Loaded(d) PROVE Places'
  <2>1. Solo'
    BY <1>9 DEF Solo, Loaded, Alive
  <2>2. ASSUME NEW e \in Daemon PROVE Holds(e)'
    BY <1>9 DEF Solo, Holds, Listening, Loaded, Alive
  <2>3. ASSUME NEW m \in Notices PROVE Apart(m)'
    BY <1>9 DEF Solo, Holds, Listening, Apart, InDaemon, Settled, Nowhere, Loaded, Alive
  <2>4. ASSUME NEW m \in Notices PROVE Settled(m)'
    BY <1>9 DEF Solo, Holds, Listening, Apart, InDaemon, Settled, Nowhere, Loaded, Alive
  <2> QED
    BY <2>1, <2>2, <2>3, <2>4
<1>10. ASSUME NEW d \in Daemon, Send(d) PROVE Places'
  <2>1. Solo'
    BY <1>10 DEF Solo, Send, Running, WindowFull, Earliest, Alive
  <2>2. ASSUME NEW e \in Daemon PROVE Holds(e)'
    BY <1>10 DEF Solo, Holds, Listening, Send, Running, WindowFull, Earliest, Alive
  <2>3. ASSUME NEW m \in Notices PROVE Apart(m)'
    BY <1>10 DEF Solo, Holds, Listening, Apart, InDaemon, Settled, Nowhere, Send, Running, WindowFull, Earliest, Alive
  <2>4. ASSUME NEW m \in Notices PROVE Settled(m)'
    BY <1>10 DEF Solo, Holds, Listening, Apart, InDaemon, Settled, Nowhere, Send, Running, WindowFull, Earliest, Alive
  <2> QED
    BY <2>1, <2>2, <2>3, <2>4
<1>11. ASSUME NEW d \in Daemon, Delivered(d) PROVE Places'
  <2>1. Solo'
    BY <1>11 DEF Solo, Delivered, Answered, Alive
  <2>2. ASSUME NEW e \in Daemon PROVE Holds(e)'
    BY <1>11 DEF Solo, Holds, Listening, Delivered, Answered, Alive
  <2>3. ASSUME NEW m \in Notices PROVE Apart(m)'
    BY <1>11, NoticeIsSome DEF Solo, Holds, Listening, Apart, InDaemon, Settled, Nowhere, Delivered, Answered, Alive
  <2>4. ASSUME NEW m \in Notices PROVE Settled(m)'
    <3>1. CASE m = sending[d]
      <4>1. sent[m] \in Nat /\ ~Nowhere(m) /\ push[m] = "done"
        BY <3>1, <1>11 DEF Settled, Nowhere, InDaemon
      <4>2. sent[m] = 0
        BY <4>1 DEF Settled
      <4>3. push'[m] = "done" /\ sent'[m] = 1
        BY <4>1, <4>2, <3>1, <1>11 DEF Delivered, Answered
      <4>4. m \notin spool' /\ m \notin file'
        BY <3>1, <1>11 DEF Apart, InDaemon, Delivered, Answered
      <4>5. ASSUME NEW e \in Daemon PROVE ~InDaemon(m, e)'
        BY <3>1, <1>11, NoticeIsSome DEF Solo, Alive, Holds, Apart, InDaemon, Delivered, Answered
      <4> QED
        BY <4>3, <4>4, <4>5 DEF Settled, Nowhere
    <3>2. CASE m # sending[d]
      BY <3>2, <1>11, NoticeIsSome DEF Settled, Nowhere, InDaemon, Delivered, Answered
    <3> QED
      BY <3>1, <3>2
  <2> QED
    BY <2>1, <2>2, <2>3, <2>4
<1>12. ASSUME NEW d \in Daemon, Throttled(d) PROVE Places'
  <2>1. Solo'
    BY <1>12 DEF Solo, Throttled, Answered, Fault, Alive
  <2>2. ASSUME NEW e \in Daemon PROVE Holds(e)'
    BY <1>12 DEF Solo, Holds, Listening, Throttled, Answered, Fault, Alive
  <2>3. ASSUME NEW m \in Notices PROVE Apart(m)'
    BY <1>12, NoticeIsSome DEF Solo, Holds, Listening, Apart, InDaemon, Settled, Nowhere, Throttled, Answered, Fault, Alive
  <2>4. ASSUME NEW m \in Notices PROVE Settled(m)'
    BY <1>12, NoticeIsSome DEF Solo, Holds, Listening, Apart, InDaemon, Settled, Nowhere, Throttled, Answered, Fault, Alive
  <2> QED
    BY <2>1, <2>2, <2>3, <2>4
<1>13. ASSUME NEW d \in Daemon, Dropped(d) PROVE Places'
  <2>1. Solo'
    BY <1>13 DEF Solo, Dropped, Answered, Fault, Alive
  <2>2. ASSUME NEW e \in Daemon PROVE Holds(e)'
    BY <1>13 DEF Solo, Holds, Listening, Dropped, Answered, Fault, Alive
  <2>3. ASSUME NEW m \in Notices PROVE Apart(m)'
    BY <1>13, NoticeIsSome DEF Solo, Holds, Listening, Apart, InDaemon, Settled, Nowhere, Dropped, Answered, Fault, Alive
  <2>4. ASSUME NEW m \in Notices PROVE Settled(m)'
    BY <1>13, NoticeIsSome DEF Solo, Holds, Listening, Apart, InDaemon, Settled, Nowhere, Dropped, Answered, Fault, Alive
  <2> QED
    BY <2>1, <2>2, <2>3, <2>4
<1>14. ASSUME NEW d \in Daemon, Accept(d) PROVE Places'
  <2>1. Solo'
    BY <1>14 DEF Solo, Accept, Running, Alive
  <2>2. ASSUME NEW e \in Daemon PROVE Holds(e)'
    BY <1>14 DEF Solo, Holds, Listening, Accept, Running, Alive
  <2>3. ASSUME NEW m \in Notices PROVE Apart(m)'
    BY <1>14 DEF Solo, Holds, Listening, Apart, InDaemon, Settled, Nowhere, Accept, Running, Alive
  <2>4. ASSUME NEW m \in Notices PROVE Settled(m)'
    BY <1>14 DEF Solo, Holds, Listening, Apart, InDaemon, Settled, Nowhere, Accept, Running, Alive
  <2> QED
    BY <2>1, <2>2, <2>3, <2>4
<1>15. ASSUME NEW d \in Daemon, Close(d) PROVE Places'
  <2>1. Solo'
    BY <1>15 DEF Solo, Close, Alive
  <2>2. ASSUME NEW e \in Daemon PROVE Holds(e)'
    BY <1>15 DEF Solo, Holds, Listening, Close, Alive
  <2>3. ASSUME NEW m \in Notices PROVE Apart(m)'
    BY <1>15 DEF Solo, Holds, Listening, Apart, InDaemon, Settled, Nowhere, Close, Alive
  <2>4. ASSUME NEW m \in Notices PROVE Settled(m)'
    BY <1>15 DEF Solo, Holds, Listening, Apart, InDaemon, Settled, Nowhere, Close, Alive
  <2> QED
    BY <2>1, <2>2, <2>3, <2>4
<1>16. ASSUME NEW d \in Daemon, Persist(d) PROVE Places'
  <2>1. Solo'
    BY <1>16 DEF Solo, Persist, Gone, Alive
  <2>2. ASSUME NEW e \in Daemon PROVE Holds(e)'
    BY <1>16 DEF Solo, Holds, Listening, Persist, Gone, Alive
  <2>3. ASSUME NEW m \in Notices PROVE Apart(m)'
    BY <1>16 DEF Solo, Holds, Listening, Apart, InDaemon, Settled, Nowhere, Persist, Gone, Alive
  <2>4. ASSUME NEW m \in Notices PROVE Settled(m)'
    BY <1>16 DEF Solo, Holds, Listening, Apart, InDaemon, Settled, Nowhere, Persist, Gone, Alive
  <2> QED
    BY <2>1, <2>2, <2>3, <2>4
<1>17. ASSUME NEW d \in Daemon, Beat(d) PROVE Places'
  <2>1. Solo'
    BY <1>17 DEF Solo, Beat, Running, Alive
  <2>2. ASSUME NEW e \in Daemon PROVE Holds(e)'
    BY <1>17 DEF Solo, Holds, Listening, Beat, Running, Alive
  <2>3. ASSUME NEW m \in Notices PROVE Apart(m)'
    BY <1>17 DEF Solo, Holds, Listening, Apart, InDaemon, Settled, Nowhere, Beat, Running, Alive
  <2>4. ASSUME NEW m \in Notices PROVE Settled(m)'
    BY <1>17 DEF Solo, Holds, Listening, Apart, InDaemon, Settled, Nowhere, Beat, Running, Alive
  <2> QED
    BY <2>1, <2>2, <2>3, <2>4
<1>18. ASSUME NEW d \in Daemon, Tick(d) PROVE Places'
  <2>1. Solo'
    BY <1>18 DEF Solo, Tick, Alive
  <2>2. ASSUME NEW e \in Daemon PROVE Holds(e)'
    BY <1>18 DEF Solo, Holds, Listening, Tick, Alive
  <2>3. ASSUME NEW m \in Notices PROVE Apart(m)'
    BY <1>18 DEF Solo, Holds, Listening, Apart, InDaemon, Settled, Nowhere, Tick, Alive
  <2>4. ASSUME NEW m \in Notices PROVE Settled(m)'
    BY <1>18 DEF Solo, Holds, Listening, Apart, InDaemon, Settled, Nowhere, Tick, Alive
  <2> QED
    BY <2>1, <2>2, <2>3, <2>4
<1>19. ASSUME NEW d \in Daemon, Stop(d) PROVE Places'
  <2>1. Solo'
    BY <1>19 DEF Solo, Stop, Fault, Alive
  <2>2. ASSUME NEW e \in Daemon PROVE Holds(e)'
    BY <1>19 DEF Solo, Holds, Listening, Stop, Fault, Alive
  <2>3. ASSUME NEW m \in Notices PROVE Apart(m)'
    BY <1>19 DEF Solo, Holds, Listening, Apart, InDaemon, Settled, Nowhere, Stop, Fault, Alive
  <2>4. ASSUME NEW m \in Notices PROVE Settled(m)'
    BY <1>19 DEF Solo, Holds, Listening, Apart, InDaemon, Settled, Nowhere, Stop, Fault, Alive
  <2> QED
    BY <2>1, <2>2, <2>3, <2>4
<1>20. ASSUME NEW d \in Daemon, Kill(d) PROVE Places'
  <2>1. Solo'
    BY <1>20 DEF Solo, Kill, Gone, Fault, Alive
  <2>2. ASSUME NEW e \in Daemon PROVE Holds(e)'
    BY <1>20 DEF Solo, Holds, Listening, Kill, Gone, Fault, Alive
  <2>3. ASSUME NEW m \in Notices PROVE Apart(m)'
    BY <1>20, NoticeIsSome DEF Solo, Holds, Listening, Apart, InDaemon, Settled, Nowhere, Kill, Gone, Fault, Alive
  <2>4. ASSUME NEW m \in Notices PROVE Settled(m)'
    BY <1>20, NoticeIsSome DEF Solo, Holds, Listening, Apart, InDaemon, Settled, Nowhere, Kill, Gone, Fault, Alive
  <2> QED
    BY <2>1, <2>2, <2>3, <2>4
<1>22. ASSUME NEW d \in Daemon, Unreadable(d) PROVE Places'
  <2>1. Solo'
    BY <1>22 DEF Solo, Unreadable, Running, Fault, Alive
  <2>2. ASSUME NEW e \in Daemon PROVE Holds(e)'
    BY <1>22 DEF Solo, Holds, Listening, Unreadable, Running, Fault, Alive
  <2>3. ASSUME NEW m \in Notices PROVE Apart(m)'
    BY <1>22, NoticeIsSome DEF Solo, Holds, Listening, Apart, InDaemon, Settled, Nowhere, Unreadable, Running, Fault, Alive
  <2>4. ASSUME NEW m \in Notices PROVE Settled(m)'
    BY <1>22, NoticeIsSome DEF Solo, Holds, Listening, Apart, InDaemon, Settled, Nowhere, Unreadable, Running, Fault, Alive
  <2> QED
    BY <2>1, <2>2, <2>3, <2>4
<1>23. ASSUME NEW d \in Daemon, PersistFails(d) PROVE Places'
  <2>1. Solo'
    BY <1>23 DEF Solo, PersistFails, Gone, Fault, Alive
  <2>2. ASSUME NEW e \in Daemon PROVE Holds(e)'
    BY <1>23 DEF Solo, Holds, Listening, PersistFails, Gone, Fault, Alive
  <2>3. ASSUME NEW m \in Notices PROVE Apart(m)'
    BY <1>23, NoticeIsSome DEF Solo, Holds, Listening, Apart, InDaemon, Settled, Nowhere, PersistFails, Gone, Fault, Alive
  <2>4. ASSUME NEW m \in Notices PROVE Settled(m)'
    BY <1>23, NoticeIsSome DEF Solo, Holds, Listening, Apart, InDaemon, Settled, Nowhere, PersistFails, Gone, Fault, Alive
  <2> QED
    BY <2>1, <2>2, <2>3, <2>4
<1>21. CASE UNCHANGED vars
  BY <1>21 DEF vars, Solo, Alive, Holds, Listening, Apart, InDaemon, Settled, Nowhere
<1> QED
  BY <1>1, <1>2, <1>3, <1>4, <1>5, <1>6, <1>7, <1>8, <1>9, <1>10, <1>11, <1>12, <1>13, <1>14, <1>15, <1>16, <1>17, <1>18, <1>19, <1>20, <1>21, <1>22, <1>23 DEF Next, Work, Answer

\* No notice is sent twice, with one daemon at a time, whatever is killed or restarted.
THEOREM NoNoticeTwice == Spec => []SentOnce
<1>1. TypeInv /\ PlaceInv => SentOnce
  BY DEF PlaceInv, Places, Settled, SentOnce
<1> QED
  BY TypeInit, TypeStep, PlaceInit, PlaceStep, <1>1, PTL DEF Spec

\* With one daemon at a time, the daemon that serves has the socket.
THEOREM ServerIsReached == Spec => []Reachable
<1>1. TypeInv /\ PlaceInv => Reachable
  BY DEF PlaceInv, Places, Holds, Reachable
<1> QED
  BY TypeInit, TypeStep, PlaceInit, PlaceStep, <1>1, PTL DEF Spec

-----------------------------------------------------------------------------
(* Nothing is lost over stops and restarts.                                *)

Somewhere(n) == InHand(n) \/ n \in file \cup spool \cup dropped \cup cut \/ sent[n] > 0

LEMMA KeptInit == Init => Kept
BY DEF Init, Kept

LEMMA KeptStep == TypeInv /\ PlaceInv /\ Kept /\ [Next]_vars => Kept'
<1> SUFFICES ASSUME TypeInv, Places, Kept, ~overlap, ~killed, [Next]_vars, ~overlap', ~killed',
                    NEW m \in Notices, push'[m] = "done"
             PROVE  Somewhere(m)'
  BY MarksStay DEF PlaceInv, Kept, Somewhere, InHand
<1> USE DEF Kept, TypeInv, TypeOK, NoNotice, emitters, disk, process, fate, bounds
<1>1. ASSUME NEW n \in Notices, Connect(n) PROVE Somewhere(m)'
  BY <1>1 DEF Somewhere, InHand, Connect, HandedOver, Taken, Begins
<1>2. ASSUME NEW n \in Notices, Refused(n) PROVE Somewhere(m)'
  BY <1>2 DEF Somewhere, InHand, Refused, Begins
<1>3. ASSUME NEW n \in Notices, Spool(n) PROVE Somewhere(m)'
  BY <1>3 DEF Somewhere, InHand, Spool, HandedOver
<1>4. ASSUME NEW d \in Daemon, Ensure(d) PROVE Somewhere(m)'
  BY <1>4 DEF Somewhere, InHand, Ensure, Alive
<1>5. ASSUME NEW d \in Daemon, Bind(d) PROVE Somewhere(m)'
  BY <1>5 DEF Somewhere, InHand, Bind
<1>6. ASSUME NEW d \in Daemon, ReadFile(d) PROVE Somewhere(m)'
  BY <1>6 DEF Somewhere, InHand, ReadFile, Places, Holds, Solo, Alive
<1>7. ASSUME NEW d \in Daemon, UnlinkFile(d) PROVE Somewhere(m)'
  BY <1>7 DEF Somewhere, InHand, UnlinkFile, Places, Holds, Solo, Alive
<1>8. ASSUME NEW d \in Daemon, TakeSpool(d) PROVE Somewhere(m)'
  BY <1>8 DEF Somewhere, InHand, TakeSpool, Earliest
<1>9. ASSUME NEW d \in Daemon, Loaded(d) PROVE Somewhere(m)'
  BY <1>9 DEF Somewhere, InHand, Loaded
<1>10. ASSUME NEW d \in Daemon, Send(d) PROVE Somewhere(m)'
  <2>1. PICK n \in queue[d] : queue' = [queue EXCEPT ![d] = @ \ {n}] /\ sending' = [sending EXCEPT ![d] = n]
    BY <1>10 DEF Send, Earliest
  <2>2. /\ UNCHANGED <<push, file, spool, dropped, cut, sent, backlog>>
        /\ sending[d] # m \/ m \notin Notices
    BY <1>10, NoticeIsSome DEF Send, Running
  <2> QED
    BY <2>1, <2>2 DEF Somewhere, InHand
<1>11. ASSUME NEW d \in Daemon, Delivered(d) PROVE Somewhere(m)'
  BY <1>11, NoticeIsSome DEF Somewhere, InHand, Delivered, Answered
<1>12. ASSUME NEW d \in Daemon, Throttled(d) PROVE Somewhere(m)'
  BY <1>12, NoticeIsSome DEF Somewhere, InHand, Throttled, Answered, Fault
<1>13. ASSUME NEW d \in Daemon, Dropped(d) PROVE Somewhere(m)'
  BY <1>13, NoticeIsSome DEF Somewhere, InHand, Dropped, Answered, Fault
<1>14. ASSUME NEW d \in Daemon, Accept(d) PROVE Somewhere(m)'
  BY <1>14 DEF Somewhere, InHand, Accept, Running
<1>15. ASSUME NEW d \in Daemon, Close(d) PROVE Somewhere(m)'
  BY <1>15 DEF Somewhere, InHand, Close, Places, Holds, Solo, Alive
<1>16. ASSUME NEW d \in Daemon, Persist(d) PROVE Somewhere(m)'
  BY <1>16, NoticeIsSome DEF Somewhere, InHand, Persist, Gone, Places, Holds, Solo, Alive
<1>17. ASSUME NEW d \in Daemon, Beat(d) PROVE Somewhere(m)'
  BY <1>17 DEF Somewhere, InHand, Beat, Running
<1>18. ASSUME NEW d \in Daemon, Tick(d) PROVE Somewhere(m)'
  BY <1>18 DEF Somewhere, InHand, Tick
<1>19. ASSUME NEW d \in Daemon, Stop(d) PROVE Somewhere(m)'
  BY <1>19 DEF Somewhere, InHand, Stop, Fault
<1>20. ASSUME NEW d \in Daemon, Kill(d) PROVE Somewhere(m)'
  BY <1>20, NoticeIsSome DEF Somewhere, InHand, Kill, Gone, Fault, Alive
<1>22. ASSUME NEW d \in Daemon, Unreadable(d) PROVE Somewhere(m)'
  BY <1>22 DEF Somewhere, InHand, Unreadable, Running, Fault
<1>23. ASSUME NEW d \in Daemon, PersistFails(d) PROVE Somewhere(m)'
  BY <1>23, NoticeIsSome DEF Somewhere, InHand, PersistFails, Gone, Fault, Places, Holds, Solo, Alive
<1>21. CASE UNCHANGED vars
  BY <1>21 DEF vars, Somewhere, InHand
<1> QED
  BY <1>1, <1>2, <1>3, <1>4, <1>5, <1>6, <1>7, <1>8, <1>9, <1>10, <1>11, <1>12, <1>13, <1>14, <1>15, <1>16, <1>17, <1>18, <1>19, <1>20, <1>21, <1>22, <1>23 DEF Next, Work, Answer

\* Over clean stops and restarts a notice that was handed over is sent, given up after an
\* answer, cut off by name, or still there to be sent.
THEOREM NoticesKept == Spec => []Kept
BY TypeInit, TypeStep, PlaceInit, PlaceStep, KeptInit, KeptStep, PTL DEF Spec

-----------------------------------------------------------------------------
(* The earlier first.                                                      *)

Done == {n \in Notices : push[n] = "done"}

\* Who came first: notices are numbered as they are handed over, and those that the
\* socket took are handed over as they begin.  The spool is for the others.
Numbered ==
  /\ accepted \subseteq Done /\ spool \subseteq Done \ accepted
  /\ \A m, n \in Notices : push[n] = "new" /\ n < m => push[m] = "new"
  /\ \A n \in Done : came[n] <= Cardinality(Done)
  /\ \A m, n \in Done : m # n => came[m] # came[n]
  /\ \A m, n \in accepted : m < n => came[m] < came[n]

\* The notice that is handed over comes after all that were handed over before.
LEMMA HandedLast ==
  ASSUME TypeInv, Numbered, NEW n \in Notices, push[n] # "done", HandedOver(n)
  PROVE  /\ Done' = Done \cup {n} /\ n \notin Done
         /\ Cardinality(Done') = Cardinality(Done) + 1 /\ Cardinality(Done) \in Nat
         /\ came'[n] = Cardinality(Done) + 1
         /\ \A m \in Done : came'[m] = came[m] /\ came[m] < came'[n]
<1>0. IsFiniteSet(Notices) /\ Done \subseteq Notices
  BY NotifyAssumption, FS_Interval DEF Notices, Done
<1>1. IsFiniteSet(Done)
  BY <1>0, FS_Subset
<1>2. Done' = Done \cup {n} /\ n \notin Done
  BY DEF HandedOver, Done, TypeInv, TypeOK
<1>3. Cardinality(Done') = Cardinality(Done) + 1 /\ Cardinality(Done) \in Nat
  BY <1>1, <1>2, FS_AddElement, FS_CardinalityType
<1>4. came'[n] = Cardinality(Done) + 1 /\ \A m \in Done : came'[m] = came[m]
  BY <1>2, <1>3 DEF HandedOver, Done, TypeInv, TypeOK
<1>5. \A m \in Done : came[m] <= Cardinality(Done) /\ came[m] \in 0..MaxNotices
  BY DEF Numbered, TypeInv, TypeOK, Done
<1> QED
  BY <1>2, <1>3, <1>4, <1>5, NotifyAssumption

LEMMA NumberInit == Init => Numbered
BY DEF Init, Numbered, Done

LEMMA NumberStep == TypeInv /\ Numbered /\ [Next]_vars => Numbered'
<1> SUFFICES ASSUME TypeInv, Numbered, [Next]_vars PROVE Numbered'
  OBVIOUS
<1>1. ASSUME NEW n \in Notices, Connect(n) PROVE Numbered'
  <2>1. push[n] = "new" /\ HandedOver(n) /\ accepted' = accepted \cup {n} /\ spool' = spool
    BY <1>1 DEF Connect, Begins
  <2>2. push[n] # "done"
    BY <2>1
  <2>3. /\ Done' = Done \cup {n} /\ n \notin Done
        /\ Cardinality(Done') = Cardinality(Done) + 1 /\ Cardinality(Done) \in Nat
        /\ came'[n] = Cardinality(Done) + 1
        /\ \A m \in Done : came'[m] = came[m] /\ came[m] < came'[n]
    BY <2>1, <2>2, HandedLast
  <2>4. accepted' \subseteq Done' /\ spool' \subseteq Done' \ accepted'
    BY <2>1, <2>3 DEF Numbered
  <2>5. \A m \in accepted : m < n
    <3>1. \A m \in Notices : n < m => push[m] = "new"
      BY <2>1 DEF Numbered
    <3>2. \A m \in accepted : m \in Notices /\ push[m] # "new" /\ m # n
      BY <2>3 DEF Numbered, Done
    <3> QED
      BY <3>1, <3>2 DEF Notices
  <2>6. \A k, m \in Notices : push'[m] = "new" /\ m < k => push'[k] = "new"
    BY <1>1, <2>1 DEF Numbered, TypeInv, TypeOK, HandedOver, Begins, Connect, Notices
  <2>7. \A m \in Done' : came'[m] <= Cardinality(Done)'
    BY <2>3 DEF Numbered, TypeInv, TypeOK, Done
  <2>8. \A k, m \in Done' : k # m => came'[k] # came'[m]
    BY <2>3, NotifyAssumption DEF Numbered, TypeInv, TypeOK, Done
  <2>9. \A k, m \in accepted' : k < m => came'[k] < came'[m]
    <3> SUFFICES ASSUME NEW k \in accepted', NEW m \in accepted', k < m PROVE came'[k] < came'[m]
      OBVIOUS
    <3>1. k # n
      BY <2>1, <2>5 DEF Notices, TypeInv, TypeOK
    <3> QED
      BY <2>1, <2>3, <3>1 DEF Numbered
  <2> QED
    BY <2>4, <2>6, <2>7, <2>8, <2>9 DEF Numbered
<1>2. ASSUME NEW n \in Notices, Refused(n) PROVE Numbered'
  <2>1. Done' = Done /\ UNCHANGED <<came, accepted, spool>>
    BY <1>2 DEF Refused, Begins, Done, TypeInv, TypeOK
  <2>2. \A k, m \in Notices : push'[m] = "new" /\ m < k => push'[k] = "new"
    BY <1>2 DEF Numbered, TypeInv, TypeOK, Begins, Refused, Notices
  <2> QED
    BY <2>1, <2>2 DEF Numbered
<1>3. ASSUME NEW n \in Notices, Spool(n) PROVE Numbered'
  <2>1. push[n] # "done" /\ HandedOver(n) /\ accepted' = accepted /\ spool' \subseteq spool \cup {n}
    BY <1>3 DEF Spool
  <2>3. /\ Done' = Done \cup {n} /\ n \notin Done
        /\ Cardinality(Done') = Cardinality(Done) + 1 /\ Cardinality(Done) \in Nat
        /\ came'[n] = Cardinality(Done) + 1
        /\ \A m \in Done : came'[m] = came[m] /\ came[m] < came'[n]
    BY <2>1, HandedLast
  <2>4. accepted' \subseteq Done' /\ spool' \subseteq Done' \ accepted'
    BY <2>1, <2>3 DEF Numbered
  <2>6. \A k, m \in Notices : push'[m] = "new" /\ m < k => push'[k] = "new"
    BY <1>3, <2>1 DEF Numbered, TypeInv, TypeOK, HandedOver, Spool, Notices
  <2>7. \A m \in Done' : came'[m] <= Cardinality(Done)'
    BY <2>3 DEF Numbered, TypeInv, TypeOK, Done
  <2>8. \A k, m \in Done' : k # m => came'[k] # came'[m]
    BY <2>3, NotifyAssumption DEF Numbered, TypeInv, TypeOK, Done
  <2>9. \A k, m \in accepted' : k < m => came'[k] < came'[m]
    BY <2>1, <2>3 DEF Numbered
  <2> QED
    BY <2>4, <2>6, <2>7, <2>8, <2>9 DEF Numbered
<1>4. ASSUME UNCHANGED <<push, accepted, came>>, spool' \subseteq spool PROVE Numbered'
  BY <1>4 DEF Numbered, Done
<1>5. ASSUME NEW d \in Daemon, Ensure(d) \/ Work(d) \/ Beat(d) \/ Tick(d) \/ Stop(d) \/ Kill(d)
      PROVE  UNCHANGED <<push, accepted, came>> /\ spool' \subseteq spool
  BY <1>5 DEF Work, Answer, Ensure, Bind, ReadFile, UnlinkFile, TakeSpool, Loaded, Send,
              Delivered, Throttled, Dropped, Accept, Unreadable, Close, Persist, PersistFails, Beat, Tick, Stop, Kill,
              emitters, process
<1>6. CASE UNCHANGED vars
  BY <1>4, <1>6 DEF vars, emitters
<1> QED
  BY <1>1, <1>2, <1>3, <1>4, <1>5, <1>6 DEF Next

\* By the socket, or by the spool.
SameWay(m, n) == m \in accepted <=> n \in accepted
\* Where notices are kept, the stamps of those that came the same way tell who came first.
InOrder(S) == \A m, n \in S : SameWay(m, n) /\ came[m] < came[n] => stamp[m] < stamp[n]
\* Of two places, all in the one came before all in the other that came the same way.
Ahead(S, T) == \A m \in S, n \in T : SameWay(m, n) => came[m] < came[n]
\* What a daemon has read: its queue, and the notice it is sending.
Held(d) == {n \in Notices : n \in queue[d] \/ sending[d] = n}

Files == InOrder(file) /\ InOrder(spool) /\ Ahead(file, spool)

\* What a daemon has read came before what still waits in its backlog and in the spool,
\* what it has listed of the spool before what was spooled since, and the notice that is
\* being sent before its like in the queue.
Turns(d) ==
  /\ backlog[d] \subseteq accepted
  /\ listing[d] \subseteq spool /\ (pc[d] # "spooling" => listing[d] = {})
  /\ InOrder(Held(d))
  /\ Ahead(file \cup Held(d), spool \cup backlog[d])
  /\ Ahead(listing[d], spool \ listing[d])
  /\ pc[d] = "sending" =>
       \A m \in queue[d] : prio[m] = prio[sending[d]] /\ SameWay(m, sending[d])
                           => came[sending[d]] < came[m]

TurnInv == ~overlap => Files /\ \A d \in Daemon : Turns(d)

LEMMA TurnInit == Init => TurnInv
BY DEF Init, TurnInv, Files, Turns, InOrder, Ahead, Held, Notices, NoNotice

\* A daemon that does not live holds nothing.
LEMMA OffHoldsNothing ==
  ASSUME TypeInv, Places, NEW d \in Daemon, ~Alive(d)
  PROVE  queue[d] = {} /\ backlog[d] = {} /\ Held(d) = {} /\ sending[d] = NoNotice
BY DEF TypeInv, TypeOK, Places, Holds, Alive, Held, Notices, NoNotice

\* Notices anywhere were handed over.
LEMMA PlacedWereHanded ==
  ASSUME TypeInv, Places
  PROVE  /\ file \subseteq Done /\ spool \subseteq Done
         /\ \A d \in Daemon : Held(d) \subseteq Done /\ backlog[d] \subseteq Done
BY DEF TypeInv, TypeOK, Places, Settled, Nowhere, InDaemon, Held, Done

\* Of two notices that were handed over one came first, not both.
LEMMA OneCameFirst ==
  ASSUME TypeInv, Numbered, NEW m \in Done, NEW n \in Done, m # n
  PROVE  (came[m] < came[n] \/ came[n] < came[m]) /\ ~(came[m] < came[n] /\ came[n] < came[m])
<1>1. came[m] \in Int /\ came[n] \in Int /\ came[m] # came[n]
  BY DEF TypeInv, TypeOK, Numbered, Done
<1> QED
  BY <1>1

\* The notice that is stamped comes after those it is put among.
LEMMA StampedLast ==
  ASSUME stamp \in [Notices -> Nat], NEW n \in Notices, NEW S \in SUBSET Notices, StampIn(n, S)
  PROVE  /\ \A m \in Notices : m # n => stamp'[m] = stamp[m]
         /\ \A m \in S : stamp[m] < stamp'[n]
BY DEF StampIn

LEMMA TurnStep == TypeInv /\ PlaceInv /\ Numbered /\ TurnInv /\ [Next]_vars => TurnInv'
<1> SUFFICES ASSUME TypeInv, Places, Numbered, Files, \A d \in Daemon : Turns(d), [Next]_vars,
                    TypeInv', Places', Numbered', ~overlap'
             PROVE  Files' /\ \A e \in Daemon : Turns(e)'
  BY MarksStay, TypeStep, PlaceStep, NumberStep DEF PlaceInv, TurnInv
<1> USE DEF TypeInv, TypeOK, NoNotice, emitters, disk, process, fate, bounds
<1>1. ASSUME NEW n \in Notices, Connect(n) PROVE Files' /\ \A e \in Daemon : Turns(e)'
  <2>1. push[n] # "done" /\ HandedOver(n)
    BY <1>1 DEF Connect, Begins
  <2>2. n \notin Done /\ \A m \in Done : came'[m] = came[m] /\ came[m] < came'[n]
    BY <2>1, HandedLast
  <2>3. \A m, k \in Done : SameWay(m, k)' <=> SameWay(m, k)
    BY <1>1, <2>2 DEF Connect, SameWay
  <2>4. Files'
    BY <1>1, <2>2, <2>3, PlacedWereHanded DEF Files, InOrder, Ahead, Connect
  <2>5. ASSUME NEW e \in Daemon PROVE Turns(e)'
    <3>1. UNCHANGED <<file, spool, pc, queue, sending, listing, stamp, prio>> /\ Held(e)' = Held(e)
      BY <1>1 DEF Connect, Held
    <3>2. backlog'[e] \subseteq backlog[e] \cup {n} /\ accepted' = accepted \cup {n}
      BY <1>1 DEF Connect
    <3>3. Turns(e)
      OBVIOUS
    <3>4. InOrder(Held(e))'
      BY <2>2, <2>3, <3>1, <3>3, PlacedWereHanded DEF Turns, InOrder
    <3>5. Ahead(file \cup Held(e), spool \cup backlog[e])'
      BY <2>2, <2>3, <3>1, <3>2, <3>3, PlacedWereHanded DEF Turns, Ahead
    <3>6. Ahead(listing[e], spool \ listing[e])'
      BY <2>2, <2>3, <3>1, <3>3, PlacedWereHanded DEF Turns, Ahead
    <3>7. pc'[e] = "sending" => sending[e] \in Held(e) /\ queue[e] \subseteq Held(e)
      BY <3>1 DEF Held
    <3>8. pc'[e] = "sending" =>
            \A m \in queue'[e] : prio'[m] = prio'[sending'[e]] /\ SameWay(m, sending[e])'
                               => came'[sending'[e]] < came'[m]
      BY <2>2, <2>3, <3>1, <3>3, <3>7, PlacedWereHanded DEF Turns
    <3> QED
      BY <3>1, <3>2, <3>3, <3>4, <3>5, <3>6, <3>8 DEF Turns
  <2> QED
    BY <2>4, <2>5
<1>2. ASSUME NEW n \in Notices, Refused(n) PROVE Files' /\ \A e \in Daemon : Turns(e)'
  BY <1>2 DEF Refused, Files, Turns, InOrder, Ahead, Held, SameWay
<1>3. ASSUME NEW n \in Notices, Spool(n) PROVE Files' /\ \A e \in Daemon : Turns(e)'
  <2>1. push[n] # "done" /\ HandedOver(n)
    BY <1>3 DEF Spool
  <2>2. n \notin Done /\ \A m \in Done : came'[m] = came[m] /\ came[m] < came'[n]
    BY <2>1, HandedLast
  <2>3. UNCHANGED <<accepted, file, pc, backlog, listing, queue, sending, prio>>
    BY <1>3 DEF Spool
  <2>4. /\ \A m \in Done : stamp'[m] = stamp[m]
        /\ \A m \in spool : stamp[m] < stamp'[n]
    BY <1>3, <2>2, StampedLast DEF Spool, Done
  <2>5. /\ spool' \subseteq spool \cup {n}
        /\ \A e \in Daemon : listing[e] \subseteq spool'
    BY <1>3 DEF Spool, Turns
  <2>6. \A m, k \in Done : SameWay(m, k)' <=> SameWay(m, k)
    BY <2>3 DEF SameWay
  <2>7. Files'
    <3>1. file \subseteq Done /\ spool \subseteq Done
      BY PlacedWereHanded
    <3>2. InOrder(file)'
      BY <2>2, <2>3, <2>4, <2>6, <3>1 DEF Files, InOrder
    <3>3. InOrder(spool)'
      <4> SUFFICES ASSUME NEW k \in spool \cup {n}, NEW m \in spool \cup {n},
                          SameWay(k, m)', came'[k] < came'[m]
                   PROVE  stamp'[k] < stamp'[m]
        BY <2>5 DEF InOrder
      <4>1. CASE k \in spool /\ m \in spool
        BY <4>1, <2>2, <2>4, <2>6, <3>1 DEF Files, InOrder
      <4>2. CASE k \in spool /\ m = n
        BY <4>2, <2>4, <3>1
      <4>3. CASE k = n
        <5>1. came'[k] \in Int /\ came'[m] \in Int
          BY <3>1 DEF Done
        <5> QED
          BY <4>3, <5>1, <2>2, <3>1
      <4> QED
        BY <4>1, <4>2, <4>3
    <3>4. Ahead(file, spool)'
      BY <2>2, <2>3, <2>5, <2>6, <3>1 DEF Files, Ahead
    <3> QED
      BY <3>2, <3>3, <3>4 DEF Files
  <2>8. ASSUME NEW e \in Daemon PROVE Turns(e)'
    <3>1. Turns(e) /\ Held(e)' = Held(e) /\ backlog'[e] = backlog[e]
      BY <2>3 DEF Held
    <3>2. InOrder(Held(e))'
      <4>1. Held(e) \subseteq Done /\ InOrder(Held(e))
        BY <3>1, PlacedWereHanded DEF Turns
      <4>2. \A m \in Held(e) : came'[m] = came[m] /\ stamp'[m] = stamp[m]
        BY <4>1, <2>2, <2>4
      <4> QED
        BY <4>1, <4>2, <2>6, <3>1 DEF InOrder
    <3>3. Ahead(file \cup Held(e), spool \cup backlog[e])'
      BY <2>2, <2>3, <2>5, <2>6, <3>1, PlacedWereHanded DEF Turns, Ahead
    <3>4. Ahead(listing[e], spool \ listing[e])'
      BY <2>2, <2>3, <2>5, <2>6, <3>1, PlacedWereHanded DEF Turns, Ahead
    <3>5. pc'[e] = "sending" => sending[e] \in Held(e) /\ queue[e] \subseteq Held(e)
      BY <2>3 DEF Held
    <3>6. pc'[e] = "sending" =>
            \A m \in queue'[e] : prio'[m] = prio'[sending'[e]] /\ SameWay(m, sending[e])'
                               => came'[sending'[e]] < came'[m]
      BY <2>2, <2>3, <2>6, <3>1, <3>5, PlacedWereHanded DEF Turns
    <3> QED
      BY <2>3, <2>5, <3>1, <3>2, <3>3, <3>4, <3>6 DEF Turns
  <2> QED
    BY <2>7, <2>8
<1>4. ASSUME UNCHANGED <<came, accepted, prio, stamp, file, spool, backlog, queue, sending, listing>>,
             \A e \in Daemon : /\ pc'[e] = "sending" => pc[e] = "sending"
                               /\ listing[e] # {} => pc'[e] = pc[e]
      PROVE  Files' /\ \A e \in Daemon : Turns(e)'
  BY <1>4 DEF Files, Turns, InOrder, Ahead, Held, SameWay
<1>5. ASSUME NEW d \in Daemon, Ensure(d) \/ Bind(d) \/ Loaded(d) \/ Beat(d) \/ Tick(d) \/ Stop(d)
      PROVE  Files' /\ \A e \in Daemon : Turns(e)'
  <2>1. UNCHANGED <<came, accepted, prio, stamp, file, spool, backlog, queue, sending, listing>>
    BY <1>5 DEF Ensure, Bind, Loaded, Beat, Tick, Stop
  <2>2. \A e \in Daemon : pc'[e] = "sending" => pc[e] = "sending"
    BY <1>5 DEF Ensure, Bind, Loaded, Beat, Tick, Stop
  <2>3. \A e \in Daemon : listing[e] # {} => pc'[e] = pc[e]
    BY <1>5 DEF Turns, Ensure, Bind, Loaded, Beat, Tick, Stop, Alive
  <2> QED
    BY <2>1, <2>2, <2>3, <1>4
<1>6. ASSUME NEW d \in Daemon, ReadFile(d) PROVE Files' /\ \A e \in Daemon : Turns(e)'
  <2>1. UNCHANGED <<came, accepted, prio, stamp, file, spool, backlog, sending, listing>>
    BY <1>6 DEF ReadFile
  <2>2. Files'
    BY <2>1 DEF Files, InOrder, Ahead, SameWay
  <2>3. ASSUME NEW e \in Daemon, e # d PROVE Turns(e)'
    BY <1>6, <2>1, <2>3 DEF ReadFile, Turns, InOrder, Ahead, Held, SameWay
  <2>4. Turns(d)'
    <3>1. pc[d] = "bound" /\ pc'[d] = "read" /\ sending[d] = NoNotice /\ Held(d)' = file
      <4>1. pc[d] = "bound" /\ pc'[d] = "read" /\ sending[d] = NoNotice /\ sending' = sending /\ queue'[d] = file
        BY <1>6 DEF ReadFile
      <4> QED
        BY <4>1, NoticeIsSome DEF Held
    <3> QED
      BY <2>1, <3>1 DEF Turns, Files, InOrder, Ahead, SameWay
  <2> QED
    BY <2>2, <2>3, <2>4
<1>7. ASSUME NEW d \in Daemon, UnlinkFile(d) PROVE Files' /\ \A e \in Daemon : Turns(e)'
  <2>1. UNCHANGED <<came, accepted, prio, stamp, spool, backlog, queue, sending>> /\ file' = {}
    BY <1>7 DEF UnlinkFile
  <2>2. Files'
    BY <2>1 DEF Files, InOrder, Ahead, SameWay
  <2>3. ASSUME NEW e \in Daemon, e # d PROVE Turns(e)'
    BY <1>7, <2>1, <2>3 DEF UnlinkFile, Turns, InOrder, Ahead, Held, SameWay
  <2>4. Turns(d)'
    <3>1. pc'[d] = "spooling" /\ Held(d)' = Held(d) /\ listing'[d] = spool
      BY <1>7 DEF UnlinkFile, Held
    <3> QED
      BY <2>1, <3>1 DEF Turns, InOrder, Ahead, SameWay
  <2> QED
    BY <2>2, <2>3, <2>4
<1>8. ASSUME NEW d \in Daemon, TakeSpool(d) PROVE Files' /\ \A e \in Daemon : Turns(e)'
  <2>1. UNCHANGED <<came, accepted, prio, file, backlog, sending, pc>> /\ pc[d] = "spooling"
    BY <1>8 DEF TakeSpool
  <2>2. Turns(d) /\ file = {} /\ sending[d] = NoNotice
    BY <2>1 DEF Places, Holds
  <2>9. Held(d) = queue[d]
    BY <2>2, NoticeIsSome DEF Held
  <2>3. PICK n \in Earliest(listing[d], stamp) :
          /\ listing' = [listing EXCEPT ![d] = @ \ {n}] /\ spool' = spool \ {n}
          /\ n \in spool => queue' = [queue EXCEPT ![d] = @ \cup {n}] /\ StampIn(n, queue[d])
    BY <1>8 DEF TakeSpool
  <2>4. n \in listing[d] /\ n \in spool /\ n \in Done /\ n \notin accepted /\ n \notin queue[d]
    BY <2>2, <2>3 DEF Earliest, Turns, Numbered, Places, Apart, InDaemon
  <2>5. /\ \A m \in Notices : m # n => stamp'[m] = stamp[m]
        /\ \A m \in queue[d] : stamp[m] < stamp'[n]
    BY <2>3, <2>4, StampedLast
  <2>6. Files'
    BY <2>1, <2>2, <2>3, <2>5 DEF Files, InOrder, Ahead, SameWay
  <2>7. ASSUME NEW e \in Daemon, e # d PROVE Turns(e)'
    <3>1. ~Alive(e)
      BY <2>1, <2>7 DEF Places, Solo, Alive
    <3>2. /\ queue'[e] = {} /\ backlog'[e] = {} /\ sending'[e] = NoNotice /\ listing'[e] = {}
          /\ pc'[e] = "off"
      BY <2>1, <2>3, <2>4, <2>7, <3>1, OffHoldsNothing DEF Turns, Alive
    <3> QED
      BY <2>1, <2>2, <3>2, NoticeIsSome DEF Turns, InOrder, Ahead, Held
  <2>8. Turns(d)'
    <3>1. Held(d)' = queue[d] \cup {n} /\ listing'[d] = listing[d] \ {n}
      <4>1. queue'[d] = queue[d] \cup {n} /\ sending'[d] = NoNotice /\ n \in Notices /\ queue[d] \subseteq Notices
        BY <2>1, <2>2, <2>3, <2>4
      <4> QED
        BY <4>1, <2>3, NoticeIsSome DEF Held
    <3>2. InOrder(Held(d))'
      <4> SUFFICES ASSUME NEW k \in queue[d] \cup {n}, NEW m \in queue[d] \cup {n},
                          SameWay(k, m), came[k] < came[m]
                   PROVE  stamp'[k] < stamp'[m]
        BY <2>1, <3>1 DEF InOrder, SameWay
      <4>1. CASE k \in queue[d] /\ m \in queue[d]
        <5>1. InOrder(queue[d]) /\ k \in Notices /\ m \in Notices /\ k # n /\ m # n
          BY <4>1, <2>2, <2>4, <2>9 DEF Turns
        <5> QED
          BY <4>1, <5>1, <2>5 DEF InOrder
      <4>2. CASE k = n /\ m \in queue[d]
        <5>1. m \in Done /\ came[m] < came[k]
          BY <4>2, <2>2, <2>4, <2>9, PlacedWereHanded DEF Turns, Ahead, SameWay
        <5> QED
          BY <4>2, <5>1, <2>4, OneCameFirst
      <4>3. CASE k \in queue[d] /\ m = n
        BY <4>3, <2>4, <2>5 DEF Done
      <4>4. CASE k = n /\ m = n
        BY <4>4, <2>4 DEF Done
      <4> QED
        BY <4>1, <4>2, <4>3, <4>4
    <3>3. Ahead({n}, spool \ {n})
      <4> SUFFICES ASSUME NEW k \in spool, k # n PROVE came[n] < came[k]
        BY DEF Ahead
      <4>1. CASE k \in listing[d]
        <5>1. k \in Done /\ SameWay(k, n)
          BY <2>4 DEF Numbered, SameWay
        <5>2. stamp[n] <= stamp[k] /\ stamp[n] \in Int /\ stamp[k] \in Int
          BY <4>1, <2>3, <2>4, <5>1 DEF Earliest, Done
        <5>3. ~(came[k] < came[n])
          BY <2>4, <5>1, <5>2 DEF Files, InOrder
        <5> QED
          BY <5>1, <5>3, <2>4, OneCameFirst
      <4>2. CASE k \notin listing[d]
        BY <4>2, <2>2, <2>4 DEF Turns, Ahead, Numbered, SameWay
      <4> QED
        BY <4>1, <4>2
    <3>4. Ahead(file \cup Held(d), spool \cup backlog[d])'
      <4> SUFFICES ASSUME NEW k \in queue[d] \cup {n}, NEW m \in (spool \ {n}) \cup backlog[d], SameWay(k, m)
                   PROVE  came[k] < came[m]
        BY <2>1, <2>2, <2>3, <3>1 DEF Ahead, SameWay
      <4>1. CASE k \in queue[d]
        BY <4>1, <2>2, <2>9 DEF Turns, Ahead
      <4>2. CASE k = n
        <5>1. m \notin accepted
          BY <4>2, <2>4 DEF SameWay
        <5>2. m \in spool \ {n}
          BY <5>1, <2>2 DEF Turns
        <5> QED
          BY <4>2, <5>2, <3>3 DEF Ahead
      <4> QED
        BY <4>1, <4>2
    <3>5. Ahead(listing[d], spool \ listing[d])' /\ listing'[d] \subseteq spool'
      BY <2>1, <2>2, <2>3, <3>1 DEF Turns, Ahead, SameWay
    <3> QED
      BY <2>1, <2>2, <3>2, <3>4, <3>5 DEF Turns
  <2> QED
    BY <2>6, <2>7, <2>8
<1>9. ASSUME NEW d \in Daemon, Send(d) PROVE Files' /\ \A e \in Daemon : Turns(e)'
  <2>1. UNCHANGED <<came, accepted, prio, stamp, file, spool, backlog, listing>>
    BY <1>9 DEF Send
  <2>2. PICK n \in Earliest(Earliest(queue[d], prio), stamp) :
          queue' = [queue EXCEPT ![d] = @ \ {n}] /\ sending' = [sending EXCEPT ![d] = n]
    BY <1>9 DEF Send
  <2>3. n \in queue[d] /\ n \in Notices /\ pc[d] = "serving" /\ pc' = [pc EXCEPT ![d] = "sending"]
    BY <1>9, <2>2 DEF Send, Earliest, Running
  <2>4. Files'
    BY <2>1 DEF Files, InOrder, Ahead, SameWay
  <2>5. ASSUME NEW e \in Daemon, e # d PROVE Turns(e)'
    BY <2>1, <2>2, <2>3, <2>5 DEF Turns, InOrder, Ahead, Held, SameWay
  <2>6. Turns(d)'
    <3>1. Held(d) = queue[d] /\ Held(d)' = queue[d]
      <4>1. sending[d] = NoNotice /\ queue'[d] = queue[d] \ {n} /\ sending'[d] = n
        BY <2>2, <2>3
      <4> QED
        BY <4>1, <2>3, NoticeIsSome DEF Held
    <3>2. ASSUME NEW m \in queue'[d], prio[m] = prio[n], SameWay(m, n) PROVE came[n] < came[m]
      <4>1. m \in queue[d] /\ m # n /\ stamp[n] <= stamp[m]
        BY <2>2, <3>2 DEF Earliest
      <4>2. m \in Done /\ n \in Done /\ stamp[m] \in Int /\ stamp[n] \in Int
        BY <2>3, <3>1, <4>1, PlacedWereHanded
      <4>3. ~(stamp[m] < stamp[n])
        BY <4>1, <4>2
      <4>4. ~(came[m] < came[n])
        <5>1. InOrder(queue[d])
          BY <3>1 DEF Turns
        <5> QED
          BY <2>3, <3>2, <4>1, <4>3, <5>1 DEF InOrder
      <4> QED
        BY <4>1, <4>2, <4>4, OneCameFirst
    <3>3. sending'[d] = n
      BY <2>2
    <3>4. pc'[d] = "sending" /\ listing[d] = {}
      BY <2>3 DEF Turns
    <3>5. InOrder(Held(d))' /\ Ahead(file \cup Held(d), spool \cup backlog[d])'
      BY <2>1, <3>1 DEF Turns, InOrder, Ahead, SameWay
    <3> QED
      BY <2>1, <3>2, <3>3, <3>4, <3>5 DEF Turns, Ahead, SameWay
  <2> QED
    BY <2>4, <2>5, <2>6
<1>10. ASSUME NEW d \in Daemon, Answer(d) PROVE Files' /\ \A e \in Daemon : Turns(e)'
  <2>1. UNCHANGED <<came, accepted, prio, stamp, file, spool, backlog, listing>>
    BY <1>10 DEF Answer, Delivered, Throttled, Dropped
  <2>2. /\ pc[d] = "sending" /\ pc' = [pc EXCEPT ![d] = "serving"]
        /\ sending' = [sending EXCEPT ![d] = NoNotice] /\ sending[d] \in Notices
        /\ queue' \in {queue, [queue EXCEPT ![d] = @ \cup {sending[d]}]}
    BY <1>10 DEF Answer, Delivered, Throttled, Dropped, Answered
  <2>3. Files'
    BY <2>1 DEF Files, InOrder, Ahead, SameWay
  <2>4. ASSUME NEW e \in Daemon, e # d PROVE Turns(e)'
    BY <2>1, <2>2, <2>4 DEF Turns, InOrder, Ahead, Held, SameWay
  <2>5. Held(d)' \subseteq Held(d)
    <3>1. sending'[d] = NoNotice /\ queue'[d] \subseteq queue[d] \cup {sending[d]}
      BY <2>2
    <3> QED
      BY <3>1, NoticeIsSome DEF Held
  <2>6. Turns(d)'
    BY <2>1, <2>2, <2>5 DEF Turns, InOrder, Ahead, SameWay
  <2> QED
    BY <2>3, <2>4, <2>6
<1>11. ASSUME NEW d \in Daemon, Accept(d) PROVE Files' /\ \A e \in Daemon : Turns(e)'
  <2>1. UNCHANGED <<came, accepted, prio, file, spool, listing, sending, pc>> /\ pc[d] = "serving" /\ queue[d] = {}
    BY <1>11 DEF Accept, Running
  <2>2. Turns(d) /\ file = {} /\ sending[d] = NoNotice /\ listing[d] = {}
    BY <2>1 DEF Places, Holds, Turns
  <2>3. PICK n \in backlog[d] :
          /\ \A m \in backlog[d] : n <= m
          /\ backlog' = [backlog EXCEPT ![d] = @ \ {n}]
          /\ queue' = [queue EXCEPT ![d] = {n}]
          /\ StampIn(n, queue[d])
    BY <1>11 DEF Accept
  <2>4. n \in accepted /\ n \notin spool
    BY <2>2 DEF Turns, Numbered
  <2>5. \A m \in Notices : m # n => stamp'[m] = stamp[m]
    BY <2>3, StampedLast
  <2>6. Files'
    BY <2>1, <2>2, <2>4, <2>5 DEF Files, InOrder, Ahead, SameWay
  <2>7. ASSUME NEW e \in Daemon, e # d PROVE Turns(e)'
    <3>1. ~Alive(e)
      BY <2>1, <2>7 DEF Places, Solo, Alive
    <3>2. /\ queue'[e] = {} /\ backlog'[e] = {} /\ sending'[e] = NoNotice /\ listing'[e] = {}
          /\ pc'[e] = "off"
      BY <2>1, <2>3, <2>7, <3>1, OffHoldsNothing DEF Turns, Alive
    <3> QED
      BY <2>1, <2>2, <3>2, NoticeIsSome DEF Turns, InOrder, Ahead, Held
  <2>8. Turns(d)'
    <3>1. Held(d)' = {n} /\ backlog'[d] = backlog[d] \ {n}
      BY <2>1, <2>2, <2>3 DEF Held, Notices
    <3>2. \A m \in backlog[d] \ {n} : came[n] < came[m]
      BY <2>2, <2>3, <2>4 DEF Turns, Numbered, Notices
    <3>3. Ahead(file \cup Held(d), spool \cup backlog[d])'
      BY <2>1, <2>2, <2>4, <3>1, <3>2 DEF Ahead, Numbered, SameWay
    <3>4. InOrder(Held(d))'
      BY <2>1, <3>1 DEF InOrder
    <3> QED
      BY <2>1, <2>2, <3>1, <3>3, <3>4 DEF Turns, Ahead
  <2> QED
    BY <2>6, <2>7, <2>8
<1>16. ASSUME NEW d \in Daemon, Unreadable(d) PROVE Files' /\ \A e \in Daemon : Turns(e)'
  <2>1. /\ UNCHANGED <<came, accepted, prio, stamp, file, spool, listing, queue, sending, pc>>
        /\ \E n \in backlog[d] : backlog' = [backlog EXCEPT ![d] = @ \ {n}]
    BY <1>16 DEF Unreadable
  <2>2. Files' /\ \A e \in Daemon : backlog'[e] \subseteq backlog[e] /\ Held(e)' = Held(e)
    BY <2>1 DEF Files, InOrder, Ahead, Held, SameWay
  <2> QED
    BY <2>1, <2>2 DEF Turns, InOrder, Ahead, SameWay
<1>12. ASSUME NEW d \in Daemon, Close(d) PROVE Files' /\ \A e \in Daemon : Turns(e)'
  <2>1. /\ UNCHANGED <<came, accepted, prio, stamp, file, spool, listing, queue, sending>>
        /\ pc[d] = "serving" /\ pc' = [pc EXCEPT ![d] = "closed"]
        /\ backlog' = [backlog EXCEPT ![d] = {}]
    BY <1>12 DEF Close
  <2> QED
    BY <2>1 DEF Files, Turns, InOrder, Ahead, Held, SameWay
<1>13. ASSUME NEW d \in Daemon, Alive(d), Gone(d),
              UNCHANGED <<came, accepted, prio, stamp, spool>>, file' = file \/ file' = queue[d]
       PROVE  Files' /\ \A e \in Daemon : Turns(e)'
  <2>1. Files'
    BY <1>13 DEF Files, Turns, InOrder, Ahead, Held, SameWay
  <2>2. ASSUME NEW e \in Daemon PROVE Turns(e)'
    <3>1. CASE e = d
      BY <1>13, <2>1, <3>1 DEF Gone, Files, Turns, InOrder, Ahead, Held, SameWay, Notices
    <3>2. CASE e # d
      <4>1. ~Alive(e)
        BY <1>13, <3>2 DEF Places, Solo, Alive
      <4>2. /\ queue'[e] = {} /\ backlog'[e] = {} /\ sending'[e] = NoNotice /\ listing'[e] = {}
            /\ pc'[e] = "off"
        BY <1>13, <3>2, <4>1, OffHoldsNothing DEF Gone, Turns, Alive
      <4> QED
        BY <2>1, <4>2, NoticeIsSome DEF Files, Turns, InOrder, Ahead, Held
    <3> QED
      BY <3>1, <3>2
  <2> QED
    BY <2>1, <2>2
<1>14. ASSUME NEW d \in Daemon, Kill(d) \/ Persist(d) \/ PersistFails(d)
       PROVE  Files' /\ \A e \in Daemon : Turns(e)'
  <2>1. /\ Alive(d) /\ Gone(d) /\ UNCHANGED <<came, accepted, prio, stamp, spool>>
        /\ file' = file \/ file' = queue[d]
    BY <1>14 DEF Kill, Persist, PersistFails, Alive
  <2> QED
    BY <2>1, <1>13
<1>15. CASE UNCHANGED vars
  BY <1>15, <1>4 DEF vars
<1> QED
  BY <1>1, <1>2, <1>3, <1>5, <1>6, <1>7, <1>8, <1>9, <1>10, <1>11, <1>12, <1>14, <1>15, <1>16 DEF Next, Work

\* With one daemon at a time, of two notices of a priority that came the same way the
\* earlier is sent first, also when it was told to wait and when daemons were stopped or
\* killed between them.
THEOREM TurnsKept == Spec => []InTurn
<1>1. TypeInv /\ PlaceInv /\ Numbered /\ TurnInv => InTurn
  <2> SUFFICES ASSUME TypeInv, Places, Numbered, \A d \in Daemon : Turns(d),
                      NEW d \in Daemon, NEW m \in Notices, NEW n \in Notices,
                      sending[d] = n, Waiting(m), m # n, prio[m] = prio[n], SameWay(m, n)
               PROVE  came[n] < came[m]
    BY DEF InTurn, PlaceInv, TurnInv, SameWay
  <2>1. pc[d] = "sending" /\ file = {} /\ n \in Held(d)
    BY NoticeIsSome DEF TypeInv, TypeOK, Places, Holds, Held
  <2>2. \A e \in Daemon : e # d => queue[e] = {} /\ backlog[e] = {}
    BY <2>1, OffHoldsNothing DEF Places, Solo, Alive
  <2>3. CASE m \in spool \cup backlog[d]
    BY <2>1, <2>3 DEF Turns, Ahead, SameWay
  <2>4. CASE m \in queue[d]
    BY <2>1, <2>4 DEF Turns, SameWay
  <2> QED
    BY <2>1, <2>2, <2>3, <2>4 DEF Waiting
<1> QED
  BY TypeInit, TypeStep, PlaceInit, PlaceStep, NumberInit, NumberStep, TurnInit, TurnStep, <1>1, PTL DEF Spec

=============================================================================
