\* Two daemons at once or one restart, two notices of two priorities, and two of: a stop,
\* a kill, an answer 429, a failed request, an unreadable payload, a queue file that
\* cannot be written.
CONSTANTS
  Daemon = {d1, d2}
  NoDaemon = NoDaemon
  MaxNotices = 2
  Ranks = {0, 1}
  Rate = 1
  Backlog = 2
  MaxStarts = 2
  MaxFaults = 2
SPECIFICATION Spec
INVARIANTS
  Kept
  SentOnce
  InTurn
PROPERTIES
  HandedIsSettled
  StopEnds
CHECK_DEADLOCK FALSE
