\* Up to three rounds of both critics and four sections, the last two rounds kept, and a crash.
CONSTANTS
  Critic = {"Reviewer", "UX"}
  Claim = {b1}
  Concern = {1}
  KeepRecent = 2
  StuckRounds = 3
  ThrashRounds = 3
  MaxRounds = 3
  MaxSections = 4
  MaxCrashes = 1
SPECIFICATION Spec
INVARIANTS
  NothingSaidIsLost
  RecentVerbatim
  StuckIsStuck
  TrendIsSeen
  LedgerAgrees
CHECK_DEADLOCK FALSE
