\* The bot dies with a pause left to it, and the next resume restarts it.
CONSTANTS
  MaxPauses = 1
  MaxCrashes = 1
  MaxErrors = 0
  AutoStart = TRUE
SPECIFICATION NoticeSpec
INVARIANT
  CatchUpPosts
