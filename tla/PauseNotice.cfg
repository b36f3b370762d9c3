\* Three pauses, two deaths of the bot, one refused card or greeting.
CONSTANTS
  MaxPauses = 3
  MaxCrashes = 2
  MaxErrors = 1
  AutoStart = TRUE
SPECIFICATION NoticeSpec
INVARIANTS
  HeldIsPosted
  CardsPosted
PROPERTY
  HeldIsAnnounced
