\* Two rounds of interview, one counted re-intake, two gaps, two answers.
CONSTANTS
  MaxRounds = 2
  MaxReintakes = 1
  MaxGaps = 2
  MaxAnswers = 2
  Typos = TRUE
SPECIFICATION Spec
INVARIANTS
  WaivedIsOnRecord
  ReopenedOnTheGaps
  DebatedOnABrief
PROPERTIES
  GapsAnsweredInThisInterview
