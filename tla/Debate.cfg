\* Two rounds, a designer, one `continue`, one blocker, a human who mistypes and
\* may redo the run.
CONSTANTS
  Rounds = 2
  Eyes = TRUE
  AutoMode = FALSE
  MaxReintakes = 1
  StuckRounds = 2
  MaxBlockers = 1
  MaxBonus = 2
  Typos = TRUE
  Redo = TRUE
SPECIFICATION Spec
INVARIANTS
  UnattendedPlanConverged
  NoReplyAfterVerification
  JudgeAfterDebate
PROPERTY
  DebateDecides
