\* Both gates, one fix cycle each, a human who mistypes.
CONSTANTS
  Eyes = TRUE
  Perf = TRUE
  GatesOn = TRUE
  MaxUxCycles = 1
  MaxPerfCycles = 1
  Plateau = 2
  MaxBlockers = 1
  Typos = TRUE
  Redos = 0
SPECIFICATION Spec
INVARIANTS
  GatesNotSkipped
PROPERTY
  GatesAskOrEnd
