\* The visual gate and the final gate with the default budgets, a human who mistypes,
\* one redo.
CONSTANTS
  Eyes = TRUE
  Perf = FALSE
  GatesOn = TRUE
  MaxUxCycles = 3
  MaxPerfCycles = 1
  Plateau = 2
  MaxBlockers = 2
  Typos = TRUE
  Redos = 1
SPECIFICATION Spec
INVARIANTS
  UnattendedShipsClean
  ShipsOnRecord
