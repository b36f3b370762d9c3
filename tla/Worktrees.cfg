\* Two tasks, three commits.
CONSTANTS
  Task = {t1, t2}
  MaxPatches = 3
SYMMETRY TaskSymmetry
SPECIFICATION Spec
INVARIANTS
  NothingLost
PROPERTIES
  MainOnlyGrows
  RemovalIsWhole
CHECK_DEADLOCK FALSE
