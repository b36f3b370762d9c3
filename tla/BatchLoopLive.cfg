\* Liveness, progress and refinement on a smaller instance: two batches, one fix cycle.
CONSTANTS
  NBatches = 2
  MaxTestFixes = 1
  FixCycles = 1
  Tests = {t1}
  DbFlaky = FALSE
  AgentCommits = FALSE
  Typos = FALSE
  Crashes = 1
SPECIFICATION Spec
PROPERTIES
  AsksOrLeaves
  WorkShrinks
  ImplementsLedger
