\* Two batches, one retry, one fix cycle, one test, a flaky database, a human who
\* mistypes, one crash.
CONSTANTS
  NBatches = 2
  MaxTestFixes = 1
  FixCycles = 1
  Tests = {t1}
  DbFlaky = TRUE
  AgentCommits = TRUE
  Typos = TRUE
  Crashes = 1
SPECIFICATION Spec
INVARIANTS
  OpenBlockersBlockClose
  ClosedIsCommitted
  UnattendedCloseIsReviewed
  UnattendedDiffIsWhole
  UnattendedCommitIsOwn
