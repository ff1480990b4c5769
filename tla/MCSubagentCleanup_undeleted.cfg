\* A cleanup settles an operation that is being carried out.
SPECIFICATION CleanupSpec
CONSTANTS
  Hash = {h1, h2}
  None = None
  Empty = Empty
  MaxReplay = 3
  MaxAttempts = 1
  MaxInflight = 1
  MaxFaults = 1
  RejectAfterLoss = FALSE
  Origins = {"file"}
  WorkBatchSize = 1
  MaxEdits = 2
  Contents <- RetainableContents
  Kinds = {"primary", "subagent"}
  Reverting = {}
  Forgets = FALSE
  Upgraded = FALSE
SYMMETRY Symmetry
INVARIANTS
  CleanedIsGone
CHECK_DEADLOCK FALSE
