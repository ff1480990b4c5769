\* A cleanup of a session that was never sent stops and is run again.
SPECIFICATION CleanupSpec
CONSTANTS
  Hash = {h1, h2}
  None = None
  Empty = Empty
  MaxReplay = 3
  MaxAttempts = 1
  MaxInflight = 1
  MaxFaults = 2
  RejectAfterLoss = FALSE
  Origins = {"file"}
  WorkBatchSize = 1
  MaxEdits = 1
  Contents <- RetainableContents
  Kinds = {"primary", "subagent"}
  Reverting = {}
  Forgets = FALSE
  Upgraded = FALSE
SYMMETRY Symmetry
INVARIANTS
  LocalIsNotAsked
CHECK_DEADLOCK FALSE
