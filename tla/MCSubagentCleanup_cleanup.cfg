\* A session that is renamed, becomes ambiguous, is deleted and restored while cleanup
\* commands run, stop and run again, and its operations are still in flight.
SPECIFICATION CleanupSpec
CONSTANTS
  Hash = {h1, h2}
  None = None
  Empty = Empty
  MaxReplay = 3
  MaxAttempts = 1
  MaxInflight = 1
  MaxFaults = 2
  RejectAfterLoss = FALSE
  Origins = {"file"}
  WorkBatchSize = 1
  MaxEdits = 2
  Contents <- LostAndFound
  Kinds = {"primary", "ambiguous", "configured"}
  Reverting = {"configured"}
  Forgets = FALSE
  Upgraded = FALSE
SYMMETRY Symmetry
INVARIANTS
  CleanupTypeOK
  SettledBeforeExcluded
  FinalizedIsExcluded
PROPERTIES
  DeletionIsReviewed
  DeletedIsExcluded
CHECK_DEADLOCK FALSE
