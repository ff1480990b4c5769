\* Liveness: fewer faults than attempts, no symmetry.  The session may be renamed,
\* and its header completed.
SPECIFICATION FairSpec
CONSTANTS
  Hash = {h1, h2}
  None = None
  Empty = Empty
  MaxReplay = 3
  MaxAttempts = 2
  MaxInflight = 1
  MaxFaults = 1
  RejectAfterLoss = FALSE
  Origins = {"file", "aliased"}
  WorkBatchSize = 1
  MaxEdits = 2
  Contents <- RetainableContents
  Kinds = {"primary", "configured"}
  Reverting = {"configured"}
  Forgets = FALSE
  Upgraded = FALSE
PROPERTIES
  EventuallyRetained
  TombstoneStopsRetain
