\* A session is ambiguous for a while and primary again.
SPECIFICATION Spec
CONSTANTS
  Hash = {h1, h2}
  None = None
  Empty = Empty
  MaxReplay = 3
  MaxAttempts = 2
  MaxInflight = 2
  MaxFaults = 1
  RejectAfterLoss = FALSE
  Origins = {"file"}
  WorkBatchSize = 2
  MaxEdits = 3
  Contents <- RetainableContents
  Kinds = {"primary", "ambiguous"}
  Reverting = {"ambiguous"}
  Forgets = FALSE
  Upgraded = FALSE
SYMMETRY Symmetry
INVARIANTS
  UncertainBlocksNewer
CHECK_DEADLOCK FALSE
