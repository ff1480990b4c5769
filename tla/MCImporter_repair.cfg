\* A session imported under an older policy that is renamed, reclassified,
\* emptied, deleted and restored while the importer and the repair command
\* run; the bank forgets finished operations.
SPECIFICATION Spec
CONSTANTS
  Hash = {h1, h2}
  None = None
  Empty = Empty
  MaxReplay = 4
  MaxAttempts = 2
  MaxInflight = 2
  MaxFaults = 1
  RejectAfterLoss = FALSE
  Origins = {"file", "database"}
  WorkBatchSize = 2
  MaxEdits = 2
  Contents <- AllContents
  Kinds = {"primary", "configured", "subagent", "ambiguous"}
  Reverting = {"configured"}
  Forgets = TRUE
  Upgraded = TRUE
SYMMETRY Symmetry
INVARIANTS
  ErasedIsOnDisk
  NoWorkIsVerified
PROPERTIES
  OneWriterRegister
  FrozenStaysFrozen
CHECK_DEADLOCK FALSE
