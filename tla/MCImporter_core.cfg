\* One session with two contents: edits, faults, crashes, replays, operator
\* commands; every session is primary and was never imported before; the bank
\* forgets finished operations.
SPECIFICATION Spec
CONSTANTS
  Hash = {h1, h2}
  None = None
  Empty = Empty
  MaxReplay = 3
  MaxAttempts = 2
  MaxInflight = 2
  MaxFaults = 2
  RejectAfterLoss = FALSE
  Origins = {"file"}
  WorkBatchSize = 2
  MaxEdits = 2
  Contents <- RetainableContents
  Kinds = {"primary"}
  Reverting = {}
  Forgets = TRUE
  Upgraded = FALSE
SYMMETRY Symmetry
INVARIANTS
  TypeOK
  OneRemoteWriter
  ImmutablePayload
  Recoverable
  AcknowledgedIsRemote
  TaskOwnsGeneration
PROPERTIES
  FailedIsFinal
  AcknowledgedOnCompletion
  OneWriterRegister
