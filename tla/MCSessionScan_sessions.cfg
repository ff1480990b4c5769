\* Transcripts that rest, of every agent and shape, and one that is written
\* while it is scanned, renamed, and the importer crashes.
SPECIFICATION FairSpec
CONSTANTS
  MaxRecords = 3
  Agents = {"pi", "codex", "claude", "opencode"}
  Shapes = {"linear", "tree"}
  Resting = 3
  Growing = {"search", "broken"}
  MaxChanges = 4
  MaxFaults = 1
  MaxTurns = 5
  None = None
INVARIANTS
  TypeOK
  StoredIsWhole
  BranchIsMarked
  OneIdentity
  SpoolsAreRemoved
  EvidenceFollows
PROPERTIES
  QuietIsStored
