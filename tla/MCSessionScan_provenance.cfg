\* Transcripts of Claude with branches.
SPECIFICATION Spec
CONSTANTS
  MaxRecords = 3
  Agents = {"claude"}
  Shapes = {"tree"}
  Resting = 3
  Growing = {}
  MaxChanges = 0
  MaxFaults = 0
  MaxTurns = 9
  None = None
INVARIANTS
  EveryBranchIsMarked
