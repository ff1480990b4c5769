\* A daemon and daemon --once, started again and again, also at the same time;
\* crashes, signals, pauses, an outage of the bank.
SPECIFICATION FairSpec
CONSTANTS
  Process = {daemon, once}
  Continuous = {daemon}
  Once = {once}
  Pid = {i1, i2}
  Strangers = {i1}
  MaxCrashes = 1
  MaxChanges = 1
  MaxSignals = 1
  None = None
INVARIANTS
  TypeOK
  ExclusiveUnlessRaced
  RunningIsShown
  PauseHolds
PROPERTIES
  HoldersFileStays
  ErrorClears
  ScanIsRepeated
  StaleLockGoes
CONSTRAINT
  UntilRaced
