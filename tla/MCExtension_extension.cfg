\* Two requesters and successive searches while the session is sent, excluded and
\* cleaned up, over three sessions of Pi.
SPECIFICATION FairSpec
CONSTANTS
  Requester = {r1, r2}
  MaxSessions = 3
  MaxRequests = 3
  MaxSearches = 2
  None = None
INVARIANTS
  TypeOK
  ExcludedIsNotFound
  SessionIsServed
PROPERTIES
  NothingIsCached
  EveryoneIsAnswered
CHECK_DEADLOCK FALSE
