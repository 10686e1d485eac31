SPECIFICATION FairSpec
CONSTANTS
  a = a
  Svc = svc
  Broadcast = broadcast
  Owners = {svc, a}
  Keys <- MCKeys
  Rank <- MCRank
  Configs <- MCConfigs
  MaxFaults = 2
  MaxMessages = 1
  MaxThreadFaults = 1
CHECK_DEADLOCK FALSE
INVARIANTS
  ListeningIsSetUp
  DeafChildCause
  ThreadsAreJoined
  QueueLeftCause
PROPERTIES
  CancelEnds
