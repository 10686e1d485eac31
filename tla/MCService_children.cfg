SPECIFICATION Spec
CONSTANTS
  a = a
  Svc = svc
  Broadcast = broadcast
  Owners = {svc, a}
  Keys <- MCKeys
  Rank <- MCRank
  Configs <- StandardOnly
  MaxFaults = 2
  MaxMessages = 1
  MaxThreadFaults = 0
CHECK_DEADLOCK FALSE
INVARIANTS
  ChildrenAreServed
