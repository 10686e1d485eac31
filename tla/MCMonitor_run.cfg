SPECIFICATION FairSpec
CONSTANTS
  Mon = mon
  k1 = k1
  k2 = k2
  Owners = {mon}
  Keys = {k1, k2}
  RequestKeys = {k1, k2}
  AlertKeys = {k2}
  MaxFaults = 3
  MaxCalls = 6
  MaxMessages = 2
CHECK_DEADLOCK FALSE
INVARIANTS
  StatusIsTrue
  AbortCause
PROPERTIES
  CancelReturns
