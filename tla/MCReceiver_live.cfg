SPECIFICATION FairSpec
CONSTANTS
  two = two
  one = one
  bad = bad
  MsgIds = {bad, two}
  Total <- MCTotal
  Content <- MCContent
  Packs = {p1, p2, p3}
  MaxCopies = 1
  Undefined = {}
  NoPack = NoPack
  NoMsg = NoMsg
CHECK_DEADLOCK FALSE
INVARIANTS
  ListenerStuckCause
PROPERTIES
  PackIsQueued
  QueueDrains
  ListenerReturns
