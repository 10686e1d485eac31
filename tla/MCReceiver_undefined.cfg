SPECIFICATION Spec
CONSTANTS
  two = two
  one = one
  bad = bad
  MsgIds = {one, two}
  Total <- MCTotal
  Content <- MCContent
  Packs = {p1, p2, p3}
  MaxCopies = 2
  Undefined = {"dangling_id", "map_race"}
  NoPack = NoPack
  NoMsg = NoMsg
CHECK_DEADLOCK FALSE
INVARIANTS
  SingleChunkOnce
  InvalidOnlyAfterTimeout
  ValidUsesDeliveries
  NoLostWakeup
  Coherent
PROPERTIES
  ImplementsReassembly
  
  
