SPECIFICATION Spec
CONSTANTS
  two = two
  one = one
  bad = bad
  MsgIds = {two, bad}
  Total <- MCTotal
  Content <- MCContent
  Packs = {p1, p2, p3}
  MaxCopies = 1
  Undefined = {"dangling_id"}
  NoPack = NoPack
  NoMsg = NoMsg
CHECK_DEADLOCK FALSE
PROPERTIES
  UnlockedWhenErased
