SPECIFICATION FairSpec
CONSTANTS
  ExeBuffer = 1
  CycleTime = 2
  Times = {1, 3}
  Intervals = {0, 2}
  MaxTime = 3
  MaxBooked = 2
  MaxCancels = 1
  OtherIds = {0}
CHECK_DEADLOCK FALSE
INVARIANTS
  TypeOK
  NoOversleep
  Agreement
PROPERTIES
  DueIsRun
  CancelStops
