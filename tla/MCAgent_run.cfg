SPECIFICATION FairSpec
CONSTANTS
  Services = {s1, s2}
  Jobs <- MCJobs
  ReplyChunks = 2
  ListenTimeout = 1
  Modulus = 8
  MaxFaults = 1
  MaxCopies = 1
CHECK_DEADLOCK FALSE
INVARIANTS
  ReplyIsWhole
  SuccessCause
  FailureCause
  EscapeCause
PROPERTIES
  WaitEnds
