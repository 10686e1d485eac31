SPECIFICATION Spec
CONSTANTS
  p1 = p1
  p2 = p2
  p3 = p3
  Payloads = {p1, p2, p3}
  BodyLength <- MCBodyLength
  Names <- MCNames
  Broadcast = "all"
  Children <- MCChildren
  MaxSize = 2
  Requests <- MCRequests
  Tokens = {"x"}
  Handlers = {"h1"}
  MaxSends = 2
  MaxChanges = 2
  MaxCopies = 1
  MaxFaults = 1
CHECK_DEADLOCK FALSE
INVARIANTS
  ReceivedAsSent
  ReplyFindsClient
PROPERTIES
  InvalidIsGivenUp
  HandlerIsRegistered
  DispatchStopCause
