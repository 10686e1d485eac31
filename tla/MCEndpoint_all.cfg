SPECIFICATION Spec
CONSTANTS
  a = a
  b = b
  ka = ka
  kb = kb
  Clients = {a, b}
  SuppliedKey <- MCSuppliedKey
  GeneratedKeys = {g1, g2}
  Nil = Nil
  Kinds <- AllKinds
  MaxRequests = 3
  IsService = TRUE
  NoClient = NoClient
  NoRequest = NoRequest
SYMMETRY Symmetric
CHECK_DEADLOCK FALSE
INVARIANTS
  TypeOK
  Accounted
  MutualExclusion
PROPERTIES
  OnlyHolderChanges
  StopCause
