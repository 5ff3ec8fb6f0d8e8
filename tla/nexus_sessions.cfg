CONSTANTS
  a = a
  b = b
  Side = {a, b}
  Id = {1, 2, 3}
  OriginOf <- SameOrigin
  Refusers = {}
  Env = {"close", "silent", "expire", "reload", "reconnect", "send"}
  MaxPid = 3
  MaxFrames = 1
  MaxSends = 2
SPECIFICATION Spec
CHECK_DEADLOCK FALSE
SYMMETRY Sides
PROPERTY ImplementsSession
INVARIANTS
  TypeOK
  RolesExclusive
  OneCloseEach
  InOrderOnce
