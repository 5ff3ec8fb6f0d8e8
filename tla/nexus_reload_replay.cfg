CONSTANTS
  a = a
  b = b
  Side = {a, b}
  Id = {1, 2, 3}
  OriginOf <- SameOrigin
  Refusers = {}
  Env = {"close", "reload"}
  MaxPid = 3
  MaxFrames = 2
  MaxSends = 0
SPECIFICATION Spec
CHECK_DEADLOCK FALSE
INVARIANT Agreement
