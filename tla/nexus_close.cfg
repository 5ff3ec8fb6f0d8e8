CONSTANTS
  a = a
  b = b
  Side = {a, b}
  Id = {1, 2}
  OriginOf <- SameOrigin
  Refusers = {a, b}
  Env = {"close", "send"}
  MaxPid = 3
  MaxFrames = 2
  MaxSends = 1
SPECIFICATION NetSpec
CHECK_DEADLOCK FALSE
INVARIANT Agreement
PROPERTIES CloseCompletes Delivered
