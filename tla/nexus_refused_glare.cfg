CONSTANTS
  a = a
  b = b
  Side = {a, b}
  Id = {1, 2}
  OriginOf <- SameOrigin
  Refusers = {a}
  Env = {"none"}
  MaxPid = 3
  MaxFrames = 2
  MaxSends = 0
SPECIFICATION Spec
CHECK_DEADLOCK FALSE
INVARIANT AttemptsEnd
