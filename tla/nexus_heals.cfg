CONSTANTS
  a = a
  b = b
  Side = {a, b}
  Id = {1, 2}
  OriginOf <- SameOrigin
  Refusers = {}
  Env = {"silent"}
  MaxPid = 4
  MaxFrames = 2
  MaxSends = 0
SPECIFICATION FairSpec
CHECK_DEADLOCK FALSE
PROPERTIES
  Converges
