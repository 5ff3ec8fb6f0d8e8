CONSTANTS
  a = a
  b = b
  Side = {a, b}
  Id = {1, 2, 3}
  OriginOf <- MixedOrigins
  Refusers = {}
  Env = {"close", "cancel", "destroy", "reload", "reconnect"}
  MaxPid = 3
  MaxFrames = 0
  MaxSends = 0
SPECIFICATION Spec
CHECK_DEADLOCK FALSE
SYMMETRY Sides
INVARIANTS
  Agreement
  DeadlineArmed
  RequestsRoutable
  AnswersRoutable
PROPERTY PinnedForLife
