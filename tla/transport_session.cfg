CONSTANTS
  a = a
  b = b
  End = {a, b}
  Stray = Stray
  None = None
  Env <- Faults
  Unsealable = {2}
  CounterLimit = 3
  MaxMsg <- OneSender
  MaxWaiting = 1
SPECIFICATION FairSpec
CHECK_DEADLOCK FALSE
INVARIANTS
  TypeOK
  PrefixDelivered
  CountersFresh
  ConfirmedTogether
  OneOutcome
PROPERTIES
  Confirms
  Accounted
