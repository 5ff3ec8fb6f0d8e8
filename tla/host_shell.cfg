CONSTANTS
  Grace = 0
  Backoff = 1
  Attempts = 1
  Stable = 0
  Policies <- AllPolicies
  MaxMounts = 2
  MaxReloads = 1
  MaxAsks = 1
SPECIFICATION Spec
CHECK_DEADLOCK FALSE
INVARIANTS
  TypeOK
  OpenIsActive
  NothingLeaks
  UnmountsAlone
  ConcealedIsSilent
  AnswerComing
PROPERTIES
  StaysDown
