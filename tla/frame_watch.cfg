CONSTANTS
  Grace = 2
  Backoff = 2
  Attempts = 2
  Stable = 3
  Env <- AllFates
  InFlight = 2
SPECIFICATION Spec
INVARIANTS
  TypeOK
  OneClock
  HealthyIsAlive
  LostIsAnswered
PROPERTIES
  NoFalseVerdict
  LiveIsKept
  BudgetEarned
