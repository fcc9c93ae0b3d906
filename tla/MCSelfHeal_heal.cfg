SPECIFICATION FairSpec
CONSTANTS
  b = b  c = c  External = External
  Bugs = {b}
  MaxHealDepth = 1
  EarlyFix = FALSE
  MaxGoals = 3
  MaxAgain = 1
  MaxDeliveries = 1
  MaxFaults = 1
INVARIANTS DuplicatesOverlap RecurrencesAreCounted OutcomeIsEarned
PROPERTIES AttemptsSettle
CHECK_DEADLOCK FALSE
