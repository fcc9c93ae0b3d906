SPECIFICATION Spec
CONSTANTS
  t1 = t1  t2 = t2  Stray = Stray  Goal = Goal  None = None
  Ids = {t1, t2}
  Answers <- MCAnswers
  MaxAttempts = 5
INVARIANTS HandedWhatWasMeant ShippedIsWritten ComplaintsAreHeard
CHECK_DEADLOCK FALSE
