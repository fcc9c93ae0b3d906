SPECIFICATION LiveSpec
CONSTANTS
  t1 = t1  t2 = t2  local = local  public = public
  None = None
  Tasks = {t1, t2}
  Chains = {local, public}
  Ephemeral = {local}
  MaxProofAttempts = 2
  BatchSize = 2
  MaxBoots = 2
INVARIANTS LedgerHonest BatchIsHeld
PROPERTIES DeadStaysDead ConfirmedForGood QueuedSettles
CHECK_DEADLOCK FALSE
