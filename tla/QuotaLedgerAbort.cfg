CONSTANTS
  a1 = a1  a2 = a2  u1 = u1  t1 = t1  t2 = t2
  Attempt = {a1}
  User = {u1}
  Token = {t1}
  Unlimited = {}
  Owner <- MCOwner
  Opening <- MCOpening
  Kinds = {"text"}
  Estimates = {3}
  Costs = {4}
  Grants = {}
  TrustFactor = 2
  PreConsumedQuota = 1
  NoValue = NoValue
  Undecided = Undecided
  RedisEnabled = FALSE
  BatchUpdateEnabled = FALSE
CHECK_DEADLOCK FALSE
SPECIFICATION Spec
INVARIANT AbortCostsNothing
