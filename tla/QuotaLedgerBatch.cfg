CONSTANTS
  a1 = a1  a2 = a2  u1 = u1  t1 = t1  t2 = t2
  Attempt = {a1, a2}
  User = {u1}
  Token = {t1}
  Unlimited = {}
  Owner <- MCOwner
  Opening <- MCOpening
  Kinds = {"text"}
  Estimates = {3}
  Costs = {4}
  Grants = {2}
  TrustFactor = 2
  PreConsumedQuota = 1
  NoValue = NoValue
  Undecided = Undecided
  RedisEnabled = FALSE
  BatchUpdateEnabled = TRUE
CHECK_DEADLOCK FALSE
SPECIFICATION Spec
SYMMETRY Symmetry
PROPERTIES Conserved ImplementsSettlement
