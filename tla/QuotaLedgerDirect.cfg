CONSTANTS
  a1 = a1  a2 = a2  u1 = u1  t1 = t1  t2 = t2
  Attempt = {a1, a2}
  User = {u1}
  Token = {t1, t2}
  Unlimited = {}
  Owner <- MCOwner
  Opening <- MCOpening
  Kinds = {"text", "messages", "audio", "image"}
  Estimates = {2}
  Costs = {0, 3}
  Grants = {}
  TrustFactor = 2
  PreConsumedQuota = 1
  NoValue = NoValue
  Undecided = Undecided
  RedisEnabled = FALSE
  BatchUpdateEnabled = FALSE
CHECK_DEADLOCK FALSE
SPECIFICATION Spec
SYMMETRY Symmetry
INVARIANTS TypeOK SpentIsUsed TokenMirrorsUser
