CONSTANTS
  a1 = a1  a2 = a2  u1 = u1  t1 = t1  t2 = t2
  Attempt = {a1}
  User = {u1}
  Token = {t1, t2}
  Unlimited = {t2}
  Owner <- MCOwner
  Opening <- MCOpening
  Kinds = {"text", "messages", "image"}
  Estimates = {3}
  Costs = {0, 4}
  Grants = {2}
  TrustFactor = 2
  PreConsumedQuota = 1
  NoValue = NoValue
  Undecided = Undecided
  RedisEnabled = TRUE
  BatchUpdateEnabled = TRUE
CHECK_DEADLOCK FALSE
SPECIFICATION FairSpec
PROPERTIES JobsFinish PendingReachesStore
