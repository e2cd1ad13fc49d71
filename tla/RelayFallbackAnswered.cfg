CONSTANTS
  r1 = r1  r2 = r2  r3 = r3  c1 = c1  c2 = c2  c3 = c3  g1 = g1  g2 = g2  m1 = m1  m2 = m2
  AnyModel = AnyModel  NoGroup = NoGroup  NoChannel = NoChannel  NoOutcome = NoOutcome
  Request = {r1, r2}
  Channel = {c1, c3}
  Group = {g1, g2}
  Model = {m1}
  ModelOf <- SecondPinned
  GroupOf <- OneGroup
  BackupOf <- SecondGroup
  TokenOf <- OneToken
  Pinned = {r2}
  Serves <- LastIsBackup
  Priority <- Falling
  FallbackEnabled = {c1, c3}
  Triggers <- AnyTrigger
  RetryTimes = 2
  RetryTimeOut = 1
  AffinityTTL = 1
  Failures = {"5xx"}
  RetryAfters = {}
  AutoDisable = TRUE
  MaxTime = 1
CHECK_DEADLOCK FALSE
SPECIFICATION FairSpec
PROPERTY AllAnswered
