CONSTANTS
  c1 = c1  c2 = c2  c3 = c3  g1 = g1  g2 = g2  m1 = m1
  p1 = p1  p2 = p2  p3 = p3  n1 = n1  n2 = n2
  Channel = {c1, c2, c3}
  Group = {g1, g2}
  Model = {m1}
  NoName = NoName
  Provider = {p1, p2, p3}
  NameOf <- MCNameOf
  Job = {h1, h2}
  Mixes <- MCMixes
  Bodies <- MCBodies
  SyncBody <- MCSyncBody
  Old = {c1}
  MaxCrashes = 1
  MaxStarts = 2
  Priority <- MCPriority
SPECIFICATION ChannelsSpec
CHECK_DEADLOCK FALSE
INVARIANTS ChannelsTypeOK AbilitiesAgree PanicsOnlyTorn FlagIsTheLoop OneChannelPerProvider
PROPERTY CacheConverges
