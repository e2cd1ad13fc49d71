CONSTANTS
  k1 = k1
  root = root
  admin = admin
  common = common
  guest = guest
  \* the rate limiters
  Client = {k1}
  Handler = {h1, h2}
  MaxRequestNum = 2
  Duration = 2
  Expiration = 3
  MaxClock = 4
  \* streams and answers
  MaxPieces = 4
  MaxParts = 3
  MaxRead = 4
  MaxTurns = 4
  \* accounts
  User = {root, admin, common, guest}
  Handling = {r1, r2}
  UserRows <- MCUserRows
  UserMixes <- MCUserMixes
  UserBodies <- MCUserBodies
  QuotaForNewUser = 1
  QuotaForInvitee = 1
  QuotaForInviter = 1
  MaxQuota = 3
  MaxRequests = 2
  MaxRestarts = 1
  \* identities
  Email = {e1}
  Offers <- MCOffers
  Forms <- MCForms
  Account = {x1}
  NoEmail = NoEmail
  NoAccount = NoAccount
  Visitor = {v1, v2}
  MaxUsers = 3
  MaxVisits = 3
  MaxCodes = 2
  MaxMinutes = 2
  verificationMapMaxSize = 1
  VerificationValidMinutes = 1
  \* tokens
  Call = {a1, a2}
  TokenMixes <- MCTokenMixes
  CacheSeconds = 2
  MaxRemain = 1
  MaxCalls = 3
  MaxTime = 3
  \* redemption codes
  Redeemer = {a1, a2}
  Code = {k1}
  Amount = {1, 2}
  Serializes = TRUE
  CodeMixes <- MCCodeMixes
  MaxTries = 6
SPECIFICATION GatewaySpec
CHECK_DEADLOCK FALSE
INVARIANTS
  GatewayTypeOK
  RowIsDecided
  BlacklistAgrees
  CodesAsMailed
  ResetsOnce
  OneUserPerAccount
  SharedOnlyByCode
  StaleAtMost
  RemainKept
  PaidAsEnabled
  BoundedOverrun
  Reassembles
  StreamDelivered
  NothingSentBeforeError
  DeliveredIsCharged
  ConversationKept
  ToolResultsMatched
  SecondChannelSame
PROPERTIES
  PeersStand
  AnswersAsWindow
  ImplementsEventGrammar
