# mimi-router in TLA+

mimi-router is an API gateway for language models: clients call OpenAI- or
Anthropic-shaped endpoints with a token, the router picks an upstream channel,
converts and forwards the request, falls back to other channels on errors, and
charges the call to the token and to its user. This directory holds TLA+ models
of its core, the TLC configurations that check them, and proofs checked by
TLAPS. Paths below are relative to `src/`.

Sections: [1 the system](#1-the-system), [2 modules and code](#2-modules-and-code),
[3 runs](#3-runs), [4 fairness](#4-fairness), [5 proofs](#5-proofs),
[6 abstractions](#6-abstractions), [7 where code and text disagree](#7-where-code-and-text-disagree),
[8 plan](#8-plan), [9 not modelled](#9-not-modelled).

## 1 The system

A relayed request goes through `middleware` (authentication, rate limits,
`Distribute`), then `controller.Relay`, which calls one of the helpers in
`relay/controller` per channel it tries, which calls an adaptor. On the way it
reads the channel cache, the cooldown store, the affinity store and the user and
token caches; it writes quota through `model/token.go` and `model/user.go`; and
it leaves goroutines behind (`postConsumeQuota`, `PostConsumeQuota`,
`ReturnPreConsumedQuota`, `processChannelRelayError`). Periodic goroutines
refresh the channel cache and the options, flush batched updates, expire
cooldowns and affinities, and test channels.

| component | state | operations | what is hard | what makes it correct |
|---|---|---|---|---|
| quota ledger (`relay/controller/helper.go`, `text.go`, `anthropic.go`, `audio.go`, `image.go`, `relay/billing/billing.go`, `model/token.go`, `model/user.go`, `model/utils.go`) | `users.quota`, `users.used_quota`, `tokens.remain_quota`, Redis balance per user, pending maps of the batch updater | hold, refund, settle, statistics, flush, top-up, delete token | no transaction spans the user and the token; settlements are goroutines that outlive the request; pending amounts die with the process; helpers differ in their error paths | each call is settled once, for the right amount; the ledgers agree at rest; nothing is lost between maps and database |
| fallback loop (`controller/relay.go`, `relay/fallback/fallback.go`, `middleware/distributor.go`) | per request: channels tried, tries left, deadline, last error | choose, call, classify, soft-ban, choose again, answer | shared stores change under the scan; two pickers with different filters | no channel twice, bounded tries, one answer, no healthy channel overlooked |
| cooldown store (`model/cooldown.go`) | `sync.Map` of expiry times | store, test (deleting what has expired), sweep | load and delete are two steps | a cooldown lasts as long as promised |
| affinity store (`relay/affinity/affinity.go`) | `sync.Map` key to channel and expiry | get, set, delete, cleanup | concurrent requests share a key | an entry is deserved and does not outlive its TTL |
| channel cache (`model/cache.go`) | group to model to channels, sorted by priority | rebuild, two pickers | rebuild reads channels and abilities by separate queries and publishes later | it converges to the database |
| channel store (`model/channel.go`, `model/ability.go`, `controller/channel.go`) | `channels`, `abilities` | insert, update, delete, status, priority | two tables, no transaction | `abilities.enabled` agrees with `channels.status`; no orphans |
| channel health (`monitor/*.go`, `controller/channel-test.go`, `controller/channel-billing.go`) | success queues per channel, the `testAllChannelsRunning` flag | emit, disable, enable, test all, balances | stale snapshots of the status, a flag left set on an error, unlocked queues | the flag says whether a loop runs; whatever is switched, both tables agree |
| provider sync (`controller/channel_sync.go`) | none | one insert for each provider | names are read once, before the inserts | syncing again adds nothing |
| rate limiters (`common/rate-limit.go`, `middleware/rate-limit.go`) | times in memory or Redis lists | request, expire | the Redis version is several commands; the one in memory forgets | never more than the limit in any window; forgetting changes no answer |
| redemption (`model/redemption.go`) | code status, user quota | redeem, update, delete | the code is checked in one statement and written in another | a code pays once for every time it was enabled |
| tokens, authentication (`middleware/auth.go`, `controller/token.go`, `model/cache.go`) | token row, its cache and the user's | validate, update, debit | whole-row updates lose concurrent debits; a miss reads and stores in two steps | a token that is off is refused within the life of a cache entry; its quota is what was set and debited |
| users (`controller/user.go`, `model/user.go`, `common/blacklist`) | user rows, blacklist, sessions | manage, update, delete, register, log in | rows are written back whole; blacklist and row are written apart, and not by every way a user is deleted | status, role, quota as decided; who is disabled is banned; no admin is changed by a peer |
| verification codes, OAuth logins (`common/verification.go`, `controller/misc.go`, `controller/auth/*.go`) | the map of codes, users' addresses and accounts | mail, verify, use, first login, bind | asked in one step, written in another, or not asked at all; a purge of a full map; a key deleted whatever it holds | a code is good just while it is the last mailed; an account is one user's |
| Anthropic streams (`relay/relaymode/anthropic/stream.go`) | open block, indices, usage | chunk, done, error | texts and calls alternate in any order | the events follow the protocol; what arrives is what was said |
| Anthropic requests (`relay/relaymode/anthropic/request.go`), adaptors (`relay/adaptor/*`) | none, or usage and text within one answer | convert messages; read a stream, a body, embeddings | 17 formats, each with its own way to skip, stop, close and count | the conversation arrives whole and in order; nothing is sent before an error; what is delivered is charged |
| options, ratios, logs, start-up, web | see [not modelled](#9-not-modelled) | | | |

`PROJECT.json` lists every component with its status, and under `hazards` the
places where the code can go wrong in ways a test would hardly reach.

## 2 Modules and code

The ledger and the fallback loop are modelled with their goroutines; the channel tables
with theirs; the rest as components that share no state with them or with one another.

### Quota ledger: `QuotaLedger.tla`

An *attempt* is one call of a helper for one channel (the fallback loop makes a
new one). `kind` tells the helper: `text` (`RelayTextHelper`), `messages`
(`RelayAnthropicHelper`, non-streamed), `audio`, `image`.

| TLA+ | code |
|---|---|
| `store`, `pend`, `taken` | the three columns, `batchUpdateStores[type]`, and the map `batchUpdate` has swapped out and is writing |
| `cache` | the Redis key `user_quota:<id>`, which may expire at any time |
| `exists` | rows of `tokens` |
| `att[a]` | the handler goroutine of an attempt: its program counter and locals (`est`, `hold`, the balance it has read) |
| `job[a][j]` | the goroutine that settles (`settle`) or refunds (`refund`) an attempt |
| `killed` | attempts whose process died |
| `Begin`, `ReadQuota`, `FillCache`, `GateReject`, `GatePass` | up to and including the gate of `preConsumeQuota` / the audio helper, with the trusted-user rule |
| `CheckToken`, `CheckUser`, `DebitToken`, `DebitUser` | `PreConsumeTokenQuota`, one action per database statement |
| `Abort`, `UpstreamError`, `Succeed`, `NoUsage`, `NotChat`, `ChargedError` | the exits of a helper, and which goroutines each starts |
| `JobLoad`, `JobUser`, `JobToken`, `JobCacheGet`, `JobCacheWrite`, `JobStats` | `PostConsumeTokenQuota` and the rest of `postConsumeQuota`, one action per statement |
| `FlushSwap`, `FlushEntry` | `batchUpdate`: swap one type's map under its lock, then write entry by entry |

Amounts go through `Post`, which adds to `pend` with batch updates and to
`store` without, as `IncreaseUserQuota` and its siblings do.

`Settlement.tla` is the abstract specification of what a call costs a user: a
call takes at most one hold, and when its outcome is decided the debit moves
once, to the amount due. `QuotaLedgerProperties.tla` maps the ledger to it: `debit`
is what the attempt has taken from the balance so far, over all stores it may sit
in; `due` is the cost once the attempt has ended.

### Fallback loop: `RelayFallback.tla`

| TLA+ | code |
|---|---|
| `req[r]` | the handler: program counter, `ch` (current channel), `first`, `used` (`used` map), `left` and `deadline` (retry budget), `last` (last error), `todo`/`cand` (the picker's walk), `dels` (expired cooldown keys it has read and is about to delete) |
| `cool`, `sweep` | `cooldownStore`, and the key `CleanupExpiredCooldown` is about to delete |
| `affinity` | `affinity.store` |
| `enabled`, `cached`, `snapshot` | `channels.status`, `group2model2channels`, and what `InitChannelCache` has read but not published |
| `reports` | running `processChannelRelayError` goroutines |
| `promised`, `failed`, `earned` | history, for the properties only |
| `Arrive`, `ArrivePinned`, `Verify`, `Unstick` | `Distribute`: affinity, specific channel, fresh choice |
| `Look`, `Forget`, `Choose`, `Exhausted` | `CacheGetRandomSatisfiedChannel` and `CachePickFallbackChannel`, one channel at a time, with `isCooldown`'s load and delete as separate steps, then the backup group |
| `Succeed`, `Fail`, `Decide`, `Again`, `Loop` | `Relay` |
| `Report`, `Reenable`, `SyncRead`, `SyncPublish`, `SweepLook`, `SweepForget`, `CleanupAffinity`, `Tick` | the rest of the process |

`Relayed.tla` is its abstract specification: channels are tried one after another,
none twice, no more than `MaxTries`, another one only after a retryable error,
and the client gets one answer, the outcome of the last try.
`RelayFallbackProperties.tla` maps `tried` to `used`.

### Channels: `Channels.tla`, `ChannelsProperties.tla`

`row` and `ability` are the two tables, `job[h]` a goroutine that writes them: a handler
of `controller/channel.go`, the sync, the test of all channels, the loop over
balances. Every statement is an action (`Create`, `FillAbilities`, `Reload`,
`DropAbilities`, `Switch`, `SetStatus`, `SyncInsert` ...); `AddFails` says when the
INSERT of `AddAbilities` is refused. `RefreshRead` and `RefreshPublish` are
`InitChannelCache`, `RefreshPanics` its write to a nil map. `Crash` leaves
everything half done. History: `clash` holds the channels whose last writes
overlapped, failed or were cut short, `blame` what else went wrong.

### Rate limiters: `RateLimit.tla`, `SlidingWindow.tla`

`Request` and `clearExpiredItems` are `InMemoryRateLimiter`, atomic under its mutex;
`RedisLLen`, `RedisLIndex`, `RedisLPush`, `RedisLTrim`, `RedisExpire` are the
commands of `redisRateLimiter`, one action each, with `thread[h]` between them.
`SlidingWindow.tla` decides by everything a client was ever allowed.

### Anthropic streams: `AnthropicStream.tla`, `EventGrammar.tla`

`conv` is `streamConverter`, an action writes at most one event; `got` is what a client
makes of the events; `up` what upstream has said. `EventGrammar.tla` is the
protocol as the comment in `stream.go` lists it, with one exception of the code: an
upstream that sends no chunk gets no `message_start`.

### Users: `Accounts.tla`, `Identities.tla`

`Accounts` has the columns status, role and quota, the blacklist of the process and
the sessions. `request[h]` is a handler: it reads the row (`ManageUser`,
`UpdateUser`, `SaveSelf`, `DeleteUser`), changes the blacklist (`Ban`) and writes
the row (`WriteRow`, with gorm's rule that zero values are not written). `Blacklisting` is
what `User.Update` and `User.Delete` do to the blacklist: only `Delete` bans who is
deleted, so that a form with status 3 (`UpdateUser`) leaves the user unbanned, which
`slipped` remembers. `ManageUser` writes the row back for an action it does not know, too.
Then `Charge`, `Register` with `PayInvitee` and `PayInviter`, `Login`, `Logout`, `Restart`.
`Identities` has the addresses and the accounts of other sites: the map of codes
(`RegisterVerificationCodeWithKey`, `VerifyCodeWithKey`, `removeExpiredPairs`,
`DeleteKey`), the mails, `EmailBind` and `Register` (`UseCode`), `ResetPassword` in
its three steps, and for each site the first login and the bind, which ask
whether an account is taken (`FirstLogin`, `Binds`), read the row (`ReadRow`) and
write it (`WriteIdentity`, `InsertUser`). Two writers of the same columns ask nothing:
`RewriteRow`, the handlers that read a row for another purpose and write all of it back, and
`UpdateUserForm`, an administrator's form with an address or accounts in it (`Forms`). History:
`mailed` is the last code mailed until a reset uses that code up; `dropped` the codes
a reset deleted with another in hand; `raced` the accounts and addresses that one handler took while
another was after the same one, or took away while another held a copy of the row
(`Contested`), and the reset codes two requests had in hand; `unasked` who has what from a form, or
an address from a site.

### Tokens: `TokenAccess.tla`

`token` and `enabled` are the rows, `cache` the two Redis entries with their time to
live; a call goes through `GetToken`, `StoreToken`, `CheckToken`, `MarkToken`,
`GetUser`, `StoreUser`, `Decide`; `ReadToUpdate` and `SaveToken` are `UpdateToken`, which may make the
token unlimited;
`SwitchUser` is another process.

### Redemption codes: `Redemption.tla`

`BeginRedeem`, `Commit` and `Rollback` are the transaction of `Redeem`; `Serializes`
says whether the database refuses a commit when what it read has changed.

### Providers: `ProviderAnswers.tla`, `RequestConversion.tla`

`ProviderAnswers`: for each provider an operator `<provider>Line` (the stream handler's
treatment of a line), `<provider>Body` and `<provider>Embedding`; `StreamLine`
and `WholeBody` apply them to what a provider may send. A line (`Line`) holds texts, or cannot be
read, or is Claude's `message_start`, a `[DONE]` with or without `data: `, or longer than a
`bufio.Scanner` takes; a Gemini line may have two parts and a Replicate event two data lines, of which the
handlers read the first and the last. `StreamEnd` is the end of the loop: the `[DONE]` of the gateway if
`doneRendered` does not say it was sent, and, for the twelve handlers in `Closing`,
`resp.Body.Close()`, which may fail. `ClientLeaves` is gin's `c.Stream`, which Xunfei's and Bedrock's handlers
use and which returns when the client is gone. `MayFollow` is what the models assume of a provider: the order
of its tokens and texts. History: `metered`, `opening` what it told, `ending` the line that ended
the stream, if that matters, `unread` the pieces a handler does not read, `gone` that the client is.
`RequestConversion`: a conversation grows turn by turn; `FirstTry` is the chat
request `/v1/messages` becomes (`convertSystem`, `convertMessage`), `SecondTry` what a
second channel reads from the body the first has left, `<provider>Request` the
messages each adaptor sends. Its operators are checked on every
conversation of up to `MaxTurns` turns.

The `MC*` modules give the constants values for TLC. `MCGateway.tla` puts the eight
modules of limiters, streams, accounts, identities, tokens, codes, answers
and requests next to each other: see section 3.

A module named `...Proofs` holds the theorems about the modules its first lines name
(`GatewayProofs`: tokens, accounts, identities and codes; `AdaptorProofs`: answers and
conversations; `PartsProofs`: what `MCGateway` composes). They declare no state and are
described in section 5.

Definitions whose comment begins with "A mutant" are faulty variants of the
definition that follows them; `PROJECT.json` (`mutants`) says which property each
one breaks. No specification uses them.

## 3 Runs

Each run is a module and a `.cfg`: `tlc -config QuotaLedgerDirect.cfg MCQuotaLedger`.

| run | instance | shows |
|---|---|---|
| `ledger_direct` | 2 attempts of any kind, 1 user with 2 limited tokens, direct updates | `TypeOK`; `SpentIsUsed`: at rest, what the balance lost is what `used_quota` reports; `TokenMirrorsUser`: the tokens of a user lost what the user lost |
| `ledger_batch` | 2 chat completions on 1 token, batch updates, a top-up, token deletion, crash | `Conserved`: every step moves what it posts and loses nothing between database and maps, but for a crash; `ImplementsSettlement` |
| `ledger_liveness` | 1 attempt, a limited and an unlimited token, batch updates, Redis, deletions, crash | `JobsFinish`, `PendingReachesStore` |
| `relay_cooling` | 2 requests, 2 channels in the group and 1 in the backup group, 429s with and without Retry-After, fatal errors | `TypeOK`; `HealthyFound`: nobody gives up, within budget and deadline, while a channel that could serve and never failed is untried |
| `relay_sharing` | 2 requests with one affinity key, 3 channels of which 2 consent to fallbacks, disabling and enabling | `AffinityEarned`, `OnlyConsenting`, `ImplementsRelayed` |
| `relay_answered` | a free request and a pinned one, a channel and a backup channel, disabling and enabling | `AllAnswered` |
| `channels` | 3 channels, 2 groups, 2 jobs out of 8 mixes of operations, 1 crash | `AbilitiesAgree`: unless its last writes overlapped, failed or were cut short, a channel is picked just for what it serves; `PanicsOnlyTorn`, `FlagIsTheLoop`, `OneChannelPerProvider`; `CacheConverges` |
| `gateway` | each of eight parts on its own, below | the table that follows |
| `ledger_abort`, `ledger_twice`, `relay_shield`, `redeem_twice` | as small as shows it | expected violations, section 7 |

| part of `gateway` | shows |
|---|---|
| limiters | `AnswersAsWindow` (in memory); `BoundedOverrun`: through Redis a window is overrun by at most two requests for each handler that is in the middleware |
| stream | `ImplementsEventGrammar`; `Reassembles`: the client ends up with all texts, calls, arguments, the stop reason and the tokens that upstream sent |
| accounts | `RowIsDecided`: a row is what was decided and charged, unless it was written while another handler held a copy; `BlacklistAgrees`: who is disabled, or deleted but not by a form, is on the blacklist, and nobody who is enabled; `PeersStand`: only root users change administrators |
| identities | `CodesAsMailed`: a code is good just while it is the last mailed, unless a reset with an older one dropped it; `ResetsOnce`; `OneUserPerAccount` and `SharedOnlyByCode`: an account is one user's, an address another's only by its code, unless raced for or `unasked` |
| tokens | `StaleAtMost`: nobody is let in later than an entry of the cache lives after the token or the user was turned off; `RemainKept` |
| codes | `PaidAsEnabled` |
| answers | `StreamDelivered`: one `[DONE]` at the end and every piece in order, but for what the comment names; `NothingSentBeforeError`: an error behind an answer comes only from Replicate's handler, to a client that is gone, or when the body does not close after `[DONE]`; `DeliveredIsCharged`: prompt and completion are, exactly, those counted or told last, with the exceptions by name |
| requests | `ConversationKept`, `ToolResultsMatched`, `SecondChannelSame` |

The parts of `gateway` have disjoint variables and no property relates two of them. In
every behaviour one part (`part`) moves and the others stay in one of their initial
states, so that the run is the union of eight exhaustive ones: a property of a part is
violated there just if it is by the part alone.

Where a property says "unless", the exception is something the code does: a race (a row held in
memory while another handler writes it, two inserts after two checks), a writer that does
not ask (an administrator's form), a handler that drops what it does not read. History
variables record that it happened, for the account, address, code or piece it happened to and for no other,
and the property says that nothing else leads there. Section 7 lists these cases. The mutants of `PROJECT.json` show that each can fail.

Bounds of the ledger and the loop. Two attempts are the fewest that race for a balance, a token or the
pending maps; every race in the code is between two parties, a third only
repeats one. Opening balances (6 and 4), estimates (2 or 3) and costs (0 and more
than the hold) are chosen so that one call can be held and two cannot, that a
settlement can be a refund, zero or a further charge, and that a user can be
trusted (`TrustFactor` stands for the factor 100, `PreConsumedQuota` for the
option). A user gets at most one top-up, and a crash has to take an attempt with it.
In the fallback loop two requests suffice for each race over a cooldown key or an
affinity entry (`relay_shield` needs a third, whose failure is the first
cooldown), three channels for a first choice, a fallback and one set aside.
`MaxTime = 1` with `Retry-After = 1`, `AffinityTTL = 1` and a deadline one tick away
lets everything expire once, before or after any other step. Symmetry is used over attempts
and over requests, and not in runs with liveness properties.

Bounds of the others. Two handlers or jobs at a time race for every row, map entry and
flag; a third party is the clock, a crash or the cache's refresh. The mixes name the pairs
and triples of operations that write the same columns. Limits of two requests in two
seconds with an expiration of three let a window fill, slide, be forgotten and
start again; four pieces of a stream make a text after a call after a text, and
arguments for either; four turns make a call, its result, and what follows it,
behind a system prompt; four lines of three pieces let a provider break off before, in and after
what it has to say, with a line that is bare, too long or of two parts at any place; three users and one address or account have one taken, one free
and one new; three visits let a form, a bind and a rewrite of one row overlap. A life of one minute or two seconds ends within the clock's bound.

`CHECK_DEADLOCK FALSE` everywhere: once its calls are answered and settled a
bounded instance has nothing left to do.

## 4 Fairness

`QuotaLedger`: the goroutines `postConsumeQuota`, `PostConsumeQuota` and
`ReturnPreConsumedQuota` are weakly fair (the Go scheduler runs a runnable
goroutine, and database statements return), and so are the updater's steps (its loop sleeps
and wakes for ever). Handlers are not: nothing makes a client or an upstream act.

`RelayFallback`: handlers are weakly fair, upstream calls included, because
the HTTP client gives up after `RELAY_TIMEOUT`. By default that is 0, no limit (`common/config/config.go:118`): liveness is claimed for deployments that set it, or upstreams that answer. Whether the call succeeds or
fails is free. Nothing else is fair: no disabling, refresh, sweep or tick has to happen
for a request to be answered.

`Channels`: a job that has begun goes on (database calls return), and `SyncChannelCache` comes
round again, both weakly fair; starting a job, crashing, and picking up again are free.
The other modules claim no liveness.

## 5 Proofs

Eight modules of theorems, checked by TLAPS. Except where a hypothesis is named they
hold for all values of the constants that satisfy the `ASSUME`s of the modules:
amounts are naturals, owners, openings and what channels serve are functions on their
domains, the constants that stand for nothing are not among the values, the life of a code is at
least a minute (`common/verification.go:23` has ten). All sets are arbitrary. `PROJECT.json` lists
the theorems, with the property a run checks where they state one.

### The ledger: `QuotaLedgerProofs.tla`

* `TypeCorrect`: `Spec => []TypeOK`. `TypeOK` is inductive.
* `LedgerImplementsSettlement`: `Spec => ImplementsSettlement`, if `"messages"` is not
  among `Kinds`. The refinement needs more than `TypeOK`. `OneSettlement` says
  that an attempt whose handler is running, or was rejected, has no goroutine;
  that one with a refund has no settlement and costs nothing; and that a goroutine
  that has not yet touched the balance is about to move it from the hold to
  the cost. Without it a step `JobUser` could move the debit a second time or
  to another amount. Most steps change neither `debit` nor `due` and map to stuttering; the
  lemmas on `[f EXCEPT ![a] = f[a]]` let them be folded. The hypothesis on `Kinds` is needed: the
  non-streamed `/v1/messages` path starts both goroutines on one
  exit (`NotChat`), which is what `ledger_twice` shows.
* `QuotaConserved`: `Spec => Conserved`. A step of the batch updater keeps the sum of table, swapped-out
  and pending map; any other changes it by what the attempt that took it holds more or
  less. `AllInOrder` says where a goroutine may be, given where its handler is.
* `SpentReportedAlways` and `TokensMirrorAlways`: `SpentIsUsed`, if there are finitely many
  attempts, and `TokenMirrorsUser`, if there are finitely many tokens, too. `Balanced` says of every account
  that what it is worth, over table and maps, and what all attempts have taken off it make its
  opening; `Settles` what each exit leaves to do; `LossIsSeen` that a crash
  loses pending amounts only if it ends an attempt. At rest `Balanced` is an equation of sums, and the
  sums of two accounts agree because their terms do. The lemmas on sums give them by the equations they
  satisfy; that there is such a function, and that sums of equal terms are equal, is
  shown by a minimal counterexample among the subsets of a finite set, since an induction theorem with
  an operator for a parameter cannot be used.

### The fallback loop: `RelayFallbackProofs.tla`

* `LoopTypeCorrect`: `Spec => []TypeOK`. Not inductive alone: a call's channel must be a
  channel for the stores to stay typed, so it is a consequence of the next invariant.
* `LoopImplementsRelayed`: `Spec => ImplementsRelayed`. `LoopInv` is `TypeOK` and, for
  each request, `Tries`: what it scans and calls is not among what it has tried
  (`Fresh`); where it stands in its retry budget, `Cardinality(used) + left <= 1 +
  RetryTimes` at the head of the loop and one more just after an error (`Budget`);
  and it has no answer before it is done (`Unanswered`). Without `Budget` a call
  could be one try too many; without `Fresh` a second try of a channel.
  `Succeed` and `Fail` map to `Try`, every way to "done" without a call to `GiveUp`,
  the rest to stuttering. Only what the other requests do to the
  shared stores matters to a request, and no part of `Tries` depends on them:
  that is why the theorem needs nothing of the cache or the cooldowns.
* `AffinityIsEarned`: `Spec => []AffinityEarned`, inductive given the types.
* `OnlyConsentingServe`: `Spec => []OnlyConsenting`, strengthened by `Consent`: the
  candidates of a scan after a failure, and then the channel called, have consented, and the loop
  is entered only from a first channel that has.
* `HealthyIsFound`: `Spec => []HealthyFound`. `Stocked`: a channel that never failed is not
  cooling, is enabled, and is in the cache and in what a refresh has read. `Seeks`: a
  scan still has before it every such channel of its group that is untried
  (`Untried`), it scans the backup group only when its own has none left, and tries left and tries
  made add up to no less than the budget, so that who gives up has spent it or found nothing.

### Channels: `ChannelsProofs.tla`

* `ChannelTypes`: types, with `JobsRun` (which operation is at which step and what it holds,
  `Stage` and `Holds`) and `FreshIsEmpty` (a channel never created has nothing in either table).
* `AbilitiesFollowChannels`: `ChannelsSpec => []AbilitiesAgree`. A job between two statements leaves
  the tables apart, so the invariant says what it knows then: `WritersKnow` (`Midway`:
  how far the rows and abilities of the channel it writes are, unless another job met
  it there) and `Settled` (a channel nobody writes, whose last writes did not clash, agrees in both tables).
* `WholeTablesNeverPanic`: `PanicsOnlyTorn`, with `ReadsWhole`: what a refresh has read that no
  write has torn is still what the tables say.
* `FlagFollowsTheLoop`: `FlagIsTheLoop` from `OneLoop`: no two loops run, and a loop that could not
  read its list leaves the flag up for good.
* `ProviderInsertedOnce`: `OneChannelPerProvider`, if administrators name no channel after a
  provider (`Unnamed`), from `SyncKnows`: the sync that runs has read or inserted every name
  there is.

### Rate limiters: `RateLimitProofs.tla`

* `MemoryIsWindow`: `LimitSpec => AnswersAsWindow`. The queue alone does not show it: the
  invariant `KeptInMind` says that the queue is the end of the client's history
  (`EndOf`), that times never go back (`InOrder`), and that a queue that is not full
  began when everything before it had expired (`AllExpired`). `QueueDecides` then shows
  that queue and history give one answer, which needs `Duration <= Expiration`:
  a comment in `common/config/config.go` asks for it and no code checks it.
* `WindowHolds`: in memory no window of `Duration` seconds has more than `MaxRequestNum`
  requests, from the same invariant. `LimitTypes`: both limiters' types.
* `OverrunBounded`: `LimitSpec => []BoundedOverrun`, if there are finitely many handlers. `RedisInv`
  counts the handlers between the commands: the list is the newest of the history (`IsNewest`) and too long only
  by those that raced for its last place and have still to trim it (`Fits`); a key
  that expires takes along only what expired before and what handlers that have not
  renewed it have pushed (`Renewed`); so a list that is not full has all that is
  recent but one request of each handler (`Begun`), and there is room for those that
  are going to push (`Room`).

### Anthropic streams: `AnthropicStreamProofs.tla`

* `StreamImplementsGrammar`: `StreamSpec => ImplementsEventGrammar`. `BlocksInv` ties the
  flags of the converter to the client's blocks: numbered as they came, open the last
  one, and just when a flag says so. `FlagsInv` has the places where a block is
  active that is closed (between `closeToolBlockOnly` and the next text), and that
  more arguments come only with a tool block open; `PhaseInv` and `RangesInv` the rest.
  The three lemmas `BlockStarts`, `BlockGrows`, `BlockEnds` say what an event does to
  the blocks; each action of the converter is one of them, an opening or closing event, or a stutter.
* `StreamReassembles`: `StreamSpec => []Reassembles`. `SaidInv`: what the client's blocks hold, with the piece the converter has
  in hand, is what upstream has said, and so are the stop reason and the tokens.
  `AllText` and `AllCalls` concatenate one sequence per block; what they
  are after a block is added or the last one grows is the one fact about
  `FlattenSeq` the proof needs. It is shown by a minimal counterexample over lengths,
  with what `AdaptorProofs` needs of it, too: every element of a flattened sequence stands in
  one of the sequences, and two of them in the same order (`FlattenPlaced`).
* `StreamTypes`: its types.

### Users, tokens, codes: `GatewayProofs.tla`

* `LetInAtMostStale`: `StaleAtMost`. `OffMeansOff`: what history calls off cannot be used; `EntriesOld`: an entry of
  the cache that would let a call in was stored before it went off, unless it was being filled then; `SawInTime`: the
  same of what each handler has in hand. `TokenRemainKept`: `RemainKept`, with `CopiesOwed`
  (a handler that is to write a status back holds the quota that is owed).
* `RowAsDecided`, `BlacklistAsWritten`, `PeersLeftAlone`: `RowIsDecided`, `BlacklistAgrees` and the
  action property `PeersStand`. `CopyStands`: the copy a handler holds is the row, unless the row is marked as
  overlapped; `BansInHand`: table and blacklist differ only for the user a handler has
  in hand, and where `slipped` says that a form deleted the user; `RankStands`: who writes an administrator's row
  is a root user or that administrator, unless two requests wrote the row.
* `CodesGoodAsMailed`, `CodesResetOnce`: `CodesAsMailed` and `ResetsOnce`. `MapAsMailed`: the map has the code last mailed, or nothing where that one is old or was dropped by a reset; `CodesKnown`
  says that a code still to be mailed is nowhere, `ResetInHand` that a reset has checked its code and
  that a code is used again only by who had it in hand.
* `AccountsNotShared`, `AddressesSharedByCode`: `OneUserPerAccount` and `SharedOnlyByCode`. `CopyIsTrue`: the
  addresses and accounts in a handler's copy of a row are still the row's, but those that were raced for; `InHandFree`: an account a
  handler is to write was free when it asked and is still, unless raced. So a write brings a row
  nothing that is another's, but what a form or a site gave (`Gains`, `Spoils`).
  `MailedBefore` and `NotAhead` order mails, checks and writes in time; `NobodyYet`: a user that has not
  registered has no address.
* `CodesPaidAsEnabled`: `RedemptionSpec => []PaidAsEnabled` where `Serializes`. An enabled code has a
  payment left (`PaymentsInv`), and who pays has seen it enabled (`RedeemersInv`).

### Providers: `AdaptorProofs.tla`

Answers. `StreamsDelivered`, `NothingSentFirst`, `DeliveredCharged`: the three properties of
`ProviderAnswers` for streams of any length. They are one invariant, `AnswersInv`, with `SentInv` (what the client
has is what was read, numbered upwards, and nothing else), `HeardInv` (what was sent and read is what was heard),
`DoneInv` (`[DONE]` comes last, and before
the provider is done only from OpenAI's and Replicate's handlers) and `UsageInv` (the usage is exactly
what the provider told, in the way its handler puts it together). `PricedInv` is the step from these to the price: the texts heard where texts are counted, the
usage else. `HandledIs` reduces the sixteen stream handlers to one table
of what they send, hear, charge and whether they stop, `BodyMade`, `BodyServed` and `EmbeddingServed` the 25
handlers of whole bodies to what they have in common; the proofs by step speak of these only.
`AnswersTypes`: types. That a usage that is added up stays in its range needs `UsageInv`:
before the tokens are told it is zero.

Conversations. `EveryConversationKept`, `EveryResultMatched`, `EverySecondChannelSame`: the three
properties of `RequestConversion` for conversations of any length, each adaptor and both APIs.

* `ConversationInvariant`: `ConversationInv` says what the client's next turn (`Say`) makes of the whole:
  each turn has one of the `Shapes`, parts are numbered upwards as they were said, a result answers a
  call of the turn just before it and has the role "tool" just on the chat API, a system prompt of `/v1/messages` is
  the first turn. `ConversionTypes` follows.
* `RequestIs`: a turn becomes one message, or two of a user who answers a call and says more (`Renders`,
  by the cases of `TurnCases`); so the messages are of the turns, in their order, and every part of a turn
  is in one of its messages (`Transcript`).
* Each adaptor then has lemmas on its own conversion, which are joined into three: what it tells is picked from the messages
  (`AdaptorTold`), and, for all but Cohere's, in their order but for system prompts (`AdaptorTidy`); and it
  tells each text and result that `Missed` does not name (`AdaptorTells`). `ConversationKept` follows from
  these and `Transcript`. For `ToolResultsMatched` only the two adaptors that pass on results as such count; before the
  result, and the text beside it, stands the call, unless it is Claude's and was dropped.
* The second channel reads the first one's messages as a request of their own: a message that
  is a text converts to itself, and a result's role is one `ValidRole` refuses.

### The run and the theorems: `PartsProofs.tla`

* `PartsMoveApart`: `GatewaySpec` implies the specifications of its eight parts, so that each theorem
  above about one of them holds of `GatewaySpec`, too, which the run `gateway` checks.
* `GatewayTypes`: `GatewaySpec => []GatewayTypeOK`, from it and the parts' invariants.

### Model-checked only

Every invariant and every action property of the passing runs is stated by a theorem. TLC alone
checks:

* Liveness: `JobsFinish`, `PendingReachesStore`, `AllAnswered`, `CacheConverges`. It is out of the prover's reach, as is
  `ENABLED`.
* The properties of the runs that expect a violation.

## 6 Abstractions

* A database statement is atomic and does not fail. The ignored error of the user's
  update in `PostConsumeTokenQuota` is listed as a hazard and not modelled.
* The request count and the channel's used quota follow the same path as
  `used_quota` and are left out.
* A cost is a member of a small set; ratios and rounding are not modelled.
* `SoftBanFromError` stores two keys in one step; the second store only repeats the race
  of the first.
* `affinity.Cleanup` deletes an expired entry in one step: it may delete a fresh one, which costs an
  affinity and nothing else.
* `MemoryCacheEnabled` is assumed: without it `CachePickFallbackChannel` has no fallback at all.
* In the fallback loop the groups and models of a channel do not change; in `Channels` they do.
* `processChannelRelayError` may or may not disable the channel, which covers the
  thresholds of `monitor` and the data race on the error's message.
* The headers of requests and answers are left out, and with them what
  `SetupContextForSelectedChannel` copies; of bodies, `RequestConversion` has the
  messages and `ProviderAnswers` texts and tokens.
* A text, a call or a result is a number; a line of a stream is read, cannot be read,
  is of no interest, is `[DONE]` with or without `data: `, is too long for the scanner, or
begins a message. Reading ends at a line that is too long; OpenAI's completions endpoint (texts in another
field) is not told from chat.
* A failing database statement is modelled where the code goes on behind it
  (`AddFails`, `ListFails`, `Rollback`), a failing Redis command nowhere.
* A write to a client that is gone is seen where the code acts on it: `c.Stream` and the whole
  bodies. `render` ignores it elsewhere.
* `UpdateUser` is split: `Accounts` has the columns of its form that say what a user may
  do, `Identities` those that say who it is. That the administrator outranks the user is checked
  in `Accounts` only.
* Names, passwords, groups, sites' HTTP calls and the state of an OAuth session are left out.
* Bounds in guards: `MaxClock`, `MaxPieces`, `MaxParts`, `MaxRead`, `MaxTurns`, `MaxQuota`,
  `MaxRequests`, `MaxRestarts`, `MaxUsers`, `MaxVisits`, `MaxCodes`, `MaxMinutes`, `MaxRemain`,
  `MaxCalls`, `MaxTime`, `MaxTries`, `MaxCrashes`, `MaxStarts`.

## 7 Where code and text disagree

Shown by runs with `expect = violation`:

* `ledger_abort`: `relay/controller/text.go:55-72` returns on three errors
  without giving the hold back; `audio.go:99` ("we need to roll back the pre-consumed quota")
  and `anthropic.go:95,103,110` do.
* `ledger_twice`: `relay/controller/anthropic.go:161` refunds the hold and then
  settles with an empty usage, which refunds it again.
* `relay_shield`: `model/cooldown.go:57` deletes an expired entry it has loaded
  before; a cooldown stored in between is lost. `README.md:99` promises that the
  channel is shielded until Retry-After.

* `redeem_twice`: `model/redemption.go:69` asks for a row lock with
  `gorm:query_option`, which the gorm of `go.mod:34` ignores: two requests that
  read a code together are both paid where the database does not serialize.

Met while modelling, and modelled as the code has them:

* `relay/controller/helper.go:97` returns when usage is nil, and the hold stays;
  lines 111-112 of the same function say "we cannot just return, because we may have to return the
  pre-consumed quota". `QuotaLedger` has the exit as `NoUsage`.
* `relay/fallback/fallback.go:85` cools the whole channel down on a 429;
  `model/cooldown.go:11` and `README.md:170` say only the model is frozen.
* `controller/relay.go:129` records no affinity after a success in the
  fallback loop; `README.md:172` and `relay/affinity/affinity.go:11` say the
  last successful channel is remembered.
* `model/cache.go:341` takes the highest priority first; `README.md:94,109`
  say ascending order.
* `controller/relay.go:78` never passes an error to `ClassifyError`, so the
  trigger `timeout` (`relay/fallback/fallback.go:22`, `README.md:97`) never matches.
* `relay/relaymode/anthropic/stream.go:17` says that after a stream that cannot be
  read `message_delta` and `message_stop` are sent; `run` returns without them
  when the scanner fails (`ReadError`). With no chunk at all a `message_delta` comes
  without a `message_start`.
* `/v1/messages`: a message of several blocks becomes a list that `StringContent` and
  `ParseContent` do not read (`request.go:280`), so that adaptors other than OpenAI's
  send it without its text; and the channel a request falls back to reads the
  chat request of the first as if it were an Anthropic one
  (`ConversationKept` and `SecondChannelSame` name these cases).
* `relay/adaptor/gemini/main.go:147` speaks of a system message that is the last; the code adds
  "Okay" after whatever message follows the system's.
* `relay/adaptor/palm/palm.go:120` encodes a chunk it has encoded already;
  `relay/adaptor/cohere/main.go:87` drops the text-free event that tells the tokens;
  `relay/adaptor/xunfei/main.go:260` hands messages over on a channel without a buffer
  and waits for ever once the client has left; that goroutine is not modelled.
* An answer of AI Proxy, and embeddings of Gemini, Ollama, Ali and Tencent, cost nothing: their
  handlers return no tokens of the kind that is charged (`DeliveredIsCharged`).
* `controller/user.go:708`: `EmailBind` and `Register` leave the code in place, so that one
  address can be bound by several users while its code lives; a comment there says the
  code is the check (`SharedOnlyByCode`).
* `model/user.go:178`: `Update` bans who is disabled and unbans who is enabled and does nothing with a user
  whose status becomes "deleted"; only `Delete` (line 191) bans. `PUT /api/user` with `{"status": 3}` leaves
  a deleted user off the blacklist, and its session in use (`BlacklistAgrees`, `slipped`).
* `controller/user.go:415`: `UpdateUser` writes the e-mail address and the accounts of other sites of its
  form and asks nobody whether they are taken (`OneUserPerAccount`, `SharedOnlyByCode`, `unasked`).
* `controller/misc.go:225`: a reset deletes the key, so that a newer code, mailed after the reset checked
  its own, is gone before anyone has used it (`CodesAsMailed`, `dropped`).
* `relay/adaptor/openai/main.go:91` and the same lines of Anthropic, Gemini, Baidu, Tencent, Zhipu, Ali, Ollama,
  Cohere, Coze, Cloudflare and AI Proxy: an error of `resp.Body.Close()` is returned after the whole
  stream and its `[DONE]` were sent; `Relay` then tries another channel (`NothingSentBeforeError`).
* `relay/adaptor/openai/main.go:41` lets a bare `[DONE]` through, which cannot be unmarshalled, is passed on
  and followed by the handler's own. A line over the scanner's limit ends the stream; all but Replicate's
  handler log that and say `[DONE]`, so OpenAI's client misses what was in it (`StreamDelivered`).
* `relay/adaptor/replicate/chat.go:165` keeps the last data line of an event, `relay/adaptor/gemini/main.go:196`
  the first part of a candidate (`StreamDelivered`, `unread`). A Gemini candidate without parts is answered with
  an empty text; only an answer without candidates is an error.
* `relay/adaptor/aws/llama3/main.go:192` takes the completion's tokens over when the stop reason is "stop":
  a stream that ends by its length costs its prompt. Claude's two handlers add the tokens of `message_delta` to
  those of `message_start`, which counts the first token twice (`DeliveredIsCharged`).
* `model/user.go:170`, `controller/token.go:226`: whole rows are written back, stale
  columns among them (`RowIsDecided`, `RemainKept`).
* `middleware/auth.go:48` refuses users that are disabled or banned in this process; a user
  that was deleted keeps its session after a restart.
* `controller/channel-test.go:257` enables a channel that answers although an administrator
  disabled it, by a row it read before the test. If that row was purged meanwhile with all
  disabled channels (`model/channel.go:270`, which leaves their abilities), its abilities
  are switched on (`model/ability.go:94`) with no channel behind them.
* `controller/channel-billing.go:436`: the body of the handler `UpdateAllChannelsBalance` is
  commented out; only the periodic loop runs.

## 8 Plan

Done: the ledger, the fallback loop, channels, limiters, streams, accounts,
identities, tokens, codes, answers and requests, with their runs, and the proofs of section 5.

Left, in order of importance:

1. The failing statements of the ledger (`model/token.go:288`) and the request count.
2. `Channels` composed with the fallback loop: one cache for both.
3. Tool definitions and the answers that are not streamed, in `RequestConversion`.

## 9 Not modelled

* Options (`model/option.go`): maps under locks and single words, replaced one by one;
  no property of the code relates two of them.
* Ratios (`relay/billing/ratio`): tables of numbers and floating-point products, which TLA+'s
  integers do not have; `QuotaLedger` takes costs from a set.
* The success-rate queues of `monitor/metric.go`: they decide when `DisableChannel` happens,
  which may happen at any time here. That they are written without a lock is a hazard
  that is listed.
* URLs, headers and signatures of the adaptors, image and audio endpoints, sampling
  parameters: conversions of fields without state.
* Logs, dashboards, searches, start-up, routing, the web frontend: queries, wiring and
  user interface.

Proof and liveness limits are those of section 5.
