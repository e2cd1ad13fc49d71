----------------------------- MODULE QuotaLedger -----------------------------
(***************************************************************************)
(* The quota ledger of the relay: what one call of a relay helper (an      *)
(* "attempt") does to the balances of its user and its token.              *)
(*                                                                         *)
(* RelayTextHelper, RelayAnthropicHelper, RelayAudioHelper and             *)
(* RelayImageHelper check the user's balance, take a hold                  *)
(* (preConsumeQuota), call the upstream, and leave goroutines behind that  *)
(* return the hold or settle the difference to the real cost.  Every       *)
(* database or Redis statement is a step of its own: other requests, the   *)
(* batch updater, top-ups, token deletions and a crash come between any    *)
(* two of them.  Database and Redis statements themselves do not fail.     *)
(***************************************************************************)
EXTENDS Integers, FiniteSets

CONSTANTS
  Attempt,            \* calls of a relay helper
  User, Token,        \* rows of the tables users and tokens
  Owner,              \* tokens.user_id
  Unlimited,          \* the tokens with unlimited_quota
  Opening,            \* the balances at start
  Kinds,              \* which relay helpers are called
  Estimates, Costs,   \* quota computed before and after the call
  Grants,             \* amounts of a top-up
  TrustFactor,        \* 100 in the code
  PreConsumedQuota,   \* config.PreConsumedQuota, the cache's low-water mark
  NoValue,            \* no key in Redis
  RedisEnabled, BatchUpdateEnabled

Ledgers == {"quota", "remain", "used"}
Account == ({"quota", "used"} \X User) \cup ({"remain"} \X Token)

\* A chat completion, a streamed and a non-streamed /v1/messages call, audio, image.
AllKinds == {"text", "stream", "messages", "audio", "image"}

ASSUME KindAssumption == Kinds \subseteq AllKinds
ASSUME OwnerAssumption == Owner \in [Token -> User] /\ Unlimited \subseteq Token
ASSUME AmountAssumption ==
  /\ Estimates \subseteq Nat /\ Costs \subseteq Nat /\ Grants \subseteq Nat
  /\ TrustFactor \in Nat /\ PreConsumedQuota \in Nat
ASSUME OpeningAssumption == Opening \in [Account -> Int]
ASSUME SwitchAssumption ==
  NoValue \notin Int /\ RedisEnabled \in BOOLEAN /\ BatchUpdateEnabled \in BOOLEAN

VARIABLES
  store,       \* the columns users.quota, users.used_quota, tokens.remain_quota
  pend, taken, \* batchUpdateStores, and the map batchUpdate has swapped out
  nextLedger,  \* the type batchUpdate swaps out next
  cache,       \* Redis user_quota:<id>
  exists,      \* the tokens that have not been deleted
  att,         \* the handler of each attempt
  job,         \* the goroutines an attempt leaves behind
  killed,      \* attempts a crash has ended
  granted,     \* history: what top-ups have added
  lost         \* history: pending amounts a crash has destroyed

vars == <<store, pend, taken, nextLedger, cache, exists, att, job, killed, granted, lost>>
batchVars == <<taken, nextLedger, lost>>
worldVars == <<exists, killed, granted>>

Jobs == {"refund", "settle"}
Running == {"idle", "readQuota", "fillCache", "gate", "checkToken", "checkUser",
            "debitToken", "debitUser", "calling"}
\* "aborted": the upstream was never asked; "failed": it answered with an error;
\* "noUsage", "notChat", "chargedError": the odd exits of the helpers.
Ended == {"rejected", "aborted", "failed", "ok", "noUsage", "notChat", "chargedError"}
JobPcs == {"none", "load", "user", "token", "cacheGet", "cacheFill", "cacheSet",
           "stats", "done"}

Amounts == [Account -> Int]
AttemptState == [pc: Running \cup Ended, kind: AllKinds, tok: Token,
                 est: Nat, pre: Nat, seen: Int, cost: Nat]
JobState == [pc: JobPcs, delta: Int, seen: Int]

TypeOK ==
  /\ store \in Amounts /\ pend \in Amounts /\ taken \in Amounts
  /\ granted \in Amounts /\ lost \in Amounts /\ nextLedger \in Ledgers
  /\ cache \in [User -> Int \cup {NoValue}]
  /\ exists \subseteq Token /\ killed \subseteq Attempt
  /\ att \in [Attempt -> AttemptState] /\ job \in [Attempt -> [Jobs -> JobState]]

Zero == [acc \in Account |-> 0]
NoJobs == [j \in Jobs |-> [pc |-> "none", delta |-> 0, seen |-> 0]]

Init ==
  /\ store = Opening /\ pend = Zero /\ taken = Zero /\ nextLedger = "quota"
  /\ cache = [u \in User |-> NoValue]
  /\ exists = Token /\ killed = {} /\ granted = Zero /\ lost = Zero
  /\ att \in [Attempt -> [pc: {"idle"}, kind: Kinds, tok: Token, est: Estimates,
                          pre: {0}, seen: {0}, cost: {0}]]
  /\ job = [a \in Attempt |-> NoJobs]

UserOf(a) == Owner[att[a].tok]
Quota(a) == <<"quota", UserOf(a)>>
Remain(a) == <<"remain", att[a].tok>>
Used(a) == <<"used", UserOf(a)>>
Limited(a) == att[a].tok \notin Unlimited

-----------------------------------------------------------------------------
(***************************************************************************)
(* Increase/Decrease{User,Token}Quota: one UPDATE ... SET x = x + d, or,   *)
(* with batch updates on, an addition to the pending map under its lock.   *)
(* A statement about a deleted token touches no row; the model keeps       *)
(* counting in a column nobody reads any more.                             *)
(***************************************************************************)
Post(acc, d) ==
  IF BatchUpdateEnabled
  THEN pend' = [pend EXCEPT ![acc] = @ + d] /\ UNCHANGED store
  ELSE store' = [store EXCEPT ![acc] = @ + d] /\ UNCHANGED pend

Goto(a, from, to) == att[a].pc = from /\ att' = [att EXCEPT ![a].pc = to]

\* TokenAuth has let the request in some time ago, for a retry on the next channel
\* quite some time ago: the token may be gone by now.
Begin(a) ==
  /\ Goto(a, "idle", "readQuota")
  /\ UNCHANGED <<store, pend, cache, job, batchVars, worldVars>>

\* CacheGetUserQuota answers from Redis only when the key is there and not low.
Hit(u) == RedisEnabled /\ cache[u] # NoValue /\ cache[u] > PreConsumedQuota

ReadQuota(a) ==
  /\ att[a].pc = "readQuota"
  /\ LET u == UserOf(a) IN
     att' = [att EXCEPT
       ![a].seen = IF Hit(u) THEN cache[u] ELSE store[<<"quota", u>>],
       ![a].pc = IF RedisEnabled /\ ~Hit(u) THEN "fillCache" ELSE "gate"]
  /\ UNCHANGED <<store, pend, cache, job, batchVars, worldVars>>

FillCache(a) ==
  /\ Goto(a, "fillCache", "gate")
  /\ cache' = [cache EXCEPT ![UserOf(a)] = att[a].seen]
  /\ UNCHANGED <<store, pend, job, batchVars, worldVars>>

\* DECRBY on a missing key counts from 0.
CacheAfterHold(u, n) ==
  IF RedisEnabled
  THEN [cache EXCEPT ![u] = (IF @ = NoValue THEN 0 ELSE @) - n]
  ELSE cache

Affordable(a) == att[a].seen - att[a].est >= 0
Trusted(a) == att[a].seen > TrustFactor * att[a].est
\* A mutant: only what the balance lacks is held.
HoldShortfall(a) == IF Trusted(a) THEN 0 ELSE att[a].est - att[a].seen

HoldOf(a) == IF att[a].kind = "image" \/ Trusted(a) THEN 0 ELSE att[a].est

GateReject(a) ==
  /\ ~Affordable(a)
  /\ Goto(a, "gate", "rejected")
  /\ UNCHANGED <<store, pend, cache, job, batchVars, worldVars>>

\* The image helper takes no hold and leaves the cached balance alone.
GatePass(a) ==
  /\ Affordable(a) /\ att[a].pc = "gate"
  /\ att' = [att EXCEPT ![a].pre = HoldOf(a),
                        ![a].pc = IF HoldOf(a) > 0 THEN "checkToken" ELSE "calling"]
  /\ cache' = IF att[a].kind = "image" THEN cache
              ELSE CacheAfterHold(UserOf(a), att[a].est)
  /\ UNCHANGED <<store, pend, job, batchVars, worldVars>>

(***************************************************************************)
(* PreConsumeTokenQuota: read the token, read the user, and only then the  *)
(* two updates.                                                            *)
(***************************************************************************)
TokenCovers(a) ==
  att[a].tok \in exists /\ (Limited(a) => store[Remain(a)] >= att[a].pre)

CheckToken(a) ==
  /\ Goto(a, "checkToken", IF TokenCovers(a) THEN "checkUser" ELSE "rejected")
  /\ UNCHANGED <<store, pend, cache, job, batchVars, worldVars>>

CheckUser(a) ==
  /\ Goto(a, "checkUser", IF store[Quota(a)] < att[a].pre THEN "rejected"
                          ELSE IF Limited(a) THEN "debitToken" ELSE "debitUser")
  /\ UNCHANGED <<store, pend, cache, job, batchVars, worldVars>>

DebitToken(a) ==
  /\ Goto(a, "debitToken", "debitUser")
  /\ Post(Remain(a), - att[a].pre)
  /\ UNCHANGED <<cache, job, batchVars, worldVars>>

DebitUser(a) ==
  /\ Goto(a, "debitUser", "calling")
  /\ Post(Quota(a), - att[a].pre)
  /\ UNCHANGED <<cache, job, batchVars, worldVars>>

-----------------------------------------------------------------------------
\* The ways a helper goes on once it holds the quota, and the goroutines it starts.
Start(a, js, to, c) ==
  /\ att[a].pc = "calling"
  /\ att' = [att EXCEPT ![a].pc = to, ![a].cost = c]
  /\ job' = [job EXCEPT ![a] = [j \in Jobs |->
       IF j \notin js THEN @[j]
       ELSE [pc |-> "load", seen |-> 0,
             delta |-> IF j = "refund" THEN - att[a].pre ELSE c - att[a].pre]]]
  /\ UNCHANGED <<store, pend, cache, batchVars, worldVars>>

\* ReturnPreConsumedQuota, and the audio helper's rollback, act on a real hold only.
Refund(a) == IF att[a].pre # 0 THEN {"refund"} ELSE {}

\* No adaptor, a body that does not convert, DoRequest fails: RelayTextHelper
\* returns as it is, the others return the hold first.
\* A mutant: no helper returns the hold.
RefundOnAbortForgotten(a) == {}

RefundOnAbort(a) == IF att[a].kind = "text" THEN {} ELSE Refund(a)

Abort(a) == Start(a, RefundOnAbort(a), "aborted", 0)

\* A mutant: the helper goes on to the settlement after it returned the hold.
UpstreamErrorSettled(a) == Start(a, Refund(a) \cup {"settle"}, "failed", 0)

\* The upstream answers with an error, or its answer does not convert.
UpstreamError(a) == Start(a, Refund(a), "failed", 0)

\* The image helper charges what it estimated, the others what the answer says.
CostsOf(a) == IF att[a].kind = "image" THEN {att[a].est} ELSE Costs

Succeed(a) == \E c \in CostsOf(a) : Start(a, {"settle"}, "ok", c)

\* The adaptor reports no usage: postConsumeQuota logs it and returns.
NoUsage(a) == att[a].kind = "text" /\ Start(a, {}, "noUsage", 0)

\* handleAnthropicNonStream gets a 200 that is no chat response.
NotChat(a) ==
  /\ att[a].kind = "messages"
  /\ Start(a, Refund(a) \cup {"settle"}, "notChat", 0)

\* The error comes after the charge is under way: copying the audio body, or
\* the image adaptor's DoResponse on a 200.
ChargedError(a) ==
  /\ att[a].kind \in {"audio", "image"}
  /\ \E c \in CostsOf(a) : Start(a, {"settle"}, "chargedError", c)

Outcome(a) ==
  \/ Abort(a) \/ UpstreamError(a) \/ Succeed(a)
  \/ NoUsage(a) \/ NotChat(a) \/ ChargedError(a)

-----------------------------------------------------------------------------
(***************************************************************************)
(* PostConsumeTokenQuota, alone in a refund, and followed by the cache and *)
(* the statistics in postConsumeQuota and billing.PostConsumeQuota.        *)
(***************************************************************************)
JobGoto(a, j, from, to) ==
  job[a][j].pc = from /\ job' = [job EXCEPT ![a][j].pc = to]

AfterPost(j) ==
  IF j = "refund" THEN "done" ELSE IF RedisEnabled THEN "cacheGet" ELSE "stats"

\* A mutant: a deleted token is waited for.
JobLoadWaiting(a, j) ==
  /\ att[a].tok \in exists
  /\ JobGoto(a, j, "load", "user")
  /\ UNCHANGED <<store, pend, cache, att, batchVars, worldVars>>

\* A token that is gone ends the call: nothing is applied to the user either.
JobLoad(a, j) ==
  /\ job[a][j].pc = "load"
  /\ job' = [job EXCEPT ![a][j] =
       IF att[a].tok \in exists THEN [@ EXCEPT !.pc = "user"]
       ELSE [pc |-> AfterPost(j), delta |-> 0, seen |-> @.seen]]
  /\ UNCHANGED <<store, pend, cache, att, batchVars, worldVars>>

\* A mutant: the token gets no refund.
AfterUserChargeOnly(a, j) ==
  IF Limited(a) /\ job[a][j].delta > 0 THEN "token" ELSE AfterPost(j)

AfterUser(a, j) == IF Limited(a) THEN "token" ELSE AfterPost(j)

JobUser(a, j) ==
  /\ JobGoto(a, j, "user", AfterUser(a, j))
  /\ Post(Quota(a), - job[a][j].delta)
  /\ UNCHANGED <<cache, att, batchVars, worldVars>>

JobToken(a, j) ==
  /\ JobGoto(a, j, "token", AfterPost(j))
  /\ Post(Remain(a), - job[a][j].delta)
  /\ UNCHANGED <<cache, att, batchVars, worldVars>>

\* CacheUpdateUserQuota writes back what CacheGetUserQuota returns.
JobCacheGet(a, j) ==
  /\ job[a][j].pc = "cacheGet"
  /\ LET u == UserOf(a) IN
     job' = [job EXCEPT
       ![a][j].seen = IF Hit(u) THEN cache[u] ELSE store[<<"quota", u>>],
       ![a][j].pc = IF Hit(u) THEN "cacheSet" ELSE "cacheFill"]
  /\ UNCHANGED <<store, pend, cache, att, batchVars, worldVars>>

JobCacheWrite(a, j) ==
  /\ \/ JobGoto(a, j, "cacheFill", "cacheSet")
     \/ JobGoto(a, j, "cacheSet", "stats")
  /\ cache' = [cache EXCEPT ![UserOf(a)] = job[a][j].seen]
  /\ UNCHANGED <<store, pend, att, batchVars, worldVars>>

\* UpdateUserUsedQuotaAndRequestCount (the request count and the channel's own
\* statistics are left out).
JobStats(a, j) ==
  /\ JobGoto(a, j, "stats", "done")
  /\ Post(Used(a), att[a].cost)
  /\ UNCHANGED <<cache, att, batchVars, worldVars>>

JobStep(a, j) ==
  \/ JobLoad(a, j) \/ JobUser(a, j) \/ JobToken(a, j)
  \/ JobCacheGet(a, j) \/ JobCacheWrite(a, j) \/ JobStats(a, j)

-----------------------------------------------------------------------------
(***************************************************************************)
(* batchUpdate: for each type in turn, swap the pending map out under its  *)
(* lock, then write its entries one by one, in any order.                  *)
(***************************************************************************)
\* A mutant: the first type is flushed once only.
LedgerAfterSkipping == [l \in Ledgers |-> IF l = "remain" THEN "used" ELSE "remain"]

LedgerAfter == [l \in Ledgers |->
  CASE l = "quota" -> "remain" [] l = "remain" -> "used" [] l = "used" -> "quota"]

InLedger(l) == {acc \in Account : acc[1] = l}

\* A mutant: the swapped map stays in place.
EmptiedNot(l) == pend

\* An emptied map for the type, the maps of the other types as they are.
Emptied(l) == [acc \in Account |-> IF acc \in InLedger(l) THEN 0 ELSE pend[acc]]

FlushSwap ==
  /\ BatchUpdateEnabled /\ taken = Zero
  /\ taken' = [acc \in Account |-> IF acc \in InLedger(nextLedger) THEN pend[acc] ELSE 0]
  /\ pend' = Emptied(nextLedger)
  /\ nextLedger' = LedgerAfter[nextLedger]
  /\ UNCHANGED <<store, cache, att, job, lost, worldVars>>

FlushEntry(acc) ==
  /\ taken[acc] # 0
  /\ store' = [store EXCEPT ![acc] = @ + taken[acc]]
  /\ taken' = [taken EXCEPT ![acc] = 0]
  /\ UNCHANGED <<pend, nextLedger, cache, att, job, lost, worldVars>>

\* AdminTopUp and the invitation rewards: IncreaseUserQuota.  One per user.
TopUp(u) ==
  /\ granted[<<"quota", u>>] = 0
  /\ \E n \in Grants :
       /\ Post(<<"quota", u>>, n)
       /\ granted' = [granted EXCEPT ![<<"quota", u>>] = n]
  /\ UNCHANGED <<cache, att, job, exists, killed, batchVars>>

DeleteToken(t) ==
  /\ t \in exists
  /\ exists' = exists \ {t}
  /\ UNCHANGED <<store, pend, cache, att, job, killed, granted, batchVars>>

\* Redis drops the key at the end of its time to live.
CacheExpire(u) ==
  /\ cache[u] # NoValue
  /\ cache' = [cache EXCEPT ![u] = NoValue]
  /\ UNCHANGED <<store, pend, att, job, batchVars, worldVars>>

\* The process dies with every handler, goroutine and pending map it has.
Crash ==
  /\ killed' = {a \in Attempt : att[a].pc # "idle"}
  /\ killed' # killed
  /\ lost' = [acc \in Account |-> lost[acc] + pend[acc] + taken[acc]]
  /\ pend' = Zero /\ taken' = Zero /\ nextLedger' = "quota"
  /\ UNCHANGED <<store, cache, exists, att, job, granted>>

Handler(a) ==
  \/ Begin(a) \/ ReadQuota(a) \/ FillCache(a) \/ GateReject(a) \/ GatePass(a)
  \/ CheckToken(a) \/ CheckUser(a) \/ DebitToken(a) \/ DebitUser(a) \/ Outcome(a)

Next ==
  \/ \E a \in Attempt \ killed : Handler(a) \/ \E j \in Jobs : JobStep(a, j)
  \/ FlushSwap
  \/ \E acc \in Account : FlushEntry(acc)
  \/ \E u \in User : TopUp(u) \/ CacheExpire(u)
  \/ \E t \in Token : DeleteToken(t)
  \/ Crash

Spec == Init /\ [][Next]_vars

\* Goroutines that have started run on, and the updater wakes up again and
\* again; nothing makes a caller or an upstream act.
FairSpec ==
  /\ Spec
  /\ \A a \in Attempt, j \in Jobs : WF_vars(a \notin killed /\ JobStep(a, j))
  /\ WF_vars(FlushSwap)
  /\ \A acc \in Account : WF_vars(FlushEntry(acc))
=============================================================================
