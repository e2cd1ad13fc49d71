---------------------------- MODULE RelayFallback ----------------------------
(***************************************************************************)
(* One relayed request on its way through the channels: Distribute chooses *)
(* the first one (by affinity or at random by priority), Relay calls it    *)
(* and, on a retryable error, falls back to others.  The requests share    *)
(* the cooldown store, the affinity store and the channel cache, all in    *)
(* memory; the columns of the channels are in the database.  The fallback  *)
(* loop needs the memory cache, so MemoryCacheEnabled is assumed.          *)
(***************************************************************************)
EXTENDS Integers, FiniteSets

CONSTANTS
  Request, Channel, Group, Model,
  AnyModel,             \* the empty model name: the key of a whole channel
  ModelOf, GroupOf, BackupOf, TokenOf,   \* of a request
  NoGroup,              \* the empty backup group
  Pinned,               \* requests with a specific channel id
  Serves,               \* channels.models and channels.group, as pairs
  Priority,
  FallbackEnabled,      \* channels with fallback_enabled
  Triggers,             \* channels.fallback_triggers, {} matches all
  RetryTimes, RetryTimeOut, AffinityTTL,
  Failures,             \* the errors upstreams give
  RetryAfters,          \* values of the Retry-After header
  AutoDisable,          \* whether an error may disable a channel
  NoChannel, NoOutcome,
  MaxTime               \* bound of the clock

Outcome == {"ok", "429", "5xx", "net", "fatal"}
Retryable == {"429", "5xx", "net"}

\* affinity.Key
Key == {<<TokenOf[r], GroupOf[r], ModelOf[r]>> : r \in Request}
KeyOf(r) == <<TokenOf[r], GroupOf[r], ModelOf[r]>>
CoolKey == Channel \X (Model \cup {AnyModel})

ASSUME RequestAssumption ==
  /\ ModelOf \in [Request -> Model \cup {AnyModel}]
  /\ GroupOf \in [Request -> Group] /\ BackupOf \in [Request -> Group \cup {NoGroup}]
  /\ Pinned = {r \in Request : ModelOf[r] = AnyModel}
ASSUME ChannelAssumption ==
  /\ AnyModel \notin Model /\ NoGroup \notin Group /\ NoChannel \notin Channel
  /\ Serves \in [Channel -> SUBSET (Group \X Model)] /\ Priority \in [Channel -> Int]
  /\ FallbackEnabled \subseteq Channel
  /\ Triggers \in [Channel -> SUBSET {"429", "5xx", "timeout"}]
ASSUME ConfigAssumption ==
  /\ RetryTimes \in Int /\ RetryTimeOut \in Nat /\ AffinityTTL \in Nat \ {0}
  /\ Failures \subseteq Outcome \ {"ok"} /\ RetryAfters \subseteq Nat \ {0}
  /\ AutoDisable \in BOOLEAN /\ MaxTime \in Nat
  /\ NoOutcome \notin Outcome \cup {"noChannel"}

VARIABLES
  now,        \* time.Now().Unix()
  enabled,    \* database: channels with status enabled
  cached,     \* the channels in group2model2channels
  snapshot,   \* what InitChannelCache has read and not published yet, or {NoChannel}
  cool,       \* cooldownStore, 0 where there is no entry
  sweep,      \* CleanupExpiredCooldown: the expired key it is about to delete
  affinity,   \* affinity.store
  req,        \* the handler of each request
  answer,     \* what its client has been answered
  reports,    \* running goroutines processChannelRelayError
  promised,   \* history: until when each channel asked to be left alone, per model
  failed,     \* history: channels that have failed a request
  earned      \* history: <<key, channel>> where the channel's last try as a first choice went well

store == <<enabled, cached, snapshot>>
history == <<promised, failed, earned>>
vars == <<now, store, cool, sweep, affinity, req, answer, reports, history>>

Pcs == {"idle", "verify", "unstick", "scan", "call", "decide", "again", "loop", "done"}
NoEntry == [ch |-> NoChannel, exp |-> 0]
ReqState == [pc: Pcs, ch: Channel \cup {NoChannel}, first: Channel \cup {NoChannel},
             backup: BOOLEAN, todo: SUBSET Channel, cand: SUBSET Channel, dels: SUBSET CoolKey,
             used: SUBSET Channel, left: Int, deadline: Nat,
             last: Outcome \cup {NoOutcome}]

TypeOK ==
  /\ now \in Nat
  /\ enabled \subseteq Channel /\ cached \subseteq Channel
  /\ snapshot \in (SUBSET Channel) \cup {{NoChannel}}
  /\ cool \in [CoolKey -> Nat] /\ sweep \in SUBSET CoolKey
  /\ affinity \in [Key -> [ch: Channel \cup {NoChannel}, exp: Nat]]
  /\ req \in [Request -> ReqState]
  /\ answer \in [Request -> Outcome \cup {NoOutcome, "noChannel"}]
  /\ reports \subseteq Request \X Channel
  /\ promised \in [CoolKey -> Nat] /\ failed \subseteq Channel
  /\ earned \subseteq Key \X Channel

Init ==
  /\ now = 0 /\ enabled = Channel /\ cached = Channel /\ snapshot = {NoChannel}
  /\ cool = [k \in CoolKey |-> 0] /\ sweep = {}
  /\ affinity = [k \in Key |-> NoEntry]
  /\ req = [r \in Request |-> [pc |-> "idle", ch |-> NoChannel, first |-> NoChannel,
       backup |-> FALSE, todo |-> {}, cand |-> {}, dels |-> {}, used |-> {},
       left |-> 0, deadline |-> 0, last |-> NoOutcome]]
  /\ answer = [r \in Request |-> NoOutcome]
  /\ reports = {}
  /\ promised = [k \in CoolKey |-> 0] /\ failed = {} /\ earned = {}

-----------------------------------------------------------------------------
Goto(r, pc) == req' = [req EXCEPT ![r].pc = pc]

Done(r, o) ==
  /\ Goto(r, "done")
  /\ answer' = [answer EXCEPT ![r] = o]

\* isCooldown of one key, IsChannelModelCooldown, and the key it finds expired: it
\* goes on to the model's key when the whole channel's is absent or deleted.
Running(k) == now < cool[k]
Expired(k) == cool[k] # 0 /\ now >= cool[k]
Cooling(c, m) == Running(<<c, AnyModel>>) \/ Running(<<c, m>>)
SeenExpired(c, m) ==
  CASE Expired(<<c, AnyModel>>) -> {<<c, AnyModel>>}
    [] ~Running(<<c, AnyModel>>) /\ Expired(<<c, m>>) -> {<<c, m>>}
    [] OTHER -> {}

Pool(g, m) == {c \in cached : <<g, m>> \in Serves[c]}
GroupNow(r, backup) == IF backup THEN BackupOf[r] ELSE GroupOf[r]

\* A mutant: nothing is excluded.
ScanAll(r, backup) ==
  req' = [req EXCEPT ![r].pc = "scan", ![r].backup = backup, ![r].cand = {},
                     ![r].todo = Pool(GroupNow(r, backup), ModelOf[r])]

\* Both pickers walk the cached list under a read lock; the excluded channels
\* are left out at once.
Scan(r, backup) ==
  req' = [req EXCEPT ![r].pc = "scan", ![r].backup = backup, ![r].cand = {},
                     ![r].todo = Pool(GroupNow(r, backup), ModelOf[r]) \ req[r].used]

-----------------------------------------------------------------------------
(***************************************************************************)
(* Distribute.                                                             *)
(***************************************************************************)
Arrive(r) ==
  LET e == affinity[KeyOf(r)] IN
  /\ req[r].pc = "idle" /\ r \notin Pinned
  /\ \/ e = NoEntry /\ Scan(r, FALSE)
     \/ e # NoEntry /\ now >= e.exp /\ Goto(r, "unstick")
     \/ e # NoEntry /\ now < e.exp /\ req' = [req EXCEPT ![r].pc = "verify", ![r].ch = e.ch]
  /\ UNCHANGED <<now, store, cool, sweep, affinity, answer, reports, history>>

ArrivePinned(r) ==
  /\ req[r].pc = "idle" /\ r \in Pinned
  /\ \E c \in Channel :
       \/ /\ c \in enabled /\ req' = [req EXCEPT ![r].pc = "call", ![r].ch = c]
          /\ UNCHANGED answer
       \/ c \notin enabled /\ Done(r, "noChannel")
  /\ UNCHANGED <<now, store, cool, sweep, affinity, reports, history>>

\* An affinity hit is used if the channel is enabled and not cooling down.
Verdict(c, m) ==
  CASE c \notin enabled \/ Cooling(c, m) -> "unstick"
    [] c \in enabled /\ ~Cooling(c, m) /\ Expired(<<c, AnyModel>>) -> "verify"
    [] OTHER -> "call"

Verify(r) ==
  LET c == req[r].ch IN
  /\ req[r].pc = "verify" /\ req[r].dels = {}
  /\ req' = [req EXCEPT ![r].pc = Verdict(c, ModelOf[r]),
                        ![r].dels = IF c \in enabled THEN SeenExpired(c, ModelOf[r]) ELSE {}]
  /\ UNCHANGED <<now, store, cool, sweep, affinity, answer, reports, history>>

Unstick(r) ==
  /\ req[r].pc = "unstick" /\ req[r].dels = {}
  /\ affinity' = [affinity EXCEPT ![KeyOf(r)] = NoEntry]
  /\ Scan(r, FALSE)
  /\ UNCHANGED <<now, store, cool, sweep, answer, reports, history>>

(***************************************************************************)
(* CacheGetRandomSatisfiedChannel and, once a channel has failed,          *)
(* CachePickFallbackChannel: look at the channels one by one, then choose. *)
(***************************************************************************)
\* A mutant: a channel may serve as a fallback without consent.
EligibleAnyway(r, c) == ~Cooling(c, ModelOf[r])

Eligible(r, c) ==
  /\ ~Cooling(c, ModelOf[r])
  /\ req[r].used # {} => c \in FallbackEnabled

Look(r) ==
  /\ req[r].pc = "scan" /\ req[r].dels = {}
  /\ \E c \in req[r].todo :
       LET again == Expired(<<c, AnyModel>>) IN
       req' = [req EXCEPT ![r].dels = SeenExpired(c, ModelOf[r]),
                          ![r].todo = IF again THEN @ ELSE @ \ {c},
                          ![r].cand = IF ~again /\ Eligible(r, c) THEN @ \cup {c} ELSE @]
  /\ UNCHANGED <<now, store, cool, sweep, affinity, answer, reports, history>>

\* isCooldown deletes the expired key it has read, whatever it holds by now.
Forget(r) ==
  /\ \E k \in req[r].dels :
       /\ cool' = [cool EXCEPT ![k] = 0]
       /\ req' = [req EXCEPT ![r].dels = @ \ {k}]
  /\ UNCHANGED <<now, store, sweep, affinity, answer, reports, history>>

ScanOver(r) == req[r].pc = "scan" /\ req[r].dels = {} /\ req[r].todo = {}

\* The candidates of the highest priority, or all of them if that is not positive.
Top(cs) ==
  LET best == {c \in cs : \A d \in cs : Priority[c] >= Priority[d]} IN
  IF \E c \in best : Priority[c] > 0 THEN best ELSE cs

Choose(r) ==
  /\ ScanOver(r)
  /\ \E c \in Top(req[r].cand) : req' = [req EXCEPT ![r].pc = "call", ![r].ch = c]
  /\ UNCHANGED <<now, store, cool, sweep, affinity, answer, reports, history>>

\* A mutant: the backup group is forgotten.
ExhaustedNoBackup(r) ==
  /\ ScanOver(r) /\ req[r].cand = {}
  /\ Done(r, IF req[r].used = {} THEN "noChannel" ELSE req[r].last)
  /\ UNCHANGED <<now, store, cool, sweep, affinity, reports, history>>

\* A mutant: wait for a channel to become available again.
ExhaustedRetry(r) ==
  /\ ScanOver(r) /\ req[r].cand = {} /\ req[r].used # {}
  /\ Goto(r, "loop")
  /\ UNCHANGED <<now, store, cool, sweep, affinity, answer, reports, history>>

\* The distributor has no second try; the fallback has the backup group.
Exhausted(r) ==
  /\ ScanOver(r) /\ req[r].cand = {}
  /\ \/ req[r].used = {} /\ Done(r, "noChannel")
     \/ /\ req[r].used # {} /\ ~req[r].backup /\ BackupOf[r] # NoGroup
        /\ Scan(r, TRUE) /\ UNCHANGED answer
     \/ /\ req[r].used # {} /\ (req[r].backup \/ BackupOf[r] = NoGroup)
        /\ Done(r, req[r].last)
  /\ UNCHANGED <<now, store, cool, sweep, affinity, reports, history>>

-----------------------------------------------------------------------------
(***************************************************************************)
(* Relay.                                                                  *)
(***************************************************************************)
First(r) == req[r].used = {}

\* relayHelper returns no error.  Only a first choice is remembered.
Succeed(r) ==
  LET c == req[r].ch IN
  /\ req[r].pc = "call" /\ req[r].dels = {}
  /\ req' = [req EXCEPT ![r].pc = "done", ![r].used = @ \cup {c}, ![r].last = "ok"]
  /\ answer' = [answer EXCEPT ![r] = "ok"]
  /\ affinity' = IF First(r)
       THEN [affinity EXCEPT ![KeyOf(r)] = [ch |-> c, exp |-> now + AffinityTTL]]
       ELSE affinity
  /\ earned' = IF First(r) THEN earned \cup {<<KeyOf(r), c>>} ELSE earned
  /\ UNCHANGED <<now, store, cool, sweep, reports, promised, failed>>

\* A mutant: the cooldown ends before it begins.
SoftBanPast(c, m, s) ==
  IF s > 0 THEN [cool EXCEPT ![<<c, AnyModel>>] = now - s, ![<<c, m>>] = now - s] ELSE cool

\* SoftBanFromError: the whole channel and the model, on a 429 with Retry-After only.
SoftBan(c, m, s) ==
  IF s > 0 THEN [cool EXCEPT ![<<c, AnyModel>>] = now + s, ![<<c, m>>] = now + s] ELSE cool

\* What a failure changes whatever becomes of the affinity.
Failed(r, o, s) ==
  LET c == req[r].ch IN
  /\ req[r].pc = "call" /\ req[r].dels = {}
  /\ o # "429" => s = 0
  /\ req' = [req EXCEPT ![r].pc = IF First(r) THEN "decide" ELSE "again",
                        ![r].first = IF First(r) THEN c ELSE @,
                        ![r].used = @ \cup {c}, ![r].last = o]
  /\ cool' = SoftBan(c, ModelOf[r], s)
  /\ reports' = IF AutoDisable THEN reports \cup {<<r, c>>} ELSE reports
  /\ promised' = IF s > 0 THEN [promised EXCEPT ![<<c, ModelOf[r]>>] = now + s] ELSE promised
  /\ failed' = failed \cup {c}
  /\ earned' = IF First(r) THEN earned \ {<<KeyOf(r), c>>} ELSE earned
  /\ UNCHANGED <<now, store, sweep, answer>>

\* A mutant: the affinity outlives the failure.
FailSticky(r, o, s) == Failed(r, o, s) /\ UNCHANGED affinity

\* relayHelper returns an error: forget the affinity of a first choice, report
\* the error, cool the channel down.
Fail(r, o, s) ==
  /\ Failed(r, o, s)
  /\ affinity' = IF First(r) THEN [affinity EXCEPT ![KeyOf(r)] = NoEntry] ELSE affinity

\* A failed connection is a status 500 to ClassifyError.
Classify(o) == CASE o = "429" -> "429" [] o \in {"5xx", "net"} -> "5xx" [] OTHER -> ""

TriggerMatch(c, t) == Triggers[c] = {} \/ t \in Triggers[c]
ShouldFallback(c, t) == c \in FallbackEnabled /\ t # "" /\ TriggerMatch(c, t)

\* After the first error.
Decide(r) ==
  /\ req[r].pc = "decide"
  /\ IF ShouldFallback(req[r].first, Classify(req[r].last)) /\ RetryTimes > 0
     THEN /\ req' = [req EXCEPT ![r].pc = "loop", ![r].left = RetryTimes,
                                ![r].deadline = now + RetryTimeOut]
          /\ UNCHANGED answer
     ELSE Done(r, req[r].last)
  /\ UNCHANGED <<now, store, cool, sweep, affinity, reports, history>>

\* After an error in the loop: the channel's own triggers are not asked.
Again(r) ==
  /\ req[r].pc = "again"
  /\ IF Classify(req[r].last) # ""
     THEN /\ req' = [req EXCEPT ![r].pc = "loop", ![r].left = @ - 1]
          /\ UNCHANGED answer
     ELSE Done(r, req[r].last)
  /\ UNCHANGED <<now, store, cool, sweep, affinity, reports, history>>

Loop(r) ==
  /\ req[r].pc = "loop"
  /\ IF req[r].left > 0 /\ now <= req[r].deadline
     THEN Scan(r, FALSE) /\ UNCHANGED answer
     ELSE Done(r, req[r].last)
  /\ UNCHANGED <<now, store, cool, sweep, affinity, reports, history>>

-----------------------------------------------------------------------------
\* processChannelRelayError: the error, or the metric it is counted in, may
\* disable the channel.
Report(r, c) ==
  /\ <<r, c>> \in reports
  /\ reports' = reports \ {<<r, c>>}
  /\ enabled' \in {enabled, enabled \ {c}}
  /\ UNCHANGED <<now, cached, snapshot, cool, sweep, affinity, req, answer, history>>

\* EnableChannel, by a channel test or an administrator.
Reenable(c) ==
  /\ c \notin enabled
  /\ enabled' = enabled \cup {c}
  /\ UNCHANGED <<now, cached, snapshot, cool, sweep, affinity, req, answer, reports, history>>

\* InitChannelCache reads the enabled channels and publishes them under the
\* write lock, which waits for the pickers.
SyncRead ==
  /\ snapshot = {NoChannel}
  /\ snapshot' = enabled
  /\ UNCHANGED <<now, enabled, cached, cool, sweep, affinity, req, answer, reports, history>>

SyncPublish ==
  /\ snapshot # {NoChannel}
  /\ \A r \in Request : req[r].pc # "scan"
  /\ cached' = snapshot /\ snapshot' = {NoChannel}
  /\ UNCHANGED <<now, enabled, cool, sweep, affinity, req, answer, reports, history>>

\* CleanupExpiredCooldown visits a key and deletes it if what it read is over.
SweepLook ==
  /\ sweep = {}
  /\ \E k \in CoolKey : Expired(k) /\ sweep' = {k}
  /\ UNCHANGED <<now, store, cool, affinity, req, answer, reports, history>>

SweepForget ==
  /\ \E k \in sweep : cool' = [cool EXCEPT ![k] = 0]
  /\ sweep' = {}
  /\ UNCHANGED <<now, store, affinity, req, answer, reports, history>>

\* affinity.Cleanup, in one step for an entry: losing a fresh one costs nothing.
CleanupAffinity ==
  /\ \E k \in Key :
       /\ affinity[k] # NoEntry /\ now >= affinity[k].exp
       /\ affinity' = [affinity EXCEPT ![k] = NoEntry]
  /\ UNCHANGED <<now, store, cool, sweep, req, answer, reports, history>>

Tick ==
  /\ now < MaxTime
  /\ now' = now + 1
  /\ UNCHANGED <<store, cool, sweep, affinity, req, answer, reports, history>>

Handler(r) ==
  \/ Arrive(r) \/ ArrivePinned(r) \/ Verify(r) \/ Unstick(r)
  \/ Look(r) \/ Forget(r) \/ Choose(r) \/ Exhausted(r)
  \/ Succeed(r) \/ \E o \in Failures, s \in RetryAfters \cup {0} : Fail(r, o, s)
  \/ Decide(r) \/ Again(r) \/ Loop(r)

World ==
  \/ \E r \in Request, c \in Channel : Report(r, c)
  \/ \E c \in Channel : Reenable(c)
  \/ SyncRead \/ SyncPublish \/ SweepLook \/ SweepForget \/ CleanupAffinity \/ Tick

Next == World \/ \E r \in Request : Handler(r)

Spec == Init /\ [][Next]_vars

\* A handler goes on, and an upstream call returns (with RELAY_TIMEOUT set, the
\* HTTP client gives up after it); nothing else has to happen.
FairSpec == Spec /\ \A r \in Request : WF_vars(Handler(r))
=============================================================================
