----------------------------- MODULE TokenAccess -----------------------------
(***************************************************************************)
(* TokenAuth, and what changes the tokens it looks at.  With Redis a token *)
(* and its user's status are read through a cache of so many seconds; a    *)
(* miss reads the database in one step and stores in another.  The owner's *)
(* UpdateToken reads the row and writes its columns back.  The user is     *)
(* disabled by another process, whose blacklist this one does not share.   *)
(***************************************************************************)
EXTENDS Integers, FiniteSets

CONSTANTS
  Call,                   \* requests at the same time
  TokenMixes,
  CacheSeconds,           \* TokenCacheSeconds, UserId2StatusCacheSeconds
  MaxRemain, MaxCalls, MaxTime    \* bounds

Never == -1
TokenStatus == {"enabled", "disabled", "expired", "exhausted"}
\* A token that is deleted has no row.
Deleted == [status |-> "disabled", expired |-> Never, remain |-> 0, unlimited |-> FALSE, there |-> FALSE]
TokenRow == [status: TokenStatus, expired: Int, remain: Int, unlimited: BOOLEAN, there: BOOLEAN]

ASSUME TokenAccessAssumption == {CacheSeconds, MaxRemain, MaxCalls, MaxTime} \subseteq Nat

VARIABLES
  redis,        \* common.RedisEnabled
  tokenMix,
  now,          \* helper.GetTimestamp
  token,        \* a row of table tokens
  enabled,      \* the status of its user
  cache,        \* Redis: the token's and the user's entry, with the time they go
  call,         \* the handlers
  calls,
  owed,         \* history: remain_quota as set by the owner and debited
  undone,       \* history: a handler held a copy of the row while it was debited
  offSince,     \* history: since when the token, and its user, cannot be used
  filling       \* history: which of them turned while a handler was about to store it

accessVars == <<redis, tokenMix, now, token, enabled, cache, call, calls, owed, undone, offSince, filling>>
accessHistory == <<owed, undone, offSince, filling>>

CallState == [pc: {"idle", "store", "check", "mark", "user", "storeUser", "decide", "save"},
              row: TokenRow, ok: BOOLEAN, since: Nat]
AtEase == [pc |-> "idle", row |-> Deleted, ok |-> FALSE, since |-> 0]

AccessTypeOK ==
  /\ redis \in BOOLEAN /\ tokenMix \in TokenMixes /\ now \in 0..MaxTime /\ calls \in 0..MaxCalls
  /\ token \in TokenRow /\ token.remain <= MaxRemain
  /\ enabled \in BOOLEAN
  /\ cache \in [token: [row: TokenRow, until: 0..(MaxTime + CacheSeconds)],
               user: [ok: BOOLEAN, until: 0..(MaxTime + CacheSeconds)]]
  /\ call \in [Call -> CallState]
  /\ owed \in Int /\ undone \in BOOLEAN
  /\ offSince \in [{"token", "user"} -> Int] /\ filling \subseteq {"token", "user"}

AccessInit ==
  /\ redis \in BOOLEAN /\ tokenMix \in TokenMixes
  /\ now = 0 /\ calls = 0
  /\ token = [status |-> "enabled", expired |-> Never, remain |-> MaxRemain, unlimited |-> FALSE, there |-> TRUE]
  /\ enabled = TRUE
  /\ cache = [token |-> [row |-> Deleted, until |-> 0], user |-> [ok |-> FALSE, until |-> 0]]
  /\ call = [h \in Call |-> AtEase]
  /\ owed = MaxRemain /\ undone = FALSE /\ filling = {}
  /\ offSince = [what \in {"token", "user"} |-> Never]

-----------------------------------------------------------------------------
Hit(entry) == redis /\ now < entry.until

Calls(h, op) ==
  /\ call[h].pc = "idle" /\ op \in tokenMix
  /\ calls < MaxCalls /\ calls' = calls + 1
At(h, pc) == call' = [call EXCEPT ![h].pc = pc]
Ends(h) == call' = [call EXCEPT ![h] = AtEase]

Expired(row, t) == row.expired # Never /\ row.expired < t
Exhausted(row) == ~row.unlimited /\ row.remain <= 0
Usable(row, t) == row.there /\ row.status = "enabled" /\ ~Expired(row, t) /\ ~Exhausted(row)

\* The database no longer, or again, lets the token and its user in.
Turns(row, on, t) ==
  LET since(what, good) == IF good THEN Never ELSE IF offSince[what] = Never THEN t ELSE offSince[what]
      late(what, pc, good) ==
        IF ~good /\ offSince[what] = Never /\ \E h \in Call : call[h].pc = pc THEN {what} ELSE {}
  IN
  /\ offSince' = [token |-> since("token", Usable(row, t)), user |-> since("user", on)]
  /\ filling' = filling \cup late("token", "store", Usable(row, t)) \cup late("user", "storeUser", on)

(* CacheGetTokenByKey.                                                     *)
GetToken(h) ==
  /\ Calls(h, "call")
  /\ LET seen == IF Hit(cache.token) THEN cache.token.row ELSE token IN
     call' = [call EXCEPT ![h] =
       [AtEase EXCEPT !.pc = IF redis /\ ~Hit(cache.token) /\ token.there THEN "store" ELSE "check",
                      !.row = seen, !.since = now]]
  /\ UNCHANGED <<redis, tokenMix, now, token, enabled, cache, accessHistory>>

\* A mutant: the entry is stored without a time to live.
StoreForever(h) ==
  /\ call[h].pc = "store"
  /\ cache' = [cache EXCEPT !.token = [row |-> call[h].row, until |-> MaxTime + CacheSeconds + 1]]
  /\ At(h, "check")
  /\ UNCHANGED <<redis, tokenMix, now, token, enabled, calls, accessHistory>>

StoreToken(h) ==
  /\ call[h].pc = "store"
  /\ cache' = [cache EXCEPT !.token = [row |-> call[h].row, until |-> now + CacheSeconds]]
  /\ At(h, "check")
  /\ UNCHANGED <<redis, tokenMix, now, token, enabled, calls, accessHistory>>

\* ValidateUserToken: without Redis, what is found expired or exhausted is marked so.
CheckToken(h) ==
  LET row == call[h].row
      found == IF Expired(row, now) THEN {"expired"} ELSE IF Exhausted(row) THEN {"exhausted"} ELSE {}
  IN
  /\ call[h].pc = "check"
  /\ \/ ~row.there \/ row.status # "enabled" \/ (found # {} /\ redis)
     => Ends(h)
  /\ row.there /\ row.status = "enabled" /\ ~(found # {} /\ redis)
     => call' = [call EXCEPT ![h].pc = IF found = {} THEN "user" ELSE "mark",
                             ![h].row.status = IF found = {} THEN @ ELSE CHOOSE s \in found : TRUE]
  /\ UNCHANGED <<redis, tokenMix, now, token, enabled, cache, calls, accessHistory>>

\* SelectUpdate writes the status found on a row that was read before.
MarkToken(h) ==
  /\ call[h].pc = "mark"
  /\ token' = IF token.there THEN [token EXCEPT !.status = call[h].row.status] ELSE token
  /\ Turns(token', enabled, now)
  /\ Ends(h)
  /\ UNCHANGED <<redis, tokenMix, now, enabled, cache, calls, owed, undone>>

(* CacheIsUserEnabled.                                                     *)
GetUser(h) ==
  /\ call[h].pc = "user"
  /\ call' = [call EXCEPT ![h].pc = IF redis /\ ~Hit(cache.user) THEN "storeUser" ELSE "decide",
                          ![h].ok = IF Hit(cache.user) THEN cache.user.ok ELSE enabled]
  /\ UNCHANGED <<redis, tokenMix, now, token, enabled, cache, calls, accessHistory>>

StoreUser(h) ==
  /\ call[h].pc = "storeUser"
  /\ cache' = [cache EXCEPT !.user = [ok |-> call[h].ok, until |-> now + CacheSeconds]]
  /\ At(h, "decide")
  /\ UNCHANGED <<redis, tokenMix, now, token, enabled, calls, accessHistory>>

\* The rest of TokenAuth; what follows is RelayFallback and QuotaLedger.
Admits(h) == call[h].pc = "decide" /\ call[h].ok
Decide(h) ==
  /\ call[h].pc = "decide"
  /\ Ends(h)
  /\ UNCHANGED <<redis, tokenMix, now, token, enabled, cache, calls, accessHistory>>

-----------------------------------------------------------------------------
\* PreConsumeTokenQuota, PostConsumeTokenQuota: one statement, after a read that says that
\* the token is not unlimited.
Copied == \E h \in Call : call[h].pc = "save"
Debit(h) ==
  \E amount \in {-1, 1} :
    /\ Calls(h, "debit")
    /\ token.there /\ token.remain + amount \in -1..MaxRemain /\ owed + amount \in -1..MaxRemain
    /\ token' = [token EXCEPT !.remain = @ + amount]
    /\ owed' = owed + amount
    /\ undone' = (undone \/ Copied)
    /\ Turns(token', enabled, now)
    /\ UNCHANGED <<redis, tokenMix, now, enabled, cache, call>>

\* A mutant: the row written is the one the client sent, its quota too.
UpdatedBlank(row, body) == IF body.kind = "status" THEN [row EXCEPT !.status = body.status, !.remain = 0]
                           ELSE [row EXCEPT !.remain = body.remain, !.expired = body.expired,
                                       !.unlimited = body.unlimited]

\* UpdateToken: a status, or the other columns.
Updated(row, body) == IF body.kind = "status" THEN [row EXCEPT !.status = body.status]
                      ELSE [row EXCEPT !.remain = body.remain, !.expired = body.expired,
                                       !.unlimited = body.unlimited]

TokenBody ==
  [kind: {"status"}, status: {"enabled", "disabled"}, remain: {0}, expired: {Never}, unlimited: {FALSE}] \cup
  [kind: {"columns"}, status: {"disabled"}, remain: {MaxRemain}, expired: {Never, 1}, unlimited: BOOLEAN]

\* What is expired or exhausted is not enabled.
Refused(row, body) ==
  /\ body.status = "enabled"
  /\ (row.status = "expired" /\ row.expired <= now /\ row.expired # Never)
     \/ (row.status = "exhausted" /\ Exhausted(row))

ReadToUpdate(h) ==
  \E body \in TokenBody :
    /\ Calls(h, "update")
    /\ token.there /\ ~Refused(token, body)
    /\ call' = [call EXCEPT ![h] = [AtEase EXCEPT !.pc = "save", !.row = Updated(token, body),
                                                  !.ok = (body.kind = "columns")]]
    /\ UNCHANGED <<redis, tokenMix, now, token, enabled, cache, accessHistory>>

SaveToken(h) ==
  /\ call[h].pc = "save"
  /\ token' = IF token.there THEN call[h].row ELSE token
  /\ owed' = IF token.there /\ call[h].ok THEN call[h].row.remain ELSE owed
  /\ undone' = (undone \/ \E k \in Call \ {h} : call[k].pc = "save")
  /\ Turns(token', enabled, now)
  /\ Ends(h)
  /\ UNCHANGED <<redis, tokenMix, now, enabled, cache, calls>>

DeleteToken(h) ==
  /\ Calls(h, "delete")
  /\ token.there /\ token' = Deleted /\ owed' = 0
  /\ Turns(token', enabled, now)
  /\ UNCHANGED <<redis, tokenMix, now, enabled, cache, call, undone>>

\* An administrator on another process disables or enables the user.
SwitchUser(h) ==
  /\ Calls(h, "user")
  /\ enabled' = ~enabled
  /\ Turns(token, enabled', now)
  /\ UNCHANGED <<redis, tokenMix, now, token, cache, call, owed, undone>>

Second ==
  /\ now < MaxTime /\ now' = now + 1
  /\ Turns(token, enabled, now')
  /\ UNCHANGED <<redis, tokenMix, token, enabled, cache, call, calls, owed, undone>>

AccessNext ==
  \/ \E h \in Call :
       \/ GetToken(h) \/ StoreToken(h) \/ CheckToken(h) \/ MarkToken(h)
       \/ GetUser(h) \/ StoreUser(h) \/ Decide(h)
       \/ Debit(h) \/ ReadToUpdate(h) \/ SaveToken(h) \/ DeleteToken(h) \/ SwitchUser(h)
  \/ Second

AccessSpec == AccessInit /\ [][AccessNext]_accessVars

-----------------------------------------------------------------------------
\* A call is let in only if the database would have let its token and its user in not
\* longer ago than an entry of the cache lives, counted from the call's arrival; or one
\* of them was turned off while a handler was between reading and storing it.
StaleAtMost ==
  LET lag == IF redis THEN CacheSeconds ELSE 0 IN
  \A h \in Call, what \in {"token", "user"} :
    Admits(h) /\ offSince[what] # Never =>
      \/ call[h].since <= offSince[what] \/ call[h].since < offSince[what] + lag
      \/ what \in filling

\* The quota of a token is what its owner set and its calls debited, unless UpdateToken
\* held a copy of the row while it was debited: even a change of its status alone then
\* writes the old quota back.
RemainKept == token.there /\ ~undone => token.remain = owed
=============================================================================
