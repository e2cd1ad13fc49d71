------------------------------ MODULE RateLimit ------------------------------
(***************************************************************************)
(* middleware.rateLimitFactory: at start-up each limit picks one of two    *)
(* limiters.  The one in memory (common.InMemoryRateLimiter) decides and   *)
(* records under a mutex and forgets idle clients; the one in Redis sends  *)
(* its commands one by one, so that handlers interleave between them.      *)
(* A client is a limit's mark with an IP address.                          *)
(***************************************************************************)
EXTENDS Integers, Sequences, FiniteSets

CONSTANTS
  Client,
  Handler,              \* requests that are in the middleware at the same time
  MaxRequestNum, Duration,
  Expiration,           \* RateLimitKeyExpirationDuration, in seconds
  MaxClock              \* bound of the clock

\* A limit of zero is no limit; the expiration "shouldn't" be shorter than the
\* duration (common/config/config.go).
ASSUME LimitAssumption ==
  /\ MaxRequestNum \in Nat \ {0} /\ Duration \in Nat
  /\ Expiration \in Nat /\ Duration <= Expiration
  /\ MaxClock \in Nat

VARIABLES
  redisEnabled,   \* common.RedisEnabled
  clock,          \* time.Now().Unix()
  queue,          \* InMemoryRateLimiter.store, oldest first; a nil entry is {}
  list,           \* Redis: the list of each key, newest first
  expireAt,       \* Redis: when the key goes, 0 without EXPIRE
  thread,         \* the Redis limiter of each handler
  verdict,        \* history: the last answer each client got
  admitted        \* history: when each client's requests were let through

limitVars == <<redisEnabled, clock, queue, list, expireAt, thread, verdict, admitted>>
redisVars == <<list, expireAt, thread>>

Verdicts == {"none", "ok", "429", "500"}
\* The command a Redis limiter sends next.
Commands == {"idle", "index", "push", "slide", "trim", "expire", "refuse"}

LimitTypeOK ==
  /\ redisEnabled \in BOOLEAN
  /\ clock \in Nat
  /\ queue \in [Client -> [stored: BOOLEAN, at: Seq(Nat)]]
  /\ list \in [Client -> Seq(Nat)]
  /\ expireAt \in [Client -> Nat]
  /\ thread \in [Handler -> [pc: Commands, key: Client]]
  /\ verdict \in [Client -> Verdicts]
  /\ admitted \in [Client -> Seq(Nat)]

NoQueue == [stored |-> FALSE, at |-> <<>>]

LimitInit ==
  /\ redisEnabled \in BOOLEAN
  /\ clock = 0
  /\ queue = [k \in Client |-> NoQueue]
  /\ list = [k \in Client |-> <<>>]
  /\ expireAt = [k \in Client |-> 0]
  /\ thread \in [Handler -> {[pc |-> "idle", key |-> k] : k \in Client}]
  /\ verdict = [k \in Client |-> "none"]
  /\ admitted = [k \in Client |-> <<>>]

Answer(k, v) == verdict' = [verdict EXCEPT ![k] = v]
LetThrough(k) == admitted' = [admitted EXCEPT ![k] = Append(@, clock)]

-----------------------------------------------------------------------------
(* The limiter in memory: Request and clearExpiredItems hold the mutex.    *)

\* A mutant: the window is a second short.
MayPassEarly(k) ==
  LET q == queue[k].at IN
  Len(q) >= MaxRequestNum => clock - q[1] >= Duration - 1

\* Room in the queue, or its oldest entry has left the window.
MayPass(k) ==
  LET q == queue[k].at IN
  Len(q) >= MaxRequestNum => clock - q[1] >= Duration

Record(k) ==
  LET q == queue[k].at IN
  queue' = [queue EXCEPT ![k] =
    [stored |-> TRUE,
     at |-> Append(IF Len(q) < MaxRequestNum THEN q ELSE Tail(q), clock)]]

Request(k) ==
  /\ ~redisEnabled
  /\ \/ /\ MayPass(k)
        /\ Record(k) /\ LetThrough(k) /\ Answer(k, "ok")
     \/ /\ ~MayPass(k)
        /\ Answer(k, "429")
        /\ UNCHANGED <<queue, admitted>>
  /\ UNCHANGED <<redisEnabled, clock, redisVars>>

\* A mutant: an entry goes when its oldest request has expired.
IdleByFirst(k) ==
  /\ queue[k].stored
  /\ clock - queue[k].at[1] > Expiration - 1

Idle(k) ==
  /\ queue[k].stored
  /\ clock - queue[k].at[Len(queue[k].at)] > Expiration

clearExpiredItems ==
  /\ ~redisEnabled
  /\ queue' = [k \in Client |-> IF Idle(k) THEN NoQueue ELSE queue[k]]
  /\ UNCHANGED <<redisEnabled, clock, redisVars, verdict, admitted>>

-----------------------------------------------------------------------------
(* The limiter in Redis, one action per command.  A command that fails is  *)
(* not modelled.                                                           *)
Send(h, pc) == thread' = [thread EXCEPT ![h].pc = pc]

RedisLLen(h) ==
  \E k \in Client :
    /\ redisEnabled /\ thread[h].pc = "idle"
    /\ thread' = [thread EXCEPT ![h] =
         [pc |-> IF Len(list[k]) < MaxRequestNum THEN "push" ELSE "index", key |-> k]]
    /\ UNCHANGED <<redisEnabled, clock, queue, list, expireAt, verdict, admitted>>

\* A key that has gone since LLEN gives an empty time, which does not parse.
RedisLIndex(h) ==
  LET k == thread[h].key IN
  /\ thread[h].pc = "index"
  /\ IF list[k] = <<>>
     THEN Send(h, "idle") /\ Answer(k, "500")
     ELSE /\ Send(h, IF clock - list[k][Len(list[k])] < Duration THEN "refuse" ELSE "slide")
          /\ UNCHANGED verdict
  /\ UNCHANGED <<redisEnabled, clock, queue, list, expireAt, admitted>>

RedisLPush(h) ==
  LET k == thread[h].key IN
  /\ thread[h].pc \in {"push", "slide"}
  /\ list' = [list EXCEPT ![k] = <<clock>> \o @]
  /\ LetThrough(k)
  /\ Send(h, IF thread[h].pc = "push" THEN "expire" ELSE "trim")
  /\ UNCHANGED <<redisEnabled, clock, queue, expireAt, verdict>>

\* A mutant: the list is not trimmed, and its oldest entry gets older and older.
RedisLTrimNothing(h) ==
  /\ thread[h].pc = "trim"
  /\ Send(h, "expire")
  /\ UNCHANGED <<redisEnabled, clock, queue, list, expireAt, verdict, admitted>>

RedisLTrim(h) ==
  LET k == thread[h].key IN
  /\ thread[h].pc = "trim"
  /\ list' = [list EXCEPT ![k] = SubSeq(@, 1, IF Len(@) < MaxRequestNum THEN Len(@) ELSE MaxRequestNum)]
  /\ Send(h, "expire")
  /\ UNCHANGED <<redisEnabled, clock, queue, expireAt, verdict, admitted>>

RedisExpire(h) ==
  LET k == thread[h].key IN
  /\ thread[h].pc \in {"expire", "refuse"}
  /\ expireAt' = [expireAt EXCEPT ![k] = IF list[k] = <<>> THEN @ ELSE clock + Expiration]
  /\ Answer(k, IF thread[h].pc = "expire" THEN "ok" ELSE "429")
  /\ Send(h, "idle")
  /\ UNCHANGED <<redisEnabled, clock, queue, list, admitted>>

-----------------------------------------------------------------------------
\* A key whose time has come is gone from Redis.
Gone(k) == expireAt[k] # 0 /\ clock + 1 >= expireAt[k]
LimitTick ==
  /\ clock < MaxClock /\ clock' = clock + 1
  /\ list' = [k \in Client |-> IF Gone(k) THEN <<>> ELSE list[k]]
  /\ expireAt' = [k \in Client |-> IF Gone(k) THEN 0 ELSE expireAt[k]]
  /\ UNCHANGED <<redisEnabled, queue, thread, verdict, admitted>>

LimitNext ==
  \/ LimitTick
  \/ clearExpiredItems
  \/ \E k \in Client : Request(k)
  \/ \E h \in Handler : RedisLLen(h) \/ RedisLIndex(h) \/ RedisLPush(h) \/ RedisLTrim(h) \/ RedisExpire(h)

LimitSpec == LimitInit /\ [][LimitNext]_limitVars

-----------------------------------------------------------------------------
(* In any `Duration` seconds at most MaxRequestNum + more requests pass.   *)
AtMost(k, more) ==
  LET s == admitted[k] IN
  \A i \in 1..(Len(s) - MaxRequestNum - more) : s[i + MaxRequestNum + more] - s[i] >= Duration

\* The limiter in memory lets at most MaxRequestNum requests of a client through
\* in any window, although it forgets the requests of a client that has been idle.
WindowLimit == ~redisEnabled => \A k \in Client : AtMost(k, 0)

\* The limiter in Redis may overrun, each handler by two requests at most: one that
\* has read the length or the oldest entry before the window fills up, and one that
\* pushes before it renews a key which then expires.
BoundedOverrun ==
  redisEnabled => \A k \in Client : AtMost(k, 2 * Cardinality(Handler) - 1)

Window == INSTANCE SlidingWindow
\* The limiter in memory answers as the sliding window over everything the client
\* was ever allowed: forgetting idle clients and keeping MaxRequestNum times changes
\* no answer.
AnswersAsWindow ==
  [][~redisEnabled => [Window!Next]_<<clock, admitted, verdict>>]_limitVars
=============================================================================
