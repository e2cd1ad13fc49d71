--------------------------- MODULE RateLimitProofs ---------------------------
(***************************************************************************)
(* The limiter in memory answers as the sliding window over everything a   *)
(* client was ever allowed, for all limits, durations and clients.  The    *)
(* queue alone does not show it: the invariant says how the queue stands   *)
(* to the requests it has forgotten.                                       *)
(***************************************************************************)
EXTENDS RateLimit, SequenceTheorems, FiniteSetTheorems, TLAPS

\* The queue holds the latest requests ...
EndOf(q, a) ==
  /\ Len(q) <= MaxRequestNum /\ Len(q) <= Len(a)
  /\ \A i \in 1..Len(q) : q[i] = a[Len(a) - Len(q) + i]

\* ... times never go back ...
InOrder(a) ==
  /\ \A i \in 1..Len(a) : a[i] <= clock
  /\ \A i, j \in 1..Len(a) : i <= j => a[i] <= a[j]

\* ... and what a queue that is not full does not hold had expired when it began anew.
AllExpired(q, a) ==
  Len(q) < MaxRequestNum /\ Len(q) < Len(a) =>
    IF q = <<>> THEN clock - a[Len(a)] > Expiration
                ELSE q[1] - a[Len(a) - Len(q)] > Expiration

KeptInMind(k) ==
  LET q == queue[k].at  a == admitted[k] IN
  /\ queue[k].stored <=> q # <<>>
  /\ EndOf(q, a) /\ InOrder(a) /\ AllExpired(q, a)
  /\ AtMost(k, 0)

MemoryInv ==
  ~redisEnabled =>
    /\ \A h \in Handler : thread[h].pc = "idle"
    /\ \A k \in Client : KeptInMind(k)

LimitInv == LimitTypeOK /\ MemoryInv

-----------------------------------------------------------------------------
\* The queue decides as the whole history does.
LEMMA QueueDecides ==
  ASSUME NEW q \in Seq(Nat), NEW a \in Seq(Nat), clock \in Nat,
         EndOf(q, a), InOrder(a), AllExpired(q, a)
  PROVE  (Len(q) >= MaxRequestNum => clock - q[1] >= Duration) <=>
         (Len(a) >= MaxRequestNum => clock - a[Len(a) - MaxRequestNum + 1] >= Duration)
<1>1. /\ MaxRequestNum \in Nat \ {0}
      /\ Duration \in Nat /\ Expiration \in Nat /\ Duration <= Expiration
  BY LimitAssumption
<1>2. /\ Len(q) \in Nat /\ Len(a) \in Nat
      /\ \A i \in 1..Len(q) : q[i] \in Nat
      /\ \A i \in 1..Len(a) : a[i] \in Nat
  OBVIOUS
<1>3. CASE Len(q) >= MaxRequestNum
  <2>1. Len(q) = MaxRequestNum /\ Len(a) >= MaxRequestNum /\ 1 \in 1..Len(q)
    BY <1>1, <1>2, <1>3 DEF EndOf
  <2>2. q[1] = a[Len(a) - Len(q) + 1]
    BY <2>1 DEF EndOf
  <2>3. q[1] = a[Len(a) - MaxRequestNum + 1]
    BY <2>1, <2>2
  <2> QED BY <1>1, <1>2, <2>1, <2>3
<1>4. CASE Len(q) < MaxRequestNum
  <2>1. ASSUME Len(a) >= MaxRequestNum
        PROVE  clock - a[Len(a) - MaxRequestNum + 1] >= Duration
    <3> DEFINE i == Len(a) - MaxRequestNum + 1
               l == Len(a) - Len(q)
    <3>1. /\ i \in 1..Len(a) /\ l \in 1..Len(a) /\ i <= l
          /\ Len(q) < Len(a)
      BY <1>1, <1>2, <1>4, <2>1
    <3>2. Len(q) = 0 => l = Len(a)
      BY <1>2
    <3>3. Len(q) >= 1 => l + 1 \in 1..Len(a) /\ l + 1 = Len(a) - Len(q) + 1 /\ 1 \in 1..Len(q)
      BY <1>2, <3>1
    <3>4. IF q = <<>> THEN clock - a[Len(a)] > Expiration ELSE q[1] - a[l] > Expiration
      BY <1>4, <3>1 DEF AllExpired
    <3>5. SUFFICES clock - a[i] >= Duration
      OBVIOUS
    <3>6. Len(q) >= 1 => q[1] = a[l + 1]
      BY <3>3 DEF EndOf
    <3> HIDE DEF i, l
    <3>7. a[i] <= a[l] /\ a[i] \in Nat /\ a[l] \in Nat /\ a[l] <= clock
      BY <1>2, <3>1 DEF InOrder
    <3>8. CASE q = <<>>
      <4>1. Len(q) = 0
        BY <3>8
      <4>2. clock - a[l] > Expiration
        BY <3>2, <3>4, <3>8, <4>1
      <4> QED BY <1>1, <3>7, <4>2, SMTT(30)
    <3>9. CASE q # <<>>
      <4>1. Len(q) >= 1
        BY <3>9
      <4>2. q[1] <= clock /\ q[1] \in Nat
        BY <1>2, <3>3, <3>6, <4>1 DEF InOrder
      <4> QED BY <1>1, <3>4, <3>7, <3>9, <4>2, SMTT(30)
    <3> QED BY <3>8, <3>9
  <2> QED BY <1>1, <1>2, <1>4, <2>1
<1> QED BY <1>1, <1>2, <1>3, <1>4

\* A request recorded now comes after all others.
LEMMA TimesInOrder ==
  ASSUME NEW a \in Seq(Nat), clock \in Nat, InOrder(a)
  PROVE  InOrder(Append(a, clock))
<1> DEFINE b == Append(a, clock)
<1>1. /\ b \in Seq(Nat) /\ Len(b) = Len(a) + 1 /\ b[Len(b)] = clock /\ Len(a) \in Nat
      /\ \A i \in 1..Len(a) : b[i] = a[i]
  OBVIOUS
<1> HIDE DEF b
<1>2. \A i \in 1..Len(b) : i \in 1..Len(a) \/ i = Len(b)
  BY <1>1
<1>3. ASSUME NEW i \in 1..Len(b)
      PROVE  b[i] <= clock
  <2>1. CASE i = Len(b)
    BY <1>1, <2>1
  <2>2. CASE i \in 1..Len(a)
    BY <1>1, <2>2 DEF InOrder
  <2> QED BY <1>2, <2>1, <2>2
<1>4. ASSUME NEW i \in 1..Len(b), NEW j \in 1..Len(b), i <= j
      PROVE  b[i] <= b[j]
  <2>1. CASE j = Len(b)
    BY <1>1, <1>3, <2>1
  <2>2. CASE j \in 1..Len(a)
    <3>1. i \in 1..Len(a)
      BY <1>1, <1>4, <2>2
    <3> QED BY <1>1, <1>4, <2>2, <3>1 DEF InOrder
  <2> QED BY <1>2, <2>1, <2>2
<1> QED BY <1>3, <1>4 DEF InOrder, b

\* What the queue becomes when a request is recorded.
Recorded(q) == Append(IF Len(q) < MaxRequestNum THEN q ELSE Tail(q), clock)

LEMMA RecordKeeps ==
  ASSUME NEW q \in Seq(Nat), NEW a \in Seq(Nat), clock \in Nat,
         EndOf(q, a), InOrder(a), AllExpired(q, a)
  PROVE  LET r == Recorded(q)  b == Append(a, clock) IN
         r \in Seq(Nat) /\ r # <<>> /\ b \in Seq(Nat) /\ EndOf(r, b) /\ InOrder(b) /\ AllExpired(r, b)
<1> DEFINE kept == IF Len(q) < MaxRequestNum THEN q ELSE Tail(q)
           r == Recorded(q)
           b == Append(a, clock)
<1>1. MaxRequestNum \in Nat \ {0}
  BY LimitAssumption
<1>2. /\ Len(q) \in Nat /\ Len(a) \in Nat
      /\ Len(q) <= MaxRequestNum /\ Len(q) <= Len(a)
      /\ \A i \in 1..Len(q) : q[i] \in Nat
      /\ \A i \in 1..Len(a) : a[i] \in Nat
  BY DEF EndOf
<1>3. /\ kept \in Seq(Nat) /\ Len(kept) \in Nat /\ Len(kept) < MaxRequestNum /\ Len(kept) <= Len(q)
      /\ \A i \in 1..Len(kept) : kept[i] = a[Len(a) - Len(kept) + i]
  <2>1. CASE Len(q) < MaxRequestNum
    BY <1>2, <2>1 DEF EndOf
  <2>2. CASE Len(q) >= MaxRequestNum
    <3>1. q # <<>> /\ kept = Tail(q)
      BY <1>1, <1>2, <2>2
    <3>2. /\ Tail(q) \in Seq(Nat) /\ Len(Tail(q)) = Len(q) - 1
          /\ \A i \in 1..Len(Tail(q)) : Tail(q)[i] = q[i + 1]
      BY <3>1
    <3> HIDE DEF kept
    <3>3. Len(q) = MaxRequestNum
      BY <1>1, <1>2, <2>2
    <3>5. kept \in Seq(Nat) /\ Len(kept) = Len(q) - 1
      BY <3>1, <3>2
    <3>6. /\ Len(kept) \in Nat
          /\ Len(kept) < MaxRequestNum
          /\ Len(kept) <= Len(q)
      BY <1>1, <1>2, <3>3, <3>5
    <3>4. ASSUME NEW i \in 1..Len(kept)
          PROVE  kept[i] = a[Len(a) - Len(kept) + i]
      <4>1. i + 1 \in 1..Len(q) /\ Len(a) - Len(q) + (i + 1) = Len(a) - Len(kept) + i
        BY <1>2, <3>5
      <4>2. q[i + 1] = a[Len(a) - Len(q) + (i + 1)]
        BY <4>1 DEF EndOf
      <4>3. kept[i] = q[i + 1]
        BY <3>1, <3>2
      <4> QED BY <4>1, <4>2, <4>3
    <3> QED BY <3>4, <3>5, <3>6
  <2>3. Len(q) < MaxRequestNum \/ Len(q) >= MaxRequestNum
    BY <1>1, <1>2
  <2> QED BY <2>1, <2>2, <2>3
<1>4. r = Append(kept, clock)
  BY DEF Recorded
<1> HIDE DEF kept, r
<1>5. /\ r \in Seq(Nat) /\ r # <<>> /\ Len(r) = Len(kept) + 1 /\ r[Len(r)] = clock
      /\ \A i \in 1..Len(kept) : r[i] = kept[i]
  BY <1>3, <1>4
<1>6. /\ b \in Seq(Nat) /\ Len(b) = Len(a) + 1 /\ b[Len(b)] = clock
      /\ \A i \in 1..Len(a) : b[i] = a[i]
  OBVIOUS
<1> HIDE DEF b
<1>7. EndOf(r, b)
  <2>1. Len(r) <= MaxRequestNum /\ Len(r) <= Len(b)
    BY <1>1, <1>2, <1>3, <1>5, <1>6
  <2>2. ASSUME NEW i \in 1..Len(r)
        PROVE  r[i] = b[Len(b) - Len(r) + i]
    <3>1. CASE i = Len(r)
      BY <1>2, <1>3, <1>5, <1>6, <3>1
    <3>2. CASE i \in 1..Len(kept)
      <4>1. /\ Len(b) - Len(r) + i = Len(a) - Len(kept) + i
            /\ Len(a) - Len(kept) + i \in 1..Len(a)
        BY <1>2, <1>3, <1>5, <1>6, <3>2
      <4> QED BY <1>3, <1>5, <1>6, <3>2, <4>1
    <3> QED BY <1>3, <1>5, <3>1, <3>2
  <2> QED BY <2>1, <2>2 DEF EndOf
<1>8. InOrder(b)
  BY TimesInOrder DEF b
<1>9. AllExpired(r, b)
  <2>1. SUFFICES ASSUME Len(r) < MaxRequestNum, Len(r) < Len(b)
                 PROVE  r[1] - b[Len(b) - Len(r)] > Expiration
    BY <1>5 DEF AllExpired
  <2>2. Len(q) < MaxRequestNum /\ kept = q /\ Len(q) < Len(a)
    <3>1. CASE Len(q) < MaxRequestNum
      <4>1. kept = q
        BY <3>1 DEF kept
      <4> QED BY <1>2, <1>5, <1>6, <2>1, <3>1, <4>1
    <3>2. CASE Len(q) >= MaxRequestNum
      <4>1. kept = Tail(q) /\ Len(q) = MaxRequestNum /\ q # <<>>
        BY <1>1, <1>2, <3>2 DEF kept
      <4>2. Len(Tail(q)) = Len(q) - 1
        BY <4>1
      <4> QED BY <1>1, <1>2, <1>5, <2>1, <4>1, <4>2
    <3> QED BY <1>1, <1>2, <3>1, <3>2
  <2>3. b[Len(b) - Len(r)] = a[Len(a) - Len(q)]
    <3>1. Len(b) - Len(r) = Len(a) - Len(q) /\ Len(a) - Len(q) \in 1..Len(a)
      BY <1>2, <1>5, <1>6, <2>2
    <3> QED BY <1>6, <3>1
  <2>4. CASE q = <<>>
    <3>1. r[1] = clock /\ Len(a) - Len(q) = Len(a)
      BY <1>2, <1>5, <2>2, <2>4
    <3> QED BY <2>2, <2>3, <2>4, <3>1 DEF AllExpired
  <2>5. CASE q # <<>>
    <3>1. r[1] = q[1]
      BY <1>2, <1>5, <2>2, <2>5
    <3> QED BY <2>2, <2>3, <2>5, <3>1 DEF AllExpired
  <2> QED BY <2>4, <2>5
<1> QED BY <1>5, <1>6, <1>7, <1>8, <1>9 DEF r, b

-----------------------------------------------------------------------------
\* Every step keeps the types.
LEMMA TypesKept ==
  ASSUME LimitTypeOK, [LimitNext]_limitVars
  PROVE  LimitTypeOK'
<1> USE DEF LimitTypeOK
<1>1. MaxRequestNum \in Nat \ {0} /\ Expiration \in Nat
  BY LimitAssumption
<1>2. CASE LimitTick
  <2>1. clock' \in Nat /\ <<>> \in Seq(Nat)
    BY <1>2 DEF LimitTick
  <2> QED BY <1>2, <2>1 DEF LimitTick
<1>3. CASE clearExpiredItems
  <2>1. NoQueue \in [stored: BOOLEAN, at: Seq(Nat)]
    BY DEF NoQueue
  <2>2. queue' \in [Client -> [stored: BOOLEAN, at: Seq(Nat)]]
    BY <1>3, <2>1 DEF clearExpiredItems
  <2> QED BY <1>3, <2>2 DEF clearExpiredItems, redisVars
<1>4. ASSUME NEW k \in Client, Request(k)
      PROVE  LimitTypeOK'
  <2> DEFINE q == queue[k].at
             kept == IF Len(q) < MaxRequestNum THEN q ELSE Tail(q)
             r == [stored |-> TRUE, at |-> Append(kept, clock)]
  <2>1. q \in Seq(Nat) /\ Len(q) \in Nat
    OBVIOUS
  <2>2. q # <<>> => Tail(q) \in Seq(Nat)
    BY <2>1
  <2>3. ~(Len(q) < MaxRequestNum) => q # <<>>
    BY <1>1
  <2>4. kept \in Seq(Nat)
    BY <2>1, <2>2, <2>3
  <2>5. CASE MayPass(k) /\ Record(k) /\ LetThrough(k) /\ Answer(k, "ok")
    <3> HIDE DEF kept
    <3>1. r \in [stored: BOOLEAN, at: Seq(Nat)]
      BY <2>4
    <3>2. queue' = [queue EXCEPT ![k] = r]
      BY <2>5 DEF Record, kept
    <3> HIDE DEF r
    <3>3. queue' \in [Client -> [stored: BOOLEAN, at: Seq(Nat)]]
      BY <3>1, <3>2
    <3>4. admitted' = [admitted EXCEPT ![k] = Append(admitted[k], clock)]
      BY <2>5 DEF LetThrough
    <3>5. Append(admitted[k], clock) \in Seq(Nat)
      OBVIOUS
    <3>6. admitted' \in [Client -> Seq(Nat)]
      BY <3>4, <3>5
    <3>7. verdict' \in [Client -> Verdicts]
      BY <2>5 DEF Answer, Verdicts
    <3> QED BY <1>4, <3>3, <3>6, <3>7 DEF Request, redisVars
  <2>6. CASE Answer(k, "429") /\ UNCHANGED <<queue, admitted>>
    <3>1. verdict' \in [Client -> Verdicts]
      BY <2>6 DEF Answer, Verdicts
    <3> QED BY <1>4, <2>6, <3>1 DEF Request, redisVars
  <2> QED BY <1>4, <2>5, <2>6 DEF Request
<1>5. ASSUME NEW h \in Handler, RedisLLen(h)
      PROVE  LimitTypeOK'
  BY <1>5, SMTT(30) DEF RedisLLen, Commands
<1>6. ASSUME NEW h \in Handler, RedisLIndex(h)
      PROVE  LimitTypeOK'
  <2>1. verdict' \in [Client -> Verdicts]
    BY <1>6 DEF RedisLIndex, Answer, Verdicts
  <2>2. \E pc \in {"idle", "refuse", "slide"} : Send(h, pc)
    BY <1>6 DEF RedisLIndex
  <2>3. thread' \in [Handler -> [pc: Commands, key: Client]]
    BY <2>2, ZenonT(40) DEF Send, Commands
  <2> QED BY <1>6, <2>1, <2>3 DEF RedisLIndex
<1>7. ASSUME NEW h \in Handler, RedisLPush(h)
      PROVE  LimitTypeOK'
  <2>1. <<clock>> \in Seq(Nat)
    OBVIOUS
  <2>2. list' \in [Client -> Seq(Nat)]
    BY <1>7, <2>1 DEF RedisLPush
  <2>3. admitted' \in [Client -> Seq(Nat)]
    BY <1>7 DEF RedisLPush, LetThrough
  <2>4. thread' \in [Handler -> [pc: Commands, key: Client]]
    BY <1>7 DEF RedisLPush, Send, Commands
  <2> QED BY <1>7, <2>2, <2>3, <2>4 DEF RedisLPush
<1>8. ASSUME NEW h \in Handler, RedisLTrim(h)
      PROVE  LimitTypeOK'
  <2> DEFINE k == thread[h].key
             n == IF Len(list[k]) < MaxRequestNum THEN Len(list[k]) ELSE MaxRequestNum
  <2>1. list[k] \in Seq(Nat) /\ Len(list[k]) \in Nat
    OBVIOUS
  <2>2. n \in Nat /\ n <= Len(list[k])
    BY <1>1, <2>1
  <2>3. SubSeq(list[k], 1, n) \in Seq(Nat)
    BY <2>1, <2>2, SubSeqProperties, ElementOfSeq
  <2>4. list' = [list EXCEPT ![k] = SubSeq(list[k], 1, n)]
    BY <1>8 DEF RedisLTrim
  <2> HIDE DEF n
  <2>5. list' \in [Client -> Seq(Nat)]
    BY <2>3, <2>4
  <2>6. thread' \in [Handler -> [pc: Commands, key: Client]]
    BY <1>8 DEF RedisLTrim, Send, Commands
  <2> QED BY <1>8, <2>5, <2>6 DEF RedisLTrim
<1>9. ASSUME NEW h \in Handler, RedisExpire(h)
      PROVE  LimitTypeOK'
  <2>1. expireAt' \in [Client -> Nat]
    BY <1>1, <1>9 DEF RedisExpire
  <2>2. verdict' \in [Client -> Verdicts] /\ thread' \in [Handler -> [pc: Commands, key: Client]]
    BY <1>9 DEF RedisExpire, Answer, Send, Commands, Verdicts
  <2> QED BY <1>9, <2>1, <2>2 DEF RedisExpire
<1>10. CASE UNCHANGED limitVars
  BY <1>10 DEF limitVars
<1> QED BY <1>2, <1>3, <1>4, <1>5, <1>6, <1>7, <1>8, <1>9, <1>10 DEF LimitNext

-----------------------------------------------------------------------------
(* The limiter in memory.                                                  *)

\* A request that may pass keeps the spread of those let through.
LEMMA SpreadKept ==
  ASSUME NEW a \in Seq(Nat), clock \in Nat, NEW n \in Nat \ {0},
         \A i \in 1..(Len(a) - n) : a[i + n] - a[i] >= Duration,
         Len(a) >= n => clock - a[Len(a) - n + 1] >= Duration
  PROVE  LET b == Append(a, clock) IN
         \A i \in 1..(Len(b) - n) : b[i + n] - b[i] >= Duration
<1> DEFINE b == Append(a, clock)
<1>1. n \in Nat \ {0} /\ Len(a) \in Nat
  OBVIOUS
<1>2. /\ Len(b) = Len(a) + 1 /\ b[Len(a) + 1] = clock
      /\ \A i \in 1..Len(a) : b[i] = a[i]
  OBVIOUS
<1> HIDE DEF b
<1>3. ASSUME NEW i \in 1..(Len(b) - n)
      PROVE  b[i + n] - b[i] >= Duration
  <2>4. i \in Nat /\ 1 <= i /\ i <= Len(a) + 1 - n
    BY <1>1, <1>2
  <2>1. i \in 1..Len(a) /\ (i = Len(a) - n + 1 \/ i \in 1..(Len(a) - n))
    BY <1>1, <2>4
  <2>2. CASE i = Len(a) - n + 1
    <3>1. i + n = Len(a) + 1 /\ Len(a) >= n
      BY <1>1, <2>1, <2>2
    <3> QED BY <1>2, <2>1, <2>2, <3>1
  <2>3. CASE i \in 1..(Len(a) - n)
    <3>1. i + n \in 1..Len(a)
      BY <1>1, <2>3
    <3> QED BY <1>2, <2>1, <2>3, <3>1
  <2> QED BY <2>1, <2>2, <2>3
<1> QED BY <1>3 DEF b

\* The limiter in memory decides as the window does.
LEMMA DecidesAsWindow ==
  ASSUME LimitTypeOK, NEW k \in Client, KeptInMind(k)
  PROVE  MayPass(k) <=> Window!Allowed(k)
<1>1. queue[k].at \in Seq(Nat) /\ admitted[k] \in Seq(Nat) /\ clock \in Nat
  BY DEF LimitTypeOK
<1>2. EndOf(queue[k].at, admitted[k]) /\ InOrder(admitted[k]) /\ AllExpired(queue[k].at, admitted[k])
  BY DEF KeptInMind
<1> QED BY <1>1, <1>2, QueueDecides DEF MayPass, Window!Allowed

\* What a step does to a client's queue keeps it in mind.
LEMMA TickKeeps ==
  ASSUME LimitTypeOK, NEW k \in Client, KeptInMind(k), LimitTick
  PROVE  KeptInMind(k)'
<1> DEFINE q == queue[k].at
           a == admitted[k]
<1>1. clock \in Nat /\ clock' = clock + 1 /\ UNCHANGED <<queue, admitted>>
  BY DEF LimitTick, LimitTypeOK
<1>2. /\ q \in Seq(Nat) /\ a \in Seq(Nat)
      /\ EndOf(q, a) /\ InOrder(a) /\ AllExpired(q, a)
  BY DEF KeptInMind, LimitTypeOK
<1>3. Len(a) \in Nat /\ \A i \in 1..Len(a) : a[i] \in Nat
  BY <1>2
<1>4. InOrder(a)'
  BY <1>1, <1>2, <1>3 DEF InOrder
<1>5. AllExpired(q, a)'
  <2>1. CASE q = <<>> /\ Len(q) < MaxRequestNum /\ Len(q) < Len(a)
    <3>1. Len(a) \in 1..Len(a) /\ Expiration \in Nat
      BY <1>3, <2>1, LimitAssumption
    <3>2. clock - a[Len(a)] > Expiration
      BY <1>2, <2>1 DEF AllExpired
    <3>3. a[Len(a)] \in Nat
      BY <1>3, <3>1
    <3>4. clock' - a[Len(a)] > Expiration
      BY <1>1, <3>1, <3>2, <3>3
    <3> QED BY <1>1, <2>1, <3>4 DEF AllExpired
  <2> QED BY <1>1, <1>2, <2>1 DEF AllExpired
<1>6. EndOf(q, a)'
  BY <1>1, <1>2 DEF EndOf
<1>7. AtMost(k, 0)'
  BY <1>1 DEF KeptInMind, AtMost
<1> QED BY <1>1, <1>4, <1>5, <1>6, <1>7 DEF KeptInMind

LEMMA ClearKeeps ==
  ASSUME LimitTypeOK, NEW k \in Client, KeptInMind(k), clearExpiredItems
  PROVE  KeptInMind(k)'
<1> DEFINE q == queue[k].at
           a == admitted[k]
<1>1. UNCHANGED <<clock, admitted>> /\ queue'[k] = IF Idle(k) THEN NoQueue ELSE queue[k]
  BY DEF clearExpiredItems, LimitTypeOK
<1>2. /\ q \in Seq(Nat) /\ a \in Seq(Nat)
      /\ EndOf(q, a) /\ InOrder(a) /\ AllExpired(q, a)
      /\ queue[k].stored <=> q # <<>>
  BY DEF KeptInMind, LimitTypeOK
<1>3. InOrder(a)' /\ AtMost(k, 0)'
  BY <1>1, <1>2 DEF InOrder, KeptInMind, AtMost
<1>4. CASE Idle(k)
  <2>1. q # <<>> /\ clock - q[Len(q)] > Expiration
    BY <1>2, <1>4 DEF Idle
  <2>2. Len(q) \in 1..Len(q) /\ Len(q) \in Nat /\ Len(a) \in Nat
    BY <1>2, <2>1
  <2>3. q[Len(q)] = a[Len(a) - Len(q) + Len(q)]
    BY <1>2, <2>2 DEF EndOf
  <2>4. Len(a) - Len(q) + Len(q) = Len(a)
    BY <2>2
  <2>5. clock - a[Len(a)] > Expiration
    BY <2>1, <2>3, <2>4
  <2>6. queue'[k].at = <<>> /\ queue'[k].stored = FALSE
    BY <1>1, <1>4 DEF NoQueue
  <2>7. AllExpired(queue[k].at, a)'
    BY <1>1, <2>5, <2>6 DEF AllExpired
  <2>8. EndOf(queue[k].at, a)'
    <3>1. Len(queue'[k].at) = 0
      BY <2>6
    <3>2. MaxRequestNum \in Nat /\ Len(a') \in Nat
      BY <1>1, <2>2, LimitAssumption
    <3>3. \A i \in 1..Len(queue'[k].at) : FALSE
      BY <3>1
    <3> HIDE DEF a
    <3> QED BY <3>1, <3>2, <3>3 DEF EndOf
  <2> QED BY <1>3, <2>6, <2>7, <2>8 DEF KeptInMind
<1>5. CASE ~Idle(k)
  <2>1. queue'[k] = queue[k]
    BY <1>1, <1>5
  <2>2. AllExpired(queue[k].at, a)'
    BY <1>1, <1>2, <2>1 DEF AllExpired
  <2>3. EndOf(queue[k].at, a)'
    BY <1>1, <1>2, <2>1 DEF EndOf
  <2> QED BY <1>2, <1>3, <2>1, <2>2, <2>3 DEF KeptInMind
<1> QED BY <1>4, <1>5

LEMMA RequestKeeps ==
  ASSUME LimitTypeOK, NEW k \in Client, KeptInMind(k), NEW c \in Client, Request(c)
  PROVE  KeptInMind(k)'
<1> DEFINE q == queue[k].at
           a == admitted[k]
           r == Recorded(q)
           b == Append(a, clock)
<1>1. /\ q \in Seq(Nat) /\ a \in Seq(Nat) /\ clock \in Nat
      /\ EndOf(q, a) /\ InOrder(a) /\ AllExpired(q, a)
  BY DEF KeptInMind, LimitTypeOK
<1>2. UNCHANGED clock
  BY DEF Request
<1>3. CASE c = k /\ MayPass(k)
  <2>1. queue'[k] = [stored |-> TRUE, at |-> r] /\ admitted'[k] = b
    BY <1>3 DEF Request, Record, LetThrough, Recorded, LimitTypeOK
  <2>2. r # <<>> /\ EndOf(r, b) /\ InOrder(b) /\ AllExpired(r, b)
    BY <1>1, RecordKeeps
  <2>3. queue'[k].at = r /\ queue'[k].stored = TRUE
    BY <2>1
  <2> HIDE DEF r, b
  <2>4. EndOf(queue[k].at, admitted[k])'
    BY <2>1, <2>2, <2>3 DEF EndOf
  <2>5. InOrder(admitted[k])'
    BY <1>2, <2>1, <2>2 DEF InOrder
  <2>6. AllExpired(queue[k].at, admitted[k])'
    BY <1>2, <2>1, <2>2, <2>3 DEF AllExpired
  <2>7. AtMost(k, 0)'
    <3>1. Window!Allowed(k)
      BY <1>3, DecidesAsWindow
    <3>2. Len(a) >= MaxRequestNum => clock - a[Len(a) - MaxRequestNum + 1] >= Duration
      BY <3>1 DEF Window!Allowed
    <3>3. Len(a) \in Nat /\ MaxRequestNum \in Nat /\ Len(b) \in Nat
      BY <1>1, LimitAssumption DEF b
    <3>4. \A i \in 1..(Len(a) - MaxRequestNum) : a[i + MaxRequestNum] - a[i] >= Duration
      BY <3>3 DEF KeptInMind, AtMost
    <3>5. \A i \in 1..(Len(b) - MaxRequestNum) : b[i + MaxRequestNum] - b[i] >= Duration
      BY <1>1, <3>2, <3>4, SpreadKept, LimitAssumption DEF b
    <3> QED BY <2>1, <3>3, <3>5 DEF AtMost
  <2> QED BY <2>2, <2>3, <2>4, <2>5, <2>6, <2>7 DEF KeptInMind
<1>4. CASE ~(c = k /\ MayPass(k))
  <2>1. queue'[k] = queue[k] /\ admitted'[k] = admitted[k]
    BY <1>4 DEF Request, Record, LetThrough, LimitTypeOK
  <2>2. EndOf(queue[k].at, admitted[k])'
    BY <1>1, <2>1 DEF EndOf
  <2>3. InOrder(admitted[k])'
    BY <1>1, <1>2, <2>1 DEF InOrder
  <2>4. AllExpired(queue[k].at, admitted[k])'
    BY <1>1, <1>2, <2>1 DEF AllExpired
  <2>5. AtMost(k, 0)'
    BY <2>1 DEF KeptInMind, AtMost
  <2> QED BY <2>1, <2>2, <2>3, <2>4, <2>5 DEF KeptInMind
<1> QED BY <1>3, <1>4

-----------------------------------------------------------------------------
LEMMA LimitInitHolds == LimitInit => LimitInv
<1> SUFFICES ASSUME LimitInit
             PROVE  LimitInv
  OBVIOUS
<1>1. LimitTypeOK
  <2>1. <<>> \in Seq(Nat)
    OBVIOUS
  <2> QED BY <2>1 DEF LimitInit, LimitTypeOK, NoQueue, Commands, Verdicts
<1>2. ASSUME NEW h \in Handler
      PROVE  thread[h].pc = "idle"
  BY DEF LimitInit
<1>3. ASSUME NEW k \in Client
      PROVE  KeptInMind(k)
  <2>1. queue[k].at = <<>> /\ queue[k].stored = FALSE /\ admitted[k] = <<>>
    BY DEF LimitInit, NoQueue
  <2>2. MaxRequestNum \in Nat \ {0} /\ Len(<<>>) = 0
    BY LimitAssumption
  <2>3. EndOf(queue[k].at, admitted[k]) /\ InOrder(admitted[k]) /\ AllExpired(queue[k].at, admitted[k])
    BY <2>1, <2>2 DEF EndOf, InOrder, AllExpired
  <2>4. AtMost(k, 0)
    BY <2>1, <2>2 DEF AtMost
  <2> QED BY <2>1, <2>3, <2>4 DEF KeptInMind
<1> QED BY <1>1, <1>2, <1>3 DEF LimitInv, MemoryInv

LEMMA LimitInvKept ==
  ASSUME LimitInv, [LimitNext]_limitVars
  PROVE  LimitInv'
<1>1. LimitTypeOK /\ LimitTypeOK'
  BY TypesKept DEF LimitInv
<1>2. UNCHANGED redisEnabled
  BY DEF LimitNext, LimitTick, clearExpiredItems, Request, RedisLLen, RedisLIndex, RedisLPush,
         RedisLTrim, RedisExpire, limitVars
<1> SUFFICES ASSUME ~redisEnabled
             PROVE  /\ \A h \in Handler : (thread[h].pc = "idle")'
                    /\ \A k \in Client : KeptInMind(k)'
  BY <1>1, <1>2 DEF LimitInv, MemoryInv
<1>3. /\ \A h \in Handler : thread[h].pc = "idle"
      /\ \A k \in Client : KeptInMind(k)
  BY DEF LimitInv, MemoryInv
<1>4. CASE LimitTick
  BY <1>1, <1>3, <1>4, TickKeeps DEF LimitTick
<1>5. CASE clearExpiredItems
  BY <1>1, <1>3, <1>5, ClearKeeps DEF clearExpiredItems, redisVars
<1>6. ASSUME NEW c \in Client, Request(c)
      PROVE  /\ \A h \in Handler : (thread[h].pc = "idle")'
             /\ \A k \in Client : KeptInMind(k)'
  BY <1>1, <1>3, <1>6, RequestKeeps DEF Request, redisVars
<1>7. ASSUME NEW h \in Handler,
             RedisLLen(h) \/ RedisLIndex(h) \/ RedisLPush(h) \/ RedisLTrim(h) \/ RedisExpire(h)
      PROVE  FALSE
  BY <1>3, <1>7 DEF RedisLLen, RedisLIndex, RedisLPush, RedisLTrim, RedisExpire
<1>8. CASE UNCHANGED limitVars
  BY <1>3, <1>8 DEF limitVars, KeptInMind, EndOf, InOrder, AllExpired, AtMost
<1> QED BY <1>4, <1>5, <1>6, <1>7, <1>8 DEF LimitNext

LEMMA LimitInvariant == LimitSpec => []LimitInv
<1> QED BY LimitInitHolds, LimitInvKept, PTL DEF LimitSpec

\* Whatever the limits and the clients, and with either limiter, the limiter's
\* state keeps its types.
THEOREM LimitTypes == LimitSpec => []LimitTypeOK
<1>1. LimitInv => LimitTypeOK
  BY DEF LimitInv
<1> QED BY <1>1, LimitInvariant, PTL

\* In memory no client gets more than MaxRequestNum requests through in any window,
\* for every limit, duration and number of clients (common/rate-limit.go).
THEOREM WindowHolds == LimitSpec => []WindowLimit
<1>1. LimitInv => WindowLimit
  BY DEF LimitInv, MemoryInv, KeptInMind, WindowLimit
<1> QED BY <1>1, LimitInvariant, PTL

\* Every answer of the limiter in memory is the sliding window's over everything the
\* client was ever allowed: what clearExpiredItems forgets never mattered.
THEOREM MemoryIsWindow == LimitSpec => AnswersAsWindow
<1>1. ASSUME LimitInv, [LimitNext]_limitVars
      PROVE  [~redisEnabled => [Window!Next]_<<clock, admitted, verdict>>]_limitVars
  <2> SUFFICES ASSUME ~redisEnabled
               PROVE  [Window!Next]_<<clock, admitted, verdict>>
    OBVIOUS
  <2>1. \A h \in Handler : thread[h].pc = "idle"
    BY <1>1 DEF LimitInv, MemoryInv
  <2>2. CASE LimitTick
    BY <2>2 DEF LimitTick, Window!Next, Window!Tick
  <2>3. CASE clearExpiredItems
    BY <2>3 DEF clearExpiredItems
  <2>4. ASSUME NEW k \in Client, Request(k)
        PROVE  Window!Next
    <3>1. MayPass(k) <=> Window!Allowed(k)
      BY <1>1, DecidesAsWindow DEF LimitInv, MemoryInv
    <3>2. CASE MayPass(k) /\ LetThrough(k) /\ Answer(k, "ok")
      BY <2>4, <3>1, <3>2 DEF Request, LetThrough, Answer, Window!Next, Window!Admit
    <3>3. CASE ~MayPass(k) /\ Answer(k, "429") /\ UNCHANGED admitted
      BY <2>4, <3>1, <3>3 DEF Request, Answer, Window!Next, Window!Refuse
    <3> QED BY <2>4, <3>2, <3>3 DEF Request
  <2>5. ASSUME NEW h \in Handler,
               RedisLLen(h) \/ RedisLIndex(h) \/ RedisLPush(h) \/ RedisLTrim(h) \/ RedisExpire(h)
        PROVE  FALSE
    BY <2>1, <2>5 DEF RedisLLen, RedisLIndex, RedisLPush, RedisLTrim, RedisExpire
  <2>6. CASE UNCHANGED limitVars
    BY <2>6 DEF limitVars
  <2> QED BY <1>1, <2>2, <2>3, <2>4, <2>5, <2>6 DEF LimitNext
<1> QED BY <1>1, LimitInvariant, PTL DEF LimitSpec, AnswersAsWindow

-----------------------------------------------------------------------------
(* The limiter in Redis.                                                   *)

\* The handlers that are about to send one of some commands for a client.
Standing(k, pcs) == {h \in Handler : thread[h].key = k /\ thread[h].pc \in pcs}
In(h, k, pcs) == thread[h].key = k /\ thread[h].pc \in pcs
Count(k, pcs) == Cardinality(Standing(k, pcs))
Handlers == Cardinality(Handler)

Pushing == {"push", "slide"}
Pushed == {"trim", "expire"}

\* Standing most b of the requests let through are younger than Duration.
Recent(a, b) == Len(a) > b => clock - a[Len(a) - b] >= Duration

\* The list is the end of the history, newest first; an absent key has no time to go; ...
IsNewest(k) ==
  LET l == list[k]  a == admitted[k] IN
  /\ Len(l) <= Len(a) /\ \A i \in 1..Len(l) : l[i] = a[Len(a) - i + 1]
  /\ l = <<>> => expireAt[k] = 0

\* ... it is longer than the limit only by who raced for its last place and who has
\* still to trim it; ...
Fits(k) ==
  Len(list[k]) + Count(k, {"push"}) <= MaxRequestNum + Handlers - 1 + Count(k, {"trim"})

\* ... a key that goes takes along only what expired long ago and what handlers that
\* have not renewed it have pushed; ...
Renewed(k) ==
  LET a == admitted[k]  e == Count(k, Pushed) IN
  expireAt[k] # 0 /\ Len(a) > e => a[Len(a) - e] + Expiration <= expireAt[k]

\* ... so a list that is not full holds all that is recent but for one request of each
\* handler, ...
Begun(k) == Len(list[k]) < MaxRequestNum => Recent(admitted[k], Len(list[k]) + Handlers)

\* ... and with what is going to be pushed the bound is kept.
Room(k) ==
  LET p == Count(k, Pushing) IN
  p > 0 => Recent(admitted[k], (MaxRequestNum + 2 * Handlers - 1) - p)

Overruns(k) ==
  /\ IsNewest(k) /\ InOrder(admitted[k]) /\ Fits(k) /\ Renewed(k) /\ Begun(k) /\ Room(k)
  /\ AtMost(k, 2 * Handlers - 1)

RedisInv == redisEnabled => \A k \in Client : Overruns(k)

-----------------------------------------------------------------------------
\* A set of handlers is finite, and a step of h changes it only by h.
LEMMA CountMoves ==
  ASSUME IsFiniteSet(Handler), NEW h \in Handler, NEW k, NEW pcs,
         \A g \in Handler \ {h} : thread'[g] = thread[g]
  PROVE  /\ Count(k, pcs) \in Nat /\ Count(k, pcs)' \in Nat /\ Handlers \in Nat
         /\ In(h, k, pcs) => Count(k, pcs) >= 1
         /\ (In(h, k, pcs) <=> In(h, k, pcs)') => Count(k, pcs)' = Count(k, pcs)
         /\ (In(h, k, pcs) /\ ~In(h, k, pcs)') => Count(k, pcs)' = Count(k, pcs) - 1
         /\ (~In(h, k, pcs) /\ In(h, k, pcs)') => Count(k, pcs)' = Count(k, pcs) + 1
<1> DEFINE A == Standing(k, pcs)
           B == {g \in Handler : thread'[g].key = k /\ thread'[g].pc \in pcs}
<1>1. /\ A \in SUBSET Handler /\ B \in SUBSET Handler
      /\ A \ {h} = B \ {h}
      /\ (h \in A <=> In(h, k, pcs)) /\ (h \in B <=> In(h, k, pcs)')
  BY DEF Standing, In
<1>2. Count(k, pcs) = Cardinality(A) /\ Count(k, pcs)' = Cardinality(B)
  BY DEF Count, Standing
<1> HIDE DEF A, B
<1>3. IsFiniteSet(A) /\ IsFiniteSet(B)
  BY <1>1, FS_Subset
<1>4. Cardinality(A) \in Nat /\ Cardinality(B) \in Nat /\ Handlers \in Nat
  BY <1>3, FS_CardinalityType DEF Handlers
<1>5. /\ Cardinality(A \ {h}) = IF h \in A THEN Cardinality(A) - 1 ELSE Cardinality(A)
      /\ Cardinality(A \ {h}) = IF h \in B THEN Cardinality(B) - 1 ELSE Cardinality(B)
  BY <1>1, <1>3, FS_RemoveElement
<1>6. h \in A => Cardinality(A) # 0
  BY <1>3, FS_EmptySet
<1> HIDE DEF In
<1>7. /\ In(h, k, pcs) => Cardinality(A) >= 1
      /\ (In(h, k, pcs) <=> In(h, k, pcs)') => Cardinality(B) = Cardinality(A)
      /\ (In(h, k, pcs) /\ ~In(h, k, pcs)') => Cardinality(B) = Cardinality(A) - 1
      /\ (~In(h, k, pcs) /\ In(h, k, pcs)') => Cardinality(B) = Cardinality(A) + 1
  BY <1>1, <1>4, <1>5, <1>6
<1> QED BY <1>2, <1>4, <1>7

\* Handlers that stand at different commands are different handlers.
LEMMA CountBounded ==
  ASSUME IsFiniteSet(Handler), NEW k, NEW p, NEW q, p \cap q = {}
  PROVE  /\ Count(k, p) \in Nat /\ Count(k, q) \in Nat /\ Handlers \in Nat
         /\ Count(k, p) + Count(k, q) <= Handlers
<1> DEFINE A == Standing(k, p)
           B == Standing(k, q)
<1>1. A \in SUBSET Handler /\ B \in SUBSET Handler /\ A \cup B \in SUBSET Handler /\ A \cap B = {}
  BY DEF Standing
<1>2. Count(k, p) = Cardinality(A) /\ Count(k, q) = Cardinality(B)
  BY DEF Count
<1> HIDE DEF A, B
<1>3. IsFiniteSet(A) /\ IsFiniteSet(B)
  BY <1>1, FS_Subset
<1>4. Cardinality(A) \in Nat /\ Cardinality(B) \in Nat /\ Handlers \in Nat
  BY <1>3, FS_CardinalityType DEF Handlers
<1>5. Cardinality(A \cup B) = Cardinality(A) + Cardinality(B)
  <2>1. Cardinality(A \cap B) = 0
    BY <1>1, FS_EmptySet
  <2>2. Cardinality(A \cup B) = Cardinality(A) + Cardinality(B) - Cardinality(A \cap B)
    BY <1>3, FS_Union
  <2> QED BY <1>4, <2>1, <2>2
<1>6. Cardinality(A \cup B) <= Handlers
  BY <1>1, FS_Subset DEF Handlers
<1> QED BY <1>2, <1>4, <1>5, <1>6

\* With few recent requests there are not more than many.
LEMMA RecentMore ==
  ASSUME NEW a \in Seq(Nat), clock \in Nat, InOrder(a),
         NEW b \in Nat, NEW c \in Nat, b <= c, Recent(a, b)
  PROVE  Recent(a, c)
<1>1. Len(a) \in Nat /\ Duration \in Nat /\ \A i \in 1..Len(a) : a[i] \in Nat
  BY LimitAssumption
<1>2. SUFFICES ASSUME Len(a) > c
               PROVE  clock - a[Len(a) - c] >= Duration
  BY DEF Recent
<1>3. Len(a) - c \in 1..Len(a) /\ Len(a) - b \in 1..Len(a) /\ Len(a) - c <= Len(a) - b
  BY <1>1, <1>2
<1>4. a[Len(a) - c] <= a[Len(a) - b]
  BY <1>3 DEF InOrder
<1>5. clock - a[Len(a) - b] >= Duration
  BY <1>1, <1>2 DEF Recent
<1>6. a[Len(a) - c] \in Nat /\ a[Len(a) - b] \in Nat
  BY <1>1, <1>3
<1> QED BY <1>1, <1>4, <1>5, <1>6, SMTT(30)

\* A step of h for one client leaves the others as they are.
LEMMA OthersKeep ==
  ASSUME LimitTypeOK, IsFiniteSet(Handler), NEW h \in Handler, NEW k \in Client,
         \A g \in Handler \ {h} : thread'[g] = thread[g],
         ~In(h, k, Commands \ {"idle"}) \/ thread[h].pc \in {"index", "refuse"},
         ~In(h, k, Commands \ {"idle"})' \/ thread'[h].pc \in {"index", "refuse"},
         UNCHANGED <<clock, list[k], expireAt[k], admitted[k]>>, Overruns(k)
  PROVE  Overruns(k)'
<1>1. \A pcs \in {{"push"}, {"trim"}, Pushing, Pushed} : ~In(h, k, pcs) /\ ~In(h, k, pcs)'
  BY DEF In, Pushing, Pushed, Commands
<1>2. \A pcs \in {{"push"}, {"trim"}, Pushing, Pushed} : Count(k, pcs)' = Count(k, pcs)
  BY <1>1, CountMoves
<1>3. /\ Count(k, {"push"})' = Count(k, {"push"}) /\ Count(k, {"trim"})' = Count(k, {"trim"})
      /\ Count(k, Pushing)' = Count(k, Pushing) /\ Count(k, Pushed)' = Count(k, Pushed)
  BY <1>2
<1>4. IsNewest(k)' /\ InOrder(admitted[k])' /\ Fits(k)' /\ Renewed(k)' /\ Begun(k)' /\ Room(k)'
  BY <1>3 DEF Overruns, IsNewest, InOrder, Fits, Renewed, Begun, Room, Recent
<1>5. AtMost(k, 2 * Handlers - 1)'
  BY DEF Overruns, AtMost
<1> QED BY <1>4, <1>5 DEF Overruns

\* What a client's state is made of.
LEMMA ClientIs ==
  ASSUME LimitTypeOK, NEW k \in Client
  PROVE  /\ MaxRequestNum \in Nat \ {0} /\ Duration \in Nat /\ Expiration \in Nat /\ Duration <= Expiration
         /\ clock \in Nat /\ list[k] \in Seq(Nat) /\ admitted[k] \in Seq(Nat) /\ expireAt[k] \in Nat
         /\ Len(list[k]) \in Nat /\ Len(admitted[k]) \in Nat
         /\ \A i \in 1..Len(admitted[k]) : admitted[k][i] \in Nat
<1>1. MaxRequestNum \in Nat \ {0} /\ Duration \in Nat /\ Expiration \in Nat /\ Duration <= Expiration
  BY LimitAssumption
<1>2. clock \in Nat /\ list[k] \in Seq(Nat) /\ admitted[k] \in Seq(Nat) /\ expireAt[k] \in Nat
  BY DEF LimitTypeOK
<1> QED BY <1>1, <1>2

\* The time goes on, and a key may go.
LEMMA TickOverruns ==
  ASSUME LimitTypeOK, LimitTypeOK', IsFiniteSet(Handler), NEW k \in Client, Overruns(k), LimitTick
  PROVE  Overruns(k)'
<1> DEFINE a == admitted[k]
           l == list[k]
           e == Count(k, Pushed)
<1>1. /\ UNCHANGED <<thread, admitted>> /\ clock' = clock + 1
      /\ list'[k] = IF Gone(k) THEN <<>> ELSE l
      /\ expireAt'[k] = IF Gone(k) THEN 0 ELSE expireAt[k]
  BY DEF LimitTick
<1>2. \A pcs : Count(k, pcs)' = Count(k, pcs)
  BY <1>1 DEF Count, Standing
<1>3. /\ Count(k, {"push"})' = Count(k, {"push"}) /\ Count(k, {"trim"})' = Count(k, {"trim"})
      /\ Count(k, Pushing)' = Count(k, Pushing) /\ Count(k, Pushed)' = e
  BY <1>2
<1>4. /\ Count(k, {"push"}) \in Nat /\ Count(k, {"trim"}) \in Nat /\ Count(k, Pushing) \in Nat
      /\ e \in Nat /\ Handlers \in Nat /\ Count(k, {"push"}) <= Handlers /\ e <= Handlers
      /\ Count(k, Pushing) <= Handlers
  <2>1. {"push"} \cap {"trim"} = {} /\ Pushing \cap Pushed = {}
    BY DEF Pushing, Pushed
  <2>2. /\ Count(k, {"push"}) \in Nat /\ Count(k, {"trim"}) \in Nat /\ Handlers \in Nat
        /\ Count(k, {"push"}) + Count(k, {"trim"}) <= Handlers
    BY <2>1, CountBounded
  <2>3. Count(k, Pushing) \in Nat /\ e \in Nat /\ Count(k, Pushing) + e <= Handlers
    BY <2>1, CountBounded
  <2> HIDE DEF e
  <2> QED BY <2>2, <2>3
<1>5. /\ a \in Seq(Nat) /\ Len(a) \in Nat /\ InOrder(a) /\ \A i \in 1..Len(a) : a[i] \in Nat
  BY ClientIs DEF Overruns
<1>14. clock \in Nat /\ clock' \in Nat
  BY DEF LimitTypeOK
<1>15. /\ MaxRequestNum \in Nat /\ MaxRequestNum > 0 /\ Duration \in Nat /\ Expiration \in Nat
       /\ Duration <= Expiration
  BY LimitAssumption
<1>16. expireAt[k] \in Nat /\ Len(l) \in Nat
  BY ClientIs
<1>6. InOrder(a)'
  BY <1>1, <1>5, <1>14, SMTT(30) DEF InOrder
<1>7. ASSUME NEW b \in Nat, Recent(a, b)
      PROVE  Len(a) > b => clock' - a[Len(a) - b] >= Duration
  <2> SUFFICES ASSUME Len(a) > b
               PROVE  clock' - a[Len(a) - b] >= Duration
    OBVIOUS
  <2> HIDE DEF a, e, l
  <2>1. Len(a) - b \in 1..Len(a)
    BY <1>5
  <2>2. clock - a[Len(a) - b] >= Duration /\ a[Len(a) - b] \in Nat
    BY <1>5, <1>7, <2>1 DEF Recent
  <2> QED BY <1>1, <1>14, <1>15, <2>2
<1>8. AtMost(k, 2 * Handlers - 1)'
  BY <1>1 DEF Overruns, AtMost
<1>9. Room(k)'
  <2> DEFINE p == Count(k, Pushing)
             b == (MaxRequestNum + 2 * Handlers - 1) - p
  <2>1. SUFFICES ASSUME p > 0
                 PROVE  Len(a) > b => clock' - a[Len(a) - b] >= Duration
    BY <1>1, <1>3 DEF Room, Recent
  <2>2. b \in Nat
    <3> HIDE DEF p
    <3> QED BY <1>4, <1>15, <2>1 DEF p
  <2>3. Recent(a, b)
    BY <2>1 DEF Overruns, Room
  <2> HIDE DEF b, a
  <2> QED BY <1>7, <2>2, <2>3
<1>10. CASE Gone(k)
  <2>1. list'[k] = <<>> /\ expireAt'[k] = 0 /\ Len(list'[k]) = 0
    BY <1>1, <1>10
  <2>2. IsNewest(k)'
    <3> HIDE DEF a
    <3>1. Len(admitted'[k]) \in Nat
      BY <1>1, <1>5 DEF a
    <3> QED BY <2>1, <3>1 DEF IsNewest
  <2>3. Fits(k)'
    <3>1. 0 + Count(k, {"push"}) <= MaxRequestNum + Handlers - 1 + Count(k, {"trim"})
      BY <1>4, <1>15
    <3> QED BY <1>3, <2>1, <3>1 DEF Fits
  <2>4. Renewed(k)'
    BY <2>1 DEF Renewed
  <2>5. Recent(a, Handlers)'
    <3>1. ASSUME Len(a) > Handlers
          PROVE  clock' - a[Len(a) - Handlers] >= Duration
      <4> HIDE DEF a, e, l
      <4>1. /\ Len(a) > e /\ Len(a) - Handlers \in 1..Len(a) /\ Len(a) - e \in 1..Len(a)
            /\ Len(a) - Handlers <= Len(a) - e
        BY <1>4, <1>5, <3>1
      <4>2. a[Len(a) - e] + Expiration <= expireAt[k] /\ clock + 1 >= expireAt[k]
        BY <1>10, <4>1 DEF Gone, Overruns, Renewed, a, e
      <4>3. a[Len(a) - Handlers] <= a[Len(a) - e]
        BY <1>5, <4>1 DEF InOrder
      <4>4. a[Len(a) - Handlers] \in Nat /\ a[Len(a) - e] \in Nat
        BY <1>5, <4>1
      <4>5. Duration + a[Len(a) - Handlers] <= clock + 1
        BY <1>14, <1>15, <1>16, <4>2, <4>3, <4>4, SMTT(30)
      <4> QED BY <1>1, <1>14, <1>15, <4>4, <4>5
    <3> QED BY <1>1, <3>1 DEF Recent
  <2>6. Begun(k)'
    <3>1. Len(list'[k]) + Handlers = Handlers
      BY <1>4, <2>1
    <3> QED BY <2>5, <3>1 DEF Begun
  <2> QED BY <1>1, <1>6, <1>8, <1>9, <2>2, <2>3, <2>4, <2>6 DEF Overruns
<1>11. CASE ~Gone(k)
  <2>1. list'[k] = l /\ expireAt'[k] = expireAt[k]
    BY <1>1, <1>11
  <2>2. IsNewest(k)'
    BY <1>1, <2>1 DEF Overruns, IsNewest
  <2>3. Fits(k)'
    BY <1>3, <2>1 DEF Overruns, Fits
  <2>4. Renewed(k)'
    BY <1>1, <1>3, <2>1 DEF Overruns, Renewed
  <2>5. Begun(k)'
    <3> DEFINE b == Len(l) + Handlers
    <3>1. SUFFICES ASSUME Len(l) < MaxRequestNum
                   PROVE  Len(a) > b => clock' - a[Len(a) - b] >= Duration
      BY <1>1, <2>1 DEF Begun, Recent
    <3>2. Recent(a, b)
      BY <3>1 DEF Overruns, Begun
    <3>3. b \in Nat
      BY <1>4, <1>16
    <3> HIDE DEF b, a
    <3> QED BY <1>7, <3>2, <3>3
  <2> QED BY <1>1, <1>6, <1>8, <1>9, <2>2, <2>3, <2>4, <2>5 DEF Overruns
<1> QED BY <1>10, <1>11

\* What a handler's step does to the handler.
Goes(h, pc) == thread'[h].pc = pc /\ thread'[h].key = thread[h].key
Alone(h) == \A g \in Handler \ {h} : thread'[g] = thread[g]

LEMMA SendGoes ==
  ASSUME LimitTypeOK, NEW h \in Handler, NEW pc, Send(h, pc)
  PROVE  Alone(h) /\ Goes(h, pc)
BY DEF LimitTypeOK, Send, Alone, Goes

\* How the counts of a client change with one handler's step.
LEMMA StepCounts ==
  ASSUME IsFiniteSet(Handler), NEW h \in Handler, NEW k, Alone(h)
  PROVE  /\ \A pcs : Count(k, pcs) \in Nat /\ Count(k, pcs)' \in Nat
         /\ \A pcs : In(h, k, pcs) => Count(k, pcs) >= 1
         /\ \A pcs : (In(h, k, pcs) <=> In(h, k, pcs)') => Count(k, pcs)' = Count(k, pcs)
         /\ \A pcs : (In(h, k, pcs) /\ ~In(h, k, pcs)') => Count(k, pcs)' = Count(k, pcs) - 1
         /\ \A pcs : (~In(h, k, pcs) /\ In(h, k, pcs)') => Count(k, pcs)' = Count(k, pcs) + 1
         /\ Handlers \in Nat
<1>1. ASSUME NEW pcs
      PROVE  /\ Count(k, pcs) \in Nat /\ Count(k, pcs)' \in Nat /\ Handlers \in Nat
             /\ In(h, k, pcs) => Count(k, pcs) >= 1
             /\ (In(h, k, pcs) <=> In(h, k, pcs)') => Count(k, pcs)' = Count(k, pcs)
             /\ (In(h, k, pcs) /\ ~In(h, k, pcs)') => Count(k, pcs)' = Count(k, pcs) - 1
             /\ (~In(h, k, pcs) /\ In(h, k, pcs)') => Count(k, pcs)' = Count(k, pcs) + 1
  BY CountMoves DEF Alone
<1> QED BY <1>1

\* The parts of a client's state that only its list and its requests matter to.
LEMMA OverrunsFrom ==
  ASSUME NEW k \in Client, IsNewest(k)', InOrder(admitted[k])', Fits(k)', Renewed(k)', Begun(k)', Room(k)',
         (UNCHANGED admitted[k] /\ AtMost(k, 2 * Handlers - 1)) \/ AtMost(k, 2 * Handlers - 1)'
  PROVE  Overruns(k)'
<1>1. AtMost(k, 2 * Handlers - 1)'
  BY DEF AtMost
<1> QED BY <1>1 DEF Overruns

LEMMA FillsUp ==
  ASSUME NEW m \in Nat, NEW n \in Nat, NEW len \in Nat, NEW p \in Nat, len < m, p <= n
  PROVE  len + n \in Nat /\ (m + 2 * n - 1) - p \in Nat /\ len + n <= (m + 2 * n - 1) - p
OBVIOUS

\* A handler that has read a length that is too short is going to push.
LEMMA LLenOverruns ==
  ASSUME LimitTypeOK, LimitTypeOK', IsFiniteSet(Handler), NEW h \in Handler, NEW k \in Client,
         Overruns(k), RedisLLen(h)
  PROVE  Overruns(k)'
<1>1. PICK c \in Client :
        /\ thread[h].pc = "idle"
        /\ thread' = [thread EXCEPT ![h] =
             [pc |-> IF Len(list[c]) < MaxRequestNum THEN "push" ELSE "index", key |-> c]]
        /\ UNCHANGED <<clock, list, expireAt, admitted>>
  BY DEF RedisLLen
<1>2. Alone(h)
  BY <1>1 DEF LimitTypeOK, Alone
<1>3. /\ thread'[h].pc = (IF Len(list[c]) < MaxRequestNum THEN "push" ELSE "index")
      /\ thread'[h].key = c
  BY <1>1 DEF LimitTypeOK
<1>4. CASE c = k /\ Len(list[k]) < MaxRequestNum
  <2> DEFINE q == Count(k, {"push"})
             p == Count(k, Pushing)
             t == Count(k, {"trim"})
             e == Count(k, Pushed)
             a == admitted[k]
             l == list[k]
  <2>1. thread[h].pc = "idle" /\ thread'[h].pc = "push" /\ thread'[h].key = k
    BY <1>1, <1>3, <1>4
  <2>2. /\ ~In(h, k, {"push"}) /\ In(h, k, {"push"})' /\ ~In(h, k, Pushing) /\ In(h, k, Pushing)'
        /\ ~In(h, k, {"trim"}) /\ ~In(h, k, {"trim"})' /\ ~In(h, k, Pushed) /\ ~In(h, k, Pushed)'
    BY <2>1 DEF In, Pushing, Pushed
  <2>3. q' = q + 1 /\ p' = p + 1 /\ t' = t /\ e' = e
    BY <1>2, <2>2, StepCounts
  <2>4. q \in Nat /\ p \in Nat /\ t \in Nat /\ Handlers \in Nat
    BY <1>2, StepCounts
  <2>5. Count(k, {"push"})' <= Handlers /\ Count(k, Pushing)' <= Handlers
    <3>1. Standing(k, {"push"})' \in SUBSET Handler /\ Standing(k, Pushing)' \in SUBSET Handler
      BY DEF Standing
    <3> QED BY <3>1, FS_Subset DEF Count, Handlers
  <2>6. UNCHANGED <<clock, a, l, expireAt>>
    BY <1>1
  <2>7. IsNewest(k)' /\ InOrder(a)' /\ Renewed(k)' /\ Begun(k)'
    BY <2>3, <2>6 DEF Overruns, IsNewest, InOrder, Renewed, Begun, Recent
  <2>8. MaxRequestNum \in Nat /\ Len(l) \in Nat /\ Len(l) < MaxRequestNum
    BY <1>4, ClientIs
  <2>9. Fits(k)'
    <3>1. Len(l) + q' <= MaxRequestNum + Handlers - 1 + t
      <4> HIDE DEF q, p, t, e, a, l
      <4>1. q' \in Nat /\ q' <= Handlers
        BY <2>3, <2>4, <2>5 DEF q
      <4> QED BY <2>4, <2>8, <4>1
    <3> QED BY <2>3, <2>6, <3>1 DEF Fits
  <2>10. Room(k)'
    <3> DEFINE b == Len(l) + Handlers
               d == (MaxRequestNum + 2 * Handlers - 1) - p'
    <3>1. Recent(a, b)
      BY <1>4 DEF Overruns, Begun
    <3>2. b \in Nat /\ d \in Nat /\ b <= d
      <4> HIDE DEF q, p, t, e, a, l
      <4>1. p' \in Nat /\ p' <= Handlers
        BY <2>3, <2>4, <2>5 DEF p
      <4> QED BY <2>4, <2>8, <4>1, FillsUp
    <3>3. a \in Seq(Nat) /\ clock \in Nat /\ InOrder(a)
      BY ClientIs DEF Overruns
    <3> HIDE DEF b, d, a, l
    <3>4. Recent(a, d)
      BY <3>1, <3>2, <3>3, RecentMore
    <3> QED BY <2>6, <3>4 DEF Room, Recent, a, d, p
  <2> QED BY <2>6, <2>7, <2>9, <2>10, OverrunsFrom DEF Overruns
<1>5. CASE ~(c = k /\ Len(list[k]) < MaxRequestNum)
  <2>1. /\ ~In(h, k, Commands \ {"idle"}) \/ thread[h].pc \in {"index", "refuse"}
        /\ ~In(h, k, Commands \ {"idle"})' \/ thread'[h].pc \in {"index", "refuse"}
    BY <1>1, <1>3, <1>5 DEF In
  <2> QED BY <1>1, <1>2, <2>1, OthersKeep DEF Alone
<1> QED BY <1>4, <1>5

\* A handler that is refused or fails, or reads an oldest request that is old enough.
LEMMA LIndexOverruns ==
  ASSUME LimitTypeOK, LimitTypeOK', IsFiniteSet(Handler), NEW h \in Handler, NEW k \in Client,
         Overruns(k), RedisLIndex(h)
  PROVE  Overruns(k)'
<1>1. thread[h].pc = "index" /\ UNCHANGED <<clock, list, expireAt, admitted>>
  BY DEF RedisLIndex
<1>2. PICK pc \in {"idle", "refuse", "slide"} :
        /\ Send(h, pc)
        /\ pc = "slide" => LET l == list[thread[h].key] IN l # <<>> /\ ~(clock - l[Len(l)] < Duration)
  BY DEF RedisLIndex
<1>3. Alone(h) /\ thread'[h].pc = pc /\ thread'[h].key = thread[h].key
  BY <1>2, SendGoes DEF Goes
<1>4. CASE thread[h].key = k /\ pc = "slide"
  <2> DEFINE p == Count(k, Pushing)
             t == Count(k, {"trim"})
             q == Count(k, {"push"})
             a == admitted[k]
             l == list[k]
             x == Len(a) - Len(l) + 1
  <2>1. l # <<>> /\ ~(clock - l[Len(l)] < Duration)
    BY <1>2, <1>4
  <2>2. /\ ~In(h, k, {"push"}) /\ ~In(h, k, {"push"})' /\ ~In(h, k, Pushing) /\ In(h, k, Pushing)'
        /\ ~In(h, k, {"trim"}) /\ ~In(h, k, {"trim"})' /\ ~In(h, k, Pushed) /\ ~In(h, k, Pushed)'
    BY <1>1, <1>3, <1>4 DEF In, Pushing, Pushed
  <2>3. q' = q /\ p' = p + 1 /\ t' = t /\ Count(k, Pushed)' = Count(k, Pushed)
    BY <1>3, <2>2, StepCounts
  <2>4. q \in Nat /\ p \in Nat /\ t \in Nat /\ Handlers \in Nat
    BY <1>3, StepCounts
  <2>5. p' + t' <= Handlers
    <3> DEFINE A == {g \in Handler : thread'[g].key = k /\ thread'[g].pc \in Pushing}
               B == {g \in Handler : thread'[g].key = k /\ thread'[g].pc \in {"trim"}}
    <3>1. p' = Cardinality(A) /\ t' = Cardinality(B)
      BY DEF Count, Standing
    <3>2. A \in SUBSET Handler /\ B \in SUBSET Handler /\ A \cup B \in SUBSET Handler /\ A \cap B = {}
      BY DEF Pushing
    <3> HIDE DEF A, B, p, t
    <3>3. IsFiniteSet(A) /\ IsFiniteSet(B)
      BY <3>2, FS_Subset
    <3>4. Cardinality(A) \in Nat /\ Cardinality(B) \in Nat
      BY <3>3, FS_CardinalityType
    <3>5. Cardinality(A \cap B) = 0
      BY <3>2, FS_EmptySet
    <3>6. Cardinality(A \cup B) = Cardinality(A) + Cardinality(B) - Cardinality(A \cap B)
      BY <3>3, FS_Union
    <3>7. Cardinality(A \cup B) <= Handlers
      BY <3>2, FS_Subset DEF Handlers
    <3> QED BY <3>1, <3>4, <3>5, <3>6, <3>7
  <2>6. UNCHANGED <<clock, a, l, expireAt>>
    BY <1>1
  <2>7. IsNewest(k)' /\ InOrder(a)' /\ Fits(k)' /\ Renewed(k)' /\ Begun(k)'
    BY <2>3, <2>6 DEF Overruns, IsNewest, InOrder, Fits, Renewed, Begun, Recent
  <2>8. /\ MaxRequestNum \in Nat /\ Len(l) \in Nat /\ Len(a) \in Nat /\ Len(l) > 0 /\ Len(l) <= Len(a)
        /\ Duration \in Nat /\ clock \in Nat
    BY <2>1, ClientIs DEF Overruns, IsNewest
  <2>9. Recent(a, Len(l) - 1)
    <3>1. Len(l) \in 1..Len(l) /\ Len(a) - Len(l) + 1 \in 1..Len(a) /\ Len(a) - (Len(l) - 1) = Len(a) - Len(l) + 1
      <4> HIDE DEF a, l
      <4> QED BY <2>8
    <3>2. l[Len(l)] = a[Len(a) - Len(l) + 1]
      BY <3>1 DEF Overruns, IsNewest
    <3>3. a[Len(a) - Len(l) + 1] \in Nat
      BY <3>1, ClientIs
    <3> HIDE DEF a, l
    <3>4. clock - a[Len(a) - Len(l) + 1] >= Duration
      BY <2>1, <2>8, <3>2, <3>3
    <3> QED BY <3>1, <3>4 DEF Recent
  <2>10. Room(k)'
    <3> DEFINE b == Len(l) - 1
               d == (MaxRequestNum + 2 * Handlers - 1) - p'
    <3>1. Len(l) + q <= MaxRequestNum + Handlers - 1 + t
      BY DEF Overruns, Fits
    <3>2. b \in Nat /\ d \in Nat /\ b <= d
      <4> HIDE DEF q, p, t, a, l
      <4>1. p + 1 + t <= Handlers
        BY <2>3, <2>5 DEF p, t
      <4>2. p' = p + 1
        BY <2>3 DEF p
      <4> QED BY <2>4, <2>8, <3>1, <4>1, <4>2
    <3>3. a \in Seq(Nat) /\ clock \in Nat /\ InOrder(a)
      BY ClientIs DEF Overruns
    <3>5. Recent(a, b)
      BY <2>9
    <3> HIDE DEF b, d, a, l
    <3>4. Recent(a, d)
      BY <3>2, <3>3, <3>5, RecentMore
    <3> QED BY <2>6, <3>4 DEF Room, Recent, a, d, p
  <2> QED BY <2>6, <2>7, <2>10, OverrunsFrom DEF Overruns
<1>5. CASE ~(thread[h].key = k /\ pc = "slide")
  <2>1. /\ ~In(h, k, Commands \ {"idle"}) \/ thread[h].pc \in {"index", "refuse"}
        /\ ~In(h, k, Commands \ {"idle"})' \/ thread'[h].pc \in {"index", "refuse"}
    BY <1>1, <1>3, <1>5 DEF In
  <2> QED BY <1>1, <1>3, <2>1, OthersKeep DEF Alone
<1> QED BY <1>4, <1>5

\* Trimming to the limit leaves the newest.
LEMMA LTrimOverruns ==
  ASSUME LimitTypeOK, LimitTypeOK', IsFiniteSet(Handler), NEW h \in Handler, NEW k \in Client,
         Overruns(k), RedisLTrim(h)
  PROVE  Overruns(k)'
<1>1. thread[h].pc = "trim" /\ Send(h, "expire") /\ UNCHANGED <<clock, expireAt, admitted>>
  BY DEF RedisLTrim
<1>2. Alone(h) /\ thread'[h].pc = "expire" /\ thread'[h].key = thread[h].key
  BY <1>1, SendGoes DEF Goes
<1>3. CASE thread[h].key = k
  <2> DEFINE q == Count(k, {"push"})
             p == Count(k, Pushing)
             t == Count(k, {"trim"})
             e == Count(k, Pushed)
             a == admitted[k]
             l == list[k]
             n == IF Len(l) < MaxRequestNum THEN Len(l) ELSE MaxRequestNum
  <2>1. MaxRequestNum \in Nat /\ MaxRequestNum > 0 /\ l \in Seq(Nat) /\ Len(l) \in Nat
    BY ClientIs
  <2>2. n \in Nat /\ n <= Len(l) /\ n <= MaxRequestNum /\ (Len(l) < MaxRequestNum => n = Len(l))
        /\ (n < MaxRequestNum => n = Len(l)) /\ (n = 0 => Len(l) = 0)
    <3> HIDE DEF l
    <3> QED BY <2>1
  <2>3. list'[k] = SubSeq(l, 1, n)
    BY <1>3 DEF RedisLTrim, LimitTypeOK
  <2> HIDE DEF n
  <2>4. /\ list'[k] \in Seq(Nat) /\ Len(list'[k]) = n
        /\ \A i \in 1..n : list'[k][i] = l[i]
    <3> HIDE DEF l
    <3>1. /\ SubSeq(l, 1, n) \in Seq(Nat) /\ Len(SubSeq(l, 1, n)) = n
          /\ \A i \in 1..n : SubSeq(l, 1, n)[i] = l[i]
      BY <2>1, <2>2
    <3> QED BY <2>3, <3>1
  <2>5. /\ ~In(h, k, {"push"}) /\ ~In(h, k, {"push"})' /\ ~In(h, k, Pushing) /\ ~In(h, k, Pushing)'
        /\ In(h, k, {"trim"}) /\ ~In(h, k, {"trim"})' /\ In(h, k, Pushed) /\ In(h, k, Pushed)'
    BY <1>1, <1>2, <1>3 DEF In, Pushing, Pushed
  <2>6. q' = q /\ p' = p /\ t' = t - 1 /\ e' = e /\ t >= 1
    BY <1>2, <2>5, StepCounts
  <2>7. q \in Nat /\ p \in Nat /\ t \in Nat /\ Handlers \in Nat
    BY <1>2, StepCounts
  <2>8. q + t <= Handlers
    <3>1. {"push"} \cap {"trim"} = {}
      OBVIOUS
    <3> QED BY <3>1, CountBounded
  <2>9. IsNewest(k)'
    <3>1. Len(l) <= Len(a) /\ \A i \in 1..Len(l) : l[i] = a[Len(a) - i + 1]
      BY DEF Overruns, IsNewest
    <3>2. Len(a) \in Nat
      BY ClientIs
    <3>3. n <= Len(a) /\ \A i \in 1..n : i \in 1..Len(l)
      <4> HIDE DEF l, a
      <4> QED BY <2>1, <2>2, <3>1, <3>2
    <3>4. \A i \in 1..n : list'[k][i] = a[Len(a) - i + 1]
      BY <2>4, <3>1, <3>3
    <3>5. list'[k] = <<>> => l = <<>>
      <4>1. list'[k] = <<>> => n = 0
        BY <2>4
      <4> QED BY <2>1, <2>2, <4>1
    <3>6. l = <<>> => expireAt'[k] = 0
      BY <1>1 DEF Overruns, IsNewest
    <3> HIDE DEF l
    <3> QED BY <1>1, <2>4, <3>3, <3>4, <3>5, <3>6 DEF IsNewest
  <2>10. Fits(k)'
    <3>1. Len(l) + q <= MaxRequestNum + Handlers - 1 + t
      BY DEF Overruns, Fits
    <3>2. n + q <= MaxRequestNum + Handlers - 1 + (t - 1)
      <4> HIDE DEF q, p, t, e, a, l
      <4> QED BY <2>1, <2>2, <2>6, <2>7, <2>8, <3>1
    <3> QED BY <2>4, <2>6, <3>2 DEF Fits
  <2>11. Begun(k)'
    <3>1. ASSUME n < MaxRequestNum
          PROVE  n = Len(l) /\ Recent(a, Len(l) + Handlers)
      BY <2>2, <3>1 DEF Overruns, Begun
    <3> QED BY <1>1, <2>4, <3>1 DEF Begun, Recent
  <2>12. InOrder(a)' /\ Renewed(k)' /\ Room(k)'
    BY <1>1, <2>6 DEF Overruns, InOrder, Renewed, Room, Recent
  <2> QED BY <1>1, <2>9, <2>10, <2>11, <2>12, OverrunsFrom DEF Overruns
<1>4. CASE thread[h].key # k
  <2>1. ~In(h, k, Commands \ {"idle"}) /\ ~In(h, k, Commands \ {"idle"})'
    BY <1>2, <1>4 DEF In
  <2>2. list'[k] = list[k]
    BY <1>4 DEF RedisLTrim, LimitTypeOK
  <2> QED BY <1>1, <1>2, <2>1, <2>2, OthersKeep DEF Alone
<1> QED BY <1>3, <1>4

\* EXPIRE renews a key that is there.
LEMMA ExpireOverruns ==
  ASSUME LimitTypeOK, LimitTypeOK', IsFiniteSet(Handler), NEW h \in Handler, NEW k \in Client,
         Overruns(k), RedisExpire(h)
  PROVE  Overruns(k)'
<1>1. thread[h].pc \in {"expire", "refuse"} /\ Send(h, "idle") /\ UNCHANGED <<clock, list, admitted>>
  BY DEF RedisExpire
<1>2. Alone(h) /\ thread'[h].pc = "idle" /\ thread'[h].key = thread[h].key
  BY <1>1, SendGoes DEF Goes
<1>3. CASE thread[h].key = k
  <2> DEFINE a == admitted[k]
             l == list[k]
             e == Count(k, Pushed)
  <2>1. /\ \A pcs \in {{"push"}, {"trim"}, Pushing} : ~In(h, k, pcs) /\ ~In(h, k, pcs)'
    BY <1>1, <1>2 DEF In, Pushing
  <2>2. \A pcs \in {{"push"}, {"trim"}, Pushing} : Count(k, pcs)' = Count(k, pcs)
    BY <1>2, <2>1, StepCounts
  <2>3. /\ Count(k, {"push"})' = Count(k, {"push"}) /\ Count(k, {"trim"})' = Count(k, {"trim"})
        /\ Count(k, Pushing)' = Count(k, Pushing)
    BY <2>2
  <2>4. expireAt'[k] = IF l = <<>> THEN expireAt[k] ELSE clock + Expiration
    BY <1>3 DEF RedisExpire, LimitTypeOK
  <2>5. IsNewest(k)' /\ InOrder(a)' /\ Fits(k)' /\ Begun(k)' /\ Room(k)'
    BY <1>1, <2>3, <2>4 DEF Overruns, IsNewest, InOrder, Fits, Begun, Room, Recent
  <2>6. Renewed(k)'
    <3>1. CASE l = <<>>
      BY <2>4, <3>1 DEF Overruns, IsNewest, Renewed
    <3>2. CASE l # <<>>
      <4>1. SUFFICES ASSUME Len(a) > e'
                     PROVE  a[Len(a) - e'] + Expiration <= expireAt'[k]
        BY <1>1 DEF Renewed
      <4>2. e' \in Nat
        BY <1>2, StepCounts
      <4>3. Len(a) \in Nat /\ Expiration \in Nat /\ clock \in Nat
        BY ClientIs
      <4> HIDE DEF a, e, l
      <4>4. Len(a) - e' \in 1..Len(a)
        BY <4>1, <4>2, <4>3
      <4>5. a[Len(a) - e'] <= clock /\ a[Len(a) - e'] \in Nat
        BY <4>4, ClientIs DEF Overruns, InOrder, a
      <4> QED BY <2>4, <3>2, <4>3, <4>5
    <3> QED BY <3>1, <3>2
  <2> QED BY <1>1, <2>5, <2>6, OverrunsFrom DEF Overruns
<1>4. CASE thread[h].key # k
  <2>1. ~In(h, k, Commands \ {"idle"}) /\ ~In(h, k, Commands \ {"idle"})'
    BY <1>2, <1>4 DEF In
  <2>2. expireAt'[k] = expireAt[k]
    BY <1>4 DEF RedisExpire, LimitTypeOK
  <2> QED BY <1>1, <1>2, <2>1, <2>2, OthersKeep DEF Alone
<1> QED BY <1>3, <1>4

\* What was recent of a history is, with one request more.
LEMMA RecentAppend ==
  ASSUME NEW a \in Seq(Nat), clock \in Nat, NEW b \in Nat, Recent(a, b)
  PROVE  Recent(Append(a, clock), b + 1)
<1> DEFINE s == Append(a, clock)
<1>1. Len(s) = Len(a) + 1 /\ Len(a) \in Nat /\ \A i \in 1..Len(a) : s[i] = a[i]
  OBVIOUS
<1> HIDE DEF s
<1>2. SUFFICES ASSUME Len(s) > b + 1
               PROVE  clock - s[Len(s) - (b + 1)] >= Duration
  BY DEF Recent, s
<1>3. Len(a) > b /\ Len(s) - (b + 1) = Len(a) - b /\ Len(a) - b \in 1..Len(a)
  BY <1>1, <1>2
<1> QED BY <1>1, <1>3 DEF Recent

\* A handler that is let through.
LEMMA LPushOverruns ==
  ASSUME LimitTypeOK, LimitTypeOK', IsFiniteSet(Handler), NEW h \in Handler, NEW k \in Client,
         Overruns(k), RedisLPush(h)
  PROVE  Overruns(k)'
<1>1. /\ thread[h].pc \in Pushing /\ UNCHANGED <<clock, expireAt>>
      /\ Send(h, IF thread[h].pc = "push" THEN "expire" ELSE "trim")
  BY DEF RedisLPush, Pushing
<1>2. /\ Alone(h) /\ thread'[h].pc = (IF thread[h].pc = "push" THEN "expire" ELSE "trim")
      /\ thread'[h].key = thread[h].key
  BY <1>1, SendGoes DEF Goes
<1>3. CASE thread[h].key = k
  <2> DEFINE q == Count(k, {"push"})
             p == Count(k, Pushing)
             t == Count(k, {"trim"})
             e == Count(k, Pushed)
             a == admitted[k]
             l == list[k]
             most == MaxRequestNum + 2 * Handlers - 1
  <2>1. list'[k] = <<clock>> \o l /\ admitted'[k] = Append(a, clock)
    BY <1>3 DEF RedisLPush, LetThrough, LimitTypeOK
  <2>2. /\ a \in Seq(Nat) /\ l \in Seq(Nat) /\ clock \in Nat /\ Len(a) \in Nat /\ Len(l) \in Nat
        /\ MaxRequestNum \in Nat /\ MaxRequestNum > 0
        /\ \A i \in 1..Len(a) : a[i] \in Nat
    BY ClientIs
  <2>3. /\ Len(list'[k]) = Len(l) + 1 /\ list'[k][1] = clock /\ list'[k] # <<>>
        /\ \A i \in 1..Len(l) : list'[k][i + 1] = l[i]
    <3> HIDE DEF l
    <3>1. Len(<<clock>>) = 1 /\ <<clock>>[1] = clock /\ <<clock>> \in Seq(Nat)
      BY <2>2
    <3> QED BY <2>1, <2>2, <3>1, SMTT(30)
  <2>4. /\ Len(admitted'[k]) = Len(a) + 1 /\ admitted'[k][Len(a) + 1] = clock
        /\ \A i \in 1..Len(a) : admitted'[k][i] = a[i]
    <3> HIDE DEF a
    <3> QED BY <2>1, <2>2
  <2>5. /\ In(h, k, Pushing) /\ ~In(h, k, Pushing)' /\ ~In(h, k, Pushed) /\ In(h, k, Pushed)'
        /\ In(h, k, {"push"}) <=> thread[h].pc = "push"
        /\ ~In(h, k, {"push"})' /\ ~In(h, k, {"trim"})
        /\ In(h, k, {"trim"})' <=> thread[h].pc # "push"
    BY <1>1, <1>2, <1>3 DEF In, Pushing, Pushed
  <2>6. /\ p' = p - 1 /\ e' = e + 1 /\ p >= 1
        /\ \/ q' = q - 1 /\ t' = t
           \/ q' = q /\ t' = t + 1
    BY <1>2, <2>5, StepCounts
  <2>7. q \in Nat /\ p \in Nat /\ t \in Nat /\ e \in Nat /\ Handlers \in Nat
    BY <1>2, StepCounts
  <2>8. p <= Handlers
    <3>1. Standing(k, Pushing) \in SUBSET Handler
      BY DEF Standing
    <3> QED BY <3>1, FS_Subset DEF Count, Handlers
  <2>9. IsNewest(k)'
    <3>1. Len(l) <= Len(a) /\ \A i \in 1..Len(l) : l[i] = a[Len(a) - i + 1]
      BY DEF Overruns, IsNewest
    <3> HIDE DEF a, l
    <3>2. ASSUME NEW i \in 1..(Len(l) + 1)
          PROVE  list'[k][i] = admitted'[k][Len(a) + 1 - i + 1]
      <4>1. CASE i = 1
        BY <2>2, <2>3, <2>4, <4>1
      <4>2. CASE i # 1
        <5>1. i - 1 \in 1..Len(l) /\ (i - 1) + 1 = i /\ Len(a) - (i - 1) + 1 = Len(a) + 1 - i + 1
              /\ Len(a) - (i - 1) + 1 \in 1..Len(a)
          BY <2>2, <3>1, <4>2
        <5>2. list'[k][i] = l[i - 1]
          BY <2>3, <5>1
        <5>3. l[i - 1] = a[Len(a) - (i - 1) + 1]
          BY <3>1, <5>1
        <5> QED BY <2>4, <5>1, <5>2, <5>3
      <4> QED BY <4>1, <4>2
    <3>3. Len(l) + 1 <= Len(a) + 1
      BY <2>2, <3>1
    <3> QED BY <2>3, <2>4, <3>2, <3>3 DEF IsNewest
  <2>10. InOrder(admitted[k])'
    <3>1. InOrder(Append(a, clock))
      BY <2>2, TimesInOrder DEF Overruns
    <3> QED BY <1>1, <2>1, <3>1 DEF InOrder
  <2>11. Fits(k)'
    <3>1. Len(l) + q <= MaxRequestNum + Handlers - 1 + t
      BY DEF Overruns, Fits
    <3>2. Len(l) + 1 + q' <= MaxRequestNum + Handlers - 1 + t'
      <4> HIDE DEF q, p, t, e, a, l
      <4> QED BY <2>2, <2>6, <2>7, <3>1
    <3> QED BY <2>3, <3>2 DEF Fits
  <2>12. Renewed(k)'
    <3>1. expireAt[k] # 0 /\ Len(a) > e => a[Len(a) - e] + Expiration <= expireAt[k]
      BY DEF Overruns, Renewed
    <3>2. ASSUME Len(a) + 1 > e + 1
          PROVE  Len(a) > e /\ Len(a) + 1 - (e + 1) = Len(a) - e /\ Len(a) - e \in 1..Len(a)
      <4> HIDE DEF e, a
      <4> QED BY <2>2, <2>7, <3>2
    <3>3. expireAt[k] # 0 /\ Len(a) + 1 > e + 1 => admitted'[k][Len(a) + 1 - (e + 1)] + Expiration <= expireAt[k]
      <4> HIDE DEF e, a
      <4> QED BY <2>4, <3>1, <3>2
    <3>4. Len(admitted'[k]) = Len(a) + 1 /\ e' = e + 1 /\ expireAt'[k] = expireAt[k]
      BY <1>1, <2>4, <2>6
    <3>5. expireAt'[k] # 0 /\ Len(admitted'[k]) > e' =>
            admitted'[k][Len(admitted'[k]) - e'] + Expiration <= expireAt'[k]
      <4> HIDE DEF e, a
      <4> QED BY <3>3, <3>4
    <3> QED BY <3>5 DEF Renewed
  <2>13. Begun(k)'
    <3> DEFINE b == Len(l) + Handlers
    <3>1. SUFFICES ASSUME Len(l) + 1 < MaxRequestNum
                   PROVE  Recent(Append(a, clock), Len(l) + 1 + Handlers)
      BY <1>1, <2>1, <2>3 DEF Begun, Recent
    <3>2. Len(l) < MaxRequestNum /\ b \in Nat /\ b + 1 = Len(l) + 1 + Handlers
      <4> HIDE DEF l
      <4> QED BY <2>2, <2>7, <3>1
    <3>3. Recent(a, b)
      BY <3>2 DEF Overruns, Begun
    <3> HIDE DEF b, a, l
    <3>4. Recent(Append(a, clock), b + 1)
      BY <2>2, <3>2, <3>3, RecentAppend
    <3> QED BY <3>2, <3>4
  <2>14. Recent(a, most - p)
    <3>1. p > 0
      <4> HIDE DEF p
      <4> QED BY <2>6, <2>7
    <3> QED BY <3>1 DEF Overruns, Room
  <2>15. most \in Nat /\ most - p \in Nat /\ most > 0
    <3> HIDE DEF p
    <3> QED BY <2>2, <2>6, <2>7, <2>8
  <2>16. Room(k)'
    <3>1. most - p + 1 = most - p'
      <4> HIDE DEF p, most
      <4> QED BY <2>6, <2>7, <2>15
    <3>2. Recent(Append(a, clock), most - p + 1)
      <4> DEFINE b == most - p
      <4>1. Recent(a, b) /\ b \in Nat
        BY <2>14, <2>15
      <4> HIDE DEF a, b
      <4> QED BY <2>2, <4>1, RecentAppend DEF b
    <3>3. Recent(admitted'[k], most - p')
      BY <2>1, <3>1, <3>2
    <3>4. p' > 0 => LET s == admitted'[k] IN
            Len(s) > most - p' => clock' - s[Len(s) - (most - p')] >= Duration
      BY <1>1, <3>3 DEF Recent
    <3> QED BY <3>4 DEF Room, Recent
  <2>17. AtMost(k, 2 * Handlers - 1)'
    <3>1. Recent(a, most - 1)
      <4> HIDE DEF a, p, most
      <4>1. most - 1 \in Nat /\ most - p <= most - 1
        BY <2>6, <2>7, <2>15
      <4>2. InOrder(a)
        BY DEF Overruns, a
      <4> QED BY <2>2, <2>14, <2>15, <4>1, <4>2, RecentMore
    <3> HIDE DEF a
    <3>2. Len(a) >= most => clock - a[Len(a) - most + 1] >= Duration
      <4> HIDE DEF most
      <4>1. Len(a) >= most => Len(a) > most - 1 /\ Len(a) - (most - 1) = Len(a) - most + 1
        BY <2>2, <2>15
      <4> QED BY <3>1, <4>1 DEF Recent
    <3>3. /\ \A i \in Int : i + MaxRequestNum + (2 * Handlers - 1) = i + most
          /\ \A i \in Int : i - MaxRequestNum - (2 * Handlers - 1) = i - most
      BY <2>2, <2>7
    <3> HIDE DEF most
    <3>4. \A i \in 1..(Len(a) - most) : a[i + most] - a[i] >= Duration
      <4>1. \A i \in 1..(Len(a) - MaxRequestNum - (2 * Handlers - 1)) :
              a[i + MaxRequestNum + (2 * Handlers - 1)] - a[i] >= Duration
        BY DEF Overruns, AtMost, a
      <4>2. Len(a) - MaxRequestNum - (2 * Handlers - 1) = Len(a) - most
        BY <2>2, <3>3
      <4>3. ASSUME NEW i \in 1..(Len(a) - most)
            PROVE  a[i + most] - a[i] >= Duration
        <5>1. i + MaxRequestNum + (2 * Handlers - 1) = i + most
          BY <3>3
        <5> QED BY <4>1, <4>2, <5>1
      <4> QED BY <4>3
    <3> DEFINE s == Append(a, clock)
    <3>5. \A i \in 1..(Len(s) - most) : s[i + most] - s[i] >= Duration
      <4>1. most \in Nat \ {0}
        BY <2>15
      <4> HIDE DEF s
      <4>2. LET b == Append(a, clock) IN
            \A i \in 1..(Len(b) - most) : b[i + most] - b[i] >= Duration
        BY <2>2, <3>2, <3>4, <4>1, SpreadKept
      <4> QED BY <4>2 DEF s
    <3>6. admitted'[k] = s /\ Len(s) \in Int
      BY <2>1, <2>2 DEF a
    <3> HIDE DEF s
    <3>7. \A i \in 1..(Len(s) - MaxRequestNum - (2 * Handlers - 1)) :
            s[i + MaxRequestNum + (2 * Handlers - 1)] - s[i] >= Duration
      BY <3>3, <3>5, <3>6
    <3> QED BY <3>6, <3>7 DEF AtMost
  <2> QED BY <2>9, <2>10, <2>11, <2>12, <2>13, <2>16, <2>17 DEF Overruns
<1>4. CASE thread[h].key # k
  <2>1. ~In(h, k, Commands \ {"idle"}) /\ ~In(h, k, Commands \ {"idle"})'
    BY <1>2, <1>4 DEF In
  <2>2. list'[k] = list[k] /\ admitted'[k] = admitted[k]
    BY <1>4 DEF RedisLPush, LetThrough, LimitTypeOK
  <2> QED BY <1>1, <1>2, <2>1, <2>2, OthersKeep DEF Alone
<1> QED BY <1>3, <1>4

-----------------------------------------------------------------------------
LEMMA RedisInitHolds == IsFiniteSet(Handler) /\ LimitInit => RedisInv
<1> SUFFICES ASSUME IsFiniteSet(Handler), LimitInit, NEW k \in Client
             PROVE  Overruns(k)
  BY DEF RedisInv
<1>1. list[k] = <<>> /\ admitted[k] = <<>> /\ expireAt[k] = 0 /\ Len(<<>>) = 0
  BY DEF LimitInit
<1>2. \A h \in Handler : thread[h].pc = "idle"
  BY DEF LimitInit
<1>3. Standing(k, {"push"}) = {} /\ Standing(k, Pushing) = {} /\ Standing(k, {"trim"}) = {}
  BY <1>2 DEF Standing, Pushing
<1>4. Count(k, {"push"}) = 0 /\ Count(k, Pushing) = 0 /\ Count(k, {"trim"}) = 0
  BY <1>3, FS_EmptySet DEF Count
<1>5. Handlers \in Nat /\ MaxRequestNum \in Nat /\ MaxRequestNum > 0
  BY FS_CardinalityType, LimitAssumption DEF Handlers
<1>6. IsNewest(k) /\ InOrder(admitted[k]) /\ Renewed(k) /\ Room(k)
  BY <1>1, <1>4 DEF IsNewest, InOrder, Renewed, Room
<1>7. Fits(k)
  BY <1>1, <1>4, <1>5 DEF Fits
<1>8. Begun(k) /\ AtMost(k, 2 * Handlers - 1)
  <2>1. ~(0 > Handlers) /\ 0 + Handlers = Handlers
    BY <1>5
  <2>2. 1..(0 - MaxRequestNum - (2 * Handlers - 1)) = {}
    <3>1. 0 - MaxRequestNum - (2 * Handlers - 1) <= 0 /\ 0 - MaxRequestNum - (2 * Handlers - 1) \in Int
      BY <1>5
    <3> QED BY <3>1
  <2> QED BY <1>1, <2>1, <2>2 DEF Begun, Recent, AtMost
<1> QED BY <1>6, <1>7, <1>8 DEF Overruns

LEMMA RedisInvKept ==
  ASSUME IsFiniteSet(Handler), LimitInv, LimitInv', RedisInv, [LimitNext]_limitVars
  PROVE  RedisInv'
<1>1. LimitTypeOK /\ LimitTypeOK'
  BY DEF LimitInv
<1>2. UNCHANGED redisEnabled
  BY DEF LimitNext, LimitTick, clearExpiredItems, Request, RedisLLen, RedisLIndex, RedisLPush,
         RedisLTrim, RedisExpire, limitVars
<1> SUFFICES ASSUME redisEnabled, NEW k \in Client
             PROVE  Overruns(k)'
  BY <1>2 DEF RedisInv
<1>3. Overruns(k)
  BY DEF RedisInv
<1>4. CASE LimitTick
  BY <1>1, <1>3, <1>4, TickOverruns
<1>5. ASSUME NEW h \in Handler, RedisLLen(h)
      PROVE  Overruns(k)'
  BY <1>1, <1>3, <1>5, LLenOverruns
<1>6. ASSUME NEW h \in Handler, RedisLIndex(h)
      PROVE  Overruns(k)'
  BY <1>1, <1>3, <1>6, LIndexOverruns
<1>7. ASSUME NEW h \in Handler, RedisLPush(h)
      PROVE  Overruns(k)'
  BY <1>1, <1>3, <1>7, LPushOverruns
<1>8. ASSUME NEW h \in Handler, RedisLTrim(h)
      PROVE  Overruns(k)'
  BY <1>1, <1>3, <1>8, LTrimOverruns
<1>9. ASSUME NEW h \in Handler, RedisExpire(h)
      PROVE  Overruns(k)'
  BY <1>1, <1>3, <1>9, ExpireOverruns
<1>10. CASE UNCHANGED limitVars
  <2>1. \A pcs : Count(k, pcs)' = Count(k, pcs)
    BY <1>10 DEF limitVars, Count, Standing
  <2>2. UNCHANGED <<clock, list, expireAt, admitted>>
    BY <1>10 DEF limitVars
  <2>3. /\ Count(k, {"push"})' = Count(k, {"push"}) /\ Count(k, {"trim"})' = Count(k, {"trim"})
        /\ Count(k, Pushing)' = Count(k, Pushing) /\ Count(k, Pushed)' = Count(k, Pushed)
    BY <2>1
  <2>4. IsNewest(k)' /\ InOrder(admitted[k])' /\ Fits(k)' /\ Renewed(k)' /\ Begun(k)' /\ Room(k)'
    BY <1>3, <2>2, <2>3 DEF Overruns, IsNewest, InOrder, Fits, Renewed, Begun, Room, Recent
  <2> QED BY <1>3, <2>2, <2>4, OverrunsFrom DEF Overruns
<1>11. ~clearExpiredItems /\ \A c \in Client : ~Request(c)
  BY DEF clearExpiredItems, Request
<1> QED BY <1>4, <1>5, <1>6, <1>7, <1>8, <1>9, <1>10, <1>11 DEF LimitNext

\* Through Redis a window is overrun by at most two requests of each handler in the
\* middleware, but for one, however its commands interleave with other handlers' and
\* with the expiry of the key (middleware/rate-limit.go, redisRateLimiter).
THEOREM OverrunBounded ==
  ASSUME IsFiniteSet(Handler)
  PROVE  LimitSpec => []BoundedOverrun
<1>1. RedisInv => BoundedOverrun
  BY DEF RedisInv, Overruns, BoundedOverrun, Handlers
<1>2. LimitInit => RedisInv
  BY RedisInitHolds
<1>3. LimitInv /\ LimitInv' /\ RedisInv /\ [LimitNext]_limitVars => RedisInv'
  BY RedisInvKept
<1> QED BY <1>1, <1>2, <1>3, LimitInvariant, PTL DEF LimitSpec
=============================================================================
