------------------------- MODULE RelayFallbackProofs -------------------------
(***************************************************************************)
(* Proofs about the fallback loop, for any requests, channels, models,     *)
(* retry budgets and clocks.                                               *)
(***************************************************************************)
EXTENDS RelayFallbackProperties, FiniteSetTheorems, TLAPS

USE RequestAssumption, ChannelAssumption, ConfigAssumption

\* A handler that calls a channel has one.
CallsChannels == \A r \in Request : req[r].pc = "call" => req[r].ch \in Channel

\* A handler that moves, or begins to scan, keeps its type.
LEMMA HandlerType ==
  ASSUME NEW q \in ReqState, NEW pc \in Pcs, NEW todo \in SUBSET Channel,
         NEW b \in BOOLEAN, NEW cand \in SUBSET Channel
  PROVE  /\ [q EXCEPT !.pc = pc] \in ReqState
         /\ [q EXCEPT !.pc = pc, !.backup = b, !.cand = cand, !.todo = todo] \in ReqState
<1>1. [q EXCEPT !.pc = pc] \in ReqState
  BY DEF ReqState
<1>2. [q EXCEPT !.pc = pc, !.backup = b, !.cand = cand, !.todo = todo] \in ReqState
  BY DEF ReqState
<1> QED BY <1>1, <1>2

\* Goto keeps the type of the handler.
LEMMA GotoTypes ==
  ASSUME TypeOK, NEW r \in Request, NEW pc \in Pcs, Goto(r, pc)
  PROVE  req' \in [Request -> ReqState] /\ req'[r] = [req[r] EXCEPT !.pc = pc] 
<1>2. req' = [req EXCEPT ![r] = [req[r] EXCEPT !.pc = pc]]
  BY DEF Goto, TypeOK
<1>3. req \in [Request -> ReqState]
  BY DEF TypeOK
<1> QED BY <1>2, <1>3, HandlerType

\* Scan looks at channels only.
LEMMA ScanTypes ==
  ASSUME TypeOK, NEW r \in Request, NEW b \in BOOLEAN, Scan(r, b)
  PROVE  req' \in [Request -> ReqState]
<1> DEFINE todo == Pool(GroupNow(r, b), ModelOf[r]) \ req[r].used
<1>1. todo \in SUBSET Channel
  BY DEF Pool, TypeOK
<1>2. req' = [req EXCEPT ![r] =
         [req[r] EXCEPT !.pc = "scan", !.backup = b, !.cand = {}, !.todo = todo]]
  BY DEF Scan, TypeOK
<1>3. req \in [Request -> ReqState] /\ "scan" \in Pcs
  BY DEF TypeOK, Pcs
<1> HIDE DEF todo
<1> QED BY <1>1, <1>2, <1>3, HandlerType

\* What isCooldown finds expired is in the store.
LEMMA SeenTypes ==
  ASSUME NEW c \in Channel, NEW r \in Request
  PROVE  SeenExpired(c, ModelOf[r]) \in SUBSET CoolKey
BY DEF SeenExpired, CoolKey

\* An answer is an outcome, or that there is no channel.
LEMMA DoneTypes ==
  ASSUME TypeOK, NEW r \in Request, NEW o \in Outcome \cup {"noChannel", NoOutcome}, Done(r, o)
  PROVE  /\ req' \in [Request -> ReqState]
         /\ answer' \in [Request -> Outcome \cup {NoOutcome, "noChannel"}]
<1>1. req' \in [Request -> ReqState]
  BY GotoTypes DEF Done, Pcs
<1> QED BY <1>1 DEF Done, TypeOK

\* A handler's entry changed from q to another of its type.
LEMMA EntryTypes ==
  ASSUME TypeOK, NEW r \in Request, NEW q \in ReqState, req' = [req EXCEPT ![r] = q]
  PROVE  req' \in [Request -> ReqState]
BY DEF TypeOK

\* SoftBan stores times under keys of the store.
LEMMA SoftBanTypes ==
  ASSUME TypeOK, NEW c \in Channel, NEW r \in Request, NEW s \in Nat
  PROVE  /\ SoftBan(c, ModelOf[r], s) \in [CoolKey -> Nat]
         /\ <<c, ModelOf[r]>> \in CoolKey
<1>1. <<c, AnyModel>> \in CoolKey /\ <<c, ModelOf[r]>> \in CoolKey
  BY DEF CoolKey
<1>2. now + s \in Nat
  BY DEF TypeOK
<1> QED BY <1>1, <1>2 DEF SoftBan, TypeOK

-----------------------------------------------------------------------------
\* Every step of a handler keeps the types.
LEMMA HandlerTypes ==
  ASSUME TypeOK, CallsChannels, NEW r \in Request, Handler(r)
  PROVE  TypeOK'
<1>q. req[r] \in ReqState /\ KeyOf(r) \in Key
  BY DEF TypeOK, Key, KeyOf
<1>1. CASE Arrive(r)
  <2>1. affinity[KeyOf(r)].ch \in Channel \cup {NoChannel}
    BY <1>q DEF TypeOK
  <2>2. [req[r] EXCEPT !.pc = "verify", !.ch = affinity[KeyOf(r)].ch] \in ReqState
    BY <1>q, <2>1 DEF ReqState, Pcs
  <2>3. req' \in [Request -> ReqState]
    <3>1. CASE Scan(r, FALSE)
      BY <3>1, ScanTypes
    <3>2. CASE Goto(r, "unstick")
      BY <3>2, GotoTypes DEF Pcs
    <3>3. CASE req' = [req EXCEPT ![r].pc = "verify", ![r].ch = affinity[KeyOf(r)].ch]
      BY <3>3, <2>2, EntryTypes DEF TypeOK
    <3> QED BY <1>1, <3>1, <3>2, <3>3 DEF Arrive
  <2> QED BY <1>1, <2>3 DEF Arrive, TypeOK, store, history
<1>2. CASE ArrivePinned(r)
  <2> SUFFICES ASSUME NEW c \in Channel,
                 \/ /\ req' = [req EXCEPT ![r].pc = "call", ![r].ch = c]
                    /\ UNCHANGED answer
                 \/ Done(r, "noChannel")
               PROVE  TypeOK'
    BY <1>2 DEF ArrivePinned
  <2>1. [req[r] EXCEPT !.pc = "call", !.ch = c] \in ReqState
    BY <1>q DEF ReqState, Pcs
  <2>2. /\ req' \in [Request -> ReqState]
        /\ answer' \in [Request -> Outcome \cup {NoOutcome, "noChannel"}]
    <3>1. CASE Done(r, "noChannel")
      BY <3>1, DoneTypes
    <3>2. CASE req' = [req EXCEPT ![r].pc = "call", ![r].ch = c] /\ UNCHANGED answer
      BY <3>2, <2>1, EntryTypes DEF TypeOK
    <3> QED BY <3>1, <3>2
  <2> QED BY <1>2, <2>2 DEF ArrivePinned, TypeOK, store, history
<1>3. CASE Verify(r)
  <2> DEFINE dels == IF req[r].ch \in enabled THEN SeenExpired(req[r].ch, ModelOf[r]) ELSE {}
             q == [req[r] EXCEPT !.pc = Verdict(req[r].ch, ModelOf[r]), !.dels = dels]
  <2>1. dels \in SUBSET CoolKey
    BY SeenTypes DEF TypeOK
  <2>2. Verdict(req[r].ch, ModelOf[r]) \in Pcs
    BY DEF Verdict, Pcs
  <2>3. q \in ReqState
    <3> HIDE DEF dels
    <3> QED BY <1>q, <2>1, <2>2 DEF ReqState
  <2>4. req' = [req EXCEPT ![r] = q]
    BY <1>3 DEF Verify, TypeOK
  <2> HIDE DEF q
  <2>5. req' \in [Request -> ReqState]
    BY <2>3, <2>4, EntryTypes
  <2>6. UNCHANGED <<now, store, cool, sweep, affinity, answer, reports, history>>
    BY <1>3 DEF Verify
  <2> QED BY <2>5, <2>6 DEF TypeOK, store, history
<1>4. CASE Unstick(r)
  <2>1. affinity' \in [Key -> [ch: Channel \cup {NoChannel}, exp: Nat]]
    BY <1>4, <1>q DEF Unstick, TypeOK, NoEntry
  <2> QED BY <1>4, <2>1, ScanTypes DEF Unstick, TypeOK, store, history
<1>5. CASE Look(r)
  <2> DEFINE again(c) == Expired(<<c, AnyModel>>)
             q(c) == [req[r] EXCEPT
               !.dels = SeenExpired(c, ModelOf[r]),
               !.todo = IF again(c) THEN req[r].todo ELSE req[r].todo \ {c},
               !.cand = IF ~again(c) /\ Eligible(r, c) THEN req[r].cand \cup {c} ELSE req[r].cand]
  <2>1. PICK c \in req[r].todo : req' = [req EXCEPT ![r] = q(c)]
    BY <1>5, ZenonT(40) DEF Look, TypeOK
  <2>2. c \in Channel
    BY <1>q DEF ReqState
  <2>3. q(c) \in ReqState
    BY <1>q, <2>2, SeenTypes DEF ReqState
  <2> HIDE DEF q
  <2> QED BY <1>5, <2>1, <2>3, EntryTypes DEF Look, TypeOK, store, history
<1>6. CASE Forget(r)
  <2>1. PICK k \in req[r].dels :
          /\ cool' = [cool EXCEPT ![k] = 0]
          /\ req' = [req EXCEPT ![r].dels = @ \ {k}]
    BY <1>6 DEF Forget
  <2>2. [req[r] EXCEPT !.dels = @ \ {k}] \in ReqState
    BY <1>q DEF ReqState
  <2>3. req' \in [Request -> ReqState]
    BY <2>1, <2>2, EntryTypes DEF TypeOK
  <2> QED BY <1>6, <2>1, <2>3 DEF Forget, TypeOK, store, history
<1>7. CASE Choose(r)
  <2>1. PICK c \in Top(req[r].cand) : req' = [req EXCEPT ![r].pc = "call", ![r].ch = c]
    BY <1>7 DEF Choose
  <2>2. c \in Channel
    BY <1>q DEF ReqState, Top
  <2>3. [req[r] EXCEPT !.pc = "call", !.ch = c] \in ReqState
    BY <1>q, <2>2 DEF ReqState, Pcs
  <2>4. req' \in [Request -> ReqState]
    BY <2>1, <2>3, EntryTypes DEF TypeOK
  <2> QED BY <1>7, <2>4 DEF Choose, TypeOK, store, history
<1>8. CASE Exhausted(r)
  <2>0. req[r].last \in Outcome \cup {NoOutcome}
    BY <1>q DEF ReqState
  <2>1. /\ req' \in [Request -> ReqState]
        /\ answer' \in [Request -> Outcome \cup {NoOutcome, "noChannel"}]
    <3>1. CASE Done(r, "noChannel")
      BY <3>1, DoneTypes
    <3>2. CASE Scan(r, TRUE) /\ UNCHANGED answer
      BY <3>2, ScanTypes DEF TypeOK
    <3>3. CASE Done(r, req[r].last)
      BY <3>3, <2>0, DoneTypes
    <3> QED BY <1>8, <3>1, <3>2, <3>3 DEF Exhausted
  <2> QED BY <1>8, <2>1 DEF Exhausted, TypeOK, store, history
<1>9. CASE Succeed(r)
  <2>1. req[r].ch \in Channel
    BY <1>9 DEF Succeed, CallsChannels
  <2>2. [req[r] EXCEPT !.pc = "done", !.used = @ \cup {req[r].ch}, !.last = "ok"] \in ReqState
    BY <1>q, <2>1 DEF ReqState, Pcs, Outcome
  <2>3. req' \in [Request -> ReqState]
    BY <1>9, <2>2, EntryTypes DEF Succeed, TypeOK
  <2>4. affinity' \in [Key -> [ch: Channel \cup {NoChannel}, exp: Nat]]
    BY <1>9, <1>q, <2>1 DEF Succeed, TypeOK
  <2>5. answer' \in [Request -> Outcome \cup {NoOutcome, "noChannel"}]
    BY <1>9 DEF Succeed, TypeOK, Outcome
  <2> QED BY <1>9, <1>q, <2>1, <2>3, <2>4, <2>5 DEF Succeed, TypeOK, store
<1>10. ASSUME NEW o \in Failures, NEW s \in RetryAfters \cup {0}, Fail(r, o, s)
       PROVE  TypeOK'
  <2>1. req[r].ch \in Channel /\ s \in Nat /\ o \in Outcome
    BY <1>10 DEF Fail, Failed, CallsChannels
  <2>2. [req[r] EXCEPT !.pc = IF First(r) THEN "decide" ELSE "again",
                       !.first = IF First(r) THEN req[r].ch ELSE @,
                       !.used = @ \cup {req[r].ch}, !.last = o] \in ReqState
    BY <1>q, <2>1 DEF ReqState, Pcs
  <2>3. req' \in [Request -> ReqState]
    BY <1>10, <2>2, EntryTypes DEF Fail, Failed, TypeOK
  <2>4. affinity' \in [Key -> [ch: Channel \cup {NoChannel}, exp: Nat]]
    BY <1>10, <1>q DEF Fail, TypeOK, NoEntry
  <2>5. cool' \in [CoolKey -> Nat]
    BY <1>10, <2>1, SoftBanTypes DEF Fail, Failed
  <2>6. promised' \in [CoolKey -> Nat]
    BY <1>10, <2>1, SoftBanTypes DEF Fail, Failed, TypeOK
  <2>7. reports' \subseteq Request \X Channel
    BY <1>10, <2>1 DEF Fail, Failed, TypeOK
  <2>8. failed' \subseteq Channel /\ earned' \subseteq Key \X Channel
    BY <1>10, <2>1 DEF Fail, Failed, TypeOK
  <2>9. UNCHANGED <<now, enabled, cached, snapshot, sweep, answer>>
    BY <1>10 DEF Fail, Failed, store
  <2> QED BY <2>3, <2>4, <2>5, <2>6, <2>7, <2>8, <2>9 DEF TypeOK, store
<1>11. CASE Decide(r)
  <2>0. now + RetryTimeOut \in Nat /\ req[r].last \in Outcome \cup {NoOutcome}
    BY <1>q DEF TypeOK, ReqState
  <2>1. [req[r] EXCEPT !.pc = "loop", !.left = RetryTimes, !.deadline = now + RetryTimeOut]
          \in ReqState
    BY <1>q, <2>0 DEF ReqState, Pcs
  <2>2. /\ req' \in [Request -> ReqState]
        /\ answer' \in [Request -> Outcome \cup {NoOutcome, "noChannel"}]
    <3>1. CASE Done(r, req[r].last)
      BY <3>1, <2>0, DoneTypes
    <3>2. CASE /\ req' = [req EXCEPT ![r].pc = "loop", ![r].left = RetryTimes,
                                     ![r].deadline = now + RetryTimeOut]
               /\ UNCHANGED answer
      BY <3>2, <2>1, EntryTypes DEF TypeOK
    <3> QED BY <1>11, <3>1, <3>2 DEF Decide
  <2> QED BY <1>11, <2>2 DEF Decide, TypeOK, store, history
<1>12. CASE Again(r)
  <2>0. req[r].last \in Outcome \cup {NoOutcome}
    BY <1>q DEF ReqState
  <2>1. [req[r] EXCEPT !.pc = "loop", !.left = @ - 1] \in ReqState
    <3>1. req[r].left - 1 \in Int /\ "loop" \in Pcs
      BY <1>q DEF ReqState, Pcs
    <3>2. \A n \in Int : [req[r] EXCEPT !.pc = "loop", !.left = n] \in ReqState
      BY <1>q, <3>1 DEF ReqState
    <3> QED BY <3>1, <3>2
  <2>2. /\ req' \in [Request -> ReqState]
        /\ answer' \in [Request -> Outcome \cup {NoOutcome, "noChannel"}]
    <3>1. CASE Done(r, req[r].last)
      BY <3>1, <2>0, DoneTypes
    <3>2. CASE /\ req' = [req EXCEPT ![r].pc = "loop", ![r].left = @ - 1]
               /\ UNCHANGED answer
      BY <3>2, <2>1, EntryTypes DEF TypeOK
    <3> QED BY <1>12, <3>1, <3>2 DEF Again
  <2> QED BY <1>12, <2>2 DEF Again, TypeOK, store, history
<1>13. CASE Loop(r)
  <2>0. req[r].last \in Outcome \cup {NoOutcome}
    BY <1>q DEF ReqState
  <2>1. /\ req' \in [Request -> ReqState]
        /\ answer' \in [Request -> Outcome \cup {NoOutcome, "noChannel"}]
    <3>1. CASE Scan(r, FALSE) /\ UNCHANGED answer
      BY <3>1, ScanTypes DEF TypeOK
    <3>2. CASE Done(r, req[r].last)
      BY <3>2, <2>0, DoneTypes
    <3> QED BY <1>13, <3>1, <3>2 DEF Loop
  <2> QED BY <1>13, <2>1 DEF Loop, TypeOK, store, history
<1> QED BY <1>1, <1>2, <1>3, <1>4, <1>5, <1>6, <1>7, <1>8, <1>9, <1>10, <1>11, <1>12,
           <1>13 DEF Handler

\* So does every other step, and none of them touches a handler.
LEMMA WorldTypes ==
  ASSUME TypeOK, World
  PROVE  TypeOK' /\ UNCHANGED <<req, answer>>
<1>1. ASSUME NEW r \in Request, NEW c \in Channel, Report(r, c)
      PROVE  TypeOK' /\ UNCHANGED <<req, answer>>
  BY <1>1 DEF Report, TypeOK, history
<1>2. ASSUME NEW c \in Channel, Reenable(c)
      PROVE  TypeOK' /\ UNCHANGED <<req, answer>>
  BY <1>2 DEF Reenable, TypeOK, history
<1>3. CASE SyncRead
  BY <1>3 DEF SyncRead, TypeOK, history
<1>4. CASE SyncPublish
  BY <1>4 DEF SyncPublish, TypeOK, history
<1>5. CASE SweepLook
  BY <1>5 DEF SweepLook, TypeOK, store, history
<1>6. CASE SweepForget
  BY <1>6 DEF SweepForget, TypeOK, store, history
<1>7. CASE CleanupAffinity
  <2>1. affinity' \in [Key -> [ch: Channel \cup {NoChannel}, exp: Nat]]
    BY <1>7 DEF CleanupAffinity, TypeOK, NoEntry
  <2> QED BY <1>7, <2>1 DEF CleanupAffinity, TypeOK, store, history
<1>8. CASE Tick
  BY <1>8 DEF Tick, TypeOK, store, history
<1> QED BY <1>1, <1>2, <1>3, <1>4, <1>5, <1>6, <1>7, <1>8 DEF World
-----------------------------------------------------------------------------
(***************************************************************************)
(* The fallback loop implements Relayed.                                   *)
(*                                                                         *)
(* What a request has left of its budget at each place of the loop, and    *)
(* that what it scans and calls it has not tried before.                   *)
(***************************************************************************)
Fresh(r) ==
  /\ req[r].pc = "scan" => (req[r].todo \cup req[r].cand) \cap req[r].used = {}
  /\ req[r].pc = "call" => req[r].ch \in Channel \ req[r].used

MayTry(r, tries) ==
  RetryTimes > 0 /\ req[r].last \in Retryable /\ Cardinality(req[r].used) + req[r].left <= tries

Budget(r) ==
  /\ IsFiniteSet(req[r].used)
  /\ req[r].pc \in {"idle", "verify", "unstick"} => req[r].used = {}
  /\ req[r].pc \in {"decide", "again", "loop"} => req[r].used # {}
  /\ req[r].pc = "decide" => Cardinality(req[r].used) = 1
  /\ req[r].pc = "again" => RetryTimes > 0 /\ Cardinality(req[r].used) + req[r].left <= 2 + RetryTimes
  /\ req[r].pc \in {"scan", "call", "loop"} /\ req[r].used # {} => MayTry(r, 1 + RetryTimes)
  /\ req[r].pc \in {"scan", "call"} /\ req[r].used # {} => req[r].left > 0

Unanswered(r) == req[r].pc # "done" => answer[r] = NoOutcome

Tries(r) == Fresh(r) /\ Budget(r) /\ Unanswered(r)

OthersStay(r) == \A s \in Request \ {r} : req'[s] = req[s] /\ answer'[s] = answer[s]
TriesStay(r) == req'[r].used = req[r].used /\ req'[r].last = req[r].last

\* A step that asks no channel and answers nobody is none of Relayed's.
LEMMA Stutters ==
  ASSUME TypeOK, TypeOK', NEW r \in Request, OthersStay(r), TriesStay(r), answer' = answer
  PROVE  UNCHANGED R!vars
<1>1. tried' = tried
  BY DEF tried, OthersStay, TriesStay
<1>2. last' = last
  BY DEF last, OthersStay, TriesStay
<1> QED BY <1>1, <1>2 DEF R!vars

\* A handler that is done has answered with its last outcome, or found no channel.
LEMMA DoneGivesUp ==
  ASSUME TypeOK, TypeOK', NEW r \in Request, NEW o, Done(r, o), Tries(r), req[r].pc # "done",
         \/ req[r].used = {} /\ o = "noChannel"
         \/ req[r].used # {} /\ o = req[r].last
  PROVE  OthersStay(r) /\ Tries(r)' /\ R!GiveUp(r)
<1>1. req'[r] = [req[r] EXCEPT !.pc = "done"]
  BY DEF Done, Goto, TypeOK
<1>2. req'[r].pc = "done" /\ TriesStay(r)
  BY <1>1 DEF TypeOK, ReqState, TriesStay
<1>3. OthersStay(r)
  BY DEF Done, Goto, TypeOK, OthersStay
<1>4. Tries(r)'
  BY <1>2 DEF Tries, Fresh, Budget, Unanswered, TriesStay
<1>5. tried' = tried /\ last' = last
  BY <1>2, <1>3 DEF tried, last, OthersStay, TriesStay
<1>6. answer[r] = NoOutcome /\ answer' = [answer EXCEPT ![r] = o]
  BY DEF Tries, Unanswered, Done
<1> QED BY <1>3, <1>4, <1>5, <1>6 DEF R!GiveUp, tried, last

\* A handler that begins to scan has left out what it has tried.
LEMMA ScanFresh ==
  ASSUME TypeOK, TypeOK', NEW r \in Request, NEW b, Scan(r, b), answer' = answer, Tries(r),
         \/ req[r].used = {}
         \/ MayTry(r, 1 + RetryTimes) /\ req[r].left > 0,
         req[r].pc # "done"
  PROVE  OthersStay(r) /\ Tries(r)' /\ UNCHANGED R!vars
<1> DEFINE todo == Pool(GroupNow(r, b), ModelOf[r]) \ req[r].used
<1>1. req'[r] = [req[r] EXCEPT !.pc = "scan", !.backup = b, !.cand = {}, !.todo = todo]
  BY DEF Scan, TypeOK
<1>2. /\ req'[r].pc = "scan" /\ TriesStay(r) /\ req'[r].left = req[r].left
      /\ req'[r].todo = todo /\ req'[r].cand = {}
  <2> HIDE DEF todo
  <2> QED BY <1>1 DEF TypeOK, ReqState, TriesStay
<1>3. OthersStay(r)
  BY DEF Scan, TypeOK, OthersStay
<1>4. Fresh(r)'
  BY <1>2 DEF Fresh, TriesStay
<1>5. Budget(r)' /\ Unanswered(r)'
  BY <1>2 DEF Tries, Budget, Unanswered, MayTry, TriesStay
<1>6. UNCHANGED R!vars
  BY <1>2, <1>3, Stutters
<1> QED BY <1>3, <1>4, <1>5, <1>6 DEF Tries
\* The answer of a fresh channel, within the budget, is a try of Relayed.
LEMMA CallTries ==
  ASSUME TypeOK, TypeOK', NEW r \in Request, NEW o \in Outcome, Tries(r), OthersStay(r),
         req[r].pc = "call",
         req'[r].used = req[r].used \cup {req[r].ch}, req'[r].last = o,
         answer' = IF o = "ok" THEN [answer EXCEPT ![r] = o] ELSE answer
  PROVE  R!Try(r, req[r].ch, o) /\ req[r].ch \in Channel
<1> DEFINE c == req[r].ch
<1>1. c \in Channel /\ c \notin tried[r]
  BY DEF Tries, Fresh, tried
<1>2. Cardinality(tried[r]) < (IF RetryTimes > 0 THEN 1 + RetryTimes ELSE 1)
  <2>0. IsFiniteSet(req[r].used)
    BY DEF Tries, Budget
  <2>1. Cardinality(req[r].used) \in Nat
    BY <2>0, FS_CardinalityType
  <2>2. CASE req[r].used = {}
    <3>1. Cardinality(req[r].used) = 0
      BY <2>0, <2>2, FS_EmptySet
    <3> QED BY <3>1 DEF tried
  <2>3. CASE req[r].used # {}
    <3>1. req[r].left \in Int
      BY DEF TypeOK, ReqState
    <3> QED BY <2>1, <2>3, <3>1 DEF Tries, Budget, MayTry, tried
  <2> QED BY <2>2, <2>3
<1>3. tried[r] # {} => last[r] \in Retryable
  BY DEF Tries, Budget, MayTry, tried, last
<1>4. tried' = [tried EXCEPT ![r] = @ \cup {c}] /\ last' = [last EXCEPT ![r] = o]
  BY ZenonT(40) DEF tried, last, OthersStay
<1>5. answer[r] = NoOutcome
  BY DEF Tries, Unanswered
<1>6. R!Cardinality(tried[r]) = Cardinality(tried[r])
  BY DEF R!Cardinality, Cardinality
<1> QED BY <1>1, <1>2, <1>3, <1>4, <1>5, <1>6 DEF R!Try

\* A step of a handler keeps it within its budget, and is a step of Relayed or none.
LEMMA HandlerTries ==
  ASSUME TypeOK, TypeOK', NEW r \in Request, Tries(r), Handler(r)
  PROVE  OthersStay(r) /\ Tries(r)' /\ (R!Next \/ UNCHANGED R!vars)
<1>q. req[r] \in ReqState /\ req[r].used \subseteq Channel /\ req[r].left \in Int
  BY DEF TypeOK, ReqState
<1>1. CASE Arrive(r)
  <2>1. req[r].used = {} /\ req[r].pc = "idle" /\ answer' = answer
    BY <1>1 DEF Arrive, Tries, Budget
  <2>2. CASE Scan(r, FALSE)
    BY <2>1, <2>2, ScanFresh
  <2>3. CASE Goto(r, "unstick")
    <3>1. req'[r].pc = "unstick" /\ TriesStay(r) /\ OthersStay(r)
      BY <2>1, <2>3, <1>q DEF Goto, TypeOK, ReqState, TriesStay, OthersStay
    <3>2. Tries(r)'
      BY <2>1, <3>1 DEF Tries, Fresh, Budget, Unanswered, TriesStay
    <3> QED BY <2>1, <3>1, <3>2, Stutters
  <2>4. CASE req' = [req EXCEPT ![r].pc = "verify", ![r].ch = affinity[KeyOf(r)].ch]
    <3>1. req'[r].pc = "verify" /\ TriesStay(r) /\ OthersStay(r)
      BY <2>1, <2>4, <1>q DEF TypeOK, ReqState, TriesStay, OthersStay
    <3>2. Tries(r)'
      BY <2>1, <3>1 DEF Tries, Fresh, Budget, Unanswered, TriesStay
    <3> QED BY <2>1, <3>1, <3>2, Stutters
  <2> QED BY <1>1, <2>2, <2>3, <2>4 DEF Arrive
<1>2. CASE ArrivePinned(r)
  <2>1. req[r].used = {} /\ req[r].pc = "idle"
    BY <1>2 DEF ArrivePinned, Tries, Budget
  <2>2. CASE Done(r, "noChannel")
    BY <2>1, <2>2, DoneGivesUp DEF R!Next
  <2>3. ASSUME NEW c \in Channel, req' = [req EXCEPT ![r].pc = "call", ![r].ch = c],
               answer' = answer
        PROVE  OthersStay(r) /\ Tries(r)' /\ UNCHANGED R!vars
    <3>1. req'[r].pc = "call" /\ req'[r].ch = c /\ TriesStay(r) /\ OthersStay(r)
      BY <2>1, <2>3, <1>q DEF TypeOK, ReqState, TriesStay, OthersStay
    <3>2. Tries(r)'
      BY <2>1, <2>3, <3>1 DEF Tries, Fresh, Budget, Unanswered, TriesStay
    <3> QED BY <2>3, <3>1, <3>2, Stutters
  <2> QED BY <1>2, <2>2, <2>3 DEF ArrivePinned
<1>3. CASE Verify(r)
  <2>1. req[r].used = {} /\ answer' = answer /\ req[r].pc = "verify"
    BY <1>3 DEF Verify, Tries, Budget
  <2>2. /\ req'[r].pc = Verdict(req[r].ch, ModelOf[r]) /\ req'[r].ch = req[r].ch
        /\ TriesStay(r) /\ OthersStay(r)
    BY <1>3, <1>q DEF Verify, TypeOK, ReqState, TriesStay, OthersStay
  <2>3. \/ req'[r].pc \in {"verify", "unstick"}
        \/ req'[r].pc = "call" /\ req'[r].ch \in Channel
    BY <2>2 DEF Verdict, TypeOK
  <2>4. Tries(r)'
    BY <2>1, <2>2, <2>3 DEF Tries, Fresh, Budget, Unanswered, TriesStay
  <2> QED BY <2>1, <2>2, <2>4, Stutters
<1>4. CASE Unstick(r)
  BY <1>4, ScanFresh DEF Unstick, Tries, Budget
<1>5. CASE Look(r)
  <2>1. PICK c \in req[r].todo :
          req' = [req EXCEPT ![r].dels = SeenExpired(c, ModelOf[r]),
                   ![r].todo = IF Expired(<<c, AnyModel>>) THEN @ ELSE @ \ {c},
                   ![r].cand = IF ~Expired(<<c, AnyModel>>) /\ Eligible(r, c)
                               THEN @ \cup {c} ELSE @]
    BY <1>5 DEF Look
  <2>2. /\ req'[r].pc = req[r].pc /\ req'[r].left = req[r].left
        /\ req'[r].todo \cup req'[r].cand \subseteq req[r].todo \cup req[r].cand
        /\ TriesStay(r) /\ OthersStay(r)
    <3> DEFINE todo == IF Expired(<<c, AnyModel>>) THEN req[r].todo ELSE req[r].todo \ {c}
               cand == IF ~Expired(<<c, AnyModel>>) /\ Eligible(r, c)
                       THEN req[r].cand \cup {c} ELSE req[r].cand
               q == [req[r] EXCEPT !.dels = SeenExpired(c, ModelOf[r]), !.todo = todo, !.cand = cand]
    <3>1. todo \cup cand \subseteq req[r].todo \cup req[r].cand
      OBVIOUS
    <3>2. req' = [req EXCEPT ![r] = q]
      BY <2>1 DEF TypeOK
    <3>3. /\ q.pc = req[r].pc /\ q.left = req[r].left /\ q.todo = todo /\ q.cand = cand
          /\ q.used = req[r].used /\ q.last = req[r].last
      <4> HIDE DEF todo, cand
      <4> QED BY <1>q DEF ReqState
    <3>4. answer' = answer
      BY <1>5 DEF Look
    <3> HIDE DEF q, todo, cand
    <3> QED BY <3>1, <3>2, <3>3, <3>4 DEF TypeOK, TriesStay, OthersStay
  <2>3. req[r].pc = "scan" /\ answer' = answer
    BY <1>5 DEF Look
  <2>4. Fresh(r)'
    BY <2>2, <2>3 DEF Tries, Fresh, TriesStay
  <2>5. Budget(r)' /\ Unanswered(r)'
    BY <2>2, <2>3 DEF Tries, Budget, MayTry, Unanswered, TriesStay
  <2> QED BY <2>2, <2>3, <2>4, <2>5, Stutters DEF Tries
<1>6. CASE Forget(r)
  <2>1. PICK k \in req[r].dels : req' = [req EXCEPT ![r].dels = @ \ {k}]
    BY <1>6 DEF Forget
  <2>2. /\ req'[r].pc = req[r].pc /\ req'[r].left = req[r].left /\ req'[r].ch = req[r].ch
        /\ req'[r].todo = req[r].todo /\ req'[r].cand = req[r].cand
        /\ TriesStay(r) /\ OthersStay(r) /\ answer' = answer
    BY <1>6, <2>1, <1>q DEF Forget, TypeOK, ReqState, TriesStay, OthersStay
  <2>3. Fresh(r)' /\ Unanswered(r)'
    BY <2>2 DEF Tries, Fresh, Unanswered, TriesStay
  <2>4. Budget(r)'
    BY <2>2 DEF Tries, Budget, MayTry, TriesStay
  <2> QED BY <2>2, <2>3, <2>4, Stutters DEF Tries
<1>7. CASE Choose(r)
  <2>1. PICK c \in Top(req[r].cand) : req' = [req EXCEPT ![r].pc = "call", ![r].ch = c]
    BY <1>7 DEF Choose
  <2>2. c \in req[r].cand /\ c \in Channel
    BY <1>q DEF Top, ReqState
  <2>3. /\ req'[r].pc = "call" /\ req'[r].ch = c /\ req'[r].left = req[r].left
        /\ TriesStay(r) /\ OthersStay(r) /\ answer' = answer
    BY <1>7, <2>1, <1>q DEF Choose, TypeOK, ReqState, TriesStay, OthersStay
  <2>4. req[r].pc = "scan"
    BY <1>7 DEF Choose, ScanOver
  <2>5. Fresh(r)' /\ Unanswered(r)'
    BY <2>2, <2>3, <2>4 DEF Tries, Fresh, Unanswered, TriesStay
  <2>6. Budget(r)'
    BY <2>3, <2>4 DEF Tries, Budget, MayTry, TriesStay
  <2> QED BY <2>3, <2>5, <2>6, Stutters DEF Tries
<1>8. CASE Exhausted(r)
  <2>1. req[r].pc = "scan"
    BY <1>8 DEF Exhausted, ScanOver
  <2>2. CASE req[r].used = {} /\ Done(r, "noChannel")
    BY <2>1, <2>2, DoneGivesUp DEF R!Next
  <2>3. CASE req[r].used # {} /\ Scan(r, TRUE) /\ UNCHANGED answer
    BY <2>1, <2>3, ScanFresh DEF Tries, Budget
  <2>4. CASE req[r].used # {} /\ Done(r, req[r].last)
    BY <2>1, <2>4, DoneGivesUp DEF R!Next
  <2> QED BY <1>8, <2>2, <2>3, <2>4 DEF Exhausted
<1>9. CASE Succeed(r)
  <2>1. /\ req[r].pc = "call" /\ req'[r].pc = "done" /\ req'[r].last = "ok"
        /\ req'[r].used = req[r].used \cup {req[r].ch}
        /\ answer' = [answer EXCEPT ![r] = "ok"] /\ OthersStay(r)
    BY <1>9, <1>q DEF Succeed, TypeOK, ReqState, OthersStay
  <2>2. Tries(r)'
    <3>0. IsFiniteSet(req[r].used)
      BY DEF Tries, Budget
    <3>2. IsFiniteSet(req[r].used \cup {req[r].ch})
      BY <3>0, FS_AddElement
    <3>1. IsFiniteSet(req'[r].used)
      BY <2>1, <3>2
    <3> QED BY <2>1, <3>1 DEF Tries, Fresh, Budget, Unanswered
  <2>3. R!Try(r, req[r].ch, "ok") /\ req[r].ch \in Channel
    BY <2>1, CallTries DEF Outcome
  <2> QED BY <2>1, <2>2, <2>3 DEF R!Next, Outcome
<1>10. ASSUME NEW o \in Failures, NEW s \in RetryAfters \cup {0}, Fail(r, o, s)
       PROVE  OthersStay(r) /\ Tries(r)' /\ R!Next
  <2>1. /\ req[r].pc = "call" /\ req'[r].pc = (IF First(r) THEN "decide" ELSE "again")
        /\ req'[r].last = o /\ req'[r].left = req[r].left
        /\ req'[r].used = req[r].used \cup {req[r].ch}
        /\ answer' = answer /\ OthersStay(r)
    BY <1>10, <1>q, SMTT(30) DEF Fail, Failed, TypeOK, ReqState, OthersStay
  <2>2. /\ IsFiniteSet(req'[r].used) /\ req'[r].used # {}
        /\ Cardinality(req'[r].used) = Cardinality(req[r].used) + 1
        /\ Cardinality(req[r].used) \in Nat
    <3>1. IsFiniteSet(req[r].used) /\ req[r].ch \notin req[r].used
      BY <2>1 DEF Tries, Budget, Fresh
    <3>2. Cardinality(req[r].used) \in Nat
      BY <3>1, FS_CardinalityType
    <3>3. /\ IsFiniteSet(req[r].used \cup {req[r].ch})
          /\ Cardinality(req[r].used \cup {req[r].ch}) = Cardinality(req[r].used) + 1
      BY <3>1, FS_AddElement
    <3> QED BY <2>1, <3>2, <3>3
  <2>3. First(r) => Cardinality(req'[r].used) = 1
    BY <2>2, FS_EmptySet DEF First
  <2>4. Budget(r)'
    BY <2>1, <2>2, <2>3, <1>q DEF Tries, Budget, MayTry, First
  <2>5. Fresh(r)' /\ Unanswered(r)'
    BY <2>1 DEF Tries, Fresh, Unanswered
  <2>6. R!Try(r, req[r].ch, o) /\ req[r].ch \in Channel
    BY <2>1, CallTries
  <2> QED BY <2>1, <2>4, <2>5, <2>6 DEF R!Next, Tries
<1>11. CASE Decide(r)
  <2>1. req[r].pc = "decide" /\ req[r].used # {} /\ Cardinality(req[r].used) = 1
    BY <1>11 DEF Decide, Tries, Budget
  <2>2. CASE Done(r, req[r].last)
    BY <2>1, <2>2, DoneGivesUp DEF R!Next
  <2>3. CASE /\ ShouldFallback(req[r].first, Classify(req[r].last)) /\ RetryTimes > 0
             /\ req' = [req EXCEPT ![r].pc = "loop", ![r].left = RetryTimes,
                                   ![r].deadline = now + RetryTimeOut]
             /\ answer' = answer
    <3>1. /\ req'[r].pc = "loop" /\ req'[r].left = RetryTimes /\ TriesStay(r) /\ OthersStay(r)
      BY <2>3, <1>q DEF TypeOK, ReqState, TriesStay, OthersStay
    <3>2. req[r].last \in Retryable
      BY <2>3 DEF ShouldFallback, Classify, Retryable
    <3>3. MayTry(r, 1 + RetryTimes)'
      BY <2>1, <2>3, <3>1, <3>2 DEF MayTry, TriesStay
    <3>5. Budget(r)'
      BY <2>1, <3>1, <3>3 DEF Tries, Budget, TriesStay
    <3>4. Fresh(r)' /\ Unanswered(r)'
      BY <2>1, <2>3, <3>1 DEF Tries, Fresh, Unanswered
    <3> QED BY <2>3, <3>1, <3>4, <3>5, Stutters DEF Tries
  <2> QED BY <1>11, <2>2, <2>3 DEF Decide
<1>12. CASE Again(r)
  <2>1. req[r].pc = "again" /\ req[r].used # {}
    BY <1>12 DEF Again, Tries, Budget
  <2>2. CASE Done(r, req[r].last)
    BY <2>1, <2>2, DoneGivesUp DEF R!Next
  <2>3. CASE /\ Classify(req[r].last) # ""
             /\ req' = [req EXCEPT ![r].pc = "loop", ![r].left = @ - 1]
             /\ answer' = answer
    <3>1. /\ req'[r].pc = "loop" /\ req'[r].left = req[r].left - 1 /\ TriesStay(r) /\ OthersStay(r)
      BY <2>3, <1>q DEF TypeOK, ReqState, TriesStay, OthersStay
    <3>2. req[r].last \in Retryable /\ Cardinality(req[r].used) \in Nat
      BY <2>3, FS_CardinalityType DEF Classify, Retryable, Tries, Budget
    <3>3. MayTry(r, 1 + RetryTimes)'
      BY <1>q, <2>1, <3>1, <3>2 DEF Tries, Budget, MayTry, TriesStay
    <3>5. Budget(r)'
      BY <2>1, <3>1, <3>3 DEF Tries, Budget, TriesStay
    <3>4. Fresh(r)' /\ Unanswered(r)'
      BY <2>1, <2>3, <3>1 DEF Tries, Fresh, Unanswered
    <3> QED BY <2>3, <3>1, <3>4, <3>5, Stutters DEF Tries
  <2> QED BY <1>12, <2>2, <2>3 DEF Again
<1>13. CASE Loop(r)
  <2>1. req[r].pc = "loop" /\ req[r].used # {}
    BY <1>13 DEF Loop, Tries, Budget
  <2>2. CASE Done(r, req[r].last)
    BY <2>1, <2>2, DoneGivesUp DEF R!Next
  <2>3. CASE req[r].left > 0 /\ Scan(r, FALSE) /\ UNCHANGED answer
    BY <2>1, <2>3, ScanFresh DEF Tries, Budget
  <2> QED BY <1>13, <2>2, <2>3 DEF Loop
<1> QED BY <1>1, <1>2, <1>3, <1>4, <1>5, <1>6, <1>7, <1>8, <1>9, <1>10, <1>11, <1>12,
           <1>13 DEF Handler
LoopInv == TypeOK /\ \A r \in Request : Tries(r)

\* The invariant holds at first, and Relayed begins.
LEMMA LoopStart == Init => LoopInv /\ R!Init
<1> SUFFICES ASSUME Init PROVE LoopInv /\ R!Init OBVIOUS
<1>1. TypeOK
  BY DEF Init, TypeOK, ReqState, Pcs, NoEntry, Outcome
<1>2. ASSUME NEW r \in Request PROVE Tries(r)
  BY FS_EmptySet DEF Init, Tries, Fresh, Budget, MayTry, Unanswered
<1>3. R!Init
  BY DEF Init, R!Init, tried, last
<1> QED BY <1>1, <1>2, <1>3 DEF LoopInv

\* Every step keeps the invariant, and is a step of Relayed or none.
LEMMA LoopStep ==
  ASSUME LoopInv, [Next]_vars
  PROVE  LoopInv' /\ [R!Next]_(R!vars)
<1>1. CASE World
  <2>1. TypeOK' /\ req' = req /\ answer' = answer
    BY <1>1, WorldTypes DEF LoopInv
  <2>2. ASSUME NEW r \in Request PROVE Tries(r)'
    BY <2>1 DEF LoopInv, Tries, Fresh, Budget, MayTry, Unanswered
  <2>3. UNCHANGED R!vars
    BY <2>1 DEF R!vars, tried, last
  <2> QED BY <2>1, <2>2, <2>3 DEF LoopInv
<1>2. ASSUME NEW r \in Request, Handler(r)
      PROVE  LoopInv' /\ [R!Next]_(R!vars)
  <2>1. CallsChannels /\ Tries(r)
    BY DEF LoopInv, Tries, Fresh, CallsChannels
  <2>2. TypeOK'
    BY <1>2, <2>1, HandlerTypes DEF LoopInv
  <2>3. OthersStay(r) /\ Tries(r)' /\ (R!Next \/ UNCHANGED R!vars)
    BY <1>2, <2>1, <2>2, HandlerTries DEF LoopInv
  <2>4. ASSUME NEW s \in Request \ {r} PROVE Tries(s)'
    BY <2>3 DEF LoopInv, OthersStay, Tries, Fresh, Budget, MayTry, Unanswered
  <2> QED BY <2>2, <2>3, <2>4 DEF LoopInv
<1>3. CASE UNCHANGED vars
  <2>1. TypeOK'
    BY <1>3 DEF vars, store, history, LoopInv, TypeOK
  <2>2. ASSUME NEW r \in Request PROVE Tries(r)'
    BY <1>3 DEF vars, LoopInv, Tries, Fresh, Budget, MayTry, Unanswered
  <2>3. UNCHANGED R!vars
    BY <1>3 DEF vars, R!vars, tried, last
  <2> QED BY <2>1, <2>2, <2>3 DEF LoopInv
<1> QED BY <1>1, <1>2, <1>3 DEF Next

\* Every variable of the fallback loop keeps its type.
THEOREM LoopTypeCorrect == Spec => []TypeOK
<1>1. LoopInv => TypeOK
  BY DEF LoopInv
<1> QED BY <1>1, LoopStart, LoopStep, PTL DEF Spec

\* Relay tries no channel twice, stays within its retry budget, goes on only after a
\* retryable error and answers once, with the last outcome, whatever the channel
\* cache, the cooldowns, the affinities and the other requests do meanwhile.
THEOREM LoopImplementsRelayed == Spec => ImplementsRelayed
BY LoopStart, LoopStep, PTL DEF Spec, ImplementsRelayed, R!Spec

-----------------------------------------------------------------------------
\* An affinity entry names a channel whose last try as a first choice for the key went
\* well, and does not outlive its TTL, for any number of requests that share the key
\* (recordAffinity, clearAffinity, Cleanup).  Inductive, given the types.
THEOREM AffinityIsEarned == Spec => []AffinityEarned
<1>1. Init => AffinityEarned
  BY DEF Init, AffinityEarned
<1>2. TypeOK /\ AffinityEarned /\ [Next]_vars => AffinityEarned'
  <2> SUFFICES ASSUME TypeOK, AffinityEarned, [Next]_vars, NEW k \in Key, affinity'[k] # NoEntry
               PROVE  /\ <<k, affinity'[k].ch>> \in earned'
                      /\ affinity'[k].exp <= now' + AffinityTTL
    BY DEF AffinityEarned
  <2>0. now \in Nat /\ affinity[k].exp \in Nat
    BY DEF TypeOK
  <2>1. CASE UNCHANGED <<now, affinity, earned>>
    BY <2>1 DEF AffinityEarned
  <2>2. CASE Tick
    BY <2>0, <2>2 DEF Tick, history, AffinityEarned
  <2>3. CASE CleanupAffinity
    BY <2>3 DEF CleanupAffinity, history, AffinityEarned, TypeOK
  <2>4. ASSUME NEW r \in Request, Unstick(r)
        PROVE  /\ <<k, affinity'[k].ch>> \in earned' /\ affinity'[k].exp <= now' + AffinityTTL
    BY <2>4 DEF Unstick, history, AffinityEarned, TypeOK
  <2>5. ASSUME NEW r \in Request, Succeed(r)
        PROVE  /\ <<k, affinity'[k].ch>> \in earned' /\ affinity'[k].exp <= now' + AffinityTTL
    <3>1. CASE First(r) /\ k = KeyOf(r)
      BY <3>1, <2>0, <2>5 DEF Succeed, TypeOK
    <3>2. CASE ~First(r) \/ k # KeyOf(r)
      BY <3>2, <2>0, <2>5 DEF Succeed, TypeOK, AffinityEarned
    <3> QED BY <3>1, <3>2
  <2>6. ASSUME NEW r \in Request, NEW o \in Failures, NEW s \in RetryAfters \cup {0}, Fail(r, o, s)
        PROVE  /\ <<k, affinity'[k].ch>> \in earned' /\ affinity'[k].exp <= now' + AffinityTTL
    <3>1. now' = now
      BY <2>6 DEF Fail, Failed
    <3>2. First(r) => k # KeyOf(r)
      BY <2>6 DEF Fail, TypeOK
    <3>3. affinity'[k] = affinity[k]
      BY <2>6, <3>2 DEF Fail, TypeOK
    <3>4. <<k, affinity[k].ch>> \in earned /\ affinity[k].exp <= now + AffinityTTL
      BY <3>3 DEF AffinityEarned
    <3>5. <<k, affinity[k].ch>> \in earned'
      BY <2>6, <3>2, <3>4 DEF Fail, Failed
    <3> QED BY <3>1, <3>3, <3>4, <3>5
  <2>7. ASSUME NEW r \in Request, Handler(r), ~Unstick(r), ~Succeed(r),
               ~\E o \in Failures, s \in RetryAfters \cup {0} : Fail(r, o, s)
        PROVE  UNCHANGED <<now, affinity, earned>>
    BY <2>7 DEF Handler, Arrive, ArrivePinned, Verify, Look, Forget, Choose, Exhausted, Decide,
                Again, Loop, history
  <2>8. ASSUME World, ~Tick, ~CleanupAffinity
        PROVE  UNCHANGED <<now, affinity, earned>>
    BY <2>8 DEF World, Report, Reenable, SyncRead, SyncPublish, SweepLook, SweepForget, history
  <2> QED BY <2>1, <2>2, <2>3, <2>4, <2>5, <2>6, <2>7, <2>8 DEF Next, vars, history
<1> QED BY <1>1, <1>2, LoopTypeCorrect, PTL DEF Spec

-----------------------------------------------------------------------------
(***************************************************************************)
(* Consent: the picker keeps its candidates to the consenting channels as  *)
(* soon as one channel has failed, and the loop starts only if that one    *)
(* consented too.                                                          *)
(***************************************************************************)
Consent(r) ==
  /\ req[r].pc # "done" => (req[r].first = NoChannel <=> req[r].used = {})
  /\ req[r].pc = "decide" => req[r].used = {req[r].first}
  /\ req[r].pc \in {"scan", "call", "again", "loop"} /\ req[r].used # {} => req[r].first \in FallbackEnabled
  /\ req[r].pc = "scan" /\ req[r].used # {} => req[r].cand \subseteq FallbackEnabled
  /\ req[r].pc = "call" /\ req[r].used # {} => req[r].ch \in FallbackEnabled
  /\ req[r].first # NoChannel /\ req[r].used \ {req[r].first} # {} =>
       (req[r].used \ {req[r].first}) \cup {req[r].first} \subseteq FallbackEnabled

\* A step that moves the handler and tries nothing keeps its consent.
LEMMA MoveConsents ==
  ASSUME TypeOK, TypeOK', NEW r \in Request, Consent(r), req[r].pc # "done",
         req'[r].used = req[r].used, req'[r].first = req[r].first,
         \/ req'[r].pc = "done"
         \/ req[r].used = {} /\ req'[r].pc # "decide"
         \/ req'[r].pc = "loop" /\ req[r].first \in FallbackEnabled
         \/ req'[r].pc = "scan" /\ req[r].first \in FallbackEnabled
               /\ req'[r].cand \subseteq FallbackEnabled
         \/ req'[r].pc = "call" /\ req[r].first \in FallbackEnabled
               /\ req'[r].ch \in FallbackEnabled
  PROVE  Consent(r)'
BY DEF Consent

\* So do the end of a handler and the beginning of a scan.
LEMMA DoneConsents ==
  ASSUME TypeOK, TypeOK', NEW r \in Request, NEW o, Done(r, o), Consent(r), req[r].pc # "done"
  PROVE  Consent(r)'
<1>1. /\ req'[r].used = req[r].used /\ req'[r].first = req[r].first /\ req'[r].pc = "done"
  BY DEF Done, Goto, TypeOK, ReqState
<1> QED BY <1>1, MoveConsents

\* A scan begins without candidates.
LEMMA ScanConsents ==
  ASSUME TypeOK, TypeOK', NEW r \in Request, NEW b, Scan(r, b), Consent(r), req[r].pc # "done",
         req[r].used = {} \/ req[r].first \in FallbackEnabled
  PROVE  Consent(r)'
<1>1. /\ req'[r].used = req[r].used /\ req'[r].first = req[r].first /\ req'[r].pc = "scan"
      /\ req'[r].cand = {}
  BY DEF Scan, TypeOK, ReqState
<1> QED BY <1>1, MoveConsents

\* Every step of a handler keeps its consent.
LEMMA HandlerConsents ==
  ASSUME TypeOK, TypeOK', NEW r \in Request, Tries(r), Consent(r), Handler(r)
  PROVE  Consent(r)'
<1>q. req[r] \in ReqState /\ req[r].used \subseteq Channel
  BY DEF TypeOK, ReqState
<1>1. CASE Arrive(r)
  <2>1. req[r].used = {} /\ req[r].pc = "idle"
    BY <1>1 DEF Arrive, Tries, Budget
  <2>2. CASE Scan(r, FALSE)
    BY <2>1, <2>2, ScanConsents
  <2>3. CASE Goto(r, "unstick")
    <3>1. req'[r].used = {} /\ req'[r].first = req[r].first /\ req'[r].pc = "unstick"
      BY <2>1, <2>3, <1>q DEF Goto, TypeOK, ReqState
    <3> QED BY <2>1, <3>1, MoveConsents
  <2>4. CASE req' = [req EXCEPT ![r].pc = "verify", ![r].ch = affinity[KeyOf(r)].ch]
    <3>1. req'[r].used = {} /\ req'[r].first = req[r].first /\ req'[r].pc = "verify"
      BY <2>1, <2>4, <1>q DEF TypeOK, ReqState
    <3> QED BY <2>1, <3>1, MoveConsents
  <2> QED BY <1>1, <2>2, <2>3, <2>4 DEF Arrive
<1>2. CASE ArrivePinned(r)
  <2>1. req[r].used = {} /\ req[r].pc = "idle"
    BY <1>2 DEF ArrivePinned, Tries, Budget
  <2>2. CASE Done(r, "noChannel")
    BY <2>1, <2>2, DoneConsents
  <2>3. ASSUME NEW c \in Channel, req' = [req EXCEPT ![r].pc = "call", ![r].ch = c]
        PROVE  Consent(r)'
    <3>1. req'[r].used = {} /\ req'[r].first = req[r].first /\ req'[r].pc = "call"
      BY <2>1, <2>3, <1>q DEF TypeOK, ReqState
    <3> QED BY <2>1, <3>1, MoveConsents
  <2> QED BY <1>2, <2>2, <2>3 DEF ArrivePinned
<1>3. CASE Verify(r)
  <2>1. req[r].used = {} /\ req[r].pc = "verify"
    BY <1>3 DEF Verify, Tries, Budget
  <2>2. /\ req'[r].used = {} /\ req'[r].first = req[r].first
        /\ req'[r].pc = Verdict(req[r].ch, ModelOf[r])
    BY <1>3, <1>q, <2>1 DEF Verify, TypeOK, ReqState
  <2>3. req'[r].pc # "decide"
    BY <2>2 DEF Verdict
  <2> QED BY <2>1, <2>2, <2>3, MoveConsents
<1>4. CASE Unstick(r)
  BY <1>4, ScanConsents DEF Unstick, Tries, Budget
<1>5. CASE Look(r)
  <2>1. PICK c \in req[r].todo :
          req' = [req EXCEPT ![r].dels = SeenExpired(c, ModelOf[r]),
                   ![r].todo = IF Expired(<<c, AnyModel>>) THEN @ ELSE @ \ {c},
                   ![r].cand = IF ~Expired(<<c, AnyModel>>) /\ Eligible(r, c)
                               THEN @ \cup {c} ELSE @]
    BY <1>5 DEF Look
  <2>2. req[r].pc = "scan"
    BY <1>5 DEF Look
  <2>3. /\ req'[r].used = req[r].used /\ req'[r].first = req[r].first /\ req'[r].pc = "scan"
        /\ req'[r].cand = req[r].cand \/ (Eligible(r, c) /\ req'[r].cand = req[r].cand \cup {c})
    <3> DEFINE todo == IF Expired(<<c, AnyModel>>) THEN req[r].todo ELSE req[r].todo \ {c}
               cand == IF ~Expired(<<c, AnyModel>>) /\ Eligible(r, c)
                       THEN req[r].cand \cup {c} ELSE req[r].cand
               q == [req[r] EXCEPT !.dels = SeenExpired(c, ModelOf[r]), !.todo = todo, !.cand = cand]
    <3>1. cand = req[r].cand \/ (Eligible(r, c) /\ cand = req[r].cand \cup {c})
      OBVIOUS
    <3>2. req' = [req EXCEPT ![r] = q]
      BY <2>1 DEF TypeOK
    <3>3. q.pc = req[r].pc /\ q.used = req[r].used /\ q.first = req[r].first /\ q.cand = cand
      <4> HIDE DEF todo, cand
      <4> QED BY <1>q DEF ReqState
    <3> HIDE DEF q, todo, cand
    <3> QED BY <2>2, <3>1, <3>2, <3>3 DEF TypeOK
  <2>4. CASE req[r].used = {}
    BY <2>2, <2>3, <2>4, MoveConsents
  <2>5. CASE req[r].used # {}
    <3>1. req'[r].cand \subseteq FallbackEnabled /\ req[r].first \in FallbackEnabled
      BY <2>2, <2>3, <2>5 DEF Consent, Eligible
    <3> QED BY <2>2, <2>3, <3>1, MoveConsents
  <2> QED BY <2>4, <2>5
<1>6. CASE Forget(r)
  <2>1. PICK k \in req[r].dels : req' = [req EXCEPT ![r].dels = @ \ {k}]
    BY <1>6 DEF Forget
  <2>2. /\ req'[r].pc = req[r].pc /\ req'[r].used = req[r].used /\ req'[r].ch = req[r].ch
        /\ req'[r].first = req[r].first /\ req'[r].cand = req[r].cand
    BY <2>1, <1>q DEF TypeOK, ReqState
  <2> QED BY <2>2 DEF Consent
<1>7. CASE Choose(r)
  <2>1. PICK c \in Top(req[r].cand) : req' = [req EXCEPT ![r].pc = "call", ![r].ch = c]
    BY <1>7 DEF Choose
  <2>2. c \in req[r].cand /\ req[r].pc = "scan"
    BY <1>7 DEF Top, Choose, ScanOver
  <2>3. /\ req'[r].pc = "call" /\ req'[r].ch = c
        /\ req'[r].used = req[r].used /\ req'[r].first = req[r].first
    BY <2>1, <2>2, <1>q DEF TypeOK, ReqState
  <2>4. req[r].used # {} => c \in FallbackEnabled /\ req[r].first \in FallbackEnabled
    BY <2>2 DEF Consent
  <2> QED BY <2>2, <2>3, <2>4, MoveConsents
<1>8. CASE Exhausted(r)
  <2>1. req[r].pc = "scan" /\ (req[r].used # {} => req[r].first \in FallbackEnabled)
    BY <1>8 DEF Exhausted, ScanOver, Consent
  <2>2. CASE Scan(r, TRUE)
    BY <2>1, <2>2, ScanConsents
  <2>3. ASSUME NEW o, Done(r, o) PROVE Consent(r)'
    BY <2>1, <2>3, DoneConsents
  <2> QED BY <1>8, <2>2, <2>3 DEF Exhausted
<1>9. CASE Succeed(r)
  <2>1. /\ req[r].pc = "call" /\ req'[r].pc = "done" /\ req'[r].first = req[r].first
        /\ req'[r].used = req[r].used \cup {req[r].ch}
    BY <1>9, <1>q DEF Succeed, TypeOK, ReqState
  <2> QED BY <2>1 DEF Consent
<1>10. ASSUME NEW o \in Failures, NEW s \in RetryAfters \cup {0}, Fail(r, o, s)
       PROVE  Consent(r)'
  <2>1. /\ req[r].pc = "call" /\ req'[r].pc = (IF First(r) THEN "decide" ELSE "again")
        /\ req'[r].first = (IF First(r) THEN req[r].ch ELSE req[r].first)
        /\ req'[r].used = req[r].used \cup {req[r].ch}
    BY <1>10, <1>q DEF Fail, Failed, TypeOK, ReqState
  <2>2. req[r].ch \in Channel
    BY <2>1 DEF Tries, Fresh
  <2>3. CASE First(r)
    BY <2>1, <2>2, <2>3 DEF First, Consent
  <2>4. CASE ~First(r)
    <3>1. req[r].ch \in FallbackEnabled /\ req[r].first \in FallbackEnabled /\ req[r].first # NoChannel
      BY <2>1, <2>4 DEF First, Consent
    <3>2. req[r].used \ {req[r].first} \subseteq FallbackEnabled
      BY <3>1 DEF Consent
    <3> QED BY <2>1, <2>4, <3>1, <3>2 DEF Consent, First
  <2> QED BY <2>3, <2>4
<1>11. CASE Decide(r)
  <2>1. req[r].pc = "decide"
    BY <1>11 DEF Decide
  <2>2. CASE Done(r, req[r].last)
    BY <2>1, <2>2, DoneConsents
  <2>3. CASE /\ ShouldFallback(req[r].first, Classify(req[r].last))
             /\ req' = [req EXCEPT ![r].pc = "loop", ![r].left = RetryTimes,
                                   ![r].deadline = now + RetryTimeOut]
    <3>1. req'[r].pc = "loop" /\ req'[r].used = req[r].used /\ req'[r].first = req[r].first
      BY <2>3, <1>q DEF TypeOK, ReqState
    <3>2. req[r].first \in FallbackEnabled
      BY <2>3 DEF ShouldFallback
    <3> QED BY <2>1, <3>1, <3>2, MoveConsents
  <2> QED BY <1>11, <2>2, <2>3 DEF Decide
<1>12. CASE Again(r)
  <2>1. req[r].pc = "again" /\ req[r].first \in FallbackEnabled
    BY <1>12 DEF Again, Tries, Budget, Consent
  <2>2. CASE Done(r, req[r].last)
    BY <2>1, <2>2, DoneConsents
  <2>3. CASE req' = [req EXCEPT ![r].pc = "loop", ![r].left = @ - 1]
    <3>1. req'[r].pc = "loop" /\ req'[r].used = req[r].used /\ req'[r].first = req[r].first
      BY <2>3, <1>q DEF TypeOK, ReqState
    <3> QED BY <2>1, <3>1, MoveConsents
  <2> QED BY <1>12, <2>2, <2>3 DEF Again
<1>13. CASE Loop(r)
  <2>1. req[r].pc = "loop" /\ req[r].first \in FallbackEnabled
    BY <1>13 DEF Loop, Tries, Budget, Consent
  <2>2. CASE Done(r, req[r].last)
    BY <2>1, <2>2, DoneConsents
  <2>3. CASE Scan(r, FALSE)
    BY <2>1, <2>3, ScanConsents
  <2> QED BY <1>13, <2>2, <2>3 DEF Loop
<1> QED BY <1>1, <1>2, <1>3, <1>4, <1>5, <1>6, <1>7, <1>8, <1>9, <1>10, <1>11, <1>12,
           <1>13 DEF Handler

AllConsent == \A r \in Request : Consent(r)

LEMMA ConsentAlways == Spec => []AllConsent
<1>1. Init => AllConsent
  BY DEF Init, AllConsent, Consent
<1>2. LoopInv /\ LoopInv' /\ AllConsent /\ [Next]_vars => AllConsent'
  <2> SUFFICES ASSUME LoopInv, LoopInv', AllConsent, [Next]_vars PROVE AllConsent'
    OBVIOUS
  <2>1. CASE req' = req
    BY <2>1 DEF AllConsent, Consent
  <2>2. ASSUME NEW r \in Request, Handler(r) PROVE AllConsent'
    <3>1. TypeOK /\ TypeOK' /\ Tries(r) /\ Consent(r)
      BY DEF LoopInv, AllConsent
    <3>2. OthersStay(r) /\ Consent(r)'
      BY <2>2, <3>1, HandlerTries, HandlerConsents
    <3>3. ASSUME NEW s \in Request \ {r} PROVE Consent(s)'
      BY <3>2 DEF OthersStay, AllConsent, Consent
    <3> QED BY <3>2, <3>3 DEF AllConsent
  <2>3. CASE World
    BY <2>1, <2>3, WorldTypes DEF LoopInv
  <2> QED BY <2>1, <2>2, <2>3 DEF Next, vars
<1> QED BY <1>1, <1>2, LoopStart, LoopStep, PTL DEF Spec

\* A channel without fallback_enabled never serves as a fallback, and nothing falls
\* back from it, in any interleaving of any requests (ShouldFallback,
\* CachePickFallbackChannel).
THEOREM OnlyConsentingServe == Spec => []OnlyConsenting
<1>1. AllConsent => OnlyConsenting
  BY DEF AllConsent, Consent, OnlyConsenting
<1> QED BY <1>1, ConsentAlways, PTL
-----------------------------------------------------------------------------
(***************************************************************************)
(* No healthy channel is left untried.                                     *)
(*                                                                         *)
(* Whatever the cooldown store and the channel cache go through, a channel *)
(* that has failed nobody has no entry in the one and is in every copy of  *)
(* the other.  So a scan for a fallback has every healthy channel of its   *)
(* group among those it has still to look at or has found, the backup      *)
(* group is scanned only when the first is used up, and the tries a        *)
(* request has left and those it has had add up to its budget.             *)
(***************************************************************************)
Stocked ==
  \A c \in Channel \ failed :
    /\ \A m \in Model \cup {AnyModel} : cool[<<c, m>>] = 0
    /\ c \in enabled /\ c \in cached /\ (snapshot # {NoChannel} => c \in snapshot)
    /\ \A r \in Request : <<r, c>> \notin reports

Untried(r, g) ==
  {c \in FallbackEnabled \ (failed \cup req[r].used) : <<g, ModelOf[r]>> \in Serves[c]}

Seeks(r) ==
  /\ req[r].used = {} => req[r].last = NoOutcome
  /\ req[r].pc = "again" => Cardinality(req[r].used) + req[r].left >= 2 + RetryTimes
  /\ req[r].pc \in {"scan", "call", "loop"} /\ req[r].used # {} =>
       Cardinality(req[r].used) + req[r].left >= 1 + RetryTimes
  /\ req[r].pc = "scan" /\ req[r].used # {} =>
       /\ Untried(r, GroupNow(r, req[r].backup)) \subseteq req[r].todo \cup req[r].cand
       /\ req[r].backup => Untried(r, GroupOf[r]) = {}
  /\ GivesUp(r) => Untried(r, GroupOf[r]) = {} /\ Untried(r, BackupOf[r]) = {}

SeekInv == Stocked /\ \A r \in Request : Seeks(r)

\* The columns and caches of a channel that has failed nobody.
LEMMA StockedStep ==
  ASSUME LoopInv, LoopInv', Stocked, [Next]_vars
  PROVE  Stocked'
<1>t. TypeOK /\ TypeOK' /\ now \in Nat
  BY DEF LoopInv, TypeOK
<1>1. ASSUME UNCHANGED <<enabled, cached, snapshot, reports, failed>>,
             \A k \in CoolKey : cool'[k] \in {0, cool[k]}
      PROVE  Stocked'
  <2>1. \A c \in Channel : \A m \in Model \cup {AnyModel} : <<c, m>> \in CoolKey
    BY DEF CoolKey
  <2> QED BY <1>1, <2>1 DEF Stocked
<1>2. ASSUME NEW r \in Request, NEW o \in Failures, NEW s \in RetryAfters \cup {0}, Fail(r, o, s)
      PROVE  Stocked'
  <2>1. /\ failed' = failed \cup {req[r].ch} /\ UNCHANGED <<enabled, cached, snapshot>>
        /\ cool' = SoftBan(req[r].ch, ModelOf[r], s)
        /\ reports' \subseteq reports \cup {<<r, req[r].ch>>}
    BY <1>2 DEF Fail, Failed, store
  <2> SUFFICES ASSUME NEW c \in Channel \ failed'
               PROVE  /\ \A m \in Model \cup {AnyModel} : cool'[<<c, m>>] = 0
                      /\ c \in enabled /\ c \in cached /\ (snapshot # {NoChannel} => c \in snapshot)
                      /\ \A q \in Request : <<q, c>> \notin reports'
    BY <2>1 DEF Stocked
  <2>2. c \in Channel \ failed /\ c # req[r].ch
    BY <2>1
  <2>3. ASSUME NEW m \in Model \cup {AnyModel} PROVE cool'[<<c, m>>] = cool[<<c, m>>]
    <3>1. <<c, m>> \in CoolKey /\ <<c, m>> # <<req[r].ch, AnyModel>> /\ <<c, m>> # <<req[r].ch, ModelOf[r]>>
      BY <2>2 DEF CoolKey
    <3> QED BY <1>t, <2>1, <3>1 DEF SoftBan, TypeOK
  <2> QED BY <2>1, <2>2, <2>3 DEF Stocked
<1>3. ASSUME NEW r \in Request, Forget(r) PROVE Stocked'
  <2>1. PICK k \in req[r].dels : cool' = [cool EXCEPT ![k] = 0]
    BY <1>3 DEF Forget
  <2>2. \A x \in CoolKey : cool'[x] \in {0, cool[x]}
    BY <1>t, <2>1 DEF TypeOK
  <2> QED BY <1>1, <1>3, <2>2 DEF Forget, store, history
<1>4. CASE SweepForget
  <2>1. PICK k \in sweep : cool' = [cool EXCEPT ![k] = 0]
    BY <1>4 DEF SweepForget
  <2>2. \A x \in CoolKey : cool'[x] \in {0, cool[x]}
    BY <1>t, <2>1 DEF TypeOK
  <2> QED BY <1>1, <1>4, <2>2 DEF SweepForget, store, history
<1>5. ASSUME NEW r \in Request, NEW c \in Channel, Report(r, c) PROVE Stocked'
  <2>1. c \in failed
    BY <1>5 DEF Report, Stocked
  <2> QED BY <1>5, <2>1 DEF Report, Stocked, history
<1>6. ASSUME NEW c \in Channel, Reenable(c) PROVE Stocked'
  BY <1>6 DEF Reenable, Stocked, history
<1>7. CASE SyncRead
  BY <1>7 DEF SyncRead, Stocked, history
<1>8. CASE SyncPublish
  BY <1>8 DEF SyncPublish, Stocked, history
<1>9. ASSUME UNCHANGED <<enabled, cached, snapshot, reports, failed, cool>> PROVE Stocked'
  BY <1>1, <1>9
<1>10. ASSUME NEW r \in Request, Handler(r), ~Forget(r),
              ~\E o \in Failures, s \in RetryAfters \cup {0} : Fail(r, o, s)
       PROVE  UNCHANGED <<enabled, cached, snapshot, reports, failed, cool>>
  BY <1>10 DEF Handler, Arrive, ArrivePinned, Verify, Unstick, Look, Choose, Exhausted, Succeed,
               Decide, Again, Loop, store, history
<1>11. CASE SweepLook \/ CleanupAffinity \/ Tick \/ UNCHANGED vars
  BY <1>9, <1>11 DEF SweepLook, CleanupAffinity, Tick, vars, store, history
<1> QED BY <1>2, <1>3, <1>4, <1>5, <1>6, <1>7, <1>8, <1>9, <1>10, <1>11 DEF Next, World

\* What a request has not tried only gets less as long as it keeps what it has tried.
LEMMA UntriedShrinks ==
  ASSUME NEW r \in Request, NEW g, failed \subseteq failed', req[r].used \subseteq req'[r].used
  PROVE  Untried(r, g)' \subseteq Untried(r, g)
BY DEF Untried

LEMMA OthersSeek ==
  ASSUME TypeOK, TypeOK', NEW r \in Request, Seeks(r), req'[r] = req[r], failed \subseteq failed', now <= now'
  PROVE  Seeks(r)'
<1>1. \A g : Untried(r, g)' \subseteq Untried(r, g)
  BY UntriedShrinks
<1>2. GivesUp(r)' => GivesUp(r)
  BY DEF GivesUp, TypeOK, ReqState
<1>3. GroupNow(r, req[r].backup)' = GroupNow(r, req[r].backup)
  BY DEF GroupNow
<1> QED BY <1>1, <1>2, <1>3 DEF Seeks

\* A handler that neither tries a channel nor scans nor ends.
LEMMA MoveSeeks ==
  ASSUME TypeOK, NEW r \in Request, Seeks(r),
         req'[r].used = req[r].used, req'[r].last = req[r].last,
         \/ req[r].used = {}
         \/ /\ req[r].pc \in {"scan", "call", "loop"} /\ req'[r].pc \in {"call", "loop"}
            /\ req'[r].left = req[r].left,
         req'[r].pc \notin {"done", "again"}
  PROVE  Seeks(r)'
BY DEF Seeks, GivesUp

\* The end of a handler that gives nothing up, or leaves nothing untried.
LEMMA DoneSeeks ==
  ASSUME TypeOK, TypeOK', NEW r \in Request, NEW o, Done(r, o), Seeks(r),
         failed' = failed, now' = now,
         \/ req[r].last \notin Retryable
         \/ req[r].used = {req[r].first} /\ ~ShouldFallback(req[r].first, Classify(req[r].last))
         \/ Cardinality(req[r].used) > RetryTimes
         \/ now > req[r].deadline
         \/ Untried(r, GroupOf[r]) = {} /\ Untried(r, BackupOf[r]) = {},
         Cardinality(req[r].used) \in Nat
  PROVE  Seeks(r)'
<1>1. /\ req'[r].pc = "done" /\ req'[r].used = req[r].used /\ req'[r].last = req[r].last
      /\ req'[r].first = req[r].first /\ req'[r].deadline = req[r].deadline
  BY DEF Done, Goto, TypeOK, ReqState
<1>2. \A g : Untried(r, g)' = Untried(r, g)
  BY <1>1 DEF Untried
<1>3. now \in Nat /\ req[r].deadline \in Nat
  BY DEF TypeOK, ReqState
<1> QED BY <1>1, <1>2, <1>3 DEF Seeks, GivesUp

\* A scan has every healthy channel of its group before it.
LEMMA ScanSeeks ==
  ASSUME TypeOK, TypeOK', Stocked, NEW r \in Request, NEW b \in BOOLEAN, Scan(r, b), Seeks(r),
         failed' = failed,
         req[r].used # {} => Cardinality(req[r].used) + req[r].left >= 1 + RetryTimes,
         b /\ req[r].used # {} => Untried(r, GroupOf[r]) = {}
  PROVE  Seeks(r)'
<1> DEFINE todo == Pool(GroupNow(r, b), ModelOf[r]) \ req[r].used
<1>1. req'[r] = [req[r] EXCEPT !.pc = "scan", !.backup = b, !.cand = {}, !.todo = todo]
  BY DEF Scan, TypeOK
<1>2. /\ req'[r].pc = "scan" /\ req'[r].used = req[r].used /\ req'[r].last = req[r].last
      /\ req'[r].left = req[r].left /\ req'[r].todo = todo /\ req'[r].backup = b
  <2> HIDE DEF todo
  <2> QED BY <1>1 DEF TypeOK, ReqState
<1>3. \A g : Untried(r, g)' = Untried(r, g)
  BY <1>2 DEF Untried
<1>4. Untried(r, GroupNow(r, b)) \subseteq todo
  BY DEF Untried, Stocked, Pool
<1>5. GroupNow(r, req[r].backup)' = GroupNow(r, b)
  BY <1>2 DEF GroupNow
<1> QED BY <1>2, <1>3, <1>4, <1>5 DEF Seeks, GivesUp

\* A healthy channel is no longer to be looked at only once it is a candidate.
LEMMA LookSeeks ==
  ASSUME TypeOK, TypeOK', Stocked, NEW r \in Request, Seeks(r), Look(r)
  PROVE  Seeks(r)'
<1>q. req[r] \in ReqState /\ req[r].todo \subseteq Channel /\ now \in Nat
  BY DEF TypeOK, ReqState
<1>1. PICK c \in req[r].todo :
        req' = [req EXCEPT ![r].dels = SeenExpired(c, ModelOf[r]),
                 ![r].todo = IF Expired(<<c, AnyModel>>) THEN @ ELSE @ \ {c},
                 ![r].cand = IF ~Expired(<<c, AnyModel>>) /\ Eligible(r, c)
                             THEN @ \cup {c} ELSE @]
  BY DEF Look
<1> DEFINE todo == IF Expired(<<c, AnyModel>>) THEN req[r].todo ELSE req[r].todo \ {c}
           cand == IF ~Expired(<<c, AnyModel>>) /\ Eligible(r, c)
                   THEN req[r].cand \cup {c} ELSE req[r].cand
           q == [req[r] EXCEPT !.dels = SeenExpired(c, ModelOf[r]), !.todo = todo, !.cand = cand]
<1>2. req[r].used # {} /\ c \in FallbackEnabled \ failed => Eligible(r, c)
  <2>1. ASSUME c \in Channel \ failed PROVE ~Cooling(c, ModelOf[r])
    <3>1. cool[<<c, AnyModel>>] = 0 /\ cool[<<c, ModelOf[r]>>] = 0
      BY <2>1 DEF Stocked
    <3> QED BY <1>q, <3>1 DEF Cooling, Running
  <2> QED BY <2>1 DEF Eligible
<1>3. req[r].used # {} => (req[r].todo \cup req[r].cand) \cap (FallbackEnabled \ failed)
                            \subseteq todo \cup cand
  BY <1>2
<1>4. req' = [req EXCEPT ![r] = q]
  BY <1>1 DEF TypeOK
<1>5. /\ q.pc = req[r].pc /\ q.used = req[r].used /\ q.last = req[r].last /\ q.left = req[r].left
      /\ q.backup = req[r].backup /\ q.todo = todo /\ q.cand = cand
  <2> HIDE DEF todo, cand
  <2> QED BY <1>q DEF ReqState
<1>6. req'[r] = q /\ req[r].pc = "scan" /\ failed' = failed
  <2> HIDE DEF q
  <2> QED BY <1>4 DEF TypeOK, Look, history
<1> HIDE DEF q, todo, cand
<1>7. \A g : Untried(r, g)' = Untried(r, g)
  BY <1>5, <1>6 DEF Untried
<1>8. \A g : Untried(r, g) \subseteq FallbackEnabled \ failed
  BY DEF Untried
<1>9. GroupNow(r, req[r].backup)' = GroupNow(r, req[r].backup)
  BY <1>5, <1>6 DEF GroupNow
<1>10. ASSUME req[r].used # {}
       PROVE  Untried(r, GroupNow(r, req[r].backup))' \subseteq todo \cup cand
  BY <1>3, <1>6, <1>7, <1>8, <1>9, <1>10 DEF Seeks
<1>11. ~GivesUp(r)'
  BY <1>5, <1>6 DEF GivesUp
<1> QED BY <1>5, <1>6, <1>7, <1>10, <1>11 DEF Seeks

LEMMA ExhaustedSeeks ==
  ASSUME TypeOK, TypeOK', Stocked, NEW r \in Request, Tries(r), Seeks(r), Exhausted(r)
  PROVE  Seeks(r)'
<1>1. /\ req[r].pc = "scan" /\ req[r].todo \cup req[r].cand = {} /\ failed' = failed /\ now' = now
      /\ Cardinality(req[r].used) \in Nat
  BY FS_CardinalityType DEF Exhausted, ScanOver, Tries, Budget, history
<1>2. req[r].used # {} => /\ Untried(r, GroupNow(r, req[r].backup)) = {}
                          /\ req[r].backup => Untried(r, GroupOf[r]) = {}
                          /\ Cardinality(req[r].used) + req[r].left >= 1 + RetryTimes
  BY <1>1 DEF Seeks
<1>3. CASE req[r].used = {} /\ Done(r, "noChannel")
  <2>1. req[r].last \notin Retryable
    BY <1>3 DEF Seeks, Retryable, Outcome
  <2> QED BY <1>1, <1>3, <2>1, DoneSeeks
<1>4. CASE req[r].used # {} /\ ~req[r].backup /\ Scan(r, TRUE)
  <2>1. Untried(r, GroupOf[r]) = {}
    BY <1>2, <1>4 DEF GroupNow
  <2> QED BY <1>1, <1>2, <1>4, <2>1, ScanSeeks
<1>5. CASE req[r].used # {} /\ (req[r].backup \/ BackupOf[r] = NoGroup) /\ Done(r, req[r].last)
  <2>1. Untried(r, NoGroup) = {}
    BY DEF Untried
  <2>2. Untried(r, GroupOf[r]) = {} /\ Untried(r, BackupOf[r]) = {}
    BY <1>2, <1>5, <2>1 DEF GroupNow
  <2> QED BY <1>1, <1>5, <2>2, DoneSeeks
<1> QED BY <1>3, <1>4, <1>5 DEF Exhausted

LEMMA FailSeeks ==
  ASSUME TypeOK, TypeOK', NEW r \in Request, Tries(r), Seeks(r), NEW o \in Failures,
         NEW s \in RetryAfters \cup {0}, Fail(r, o, s)
  PROVE  Seeks(r)'
<1>q. req[r] \in ReqState /\ req[r].left \in Int
  BY DEF TypeOK, ReqState
<1>1. /\ req[r].pc = "call" /\ req'[r].pc = (IF First(r) THEN "decide" ELSE "again")
      /\ req'[r].left = req[r].left /\ req'[r].used = req[r].used \cup {req[r].ch}
  BY <1>q DEF Fail, Failed, TypeOK, ReqState
<1>2. /\ Cardinality(req'[r].used) = Cardinality(req[r].used) + 1
      /\ Cardinality(req[r].used) \in Nat
  <2>1. IsFiniteSet(req[r].used) /\ req[r].ch \notin req[r].used
    BY <1>1 DEF Tries, Budget, Fresh
  <2> QED BY <1>1, <2>1, FS_CardinalityType, FS_AddElement, ZenonT(40)
<1>3. ~GivesUp(r)' /\ req'[r].used # {}
  BY <1>1 DEF GivesUp
<1> QED BY <1>q, <1>1, <1>2, <1>3 DEF Seeks, First

LEMMA HandlerSeeks ==
  ASSUME TypeOK, TypeOK', Stocked, NEW r \in Request, Tries(r), Consent(r), Seeks(r), Handler(r)
  PROVE  Seeks(r)'
<1>q. /\ req[r] \in ReqState /\ req[r].left \in Int /\ req[r].deadline \in Nat /\ now \in Nat
      /\ Cardinality(req[r].used) \in Nat
  BY FS_CardinalityType DEF TypeOK, ReqState, Tries, Budget
<1>1. CASE Arrive(r)
  <2>1. req[r].used = {} /\ req[r].pc = "idle" /\ failed' = failed
    BY <1>1 DEF Arrive, Tries, Budget, history
  <2>2. CASE Scan(r, FALSE)
    BY <2>1, <2>2, ScanSeeks
  <2>3. CASE Goto(r, "unstick")
    <3>1. req'[r].pc = "unstick" /\ req'[r].used = req[r].used /\ req'[r].last = req[r].last
      BY <2>3, <1>q DEF Goto, TypeOK, ReqState
    <3> QED BY <2>1, <3>1, MoveSeeks
  <2>4. CASE req' = [req EXCEPT ![r].pc = "verify", ![r].ch = affinity[KeyOf(r)].ch]
    <3>1. req'[r].pc = "verify" /\ req'[r].used = req[r].used /\ req'[r].last = req[r].last
      BY <2>4, <1>q DEF TypeOK, ReqState
    <3> QED BY <2>1, <3>1, MoveSeeks
  <2> QED BY <1>1, <2>2, <2>3, <2>4 DEF Arrive
<1>2. CASE ArrivePinned(r)
  <2>1. req[r].used = {} /\ failed' = failed /\ now' = now
    BY <1>2 DEF ArrivePinned, Tries, Budget, history
  <2>2. CASE Done(r, "noChannel")
    <3>1. req[r].last \notin Retryable
      BY <2>1 DEF Seeks, Retryable, Outcome
    <3> QED BY <1>q, <2>1, <2>2, <3>1, DoneSeeks
  <2>3. ASSUME NEW c \in Channel, req' = [req EXCEPT ![r].pc = "call", ![r].ch = c]
        PROVE  Seeks(r)'
    <3>1. req'[r].pc = "call" /\ req'[r].used = req[r].used /\ req'[r].last = req[r].last
      BY <2>3, <1>q DEF TypeOK, ReqState
    <3> QED BY <2>1, <3>1, MoveSeeks
  <2> QED BY <1>2, <2>2, <2>3 DEF ArrivePinned
<1>3. CASE Verify(r)
  <2>1. req[r].used = {}
    BY <1>3 DEF Verify, Tries, Budget
  <2>2. /\ req'[r].pc = Verdict(req[r].ch, ModelOf[r])
        /\ req'[r].used = req[r].used /\ req'[r].last = req[r].last
    BY <1>3, <1>q DEF Verify, TypeOK, ReqState
  <2>3. req'[r].pc \notin {"done", "again"}
    BY <2>2 DEF Verdict
  <2> QED BY <2>1, <2>2, <2>3, MoveSeeks
<1>4. CASE Unstick(r)
  BY <1>4, ScanSeeks DEF Unstick, Tries, Budget, history
<1>5. CASE Look(r)
  BY <1>5, LookSeeks
<1>6. CASE Forget(r)
  <2>1. PICK k \in req[r].dels : req' = [req EXCEPT ![r].dels = @ \ {k}]
    BY <1>6 DEF Forget
  <2>2. /\ req'[r].pc = req[r].pc /\ req'[r].used = req[r].used /\ req'[r].last = req[r].last
        /\ req'[r].first = req[r].first /\ req'[r].left = req[r].left
        /\ req'[r].todo = req[r].todo /\ req'[r].cand = req[r].cand
        /\ req'[r].backup = req[r].backup /\ req'[r].deadline = req[r].deadline
    BY <2>1, <1>q DEF TypeOK, ReqState
  <2>3. failed' = failed /\ now' = now
    BY <1>6 DEF Forget, history
  <2>4. \A g : Untried(r, g)' = Untried(r, g)
    BY <2>2, <2>3 DEF Untried
  <2>5. GivesUp(r)' => GivesUp(r)
    BY <2>2, <2>3 DEF GivesUp
  <2>6. GroupNow(r, req[r].backup)' = GroupNow(r, req[r].backup)
    BY <2>2 DEF GroupNow
  <2> QED BY <2>2, <2>4, <2>5, <2>6 DEF Seeks
<1>7. CASE Choose(r)
  <2>1. PICK c \in Top(req[r].cand) : req' = [req EXCEPT ![r].pc = "call", ![r].ch = c]
    BY <1>7 DEF Choose
  <2>2. /\ req[r].pc = "scan" /\ req'[r].pc = "call" /\ req'[r].used = req[r].used
        /\ req'[r].last = req[r].last /\ req'[r].left = req[r].left
    BY <1>7, <2>1, <1>q DEF Choose, ScanOver, TypeOK, ReqState
  <2> QED BY <2>2, MoveSeeks
<1>8. CASE Exhausted(r)
  BY <1>8, ExhaustedSeeks
<1>9. CASE Succeed(r)
  <2>1. req'[r].pc = "done" /\ req'[r].last = "ok" /\ req'[r].used # {}
    BY <1>9, <1>q DEF Succeed, TypeOK, ReqState
  <2> QED BY <2>1 DEF Seeks, GivesUp, Retryable
<1>10. ASSUME NEW o \in Failures, NEW s \in RetryAfters \cup {0}, Fail(r, o, s)
       PROVE  Seeks(r)'
  BY <1>10, FailSeeks
<1>11. CASE Decide(r)
  <2>1. /\ req[r].pc = "decide" /\ req[r].used = {req[r].first} /\ Cardinality(req[r].used) = 1
        /\ failed' = failed /\ now' = now
    BY <1>11 DEF Decide, Tries, Budget, Consent, history
  <2>2. CASE Done(r, req[r].last)
               /\ ~(ShouldFallback(req[r].first, Classify(req[r].last)) /\ RetryTimes > 0)
    <3>1. ~(RetryTimes > 0) => Cardinality(req[r].used) > RetryTimes
      BY <2>1
    <3> QED BY <1>q, <2>1, <2>2, <3>1, DoneSeeks
  <2>3. CASE req' = [req EXCEPT ![r].pc = "loop", ![r].left = RetryTimes,
                                ![r].deadline = now + RetryTimeOut]
    <3>1. /\ req'[r].pc = "loop" /\ req'[r].used = req[r].used /\ req'[r].last = req[r].last
          /\ req'[r].left = RetryTimes
      BY <2>3, <1>q DEF TypeOK, ReqState
    <3>2. Cardinality(req'[r].used) + req'[r].left >= 1 + RetryTimes /\ req'[r].used # {}
      BY <2>1, <3>1
    <3> QED BY <3>1, <3>2 DEF Seeks, GivesUp
  <2> QED BY <1>11, <2>2, <2>3 DEF Decide
<1>12. CASE Again(r)
  <2>1. req[r].pc = "again" /\ failed' = failed /\ now' = now
    BY <1>12 DEF Again, history
  <2>2. CASE Classify(req[r].last) = "" /\ Done(r, req[r].last)
    <3>1. req[r].last \notin Retryable
      BY <2>2 DEF Classify, Retryable
    <3> QED BY <1>q, <2>1, <2>2, <3>1, DoneSeeks
  <2>3. CASE req' = [req EXCEPT ![r].pc = "loop", ![r].left = @ - 1]
    <3>1. /\ req'[r].pc = "loop" /\ req'[r].used = req[r].used /\ req'[r].last = req[r].last
          /\ req'[r].left = req[r].left - 1
      BY <2>3, <1>q DEF TypeOK, ReqState
    <3> QED BY <1>q, <2>1, <3>1 DEF Seeks, GivesUp
  <2> QED BY <1>12, <2>2, <2>3 DEF Again
<1>13. CASE Loop(r)
  <2>1. /\ req[r].pc = "loop" /\ req[r].used # {} /\ failed' = failed /\ now' = now
        /\ Cardinality(req[r].used) + req[r].left >= 1 + RetryTimes
    BY <1>13 DEF Loop, Tries, Budget, Seeks, history
  <2>2. CASE ~(req[r].left > 0 /\ now <= req[r].deadline) /\ Done(r, req[r].last)
    <3>1. Cardinality(req[r].used) > RetryTimes \/ now > req[r].deadline
      BY <1>q, <2>1, <2>2
    <3> QED BY <1>q, <2>1, <2>2, <3>1, DoneSeeks
  <2>3. CASE Scan(r, FALSE)
    BY <2>1, <2>3, ScanSeeks
  <2> QED BY <1>13, <2>2, <2>3 DEF Loop
<1> QED BY <1>1, <1>2, <1>3, <1>4, <1>5, <1>6, <1>7, <1>8, <1>9, <1>10, <1>11, <1>12,
           <1>13 DEF Handler

LEMMA SeekStart == ASSUME Init PROVE SeekInv
BY DEF Init, SeekInv, Stocked, Seeks, GivesUp, CoolKey

LEMMA SeekStep ==
  ASSUME LoopInv, LoopInv', AllConsent, SeekInv, [Next]_vars
  PROVE  SeekInv'
<1>1. Stocked'
  BY StockedStep DEF SeekInv
<1>2. failed \subseteq failed' /\ now <= now'
  <2>1. now \in Nat
    BY DEF LoopInv, TypeOK
  <2>2. CASE World
    <3>1. CASE Tick
      BY <2>1, <3>1 DEF Tick, history
    <3>2. CASE ~Tick
      <4>1. failed' = failed /\ now' = now
        BY <2>2, <3>2 DEF World, Report, Reenable, SyncRead, SyncPublish, SweepLook, SweepForget,
           CleanupAffinity, history
      <4> QED BY <2>1, <4>1
    <3> QED BY <3>1, <3>2
  <2>3. ASSUME NEW r \in Request, Handler(r) PROVE failed \subseteq failed' /\ now' = now
    BY <2>3 DEF Handler, Arrive, ArrivePinned, Verify, Unstick, Look, Forget, Choose, Exhausted,
       Succeed, Fail, Failed, Decide, Again, Loop, history
  <2> QED BY <2>1, <2>2, <2>3 DEF Next, vars, history
<1>3. ASSUME req' = req PROVE \A r \in Request : Seeks(r)'
  BY <1>2, <1>3, OthersSeek DEF SeekInv, LoopInv
<1>4. ASSUME NEW r \in Request, Handler(r) PROVE \A s \in Request : Seeks(s)'
  <2>1. TypeOK /\ TypeOK' /\ Tries(r) /\ Consent(r)
    BY DEF LoopInv, AllConsent
  <2>2. OthersStay(r) /\ Seeks(r)'
    BY <1>4, <2>1, HandlerTries, HandlerSeeks DEF SeekInv
  <2>3. ASSUME NEW s \in Request \ {r} PROVE Seeks(s)'
    <3>1. Seeks(s) /\ req'[s] = req[s]
      BY <2>2 DEF SeekInv, OthersStay
    <3> QED BY <1>2, <2>1, <3>1, OthersSeek
  <2> QED BY <2>2, <2>3
<1>5. req' = req \/ \E r \in Request : Handler(r)
  BY WorldTypes DEF LoopInv, Next, vars
<1>6. \A r \in Request : Seeks(r)'
  BY <1>3, <1>4, <1>5
<1> QED BY <1>1, <1>6 DEF SeekInv

\* A request is not given up, with tries and time left, while a healthy channel of its
\* group or its backup group is untried, for any number of requests and channels.
THEOREM HealthyIsFound == Spec => []HealthyFound
<1>1. SeekInv => HealthyFound
  <2> SUFFICES ASSUME SeekInv, NEW r \in Request, GivesUp(r),
                      NEW c \in FallbackEnabled \ (failed \cup req[r].used)
               PROVE  Serves[c] \cap ({GroupOf[r], BackupOf[r]} \X {ModelOf[r]}) = {}
    BY DEF HealthyFound
  <2>1. c \notin Untried(r, GroupOf[r]) /\ c \notin Untried(r, BackupOf[r])
    BY DEF SeekInv, Seeks
  <2> QED BY <2>1 DEF Untried
<1>2. LoopInv /\ LoopInv' /\ AllConsent /\ SeekInv /\ [Next]_vars => SeekInv'
  BY SeekStep
<1> QED BY <1>1, <1>2, SeekStart, LoopStart, LoopStep, ConsentAlways, PTL DEF Spec
=============================================================================
