----------------------------- MODULE GatewayProofs -----------------------------
(***************************************************************************)
(* What holds of the users, of who they are, of their tokens and of the    *)
(* codes they redeem, for any users, tokens, codes, accounts of other      *)
(* sites and handlers.                                                     *)
(***************************************************************************)
EXTENDS Accounts, Identities, Redemption, TokenAccess, FiniteSetTheorems, TLAPS

-----------------------------------------------------------------------------
(* TokenAccess: invariants.                                                *)

\* The quotas are within their bound, and nothing is seen or stored from the future.
InTime ==
  /\ \A h \in Call : (call[h].pc = "save" => call[h].row.remain <= MaxRemain) /\ call[h].since <= now
  /\ cache.token.until <= now + CacheSeconds /\ cache.user.until <= now + CacheSeconds

\* A handler that is to write a status back holds the quota the owner is owed.
CopiesOwed ==
  token.there /\ ~undone =>
    /\ token.remain = owed
    /\ \A h \in Call : call[h].pc = "save" /\ ~call[h].ok => call[h].row.remain = owed

\* What is off cannot be used, and was turned off before now.
OffMeansOff ==
  /\ offSince["token"] # Never => ~Usable(token, now) /\ offSince["token"] \in 0..now
  /\ offSince["user"] # Never => ~enabled /\ offSince["user"] \in 0..now

Lag == IF redis THEN CacheSeconds ELSE 0
Seen(h, what) ==
  offSince[what] # Never /\ what \notin filling =>
    (call[h].since <= offSince[what] \/ call[h].since < offSince[what] + Lag)

\* An entry that would let a call in was stored before it was turned off, ...
EntriesOld ==
  /\ (redis /\ Usable(cache.token.row, now) /\ offSince["token"] # Never /\ "token" \notin filling)
       => cache.token.until <= offSince["token"] + CacheSeconds
  /\ (redis /\ cache.user.ok /\ offSince["user"] # Never /\ "user" \notin filling)
       => cache.user.until <= offSince["user"] + CacheSeconds

\* ... and so was what a handler is to store, and what it has seen.
SawInTime(h) ==
  /\ (call[h].pc = "store" /\ Usable(call[h].row, now) /\ offSince["token"] # Never) => "token" \in filling
  /\ (call[h].pc = "storeUser" /\ call[h].ok /\ offSince["user"] # Never) => "user" \in filling
  /\ (call[h].pc \in {"store", "check"} /\ Usable(call[h].row, now)) => Seen(h, "token")
  /\ call[h].pc \in {"user", "storeUser", "decide"} => Seen(h, "token")
  /\ (call[h].pc \in {"storeUser", "decide"} /\ call[h].ok) => Seen(h, "user")

AccessInv ==
  AccessTypeOK /\ InTime /\ CopiesOwed /\ OffMeansOff /\ EntriesOld /\ \A h \in Call : SawInTime(h)

-----------------------------------------------------------------------------
(* TokenAccess: proofs.                                                    *)

\* What Turns makes of the history.
LEMMA TurnsWrites ==
  ASSUME NEW row, NEW on, NEW t, Turns(row, on, t)
  PROVE  /\ offSince' = [token |-> IF Usable(row, t) THEN Never
                                   ELSE IF offSince["token"] = Never THEN t ELSE offSince["token"],
                         user |-> IF on THEN Never
                                  ELSE IF offSince["user"] = Never THEN t ELSE offSince["user"]]
         /\ filling' \subseteq filling \cup {"token", "user"} /\ filling \subseteq filling'
         /\ (~Usable(row, t) /\ offSince["token"] = Never /\ \E h \in Call : call[h].pc = "store")
              => "token" \in filling'
         /\ (~on /\ offSince["user"] = Never /\ \E h \in Call : call[h].pc = "storeUser")
              => "user" \in filling'
  BY DEF Turns

LEMMA TurnsTyped ==
  ASSUME AccessTypeOK, NEW row, NEW on, NEW t \in Int, Turns(row, on, t)
  PROVE  offSince' \in [{"token", "user"} -> Int] /\ filling' \subseteq {"token", "user"}
<1>1. filling' \subseteq {"token", "user"}
  BY TurnsWrites DEF AccessTypeOK
<1> DEFINE a == IF Usable(row, t) THEN Never ELSE IF offSince["token"] = Never THEN t ELSE offSince["token"]
           b == IF on THEN Never ELSE IF offSince["user"] = Never THEN t ELSE offSince["user"]
<1>2. a \in Int /\ b \in Int
  BY DEF AccessTypeOK, Never
<1>3. offSince' = [token |-> a, user |-> b]
  BY TurnsWrites
<1> HIDE DEF a, b
<1>4. offSince' = [x \in {"token", "user"} |-> IF x = "token" THEN a ELSE b]
  BY <1>3
<1>5. QED
  BY <1>1, <1>2, <1>4

\* A row that could be used a second later can be used now.
LEMMA UsableBefore ==
  ASSUME NEW row \in TokenRow, NEW t \in Int, Usable(row, t + 1)
  PROVE  Usable(row, t)
BY DEF Usable, Expired, Exhausted, TokenRow

\* Time and what is in the database may move: what handlers and entries hold is as old as before.
LEMMA WorldMoves ==
  ASSUME TokenAccessAssumption, AccessInv, redis' = redis, enabled' \in BOOLEAN, now' \in {now, now + 1},
         \/ Turns(token', enabled', now')
         \/ UNCHANGED <<token, enabled, now, offSince, filling>>
  PROVE  /\ OffMeansOff' /\ offSince' \in [{"token", "user"} -> Int] /\ filling' \subseteq {"token", "user"}
         /\ cache' = cache => EntriesOld'
         /\ \A k \in Call : call'[k] = call[k] => SawInTime(k)'
<1> USE DEF Never
<1>1. now \in Nat /\ now' \in Int /\ now <= now' /\ CacheSeconds \in Nat
  BY DEF AccessInv, AccessTypeOK, TokenAccessAssumption
<1>2. CASE UNCHANGED <<token, enabled, now, offSince, filling>>
  BY <1>2 DEF AccessInv, AccessTypeOK, OffMeansOff, EntriesOld, SawInTime, Seen, Lag, Usable, Expired
<1>3. CASE Turns(token', enabled', now')
  <2> DEFINE off == offSince'
  <2>1. /\ off["token"] = IF Usable(token', now') THEN Never
                          ELSE IF offSince["token"] = Never THEN now' ELSE offSince["token"]
        /\ off["user"] = IF enabled' THEN Never
                         ELSE IF offSince["user"] = Never THEN now' ELSE offSince["user"]
    BY <1>3, TurnsWrites
  <2>2. /\ filling \subseteq filling'
        /\ (~Usable(token', now') /\ offSince["token"] = Never /\ \E h \in Call : call[h].pc = "store")
             => "token" \in filling'
        /\ (~enabled' /\ offSince["user"] = Never /\ \E h \in Call : call[h].pc = "storeUser")
             => "user" \in filling'
    BY <1>3, TurnsWrites
  <2>3. offSince' \in [{"token", "user"} -> Int] /\ filling' \subseteq {"token", "user"}
    BY <1>1, <1>3, TurnsTyped DEF AccessInv
  <2>4. /\ offSince["token"] # Never => offSince["token"] \in 0..now
        /\ offSince["user"] # Never => offSince["user"] \in 0..now
    BY DEF AccessInv, OffMeansOff
  <2> HIDE DEF off
  <2>5. OffMeansOff'
    BY <1>1, <2>1, <2>4 DEF OffMeansOff, off
  <2>6. \A row \in TokenRow : Usable(row, now') => Usable(row, now)
    BY <1>1, UsableBefore
  <2>7. ASSUME cache' = cache
        PROVE  EntriesOld'
    <3>1. cache.token.row \in TokenRow /\ cache.token.until \in Int /\ cache.user.until \in Int
      BY <1>1 DEF AccessInv, AccessTypeOK, TokenAccessAssumption
    <3>2. cache.token.until <= now + CacheSeconds /\ cache.user.until <= now + CacheSeconds
      BY DEF AccessInv, InTime
    <3>3. ASSUME redis, Usable(cache.token.row, now'), off["token"] # Never, "token" \notin filling'
          PROVE  cache.token.until <= off["token"] + CacheSeconds
      <4>1. CASE offSince["token"] = Never
        BY <4>1, <1>1, <2>1, <3>1, <3>2, <3>3
      <4>2. CASE offSince["token"] # Never
        <5>1. off["token"] = offSince["token"] /\ "token" \notin filling
          BY <4>2, <2>1, <2>2, <3>3
        <5>2. QED
          BY <4>2, <5>1, <2>6, <3>1, <3>3 DEF AccessInv, EntriesOld
      <4>3. QED
        BY <4>1, <4>2
    <3>4. ASSUME redis, cache.user.ok, off["user"] # Never, "user" \notin filling'
          PROVE  cache.user.until <= off["user"] + CacheSeconds
      <4>1. CASE offSince["user"] = Never
        BY <4>1, <1>1, <2>1, <3>1, <3>2, <3>4
      <4>2. CASE offSince["user"] # Never
        <5>1. off["user"] = offSince["user"] /\ "user" \notin filling
          BY <4>2, <2>1, <2>2, <3>4
        <5>2. QED
          BY <4>2, <5>1, <3>4 DEF AccessInv, EntriesOld
      <4>3. QED
        BY <4>1, <4>2
    <3>5. QED
      BY <2>7, <3>3, <3>4 DEF EntriesOld, off
  <2>8. ASSUME NEW k \in Call, call'[k] = call[k]
        PROVE  SawInTime(k)'
    <3>1. call[k].row \in TokenRow /\ call[k].since \in Int /\ call[k].since <= now
      BY DEF AccessInv, AccessTypeOK, InTime, CallState
    <3>2. SawInTime(k)
      BY DEF AccessInv
    <3>3. Lag \in Nat /\ Lag' = Lag
      BY <1>1 DEF Lag
    <3>4. ASSUME NEW what \in {"token", "user"}, Seen(k, what)
          PROVE  Seen(k, what)'
      <4>1. off[what] # Never /\ what \notin filling' => call[k].since <= off[what] \/ call[k].since < off[what] + Lag
        <5>1. CASE offSince[what] = Never
          BY <5>1, <1>1, <2>1, <3>1
        <5>2. CASE offSince[what] # Never
          BY <5>2, <2>1, <2>2, <3>4 DEF Seen
        <5>3. QED
          BY <5>1, <5>2
      <4>2. QED
        BY <4>1, <2>8, <3>3 DEF Seen, off
    <3>5. (call[k].pc = "store" /\ Usable(call[k].row, now') /\ off["token"] # Never) => "token" \in filling'
      BY <2>1, <2>2, <2>6, <3>1, <3>2 DEF SawInTime
    <3>6. (call[k].pc = "storeUser" /\ call[k].ok /\ off["user"] # Never) => "user" \in filling'
      BY <2>1, <2>2, <3>2 DEF SawInTime
    <3>7. (call[k].pc \in {"store", "check"} /\ Usable(call[k].row, now')) => Seen(k, "token")
      BY <2>6, <3>1, <3>2 DEF SawInTime
    <3>8. QED
      BY <2>8, <3>2, <3>4, <3>5, <3>6, <3>7 DEF SawInTime, off
  <2>9. QED
    BY <2>3, <2>5, <2>7, <2>8
<1>4. QED
  BY <1>2, <1>3

\* A handler comes to a state, and every other one stays in its own.
LEMMA CallSteps ==
  ASSUME AccessTypeOK, InTime, NEW h \in Call, NEW j \in CallState, call' = [call EXCEPT ![h] = j],
         j.pc = "save" => j.row.remain <= MaxRemain, j.since <= now, now' = now
  PROVE  /\ call' \in [Call -> CallState]
         /\ \A k \in Call : (call'[k].pc = "save" => call'[k].row.remain <= MaxRemain) /\ call'[k].since <= now'
<1>1. call' \in [Call -> CallState]
  BY DEF AccessTypeOK
<1>2. ASSUME NEW k \in Call
      PROVE  (call'[k].pc = "save" => call'[k].row.remain <= MaxRemain) /\ call'[k].since <= now'
  <2>1. CASE k = h
    <3>1. call'[k] = j
      BY <2>1 DEF AccessTypeOK
    <3>2. QED
      BY <3>1
  <2>2. CASE k # h
    <3>1. call'[k] = call[k]
      BY <2>2 DEF AccessTypeOK
    <3>2. QED
      BY <3>1 DEF InTime
  <2>3. QED
    BY <2>1, <2>2
<1>3. QED
  BY <1>1, <1>2

LEMMA AtEaseIsState ==
  ASSUME TokenAccessAssumption
  PROVE  AtEase \in CallState /\ Deleted \in TokenRow /\ Deleted.remain <= MaxRemain
<1>1. Deleted \in TokenRow /\ Deleted.remain = 0
  BY DEF Deleted, TokenRow, TokenStatus, Never
<1>2. MaxRemain \in Nat
  BY DEF TokenAccessAssumption
<1> HIDE DEF Deleted, TokenRow
<1>3. QED
  BY <1>1, <1>2 DEF AtEase, CallState

\* Where a handler comes to in each of its steps.
LEMMA CallsMove ==
  ASSUME TokenAccessAssumption, AccessTypeOK, InTime, NEW h \in Call,
         \/ GetToken(h) \/ StoreToken(h) \/ CheckToken(h) \/ MarkToken(h)
         \/ GetUser(h) \/ StoreUser(h) \/ Decide(h) \/ ReadToUpdate(h) \/ SaveToken(h)
  PROVE  \E j \in CallState :
           /\ call' = [call EXCEPT ![h] = j]
           /\ j.pc = "save" => j.row.remain <= MaxRemain
           /\ j.since <= now
<1> DEFINE Comes(j) ==
      j \in CallState /\ call' = [call EXCEPT ![h] = j] /\ (j.pc = "save" => j.row.remain <= MaxRemain) /\ j.since <= now
<1>1. /\ now \in Nat /\ MaxRemain \in Nat /\ token \in TokenRow /\ token.remain <= MaxRemain
      /\ call \in [Call -> CallState] /\ enabled \in BOOLEAN
      /\ cache.token.row \in TokenRow /\ cache.user.ok \in BOOLEAN
  BY DEF AccessTypeOK, TokenAccessAssumption
<1>2. call[h] \in CallState /\ call[h].since <= now /\ call[h].row \in TokenRow
  BY <1>1 DEF CallState, InTime
<1>3. AtEase \in CallState /\ AtEase.pc # "save" /\ AtEase.since = 0 /\ AtEase.row \in TokenRow /\ AtEase.ok \in BOOLEAN
  BY AtEaseIsState DEF AtEase
<1>4. ASSUME Ends(h)
      PROVE  Comes(AtEase)
  BY <1>1, <1>3, <1>4 DEF Ends
<1>5. ASSUME NEW pc, At(h, pc), pc \in {"check", "decide"}
      PROVE  Comes([call[h] EXCEPT !.pc = pc])
  <2>1. [call[h] EXCEPT !.pc = pc] \in CallState
    BY <1>2, <1>5 DEF CallState
  <2>2. [call[h] EXCEPT !.pc = pc].pc # "save" /\ [call[h] EXCEPT !.pc = pc].since = call[h].since
    BY <1>2, <1>5 DEF CallState
  <2>3. call' = [call EXCEPT ![h] = [call[h] EXCEPT !.pc = pc]]
    BY <1>5 DEF At
  <2>4. QED
    BY <1>2, <2>1, <2>2, <2>3
<1>6. ASSUME GetToken(h)
      PROVE  \E j : Comes(j)
  <2> DEFINE seen == IF Hit(cache.token) THEN cache.token.row ELSE token
             pc == IF redis /\ ~Hit(cache.token) /\ token.there THEN "store" ELSE "check"
             j == [AtEase EXCEPT !.pc = pc, !.row = seen, !.since = now]
  <2>1. call' = [call EXCEPT ![h] = j]
    BY <1>6 DEF GetToken
  <2>2. seen \in TokenRow /\ pc \in {"store", "check"}
    BY <1>1
  <2> HIDE DEF seen, pc
  <2>3. j \in CallState /\ j.pc # "save" /\ j.since = now
    BY <1>1, <1>3, <2>2 DEF CallState, AtEase
  <2>4. now <= now
    BY <1>1
  <2> HIDE DEF j
  <2>5. Comes(j)
    BY <2>1, <2>3, <2>4
  <2>6. QED
    BY <2>5
<1>7. ASSUME StoreToken(h)
      PROVE  \E j : Comes(j)
  <2>1. At(h, "check")
    BY <1>7 DEF StoreToken
  <2>2. QED
    BY <1>5, <2>1
<1>8. ASSUME CheckToken(h)
      PROVE  \E j : Comes(j)
  <2> DEFINE row == call[h].row
             found == IF Expired(row, now) THEN {"expired"} ELSE IF Exhausted(row) THEN {"exhausted"} ELSE {}
             to == IF found = {} THEN "user" ELSE "mark"
             shown == IF found = {} THEN row.status ELSE CHOOSE s \in found : TRUE
             j == [call[h] EXCEPT !.pc = to, !.row.status = shown]
  <2>1. Ends(h) \/ call' = [call EXCEPT ![h].pc = to, ![h].row.status = IF found = {} THEN @ ELSE CHOOSE s \in found : TRUE]
    BY <1>8 DEF CheckToken
  <2>2. CASE Ends(h)
    BY <1>4, <2>2
  <2>3. CASE call' = [call EXCEPT ![h].pc = to, ![h].row.status = IF found = {} THEN @ ELSE CHOOSE s \in found : TRUE]
    <3>1. shown \in TokenStatus /\ to \in {"user", "mark"}
      <4>1. row.status \in TokenStatus
        BY <1>2 DEF TokenRow
      <4>2. found = {} \/ found = {"expired"} \/ found = {"exhausted"}
        OBVIOUS
      <4> HIDE DEF found, row
      <4>3. found # {} => shown \in found
        OBVIOUS
      <4>4. QED
        BY <4>1, <4>2, <4>3 DEF TokenStatus
    <3>2. call' = [call EXCEPT ![h] = j]
      BY <2>3, <1>1, <1>2 DEF CallState, TokenRow
    <3> HIDE DEF shown, to, found, row
    <3>3. [call[h].row EXCEPT !.status = shown] \in TokenRow
      BY <1>2, <3>1 DEF TokenRow
    <3>4. j \in CallState
      BY <1>2, <3>1, <3>3 DEF CallState
    <3>5. j.pc # "save" /\ j.since = call[h].since
      BY <1>2, <3>1 DEF CallState
    <3> HIDE DEF j
    <3>6. QED
      BY <1>2, <3>2, <3>4, <3>5
  <2>4. QED
    BY <2>1, <2>2, <2>3
<1>9. ASSUME MarkToken(h) \/ Decide(h) \/ SaveToken(h)
      PROVE  \E j : Comes(j)
  <2>1. Ends(h)
    BY <1>9 DEF MarkToken, Decide, SaveToken
  <2>2. QED
    BY <1>4, <2>1
<1>10. ASSUME GetUser(h)
       PROVE  \E j : Comes(j)
  <2> DEFINE pc == IF redis /\ ~Hit(cache.user) THEN "storeUser" ELSE "decide"
             ok == IF Hit(cache.user) THEN cache.user.ok ELSE enabled
             j == [call[h] EXCEPT !.pc = pc, !.ok = ok]
  <2>1. call' = [call EXCEPT ![h].pc = pc, ![h].ok = ok]
    BY <1>10 DEF GetUser
  <2>2. call' = [call EXCEPT ![h] = j]
    BY <1>1, <1>2, <2>1 DEF CallState
  <2>3. ok \in BOOLEAN /\ pc \in {"storeUser", "decide"}
    BY <1>1
  <2> HIDE DEF ok, pc
  <2>4. j \in CallState /\ j.pc # "save" /\ j.since = call[h].since
    BY <1>2, <2>3 DEF CallState
  <2> HIDE DEF j
  <2>5. QED
    BY <1>2, <2>2, <2>4
<1>11. ASSUME StoreUser(h)
       PROVE  \E j : Comes(j)
  <2>1. At(h, "decide")
    BY <1>11 DEF StoreUser
  <2>2. QED
    BY <1>5, <2>1
<1>12. ASSUME ReadToUpdate(h)
       PROVE  \E j : Comes(j)
  <2>1. PICK body \in TokenBody :
          call' = [call EXCEPT ![h] = [AtEase EXCEPT !.pc = "save", !.row = Updated(token, body),
                                                     !.ok = (body.kind = "columns")]]
    BY <1>12 DEF ReadToUpdate
  <2>2. Updated(token, body) \in TokenRow /\ Updated(token, body).remain <= MaxRemain
    <3>1. CASE body.kind = "status"
      <4>1. body.status \in TokenStatus
        BY <2>1, <3>1 DEF TokenBody, TokenStatus
      <4> DEFINE new == [token EXCEPT !.status = body.status]
      <4>2. new \in TokenRow /\ new.remain = token.remain
        BY <1>1, <4>1 DEF TokenRow
      <4>3. Updated(token, body) = new
        BY <3>1 DEF Updated
      <4> HIDE DEF new
      <4>4. QED
        BY <1>1, <4>2, <4>3
    <3>2. CASE body.kind # "status"
      <4>1. body.remain = MaxRemain /\ body.expired \in Int /\ body.unlimited \in BOOLEAN
        <5>1. body \in [kind: {"columns"}, status: {"disabled"}, remain: {MaxRemain}, expired: {Never, 1}, unlimited: BOOLEAN]
          BY <2>1, <3>2 DEF TokenBody
        <5>2. QED
          BY <5>1 DEF Never
      <4> DEFINE new == [token EXCEPT !.remain = body.remain, !.expired = body.expired, !.unlimited = body.unlimited]
      <4>2. new \in TokenRow /\ new.remain = MaxRemain
        <5>1. token \in TokenRow /\ body.remain \in Int
          BY <1>1, <4>1
        <5>2. new \in TokenRow /\ new.remain = body.remain
          BY <4>1, <5>1 DEF TokenRow
        <5>3. QED
          BY <4>1, <5>2
      <4>3. Updated(token, body) = new
        BY <3>2 DEF Updated
      <4> HIDE DEF new
      <4>4. QED
        BY <1>1, <4>2, <4>3
    <3>3. QED
      BY <3>1, <3>2
  <2> DEFINE row == Updated(token, body)
             ok == body.kind = "columns"
             j == [AtEase EXCEPT !.pc = "save", !.row = row, !.ok = ok]
  <2>3. ok \in BOOLEAN /\ row \in TokenRow /\ call' = [call EXCEPT ![h] = j]
    BY <2>1, <2>2
  <2> HIDE DEF ok, row
  <2>4. j \in CallState /\ j.row = row /\ j.since = 0
    BY <1>3, <2>3 DEF CallState, AtEase
  <2> HIDE DEF j
  <2>5. Comes(j)
    BY <1>1, <2>2, <2>3, <2>4 DEF row
  <2>6. QED
    BY <2>5
<1> HIDE DEF Comes
<1>13. \E j : Comes(j)
  BY <1>6, <1>7, <1>8, <1>9, <1>10, <1>11, <1>12
<1>14. QED
  BY <1>13 DEF Comes

\* The actions that leave the token, its user and the time alone.
Still == UNCHANGED <<redis, token, enabled, now, offSince, filling>>

\* What every action leaves, whoever takes it.
LEMMA AccessActs ==
  ASSUME NEW h \in Call,
         \/ GetToken(h) \/ StoreToken(h) \/ CheckToken(h) \/ MarkToken(h)
         \/ GetUser(h) \/ StoreUser(h) \/ Decide(h)
         \/ Debit(h) \/ ReadToUpdate(h) \/ SaveToken(h) \/ DeleteToken(h) \/ SwitchUser(h)
  PROVE  /\ UNCHANGED <<redis, tokenMix, now>>
         /\ calls' = calls \/ (calls < MaxCalls /\ calls' = calls + 1)
         /\ Still \/ Turns(token', enabled', now')
         /\ StoreToken(h) \/ StoreUser(h) \/ cache' = cache
         /\ enabled' = enabled \/ enabled' = ~enabled
BY DEF GetToken, StoreToken, CheckToken, MarkToken, GetUser, StoreUser, Decide, Debit, ReadToUpdate,
       SaveToken, DeleteToken, SwitchUser, Calls, accessHistory, Still

\* Types and bounds go on.
LEMMA AccessTypesStep ==
  ASSUME TokenAccessAssumption, AccessInv, AccessNext
  PROVE  AccessTypeOK' /\ InTime'
<1>1. /\ now \in Nat /\ now <= MaxTime /\ MaxTime \in Nat /\ CacheSeconds \in Nat /\ MaxRemain \in Nat
      /\ MaxCalls \in Nat /\ calls \in Nat /\ calls <= MaxCalls
      /\ token \in TokenRow /\ token.remain <= MaxRemain /\ call \in [Call -> CallState]
  BY DEF AccessInv, AccessTypeOK, TokenAccessAssumption
<1>2. /\ cache.token \in [row: TokenRow, until: 0..(MaxTime + CacheSeconds)]
      /\ cache.user \in [ok: BOOLEAN, until: 0..(MaxTime + CacheSeconds)]
      /\ cache.token.until <= now + CacheSeconds /\ cache.user.until <= now + CacheSeconds
  BY DEF AccessInv, AccessTypeOK, InTime
<1>3. AccessTypeOK /\ InTime
  BY DEF AccessInv
<1>4. CASE Second
  <2>1. now' = now + 1 /\ now' \in 0..MaxTime /\ UNCHANGED <<redis, tokenMix, token, enabled, cache, call, calls, owed, undone>>
    BY <1>1, <1>4 DEF Second
  <2>2. Turns(token', enabled', now')
    BY <1>4 DEF Second
  <2>3. enabled' \in BOOLEAN
    BY <1>3, <2>1 DEF AccessTypeOK
  <2>4. offSince' \in [{"token", "user"} -> Int] /\ filling' \subseteq {"token", "user"}
    BY <2>1, <2>2, <2>3, WorldMoves
  <2>5. AccessTypeOK'
    BY <1>3, <2>1, <2>4 DEF AccessTypeOK
  <2>6. \A k \in Call : call[k].since \in Int
    BY <1>1 DEF CallState
  <2>7. cache.token.until \in Int /\ cache.user.until \in Int
    BY <1>1, <1>2
  <2>8. QED
    BY <1>1, <1>2, <1>3, <2>1, <2>5, <2>6, <2>7 DEF InTime
<1>5. ASSUME NEW h \in Call,
             \/ GetToken(h) \/ StoreToken(h) \/ CheckToken(h) \/ MarkToken(h)
             \/ GetUser(h) \/ StoreUser(h) \/ Decide(h)
             \/ Debit(h) \/ ReadToUpdate(h) \/ SaveToken(h) \/ DeleteToken(h) \/ SwitchUser(h)
      PROVE  AccessTypeOK' /\ InTime'
  <2>1. /\ UNCHANGED <<redis, tokenMix, now>>
        /\ calls' = calls \/ (calls < MaxCalls /\ calls' = calls + 1)
        /\ Still \/ Turns(token', enabled', now')
        /\ StoreToken(h) \/ StoreUser(h) \/ cache' = cache
        /\ enabled' = enabled \/ enabled' = ~enabled
    BY <1>5, AccessActs
  <2>2. calls' \in 0..MaxCalls
    BY <1>1, <2>1
  <2>3. enabled' \in BOOLEAN
    BY <1>3, <2>1 DEF AccessTypeOK
  <2>4. offSince' \in [{"token", "user"} -> Int] /\ filling' \subseteq {"token", "user"}
    <3>1. redis' = redis /\ now' \in {now, now + 1}
      BY <2>1
    <3>2. (\/ Turns(token', enabled', now')
           \/ UNCHANGED <<token, enabled, now, offSince, filling>>)
      BY <2>1 DEF Still
    <3>3. QED
      BY <3>1, <3>2, <2>3, WorldMoves
  <2>5. /\ call' \in [Call -> CallState]
        /\ \A k \in Call : (call'[k].pc = "save" => call'[k].row.remain <= MaxRemain) /\ call'[k].since <= now'
    <3>1. CASE \/ GetToken(h) \/ StoreToken(h) \/ CheckToken(h) \/ MarkToken(h)
               \/ GetUser(h) \/ StoreUser(h) \/ Decide(h) \/ ReadToUpdate(h) \/ SaveToken(h)
      <4>1. PICK j \in CallState :
              /\ call' = [call EXCEPT ![h] = j]
              /\ j.pc = "save" => j.row.remain <= MaxRemain
              /\ j.since <= now
        BY <1>3, <3>1, CallsMove
      <4>2. now' = now
        BY <2>1
      <4>3. QED
        BY <1>3, <4>1, <4>2, CallSteps
    <3>2. CASE Debit(h) \/ DeleteToken(h) \/ SwitchUser(h)
      <4>1. call' = call /\ now' = now
        BY <3>2 DEF Debit, DeleteToken, SwitchUser
      <4>2. QED
        BY <1>3, <4>1 DEF AccessTypeOK, InTime
    <3>3. QED
      BY <1>5, <3>1, <3>2
  <2>6. token' \in TokenRow /\ token'.remain <= MaxRemain
    <3>1. CASE Still
      BY <1>1, <3>1 DEF Still
    <3>2. CASE MarkToken(h)
      <4>1. call[h].row.status \in TokenStatus
        BY <1>1 DEF CallState, TokenRow
      <4>2. token' = token \/ token' = [token EXCEPT !.status = call[h].row.status]
        BY <3>2 DEF MarkToken
      <4>3. QED
        BY <1>1, <4>1, <4>2 DEF TokenRow
    <3>3. CASE Debit(h)
      <4>1. PICK amount \in {-1, 1} :
              token.remain + amount \in -1..MaxRemain /\ token' = [token EXCEPT !.remain = @ + amount]
        BY <3>3 DEF Debit
      <4>2. token' = [token EXCEPT !.remain = token.remain + amount] /\ token.remain + amount \in Int
            /\ token.remain + amount <= MaxRemain
        BY <1>1, <4>1 DEF TokenRow
      <4>3. QED
        BY <1>1, <4>2 DEF TokenRow
    <3>4. CASE SaveToken(h)
      <4>1. token' = token \/ (token' = call[h].row /\ call[h].pc = "save")
        BY <3>4 DEF SaveToken
      <4>2. call[h].row \in TokenRow /\ (call[h].pc = "save" => call[h].row.remain <= MaxRemain)
        BY <1>1, <1>3 DEF CallState, InTime
      <4>3. QED
        BY <1>1, <4>1, <4>2
    <3>5. CASE DeleteToken(h)
      BY <3>5, AtEaseIsState DEF DeleteToken
    <3>6. CASE SwitchUser(h)
      BY <1>1, <3>6 DEF SwitchUser
    <3>7. QED
      BY <1>5, <3>1, <3>2, <3>3, <3>4, <3>5, <3>6
         DEF GetToken, StoreToken, CheckToken, GetUser, StoreUser, Decide, ReadToUpdate, Still, accessHistory
  <2>7. /\ cache' \in [token: [row: TokenRow, until: 0..(MaxTime + CacheSeconds)],
                       user: [ok: BOOLEAN, until: 0..(MaxTime + CacheSeconds)]]
        /\ cache'.token.until <= now' + CacheSeconds /\ cache'.user.until <= now' + CacheSeconds
    <3>1. now + CacheSeconds \in 0..(MaxTime + CacheSeconds)
      BY <1>1
    <3>2. call[h].row \in TokenRow /\ call[h].ok \in BOOLEAN
      BY <1>1 DEF CallState
    <3>3. CASE cache' = cache
      BY <1>2, <1>3, <2>1, <3>3 DEF AccessTypeOK
    <3>4. CASE StoreToken(h)
      <4> DEFINE stored == [row |-> call[h].row, until |-> now + CacheSeconds]
      <4>1. cache' = [cache EXCEPT !.token = stored]
        BY <3>4 DEF StoreToken
      <4>2. stored \in [row: TokenRow, until: 0..(MaxTime + CacheSeconds)] /\ stored.until = now + CacheSeconds
        BY <3>1, <3>2
      <4> HIDE DEF stored
      <4>3. cache'.token = stored /\ cache'.user = cache.user
        BY <1>3, <4>1 DEF AccessTypeOK
      <4>4. cache' \in [token: [row: TokenRow, until: 0..(MaxTime + CacheSeconds)],
                        user: [ok: BOOLEAN, until: 0..(MaxTime + CacheSeconds)]]
        BY <1>3, <4>1, <4>2 DEF AccessTypeOK
      <4>5. now + CacheSeconds <= now + CacheSeconds
        BY <1>1
      <4>6. QED
        BY <1>2, <2>1, <4>2, <4>3, <4>4, <4>5
    <3>5. CASE StoreUser(h)
      <4> DEFINE stored == [ok |-> call[h].ok, until |-> now + CacheSeconds]
      <4>1. cache' = [cache EXCEPT !.user = stored]
        BY <3>5 DEF StoreUser
      <4>2. stored \in [ok: BOOLEAN, until: 0..(MaxTime + CacheSeconds)] /\ stored.until = now + CacheSeconds
        BY <3>1, <3>2
      <4> HIDE DEF stored
      <4>3. cache'.user = stored /\ cache'.token = cache.token
        BY <1>3, <4>1 DEF AccessTypeOK
      <4>4. cache' \in [token: [row: TokenRow, until: 0..(MaxTime + CacheSeconds)],
                        user: [ok: BOOLEAN, until: 0..(MaxTime + CacheSeconds)]]
        BY <1>3, <4>1, <4>2 DEF AccessTypeOK
      <4>5. now + CacheSeconds <= now + CacheSeconds
        BY <1>1
      <4>6. QED
        BY <1>2, <2>1, <4>2, <4>3, <4>4, <4>5
    <3>6. QED
      BY <2>1, <3>3, <3>4, <3>5
  <2>8. owed' \in Int /\ undone' \in BOOLEAN
    <3>1. owed \in Int /\ undone \in BOOLEAN
      BY <1>3 DEF AccessTypeOK
    <3>2. CASE Debit(h)
      <4>1. PICK amount \in {-1, 1} : owed' = owed + amount /\ undone' = (undone \/ Copied)
        BY <3>2 DEF Debit
      <4>2. QED
        BY <3>1, <4>1
    <3>3. CASE SaveToken(h)
      <4>1. call[h].row.remain \in Int
        BY <1>1 DEF CallState, TokenRow
      <4>2. undone' \in BOOLEAN
        BY <3>1, <3>3 DEF SaveToken
      <4>3. QED
        BY <3>1, <3>3, <4>1, <4>2 DEF SaveToken
    <3>4. CASE DeleteToken(h)
      BY <3>1, <3>4 DEF DeleteToken
    <3>5. QED
      BY <1>5, <3>1, <3>2, <3>3, <3>4
         DEF GetToken, StoreToken, CheckToken, MarkToken, GetUser, StoreUser, Decide, ReadToUpdate, SwitchUser, accessHistory
  <2>9. redis' \in BOOLEAN /\ tokenMix' \in TokenMixes /\ now' \in 0..MaxTime
    BY <1>3, <2>1 DEF AccessTypeOK
  <2>10. AccessTypeOK'
    BY <2>2, <2>3, <2>4, <2>5, <2>6, <2>7, <2>8, <2>9 DEF AccessTypeOK
  <2>11. QED
    BY <2>5, <2>7, <2>10 DEF InTime
<1>6. QED
  BY <1>4, <1>5 DEF AccessNext

\* Whoever debits while a copy of the row is held, or saves one of two copies, spoils them all.
LEMMA CopiesOwedStep ==
  ASSUME AccessInv, AccessNext
  PROVE  CopiesOwed'
<1>1. token \in TokenRow /\ call \in [Call -> CallState] /\ owed \in Int /\ undone \in BOOLEAN
  BY DEF AccessInv, AccessTypeOK
<1>2. (token.there /\ ~undone) =>
        /\ token.remain = owed
        /\ \A k \in Call : call[k].pc = "save" /\ ~call[k].ok => call[k].row.remain = owed
  BY DEF AccessInv, CopiesOwed
<1>3. ASSUME UNCHANGED <<token, owed, undone>>,
             \A k \in Call : call'[k] = call[k] \/ call'[k].pc # "save"
      PROVE  CopiesOwed'
  BY <1>2, <1>3 DEF CopiesOwed
<1>4. ASSUME NEW h \in Call, NEW pc, pc # "save", \A k \in Call \ {h} : call'[k] = call[k], call'[h].pc = pc
      PROVE  \A k \in Call : call'[k] = call[k] \/ call'[k].pc # "save"
  BY <1>4
<1>5. CASE Second
  BY <1>3, <1>5 DEF Second
<1>6. ASSUME NEW h \in Call, Ends(h)
      PROVE  (\A k \in Call \ {h} : call'[k] = call[k]) /\ call'[h].pc = "idle"
  BY <1>1, <1>6 DEF Ends, AtEase
<1>7. ASSUME NEW h \in Call, NEW pc, At(h, pc)
      PROVE  (\A k \in Call \ {h} : call'[k] = call[k]) /\ call'[h].pc = pc
  BY <1>1, <1>7 DEF At, CallState
<1>8. ASSUME NEW h \in Call,
             GetToken(h) \/ StoreToken(h) \/ CheckToken(h) \/ GetUser(h) \/ StoreUser(h) \/ Decide(h)
      PROVE  CopiesOwed'
  <2>1. UNCHANGED <<token, owed, undone>>
    BY <1>8 DEF GetToken, StoreToken, CheckToken, GetUser, StoreUser, Decide, accessHistory
  <2>2. \A k \in Call : call'[k] = call[k] \/ call'[k].pc # "save"
    <3>1. CASE GetToken(h)
      <4>1. PICK pc \in {"store", "check"} : \E row : call' = [call EXCEPT ![h] = [AtEase EXCEPT !.pc = pc, !.row = row, !.since = now]]
        BY <3>1 DEF GetToken
      <4>2. QED
        BY <1>1, <4>1 DEF AtEase
    <3>2. CASE StoreToken(h) \/ StoreUser(h)
      BY <1>4, <1>7, <3>2 DEF StoreToken, StoreUser
    <3>3. CASE CheckToken(h)
      <4>1. CASE Ends(h)
        BY <1>4, <1>6, <4>1
      <4>2. CASE ~Ends(h)
        <5>1. PICK pc \in {"user", "mark"} : \E shown : call' = [call EXCEPT ![h].pc = pc, ![h].row.status = shown]
          BY <3>3, <4>2 DEF CheckToken
        <5>2. QED
          BY <1>1, <5>1 DEF CallState
      <4>3. QED
        BY <4>1, <4>2
    <3>4. CASE GetUser(h)
      <4>1. PICK pc \in {"storeUser", "decide"} : \E ok : call' = [call EXCEPT ![h].pc = pc, ![h].ok = ok]
        BY <3>4 DEF GetUser
      <4>2. QED
        BY <1>1, <4>1 DEF CallState
    <3>5. CASE Decide(h)
      BY <1>4, <1>6, <3>5 DEF Decide
    <3>6. QED
      BY <1>8, <3>1, <3>2, <3>3, <3>4, <3>5
  <2>3. QED
    BY <1>3, <2>1, <2>2
<1>9. ASSUME NEW h \in Call, MarkToken(h)
      PROVE  CopiesOwed'
  <2>1. token'.there = token.there /\ token'.remain = token.remain
    BY <1>1, <1>9 DEF MarkToken, TokenRow
  <2>2. UNCHANGED <<owed, undone>> /\ Ends(h)
    BY <1>9 DEF MarkToken
  <2>3. \A k \in Call : call'[k] = call[k] \/ call'[k].pc # "save"
    BY <1>4, <1>6, <2>2
  <2>4. QED
    BY <1>2, <2>1, <2>2, <2>3 DEF CopiesOwed
<1>10. ASSUME NEW h \in Call, Debit(h)
       PROVE  CopiesOwed'
  <2>1. PICK amount \in {-1, 1} : token' = [token EXCEPT !.remain = @ + amount] /\ owed' = owed + amount
    BY <1>10 DEF Debit
  <2>2. token'.there = token.there /\ token'.remain = token.remain + amount
    BY <1>1, <2>1 DEF TokenRow
  <2>3. undone' = (undone \/ Copied) /\ call' = call
    BY <1>10 DEF Debit
  <2>4. QED
    BY <1>1, <1>2, <2>1, <2>2, <2>3 DEF CopiesOwed, Copied
<1>11. ASSUME NEW h \in Call, ReadToUpdate(h)
       PROVE  CopiesOwed'
  <2>1. PICK body \in TokenBody :
          call' = [call EXCEPT ![h] = [AtEase EXCEPT !.pc = "save", !.row = Updated(token, body),
                                                     !.ok = (body.kind = "columns")]]
    BY <1>11 DEF ReadToUpdate
  <2>2. UNCHANGED <<token, owed, undone>> /\ token.there
    BY <1>11 DEF ReadToUpdate, accessHistory
  <2>3. call'[h].row = Updated(token, body) /\ call'[h].ok = (body.kind = "columns")
    BY <1>1, <2>1 DEF AtEase
  <2>4. \A k \in Call \ {h} : call'[k] = call[k]
    BY <1>1, <2>1
  <2>5. body.kind = "status" \/ body.kind = "columns"
    BY <2>1 DEF TokenBody
  <2>6. body.kind = "status" => Updated(token, body).remain = token.remain
    BY <1>1 DEF Updated, TokenRow
  <2>7. QED
    BY <1>2, <2>2, <2>3, <2>4, <2>5, <2>6 DEF CopiesOwed
<1>12. ASSUME NEW h \in Call, SaveToken(h)
       PROVE  CopiesOwed'
  <2>1. /\ call[h].pc = "save" /\ Ends(h)
        /\ token' = IF token.there THEN call[h].row ELSE token
        /\ owed' = IF token.there /\ call[h].ok THEN call[h].row.remain ELSE owed
        /\ undone' = (undone \/ \E k \in Call \ {h} : call[k].pc = "save")
    BY <1>12 DEF SaveToken
  <2>2. \A k \in Call : k # h => call'[k] = call[k]
    BY <1>6, <2>1
  <2>3. call'[h].pc # "save"
    BY <1>6, <2>1
  <2>4. call[h].ok \in BOOLEAN
    BY <1>1 DEF CallState
  <2>5. QED
    BY <1>2, <2>1, <2>2, <2>3, <2>4 DEF CopiesOwed
<1>13. ASSUME NEW h \in Call, DeleteToken(h) \/ SwitchUser(h)
       PROVE  CopiesOwed'
  <2>1. CASE DeleteToken(h)
    BY <2>1 DEF DeleteToken, CopiesOwed, Deleted
  <2>2. CASE SwitchUser(h)
    BY <1>3, <2>2 DEF SwitchUser
  <2>3. QED
    BY <1>13, <2>1, <2>2
<1>14. QED
  BY <1>5, <1>8, <1>9, <1>10, <1>11, <1>12, <1>13 DEF AccessNext

\* What is in the caches and in hand is as old as it should be.
LEMMA AgesStep ==
  ASSUME TokenAccessAssumption, AccessInv, AccessNext
  PROVE  OffMeansOff' /\ EntriesOld' /\ \A h \in Call : SawInTime(h)'
<1>1. /\ now \in Nat /\ CacheSeconds \in Nat /\ token \in TokenRow /\ call \in [Call -> CallState] /\ enabled \in BOOLEAN
      /\ redis \in BOOLEAN
      /\ cache \in [token: [row: TokenRow, until: 0..(MaxTime + CacheSeconds)],
                    user: [ok: BOOLEAN, until: 0..(MaxTime + CacheSeconds)]]
      /\ cache.token.row \in TokenRow /\ cache.token.until \in Int /\ cache.user.ok \in BOOLEAN /\ cache.user.until \in Int
      /\ offSince["token"] \in Int /\ offSince["user"] \in Int
  BY DEF AccessInv, AccessTypeOK, TokenAccessAssumption
<1>2. \A k \in Call : call[k].row \in TokenRow /\ call[k].since \in Int /\ call[k].since <= now /\ call[k].ok \in BOOLEAN
  BY <1>1 DEF AccessInv, InTime, CallState
<1>3. \A k \in Call : SawInTime(k)
  BY DEF AccessInv
<1>4. /\ offSince["token"] # Never => ~Usable(token, now)
      /\ offSince["user"] # Never => ~enabled
  BY DEF AccessInv, OffMeansOff
<1>5. CASE Second
  <2>1. redis' = redis /\ enabled' \in BOOLEAN /\ now' \in {now, now + 1} /\ cache' = cache /\ call' = call
    BY <1>1, <1>5 DEF Second
  <2>2. Turns(token', enabled', now')
    BY <1>5 DEF Second
  <2>3. QED
    BY <2>1, <2>2, WorldMoves
<1>6. ASSUME NEW h \in Call,
             \/ GetToken(h) \/ StoreToken(h) \/ CheckToken(h) \/ MarkToken(h)
             \/ GetUser(h) \/ StoreUser(h) \/ Decide(h)
             \/ Debit(h) \/ ReadToUpdate(h) \/ SaveToken(h) \/ DeleteToken(h) \/ SwitchUser(h)
      PROVE  OffMeansOff' /\ EntriesOld' /\ \A k \in Call : SawInTime(k)'
  <2>1. /\ redis' = redis /\ now' = now
        /\ Still \/ Turns(token', enabled', now')
        /\ StoreToken(h) \/ StoreUser(h) \/ cache' = cache
        /\ enabled' = enabled \/ enabled' = ~enabled
    BY <1>6, AccessActs
  <2>2. /\ OffMeansOff'
        /\ cache' = cache => EntriesOld'
        /\ \A k \in Call : call'[k] = call[k] => SawInTime(k)'
    <3>1. redis' = redis /\ now' \in {now, now + 1} /\ enabled' \in BOOLEAN
      BY <1>1, <2>1
    <3>2. (\/ Turns(token', enabled', now')
           \/ UNCHANGED <<token, enabled, now, offSince, filling>>)
      BY <2>1 DEF Still
    <3>3. QED
      BY <3>1, <3>2, WorldMoves
  <2>3. SawInTime(h)
    BY <1>3
  <2>4. CASE Debit(h) \/ DeleteToken(h) \/ SwitchUser(h)
    <3>1. call' = call /\ cache' = cache
      BY <2>4 DEF Debit, DeleteToken, SwitchUser
    <3>2. QED
      BY <2>2, <3>1
  <2>5. ASSUME Ends(h), cache' = cache
        PROVE  EntriesOld' /\ \A k \in Call : SawInTime(k)'
    <3>1. \A k \in Call \ {h} : call'[k] = call[k]
      BY <1>1, <2>5 DEF Ends
    <3>2. call'[h].pc = "idle"
      BY <1>1, <2>5 DEF Ends, AtEase
    <3>3. SawInTime(h)'
      BY <3>2 DEF SawInTime
    <3>4. QED
      BY <2>2, <2>5, <3>1, <3>3
  <2>6. CASE MarkToken(h) \/ Decide(h) \/ SaveToken(h)
    <3>1. Ends(h) /\ cache' = cache
      BY <2>6 DEF MarkToken, Decide, SaveToken
    <3>2. QED
      BY <2>2, <2>5, <3>1
  <2>7. CASE GetToken(h)
    <3> DEFINE seen == IF Hit(cache.token) THEN cache.token.row ELSE token
               pc == IF redis /\ ~Hit(cache.token) /\ token.there THEN "store" ELSE "check"
    <3>1. call' = [call EXCEPT ![h] = [AtEase EXCEPT !.pc = pc, !.row = seen, !.since = now]] /\ cache' = cache
      BY <2>7 DEF GetToken
    <3>2. Still
      BY <2>7 DEF GetToken, accessHistory, Still
    <3>3. \A k \in Call \ {h} : call'[k] = call[k]
      BY <1>1, <3>1
    <3>4. call'[h].pc = pc /\ call'[h].row = seen /\ call'[h].since = now
      BY <1>1, <3>1 DEF AtEase
    <3>5. pc = "store" => seen = token
      OBVIOUS
    <3>6. pc \in {"store", "check"}
      OBVIOUS
    <3>7. ASSUME Usable(seen, now), offSince["token"] # Never, "token" \notin filling
          PROVE  now < offSince["token"] + Lag
      <4>1. Hit(cache.token) /\ seen = cache.token.row
        BY <1>4, <3>7
      <4>2. redis /\ now < cache.token.until
        BY <4>1 DEF Hit
      <4>3. cache.token.until <= offSince["token"] + CacheSeconds
        BY <3>7, <4>1, <4>2 DEF AccessInv, EntriesOld
      <4>4. QED
        BY <1>1, <4>2, <4>3 DEF Lag
    <3> HIDE DEF seen, pc
    <3>8. SawInTime(h)'
      <4>1. (pc = "store" /\ Usable(seen, now) /\ offSince["token"] # Never) => "token" \in filling
        BY <1>4, <3>5
      <4>2. Usable(seen, now) => Seen(h, "token")'
        BY <3>2, <3>4, <3>7 DEF Seen, Still, Lag
      <4>3. QED
        BY <3>2, <3>4, <3>6, <4>1, <4>2 DEF SawInTime, Still
    <3>9. QED
      BY <2>2, <3>1, <3>3, <3>8
  <2>8. CASE ReadToUpdate(h)
    <3>1. PICK body : call' = [call EXCEPT ![h] = [AtEase EXCEPT !.pc = "save", !.row = Updated(token, body),
                                                     !.ok = (body.kind = "columns")]]
      BY <2>8 DEF ReadToUpdate
    <3>2. cache' = cache
      BY <2>8 DEF ReadToUpdate
    <3>3. \A k \in Call \ {h} : call'[k] = call[k]
      BY <1>1, <3>1
    <3>4. call'[h].pc = "save"
      BY <1>1, <3>1 DEF AtEase
    <3>5. SawInTime(h)'
      BY <3>4 DEF SawInTime
    <3>6. QED
      BY <2>2, <3>2, <3>3, <3>5
  <2>9. ASSUME Still, NEW j, call' = [call EXCEPT ![h] = j], j.since = call[h].since
        PROVE  /\ \A k \in Call \ {h} : call'[k] = call[k]
               /\ call'[h] = j
               /\ \A what \in {"token", "user"} : Seen(h, what) => Seen(h, what)'
    BY <1>1, <2>9 DEF Seen, Still, Lag
  <2>10. CASE StoreToken(h)
    <3>1. /\ call[h].pc = "store"
          /\ cache' = [cache EXCEPT !.token = [row |-> call[h].row, until |-> now + CacheSeconds]]
          /\ call' = [call EXCEPT ![h].pc = "check"]
      BY <2>10 DEF StoreToken, At
    <3>2. Still
      BY <2>10 DEF StoreToken, accessHistory, Still
    <3> DEFINE j == [call[h] EXCEPT !.pc = "check"]
    <3>3. call' = [call EXCEPT ![h] = j]
      BY <3>1
    <3>4. j.pc = "check" /\ j.row = call[h].row /\ j.since = call[h].since
      BY <1>1 DEF CallState
    <3> HIDE DEF j
    <3>5. /\ \A k \in Call \ {h} : call'[k] = call[k]
          /\ call'[h] = j /\ (Seen(h, "token") => Seen(h, "token")')
      BY <2>9, <3>2, <3>3, <3>4
    <3>6. SawInTime(h)'
      BY <2>3, <3>1, <3>2, <3>4, <3>5 DEF SawInTime, Still
    <3>7. cache'.user = cache.user /\ cache'.token.row = call[h].row /\ cache'.token.until = now + CacheSeconds
      BY <1>1, <3>1
    <3>8. (Usable(call[h].row, now) /\ offSince["token"] # Never) => "token" \in filling
      BY <2>3, <3>1 DEF SawInTime
    <3>9. EntriesOld'
      BY <3>2, <3>7, <3>8 DEF AccessInv, EntriesOld, Still
    <3>10. QED
      BY <2>2, <3>5, <3>6, <3>9
  <2>11. CASE StoreUser(h)
    <3>1. /\ call[h].pc = "storeUser"
          /\ cache' = [cache EXCEPT !.user = [ok |-> call[h].ok, until |-> now + CacheSeconds]]
          /\ call' = [call EXCEPT ![h].pc = "decide"]
      BY <2>11 DEF StoreUser, At
    <3>2. Still
      BY <2>11 DEF StoreUser, accessHistory, Still
    <3> DEFINE j == [call[h] EXCEPT !.pc = "decide"]
    <3>3. call' = [call EXCEPT ![h] = j]
      BY <3>1
    <3>4. j.pc = "decide" /\ j.ok = call[h].ok /\ j.since = call[h].since
      BY <1>1 DEF CallState
    <3> HIDE DEF j
    <3>5. /\ \A k \in Call \ {h} : call'[k] = call[k]
          /\ call'[h] = j /\ (Seen(h, "token") => Seen(h, "token")') /\ (Seen(h, "user") => Seen(h, "user")')
      BY <2>9, <3>2, <3>3, <3>4
    <3>6. SawInTime(h)'
      BY <2>3, <3>1, <3>2, <3>4, <3>5 DEF SawInTime, Still
    <3>7. cache'.token = cache.token /\ cache'.user.ok = call[h].ok /\ cache'.user.until = now + CacheSeconds
      BY <1>1, <3>1
    <3>8. (call[h].ok /\ offSince["user"] # Never) => "user" \in filling
      BY <2>3, <3>1 DEF SawInTime
    <3>9. EntriesOld'
      BY <3>2, <3>7, <3>8 DEF AccessInv, EntriesOld, Still
    <3>10. QED
      BY <2>2, <3>5, <3>6, <3>9
  <2>12. CASE CheckToken(h)
    <3> DEFINE row == call[h].row
               found == IF Expired(row, now) THEN {"expired"} ELSE IF Exhausted(row) THEN {"exhausted"} ELSE {}
               to == IF found = {} THEN "user" ELSE "mark"
               shown == IF found = {} THEN row.status ELSE CHOOSE s \in found : TRUE
               j == [call[h] EXCEPT !.pc = to, !.row.status = shown]
    <3>1. Still /\ cache' = cache /\ call[h].pc = "check"
      BY <2>12 DEF CheckToken, accessHistory, Still
    <3>2. CASE Ends(h)
      BY <2>2, <2>5, <3>1, <3>2
    <3>3. CASE ~Ends(h)
      <4>1. /\ row.there /\ row.status = "enabled" /\ ~(found # {} /\ redis)
            /\ call' = [call EXCEPT ![h].pc = to,
                                    ![h].row.status = IF found = {} THEN @ ELSE CHOOSE s \in found : TRUE]
        BY <2>12, <3>3 DEF CheckToken
      <4>2. call' = [call EXCEPT ![h] = j]
        BY <1>1, <1>2, <4>1 DEF CallState, TokenRow
      <4>3. found = {} => Usable(row, now)
        BY <4>1 DEF Usable
      <4>4. (to = "user" /\ found = {}) \/ to = "mark"
        OBVIOUS
      <4> HIDE DEF to, found, shown, row
      <4>5. j.pc = to /\ j.since = call[h].since
        BY <1>1 DEF CallState
      <4> HIDE DEF j
      <4>6. /\ \A k \in Call \ {h} : call'[k] = call[k]
            /\ call'[h] = j /\ (Seen(h, "token") => Seen(h, "token")')
        BY <2>9, <3>1, <4>2, <4>5
      <4>7. SawInTime(h)'
        BY <2>3, <3>1, <4>3, <4>4, <4>5, <4>6 DEF SawInTime, Still, row
      <4>8. QED
        BY <2>2, <3>1, <4>6, <4>7
    <3>4. QED
      BY <3>2, <3>3
  <2>13. CASE GetUser(h)
    <3> DEFINE pc == IF redis /\ ~Hit(cache.user) THEN "storeUser" ELSE "decide"
               ok == IF Hit(cache.user) THEN cache.user.ok ELSE enabled
               j == [call[h] EXCEPT !.pc = pc, !.ok = ok]
    <3>1. Still /\ cache' = cache /\ call[h].pc = "user" /\ call' = [call EXCEPT ![h].pc = pc, ![h].ok = ok]
      BY <2>13 DEF GetUser, accessHistory, Still
    <3>2. call' = [call EXCEPT ![h] = j]
      BY <1>1, <3>1 DEF CallState
    <3>3. pc \in {"storeUser", "decide"} /\ (pc = "storeUser" => ok = enabled)
      OBVIOUS
    <3>4. ASSUME ok, offSince["user"] # Never, "user" \notin filling
          PROVE  call[h].since < offSince["user"] + Lag
      <4>1. Hit(cache.user) /\ cache.user.ok
        BY <1>4, <3>4
      <4>2. redis /\ now < cache.user.until
        BY <4>1 DEF Hit
      <4>3. cache.user.until <= offSince["user"] + CacheSeconds
        BY <3>4, <4>1, <4>2 DEF AccessInv, EntriesOld
      <4>4. call[h].since <= now /\ call[h].since \in Int
        BY <1>2
      <4>5. QED
        BY <1>1, <4>2, <4>3, <4>4 DEF Lag
    <3> HIDE DEF pc, ok
    <3>5. j.pc = pc /\ j.since = call[h].since /\ j.ok = ok
      BY <1>1 DEF CallState
    <3> HIDE DEF j
    <3>6. /\ \A k \in Call \ {h} : call'[k] = call[k]
          /\ call'[h] = j /\ (Seen(h, "token") => Seen(h, "token")')
      BY <2>9, <3>1, <3>2, <3>5
    <3>7. ok => Seen(h, "user")'
      <4>1. ok => (offSince["user"] # Never /\ "user" \notin filling => j.since < offSince["user"] + Lag)
        BY <3>4, <3>5
      <4>2. QED
        BY <4>1, <3>1, <3>6 DEF Seen, Still, Lag
    <3>8. SawInTime(h)'
      <4>1. (pc = "storeUser" /\ ok) => offSince["user"] = Never
        BY <1>4, <3>3
      <4>2. QED
        BY <2>3, <3>1, <3>3, <3>5, <3>6, <3>7, <4>1 DEF SawInTime, Still
    <3>9. QED
      BY <2>2, <3>1, <3>6, <3>8
  <2>14. QED
    BY <1>6, <2>2, <2>4, <2>6, <2>7, <2>8, <2>10, <2>11, <2>12, <2>13
<1>7. QED
  BY <1>5, <1>6 DEF AccessNext

LEMMA AccessInitial ==
  ASSUME TokenAccessAssumption, AccessInit
  PROVE  AccessInv
<1>1. /\ MaxRemain \in Nat /\ CacheSeconds \in Nat /\ MaxTime \in Nat /\ MaxCalls \in Nat
      /\ AtEase \in CallState /\ Deleted \in TokenRow
      /\ AtEase.pc = "idle" /\ AtEase.since = 0 /\ ~Deleted.there
  BY AtEaseIsState DEF TokenAccessAssumption, AtEase, Deleted
<1>2. token \in TokenRow /\ token.remain = MaxRemain /\ now = 0
  BY <1>1 DEF AccessInit, TokenRow, TokenStatus, Never
<1>3. /\ cache.token.until = 0 /\ cache.user.until = 0 /\ cache.token.row = Deleted /\ ~cache.user.ok
  BY DEF AccessInit
<1>4. \A h \in Call : call[h].pc = "idle" /\ call[h].since = 0
  BY <1>1 DEF AccessInit
<1>5. offSince["token"] = Never /\ offSince["user"] = Never /\ offSince \in [{"token", "user"} -> Int]
  BY DEF AccessInit, Never
<1>6. cache \in [token: [row: TokenRow, until: 0..(MaxTime + CacheSeconds)],
                 user: [ok: BOOLEAN, until: 0..(MaxTime + CacheSeconds)]]
  <2>1. 0 \in 0..(MaxTime + CacheSeconds) /\ Deleted \in TokenRow
    BY <1>1
  <2> HIDE DEF Deleted, TokenRow
  <2>2. QED
    BY <2>1 DEF AccessInit
<1>7. AccessTypeOK
  <2>1. /\ redis \in BOOLEAN /\ tokenMix \in TokenMixes /\ enabled \in BOOLEAN /\ owed = MaxRemain
        /\ undone \in BOOLEAN /\ filling = {} /\ calls = 0 /\ call = [h \in Call |-> AtEase]
    BY DEF AccessInit
  <2>2. call \in [Call -> CallState]
    BY <1>1, <2>1
  <2>3. QED
    BY <1>1, <1>2, <1>5, <1>6, <2>1, <2>2 DEF AccessTypeOK
<1>8. InTime
  BY <1>1, <1>2, <1>3, <1>4 DEF InTime
<1>9. CopiesOwed
  BY <1>2, <1>4 DEF CopiesOwed, AccessInit
<1>10. OffMeansOff
  BY <1>5 DEF OffMeansOff
<1>11. EntriesOld
  BY <1>5 DEF EntriesOld
<1>12. \A h \in Call : SawInTime(h)
  BY <1>4 DEF SawInTime
<1>13. QED
  BY <1>7, <1>8, <1>9, <1>10, <1>11, <1>12 DEF AccessInv

LEMMA AccessInvariant == AccessSpec => []AccessInv
<1>1. AccessInit => AccessInv
  BY AccessInitial, TokenAccessAssumption
<1>2. AccessInv /\ [AccessNext]_accessVars => AccessInv'
  <2> SUFFICES ASSUME AccessInv, [AccessNext]_accessVars
               PROVE  AccessInv'
    OBVIOUS
  <2>1. CASE AccessNext
    BY <2>1, AccessTypesStep, CopiesOwedStep, AgesStep, TokenAccessAssumption DEF AccessInv
  <2>2. CASE UNCHANGED accessVars
    BY <2>2 DEF accessVars, AccessInv, AccessTypeOK, InTime, CopiesOwed, OffMeansOff, EntriesOld, SawInTime, Seen, Lag,
                Usable, Expired
  <2>3. QED
    BY <2>1, <2>2
<1>3. QED
  BY <1>1, <1>2, PTL DEF AccessSpec

\* Whatever the requests, the updates and the clock do: a call is let in only as long after its token
\* or its user was turned off as an entry of the cache lives (CacheGetTokenByKey, CacheIsUserEnabled).
THEOREM LetInAtMostStale == AccessSpec => []StaleAtMost
<1>1. AccessInv => StaleAtMost
  <2> SUFFICES ASSUME AccessInv, NEW h \in Call, NEW what \in {"token", "user"}, Admits(h), offSince[what] # Never
               PROVE  \/ call[h].since <= offSince[what]
                      \/ call[h].since < offSince[what] + (IF redis THEN CacheSeconds ELSE 0)
                      \/ what \in filling
    BY DEF StaleAtMost
  <2>1. call[h].pc = "decide" /\ call[h].ok /\ SawInTime(h)
    BY DEF Admits, AccessInv
  <2>2. Seen(h, what)
    BY <2>1 DEF SawInTime
  <2>3. QED
    BY <2>2 DEF Seen, Lag
<1>2. QED
  BY <1>1, AccessInvariant, PTL

\* The quota of a token is what its owner set and its calls debited, unless a copy of its row was held
\* over a debit or another save (UpdateToken, PostConsumeTokenQuota).
THEOREM TokenRemainKept == AccessSpec => []RemainKept
<1>1. AccessInv => RemainKept
  BY DEF AccessInv, CopiesOwed, RemainKept
<1>2. QED
  BY <1>1, AccessInvariant, PTL

-----------------------------------------------------------------------------
(* Accounts: invariants.                                                   *)

Copying == {"manage", "remove", "save"}
InRow == {"ban", "write", "again"}
Writing(h, u) == u \in request[h].who /\ request[h].pc \in {"write", "again"}

\* What a request holds, by its step and its operation.
Holding(h) ==
  /\ request[h].pc = "ready" => request[h].who = {}
  /\ request[h].pc \in InRow => request[h].op \in Copying \cup {"update", "delete"}
  /\ request[h].pc \in {"invitee", "inviter"} => request[h].op = "register"
  /\ request[h].who \subseteq Registered
  /\ \A u, w \in request[h].who : u = w
  /\ request[h].op \in Copying => request[h].row.status # "" /\ request[h].row.role # 0
  /\ request[h].op \in {"remove", "delete"} => request[h].row.status = "deleted"

\* Nobody has written the row since it was read, or it is among the lost.
CopyStands(h) ==
  \A u \in request[h].who \ lost :
    /\ request[h].op = "save" => request[h].row = user[u]
    /\ request[h].op \in Copying => request[h].row.quota = user[u].quota

Banned(u, state, left) ==
  /\ u \in blackList => state # "enabled"
  /\ state = "disabled" \/ (state = "deleted" /\ ~left) => u \in blackList

Effective(h, u) == IF request[h].row.status = "" THEN user[u].status ELSE request[h].row.status
Slipping(h, u) == u \in Slips(request[h].op, u, request[h].row)

\* Between its ban and its write a request is the only one to have banned.
BansInHand(u) ==
  /\ \A h, k \in Handling : Writing(h, u) /\ Writing(k, u) => h = k
  /\ \A h \in Handling : Writing(h, u) => Banned(u, Effective(h, u), Slipping(h, u))
  /\ (\A h \in Handling : ~Writing(h, u)) => Banned(u, user[u].status, u \in slipped)

\* Who writes an administrator's row is a root user, or it; and a copy that is deleted
\* was so when it was read.
RankStands(h) ==
  \A u \in request[h].who \ mixed :
    request[h].pc \in InRow =>
      /\ \/ request[h].rank = RoleRootUser \/ request[h].own
         \/ (user[u].role < RoleAdminUser /\ (request[h].op = "remove" => request[h].row.role < RoleAdminUser))
      /\ request[h].op \in {"manage", "save"} /\ request[h].row.status = "deleted" => user[u].status = "deleted"

AccountsInv ==
  /\ AccountsTypeOK /\ RowIsDecided
  /\ \A h \in Handling : Holding(h) /\ CopyStands(h) /\ RankStands(h)
  /\ \A u \in Registered \ mixed : BansInHand(u)

-----------------------------------------------------------------------------
(* Accounts: proofs.                                                       *)

LEMMA SameRow ==
  ASSUME NEW a \in UserRow, NEW b \in UserRow, a.status = b.status, a.role = b.role, a.quota = b.quota
  PROVE  a = b
<1>1. a = [status |-> a.status, role |-> a.role, quota |-> a.quota]
  BY DEF UserRow
<1>2. b = [status |-> b.status, role |-> b.role, quota |-> b.quota]
  BY DEF UserRow
<1>3. QED
  BY <1>1, <1>2

\* A row that is written stays one of the table.
LEMMA WrittenRow ==
  ASSUME NEW old \in UserRow, NEW new \in UserRow, old # NoUser, InTable(old)
  PROVE  Written(old, new) \in UserRow /\ Written(old, new) # NoUser /\ InTable(Written(old, new))
<1>1. old.status # "" /\ old.role # 0
  BY DEF InTable
<1>2. /\ Written(old, new).status \in {"", "enabled", "disabled", "deleted"} /\ Written(old, new).status # ""
      /\ Written(old, new).role \in {0} \cup Roles /\ Written(old, new).role # 0
      /\ Written(old, new).quota \in Nat
  BY <1>1 DEF Written, UserRow
<1>3. Written(old, new) \in UserRow
  BY <1>2 DEF Written, UserRow
<1>4. NoUser.status = ""
  BY DEF NoUser
<1>5. QED
  BY <1>2, <1>3, <1>4 DEF InTable

\* The columns a form sends, in the words of Meant and in those of Written.
LEMMA MeantIsWritten ==
  ASSUME NEW old \in UserRow, NEW new \in UserRow
  PROVE  [c \in DOMAIN old |-> IF new[c] = NoUser[c] THEN old[c] ELSE new[c]] = Written(old, new)
<1>1. DOMAIN old = {"status", "role", "quota"}
  BY DEF UserRow
<1>2. NoUser.status = "" /\ NoUser.role = 0 /\ NoUser.quota = 0
  BY DEF NoUser
<1> DEFINE f == [c \in DOMAIN old |-> IF new[c] = NoUser[c] THEN old[c] ELSE new[c]]
           g == Written(old, new)
<1>3. f.status = g.status /\ f.role = g.role /\ f.quota = g.quota
  BY <1>1, <1>2 DEF Written
<1>4. g = [status |-> g.status, role |-> g.role, quota |-> g.quota]
  BY DEF Written
<1>5. f = [c \in {"status", "role", "quota"} |-> f[c]]
  BY <1>1
<1> HIDE DEF f, g
<1>6. f = [status |-> f.status, role |-> f.role, quota |-> f.quota]
  BY <1>5
<1>7. f = g
  BY <1>3, <1>4, <1>6
<1>8. QED
  BY <1>7 DEF f, g

LEMMA RanksAre == \A role \in {RoleAdminUser, RoleCommonUser} : role \in {0} \cup Roles /\ role # 0
  BY DEF Roles, RoleAdminUser, RoleCommonUser, RoleRootUser

\* What an administrator makes of a row.
LEMMA ManagedRow ==
  ASSUME NEW old \in UserRow, old.status # "", old.role # 0, NEW rank, NEW action, NEW row \in Managed(rank, old, action),
         action \in {"disable", "enable", "delete", "promote", "demote", "other"}
  PROVE  /\ row \in UserRow /\ row.status # "" /\ row.role # 0 /\ row.quota = old.quota
         /\ action = "delete" => row.status = "deleted" /\ row.role = old.role
         /\ action # "delete" /\ row.status = "deleted" => old.status = "deleted"
<1>1. CASE action \in {"disable", "enable", "delete"}
  <2>1. PICK shown \in {"disabled", "enabled", "deleted"} :
          row = [old EXCEPT !.status = shown] /\ (action = "delete" <=> shown = "deleted")
    BY <1>1 DEF Managed
  <2>2. QED
    BY <2>1 DEF UserRow
<1>2. CASE action \in {"promote", "demote"}
  <2>1. \A role \in {RoleAdminUser, RoleCommonUser} : role \in {0} \cup Roles /\ role # 0
    BY RanksAre
  <2>2. PICK role \in {RoleAdminUser, RoleCommonUser} : row = [old EXCEPT !.role = role]
    BY <1>2 DEF Managed
  <2>3. row \in UserRow /\ row.status = old.status /\ row.role = role /\ row.quota = old.quota
    BY <2>1, <2>2 DEF UserRow
  <2>4. QED
    BY <1>2, <2>1, <2>2, <2>3
<1>3. CASE action = "other"
  BY <1>3 DEF Managed
<1>4. QED
  BY <1>1, <1>2, <1>3

\* A request that has checked its caller and read its user holds what it is to write.
Begins(h, u, j) ==
  /\ request[h].pc = "ready" /\ request' = [request EXCEPT ![h] = j]
  /\ j.pc = "ban" /\ j.who = {u} /\ j.op \in Copying \cup {"update", "delete"}
  /\ j.op \in Copying => j.row.status # "" /\ j.row.role # 0 /\ j.row.quota = user[u].quota
  /\ j.op \in {"remove", "delete"} => j.row.status = "deleted"
  /\ j.op \in {"manage", "save"} /\ j.row.status = "deleted" => user[u].status = "deleted"
  /\ j.op = "save" => j.row = user[u]
  /\ \/ j.rank = RoleRootUser \/ j.own
     \/ (user[u].role < RoleAdminUser /\ (j.op = "remove" => j.row.role < RoleAdminUser))

LEMMA Receives ==
  ASSUME AccountsAssumption, AccountsTypeOK, NEW h \in Handling,
         ManageUser(h) \/ UpdateUser(h) \/ SaveSelf(h) \/ DeleteUser(h)
  PROVE  /\ UNCHANGED <<userMix, restarts, user, blackList, session, decided, lost, mixed, slipped>>
         /\ requests' = requests + 1 /\ requests < MaxRequests
         /\ \E u \in Registered : \E j \in RequestState : Begins(h, u, j)
<1>1. \A u \in Registered : u \in User /\ user[u] \in UserRow /\ user[u] # NoUser /\ user[u].status # "" /\ user[u].role # 0
  BY DEF AccountsTypeOK, Registered, InTable
<1>2. \A a \in User : \A rank \in Rank(a) : rank \in {0} \cup Roles
  <2>1. ASSUME NEW a \in User, NEW rank \in Rank(a)
        PROVE  rank \in {0} \cup Roles
    <3>1. session[a] \in {0} \cup Roles /\ user[a].role \in {0} \cup Roles
      BY DEF AccountsTypeOK, UserRow
    <3>2. rank = session[a] \/ rank = user[a].role
      BY <2>1 DEF Rank
    <3>3. QED
      BY <3>1, <3>2
  <2>2. QED
    BY <2>1
<1>3. ASSUME NEW op \in UserOp, NEW rank \in {0} \cup Roles, NEW own \in BOOLEAN, NEW u \in Registered, NEW row \in UserRow,
             request[h].pc = "ready", Hold(h, op, rank, own, u, row),
             op \in Copying \cup {"update", "delete"},
             op \in Copying => row.status # "" /\ row.role # 0 /\ row.quota = user[u].quota,
             op \in {"remove", "delete"} => row.status = "deleted",
             op \in {"manage", "save"} /\ row.status = "deleted" => user[u].status = "deleted",
             op = "save" => row = user[u],
             \/ rank = RoleRootUser \/ own
             \/ (user[u].role < RoleAdminUser /\ (op = "remove" => row.role < RoleAdminUser))
      PROVE  \E w \in Registered : \E j \in RequestState : Begins(h, w, j)
  <2> DEFINE j == [op |-> op, pc |-> "ban", rank |-> rank, own |-> own, who |-> {u}, row |-> row]
  <2>1. j \in RequestState
    BY <1>1, <1>3 DEF RequestState
  <2>2. j.op = op /\ j.pc = "ban" /\ j.rank = rank /\ j.own = own /\ j.who = {u} /\ j.row = row
    OBVIOUS
  <2>3. request' = [request EXCEPT ![h] = j]
    BY <1>3 DEF Hold
  <2> HIDE DEF j
  <2>4. Begins(h, u, j)
    BY <1>3, <2>2, <2>3 DEF Begins
  <2>5. QED
    BY <2>1, <2>4
<1>4. ASSUME NEW rank \in {0} \cup Roles, NEW row \in UserRow, rank >= RoleAdminUser, Outranks(rank, row)
      PROVE  rank = RoleRootUser \/ row.role < RoleAdminUser
  <2>1. row.role \in {0, 1, 10, 100} /\ rank \in {0, 1, 10, 100}
    BY <1>4 DEF Roles, RoleCommonUser, RoleAdminUser, RoleRootUser, UserRow
  <2>2. rank > row.role \/ rank = RoleRootUser
    BY <1>4 DEF Outranks
  <2>3. QED
    BY <1>4, <2>1, <2>2 DEF RoleAdminUser, RoleRootUser
<1>5. CASE ManageUser(h)
  <2>1. PICK a \in User, u \in Registered, action \in {"disable", "enable", "delete", "promote", "demote", "other"} :
        \E rank \in Rank(a) : \E row \in Managed(rank, user[u], action) :
          /\ Received(h, "manage")
          /\ rank >= RoleAdminUser /\ Outranks(rank, user[u])
          /\ Hold(h, IF action = "delete" THEN "remove" ELSE "manage", rank, FALSE, u, row)
          /\ UNCHANGED <<user, blackList, session, decided, lost, mixed, slipped>>
    BY <1>5 DEF ManageUser
  <2>2. PICK rank \in Rank(a) : \E row \in Managed(rank, user[u], action) :
          /\ Received(h, "manage")
          /\ rank >= RoleAdminUser /\ Outranks(rank, user[u])
          /\ Hold(h, IF action = "delete" THEN "remove" ELSE "manage", rank, FALSE, u, row)
          /\ UNCHANGED <<user, blackList, session, decided, lost, mixed, slipped>>
    BY <2>1
  <2>3. PICK row \in Managed(rank, user[u], action) :
          /\ Received(h, "manage")
          /\ rank >= RoleAdminUser /\ Outranks(rank, user[u])
          /\ Hold(h, IF action = "delete" THEN "remove" ELSE "manage", rank, FALSE, u, row)
          /\ UNCHANGED <<user, blackList, session, decided, lost, mixed, slipped>>
    BY <2>2
  <2>4. /\ row \in UserRow /\ row.status # "" /\ row.role # 0 /\ row.quota = user[u].quota
        /\ action = "delete" => row.status = "deleted" /\ row.role = user[u].role
        /\ action # "delete" /\ row.status = "deleted" => user[u].status = "deleted"
    <3>1. user[u] \in UserRow /\ user[u].status # "" /\ user[u].role # 0
      BY <1>1
    <3>2. row \in Managed(rank, user[u], action)
      OBVIOUS
    <3>3. action \in {"disable", "enable", "delete", "promote", "demote", "other"}
      OBVIOUS
    <3> HIDE DEF Managed
    <3>4. QED
      BY <3>1, <3>2, <3>3, ManagedRow, ZenonT(30)
  <2>5. rank \in {0} \cup Roles
    BY <1>2
  <2>6. rank = RoleRootUser \/ user[u].role < RoleAdminUser
    BY <1>1, <1>4, <2>3, <2>5
  <2> DEFINE op == IF action = "delete" THEN "remove" ELSE "manage"
  <2>7. op \in {"manage", "remove"} /\ (op = "remove" <=> action = "delete")
    OBVIOUS
  <2>8. Hold(h, op, rank, FALSE, u, row) /\ request[h].pc = "ready"
    BY <2>3 DEF Received
  <2> HIDE DEF op
  <2>9. \E w \in Registered : \E j \in RequestState : Begins(h, w, j)
    <3>1. op \in UserOp /\ op \in Copying /\ op # "save" /\ op # "delete"
      BY <2>7 DEF UserOp, Copying
    <3>2. FALSE \in BOOLEAN
      OBVIOUS
    <3>3. QED
      BY <1>3, <2>4, <2>5, <2>6, <2>7, <2>8, <3>1, <3>2
  <2>10. QED
    BY <2>3, <2>9 DEF Received
<1>6. CASE UpdateUser(h)
  <2>1. PICK a \in User, u \in Registered, body \in UserBodies :
        \E rank \in Rank(a) :
          /\ Received(h, "update")
          /\ rank >= RoleAdminUser /\ Outranks(rank, user[u]) /\ Outranks(rank, body)
          /\ Hold(h, "update", rank, FALSE, u, body)
          /\ UNCHANGED <<user, blackList, session, decided, lost, mixed, slipped>>
    BY <1>6 DEF UpdateUser
  <2>2. PICK rank \in Rank(a) :
          /\ Received(h, "update")
          /\ rank >= RoleAdminUser /\ Outranks(rank, user[u]) /\ Outranks(rank, body)
          /\ Hold(h, "update", rank, FALSE, u, body)
          /\ UNCHANGED <<user, blackList, session, decided, lost, mixed, slipped>>
    BY <2>1
  <2>3. rank \in {0} \cup Roles /\ body \in UserRow
    BY <1>2 DEF AccountsAssumption
  <2>4. rank = RoleRootUser \/ user[u].role < RoleAdminUser
    BY <1>1, <1>4, <2>2, <2>3
  <2>5. \E w \in Registered : \E j \in RequestState : Begins(h, w, j)
    <3>1. /\ "update" \in UserOp /\ "update" \in Copying \cup {"update", "delete"} /\ "update" \notin Copying
          /\ "update" \notin {"remove", "delete"} /\ "update" \notin {"manage", "save"}
      BY DEF UserOp, Copying
    <3>2. FALSE \in BOOLEAN
      OBVIOUS
    <3>3. Hold(h, "update", rank, FALSE, u, body) /\ request[h].pc = "ready"
      BY <2>2 DEF Received
    <3>4. QED
      BY <1>3, <2>3, <2>4, <3>1, <3>2, <3>3
  <2>6. QED
    BY <2>2, <2>5 DEF Received
<1>7. CASE SaveSelf(h)
  <2>1. PICK a \in Registered : \E rank \in Rank(a) :
          /\ Received(h, "save") /\ rank >= RoleCommonUser
          /\ Hold(h, "save", rank, TRUE, a, user[a])
          /\ UNCHANGED <<user, blackList, session, decided, lost, mixed, slipped>>
    BY <1>7 DEF SaveSelf
  <2>2. PICK rank \in Rank(a) :
          /\ Received(h, "save") /\ rank >= RoleCommonUser
          /\ Hold(h, "save", rank, TRUE, a, user[a])
          /\ UNCHANGED <<user, blackList, session, decided, lost, mixed, slipped>>
    BY <2>1
  <2>3. rank \in {0} \cup Roles
    BY <1>1, <1>2
  <2>4. \E w \in Registered : \E j \in RequestState : Begins(h, w, j)
    <3>1. "save" \in UserOp /\ "save" \in Copying /\ "save" \notin {"remove", "delete"}
      BY DEF UserOp, Copying
    <3>2. TRUE \in BOOLEAN
      OBVIOUS
    <3>3. Hold(h, "save", rank, TRUE, a, user[a]) /\ request[h].pc = "ready"
      BY <2>2 DEF Received
    <3>4. QED
      BY <1>1, <1>3, <2>3, <3>1, <3>2, <3>3
  <2>5. QED
    BY <2>2, <2>4 DEF Received
<1>8. CASE DeleteUser(h)
  <2> DEFINE row == [NoUser EXCEPT !.status = "deleted"]
  <2>1. PICK a \in User, u \in Registered, own \in BOOLEAN : \E rank \in Rank(a) :
          /\ Received(h, "delete")
          /\ IF own THEN a = u /\ user[u].role # RoleRootUser
                    ELSE rank >= RoleAdminUser /\ rank > user[u].role
          /\ Hold(h, "delete", rank, own, u, row)
          /\ UNCHANGED <<user, blackList, session, decided, lost, mixed, slipped>>
    BY <1>8 DEF DeleteUser
  <2>2. PICK rank \in Rank(a) :
          /\ Received(h, "delete")
          /\ IF own THEN a = u /\ user[u].role # RoleRootUser
                    ELSE rank >= RoleAdminUser /\ rank > user[u].role
          /\ Hold(h, "delete", rank, own, u, row)
          /\ UNCHANGED <<user, blackList, session, decided, lost, mixed, slipped>>
    BY <2>1
  <2>3. rank \in {0} \cup Roles /\ row \in UserRow /\ row.status = "deleted"
    BY <1>2 DEF NoUser, UserRow
  <2>4. rank = RoleRootUser \/ own \/ user[u].role < RoleAdminUser
    <3>1. CASE own
      BY <3>1
    <3>2. CASE ~own
      <4>1. Outranks(rank, user[u]) /\ rank >= RoleAdminUser
        BY <2>2, <3>2 DEF Outranks
      <4>2. QED
        BY <1>1, <1>4, <2>3, <4>1
    <3>3. QED
      BY <3>1, <3>2
  <2> HIDE DEF row
  <2>5. \E w \in Registered : \E j \in RequestState : Begins(h, w, j)
    <3>1. /\ "delete" \in UserOp /\ "delete" \in Copying \cup {"update", "delete"} /\ "delete" \notin Copying
          /\ "delete" # "remove" /\ "delete" \notin {"manage", "save"}
      BY DEF UserOp, Copying
    <3>2. Hold(h, "delete", rank, own, u, row) /\ request[h].pc = "ready"
      BY <2>2 DEF Received
    <3>3. QED
      BY <1>3, <2>3, <2>4, <3>1, <3>2
  <2>6. QED
    BY <2>2, <2>5 DEF Received
<1>9. QED
  BY <1>5, <1>6, <1>7, <1>8

\* A statement that adds to a quota.
LEMMA Credits ==
  ASSUME AccountsTypeOK, NEW h \in Handling, NEW u \in Registered, NEW amount \in Int, Credit(h, u, amount),
         user[u].quota + amount \in Nat, decided[u].quota + amount \in Nat
  PROVE  /\ user' \in [User -> UserRow] /\ decided' \in [User -> UserRow]
         /\ \A w \in User : user'[w].status = user[w].status /\ user'[w].role = user[w].role
         /\ \A w \in User \ {u} : user'[w] = user[w] /\ decided'[w] = decided[w]
         /\ user[u] = decided[u] => user'[u] = decided'[u]
         /\ user'[u] # NoUser
         /\ lost \subseteq lost' /\ lost' \subseteq lost \cup {u} /\ (u \notin lost' => Copies(h, u) = {})
<1>1. u \in User /\ user \in [User -> UserRow] /\ decided \in [User -> UserRow] /\ user[u].status # ""
  BY DEF AccountsTypeOK, Registered, InTable
<1> DEFINE q == user[u].quota + amount
           d == decided[u].quota + amount
<1>2. user' = [user EXCEPT ![u] = [user[u] EXCEPT !.quota = q]]
      /\ decided' = [decided EXCEPT ![u] = [decided[u] EXCEPT !.quota = d]]
  BY <1>1 DEF Credit
<1>3. user[u] = decided[u] => q = d
  OBVIOUS
<1>4. q \in Nat /\ d \in Nat
  OBVIOUS
<1> HIDE DEF q, d
<1>5. user[u] \in UserRow /\ decided[u] \in UserRow
  BY <1>1
<1>6. /\ [user[u] EXCEPT !.quota = q] \in UserRow /\ [decided[u] EXCEPT !.quota = d] \in UserRow
      /\ [user[u] EXCEPT !.quota = q].status = user[u].status /\ [user[u] EXCEPT !.quota = q].role = user[u].role
  BY <1>4, <1>5 DEF UserRow
<1>7. user' \in [User -> UserRow] /\ decided' \in [User -> UserRow]
  BY <1>1, <1>2, <1>6
<1>8. user'[u] = [user[u] EXCEPT !.quota = q] /\ decided'[u] = [decided[u] EXCEPT !.quota = d]
  BY <1>1, <1>2
<1>9. \A w \in User \ {u} : user'[w] = user[w] /\ decided'[w] = decided[w]
  BY <1>1, <1>2
<1>10. \A w \in User : user'[w].status = user[w].status /\ user'[w].role = user[w].role
  BY <1>6, <1>8, <1>9
<1>11. user'[u] # NoUser
  <2>1. NoUser.status = ""
    BY DEF NoUser
  <2>2. QED
    BY <1>1, <1>10, <2>1
<1>12. lost \subseteq lost' /\ lost' \subseteq lost \cup {u} /\ (u \notin lost' => Copies(h, u) = {})
  BY DEF Credit
<1>13. user[u] = decided[u] => user'[u] = decided'[u]
  BY <1>3, <1>8
<1>14. QED
  BY <1>7, <1>9, <1>10, <1>11, <1>12, <1>13

\* The three that add to a quota, together.
Adds(h, u) ==
  /\ user' \in [User -> UserRow] /\ decided' \in [User -> UserRow]
  /\ \A w \in User : user'[w].status = user[w].status /\ user'[w].role = user[w].role
  /\ \A w \in User \ {u} : user'[w] = user[w] /\ decided'[w] = decided[w]
  /\ user[u] = decided[u] => user'[u] = decided'[u]
  /\ user'[u] # NoUser
  /\ lost \subseteq lost' /\ lost' \subseteq lost \cup {u} /\ (u \notin lost' => Copies(h, u) = {})
  /\ UNCHANGED <<userMix, restarts, blackList, session, mixed, slipped>>
  /\ requests' \in 0..MaxRequests
  /\ \/ request' = request /\ request[h].pc = "ready"
     \/ /\ request[h].pc \in {"invitee", "inviter"}
        /\ \/ request' = [request EXCEPT ![h] = Ready]
           \/ \E w \in Registered : request' = [request EXCEPT ![h].pc = "inviter", ![h].who = {w}]

LEMMA AddsToQuota ==
  ASSUME AccountsAssumption, AccountsTypeOK, NEW h \in Handling, Holding(h),
         Charge(h) \/ PayInvitee(h) \/ PayInviter(h)
  PROVE  \E u \in Registered : Adds(h, u)
<1>1. \A u \in Registered : u \in User /\ user[u].quota \in Nat /\ decided[u].quota \in Nat
  BY DEF AccountsTypeOK, Registered, UserRow
<1>2. /\ QuotaForInvitee \in Nat /\ QuotaForInviter \in Nat /\ MaxQuota \in Nat /\ MaxRequests \in Nat
      /\ requests \in 0..MaxRequests
  BY DEF AccountsAssumption, AccountsTypeOK
<1>3. CASE Charge(h)
  <2>1. PICK u \in Registered, amount \in {-1, 1} :
          /\ Received(h, "charge")
          /\ user[u].quota + amount \in 0..MaxQuota /\ decided[u].quota + amount \in 0..MaxQuota
          /\ Credit(h, u, amount)
          /\ UNCHANGED <<blackList, session, request, mixed, slipped>>
    BY <1>3 DEF Charge
  <2>2. amount \in Int /\ user[u].quota + amount \in Nat /\ decided[u].quota + amount \in Nat
    BY <1>2, <2>1
  <2>3. requests' \in 0..MaxRequests /\ UNCHANGED <<userMix, restarts>> /\ request[h].pc = "ready"
    BY <1>2, <2>1 DEF Received
  <2>4. Adds(h, u)
    BY <2>1, <2>2, <2>3, Credits DEF Adds
  <2>5. QED
    BY <2>4
<1>4. CASE PayInvitee(h)
  <2>1. PICK u \in request[h].who, inviter \in Registered :
          /\ request[h].pc = "invitee" /\ Credit(h, u, QuotaForInvitee)
          /\ request' = [request EXCEPT ![h].pc = "inviter", ![h].who = {inviter}]
          /\ UNCHANGED <<counters, blackList, session, mixed, slipped>>
    BY <1>4 DEF PayInvitee
  <2>2. u \in Registered
    BY <2>1 DEF Holding
  <2>3. QuotaForInvitee \in Int /\ user[u].quota + QuotaForInvitee \in Nat /\ decided[u].quota + QuotaForInvitee \in Nat
    BY <1>1, <1>2, <2>2
  <2>4. Adds(h, u)
    BY <1>2, <2>1, <2>2, <2>3, Credits DEF Adds, counters
  <2>5. QED
    BY <2>2, <2>4
<1>5. CASE PayInviter(h)
  <2>1. PICK u \in request[h].who :
          /\ request[h].pc = "inviter" /\ Credit(h, u, QuotaForInviter)
          /\ request' = [request EXCEPT ![h] = Ready]
          /\ UNCHANGED <<counters, blackList, session, mixed, slipped>>
    BY <1>5 DEF PayInviter
  <2>2. u \in Registered
    BY <2>1 DEF Holding
  <2>3. QuotaForInviter \in Int /\ user[u].quota + QuotaForInviter \in Nat /\ decided[u].quota + QuotaForInviter \in Nat
    BY <1>1, <1>2, <2>2
  <2>4. Adds(h, u)
    BY <1>2, <2>1, <2>2, <2>3, Credits DEF Adds, counters
  <2>5. QED
    BY <2>2, <2>4
<1>6. QED
  BY <1>3, <1>4, <1>5

LEMMA ReadyIsState == Ready \in RequestState /\ Ready.pc = "ready" /\ Ready.who = {} /\ Ready.op = "none"
<1>1. NoUser \in UserRow
  BY DEF NoUser, UserRow
<1> HIDE DEF NoUser
<1>2. QED
  BY <1>1 DEF Ready, RequestState, UserOp

\* What is decided is of the table's type, and so is what is written.
LEMMA Writes ==
  ASSUME AccountsTypeOK, NEW h \in Handling, Holding(h), NEW u \in request[h].who, request[h].pc \in {"write", "again"},
         user' = [user EXCEPT ![u] = Written(@, request[h].row)],
         decided' = [decided EXCEPT ![u] = Meant(h, u)]
  PROVE  /\ u \in Registered /\ u \in User /\ request[h].row \in UserRow
         /\ user' \in [User -> UserRow] /\ decided' \in [User -> UserRow]
         /\ user'[u] = Written(user[u], request[h].row) /\ decided'[u] = Meant(h, u)
         /\ user'[u] # NoUser /\ InTable(user'[u])
         /\ \A w \in User \ {u} : user'[w] = user[w] /\ decided'[w] = decided[w]
         /\ request[h].op \in Copying \cup {"update", "delete"}
<1>1. u \in Registered /\ u \in User
  BY DEF Holding, Registered
<1>2. /\ user \in [User -> UserRow] /\ decided \in [User -> UserRow] /\ user[u] # NoUser /\ InTable(user[u])
      /\ request[h] \in RequestState
  BY <1>1 DEF AccountsTypeOK, Registered
<1>3. request[h].row \in UserRow
  BY <1>2 DEF RequestState
<1>4. user[u] \in UserRow /\ decided[u] \in UserRow
  BY <1>1, <1>2
<1>5. /\ Written(user[u], request[h].row) \in UserRow
      /\ Written(user[u], request[h].row) # NoUser /\ InTable(Written(user[u], request[h].row))
  BY <1>2, <1>3, <1>4, WrittenRow
<1>6. Meant(h, u) \in UserRow
  <2> DEFINE new == request[h].row
             old == decided[u]
  <2>1. CASE request[h].op \in {"update", "delete"}
    <3>1. Meant(h, u) = Written(old, new)
      BY <2>1, <1>3, <1>4, MeantIsWritten DEF Meant
    <3>2. /\ Written(old, new).status \in {"", "enabled", "disabled", "deleted"}
          /\ Written(old, new).role \in {0} \cup Roles /\ Written(old, new).quota \in Nat
      BY <1>3, <1>4 DEF Written, UserRow
    <3>3. QED
      BY <3>1, <3>2 DEF Written, UserRow
  <2>2. CASE request[h].op = "save"
    BY <1>4, <2>2 DEF Meant
  <2>3. CASE request[h].op \notin {"update", "delete", "save"}
    <3>1. Meant(h, u) = [old EXCEPT !.status = IF user[u].status = new.status THEN @ ELSE new.status,
                                    !.role = IF user[u].role = new.role THEN @ ELSE new.role]
      BY <2>3 DEF Meant
    <3>2. QED
      BY <1>3, <1>4, <3>1 DEF UserRow
  <2>4. QED
    BY <2>1, <2>2, <2>3
<1>7. /\ user' \in [User -> UserRow] /\ decided' \in [User -> UserRow]
      /\ user'[u] = Written(user[u], request[h].row) /\ decided'[u] = Meant(h, u)
      /\ \A w \in User \ {u} : user'[w] = user[w] /\ decided'[w] = decided[w]
  BY <1>1, <1>2, <1>5, <1>6
<1>8. request[h].op \in Copying \cup {"update", "delete"}
  BY DEF Holding, InRow
<1>9. QED
  BY <1>1, <1>3, <1>5, <1>7, <1>8

\* Types go on.
LEMMA AccountsTypesStep ==
  ASSUME AccountsAssumption, AccountsInv, AccountsNext
  PROVE  AccountsTypeOK'
<1>1. /\ user \in [User -> UserRow] /\ decided \in [User -> UserRow] /\ request \in [Handling -> RequestState]
      /\ session \in [User -> {0} \cup Roles] /\ \A u \in User : InTable(user[u])
      /\ blackList \cup lost \cup mixed \cup slipped \subseteq Registered
      /\ userMix \in UserMixes /\ requests \in 0..MaxRequests /\ restarts \in 0..MaxRestarts
      /\ MaxRequests \in Nat /\ MaxRestarts \in Nat /\ QuotaForNewUser \in Nat
      /\ AccountsTypeOK
  BY DEF AccountsInv, AccountsTypeOK, AccountsAssumption, Registered
<1>2. \A h \in Handling : Holding(h)
  BY DEF AccountsInv
<1>3. \A u \in Registered : u \in User
  BY DEF Registered
<1>4. ASSUME /\ user' \in [User -> UserRow] /\ decided' \in [User -> UserRow] /\ request' \in [Handling -> RequestState]
             /\ session' \in [User -> {0} \cup Roles] /\ \A u \in User : InTable(user'[u])
             /\ Registered \subseteq Registered'
             /\ blackList' \cup lost' \cup mixed' \cup slipped' \subseteq Registered'
             /\ userMix' = userMix /\ requests' \in 0..MaxRequests /\ restarts' \in 0..MaxRestarts
      PROVE  AccountsTypeOK'
  BY <1>1, <1>4 DEF AccountsTypeOK, Registered
<1>5. ASSUME NEW h \in Handling, ManageUser(h) \/ UpdateUser(h) \/ SaveSelf(h) \/ DeleteUser(h)
      PROVE  AccountsTypeOK'
  <2>1. /\ UNCHANGED <<userMix, restarts, user, blackList, session, decided, lost, mixed, slipped>>
        /\ requests' = requests + 1 /\ requests < MaxRequests
        /\ \E u \in Registered : \E j \in RequestState : Begins(h, u, j)
    BY <1>1, <1>5, Receives
  <2>2. PICK j \in RequestState : request' = [request EXCEPT ![h] = j]
    BY <2>1 DEF Begins
  <2>3. request' \in [Handling -> RequestState] /\ requests' \in 0..MaxRequests
    BY <1>1, <2>1, <2>2
  <2>4. Registered' = Registered
    BY <2>1 DEF Registered
  <2>5. QED
    BY <1>1, <1>4, <2>1, <2>3, <2>4
<1>6. ASSUME NEW h \in Handling, Ban(h)
      PROVE  AccountsTypeOK'
  <2>1. PICK u \in request[h].who :
          /\ blackList' = Blacklisting(request[h].op, u, request[h].row)
          /\ request' = [request EXCEPT ![h].pc = "write"]
          /\ mixed' = IF Others(h, u) = {} THEN mixed ELSE mixed \cup {u}
          /\ UNCHANGED <<counters, user, session, decided, lost, slipped>>
    BY <1>6 DEF Ban
  <2>2. u \in Registered
    BY <1>2 DEF Holding
  <2>3. blackList' \subseteq blackList \cup {u}
    BY <2>1 DEF Blacklisting
  <2>4. Registered' = Registered
    BY <2>1 DEF Registered
  <2>5. [request[h] EXCEPT !.pc = "write"] \in RequestState
    BY <1>1 DEF RequestState
  <2>6. request' \in [Handling -> RequestState]
    BY <1>1, <2>1, <2>5
  <2>7. QED
    BY <1>1, <1>4, <2>1, <2>2, <2>3, <2>4, <2>6 DEF counters
<1>7. ASSUME NEW h \in Handling, WriteRow(h)
      PROVE  AccountsTypeOK'
  <2>1. PICK u \in request[h].who :
          /\ request[h].pc \in {"write", "again"}
          /\ user' = [user EXCEPT ![u] = Written(@, request[h].row)]
          /\ decided' = [decided EXCEPT ![u] = Meant(h, u)]
          /\ request' = [request EXCEPT ![h] = IF request[h].op = "remove" /\ request[h].pc = "write"
                                               THEN [request[h] EXCEPT !.pc = "again"] ELSE Ready]
          /\ lost' = IF Copies(h, u) = {} THEN lost ELSE lost \cup {u}
          /\ mixed' = IF Others(h, u) # {} THEN mixed \cup {u} ELSE mixed
          /\ slipped' = Slips(request[h].op, u, request[h].row)
          /\ UNCHANGED <<counters, blackList, session>>
    BY <1>7 DEF WriteRow
  <2>2. /\ u \in Registered /\ u \in User
        /\ user' \in [User -> UserRow] /\ decided' \in [User -> UserRow]
        /\ user'[u] # NoUser /\ InTable(user'[u])
        /\ \A w \in User \ {u} : user'[w] = user[w]
    BY <1>1, <1>2, <2>1, Writes
  <2>3. Registered' = Registered
    BY <2>2 DEF Registered
  <2>4. \A w \in User : InTable(user'[w])
    BY <1>1, <2>2
  <2>5. request' \in [Handling -> RequestState]
    <3>1. [request[h] EXCEPT !.pc = "again"] \in RequestState
      BY <1>1 DEF RequestState
    <3>2. QED
      BY <1>1, <2>1, <3>1, ReadyIsState
  <2>6. blackList' \cup lost' \cup mixed' \cup slipped' \subseteq Registered'
    <3>1. slipped' \subseteq slipped \cup {u}
      BY <2>1 DEF Slips
    <3>2. QED
      BY <1>1, <2>1, <2>2, <2>3, <3>1
  <2>7. QED
    BY <1>1, <1>4, <2>1, <2>2, <2>3, <2>4, <2>5, <2>6 DEF counters
<1>8. ASSUME NEW h \in Handling, Charge(h) \/ PayInvitee(h) \/ PayInviter(h)
      PROVE  AccountsTypeOK'
  <2>1. PICK u \in Registered : Adds(h, u)
    BY <1>1, <1>2, <1>8, AddsToQuota
  <2>2. /\ user' \in [User -> UserRow] /\ decided' \in [User -> UserRow]
        /\ \A w \in User : user'[w].status = user[w].status /\ user'[w].role = user[w].role
        /\ \A w \in User \ {u} : user'[w] = user[w]
        /\ user'[u] # NoUser
        /\ lost' \subseteq lost \cup {u}
        /\ UNCHANGED <<userMix, restarts, blackList, session, mixed, slipped>>
        /\ requests' \in 0..MaxRequests
    BY <2>1 DEF Adds
  <2>3. Registered' = Registered
    BY <2>2 DEF Registered
  <2>4. \A w \in User : InTable(user'[w])
    <3>1. \A w \in User \ {u} : InTable(user'[w])
      BY <1>1, <2>2
    <3>2. InTable(user[u]) /\ user[u] # NoUser /\ u \in User
      BY <1>1 DEF Registered
    <3>3. InTable(user'[u])
      BY <2>2, <3>2 DEF InTable
    <3>4. QED
      BY <3>1, <3>3
  <2>5. request' \in [Handling -> RequestState]
    <3>1. \A w \in Registered : [request[h] EXCEPT !.pc = "inviter", !.who = {w}] \in RequestState
      BY <1>1, <1>3 DEF RequestState
    <3>2. request' = request \/ request' = [request EXCEPT ![h] = Ready]
          \/ \E w \in Registered : request' = [request EXCEPT ![h].pc = "inviter", ![h].who = {w}]
      BY <2>1 DEF Adds
    <3>3. ASSUME NEW w \in Registered, request' = [request EXCEPT ![h].pc = "inviter", ![h].who = {w}]
          PROVE  request' \in [Handling -> RequestState]
      <4>1. request' = [request EXCEPT ![h] = [request[h] EXCEPT !.pc = "inviter", !.who = {w}]]
        BY <1>1, <3>3
      <4>2. QED
        BY <1>1, <3>1, <4>1
    <3>4. QED
      BY <1>1, <3>2, <3>3, ReadyIsState
  <2>6. QED
    BY <1>1, <1>4, <2>2, <2>3, <2>4, <2>5
<1>9. ASSUME NEW h \in Handling, Register(h)
      PROVE  AccountsTypeOK'
  <2> DEFINE row == [status |-> "enabled", role |-> RoleCommonUser, quota |-> QuotaForNewUser]
  <2>1. PICK u \in User \ Registered, invited \in BOOLEAN :
          /\ Received(h, "register")
          /\ user' = [user EXCEPT ![u] = row] /\ decided' = [decided EXCEPT ![u] = row]
          /\ request' = [request EXCEPT ![h] =
               IF invited THEN [Ready EXCEPT !.op = "register", !.pc = "invitee", !.who = {u}] ELSE @]
          /\ UNCHANGED <<blackList, session, lost, mixed, slipped>>
    BY <1>9 DEF Register
  <2>2. row \in UserRow /\ row.status = "enabled" /\ row.role = RoleCommonUser
    BY <1>1 DEF UserRow, Roles
  <2>3. InTable(row) /\ row # NoUser
    <3>1. row.status # "" /\ row.role # 0
      BY <2>2 DEF RoleCommonUser
    <3>2. NoUser.status = ""
      BY DEF NoUser
    <3>3. QED
      BY <3>1, <3>2 DEF InTable
  <2> HIDE DEF row
  <2>4. /\ user' \in [User -> UserRow] /\ decided' \in [User -> UserRow] /\ \A w \in User : InTable(user'[w])
    BY <1>1, <2>1, <2>2, <2>3
  <2>5. Registered \subseteq Registered'
    BY <1>1, <2>1, <2>3 DEF Registered
  <2>6. request' \in [Handling -> RequestState]
    <3>1. [Ready EXCEPT !.op = "register", !.pc = "invitee", !.who = {u}] \in RequestState
      BY ReadyIsState DEF RequestState, UserOp
    <3>2. QED
      BY <1>1, <2>1, <3>1
  <2>7. requests' \in 0..MaxRequests
    BY <1>1, <2>1 DEF Received
  <2>8. QED
    BY <1>1, <1>4, <2>1, <2>4, <2>5, <2>6, <2>7 DEF Received
<1>10. ASSUME NEW h \in Handling, Login(h)
       PROVE  AccountsTypeOK'
  <2>1. PICK u \in Registered : session' = [session EXCEPT ![u] = user[u].role]
    BY <1>10 DEF Login
  <2>2. user[u].role \in {0} \cup Roles
    BY <1>1, <1>3 DEF UserRow
  <2>3. session' \in [User -> {0} \cup Roles]
    BY <1>1, <2>1, <2>2
  <2>4. UNCHANGED <<user, blackList, request, decided, lost, mixed, userMix, restarts, slipped>> /\ requests' \in 0..MaxRequests
    BY <1>1, <1>10 DEF Login, Received
  <2>5. QED
    BY <1>1, <2>3, <2>4 DEF AccountsTypeOK, Registered
<1>11. ASSUME NEW u \in User, Logout(u)
       PROVE  AccountsTypeOK'
  <2>1. session' \in [User -> {0} \cup Roles] /\ UNCHANGED <<counters, user, blackList, request, decided, lost, mixed, slipped>>
    BY <1>1, <1>11 DEF Logout
  <2>2. QED
    BY <1>1, <2>1 DEF AccountsTypeOK, counters
<1>12. ASSUME Restart
       PROVE  AccountsTypeOK'
  <2>1. /\ request' \in [Handling -> RequestState] /\ restarts' \in 0..MaxRestarts /\ blackList' = {}
        /\ mixed' = Registered
        /\ UNCHANGED <<userMix, requests, user, session, decided, lost, slipped>>
    BY <1>1, <1>12, ReadyIsState DEF Restart
  <2>2. Registered' = Registered
    BY <2>1 DEF Registered
  <2>3. QED
    BY <1>1, <1>4, <2>1, <2>2
<1>13. QED
  BY <1>5, <1>6, <1>7, <1>8, <1>9, <1>10, <1>11, <1>12 DEF AccountsNext

\* What the two writes of a request do, beside their types.
Bans(h, u) ==
  /\ u \in request[h].who /\ request[h].pc = "ban"
  /\ blackList' = Blacklisting(request[h].op, u, request[h].row)
  /\ request' = [request EXCEPT ![h].pc = "write"]
  /\ mixed' = IF Others(h, u) = {} THEN mixed ELSE mixed \cup {u}
  /\ UNCHANGED <<counters, user, session, decided, lost, slipped>>

WritesRow(h, u) ==
  /\ u \in request[h].who /\ request[h].pc \in {"write", "again"}
  /\ user' = [user EXCEPT ![u] = Written(@, request[h].row)]
  /\ decided' = [decided EXCEPT ![u] = Meant(h, u)]
  /\ request' = [request EXCEPT ![h] = IF request[h].op = "remove" /\ request[h].pc = "write"
                                       THEN [request[h] EXCEPT !.pc = "again"] ELSE Ready]
  /\ lost' = IF Copies(h, u) = {} THEN lost ELSE lost \cup {u}
  /\ mixed' = IF Others(h, u) # {} THEN mixed \cup {u} ELSE mixed
  /\ slipped' = Slips(request[h].op, u, request[h].row)
  /\ UNCHANGED <<counters, blackList, session>>

Registers(h, u, row) ==
  /\ u \in User \ Registered /\ request[h].pc = "ready"
  /\ row = [status |-> "enabled", role |-> RoleCommonUser, quota |-> QuotaForNewUser]
  /\ user' = [user EXCEPT ![u] = row] /\ decided' = [decided EXCEPT ![u] = row]
  /\ request' = request \/ request' = [request EXCEPT ![h] = [Ready EXCEPT !.op = "register", !.pc = "invitee", !.who = {u}]]
  /\ UNCHANGED <<blackList, session, lost, mixed, slipped>>

\* The steps there are: what a proof about them has to look at.
LEMMA AccountsSteps ==
  ASSUME AccountsAssumption, AccountsInv, AccountsNext
  PROVE  \/ \E h \in Handling, u \in Registered : \E j \in RequestState :
              Begins(h, u, j) /\ UNCHANGED <<user, blackList, session, decided, lost, mixed, slipped>>
         \/ \E h \in Handling, u \in Registered : Bans(h, u)
         \/ \E h \in Handling, u \in Registered : WritesRow(h, u)
         \/ \E h \in Handling, u \in Registered : Adds(h, u)
         \/ \E h \in Handling, u \in User : \E row : Registers(h, u, row)
         \/ UNCHANGED <<user, blackList, request, decided, lost, mixed, slipped>>
         \/ Restart
<1>1. AccountsTypeOK /\ \A h \in Handling : Holding(h) /\ request[h].who \subseteq Registered
  BY DEF AccountsInv, Holding
<1>2. ASSUME NEW h \in Handling, ManageUser(h) \/ UpdateUser(h) \/ SaveSelf(h) \/ DeleteUser(h)
      PROVE  \E u \in Registered : \E j \in RequestState :
               Begins(h, u, j) /\ UNCHANGED <<user, blackList, session, decided, lost, mixed, slipped>>
  BY <1>1, <1>2, Receives
<1>3. ASSUME NEW h \in Handling, Ban(h)
      PROVE  \E u \in Registered : Bans(h, u)
  BY <1>1, <1>3 DEF Ban, Bans
<1>4. ASSUME NEW h \in Handling, WriteRow(h)
      PROVE  \E u \in Registered : WritesRow(h, u)
  BY <1>1, <1>4 DEF WriteRow, WritesRow
<1>5. ASSUME NEW h \in Handling, Charge(h) \/ PayInvitee(h) \/ PayInviter(h)
      PROVE  \E u \in Registered : Adds(h, u)
  BY <1>1, <1>5, AddsToQuota
<1>6. ASSUME NEW h \in Handling, Register(h)
      PROVE  \E u \in User : \E row : Registers(h, u, row)
  <2> DEFINE row == [status |-> "enabled", role |-> RoleCommonUser, quota |-> QuotaForNewUser]
             j == [Ready EXCEPT !.op = "register", !.pc = "invitee"]
  <2>1. PICK u \in User \ Registered, invited \in BOOLEAN :
          /\ request[h].pc = "ready"
          /\ user' = [user EXCEPT ![u] = row] /\ decided' = [decided EXCEPT ![u] = row]
          /\ request' = [request EXCEPT ![h] =
               IF invited THEN [Ready EXCEPT !.op = "register", !.pc = "invitee", !.who = {u}] ELSE @]
          /\ UNCHANGED <<blackList, session, lost, mixed, slipped>>
    BY <1>6 DEF Register, Received
  <2>2. request' = request \/ request' = [request EXCEPT ![h] = [Ready EXCEPT !.op = "register", !.pc = "invitee", !.who = {u}]]
    BY <1>1, <2>1 DEF AccountsTypeOK
  <2>3. Registers(h, u, row)
    BY <2>1, <2>2 DEF Registers
  <2>4. QED
    BY <2>3
<1>7. ASSUME \/ \E h \in Handling : Login(h)
             \/ \E u \in User : Logout(u)
      PROVE  UNCHANGED <<user, blackList, request, decided, lost, mixed, slipped>>
  BY <1>7 DEF Login, Logout
<1>8. QED
  BY <1>2, <1>3, <1>4, <1>5, <1>6, <1>7 DEF AccountsNext

\* A request that goes from a step of its row to the next.
LEMMA Follows ==
  ASSUME AccountsTypeOK, NEW h \in Handling, NEW pc, request' = [request EXCEPT ![h].pc = pc]
  PROVE  /\ request'[h].pc = pc /\ request'[h].op = request[h].op /\ request'[h].who = request[h].who
         /\ request'[h].row = request[h].row /\ request'[h].rank = request[h].rank /\ request'[h].own = request[h].own
         /\ \A k \in Handling \ {h} : request'[k] = request[k]
BY DEF AccountsTypeOK, RequestState

\* ... or that is answered.
LEMMA RequestAnswered ==
  ASSUME AccountsTypeOK, NEW h \in Handling, request' = [request EXCEPT ![h] = Ready]
  PROVE  request'[h] = Ready /\ \A k \in Handling \ {h} : request'[k] = request[k]
BY DEF AccountsTypeOK

LEMMA WritingEnds ==
  ASSUME AccountsTypeOK, NEW h \in Handling, NEW u, WritesRow(h, u)
  PROVE  /\ \A k \in Handling \ {h} : request'[k] = request[k]
         /\ \/ request'[h] = Ready
            \/ /\ request[h].op = "remove" /\ request'[h].op = "remove" /\ request'[h].pc = "again"
               /\ request'[h].who = request[h].who /\ request'[h].row = request[h].row
               /\ request'[h].rank = request[h].rank /\ request'[h].own = request[h].own
<1>1. CASE request[h].op = "remove" /\ request[h].pc = "write"
  <2>1. request' = [request EXCEPT ![h].pc = "again"]
    BY <1>1 DEF WritesRow
  <2>2. QED
    BY <1>1, <2>1, Follows
<1>2. CASE ~(request[h].op = "remove" /\ request[h].pc = "write")
  <2>1. request' = [request EXCEPT ![h] = Ready]
    BY <1>2 DEF WritesRow
  <2>2. QED
    BY <2>1, RequestAnswered
<1>3. QED
  BY <1>1, <1>2

\* Paying for an invitation goes from one user to the other.
LEMMA AddingGoesOn ==
  ASSUME AccountsTypeOK, NEW h \in Handling, NEW u, Adds(h, u), Holding(h)
  PROVE  /\ \A k \in Handling \ {h} : request'[k] = request[k]
         /\ \/ request'[h] = request[h] /\ request[h].who = {}
            \/ request'[h] = Ready
            \/ /\ request'[h].op = "register" /\ request'[h].pc = "inviter"
               /\ \E w \in Registered : request'[h].who = {w}
         /\ request[h].op \in Copying => request[h].who = {}
<1>1. CASE request' = request /\ request[h].pc = "ready"
  BY <1>1 DEF Holding
<1>2. CASE request[h].pc \in {"invitee", "inviter"} /\ request' = [request EXCEPT ![h] = Ready]
  BY <1>2, RequestAnswered DEF Holding, Copying
<1>3. CASE /\ request[h].pc \in {"invitee", "inviter"}
           /\ \E w \in Registered : request' = [request EXCEPT ![h].pc = "inviter", ![h].who = {w}]
  <2>1. PICK w \in Registered : request' = [request EXCEPT ![h].pc = "inviter", ![h].who = {w}]
    BY <1>3
  <2>2. /\ request'[h].pc = "inviter" /\ request'[h].op = request[h].op /\ request'[h].who = {w}
        /\ \A k \in Handling \ {h} : request'[k] = request[k]
    BY <2>1 DEF AccountsTypeOK, RequestState
  <2>3. request[h].op = "register"
    BY <1>3 DEF Holding
  <2>4. QED
    BY <2>2, <2>3 DEF Copying
<1>4. QED
  BY <1>1, <1>2, <1>3 DEF Adds

LEMMA BeginningHolds ==
  ASSUME AccountsTypeOK, NEW h \in Handling, NEW u, NEW j, Begins(h, u, j)
  PROVE  request'[h] = j /\ \A k \in Handling \ {h} : request'[k] = request[k]
BY DEF AccountsTypeOK, Begins

LEMMA Registering ==
  ASSUME AccountsTypeOK, NEW h \in Handling, NEW u, NEW row, Registers(h, u, row)
  PROVE  /\ \A k \in Handling \ {h} : request'[k] = request[k]
         /\ \/ request'[h] = request[h]
            \/ request'[h].op = "register" /\ request'[h].pc = "invitee" /\ request'[h].who = {u}
         /\ \A w \in User \ {u} : user'[w] = user[w] /\ decided'[w] = decided[w]
         /\ user'[u] = row /\ decided'[u] = row
         /\ row.status = "enabled" /\ Registered' = Registered \cup {u}
<1>1. /\ \A w \in User \ {u} : user'[w] = user[w] /\ decided'[w] = decided[w]
      /\ user'[u] = row /\ decided'[u] = row /\ row.status = "enabled"
  BY DEF AccountsTypeOK, Registers
<1>2. row # NoUser
  <2>1. NoUser.status = ""
    BY DEF NoUser
  <2>2. QED
    BY <1>1, <2>1
<1>3. Registered' = Registered \cup {u}
  BY <1>1, <1>2 DEF Registered, Registers
<1>4. /\ \A k \in Handling \ {h} : request'[k] = request[k]
      /\ \/ request'[h] = request[h]
         \/ request'[h].op = "register" /\ request'[h].pc = "invitee" /\ request'[h].who = {u}
  BY DEF AccountsTypeOK, Registers, Ready
<1>5. QED
  BY <1>1, <1>3, <1>4

\* Users stay, and what spoils a claim stays spoiled.
LEMMA UsersStay ==
  ASSUME AccountsAssumption, AccountsInv, AccountsNext
  PROVE  Registered \subseteq Registered' /\ mixed \subseteq mixed' /\ lost \subseteq lost'
<1>1. AccountsTypeOK /\ \A h \in Handling : Holding(h)
  BY DEF AccountsInv
<1>2. ASSUME UNCHANGED user
      PROVE  Registered' = Registered
  BY <1>2 DEF Registered
<1>3. ASSUME NEW h \in Handling, NEW u \in Registered, \E j \in RequestState :
               Begins(h, u, j) /\ UNCHANGED <<user, blackList, session, decided, lost, mixed, slipped>>
      PROVE  Registered \subseteq Registered' /\ mixed \subseteq mixed' /\ lost \subseteq lost'
  BY <1>2, <1>3
<1>4. ASSUME NEW h \in Handling, NEW u \in Registered, Bans(h, u)
      PROVE  Registered \subseteq Registered' /\ mixed \subseteq mixed' /\ lost \subseteq lost'
  BY <1>2, <1>4 DEF Bans
<1>5. ASSUME NEW h \in Handling, NEW u \in Registered, WritesRow(h, u)
      PROVE  Registered \subseteq Registered' /\ mixed \subseteq mixed' /\ lost \subseteq lost'
  <2>1. user'[u] # NoUser /\ \A w \in User \ {u} : user'[w] = user[w]
    BY <1>1, <1>5, Writes DEF WritesRow
  <2>2. QED
    BY <1>5, <2>1 DEF Registered, WritesRow
<1>6. ASSUME NEW h \in Handling, NEW u \in Registered, Adds(h, u)
      PROVE  Registered \subseteq Registered' /\ mixed \subseteq mixed' /\ lost \subseteq lost'
  BY <1>6 DEF Registered, Adds
<1>7. ASSUME NEW h \in Handling, NEW u \in User, NEW row, Registers(h, u, row)
      PROVE  Registered \subseteq Registered' /\ mixed \subseteq mixed' /\ lost \subseteq lost'
  <2>1. Registered' = Registered \cup {u}
    BY <1>1, <1>7, Registering
  <2>2. QED
    BY <1>7, <2>1 DEF Registers
<1>8. ASSUME Restart
      PROVE  Registered \subseteq Registered' /\ mixed \subseteq mixed' /\ lost \subseteq lost'
  BY <1>1, <1>2, <1>8 DEF Restart, AccountsTypeOK, Registered
<1>9. QED
  BY <1>2, <1>3, <1>4, <1>5, <1>6, <1>7, <1>8, AccountsSteps

\* What the requests hold goes on.
LEMMA HoldingStep ==
  ASSUME AccountsAssumption, AccountsInv, AccountsNext, NEW k \in Handling
  PROVE  Holding(k)'
<1>1. AccountsTypeOK /\ \A h \in Handling : Holding(h)
  BY DEF AccountsInv
<1>2. Registered \subseteq Registered'
  BY UsersStay
<1>3. ASSUME request'[k] = request[k]
      PROVE  Holding(k)'
  BY <1>1, <1>2, <1>3 DEF Holding
<1>4. ASSUME request'[k] = Ready
      PROVE  Holding(k)'
  BY <1>4, ReadyIsState DEF Holding, InRow, Copying
<1>5. ASSUME NEW pc \in {"write", "again"}, request[k].pc \in InRow,
             request'[k].pc = pc, request'[k].op = request[k].op, request'[k].who = request[k].who,
             request'[k].row = request[k].row
      PROVE  Holding(k)'
  <2>1. request[k].op \in Copying \cup {"update", "delete"}
    BY <1>1, <1>5 DEF Holding
  <2>2. request'[k].pc \notin {"ready", "invitee", "inviter"}
    BY <1>5
  <2>3. request'[k].who \subseteq Registered'
    BY <1>1, <1>2, <1>5 DEF Holding
  <2>4. Holding(k)
    BY <1>1
  <2>5. QED
    BY <1>5, <2>1, <2>2, <2>3, <2>4 DEF Holding
<1>6. ASSUME request'[k].op = "register", request'[k].pc \in {"invitee", "inviter"},
             \E w \in Registered' : request'[k].who = {w}
      PROVE  Holding(k)'
  <2>1. PICK w \in Registered' : request'[k].who = {w}
    BY <1>6
  <2>2. "register" \notin Copying /\ request'[k].pc \notin InRow /\ request'[k].pc # "ready"
    BY <1>6 DEF Copying, InRow
  <2>3. request'[k].who \subseteq Registered' /\ \A v, x \in request'[k].who : v = x
    BY <2>1
  <2>4. QED
    BY <1>6, <2>2, <2>3 DEF Holding
<1>7. ASSUME NEW h \in Handling, NEW u \in Registered, NEW j \in RequestState, Begins(h, u, j)
      PROVE  Holding(k)'
  <2>1. request'[h] = j /\ \A m \in Handling \ {h} : request'[m] = request[m]
    BY <1>1, <1>7, BeginningHolds
  <2>2. CASE k = h
    <3>1. /\ j.pc = "ban" /\ j.who = {u} /\ j.op \in Copying \cup {"update", "delete"}
          /\ j.op \in Copying => j.row.status # "" /\ j.row.role # 0
          /\ j.op \in {"remove", "delete"} => j.row.status = "deleted"
      BY <1>7 DEF Begins
    <3>2. j.who \subseteq Registered' /\ \A v, x \in j.who : v = x
      BY <1>2, <3>1
    <3>3. request'[k] = j
      BY <2>1, <2>2
    <3>4. QED
      BY <3>1, <3>2, <3>3 DEF Holding
  <2>3. QED
    BY <1>3, <2>1, <2>2
<1>8. ASSUME NEW h \in Handling, NEW u \in Registered, Bans(h, u)
      PROVE  Holding(k)'
  <2>1. /\ request'[h].pc = "write" /\ request'[h].op = request[h].op /\ request'[h].who = request[h].who
        /\ request'[h].row = request[h].row
        /\ \A m \in Handling \ {h} : request'[m] = request[m]
    BY <1>1, <1>8, Follows DEF Bans
  <2>2. CASE k = h
    BY <1>5, <1>8, <2>1, <2>2 DEF Bans, InRow
  <2>3. QED
    BY <1>3, <2>1, <2>2
<1>9. ASSUME NEW h \in Handling, NEW u \in Registered, WritesRow(h, u)
      PROVE  Holding(k)'
  <2>1. /\ \A m \in Handling \ {h} : request'[m] = request[m]
        /\ \/ request'[h] = Ready
           \/ /\ request'[h].op = request[h].op /\ request'[h].pc = "again"
              /\ request'[h].who = request[h].who /\ request'[h].row = request[h].row
    BY <1>1, <1>9, WritingEnds
  <2>2. CASE k = h
    BY <1>4, <1>5, <1>9, <2>1, <2>2 DEF WritesRow, InRow
  <2>3. QED
    BY <1>3, <2>1, <2>2
<1>10. ASSUME NEW h \in Handling, NEW u \in Registered, Adds(h, u)
       PROVE  Holding(k)'
  <2>1. /\ \A m \in Handling \ {h} : request'[m] = request[m]
        /\ \/ request'[h] = request[h]
           \/ request'[h] = Ready
           \/ /\ request'[h].op = "register" /\ request'[h].pc = "inviter"
              /\ \E w \in Registered : request'[h].who = {w}
    BY <1>1, <1>10, AddingGoesOn
  <2>2. QED
    BY <1>2, <1>3, <1>4, <1>6, <2>1
<1>11. ASSUME NEW h \in Handling, NEW u \in User, NEW row, Registers(h, u, row)
       PROVE  Holding(k)'
  <2>1. /\ \A m \in Handling \ {h} : request'[m] = request[m]
        /\ \/ request'[h] = request[h]
           \/ request'[h].op = "register" /\ request'[h].pc = "invitee" /\ request'[h].who = {u}
        /\ Registered' = Registered \cup {u}
    BY <1>1, <1>11, Registering
  <2>2. QED
    BY <1>3, <1>6, <2>1
<1>12. ASSUME Restart
       PROVE  Holding(k)'
  BY <1>4, <1>12 DEF Restart
<1>13. QED
  BY <1>3, <1>7, <1>8, <1>9, <1>10, <1>11, <1>12, AccountsSteps

\* A row is as decided, and a copy as the row, unless the user is among the lost.
LEMMA DecidedStep ==
  ASSUME AccountsAssumption, AccountsInv, AccountsNext
  PROVE  RowIsDecided' /\ \A k \in Handling : CopyStands(k)'
<1>1. AccountsTypeOK /\ \A h \in Handling : Holding(h)
  BY DEF AccountsInv
<1>2. lost \subseteq lost'
  BY UsersStay
<1>3. /\ \A u \in User \ lost : user[u] = decided[u]
      /\ \A k \in Handling : CopyStands(k)
  BY DEF AccountsInv, RowIsDecided
<1>4. ASSUME UNCHANGED <<user, decided>>
      PROVE  RowIsDecided'
  BY <1>2, <1>3, <1>4 DEF RowIsDecided
<1>5. ASSUME UNCHANGED user, NEW k \in Handling,
             \/ request'[k] = request[k]
             \/ /\ request'[k].op = request[k].op /\ request'[k].who = request[k].who
                /\ request'[k].row = request[k].row
      PROVE  CopyStands(k)'
  BY <1>2, <1>3, <1>5 DEF CopyStands
<1>6. ASSUME NEW k \in Handling, request'[k].who = {}
      PROVE  CopyStands(k)'
  BY <1>6 DEF CopyStands
<1>7. ASSUME NEW k \in Handling, request'[k].op = "register"
      PROVE  CopyStands(k)'
  BY <1>7 DEF CopyStands, Copying
<1>8. ASSUME NEW k \in Handling, NEW u \in User, request'[k] = request[k], \A w \in User \ {u} : user'[w] = user[w],
             u \in request[k].who /\ request[k].op \in Copying => u \in lost'
      PROVE  CopyStands(k)'
  <2>1. \A w \in request[k].who : w \in User
    BY <1>1 DEF Holding, Registered
  <2>2. ASSUME NEW w \in request[k].who, w \notin lost', request[k].op \in Copying
        PROVE  user'[w] = user[w] /\ w \notin lost
    BY <1>2, <1>8, <2>1, <2>2
  <2>3. "save" \in Copying
    BY DEF Copying
  <2>4. QED
    BY <1>3, <1>8, <2>2, <2>3 DEF CopyStands
<1>9. ASSUME NEW h \in Handling, NEW u \in Registered, NEW j \in RequestState, Begins(h, u, j),
             UNCHANGED <<user, blackList, session, decided, lost, mixed, slipped>>
      PROVE  RowIsDecided' /\ \A k \in Handling : CopyStands(k)'
  <2>1. request'[h] = j /\ \A m \in Handling \ {h} : request'[m] = request[m]
    BY <1>1, <1>9, BeginningHolds
  <2>2. CopyStands(h)'
    BY <1>9, <2>1 DEF Begins, CopyStands
  <2>3. QED
    BY <1>4, <1>5, <1>9, <2>1, <2>2
<1>10. ASSUME NEW h \in Handling, NEW u \in Registered, Bans(h, u)
       PROVE  RowIsDecided' /\ \A k \in Handling : CopyStands(k)'
  <2>1. /\ request'[h].op = request[h].op /\ request'[h].who = request[h].who
        /\ request'[h].row = request[h].row
        /\ \A m \in Handling \ {h} : request'[m] = request[m]
    BY <1>1, <1>10, Follows DEF Bans
  <2>2. UNCHANGED <<user, decided>>
    BY <1>10 DEF Bans
  <2>3. \A k \in Handling : CopyStands(k)'
    BY <1>5, <2>1, <2>2
  <2>4. QED
    BY <1>4, <2>2, <2>3
<1>11. ASSUME NEW h \in Handling, NEW u \in Registered, WritesRow(h, u)
       PROVE  RowIsDecided' /\ \A k \in Handling : CopyStands(k)'
  <2> DEFINE new == request[h].row
  <2>1. /\ u \in User /\ new \in UserRow /\ request[h].op \in Copying \cup {"update", "delete"}
        /\ user'[u] = Written(user[u], new) /\ decided'[u] = Meant(h, u)
        /\ \A w \in User \ {u} : user'[w] = user[w] /\ decided'[w] = decided[w]
    BY <1>1, <1>11, Writes DEF WritesRow
  <2>2. user[u] \in UserRow /\ decided[u] \in UserRow
    BY <1>1, <2>1 DEF AccountsTypeOK
  <2>3. ASSUME u \notin lost
        PROVE  Written(user[u], new) = Meant(h, u)
    <3>1. user[u] = decided[u]
      BY <1>3, <2>1, <2>3
    <3>2. CASE request[h].op \in {"update", "delete"}
      <4>1. Meant(h, u) = Written(decided[u], new)
        BY <2>1, <2>2, <3>2, MeantIsWritten DEF Meant
      <4>2. QED
        BY <3>1, <4>1
    <3>3. CASE request[h].op = "save"
      <4>1. new = user[u]
        BY <1>3, <1>11, <2>3, <3>3 DEF WritesRow, CopyStands
      <4>2. Written(user[u], user[u]) = user[u]
        BY <2>2 DEF Written, UserRow
      <4>3. Meant(h, u) = decided[u]
        BY <3>3 DEF Meant
      <4>4. QED
        BY <3>1, <4>1, <4>2, <4>3
    <3>4. CASE request[h].op \in Copying \ {"save"}
      <4>1. new.status # "" /\ new.role # 0 /\ new.quota = user[u].quota
        BY <1>1, <1>3, <1>11, <2>3, <3>4 DEF WritesRow, CopyStands, Holding
      <4>2. Meant(h, u) = [decided[u] EXCEPT !.status = IF user[u].status = new.status THEN @ ELSE new.status,
                                             !.role = IF user[u].role = new.role THEN @ ELSE new.role]
        BY <3>4 DEF Meant, Copying
      <4>3. /\ Meant(h, u).status = new.status /\ Meant(h, u).role = new.role
            /\ Meant(h, u).quota = user[u].quota
        BY <2>2, <3>1, <4>2 DEF UserRow
      <4>4. /\ Written(user[u], new).status = new.status /\ Written(user[u], new).role = new.role
            /\ Written(user[u], new).quota = user[u].quota
        BY <2>1, <2>2, <4>1 DEF Written
      <4>5. Written(user[u], new) \in UserRow /\ Meant(h, u) \in UserRow
        BY <1>1, <1>11, <2>1, Writes DEF WritesRow, AccountsTypeOK
      <4>6. QED
        BY <4>3, <4>4, <4>5, SameRow
    <3>5. QED
      BY <2>1, <3>2, <3>3, <3>4
  <2>4. RowIsDecided'
    BY <1>2, <1>3, <2>1, <2>3 DEF RowIsDecided
  <2>5. /\ \A k \in Handling \ {h} : request'[k] = request[k]
        /\ \/ request'[h] = Ready
           \/ /\ request[h].op = "remove" /\ request'[h].op = "remove"
              /\ request'[h].who = request[h].who /\ request'[h].row = request[h].row
    BY <1>1, <1>11, WritingEnds
  <2>6. ASSUME NEW k \in Handling \ {h}
        PROVE  CopyStands(k)'
    <3>1. u \in request[k].who /\ request[k].op \in Copying => u \in lost'
      BY <1>11 DEF WritesRow, Copies, Others, Copying
    <3>2. QED
      BY <1>8, <2>1, <2>5, <3>1
  <2>7. CopyStands(h)'
    <3>1. CASE request'[h] = Ready
      BY <1>6, <3>1, ReadyIsState
    <3>2. CASE /\ request[h].op = "remove" /\ request'[h].op = "remove"
               /\ request'[h].who = request[h].who /\ request'[h].row = request[h].row
      <4>1. ASSUME u \notin lost'
            PROVE  new.quota = user'[u].quota
        <5>1. new.quota = user[u].quota
          BY <1>2, <1>3, <1>11, <3>2, <4>1 DEF WritesRow, CopyStands, Copying
        <5>2. Written(user[u], new).quota = IF new.quota = 0 THEN user[u].quota ELSE new.quota
          BY DEF Written
        <5>3. QED
          BY <2>1, <5>1, <5>2
      <4>2. request[h].who = {u}
        BY <1>1, <1>11 DEF WritesRow, Holding
      <4>3. QED
        BY <3>2, <4>1, <4>2 DEF CopyStands
    <3>3. QED
      BY <2>5, <3>1, <3>2
  <2>8. QED
    BY <2>4, <2>6, <2>7
<1>12. ASSUME NEW h \in Handling, NEW u \in Registered, Adds(h, u)
       PROVE  RowIsDecided' /\ \A k \in Handling : CopyStands(k)'
  <2>1. /\ \A k \in Handling \ {h} : request'[k] = request[k]
        /\ \/ request'[h] = request[h] /\ request[h].who = {}
           \/ request'[h] = Ready
           \/ request'[h].op = "register"
    BY <1>1, <1>12, AddingGoesOn
  <2>2. u \in User
    BY DEF Registered
  <2>3. RowIsDecided'
    BY <1>2, <1>3, <1>12 DEF RowIsDecided, Adds
  <2>4. ASSUME NEW k \in Handling \ {h}
        PROVE  CopyStands(k)'
    <3>1. u \in request[k].who /\ request[k].op \in Copying => u \in lost'
      BY <1>12 DEF Adds, Copies, Others, Copying
    <3>2. \A w \in User \ {u} : user'[w] = user[w]
      BY <1>12 DEF Adds
    <3>3. QED
      BY <1>8, <2>1, <2>2, <3>1, <3>2
  <2>5. CopyStands(h)'
    BY <1>6, <1>7, <2>1, ReadyIsState
  <2>6. QED
    BY <2>3, <2>4, <2>5
<1>13. ASSUME NEW h \in Handling, NEW u \in User, NEW row, Registers(h, u, row)
       PROVE  RowIsDecided' /\ \A k \in Handling : CopyStands(k)'
  <2>1. /\ \A k \in Handling \ {h} : request'[k] = request[k]
        /\ request'[h] = request[h] \/ request'[h].op = "register"
        /\ \A w \in User \ {u} : user'[w] = user[w] /\ decided'[w] = decided[w]
        /\ user'[u] = row /\ decided'[u] = row
    BY <1>1, <1>13, Registering
  <2>2. RowIsDecided'
    BY <1>2, <1>3, <2>1 DEF RowIsDecided
  <2>3. ASSUME NEW k \in Handling, request'[k] = request[k]
        PROVE  CopyStands(k)'
    <3>1. u \notin request[k].who
      BY <1>1, <1>13 DEF Registers, Holding
    <3>2. QED
      BY <1>8, <2>1, <2>3, <3>1
  <2>4. QED
    BY <1>7, <2>1, <2>2, <2>3
<1>14. ASSUME Restart
       PROVE  RowIsDecided' /\ \A k \in Handling : CopyStands(k)'
  <2>1. \A k \in Handling : request'[k].who = {}
    BY <1>14, ReadyIsState DEF Restart
  <2>2. QED
    BY <1>4, <1>6, <1>14, <2>1 DEF Restart
<1>15. ASSUME UNCHANGED <<user, blackList, request, decided, lost, mixed, slipped>>
       PROVE  RowIsDecided' /\ \A k \in Handling : CopyStands(k)'
  BY <1>4, <1>5, <1>15
<1>16. QED
  BY <1>9, <1>10, <1>11, <1>12, <1>13, <1>14, <1>15, AccountsSteps

\* Whoever may write an administrator's row still may.
LEMMA RanksStep ==
  ASSUME AccountsAssumption, AccountsInv, AccountsNext, NEW k \in Handling
  PROVE  RankStands(k)'
<1>1. AccountsTypeOK /\ \A h \in Handling : Holding(h)
  BY DEF AccountsInv
<1>2. mixed \subseteq mixed'
  BY UsersStay
<1>3. RankStands(k)
  BY DEF AccountsInv
<1>4. ASSUME NEW K, K = request[k].who \ mixed',
             request'[k].who = request[k].who, request'[k].op = request[k].op, request'[k].row = request[k].row,
             request'[k].rank = request[k].rank, request'[k].own = request[k].own,
             request'[k].pc \in InRow => request[k].pc \in InRow,
             \A w \in K : user'[w].role = user[w].role /\ user'[w].status = user[w].status
      PROVE  RankStands(k)'
  BY <1>2, <1>3, <1>4 DEF RankStands
<1>5. ASSUME request'[k] = request[k], \A w \in request[k].who \ mixed' : user'[w].role = user[w].role /\ user'[w].status = user[w].status
      PROVE  RankStands(k)'
  BY <1>4, <1>5
<1>6. ASSUME request'[k].pc \notin InRow
      PROVE  RankStands(k)'
  BY <1>6 DEF RankStands
<1>7. ASSUME NEW h \in Handling, NEW u \in Registered, NEW j \in RequestState, Begins(h, u, j),
             UNCHANGED <<user, blackList, session, decided, lost, mixed, slipped>>
      PROVE  RankStands(k)'
  <2>1. request'[h] = j /\ \A m \in Handling \ {h} : request'[m] = request[m]
    BY <1>1, <1>7, BeginningHolds
  <2>2. CASE k = h
    BY <1>7, <2>1, <2>2 DEF Begins, RankStands
  <2>3. QED
    BY <1>5, <1>7, <2>1, <2>2
<1>8. ASSUME NEW h \in Handling, NEW u \in Registered, Bans(h, u)
      PROVE  RankStands(k)'
  <2>1. /\ request'[h].op = request[h].op /\ request'[h].who = request[h].who
        /\ request'[h].row = request[h].row /\ request'[h].rank = request[h].rank /\ request'[h].own = request[h].own
        /\ \A m \in Handling \ {h} : request'[m] = request[m]
    BY <1>1, <1>8, Follows DEF Bans
  <2>2. user' = user /\ request[h].pc \in InRow
    BY <1>8 DEF Bans, InRow
  <2>3. CASE k = h
    BY <1>4, <2>1, <2>2, <2>3
  <2>4. QED
    BY <1>5, <2>1, <2>2, <2>3
<1>9. ASSUME NEW h \in Handling, NEW u \in Registered, WritesRow(h, u)
      PROVE  RankStands(k)'
  <2>1. /\ \A m \in Handling \ {h} : request'[m] = request[m]
        /\ \/ request'[h] = Ready
           \/ /\ request[h].op = "remove" /\ request'[h].op = "remove" /\ request'[h].pc = "again"
              /\ request'[h].who = request[h].who /\ request'[h].row = request[h].row
              /\ request'[h].rank = request[h].rank /\ request'[h].own = request[h].own
    BY <1>1, <1>9, WritingEnds
  <2>2. /\ u \in User /\ user'[u] = Written(user[u], request[h].row)
        /\ \A w \in User \ {u} : user'[w] = user[w]
    BY <1>1, <1>9, Writes DEF WritesRow
  <2>3. CASE k # h
    <3>1. \A w \in request[k].who : w \in User
      BY <1>1 DEF Holding, Registered
    <3>2. u \in request[k].who => u \in mixed'
      BY <1>9, <2>3 DEF WritesRow, Others
    <3>3. \A w \in request[k].who \ mixed' : user'[w].role = user[w].role /\ user'[w].status = user[w].status
      BY <2>2, <3>1, <3>2
    <3>4. QED
      BY <1>5, <2>1, <2>3, <3>3
  <2>4. CASE k = h /\ request'[h] = Ready
    BY <1>6, <2>4, ReadyIsState DEF InRow
  <2>5. CASE k = h /\ request'[h] # Ready
    <3>1. request[h].who = {u}
      BY <1>1, <1>9 DEF WritesRow, Holding
    <3>2. /\ request[h].op = "remove" /\ request[h].row.role # 0 /\ request[h].pc \in InRow
      BY <1>1, <1>9, <2>1, <2>5 DEF WritesRow, Holding, Copying, InRow
    <3>3. user'[u].role = request[h].row.role
      <4>1. Written(user[u], request[h].row).role = request[h].row.role
        BY <3>2 DEF Written
      <4>2. QED
        BY <2>2, <4>1
    <3>4. u \notin mixed' => (\/ request[h].rank = RoleRootUser \/ request[h].own
                              \/ request[h].row.role < RoleAdminUser)
      BY <1>2, <1>3, <2>5, <3>1, <3>2 DEF RankStands
    <3>5. QED
      BY <2>1, <2>5, <3>1, <3>3, <3>4 DEF RankStands
  <2>6. QED
    BY <2>3, <2>4, <2>5
<1>10. ASSUME NEW h \in Handling, NEW u \in Registered, Adds(h, u)
       PROVE  RankStands(k)'
  <2>1. /\ \A m \in Handling \ {h} : request'[m] = request[m]
        /\ \/ request'[h] = request[h]
           \/ request'[h] = Ready
           \/ request'[h].pc = "inviter"
    BY <1>1, <1>10, AddingGoesOn
  <2>2. \A w \in User : user'[w].role = user[w].role /\ user'[w].status = user[w].status
    BY <1>10 DEF Adds
  <2>3. \A w \in request[k].who : w \in User
    BY <1>1 DEF Holding, Registered
  <2>4. Ready.pc \notin InRow /\ "inviter" \notin InRow
    BY ReadyIsState DEF InRow
  <2>5. CASE request'[k] = request[k]
    BY <1>5, <2>2, <2>3, <2>5
  <2>6. CASE request'[k] # request[k]
    BY <1>6, <2>1, <2>4, <2>6
  <2>7. QED
    BY <2>5, <2>6
<1>11. ASSUME NEW h \in Handling, NEW u \in User, NEW row, Registers(h, u, row)
       PROVE  RankStands(k)'
  <2>1. /\ \A m \in Handling \ {h} : request'[m] = request[m]
        /\ request'[h] = request[h] \/ request'[h].pc = "invitee"
        /\ \A w \in User \ {u} : user'[w] = user[w]
    BY <1>1, <1>11, Registering
  <2>2. CASE request'[k] = request[k]
    <3>1. \A w \in request[k].who : w \in User /\ w # u
      BY <1>1, <1>11 DEF Registers, Holding, Registered
    <3>2. QED
      BY <1>5, <2>1, <2>2, <3>1
  <2>3. CASE request'[k].pc = "invitee"
    BY <1>6, <2>3 DEF InRow
  <2>4. QED
    BY <2>1, <2>2, <2>3
<1>12. ASSUME Restart
       PROVE  RankStands(k)'
  <2>1. request'[k] = Ready
    BY <1>12 DEF Restart
  <2>2. QED
    BY <1>6, <2>1, ReadyIsState DEF InRow
<1>13. ASSUME UNCHANGED <<user, blackList, request, decided, lost, mixed, slipped>>
       PROVE  RankStands(k)'
  BY <1>5, <1>13
<1>14. QED
  BY <1>7, <1>8, <1>9, <1>10, <1>11, <1>12, <1>13, AccountsSteps

\* Who is banned is who the row in the table or in hand says.
LEMMA BansStep ==
  ASSUME AccountsAssumption, AccountsInv, AccountsNext, NEW w \in Registered', w \notin mixed'
  PROVE  BansInHand(w)'
<1>1. AccountsTypeOK /\ \A h \in Handling : Holding(h)
  BY DEF AccountsInv
<1>2. mixed \subseteq mixed'
  BY UsersStay
<1>3. w \in Registered => BansInHand(w)
  BY <1>2 DEF AccountsInv
<1>4. w \in User
  BY DEF Registered
\* A step that bans nobody and writes no status.
<1>5. ASSUME w \in Registered, user'[w].status = user[w].status, w \in blackList <=> w \in blackList',
             w \in slipped <=> w \in slipped',
             \A k \in Handling : /\ Writing(k, w)' <=> Writing(k, w)
                                 /\ Writing(k, w) => request'[k].row = request[k].row /\ request'[k].op = request[k].op
      PROVE  BansInHand(w)'
  <2>1. \A k \in Handling : Writing(k, w) => Effective(k, w)' = Effective(k, w) /\ (Slipping(k, w)' <=> Slipping(k, w))
    BY <1>5 DEF Effective, Slipping, Slips
  <2>2. BansInHand(w)
    BY <1>3, <1>5
  <2>3. \A k \in Handling : Writing(k, w)' => Banned(w, Effective(k, w), Slipping(k, w))'
    BY <1>5, <2>1, <2>2 DEF BansInHand, Banned
  <2>4. QED
    BY <1>5, <2>2, <2>3 DEF BansInHand, Banned
<1>6. ASSUME NEW h \in Handling, NEW u \in Registered, NEW j \in RequestState, Begins(h, u, j),
             UNCHANGED <<user, blackList, session, decided, lost, mixed, slipped>>
      PROVE  BansInHand(w)'
  <2>1. request'[h] = j /\ \A m \in Handling \ {h} : request'[m] = request[m]
    BY <1>1, <1>6, BeginningHolds
  <2>2. ~Writing(h, w) /\ ~Writing(h, w)'
    BY <1>6, <2>1 DEF Writing, Begins
  <2>3. \A k \in Handling : /\ Writing(k, w)' <=> Writing(k, w)
                            /\ Writing(k, w) => request'[k].row = request[k].row /\ request'[k].op = request[k].op
    BY <2>1, <2>2 DEF Writing
  <2>4. w \in Registered
    BY <1>6 DEF Registered
  <2>5. QED
    BY <1>5, <1>6, <2>3, <2>4
<1>7. ASSUME NEW h \in Handling, NEW u \in Registered, Bans(h, u)
      PROVE  BansInHand(w)'
  <2>1. /\ request'[h].pc = "write" /\ request'[h].who = request[h].who /\ request'[h].row = request[h].row
        /\ request'[h].op = request[h].op
        /\ \A m \in Handling \ {h} : request'[m] = request[m]
    BY <1>1, <1>7, Follows DEF Bans
  <2>2. user' = user /\ w \in Registered
    BY <1>7 DEF Bans, Registered
  <2>3. request[h].who = {u} /\ request[h].pc = "ban"
    BY <1>1, <1>7 DEF Bans, Holding
  <2>4. CASE w # u
    <3>1. \A k \in Handling : /\ Writing(k, w)' <=> Writing(k, w)
                              /\ Writing(k, w) => request'[k].row = request[k].row /\ request'[k].op = request[k].op
      BY <2>1, <2>3, <2>4 DEF Writing
    <3>2. (w \in blackList <=> w \in blackList') /\ slipped' = slipped
      BY <1>7, <2>4 DEF Bans, Blacklisting
    <3>3. QED
      BY <1>5, <2>2, <3>1, <3>2
  <2>5. CASE w = u
    <3>1. \A k \in Handling : k # h => w \notin request[k].who
      BY <1>7, <2>5 DEF Bans, Others
    <3>2. \A k \in Handling : ~Writing(k, w)
      BY <2>3, <3>1 DEF Writing
    <3>3. \A k \in Handling : Writing(k, w)' => k = h
      BY <2>1, <3>1 DEF Writing
    <3>4. Writing(h, w)'
      BY <2>1, <2>3, <2>5 DEF Writing
    <3>5. Banned(w, user[w].status, w \in slipped)
      BY <1>3, <2>2, <3>2 DEF BansInHand
    <3> DEFINE r == request[h]
    <3>6. /\ r.row.status \in {"", "enabled", "disabled", "deleted"}
          /\ r.op \in {"manage", "remove", "save", "update", "delete"}
          /\ r.op \in {"remove", "delete"} => r.row.status = "deleted"
          /\ r.op \in {"manage", "save"} /\ r.row.status = "deleted" => user[w].status = "deleted"
      <4>1. r.row.status \in {"", "enabled", "disabled", "deleted"}
        BY <1>1 DEF AccountsTypeOK, RequestState, UserRow
      <4>2. r.op \in Copying \cup {"update", "delete"} /\ (r.op \in {"remove", "delete"} => r.row.status = "deleted")
        BY <1>1, <2>3 DEF Holding, InRow
      <4>3. RankStands(h)
        BY DEF AccountsInv
      <4>4. w \notin mixed /\ w \in request[h].who /\ request[h].pc \in InRow
        BY <1>2, <2>3, <2>5 DEF InRow
      <4>5. r.op \in {"manage", "save"} /\ r.row.status = "deleted" => user[w].status = "deleted"
        BY <4>3, <4>4 DEF RankStands
      <4>6. QED
        BY <4>1, <4>2, <4>5 DEF Copying
    <3>7. /\ blackList' = Blacklisting(r.op, w, r.row) /\ user' = user /\ slipped' = slipped
          /\ request'[h].row = r.row /\ request'[h].op = r.op
      BY <1>7, <2>1, <2>5 DEF Bans
    <3> HIDE DEF r
    <3>8. Banned(w, Effective(h, w), Slipping(h, w))'
      <4>1. /\ Effective(h, w)' = IF r.row.status = "" THEN user[w].status ELSE r.row.status
            /\ Slipping(h, w)' <=> w \in Slips(r.op, w, r.row)
        BY <3>7 DEF Effective, Slipping, Slips
      <4>2. CASE r.row.status = "disabled" \/ r.op \in {"remove", "delete"}
        <5>1. w \in blackList' /\ Effective(h, w)' \in {"disabled", "deleted"}
          BY <3>6, <3>7, <4>1, <4>2 DEF Blacklisting
        <5>2. QED
          BY <5>1 DEF Banned
      <4>3. CASE r.row.status = "enabled" /\ r.op \notin {"remove", "delete"}
        <5>1. w \notin blackList' /\ Effective(h, w)' = "enabled"
          BY <3>7, <4>1, <4>3 DEF Blacklisting
        <5>2. QED
          BY <5>1 DEF Banned
      <4>4. CASE r.row.status = "" /\ r.op \notin {"remove", "delete"}
        <5>1. blackList' = blackList /\ Effective(h, w)' = user[w].status /\ (Slipping(h, w)' <=> w \in slipped)
          BY <3>7, <4>1, <4>4 DEF Blacklisting, Slips
        <5>2. QED
          BY <3>5, <5>1 DEF Banned
      <4>5. CASE r.row.status = "deleted" /\ r.op = "update"
        <5>1. Effective(h, w)' = "deleted" /\ Slipping(h, w)'
          BY <4>1, <4>5 DEF Slips
        <5>2. QED
          BY <5>1 DEF Banned
      <4>6. CASE r.row.status = "deleted" /\ r.op \in {"manage", "save"}
        <5>1. /\ blackList' = blackList /\ Effective(h, w)' = "deleted" /\ (Slipping(h, w)' <=> w \in slipped)
              /\ user[w].status = "deleted"
          BY <3>6, <3>7, <4>1, <4>6 DEF Blacklisting, Slips
        <5>2. QED
          BY <3>5, <5>1 DEF Banned
      <4>7. QED
        BY <3>6, <4>2, <4>3, <4>4, <4>5, <4>6
    <3>9. QED
      BY <3>3, <3>4, <3>8 DEF BansInHand
  <2>6. QED
    BY <2>4, <2>5
<1>8. ASSUME NEW h \in Handling, NEW u \in Registered, WritesRow(h, u)
      PROVE  BansInHand(w)'
  <2>1. /\ \A m \in Handling \ {h} : request'[m] = request[m]
        /\ \/ request'[h] = Ready
           \/ /\ request[h].op = "remove" /\ request'[h].op = "remove" /\ request'[h].pc = "again"
              /\ request'[h].who = request[h].who /\ request'[h].row = request[h].row
    BY <1>1, <1>8, WritingEnds
  <2>2. /\ u \in User /\ user'[u] = Written(user[u], request[h].row)
        /\ \A x \in User \ {u} : user'[x] = user[x]
    BY <1>1, <1>8, Writes DEF WritesRow
  <2>3. request[h].who = {u} /\ request[h].pc \in {"write", "again"} /\ blackList' = blackList
    BY <1>1, <1>8 DEF WritesRow, Holding
  <2>4. CASE w # u
    <3>1. w \in Registered /\ user'[w] = user[w] /\ (w \in slipped <=> w \in slipped')
      BY <1>4, <1>8, <2>2, <2>4 DEF Registered, WritesRow, Slips
    <3>2. \A k \in Handling : /\ Writing(k, w)' <=> Writing(k, w)
                              /\ Writing(k, w) => request'[k].row = request[k].row /\ request'[k].op = request[k].op
      BY <2>1, <2>3, <2>4, ReadyIsState DEF Writing
    <3>3. QED
      BY <1>5, <2>3, <3>1, <3>2
  <2>5. CASE w = u
    <3>1. \A k \in Handling : k # h => w \notin request[k].who
      BY <1>8, <2>5 DEF WritesRow, Others
    <3>2. \A k \in Handling : Writing(k, w)' => k = h
      BY <2>1, <3>1 DEF Writing
    <3>3. Writing(h, w)
      BY <2>3, <2>5 DEF Writing
    <3>4. Banned(w, Effective(h, w), Slipping(h, w))
      BY <1>3, <2>5, <3>3 DEF BansInHand
    <3>5. user'[w].status = Effective(h, w) /\ (w \in slipped' <=> Slipping(h, w))
      <4>1. Written(user[w], request[h].row).status = Effective(h, w)
        BY DEF Written, Effective
      <4>2. slipped' = Slips(request[h].op, w, request[h].row)
        BY <1>8, <2>5 DEF WritesRow
      <4>3. QED
        BY <2>2, <2>5, <4>1, <4>2 DEF Slipping
    <3>6. Banned(w, user[w].status, w \in slipped)'
      BY <2>3, <3>4, <3>5 DEF Banned
    <3>7. CASE request'[h] = Ready
      <4>1. ~Writing(h, w)'
        BY <3>7, ReadyIsState DEF Writing
      <4>2. QED
        BY <3>2, <3>6, <4>1 DEF BansInHand
    <3>8. CASE /\ request[h].op = "remove" /\ request'[h].op = "remove" /\ request'[h].pc = "again"
               /\ request'[h].who = request[h].who /\ request'[h].row = request[h].row
      <4>1. Writing(h, w)'
        BY <2>3, <2>5, <3>8 DEF Writing
      <4>2. request[h].row.status = "deleted"
        BY <1>1, <3>8 DEF Holding
      <4>3. Effective(h, w) = "deleted" /\ Effective(h, w)' = "deleted" /\ (Slipping(h, w)' => Slipping(h, w)) /\ ~Slipping(h, w)
        BY <3>5, <3>8, <4>2 DEF Effective, Slipping, Slips
      <4>4. Banned(w, Effective(h, w), Slipping(h, w))'
        BY <2>3, <3>4, <4>3 DEF Banned
      <4>5. QED
        BY <3>2, <4>1, <4>4 DEF BansInHand
    <3>9. QED
      BY <2>1, <3>7, <3>8
  <2>6. QED
    BY <2>4, <2>5
<1>9. ASSUME NEW h \in Handling, NEW u \in Registered, Adds(h, u)
      PROVE  BansInHand(w)'
  <2>1. /\ \A m \in Handling \ {h} : request'[m] = request[m]
        /\ \/ request'[h] = request[h]
           \/ request'[h] = Ready
           \/ request'[h].pc = "inviter"
    BY <1>1, <1>9, AddingGoesOn
  <2>2. /\ request[h].pc \in {"ready", "invitee", "inviter"} /\ blackList' = blackList /\ slipped' = slipped
        /\ user'[w].status = user[w].status
        /\ \A x \in User \ {u} : user'[x] = user[x]
    BY <1>4, <1>9 DEF Adds
  <2>3. ~Writing(h, w) /\ ~Writing(h, w)'
    BY <2>1, <2>2, ReadyIsState DEF Writing
  <2>4. \A k \in Handling : /\ Writing(k, w)' <=> Writing(k, w)
                            /\ Writing(k, w) => request'[k].row = request[k].row /\ request'[k].op = request[k].op
    BY <2>1, <2>3 DEF Writing
  <2>5. w \in Registered
    BY <1>4, <2>2 DEF Registered
  <2>6. QED
    BY <1>5, <2>2, <2>4, <2>5
<1>10. ASSUME NEW h \in Handling, NEW u \in User, NEW row, Registers(h, u, row)
       PROVE  BansInHand(w)'
  <2>1. /\ \A k \in Handling \ {h} : request'[k] = request[k]
        /\ request'[h] = request[h] \/ request'[h].pc = "invitee"
        /\ \A x \in User \ {u} : user'[x] = user[x]
        /\ user'[u] = row /\ row.status = "enabled" /\ Registered' = Registered \cup {u}
    BY <1>1, <1>10, Registering
  <2>2. request[h].pc = "ready" /\ blackList' = blackList /\ u \notin Registered /\ slipped' = slipped
    BY <1>10 DEF Registers
  <2>3. ~Writing(h, w) /\ ~Writing(h, w)'
    BY <2>1, <2>2 DEF Writing
  <2>4. \A k \in Handling : /\ Writing(k, w)' <=> Writing(k, w)
                            /\ Writing(k, w) => request'[k].row = request[k].row /\ request'[k].op = request[k].op
    BY <2>1, <2>3 DEF Writing
  <2>5. CASE w # u
    BY <1>4, <1>5, <2>1, <2>2, <2>4, <2>5
  <2>6. CASE w = u
    <3>1. \A k \in Handling : ~Writing(k, w)'
      BY <1>1, <2>2, <2>4, <2>6 DEF Writing, Holding
    <3>2. w \notin blackList
      BY <1>1, <2>2, <2>6 DEF AccountsTypeOK, Registered
    <3>3. QED
      BY <2>1, <2>2, <2>6, <3>1, <3>2 DEF BansInHand, Banned
  <2>7. QED
    BY <2>5, <2>6
<1>11. ASSUME Restart
       PROVE  BansInHand(w)'
  BY <1>11 DEF Restart, Registered
<1>12. ASSUME UNCHANGED <<user, blackList, request, decided, lost, mixed, slipped>>
       PROVE  BansInHand(w)'
  BY <1>5, <1>12 DEF Writing, Registered
<1>13. QED
  BY <1>6, <1>7, <1>8, <1>9, <1>10, <1>11, <1>12, AccountsSteps

LEMMA AccountsInitial ==
  ASSUME AccountsAssumption, AccountsInit
  PROVE  AccountsInv
<1>1. /\ userMix \in UserMixes /\ user = UserRows /\ decided = UserRows
      /\ blackList = {u \in User : user[u].status \in {"disabled", "deleted"}}
      /\ session = [u \in User |-> IF user[u].status = "enabled" THEN user[u].role ELSE 0]
      /\ request = [h \in Handling |-> Ready] /\ requests = 0 /\ restarts = 0 /\ lost = {} /\ mixed = {} /\ slipped = {}
  BY DEF AccountsInit
<1>2. user \in [User -> UserRow] /\ \A u \in User : InTable(user[u])
  BY <1>1 DEF AccountsAssumption
<1>3. NoUser.status = ""
  BY DEF NoUser
<1>4. blackList \subseteq Registered
  BY <1>1, <1>3 DEF Registered
<1>5. session \in [User -> {0} \cup Roles]
  BY <1>1, <1>2 DEF UserRow
<1>6. \A h \in Handling : request[h] = Ready
  BY <1>1
<1>7. AccountsTypeOK
  BY <1>1, <1>2, <1>4, <1>5, ReadyIsState DEF AccountsTypeOK, AccountsAssumption, Registered
<1>8. \A h \in Handling : Holding(h) /\ CopyStands(h) /\ RankStands(h)
  BY <1>6, ReadyIsState DEF Holding, CopyStands, RankStands, InRow, Copying
<1>9. ASSUME NEW u \in Registered
      PROVE  BansInHand(u)
  <2>1. u \in User /\ user[u] \in UserRow /\ user[u].status # ""
    BY <1>2 DEF Registered, InTable
  <2>2. user[u].status \in {"enabled", "disabled", "deleted"}
    BY <2>1 DEF UserRow
  <2>3. \A h \in Handling : ~Writing(h, u)
    BY <1>6, ReadyIsState DEF Writing
  <2>4. Banned(u, user[u].status, u \in slipped)
    BY <1>1, <2>1, <2>2 DEF Banned
  <2>5. QED
    BY <2>3, <2>4 DEF BansInHand
<1>10. RowIsDecided
  BY <1>1 DEF RowIsDecided
<1>11. QED
  BY <1>7, <1>8, <1>9, <1>10 DEF AccountsInv

LEMMA AccountsInvariant == AccountsSpec => []AccountsInv
<1>1. AccountsInit => AccountsInv
  BY AccountsInitial, AccountsAssumption
<1>2. AccountsInv /\ [AccountsNext]_accountVars => AccountsInv'
  <2> SUFFICES ASSUME AccountsInv, [AccountsNext]_accountVars
               PROVE  AccountsInv'
    OBVIOUS
  <2>1. CASE AccountsNext
    <3>1. AccountsTypeOK'
      BY <2>1, AccountsAssumption, AccountsTypesStep
    <3>2. RowIsDecided' /\ \A h \in Handling : CopyStands(h)'
      BY <2>1, AccountsAssumption, DecidedStep
    <3>3. \A h \in Handling : Holding(h)' /\ RankStands(h)'
      BY <2>1, AccountsAssumption, HoldingStep, RanksStep
    <3>4. \A u \in (Registered \ mixed)' : BansInHand(u)'
      BY <2>1, AccountsAssumption, BansStep
    <3>5. QED
      BY <3>1, <3>2, <3>3, <3>4 DEF AccountsInv
  <2>2. CASE UNCHANGED accountVars
    <3>1. UNCHANGED <<userMix, user, blackList, session, request, requests, restarts, decided, lost, mixed, slipped>>
      BY <2>2 DEF accountVars
    <3>2. AccountsTypeOK' /\ RowIsDecided' /\ Registered' = Registered
      BY <3>1 DEF AccountsInv, AccountsTypeOK, RowIsDecided, Registered
    <3>3. ASSUME NEW h \in Handling
          PROVE  Holding(h)' /\ CopyStands(h)' /\ RankStands(h)'
      <4>1. Holding(h) /\ CopyStands(h) /\ RankStands(h)
        BY DEF AccountsInv
      <4>2. Holding(h)'
        BY <3>1, <3>2, <4>1 DEF Holding
      <4>3. CopyStands(h)'
        BY <3>1, <4>1 DEF CopyStands
      <4>4. RankStands(h)'
        BY <3>1, <4>1 DEF RankStands
      <4>5. QED
        BY <4>2, <4>3, <4>4
    <3>4. ASSUME NEW u \in Registered \ mixed
          PROVE  BansInHand(u)'
      <4>1. BansInHand(u)
        BY DEF AccountsInv
      <4>2. \A h \in Handling : Effective(h, u)' = Effective(h, u) /\ (Slipping(h, u)' <=> Slipping(h, u))
        BY <3>1 DEF Effective, Slipping, Slips
      <4>3. \A h \in Handling : Writing(h, u)' <=> Writing(h, u)
        BY <3>1 DEF Writing
      <4>4. QED
        BY <3>1, <4>1, <4>2, <4>3 DEF BansInHand, Banned
    <3>5. QED
      BY <3>1, <3>2, <3>3, <3>4 DEF AccountsInv
  <2>3. QED
    BY <2>1, <2>2
<1>3. QED
  BY <1>1, <1>2, PTL DEF AccountsSpec

\* A user's row is what administrators decided and calls charged, unless a copy of it was written over it
\* (ManageUser, UpdateUser, GenerateAccessToken, EmailBind, IncreaseUserQuota).
THEOREM RowAsDecided == AccountsSpec => []RowIsDecided
<1>1. AccountsInv => RowIsDecided
  BY DEF AccountsInv
<1>2. QED
  BY <1>1, AccountsInvariant, PTL

\* Between requests nobody who is enabled is on the blacklist of the process, and who is disabled or was
\* deleted by Delete is on it, unless two requests wrote the user together or the process was restarted; a
\* user an administrator's form deletes is not banned (User.Update, User.Delete, blacklist.go).
THEOREM BlacklistAsWritten == AccountsSpec => []BlacklistAgrees
<1>1. AccountsInv => BlacklistAgrees
  <2> SUFFICES ASSUME AccountsInv, NEW u \in Registered \ mixed, \A h \in Handling : u \notin request[h].who
               PROVE  /\ u \in blackList => user[u].status # "enabled"
                      /\ user[u].status = "disabled" \/ (user[u].status = "deleted" /\ u \notin slipped) => u \in blackList
    BY DEF BlacklistAgrees
  <2>1. \A h \in Handling : ~Writing(h, u)
    BY DEF Writing
  <2>2. QED
    BY <2>1 DEF AccountsInv, BansInHand, Banned
<1>2. QED
  BY <1>1, AccountsInvariant, PTL

\* Only a root user, or it itself, changes the status or the role of an administrator, unless two requests
\* wrote it together (ManageUser, UpdateUser, DeleteUser).
THEOREM PeersLeftAlone == AccountsSpec => PeersStand
<1> DEFINE Step ==
      \A u \in User \ mixed :
        (/\ user[u].role >= RoleAdminUser
         /\ user'[u].status # user[u].status \/ user'[u].role # user[u].role)
        => \E h \in Handling : u \in request[h].who /\ (request[h].rank = RoleRootUser \/ request[h].own)
<1>1. AccountsInv /\ [AccountsNext]_accountVars => [Step]_accountVars
  <2> SUFFICES ASSUME AccountsInv, AccountsNext, NEW w \in User \ mixed,
                      user[w].role >= RoleAdminUser,
                      user'[w].status # user[w].status \/ user'[w].role # user[w].role
               PROVE  \E h \in Handling : w \in request[h].who /\ (request[h].rank = RoleRootUser \/ request[h].own)
    OBVIOUS
  <2>1. AccountsTypeOK /\ \A h \in Handling : Holding(h) /\ RankStands(h)
    BY DEF AccountsInv
  <2>2. user' # user
    OBVIOUS
  <2>3. ASSUME NEW h \in Handling, NEW u \in Registered, WritesRow(h, u)
        PROVE  w \in request[h].who /\ (request[h].rank = RoleRootUser \/ request[h].own)
    <3>1. u = w
      BY <2>1, <2>3, Writes DEF WritesRow
    <3>2. w \in request[h].who /\ request[h].pc \in InRow
      BY <2>3, <3>1 DEF WritesRow, InRow
    <3>3. \/ request[h].rank = RoleRootUser \/ request[h].own \/ user[w].role < RoleAdminUser
      BY <2>1, <3>2 DEF RankStands
    <3>4. user[w].role \in {0, 1, 10, 100}
      <4>1. user[w] \in UserRow
        BY <2>1 DEF AccountsTypeOK
      <4>2. {0} \cup Roles = {0, 1, 10, 100}
        BY DEF Roles, RoleCommonUser, RoleAdminUser, RoleRootUser
      <4>3. QED
        BY <4>1, <4>2 DEF UserRow
    <3>5. QED
      BY <3>2, <3>3, <3>4 DEF RoleAdminUser
  <2>4. ASSUME NEW h \in Handling, NEW u \in Registered, Adds(h, u)
        PROVE  FALSE
    BY <2>4 DEF Adds
  <2>5. ASSUME NEW h \in Handling, NEW u \in User, NEW row, Registers(h, u, row)
        PROVE  FALSE
    <3>1. u = w
      BY <2>1, <2>5, Registering
    <3>2. user[w] = NoUser
      BY <2>5, <3>1 DEF Registers, Registered
    <3>3. NoUser.role = 0
      BY DEF NoUser
    <3>4. QED
      BY <3>2, <3>3 DEF RoleAdminUser
  <2>6. QED
    BY <2>2, <2>3, <2>4, <2>5, AccountsAssumption, AccountsSteps DEF Bans, Restart
<1>2. QED
  BY <1>1, AccountsInvariant, PTL DEF AccountsSpec, PeersStand

-----------------------------------------------------------------------------
(* Identities: invariants.                                                 *)

\* What a handler is after, by its step.
VisitIs(h) ==
  /\ visit[h].pc = "idle" => visit[h] = Waiting
  /\ visit[h].pc \in {"mail", "reset", "forget"} => visit[h].keys \subseteq CodeKey /\ visit[h].code \in 1..codes
  /\ visit[h].pc = "name" => visit[h].keys \subseteq IdKey
  /\ \A j, k \in visit[h].keys : j = k
  /\ visit[h].pc \in {"read", "write"} => visit[h].who \in 1..last
  /\ visit[h].pc \notin {"read", "write"} => visit[h].who = 0
  /\ visit[h].pc # "write" => visit[h].row.id = Nobody.id
  /\ visit[h].pc \notin {"insert", "write"} => visit[h].row = Nobody
  /\ visit[h].pc = "write" => visit[h].row.name = person[visit[h].who].name

\* The code in the map is the one mailed, or was purged for its age or dropped by a reset.
MapAsMailed ==
  \A key \in CodeKey :
    /\ \/ verificationMap[key] = mailed[key]
       \/ verificationMap[key] = NoCode /\ (Old(mailed[key]) \/ mailed[key].code \in dropped)
    /\ mailed[key].code = 0 => mailed[key] = NoCode

\* A code that is still to be mailed is nowhere else.
CodesKnown ==
  /\ \A key \in CodeKey : verificationMap[key].code <= codes
  /\ \A key \in CodeKey, c \in 1..MaxCodes : resets[key][c] > 0 => c <= codes
MailIsNew(h) ==
  visit[h].pc = "mail" =>
    /\ \A key \in CodeKey : verificationMap[key].code # visit[h].code /\ resets[key][visit[h].code] = 0
    /\ \A k \in Visitor \ {h} : visit[k].pc \in {"mail", "reset", "forget"} => visit[k].code # visit[h].code

InHand(h, key) == visit[h].pc \in {"reset", "forget"} /\ key \in visit[h].keys

\* A code of which nobody else is in need, and that reset a password, is being deleted or gone.
ResetInHand(key) ==
  /\ \A h, k \in Visitor : InHand(h, key) /\ InHand(k, key) => h = k
  /\ \A c \in 1..MaxCodes : resets[key][c] > 0 =>
       /\ resets[key][c] = 1
       /\ verificationMap[key].code = c =>
            \E h \in Visitor : InHand(h, key) /\ visit[h].pc = "forget" /\ visit[h].code = c
  /\ \A h \in Visitor : InHand(h, key) /\ visit[h].pc = "reset" => resets[key][visit[h].code] = 0

CodesInv ==
  /\ MapAsMailed /\ CodesKnown
  /\ \A h \in Visitor : MailIsNew(h)
  /\ \A key \in CodeKey \ raced : ResetInHand(key)

\* Times are not ahead of the clock.
NotAhead ==
  /\ \A key \in CodeKey : verificationMap[key].at <= minutes
  /\ \A h \in Visitor : visit[h].at <= minutes
  /\ \A u \in Uid : gained[u].checked <= minutes /\ gained[u].written <= minutes

\* An account in hand is nobody's, or two were after it.
InHandFree(h) ==
  \A s \in Site, x \in Account : <<s, x>> \in visit[h].keys \ raced => \A u \in Uid : person[u].id[s] # x

\* A copy of a row still says whose account and whose address is whose.
CopyIsTrue(h) ==
  visit[h].pc = "write" =>
    /\ \A s \in Site : visit[h].row.id[s] # NoAccount /\ <<s, visit[h].row.id[s]>> \notin raced
                         => person[visit[h].who].id[s] = visit[h].row.id[s]
    /\ visit[h].row.email # NoEmail /\ <<"v", visit[h].row.email>> \notin raced
         => person[visit[h].who].email = visit[h].row.email

\* Of an address that w has no code is about to be mailed; the last one was mailed before w had it, and who
\* checked it is within its life.
MailedBefore(e, w) ==
  LET key == <<"v", e>> IN
  /\ \A h \in Visitor : visit[h].pc = "mail" => key \notin visit[h].keys
  /\ verificationMap[key] # NoCode => verificationMap[key].at <= gained[w].written
  /\ \A h \in Visitor : visit[h].pc \in {"insert", "read", "write"} /\ key \in visit[h].keys
       => visit[h].at - gained[w].written < VerificationValidMinutes

PeopleInv ==
  /\ NotAhead /\ OneUserPerAccount /\ SharedOnlyByCode
  /\ \A h \in Visitor : InHandFree(h) /\ CopyIsTrue(h)
  /\ \A e \in Email, w \in Uid : <<"v", e>> \notin raced /\ person[w].email = e => MailedBefore(e, w)

IdentitiesInv == IdentitiesTypeOK /\ (\A h \in Visitor : VisitIs(h)) /\ CodesInv /\ PeopleInv

-----------------------------------------------------------------------------
(* Identities: proofs.                                                     *)

LEMMA KeysAre ==
  /\ \A e \in Email : <<"v", e>> \in CodeKey /\ <<"r", e>> \in CodeKey
  /\ \A s \in Site, x \in Account : <<s, x>> \in IdKey
  /\ \A k \in CodeKey : k[1] \in Purpose /\ k[2] \in Email /\ k = <<k[1], k[2]>>
  /\ \A k \in IdKey : k[1] \in Site /\ k[2] \in Account /\ k = <<k[1], k[2]>>
  /\ "v" \notin Site /\ "r" \notin Site /\ "v" \in Purpose
  /\ CodeKey \subseteq Key /\ IdKey \subseteq Key
  /\ \A k \in Key : k \in CodeKey \/ k \in IdKey
BY DEF Key, CodeKey, IdKey, Purpose, Site

\* A row with what a handler is after.
LEMMA WithRow ==
  ASSUME NEW row \in Person, NEW keys \in SUBSET Key, \A j, k \in keys : j = k
  PROVE  /\ With(row, keys) \in Person /\ With(row, keys).name = row.name
         /\ \/ With(row, keys).email = row.email
            \/ With(row, keys).email \in Email /\ <<"v", With(row, keys).email>> \in keys
         /\ \A s \in Site : \/ With(row, keys).id[s] = row.id[s]
                            \/ With(row, keys).id[s] \in Account /\ <<s, With(row, keys).id[s]>> \in keys
         /\ \A s \in Site, x \in Account : <<s, x>> \in keys => With(row, keys).id[s] = x
<1> DEFINE email == IF \E k \in keys : k[1] = "v" THEN (CHOOSE k \in keys : k[1] = "v")[2] ELSE row.email
           id == [s \in Site |-> IF \E x \in Account : <<s, x>> \in keys
                                 THEN CHOOSE x \in Account : <<s, x>> \in keys ELSE row.id[s]]
<1>1. row.email \in Email \cup {NoEmail} /\ row.id \in [Site -> Account \cup {NoAccount}]
  BY DEF Person
<1>2. email = row.email \/ (email \in Email /\ <<"v", email>> \in keys)
  <2>1. CASE \E k \in keys : k[1] = "v"
    <3> DEFINE c == CHOOSE k \in keys : k[1] = "v"
    <3>1. c \in keys /\ c[1] = "v"
      BY <2>1
    <3> HIDE DEF c
    <3>2. c \in CodeKey
      BY <3>1, KeysAre
    <3>3. c[2] \in Email /\ c = <<"v", c[2]>>
      BY <3>1, <3>2, KeysAre
    <3>4. email = c[2]
      BY <2>1 DEF c
    <3>5. QED
      BY <3>1, <3>3, <3>4
  <2>2. CASE ~\E k \in keys : k[1] = "v"
    BY <2>2
  <2>3. QED
    BY <2>1, <2>2
<1>3. ASSUME NEW s \in Site
      PROVE  /\ id[s] = row.id[s] \/ (id[s] \in Account /\ <<s, id[s]>> \in keys)
             /\ \A x \in Account : <<s, x>> \in keys => id[s] = x
  <2>1. CASE \E x \in Account : <<s, x>> \in keys
    <3>1. id[s] = CHOOSE x \in Account : <<s, x>> \in keys
      BY <2>1
    <3>2. id[s] \in Account /\ <<s, id[s]>> \in keys
      BY <2>1, <3>1
    <3> HIDE DEF id
    <3>3. ASSUME NEW x \in Account, <<s, x>> \in keys
          PROVE  id[s] = x
      <4>1. <<s, x>> = <<s, id[s]>>
        BY <3>2, <3>3
      <4>2. QED
        BY <4>1
    <3>4. QED
      BY <3>2, <3>3
  <2>2. CASE ~\E x \in Account : <<s, x>> \in keys
    BY <2>2
  <2>3. QED
    BY <2>1, <2>2
<1>4. id \in [Site -> Account \cup {NoAccount}]
  <2>1. \A s \in Site : id[s] \in Account \cup {NoAccount}
    BY <1>1, <1>3
  <2>2. id = [s \in Site |-> id[s]]
    OBVIOUS
  <2> HIDE DEF id
  <2>3. QED
    BY <2>1, <2>2
<1>5. With(row, keys) = [row EXCEPT !.email = email, !.id = id]
  BY DEF With, Person
<1>6. email \in Email \cup {NoEmail}
  BY <1>1, <1>2
<1> HIDE DEF email, id
<1>7. /\ With(row, keys) \in Person /\ With(row, keys).name = row.name /\ With(row, keys).email = email
      /\ With(row, keys).id = id
  BY <1>4, <1>5, <1>6 DEF Person
<1>8. QED
  BY <1>2, <1>3, <1>7

LEMMA NobodyIsPerson ==
  Nobody \in Person /\ Nobody.email = NoEmail /\ (\A s \in Site : Nobody.id[s] = NoAccount) /\ Nobody.name = <<"own", 0>>
BY DEF Nobody, Person

LEMMA WaitingIsState ==
  ASSUME IdentitiesAssumption
  PROVE  /\ Waiting \in VisitState
         /\ Waiting.pc = "idle" /\ Waiting.who = 0 /\ Waiting.keys = {} /\ Waiting.at = 0 /\ Waiting.row = Nobody
<1>1. MaxCodes \in Nat
  BY DEF IdentitiesAssumption
<1> HIDE DEF Nobody, Person
<1>2. Nobody \in Person
  BY NobodyIsPerson
<1>3. QED
  BY <1>1, <1>2 DEF Waiting, VisitState

\* A handler that goes to another state.
LEMMA VisitGoes ==
  ASSUME IdentitiesTypeOK, NEW h \in Visitor, NEW v \in VisitState, visit' = [visit EXCEPT ![h] = v]
  PROVE  visit' \in [Visitor -> VisitState] /\ visit'[h] = v /\ \A k \in Visitor \ {h} : visit'[k] = visit[k]
BY DEF IdentitiesTypeOK

\* One that begins.
LEMMA Enters ==
  ASSUME IdentitiesAssumption, IdentitiesTypeOK, NEW h \in Visitor, NEW pc, NEW who, NEW keys, NEW code, Visits(h, pc, who, keys, code),
         pc \in {"mail", "read", "insert", "name", "reset"}, who \in Uid \cup {0}, keys \subseteq Key,
         code \in 0..MaxCodes
  PROVE  /\ visit[h].pc = "idle" /\ visit' \in [Visitor -> VisitState]
         /\ visit'[h].pc = pc /\ visit'[h].who = who /\ visit'[h].keys = keys /\ visit'[h].code = code
         /\ visit'[h].at = minutes /\ visit'[h].row = Nobody
         /\ \A k \in Visitor \ {h} : visit'[k] = visit[k]
         /\ visits' \in 0..MaxVisits
<1> DEFINE v == [pc |-> pc, who |-> who, keys |-> keys, code |-> code, at |-> minutes, row |-> Nobody]
<1>1. visit' = [visit EXCEPT ![h] = v]
  BY DEF Visits
<1>2. minutes \in Nat
  BY DEF IdentitiesTypeOK, IdentitiesAssumption
<1>3. v \in VisitState
  BY <1>2, NobodyIsPerson DEF VisitState
<1>4. v.pc = pc /\ v.who = who /\ v.keys = keys /\ v.code = code /\ v.at = minutes /\ v.row = Nobody
  OBVIOUS
<1> HIDE DEF v
<1>5. visits' \in 0..MaxVisits
  BY SMTT(30) DEF Visits, IdentitiesTypeOK, IdentitiesAssumption
<1>6. visit[h].pc = "idle"
  BY DEF Visits
<1>7. QED
  BY <1>1, <1>3, <1>4, <1>5, <1>6, VisitGoes

\* The row of a user that becomes another: its type, its name, what it spoils.
LEMMA BecomesTyped ==
  ASSUME IdentitiesAssumption, IdentitiesTypeOK, NEW h \in Visitor, NEW u \in Uid, NEW row \in Person,
         NEW unchecked \in SUBSET Key, Becomes(h, u, row, unchecked),
         row.name # Nobody.name => \A w \in Uid \ {u} : person[w].name # row.name
  PROVE  /\ person' \in [Uid -> Person] /\ person'[u] = row /\ \A w \in Uid \ {u} : person'[w] = person[w]
         /\ \A w, x \in Uid : w # x /\ person'[w].name = person'[x].name => person'[w].name = Nobody.name
         /\ gained' \in [Uid -> [checked: Nat, written: Nat]]
         /\ \A w \in Uid \ {u} : gained'[w] = gained[w]
         /\ row.email = person[u].email => gained'[u] = gained[u]
         /\ row.email # person[u].email => gained'[u].checked = visit[h].at /\ gained'[u].written = minutes
         /\ raced \subseteq raced' /\ raced' \subseteq Key /\ unasked' \subseteq Uid \X Key
<1>1. person' = [person EXCEPT ![u] = row] /\ person \in [Uid -> Person]
  BY DEF Becomes, IdentitiesTypeOK
<1>2. person' \in [Uid -> Person] /\ person'[u] = row /\ \A w \in Uid \ {u} : person'[w] = person[w]
  BY <1>1
<1>3. ASSUME NEW w \in Uid, NEW x \in Uid, w # x, person'[w].name = person'[x].name
      PROVE  person'[w].name = Nobody.name
  <2>1. CASE w = u
    BY <1>2, <1>3, <2>1
  <2>2. CASE x = u
    BY <1>2, <1>3, <2>2
  <2>3. CASE w # u /\ x # u
    <3>1. person[w].name = person[x].name => person[w].name = Nobody.name
      BY <1>3 DEF IdentitiesTypeOK
    <3>2. QED
      BY <1>2, <1>3, <2>3, <3>1
  <2>4. QED
    BY <2>1, <2>2, <2>3
<1>4. visit[h].at \in Nat /\ minutes \in Nat
  BY DEF IdentitiesTypeOK, VisitState, IdentitiesAssumption
<1> DEFINE g == [checked |-> visit[h].at, written |-> minutes]
<1>5. g \in [checked: Nat, written: Nat] /\ g.checked = visit[h].at /\ g.written = minutes
  BY <1>4
<1>6. gained' = IF row.email = person[u].email THEN gained ELSE [gained EXCEPT ![u] = g]
  BY DEF Becomes
<1> HIDE DEF g
<1>7. /\ gained' \in [Uid -> [checked: Nat, written: Nat]]
      /\ \A w \in Uid \ {u} : gained'[w] = gained[w]
      /\ row.email = person[u].email => gained'[u] = gained[u]
      /\ row.email # person[u].email => gained'[u] = g
  BY <1>5, <1>6 DEF IdentitiesTypeOK
<1>8. raced \subseteq raced' /\ raced' \subseteq Key /\ unasked' \subseteq Uid \X Key
  <2>1. Gains(u, row) \subseteq Key /\ Contested(h, u, row) \subseteq Key
    BY DEF Gains, Contested
  <2>2. raced \subseteq Key /\ unasked \subseteq Uid \X Key
    BY DEF IdentitiesTypeOK
  <2> HIDE DEF Gains, Contested, Columns, Key
  <2>3. {u} \X (Gains(u, row) \cap unchecked) \subseteq Uid \X Key
    BY <2>1
  <2>4. unasked' = {a \in unasked : a[1] = u => a[2] \in Columns(row)} \cup {u} \X (Gains(u, row) \cap unchecked)
    BY DEF Becomes
  <2>5. raced' = raced \cup Contested(h, u, row)
    BY DEF Becomes
  <2>6. QED
    BY <2>1, <2>2, <2>3, <2>4, <2>5
<1>9. QED
  BY <1>2, <1>3, <1>5, <1>7, <1>8

\* What a row that becomes another spoils for the other handlers.
LEMMA Spoils ==
  ASSUME NEW h \in Visitor, NEW u \in Uid, NEW row \in Person, NEW unchecked, Becomes(h, u, row, unchecked),
         NEW key \in Key, key \notin raced', NEW k \in Visitor \ {h}
  PROVE  /\ key \in Gains(u, row) => key \notin visit[k].keys
         /\ visit[k].who = u /\ key \in Columns(visit[k].row) => key \in Columns(row)
<1>1. key \notin Contested(h, u, row)
  BY DEF Becomes
<1> HIDE DEF Columns, Gains, Key
<1>2. k \in Rivals(h)
  BY DEF Rivals
<1>3. key \in Gains(u, row) => key \notin visit[k].keys
  BY <1>1, <1>2 DEF Contested
<1>4. visit[k].who = u /\ key \in Columns(visit[k].row) => key \in Columns(row)
  BY <1>1, <1>2 DEF Contested
<1>5. QED
  BY <1>3, <1>4

\* Who has something unasked: whoever gains it so, and whoever had it so and keeps it.
LEMMA StaysUnasked ==
  ASSUME NEW h \in Visitor, NEW u \in Uid, NEW row, NEW unchecked, Becomes(h, u, row, unchecked), NEW key
  PROVE  /\ \A w \in Uid \ {u} : <<w, key>> \in unasked => <<w, key>> \in unasked'
         /\ <<u, key>> \in unasked /\ key \in Columns(row) => <<u, key>> \in unasked'
         /\ key \in Gains(u, row) /\ key \in unchecked => <<u, key>> \in unasked'
<1> HIDE DEF Columns, Gains
<1>1. unasked' = {a \in unasked : a[1] = u => a[2] \in Columns(row)} \cup {u} \X (Gains(u, row) \cap unchecked)
  BY DEF Becomes
<1>2. QED
  BY <1>1

LEMMA ColumnsAre ==
  ASSUME NEW row
  PROVE  /\ <<"v", row.email>> \in Columns(row) /\ \A s \in Site : <<s, row.id[s]>> \in Columns(row)
         /\ \A x : <<"v", x>> \in Columns(row) => x = row.email
         /\ \A s \in Site : \A x : <<s, x>> \in Columns(row) => x = row.id[s]
BY KeysAre DEF Columns

\* A row gains what it has and the old one has not.
LEMMA GainsAre ==
  ASSUME NEW u, NEW row
  PROVE  /\ \A e \in Email : row.email = e => (<<"v", e>> \in Gains(u, row) <=> e # person[u].email)
         /\ \A s \in Site, x \in Account : row.id[s] = x => (<<s, x>> \in Gains(u, row) <=> x # person[u].id[s])
<1>1. ASSUME NEW e \in Email, row.email = e
      PROVE  <<"v", e>> \in Gains(u, row) <=> e # person[u].email
  <2>1. <<"v", e>> \in Key
    BY KeysAre
  <2>2. QED
    BY <1>1, <2>1, ColumnsAre DEF Gains
<1>2. ASSUME NEW s \in Site, NEW x \in Account, row.id[s] = x
      PROVE  <<s, x>> \in Gains(u, row) <=> x # person[u].id[s]
  <2>1. <<s, x>> \in Key
    BY KeysAre
  <2>2. QED
    BY <1>2, <2>1, ColumnsAre DEF Gains
<1>3. QED
  BY <1>1, <1>2

-----------------------------------------------------------------------------
(* Identities: the steps, by what they do to the handler.                  *)

OtherVisits(h) == \A k \in Visitor \ {h} : visit'[k] = visit[k]

Began(h, key) ==
  /\ visit[h].pc = "idle" /\ visit' \in [Visitor -> VisitState] /\ OtherVisits(h)
  /\ visit'[h].keys = {key} /\ visit'[h].at = minutes /\ visit'[h].row = Nobody
  /\ visits' \in 0..MaxVisits /\ codes' \in codes..MaxCodes /\ raced \subseteq raced' /\ raced' \subseteq Key
  /\ UNCHANGED <<offered, minutes, person, last, verificationMap, gained, mailed, resets, dropped, unasked>>

MailBegun(h, key) ==
  /\ key \in CodeKey /\ visit'[h].pc = "mail" /\ visit'[h].who = 0
  /\ codes' = codes + 1 /\ visit'[h].code = codes + 1 /\ raced' = raced
  /\ key[1] = "v" => \A u \in Uid : person[u].email # key[2]

CodeBegun(h, key) ==
  /\ key \in {"v"} \X Email
  /\ (visit'[h].pc = "insert" /\ visit'[h].who = 0) \/ (visit'[h].pc = "read" /\ visit'[h].who \in 1..last)
  /\ verificationMap[key] # NoCode /\ ~Old(verificationMap[key])
  /\ codes' = codes /\ raced' = raced

ResetBegun(h, key) ==
  /\ key \in CodeKey /\ visit'[h].pc = "reset" /\ visit'[h].who = 0 /\ visit'[h].code \in 1..codes
  /\ VerifyCodeWithKey(key, visit'[h].code)
  /\ codes' = codes
  /\ \A k \in Visitor \ {h} : InHand(k, key) => key \in raced'

SiteBegun(h, key) ==
  /\ key \in IdKey
  /\ (visit'[h].pc = "name" /\ visit'[h].who = 0) \/ (visit'[h].pc = "read" /\ visit'[h].who \in 1..last)
  /\ \A u \in Uid : person[u].id[key[1]] # key[2]
  /\ codes' = codes /\ raced' = raced

SetsOut(h) == \E key \in Key :
  Began(h, key) /\ (MailBegun(h, key) \/ CodeBegun(h, key) \/ ResetBegun(h, key) \/ SiteBegun(h, key))

LEMMA VisitorBegins ==
  ASSUME IdentitiesAssumption, IdentitiesTypeOK, NEW h \in Visitor,
         \/ SendMail(h) \/ UseCode(h) \/ UseReset(h) \/ \E s \in Site : FirstLogin(h, s) \/ Binds(h, s)
  PROVE  SetsOut(h)
<1> USE DEF OtherVisits
<1>0. /\ codes \in 0..MaxCodes /\ MaxCodes \in Nat /\ last \in Uid \cup {0} /\ 0 \in Uid \cup {0}
      /\ raced \subseteq Key
  BY DEF IdentitiesTypeOK, IdentitiesAssumption
<1>00. 1..last \subseteq Uid
  BY <1>0 DEF Uid, IdentitiesAssumption
<1>1. CASE SendMail(h)
  <2>1. PICK p \in Purpose, e \in Email :
          /\ codes < MaxCodes /\ codes' = codes + 1
          /\ IF p = "v" THEN ~IsEmailAlreadyTaken(e) ELSE IsEmailAlreadyTaken(e)
          /\ Visits(h, "mail", 0, {<<p, e>>}, codes + 1)
          /\ UNCHANGED <<offered, minutes, person, last, verificationMap, identityHistory>>
    BY <1>1 DEF SendMail
  <2> DEFINE key == <<p, e>>
  <2>2. key \in CodeKey /\ key \in Key /\ key[1] = p /\ key[2] = e
    BY KeysAre DEF CodeKey
  <2> HIDE DEF key
  <2>3. codes + 1 \in 0..MaxCodes
    BY <1>0, <2>1
  <2>4. Visits(h, "mail", 0, {key}, codes + 1)
    BY <2>1 DEF key
  <2>5. Began(h, key)
    BY <1>0, <2>1, <2>2, <2>3, <2>4, Enters DEF Began, identityHistory
  <2>6. MailBegun(h, key)
    BY <1>0, <2>1, <2>2, <2>3, <2>4, Enters DEF MailBegun, identityHistory, IsEmailAlreadyTaken
  <2>7. QED
    BY <2>2, <2>5, <2>6 DEF SetsOut
<1>2. CASE UseCode(h)
  <2>1. PICK e \in Email, c \in 1..codes, u \in 0..last :
          /\ VerifyCodeWithKey(<<"v", e>>, c)
          /\ Visits(h, IF u = 0 THEN "insert" ELSE "read", u, {<<"v", e>>}, c)
          /\ UNCHANGED <<offered, minutes, person, last, verificationMap, codes, identityHistory>>
    BY <1>2 DEF UseCode
  <2> DEFINE key == <<"v", e>>  pc == IF u = 0 THEN "insert" ELSE "read"
  <2>2. key \in CodeKey /\ key \in Key /\ key \in {"v"} \X Email
    BY KeysAre
  <2>3. Visits(h, pc, u, {key}, c) /\ VerifyCodeWithKey(key, c)
    BY <2>1
  <2>4. pc \in {"insert", "read"} /\ (pc = "insert" => u = 0) /\ (pc = "read" => u \in 1..last)
    BY <1>0 DEF Uid
  <2> HIDE DEF key, pc
  <2>5. c \in 0..MaxCodes /\ u \in Uid \cup {0}
    BY <1>0, <1>00, <2>4
  <2>6. Began(h, key)
    BY <1>0, <2>1, <2>2, <2>3, <2>4, <2>5, Enters DEF Began, identityHistory
  <2>7. CodeBegun(h, key)
    BY <1>0, <2>1, <2>2, <2>3, <2>4, <2>5, Enters DEF CodeBegun, identityHistory, VerifyCodeWithKey
  <2>8. QED
    BY <2>2, <2>6, <2>7 DEF SetsOut
<1>3. CASE UseReset(h)
  <2>1. PICK e \in Email, c \in 1..codes :
          /\ VerifyCodeWithKey(<<"r", e>>, c)
          /\ Visits(h, "reset", 0, {<<"r", e>>}, c)
          /\ raced' = IF \E k \in Visitor \ {h} : visit[k].pc \in {"reset", "forget"} /\ <<"r", e>> \in visit[k].keys
                      THEN raced \cup {<<"r", e>>} ELSE raced
          /\ UNCHANGED <<offered, minutes, person, last, verificationMap, codes, gained, mailed, resets, dropped, unasked>>
    BY <1>3 DEF UseReset
  <2> DEFINE key == <<"r", e>>
  <2>2. key \in CodeKey /\ key \in Key
    BY KeysAre
  <2>3. /\ Visits(h, "reset", 0, {key}, c) /\ VerifyCodeWithKey(key, c)
        /\ raced' = IF \E k \in Visitor \ {h} : InHand(k, key) THEN raced \cup {key} ELSE raced
    BY <2>1 DEF InHand
  <2> HIDE DEF key
  <2>5. c \in 0..MaxCodes
    BY <1>0
  <2>6. Began(h, key)
    BY <1>0, <2>1, <2>2, <2>3, <2>5, Enters DEF Began
  <2>7. ResetBegun(h, key)
    BY <1>0, <2>1, <2>2, <2>3, <2>5, Enters DEF ResetBegun
  <2>8. QED
    BY <2>2, <2>6, <2>7 DEF SetsOut
<1>4. ASSUME NEW s \in Site, FirstLogin(h, s) \/ Binds(h, s)
      PROVE  SetsOut(h)
  <2>1. PICK x \in Account, pc \in {"name", "read"}, u \in Uid \cup {0} :
          /\ pc = "name" => u = 0
          /\ pc = "read" => u \in 1..last
          /\ ~IsIdAlreadyTaken(s, x) /\ Visits(h, pc, u, {<<s, x>>}, 0)
          /\ UNCHANGED <<offered, minutes, person, last, verificationMap, codes, identityHistory>>
    <3>1. CASE FirstLogin(h, s)
      BY <1>0, <3>1 DEF FirstLogin
    <3>2. CASE Binds(h, s)
      BY <1>00, <3>2 DEF Binds
    <3>3. QED
      BY <1>4, <3>1, <3>2
  <2> DEFINE key == <<s, x>>
  <2>2. key \in IdKey /\ key \in Key /\ key[1] = s /\ key[2] = x
    BY KeysAre
  <2>3. Visits(h, pc, u, {key}, 0)
    BY <2>1
  <2> HIDE DEF key
  <2>5. 0 \in 0..MaxCodes
    BY <1>0
  <2>6. Began(h, key)
    BY <1>0, <2>1, <2>2, <2>3, <2>5, Enters DEF Began, identityHistory
  <2>7. SiteBegun(h, key)
    BY <1>0, <2>1, <2>2, <2>3, <2>5, Enters DEF SiteBegun, identityHistory, IsIdAlreadyTaken
  <2>8. QED
    BY <2>2, <2>6, <2>7 DEF SetsOut
<1>5. QED
  BY <1>1, <1>2, <1>3, <1>4

Left(h) == visit' \in [Visitor -> VisitState] /\ OtherVisits(h) /\ visit'[h] = Waiting

Mails(h) == \E key \in CodeKey :
  /\ visit[h].pc = "mail" /\ key \in visit[h].keys /\ Left(h)
  /\ verificationMap' \in [CodeKey -> [code: 0..MaxCodes, at: Nat]]
  /\ verificationMap'[key] # NoCode /\ verificationMap'[key].code = visit[h].code /\ verificationMap'[key].at = minutes
  /\ \A k \in CodeKey \ {key} :
       verificationMap'[k] = verificationMap[k] \/ (verificationMap'[k] = NoCode /\ Old(verificationMap[k]))
  /\ mailed' \in [CodeKey -> [code: 0..MaxCodes, at: Nat]]
  /\ mailed'[key] = verificationMap'[key] /\ \A k \in CodeKey \ {key} : mailed'[k] = mailed[k]
  /\ UNCHANGED <<offered, visits, minutes, person, last, codes, gained, resets, dropped, raced, unasked>>

Resets(h) == \E key \in CodeKey :
  /\ visit[h].pc = "reset" /\ key \in visit[h].keys /\ visit' \in [Visitor -> VisitState] /\ OtherVisits(h)
  /\ visit'[h].pc = "forget" /\ visit'[h].keys = visit[h].keys /\ visit'[h].code = visit[h].code
  /\ visit'[h].who = visit[h].who /\ visit'[h].row = visit[h].row /\ visit'[h].at = visit[h].at
  /\ resets' \in [CodeKey -> [1..MaxCodes -> Nat]]
  /\ resets'[key][visit[h].code] = resets[key][visit[h].code] + 1
  /\ \A k \in CodeKey, c \in 1..MaxCodes : k # key \/ c # visit[h].code => resets'[k][c] = resets[k][c]
  /\ UNCHANGED <<offered, visits, minutes, person, last, verificationMap, codes, gained, mailed, dropped, raced, unasked>>

Forgets(h) == \E key \in CodeKey :
  /\ visit[h].pc = "forget" /\ key \in visit[h].keys /\ Left(h)
  /\ verificationMap' \in [CodeKey -> [code: 0..MaxCodes, at: Nat]] /\ mailed' \in [CodeKey -> [code: 0..MaxCodes, at: Nat]]
  /\ verificationMap'[key] = NoCode /\ dropped \subseteq dropped' /\ dropped' \subseteq 1..MaxCodes
  /\ \/ mailed'[key] = NoCode
     \/ mailed'[key] = mailed[key] /\ mailed[key].code # visit[h].code
        /\ verificationMap[key].code \in dropped' \cup {0, visit[h].code}
  /\ \A k \in CodeKey \ {key} : verificationMap'[k] = verificationMap[k] /\ mailed'[k] = mailed[k]
  /\ UNCHANGED <<offered, visits, minutes, person, last, codes, gained, resets, raced, unasked>>

\* ChooseName, ReadRow and a refused InsertUser: nothing that others see.
Prepares(h) ==
  /\ visit' \in [Visitor -> VisitState] /\ OtherVisits(h)
  /\ visit'[h].keys = visit[h].keys /\ visit'[h].at = visit[h].at /\ visit'[h].who = visit[h].who
  /\ \/ visit[h].pc = "name" /\ visit'[h].pc = "insert" /\ visit'[h].row.id = visit[h].row.id
     \/ visit[h].pc = "read" /\ visit'[h].pc = "write" /\ visit'[h].row = person[visit[h].who]
  /\ UNCHANGED <<offered, minutes, person, last, verificationMap, codes, visits, gained, mailed, resets, dropped, raced, unasked>>

TurnedAway(h) ==
  visit[h].pc = "insert" /\ Left(h)
  /\ UNCHANGED <<offered, minutes, person, last, verificationMap, codes, visits, gained, mailed, resets, dropped, raced, unasked>>

Rewrites(h) ==
  /\ visit[h].pc = "idle" /\ visit' \in [Visitor -> VisitState] /\ OtherVisits(h)
  /\ visit'[h].pc = "read" /\ visit'[h].who \in 1..last /\ visit'[h].keys = {} /\ visit'[h].at = minutes
  /\ visit'[h].row = Nobody /\ visits' \in 0..MaxVisits
  /\ UNCHANGED <<offered, minutes, person, last, verificationMap, codes, gained, mailed, resets, dropped, raced, unasked>>

ChangesTo(h, u, row, unchecked) ==
  /\ Becomes(h, u, row, unchecked) /\ Left(h) /\ visits' \in 0..MaxVisits
  /\ row.name # Nobody.name => \A w \in Uid \ {u} : person[w].name # row.name
  /\ \/ visit[h].pc = "insert" /\ u = last + 1 /\ last' = last + 1
     \/ visit[h].pc = "write" /\ u = visit[h].who /\ last' = last /\ row.name = person[u].name
     \/ visit[h].pc = "idle" /\ last' = last /\ row.name = person[u].name
  /\ \A key \in Gains(u, row) \ unchecked :
       key \in visit[h].keys \/ (visit[h].pc = "write" /\ key \in Columns(visit[h].row))
  /\ UNCHANGED <<offered, minutes, verificationMap, codes, mailed, resets, dropped>>

Changes(h) == \E u \in Uid, row \in Person, unchecked \in SUBSET Key : ChangesTo(h, u, row, unchecked)

\* A handler that goes on.
LEMMA PreparedVisit ==
  ASSUME NEW v \in VisitState, NEW pc \in {"insert", "write"}, NEW row \in Person
  PROVE  /\ Prepared(v, pc, row) \in VisitState /\ Prepared(v, pc, row).pc = pc /\ Prepared(v, pc, row).row = row
         /\ Prepared(v, pc, row).keys = v.keys /\ Prepared(v, pc, row).at = v.at /\ Prepared(v, pc, row).who = v.who
BY DEF VisitState, Prepared

LEMMA VisitAt ==
  ASSUME NEW v \in VisitState, NEW pc \in {"idle", "mail", "read", "write", "insert", "name", "reset", "forget"}
  PROVE  LET w == [v EXCEPT !.pc = pc] IN
         /\ w \in VisitState /\ w.pc = pc /\ w.row = v.row
         /\ w.keys = v.keys /\ w.at = v.at /\ w.who = v.who /\ w.code = v.code
BY DEF VisitState

LEMMA NewUserRow ==
  ASSUME NEW mail \in Email \cup {NoEmail}, NEW name \in (Site \cup {"own"}) \X Nat
  PROVE  NewUser(mail, name) \in Person /\ NewUser(mail, name).id = Nobody.id /\ NewUser(mail, name).email = mail
BY DEF NewUser, Nobody, Person

LEMMA VisitorLeaves ==
  ASSUME IdentitiesAssumption, IdentitiesTypeOK, NEW h \in Visitor, Leaves(h)
  PROVE  Left(h)
BY VisitGoes, WaitingIsState DEF Leaves, Left, OtherVisits

\* A code is stored for the moment; a full map loses what is old, so not that one.
LEMMA VisitorMails ==
  ASSUME IdentitiesAssumption, IdentitiesTypeOK, NEW h \in Visitor, VisitIs(h), Mail(h)
  PROVE  Mails(h)
<1>1. PICK key \in visit[h].keys :
        /\ visit[h].pc = "mail" /\ RegisterVerificationCodeWithKey(key, visit[h].code)
        /\ mailed' = [mailed EXCEPT ![key] = [code |-> visit[h].code, at |-> minutes]]
        /\ Leaves(h) /\ UNCHANGED <<offered, visits, minutes, person, last, codes, gained, resets, dropped, raced, unasked>>
  BY DEF Mail
<1>2. key \in CodeKey /\ visit[h].code \in 1..codes
  BY <1>1 DEF VisitIs
<1>3. codes \in 0..MaxCodes /\ MaxCodes \in Nat /\ minutes \in Nat /\ VerificationValidMinutes \in Nat \ {0}
  BY DEF IdentitiesTypeOK, IdentitiesAssumption
<1> DEFINE c == [code |-> visit[h].code, at |-> minutes]
<1>4. c \in [code: 0..MaxCodes, at: Nat] /\ c.code = visit[h].code /\ c.at = minutes /\ c # NoCode /\ c.code # 0
  BY <1>2, <1>3 DEF NoCode
<1>5. NoCode \in [code: 0..MaxCodes, at: Nat]
  BY <1>3 DEF NoCode
<1>6. mailed' = [mailed EXCEPT ![key] = c]
  BY <1>1
<1> DEFINE map == [verificationMap EXCEPT ![key] = c]
<1>7. verificationMap' = IF Cardinality(Stored(map)) > verificationMapMaxSize THEN removeExpiredPairs(map) ELSE map
  BY <1>1 DEF RegisterVerificationCodeWithKey
<1>8. map \in [CodeKey -> [code: 0..MaxCodes, at: Nat]] /\ map[key] = c /\ \A k \in CodeKey \ {key} : map[k] = verificationMap[k]
  BY <1>2, <1>4 DEF IdentitiesTypeOK
<1>9. ~Old(c)
  BY <1>3, <1>4 DEF Old
<1> HIDE DEF c, map
<1>10. removeExpiredPairs(map) \in [CodeKey -> [code: 0..MaxCodes, at: Nat]]
       /\ \A k \in CodeKey : removeExpiredPairs(map)[k] = IF Old(map[k]) THEN NoCode ELSE map[k]
  BY <1>5, <1>8 DEF removeExpiredPairs
<1>11. /\ verificationMap' \in [CodeKey -> [code: 0..MaxCodes, at: Nat]] /\ verificationMap'[key] = c
       /\ \A k \in CodeKey \ {key} :
            verificationMap'[k] = verificationMap[k] \/ (verificationMap'[k] = NoCode /\ Old(verificationMap[k]))
  BY <1>2, <1>7, <1>8, <1>9, <1>10
<1>12. /\ mailed' \in [CodeKey -> [code: 0..MaxCodes, at: Nat]] /\ mailed'[key] = c
       /\ \A k \in CodeKey \ {key} : mailed'[k] = mailed[k]
  BY <1>2, <1>4, <1>6 DEF IdentitiesTypeOK
<1>13. QED
  BY <1>1, <1>2, <1>4, <1>11, <1>12, VisitorLeaves DEF Mails

LEMMA VisitorResets ==
  ASSUME IdentitiesAssumption, IdentitiesTypeOK, NEW h \in Visitor, VisitIs(h), SetPassword(h)
  PROVE  Resets(h)
<1>1. PICK key \in visit[h].keys :
        /\ visit[h].pc = "reset" /\ resets' = [resets EXCEPT ![key][visit[h].code] = @ + 1]
        /\ visit' = [visit EXCEPT ![h].pc = "forget"]
        /\ UNCHANGED <<offered, visits, minutes, person, last, verificationMap, codes, gained, mailed, dropped, raced, unasked>>
  BY DEF SetPassword
<1>2. key \in CodeKey /\ visit[h].code \in 1..MaxCodes
  BY <1>1 DEF VisitIs, IdentitiesTypeOK, IdentitiesAssumption
<1>3. /\ resets' \in [CodeKey -> [1..MaxCodes -> Nat]]
      /\ resets'[key][visit[h].code] = resets[key][visit[h].code] + 1
      /\ \A k \in CodeKey, c \in 1..MaxCodes : k # key \/ c # visit[h].code => resets'[k][c] = resets[k][c]
  <2> DEFINE c == visit[h].code  f == [resets[key] EXCEPT ![c] = resets[key][c] + 1]
  <2>1. resets' = [resets EXCEPT ![key] = f]
    BY <1>1
  <2>2. resets[key] \in [1..MaxCodes -> Nat]
    BY <1>2 DEF IdentitiesTypeOK
  <2>3. c \in 1..MaxCodes
    BY <1>2
  <2> HIDE DEF c
  <2>4. f \in [1..MaxCodes -> Nat] /\ f[c] = resets[key][c] + 1 /\ \A d \in 1..MaxCodes : d # c => f[d] = resets[key][d]
    BY <2>2, <2>3
  <2> HIDE DEF f
  <2>5. resets' \in [CodeKey -> [1..MaxCodes -> Nat]] /\ resets'[key] = f /\ \A k \in CodeKey : k # key => resets'[k] = resets[k]
    BY <1>2, <2>1, <2>4 DEF IdentitiesTypeOK
  <2>6. QED
    BY <1>2, <2>4, <2>5 DEF c
<1> DEFINE v == [visit[h] EXCEPT !.pc = "forget"]
<1>4. /\ v \in VisitState /\ v.pc = "forget" /\ v.keys = visit[h].keys /\ v.code = visit[h].code
      /\ v.who = visit[h].who /\ v.row = visit[h].row /\ v.at = visit[h].at
  <2>1. visit[h] \in VisitState
    BY DEF IdentitiesTypeOK
  <2>2. QED
    BY <2>1, VisitAt
<1>5. visit' = [visit EXCEPT ![h] = v]
  BY <1>1
<1> HIDE DEF v
<1>6. visit' \in [Visitor -> VisitState] /\ visit'[h] = v /\ OtherVisits(h)
  BY <1>4, <1>5, VisitGoes DEF OtherVisits
<1>7. QED
  BY <1>1, <1>2, <1>3, <1>4, <1>6 DEF Resets

LEMMA VisitorForgets ==
  ASSUME IdentitiesAssumption, IdentitiesTypeOK, NEW h \in Visitor, VisitIs(h), ForgetCode(h)
  PROVE  Forgets(h)
<1>1. PICK key \in visit[h].keys :
        /\ visit[h].pc = "forget" /\ DeleteKey(key)
        /\ mailed' = IF mailed[key].code = visit[h].code THEN [mailed EXCEPT ![key] = NoCode] ELSE mailed
        /\ dropped' = dropped \cup ({verificationMap[key].code} \ {0, visit[h].code})
        /\ Leaves(h) /\ UNCHANGED <<offered, visits, minutes, person, last, codes, gained, resets, raced, unasked>>
  BY DEF ForgetCode
<1>2. key \in CodeKey
  BY <1>1 DEF VisitIs
<1>3. NoCode \in [code: 0..MaxCodes, at: Nat]
  BY DEF NoCode, IdentitiesAssumption
<1>4. verificationMap' = [verificationMap EXCEPT ![key] = NoCode]
  BY <1>1 DEF DeleteKey
<1>5. dropped \subseteq dropped' /\ dropped' \subseteq 1..MaxCodes /\ verificationMap[key].code \in dropped' \cup {0, visit[h].code}
  <2>1. verificationMap[key].code \in 0..MaxCodes /\ dropped \subseteq 1..MaxCodes /\ MaxCodes \in Nat
    BY <1>2 DEF IdentitiesTypeOK, IdentitiesAssumption
  <2> DEFINE old == verificationMap[key].code
  <2>2. dropped' = dropped \cup ({old} \ {0, visit[h].code}) /\ old \in 0..MaxCodes
    BY <1>1, <2>1
  <2> HIDE DEF old
  <2>3. old \in dropped' \cup {0, visit[h].code} /\ (old = 0 \/ old \in 1..MaxCodes)
    BY <2>1, <2>2
  <2>4. dropped \subseteq dropped' /\ dropped' \subseteq 1..MaxCodes
    BY <2>1, <2>2, <2>3
  <2>5. QED
    BY <2>3, <2>4 DEF old
<1>6. /\ verificationMap' \in [CodeKey -> [code: 0..MaxCodes, at: Nat]] /\ mailed' \in [CodeKey -> [code: 0..MaxCodes, at: Nat]]
      /\ verificationMap'[key] = NoCode
      /\ mailed'[key] = NoCode \/ (mailed'[key] = mailed[key] /\ mailed[key].code # visit[h].code)
      /\ \A k \in CodeKey \ {key} : verificationMap'[k] = verificationMap[k] /\ mailed'[k] = mailed[k]
  BY <1>1, <1>2, <1>3, <1>4 DEF IdentitiesTypeOK
<1>7. QED
  BY <1>1, <1>2, <1>5, <1>6, VisitorLeaves DEF Forgets

LEMMA VisitorPrepares ==
  ASSUME IdentitiesAssumption, IdentitiesTypeOK, NEW h \in Visitor, VisitIs(h), ChooseName(h) \/ ReadRow(h)
  PROVE  Prepares(h)
<1>0. visit[h] \in VisitState
  BY DEF IdentitiesTypeOK
<1>1. CASE ChooseName(h)
  <2>1. PICK key \in visit[h].keys : \E mail \in SiteMails(key[1]), name \in SiteNames(key[1]) :
          /\ visit[h].pc = "name"
          /\ visit' = [visit EXCEPT ![h] = Prepared(@, "insert", NewUser(mail, name))]
          /\ UNCHANGED <<offered, visits, minutes, person, last, verificationMap, codes, identityHistory>>
    BY <1>1 DEF ChooseName
  <2>2. PICK mail \in SiteMails(key[1]), name \in SiteNames(key[1]) :
          /\ visit[h].pc = "name"
          /\ visit' = [visit EXCEPT ![h] = Prepared(@, "insert", NewUser(mail, name))]
          /\ UNCHANGED <<offered, visits, minutes, person, last, verificationMap, codes, identityHistory>>
    BY <2>1
  <2>3. key[1] \in Site /\ key[2] \in Account /\ key = <<key[1], key[2]>>
    BY <2>2, KeysAre DEF VisitIs
  <2>4. last + 1 \in Nat
    BY DEF IdentitiesTypeOK, Uid, IdentitiesAssumption
  <2>5. name \in (Site \cup {"own"}) \X Nat /\ mail \in Email \cup {NoEmail}
    BY <2>2, <2>3, <2>4, NobodyIsPerson DEF SiteMails, SiteNames
  <2> DEFINE row == NewUser(mail, name)  v == Prepared(visit[h], "insert", row)
  <2>7. row \in Person /\ row.id = visit[h].row.id /\ row.email = mail
    BY <2>2, <2>5, NewUserRow DEF VisitIs
  <2>8. visit' = [visit EXCEPT ![h] = v]
    BY <2>2
  <2> HIDE DEF row
  <2>9. v \in VisitState /\ v.pc = "insert" /\ v.keys = visit[h].keys /\ v.at = visit[h].at /\ v.who = visit[h].who /\ v.row = row
    BY <1>0, <2>7, PreparedVisit
  <2> HIDE DEF v
  <2>10. visit' \in [Visitor -> VisitState] /\ visit'[h] = v /\ OtherVisits(h)
    BY <2>8, <2>9, VisitGoes DEF OtherVisits
  <2>11. QED
    BY <2>2, <2>7, <2>9, <2>10 DEF Prepares, identityHistory
<1>2. CASE ReadRow(h)
  <2> DEFINE row == person[visit[h].who]  v == Prepared(visit[h], "write", row)
  <2>1. visit' = [visit EXCEPT ![h] = v] /\ visit[h].pc = "read"
    BY <1>2 DEF ReadRow
  <2>2. visit[h].who \in Uid
    BY <2>1 DEF VisitIs, IdentitiesTypeOK, Uid, IdentitiesAssumption
  <2>3. row \in Person
    BY <2>2 DEF IdentitiesTypeOK
  <2> HIDE DEF row
  <2>4. v \in VisitState /\ v.pc = "write" /\ v.keys = visit[h].keys /\ v.at = visit[h].at /\ v.who = visit[h].who /\ v.row = row
    BY <1>0, <2>3, PreparedVisit
  <2> HIDE DEF v
  <2>5. visit' \in [Visitor -> VisitState] /\ visit'[h] = v /\ OtherVisits(h)
    BY <2>1, <2>4, VisitGoes DEF OtherVisits
  <2>6. QED
    BY <1>2, <2>1, <2>4, <2>5 DEF Prepares, ReadRow, identityHistory, row
<1>3. QED
  BY <1>1, <1>2

LEMMA VisitorInserts ==
  ASSUME IdentitiesAssumption, IdentitiesTypeOK, NEW h \in Visitor, VisitIs(h), InsertUser(h)
  PROVE  TurnedAway(h) \/ Changes(h)
<1> DEFINE name == visit[h].row.name  new == With(visit[h].row, visit[h].keys)
<1>1. PICK taken \in BOOLEAN :
        /\ visit[h].pc = "insert"
        /\ name # Nobody.name => (taken <=> \E u \in Uid : person[u].name = name)
        /\ IF last = MaxUsers \/ taken
           THEN UNCHANGED <<person, last, gained, raced, unasked>>
           ELSE last' = last + 1 /\ Becomes(h, last + 1, new, Key \ visit[h].keys)
        /\ Leaves(h)
        /\ UNCHANGED <<offered, visits, minutes, verificationMap, codes, mailed, resets, dropped>>
  BY DEF InsertUser
<1>2. Left(h)
  BY <1>1, VisitorLeaves
<1>3. CASE last = MaxUsers \/ taken
  BY <1>1, <1>2, <1>3 DEF TurnedAway
<1>4. CASE ~(last = MaxUsers \/ taken)
  <2>1. last + 1 \in Uid
    BY <1>4 DEF IdentitiesTypeOK, Uid, IdentitiesAssumption
  <2>2. visit[h].row \in Person /\ visit[h].keys \in SUBSET Key /\ \A j, k \in visit[h].keys : j = k
    BY DEF IdentitiesTypeOK, VisitState, VisitIs
  <2>3. new \in Person /\ new.name = name
    BY <2>2, WithRow
  <2> DEFINE unchecked == Key \ visit[h].keys
  <2>4. unchecked \in SUBSET Key /\ \A key \in Gains(last + 1, new) \ unchecked : key \in visit[h].keys
    BY DEF Gains
  <2>5. last' = last + 1 /\ Becomes(h, last + 1, new, unchecked)
    BY <1>1, <1>4
  <2> HIDE DEF name, new, unchecked
  <2>6. new.name # Nobody.name => \A w \in Uid \ {last + 1} : person[w].name # new.name
    BY <1>1, <1>4, <2>3
  <2>7. visits' \in 0..MaxVisits
    BY <1>1 DEF IdentitiesTypeOK
  <2>8. ChangesTo(h, last + 1, new, unchecked)
    BY <1>1, <1>2, <2>4, <2>5, <2>6, <2>7 DEF ChangesTo
  <2>9. QED
    BY <2>1, <2>3, <2>4, <2>8 DEF Changes
<1>5. QED
  BY <1>3, <1>4

\* The columns a handler or a form writes over a row: what the row has then is its own or theirs.
LEMMA MergedRow ==
  ASSUME NEW row \in Person, NEW new \in Person
  PROVE  /\ Merged(row, new) \in Person /\ Merged(row, new).name = row.name
         /\ Columns(Merged(row, new)) \subseteq Columns(row) \cup Columns(new)
<1> DEFINE email == IF new.email = NoEmail THEN row.email ELSE new.email
           id == [s \in Site |-> IF new.id[s] = NoAccount THEN row.id[s] ELSE new.id[s]]
<1>1. email \in Email \cup {NoEmail} /\ id \in [Site -> Account \cup {NoAccount}]
  BY DEF Person
<1>2. email \in {row.email, new.email} /\ \A s \in Site : id[s] \in {row.id[s], new.id[s]}
  OBVIOUS
<1>3. Merged(row, new) = [row EXCEPT !.email = email, !.id = id]
  BY DEF Merged, Person
<1> HIDE DEF email, id
<1>4. /\ Merged(row, new) \in Person /\ Merged(row, new).name = row.name
      /\ Merged(row, new).email = email /\ Merged(row, new).id = id
  BY <1>1, <1>3 DEF Person
<1>5. QED
  BY <1>2, <1>4 DEF Columns

LEMMA WithColumns ==
  ASSUME NEW row \in Person, NEW keys \in SUBSET Key, \A j, k \in keys : j = k
  PROVE  Columns(With(row, keys)) \subseteq Columns(row) \cup keys
<1> DEFINE new == With(row, keys)
<1>1. /\ new.email = row.email \/ <<"v", new.email>> \in keys
      /\ \A s \in Site : new.id[s] = row.id[s] \/ <<s, new.id[s]>> \in keys
  BY WithRow
<1> HIDE DEF new
<1>2. Columns(new) \subseteq Columns(row) \cup keys
  BY <1>1 DEF Columns
<1>3. QED
  BY <1>2 DEF new

LEMMA VisitorWrites ==
  ASSUME IdentitiesAssumption, IdentitiesTypeOK, NEW h \in Visitor, VisitIs(h), WriteIdentity(h)
  PROVE  Changes(h)
<1> DEFINE u == visit[h].who  new == With(visit[h].row, visit[h].keys)  row == Merged(person[u], new)
<1>1. u \in Uid
  BY DEF WriteIdentity, VisitIs, IdentitiesTypeOK, Uid, IdentitiesAssumption
<1>2. visit[h].row \in Person /\ visit[h].keys \in SUBSET Key /\ \A j, k \in visit[h].keys : j = k
  BY DEF IdentitiesTypeOK, VisitState, VisitIs
<1>3. new \in Person /\ Columns(new) \subseteq Columns(visit[h].row) \cup visit[h].keys
  BY <1>2, WithRow, WithColumns
<1>4. person[u] \in Person
  BY <1>1 DEF IdentitiesTypeOK
<1>5. /\ visit[h].pc = "write" /\ Left(h) /\ Becomes(h, u, row, {})
      /\ UNCHANGED <<offered, visits, minutes, last, verificationMap, codes, mailed, resets, dropped>>
  BY VisitorLeaves DEF WriteIdentity
<1>6. u = visit[h].who
  OBVIOUS
<1> HIDE DEF new, u
<1>7. row \in Person /\ row.name = person[u].name /\ Columns(row) \subseteq Columns(person[u]) \cup Columns(new)
  BY <1>3, <1>4, MergedRow
<1> HIDE DEF row
<1>8. row.name # Nobody.name => \A w \in Uid \ {u} : person[w].name # row.name
  BY <1>1, <1>7 DEF IdentitiesTypeOK
<1>9. \A key \in Gains(u, row) \ {} : key \in visit[h].keys \/ key \in Columns(visit[h].row)
  BY <1>3, <1>7 DEF Gains
<1>10. visits' \in 0..MaxVisits
  BY <1>5 DEF IdentitiesTypeOK
<1>11. ChangesTo(h, u, row, {})
  BY <1>5, <1>6, <1>7, <1>8, <1>9, <1>10 DEF ChangesTo
<1>12. QED
  BY <1>1, <1>7, <1>11 DEF Changes

\* A handler that reads a row to write it back, and a form.
LEMMA VisitorRewrites ==
  ASSUME IdentitiesAssumption, IdentitiesTypeOK, NEW h \in Visitor, RewriteRow(h)
  PROVE  Rewrites(h)
<1>1. PICK u \in 1..last :
        /\ Visits(h, "read", u, {}, 0)
        /\ UNCHANGED <<offered, minutes, person, last, verificationMap, codes, identityHistory>>
  BY DEF RewriteRow
<1>2. u \in Uid /\ 0 \in 0..MaxCodes /\ {} \subseteq Key
  BY DEF IdentitiesTypeOK, IdentitiesAssumption, Uid
<1>3. QED
  BY <1>1, <1>2, Enters DEF Rewrites, OtherVisits, identityHistory

LEMMA FormWrites ==
  ASSUME IdentitiesAssumption, IdentitiesTypeOK, NEW h \in Visitor, VisitIs(h), UpdateUserForm(h)
  PROVE  Changes(h)
<1>1. PICK u \in 1..last, form \in Forms :
        /\ visit[h].pc = "idle"
        /\ visits < MaxVisits /\ visits' = visits + 1
        /\ Becomes(h, u, Merged(person[u], form), Key)
        /\ UNCHANGED <<offered, minutes, last, verificationMap, codes, visit, mailed, resets, dropped>>
  BY DEF UpdateUserForm
<1>2. u \in Uid /\ form \in Person /\ visits' \in 0..MaxVisits
  BY <1>1 DEF IdentitiesTypeOK, IdentitiesAssumption, Uid
<1> DEFINE row == Merged(person[u], form)
<1>3. person[u] \in Person
  BY <1>2 DEF IdentitiesTypeOK
<1>4. row \in Person /\ row.name = person[u].name
  BY <1>2, <1>3, MergedRow
<1>5. Becomes(h, u, row, Key)
  BY <1>1
<1> HIDE DEF row
<1>6. row.name # Nobody.name => \A w \in Uid \ {u} : person[w].name # row.name
  BY <1>2, <1>4 DEF IdentitiesTypeOK
<1>7. Left(h)
  BY <1>1 DEF Left, VisitIs, OtherVisits, IdentitiesTypeOK
<1>8. \A key \in Gains(u, row) : key \in Key
  BY DEF Gains
<1>9. ChangesTo(h, u, row, Key)
  BY <1>1, <1>2, <1>4, <1>5, <1>6, <1>7, <1>8 DEF ChangesTo
<1>10. QED
  BY <1>2, <1>4, <1>9 DEF Changes

Acts(h) ==
  \/ SetsOut(h) \/ Mails(h) \/ Resets(h) \/ Forgets(h)
  \/ Prepares(h) \/ TurnedAway(h) \/ Rewrites(h) \/ Changes(h)

LEMMA IdentitiesSteps ==
  ASSUME IdentitiesAssumption, IdentitiesTypeOK, \A h \in Visitor : VisitIs(h), [IdentitiesNext]_identityVars
  PROVE  Minute \/ UNCHANGED identityVars \/ \E h \in Visitor : Acts(h)
<1>1. ASSUME NEW h \in Visitor,
             \/ SendMail(h) \/ Mail(h) \/ UseCode(h) \/ UseReset(h) \/ SetPassword(h) \/ ForgetCode(h)
             \/ GitHubOAuth(h) \/ GitHubBind(h) \/ OidcAuth(h) \/ OidcBind(h)
             \/ LarkOAuth(h) \/ LarkBind(h) \/ WeChatAuth(h) \/ WeChatBind(h)
             \/ ChooseName(h) \/ InsertUser(h) \/ ReadRow(h) \/ WriteIdentity(h)
             \/ RewriteRow(h) \/ UpdateUserForm(h)
      PROVE  Acts(h)
  <2>1. {"github", "oidc", "lark", "wechat"} = Site
    BY DEF Site
  <2>2. CASE \/ GitHubOAuth(h) \/ GitHubBind(h) \/ OidcAuth(h) \/ OidcBind(h)
             \/ LarkOAuth(h) \/ LarkBind(h) \/ WeChatAuth(h) \/ WeChatBind(h)
    <3>1. \E s \in Site : FirstLogin(h, s) \/ Binds(h, s)
      BY <2>1, <2>2 DEF GitHubOAuth, GitHubBind, OidcAuth, OidcBind, LarkOAuth, LarkBind, WeChatAuth, WeChatBind
    <3>2. QED
      BY <3>1, VisitorBegins DEF Acts
  <2>3. CASE SendMail(h) \/ UseCode(h) \/ UseReset(h)
    BY <2>3, VisitorBegins DEF Acts
  <2>4. CASE Mail(h) \/ SetPassword(h) \/ ForgetCode(h)
    BY <2>4, VisitorMails, VisitorResets, VisitorForgets DEF Acts
  <2>5. CASE ChooseName(h) \/ ReadRow(h) \/ InsertUser(h) \/ WriteIdentity(h)
    BY <2>5, VisitorPrepares, VisitorInserts, VisitorWrites DEF Acts
  <2>6. CASE RewriteRow(h) \/ UpdateUserForm(h)
    BY <2>6, VisitorRewrites, FormWrites DEF Acts
  <2>7. QED
    BY <1>1, <2>2, <2>3, <2>4, <2>5, <2>6
<1>2. QED
  BY <1>1 DEF IdentitiesNext

\* What a step of one handler leaves to the others.
LEMMA ActsGoOn ==
  ASSUME IdentitiesAssumption, IdentitiesTypeOK, NEW h \in Visitor, Acts(h), VisitIs(h)
  PROVE  /\ OtherVisits(h) /\ visit' \in [Visitor -> VisitState] /\ minutes' = minutes
         /\ codes' \in codes..MaxCodes /\ last' \in last..MaxUsers
         /\ \A u \in 1..last : person'[u].name = person[u].name
<1>1. /\ codes \in 0..MaxCodes /\ MaxCodes \in Nat /\ last \in 0..MaxUsers /\ MaxUsers \in Nat
      /\ codes \in codes..MaxCodes /\ last \in last..MaxUsers
  BY DEF IdentitiesTypeOK, IdentitiesAssumption, Uid
<1>2. CASE SetsOut(h)
  BY <1>1, <1>2 DEF SetsOut, Began
<1>3. CASE Mails(h) \/ Resets(h) \/ Forgets(h) \/ Prepares(h) \/ TurnedAway(h) \/ Rewrites(h)
  BY <1>1, <1>3 DEF Mails, Resets, Forgets, Prepares, TurnedAway, Rewrites, Left
<1>4. ASSUME NEW u \in Uid, NEW row \in Person, NEW unchecked \in SUBSET Key, ChangesTo(h, u, row, unchecked)
      PROVE  /\ OtherVisits(h) /\ visit' \in [Visitor -> VisitState] /\ minutes' = minutes /\ codes' = codes
             /\ last' \in last..MaxUsers /\ \A w \in 1..last : person'[w].name = person[w].name
  <2>1. Becomes(h, u, row, unchecked) /\ Left(h) /\ minutes' = minutes /\ codes' = codes
        /\ (row.name # Nobody.name => \A w \in Uid \ {u} : person[w].name # row.name)
    BY <1>4 DEF ChangesTo
  <2>2. person'[u] = row /\ \A w \in Uid \ {u} : person'[w] = person[w]
    BY <2>1, BecomesTyped
  <2>3. (u = last + 1 /\ last' = last + 1) \/ (last' = last /\ row.name = person[u].name)
    BY <1>4 DEF ChangesTo
  <2>4. u \in 1..MaxUsers /\ Uid = 1..MaxUsers
    BY DEF Uid
  <2>5. ASSUME NEW w \in 1..last
        PROVE  person'[w].name = person[w].name
    <3>1. w \in Uid
      BY <1>1, <2>4
    <3>2. CASE w = u
      BY <1>1, <2>2, <2>3, <3>2
    <3>3. CASE w # u
      BY <2>2, <3>1, <3>3
    <3>4. QED
      BY <3>2, <3>3
  <2>6. last' \in last..MaxUsers
    BY <1>1, <2>3, <2>4
  <2>7. QED
    BY <2>1, <2>5, <2>6 DEF Left
<1>5. CASE Changes(h)
  BY <1>1, <1>4, <1>5 DEF Changes
<1>6. QED
  BY <1>2, <1>3, <1>5 DEF Acts

LEMMA IdentityTypes ==
  ASSUME IdentitiesAssumption, IdentitiesTypeOK, NEW h \in Visitor, Acts(h), VisitIs(h)
  PROVE  IdentitiesTypeOK'
<1>1. /\ visit' \in [Visitor -> VisitState] /\ minutes' \in 0..MaxMinutes /\ codes' \in 0..MaxCodes /\ last' \in Uid \cup {0}
      /\ visits' \in 0..MaxVisits /\ offered' \in Offers
  <2>1. visit' \in [Visitor -> VisitState] /\ minutes' = minutes /\ codes' \in codes..MaxCodes /\ last' \in last..MaxUsers
    BY ActsGoOn
  <2>2. visits' \in 0..MaxVisits /\ offered' = offered
    BY DEF Acts, SetsOut, Began, Mails, Resets, Forgets, Prepares, TurnedAway, Rewrites, Changes, ChangesTo, IdentitiesTypeOK
  <2>3. codes' \in 0..MaxCodes /\ last' \in Uid \cup {0}
    BY <2>1 DEF IdentitiesTypeOK, Uid, IdentitiesAssumption
  <2>4. QED
    BY <2>1, <2>2, <2>3 DEF IdentitiesTypeOK
<1>2. /\ person' \in [Uid -> Person] /\ gained' \in [Uid -> [checked: Nat, written: Nat]]
      /\ raced' \subseteq Key /\ unasked' \subseteq Uid \X Key
      /\ \A u, w \in Uid : u # w /\ person'[u].name = person'[w].name => person'[u].name = Nobody.name
  <2>1. CASE SetsOut(h)
    BY <2>1 DEF SetsOut, Began, IdentitiesTypeOK
  <2>2. CASE Mails(h) \/ Resets(h) \/ Forgets(h) \/ Prepares(h) \/ TurnedAway(h) \/ Rewrites(h)
    BY <2>2 DEF Mails, Resets, Forgets, Prepares, TurnedAway, Rewrites, IdentitiesTypeOK
  <2>3. CASE Changes(h)
    <3>1. PICK u \in Uid, row \in Person, unchecked \in SUBSET Key :
            Becomes(h, u, row, unchecked) /\ (row.name # Nobody.name => \A w \in Uid \ {u} : person[w].name # row.name)
      BY <2>3 DEF Changes, ChangesTo
    <3>2. QED
      BY <3>1, BecomesTyped
  <2>4. QED
    BY <2>1, <2>2, <2>3 DEF Acts
<1>3. verificationMap' \in [CodeKey -> [code: 0..MaxCodes, at: Nat]] /\ mailed' \in [CodeKey -> [code: 0..MaxCodes, at: Nat]]
  <2>1. CASE Mails(h) \/ Forgets(h)
    BY <2>1 DEF Mails, Forgets
  <2>2. CASE SetsOut(h) \/ Resets(h) \/ Prepares(h) \/ TurnedAway(h) \/ Rewrites(h) \/ Changes(h)
    <3>1. verificationMap' = verificationMap /\ mailed' = mailed
      BY <2>2 DEF SetsOut, Began, Resets, Prepares, TurnedAway, Rewrites, Changes, ChangesTo
    <3>2. QED
      BY <3>1 DEF IdentitiesTypeOK
  <2>3. QED
    BY <2>1, <2>2 DEF Acts
<1>4. resets' \in [CodeKey -> [1..MaxCodes -> Nat]] /\ dropped' \subseteq 1..MaxCodes
  BY DEF Acts, SetsOut, Began, Mails, Resets, Forgets, Prepares, TurnedAway, Rewrites, Changes, ChangesTo, IdentitiesTypeOK
<1>5. QED
  BY <1>1, <1>2, <1>3, <1>4 DEF IdentitiesTypeOK

\* A handler that does not move is where it was, whatever its name.
LEMMA VisitStays ==
  ASSUME IdentitiesAssumption, IdentitiesTypeOK, NEW k \in Visitor, VisitIs(k), visit'[k] = visit[k],
         codes' \in codes..MaxCodes, last' \in last..MaxUsers, \A u \in 1..last : person'[u].name = person[u].name
  PROVE  VisitIs(k)'
<1>1. codes \in 0..MaxCodes /\ MaxCodes \in Nat /\ last \in 0..MaxUsers /\ MaxUsers \in Nat
  BY DEF IdentitiesTypeOK, IdentitiesAssumption, Uid
<1>2. 1..codes \subseteq 1..codes' /\ 1..last \subseteq 1..last'
  BY <1>1
<1>3. QED
  BY <1>2 DEF VisitIs

LEMMA VisitMoves ==
  ASSUME IdentitiesAssumption, IdentitiesTypeOK, NEW h \in Visitor, Acts(h), VisitIs(h)
  PROVE  VisitIs(h)'
<1>0. /\ codes \in 0..MaxCodes /\ MaxCodes \in Nat /\ last \in 0..MaxUsers /\ MaxUsers \in Nat
  BY DEF IdentitiesTypeOK, IdentitiesAssumption, Uid
<1>1. ASSUME Left(h) PROVE VisitIs(h)'
  BY <1>1, WaitingIsState DEF Left, VisitIs
<1>2. ASSUME NEW key \in Key, Began(h, key),
             MailBegun(h, key) \/ CodeBegun(h, key) \/ ResetBegun(h, key) \/ SiteBegun(h, key)
      PROVE  VisitIs(h)'
  <2>1. visit'[h].keys = {key} /\ visit'[h].row = Nobody /\ last' = last /\ Nobody.email = NoEmail
    BY <1>2, NobodyIsPerson DEF Began
  <2>2. CASE MailBegun(h, key)
    BY <1>0, <2>1, <2>2 DEF MailBegun, VisitIs
  <2>3. CASE CodeBegun(h, key)
    BY <1>0, <2>1, <2>3 DEF CodeBegun, VisitIs
  <2>4. CASE ResetBegun(h, key)
    BY <1>0, <2>1, <2>4 DEF ResetBegun, VisitIs
  <2>5. CASE SiteBegun(h, key)
    BY <1>0, <2>1, <2>5 DEF SiteBegun, VisitIs
  <2>6. QED
    BY <1>2, <2>2, <2>3, <2>4, <2>5
<1>3. CASE Resets(h)
  BY <1>3 DEF Resets, VisitIs
<1>4. CASE Prepares(h)
  BY <1>4 DEF Prepares, VisitIs
<1>5. CASE Mails(h) \/ Forgets(h) \/ TurnedAway(h) \/ Changes(h)
  BY <1>1, <1>5 DEF Mails, Forgets, TurnedAway, Changes, ChangesTo
<1>6. CASE Rewrites(h)
  BY <1>6, NobodyIsPerson DEF Rewrites, VisitIs
<1>7. QED
  BY <1>2, <1>3, <1>4, <1>5, <1>6 DEF Acts, SetsOut

LEMMA IdentitiesTypesStep ==
  ASSUME IdentitiesAssumption, IdentitiesTypeOK, \A h \in Visitor : VisitIs(h), [IdentitiesNext]_identityVars
  PROVE  IdentitiesTypeOK' /\ \A h \in Visitor : VisitIs(h)'
<1>0. codes \in codes..MaxCodes /\ last \in last..MaxUsers
  BY DEF IdentitiesTypeOK, IdentitiesAssumption, Uid
<1>1. ASSUME UNCHANGED <<offered, visits, person, last, verificationMap, codes, visit, gained, mailed, resets, dropped, raced, unasked>>,
             minutes' \in 0..MaxMinutes
      PROVE  IdentitiesTypeOK' /\ \A h \in Visitor : VisitIs(h)'
  <2>1. IdentitiesTypeOK'
    BY <1>1 DEF IdentitiesTypeOK
  <2>2. QED
    BY <1>0, <1>1, <2>1, VisitStays
<1>2. CASE Minute \/ UNCHANGED identityVars
  <2>1. minutes' \in 0..MaxMinutes
    BY <1>2 DEF Minute, identityVars, IdentitiesTypeOK, IdentitiesAssumption
  <2>2. UNCHANGED <<offered, visits, person, last, verificationMap, codes, visit, gained, mailed, resets, dropped, raced, unasked>>
    BY <1>2 DEF Minute, identityVars, identityHistory
  <2>3. QED
    BY <1>1, <2>1, <2>2
<1>3. ASSUME NEW h \in Visitor, Acts(h)
      PROVE  IdentitiesTypeOK' /\ \A k \in Visitor : VisitIs(k)'
  <2>1. IdentitiesTypeOK' /\ VisitIs(h)'
    BY <1>3, IdentityTypes, VisitMoves
  <2>2. ASSUME NEW k \in Visitor \ {h}
        PROVE  VisitIs(k)'
    BY <1>3, ActsGoOn, VisitStays DEF OtherVisits
  <2>3. QED
    BY <2>1, <2>2
<1>4. QED
  BY <1>2, <1>3, IdentitiesSteps

-----------------------------------------------------------------------------
(* Identities: the codes.                                                  *)

\* What the invariant of the codes is made of, with types.
LEMMA CodeTypes ==
  ASSUME IdentitiesAssumption, IdentitiesTypeOK
  PROVE  /\ codes \in Nat /\ minutes \in Nat /\ MaxCodes \in Nat /\ codes \in 0..MaxCodes /\ VerificationValidMinutes \in Nat \ {0}
         /\ \A key \in CodeKey : /\ verificationMap[key].code \in Nat /\ verificationMap[key].at \in Nat
                                 /\ mailed[key].code \in Nat /\ mailed[key].at \in Nat
         /\ \A key \in CodeKey, c \in 1..MaxCodes : resets[key][c] \in Nat
         /\ \A h \in Visitor : visit[h].at \in Nat /\ visit[h].code \in Nat
         /\ NoCode.code = 0 /\ NoCode.at = 0
<1>1. MaxCodes \in Nat /\ MaxMinutes \in Nat /\ VerificationValidMinutes \in Nat \ {0}
  BY DEF IdentitiesAssumption
<1>2. codes \in Nat /\ minutes \in Nat /\ codes \in 0..MaxCodes
  BY <1>1 DEF IdentitiesTypeOK
<1>3. \A key \in CodeKey : /\ verificationMap[key].code \in Nat /\ verificationMap[key].at \in Nat
                           /\ mailed[key].code \in Nat /\ mailed[key].at \in Nat
  BY <1>1 DEF IdentitiesTypeOK
<1>4. \A key \in CodeKey, c \in 1..MaxCodes : resets[key][c] \in Nat
  BY <1>1 DEF IdentitiesTypeOK
<1>5. \A h \in Visitor : visit[h].at \in Nat /\ visit[h].code \in Nat
  BY <1>1 DEF IdentitiesTypeOK, VisitState
<1>6. NoCode.code = 0 /\ NoCode.at = 0
  BY DEF NoCode
<1>7. QED
  BY <1>1, <1>2, <1>3, <1>4, <1>5, <1>6

\* A step of a handler that has to do with no code's mail or reset.
LEMMA CodesQuiet ==
  ASSUME IdentitiesAssumption, IdentitiesTypeOK, CodesInv, NEW h \in Visitor, OtherVisits(h), codes' \in codes..MaxCodes,
         visit[h].pc \notin {"mail", "reset", "forget"}, visit'[h].pc \notin {"mail", "reset", "forget"}, raced \subseteq raced',
         UNCHANGED <<verificationMap, mailed, resets, dropped, minutes>>
  PROVE  CodesInv'
<1>1. MapAsMailed'
  BY DEF CodesInv, MapAsMailed, Old
<1>2. CodesKnown'
  BY CodeTypes DEF CodesInv, CodesKnown
<1>3. ASSUME NEW k \in Visitor
      PROVE  MailIsNew(k)'
  BY DEF CodesInv, MailIsNew, OtherVisits
<1>4. ASSUME NEW key \in CodeKey, NEW k \in Visitor
      PROVE  InHand(k, key)' = InHand(k, key) /\ (InHand(k, key) => visit'[k] = visit[k])
  BY DEF InHand, OtherVisits
<1>5. ASSUME NEW key \in CodeKey, key \notin raced'
      PROVE  ResetInHand(key)'
  <2>1. ResetInHand(key)
    BY <1>5 DEF CodesInv
  <2>2. QED
    BY <1>4, <2>1 DEF ResetInHand
<1>6. QED
  BY <1>1, <1>2, <1>3, <1>5 DEF CodesInv

LEMMA CodesWhenMailBegins ==
  ASSUME IdentitiesAssumption, IdentitiesTypeOK, \A k \in Visitor : VisitIs(k), CodesInv,
         NEW h \in Visitor, NEW key \in CodeKey, Began(h, key), MailBegun(h, key)
  PROVE  CodesInv'
<1>0. /\ OtherVisits(h) /\ visit[h].pc = "idle" /\ visit'[h].pc = "mail" /\ visit'[h].code = codes + 1 /\ codes' = codes + 1
      /\ raced' = raced /\ UNCHANGED <<verificationMap, mailed, resets, dropped, minutes>>
  BY DEF Began, MailBegun
<1>1. MapAsMailed'
  BY <1>0 DEF CodesInv, MapAsMailed, Old
<1>2. CodesKnown'
  BY <1>0, CodeTypes DEF CodesInv, CodesKnown
<1>3. ASSUME NEW k \in Visitor \ {h}, visit[k].pc \in {"mail", "reset", "forget"}
      PROVE  visit[k].code # codes + 1
  <2>1. visit[k].code \in 1..codes
    BY <1>3 DEF VisitIs
  <2>2. QED
    BY <2>1, CodeTypes
<1>4. MailIsNew(h)'
  <2>1. \A k \in CodeKey : verificationMap[k].code # codes + 1
    BY CodeTypes DEF CodesInv, CodesKnown
  <2>2. codes + 1 \in 1..MaxCodes
    BY <1>0, CodeTypes DEF Began
  <2>3. \A k \in CodeKey : resets[k][codes + 1] = 0
    BY <2>2, CodeTypes DEF CodesInv, CodesKnown
  <2>4. QED
    BY <1>0, <1>3, <2>1, <2>3 DEF MailIsNew, OtherVisits
<1>5. ASSUME NEW k \in Visitor \ {h}
      PROVE  MailIsNew(k)'
  BY <1>0, <1>3 DEF CodesInv, MailIsNew, OtherVisits
<1>6. ASSUME NEW j \in CodeKey, NEW k \in Visitor
      PROVE  InHand(k, j)' = InHand(k, j) /\ (InHand(k, j) => visit'[k] = visit[k])
  BY <1>0 DEF InHand, OtherVisits
<1>7. ASSUME NEW j \in CodeKey, j \notin raced'
      PROVE  ResetInHand(j)'
  <2>1. ResetInHand(j)
    BY <1>0, <1>7 DEF CodesInv
  <2>2. QED
    BY <1>0, <1>6, <2>1 DEF ResetInHand
<1>8. QED
  BY <1>1, <1>2, <1>4, <1>5, <1>7 DEF CodesInv

LEMMA CodesWhenResetBegins ==
  ASSUME IdentitiesAssumption, IdentitiesTypeOK, \A k \in Visitor : VisitIs(k), CodesInv,
         NEW h \in Visitor, NEW key \in CodeKey, Began(h, key), ResetBegun(h, key)
  PROVE  CodesInv'
<1> DEFINE c == visit'[h].code
<1>0. /\ OtherVisits(h) /\ visit[h].pc = "idle" /\ visit'[h].pc = "reset" /\ visit'[h].keys = {key} /\ c \in 1..codes /\ codes' = codes
      /\ verificationMap[key].code = c /\ raced \subseteq raced' /\ UNCHANGED <<verificationMap, mailed, resets, dropped, minutes>>
  BY DEF Began, ResetBegun, VerifyCodeWithKey
<1>1. MapAsMailed'
  BY <1>0 DEF CodesInv, MapAsMailed, Old
<1>2. CodesKnown'
  BY <1>0, CodeTypes DEF CodesInv, CodesKnown
<1>3. ASSUME NEW k \in Visitor
      PROVE  MailIsNew(k)'
  BY <1>0 DEF CodesInv, MailIsNew, OtherVisits
<1>4. ASSUME NEW j \in CodeKey \ {key}, NEW k \in Visitor
      PROVE  InHand(k, j)' = InHand(k, j) /\ (InHand(k, j) => visit'[k] = visit[k])
  BY <1>0, <1>4 DEF InHand, OtherVisits
<1>5. ASSUME NEW j \in CodeKey \ {key}, j \notin raced'
      PROVE  ResetInHand(j)'
  <2>1. ResetInHand(j)
    BY <1>0, <1>5 DEF CodesInv
  <2>2. QED
    BY <1>0, <1>4, <2>1 DEF ResetInHand
<1>6. ASSUME key \notin raced'
      PROVE  ResetInHand(key)'
  <2>1. ResetInHand(key)
    BY <1>0, <1>6 DEF CodesInv
  <2>2. \A k \in Visitor : ~InHand(k, key)
    BY <1>0, <1>6 DEF ResetBegun, InHand
  <2>3. \A k \in Visitor \ {h} : ~InHand(k, key)'
    BY <2>2 DEF InHand, OtherVisits, Began
  <2>4. \A d \in 1..MaxCodes : resets[key][d] > 0 => resets[key][d] = 1 /\ verificationMap[key].code # d
    BY <2>1, <2>2 DEF ResetInHand
  <2>5. c \in 1..MaxCodes
    BY <1>0, CodeTypes
  <2>6. resets[key][c] = 0
    BY <1>0, <2>4, <2>5, CodeTypes
  <2>7. QED
    BY <1>0, <2>3, <2>4, <2>6 DEF ResetInHand
<1>7. QED
  BY <1>1, <1>2, <1>3, <1>5, <1>6 DEF CodesInv

LEMMA CodesWhenMailed ==
  ASSUME IdentitiesAssumption, IdentitiesTypeOK, \A k \in Visitor : VisitIs(k), CodesInv, NEW h \in Visitor, Mails(h)
  PROVE  CodesInv'
<1>1. PICK key \in CodeKey :
        /\ visit[h].pc = "mail" /\ key \in visit[h].keys /\ Left(h)
        /\ verificationMap'[key] # NoCode /\ verificationMap'[key].code = visit[h].code
        /\ \A k \in CodeKey \ {key} :
             verificationMap'[k] = verificationMap[k] \/ (verificationMap'[k] = NoCode /\ Old(verificationMap[k]))
        /\ mailed'[key] = verificationMap'[key] /\ \A k \in CodeKey \ {key} : mailed'[k] = mailed[k]
        /\ UNCHANGED <<minutes, codes, resets, dropped, raced>>
  BY DEF Mails
<1>2. OtherVisits(h) /\ visit'[h].pc = "idle"
  BY <1>1, WaitingIsState DEF Left
<1>3. visit[h].code \in 1..codes /\ MailIsNew(h)
  BY <1>1 DEF VisitIs, CodesInv
<1>4. \A k \in CodeKey \ {key} : verificationMap'[k] = verificationMap[k] \/ verificationMap'[k].code = 0
  BY <1>1, CodeTypes
<1>5. MapAsMailed'
  <2>1. mailed'[key].code # 0
    BY <1>1, <1>3, CodeTypes
  <2>2. QED
    BY <1>1, <2>1 DEF CodesInv, MapAsMailed, Old
<1>6. CodesKnown'
  BY <1>1, <1>3, <1>4, CodeTypes DEF CodesInv, CodesKnown
<1>7. ASSUME NEW k \in Visitor, visit'[k].pc = "mail"
      PROVE  MailIsNew(k)'
  <2>1. k # h /\ visit[k].pc = "mail" /\ visit'[k] = visit[k] /\ MailIsNew(k)
    BY <1>2, <1>7 DEF CodesInv, OtherVisits
  <2>2. visit[k].code # visit[h].code /\ visit[k].code \in 1..codes
    BY <1>1, <2>1 DEF MailIsNew, VisitIs
  <2>3. \A j \in CodeKey : verificationMap'[j].code # visit[k].code
    BY <1>1, <1>4, <2>1, <2>2 DEF MailIsNew
  <2>4. QED
    BY <1>1, <1>2, <2>1, <2>3 DEF MailIsNew, OtherVisits
<1>8. \A k \in Visitor : MailIsNew(k)'
  BY <1>7 DEF MailIsNew
<1>9. ASSUME NEW j \in CodeKey, NEW k \in Visitor
      PROVE  InHand(k, j)' = InHand(k, j) /\ (InHand(k, j) => visit'[k] = visit[k])
  BY <1>1, <1>2 DEF InHand, OtherVisits
<1>10. ASSUME NEW j \in CodeKey, j \notin raced'
       PROVE  ResetInHand(j)'
  <2>1. ResetInHand(j)
    BY <1>1, <1>10 DEF CodesInv
  <2>2. ASSUME NEW c \in 1..MaxCodes, resets[j][c] > 0, verificationMap'[j].code = c
        PROVE  verificationMap[j].code = c
    <3>1. resets[key][visit[h].code] = 0
      BY <1>1, <1>3 DEF MailIsNew
    <3>2. j # key
      BY <1>1, <2>2, <3>1
    <3>3. QED
      BY <1>4, <2>2, <3>2
  <2>3. QED
    BY <1>1, <1>9, <2>1, <2>2 DEF ResetInHand
<1>11. QED
  BY <1>5, <1>6, <1>8, <1>10 DEF CodesInv

LEMMA CodesWhenReset ==
  ASSUME IdentitiesAssumption, IdentitiesTypeOK, \A k \in Visitor : VisitIs(k), CodesInv, NEW h \in Visitor, Resets(h)
  PROVE  CodesInv'
<1> DEFINE c == visit[h].code
<1>1. PICK key \in CodeKey :
        /\ visit[h].pc = "reset" /\ key \in visit[h].keys /\ OtherVisits(h)
        /\ visit'[h].pc = "forget" /\ visit'[h].keys = visit[h].keys /\ visit'[h].code = c
        /\ resets'[key][c] = resets[key][c] + 1
        /\ \A k \in CodeKey, d \in 1..MaxCodes : k # key \/ d # c => resets'[k][d] = resets[k][d]
        /\ UNCHANGED <<verificationMap, mailed, minutes, codes, dropped, raced>>
  BY DEF Resets
<1>2. c \in 1..codes /\ c \in 1..MaxCodes /\ \A j \in visit[h].keys : j = key
  BY <1>1, CodeTypes DEF VisitIs
<1>3. MapAsMailed'
  BY <1>1 DEF CodesInv, MapAsMailed, Old
<1>4. CodesKnown'
  <2>1. ASSUME NEW j \in CodeKey, NEW d \in 1..MaxCodes, resets'[j][d] > 0
        PROVE  d <= codes
    BY <1>1, <1>2, <2>1, CodeTypes DEF CodesInv, CodesKnown
  <2>2. QED
    BY <1>1, <2>1 DEF CodesInv, CodesKnown
<1>5. ASSUME NEW k \in Visitor, visit'[k].pc = "mail"
      PROVE  MailIsNew(k)'
  <2>1. k # h /\ visit[k].pc = "mail" /\ visit'[k] = visit[k] /\ MailIsNew(k)
    BY <1>1, <1>5 DEF CodesInv, OtherVisits
  <2>2. visit[k].code # c /\ visit[k].code \in 1..MaxCodes
    BY <1>1, <2>1, CodeTypes DEF MailIsNew, VisitIs
  <2>3. \A j \in CodeKey : resets'[j][visit[k].code] = 0
    BY <1>1, <2>1, <2>2 DEF MailIsNew
  <2>4. \A j \in Visitor \ {k} : visit'[j].pc \in {"mail", "reset", "forget"} => visit'[j].code # visit[k].code
    BY <1>1, <2>1, <2>2 DEF MailIsNew, OtherVisits
  <2>5. QED
    BY <1>1, <2>1, <2>3, <2>4 DEF MailIsNew
<1>6. \A k \in Visitor : MailIsNew(k)'
  BY <1>5 DEF MailIsNew
<1>7. ASSUME NEW j \in CodeKey, NEW k \in Visitor
      PROVE  InHand(k, j)' = InHand(k, j)
  BY <1>1 DEF InHand, OtherVisits
<1>8. ASSUME NEW j \in CodeKey \ {key}, j \notin raced'
      PROVE  ResetInHand(j)'
  <2>1. ResetInHand(j)
    BY <1>1, <1>8 DEF CodesInv
  <2>2. \A k \in Visitor : InHand(k, j) => visit'[k] = visit[k]
    BY <1>1, <1>2 DEF InHand, OtherVisits
  <2>3. \A d \in 1..MaxCodes : resets'[j][d] = resets[j][d]
    BY <1>1
  <2>4. ASSUME NEW k \in Visitor, InHand(k, j), visit[k].pc = "reset"
        PROVE  resets'[j][visit[k].code] = 0
    <3>1. visit[k].code \in 1..MaxCodes
      BY <2>4, CodeTypes DEF VisitIs
    <3>2. QED
      BY <2>1, <2>3, <2>4, <3>1 DEF ResetInHand
  <2>5. QED
    BY <1>1, <1>7, <2>1, <2>2, <2>3, <2>4 DEF ResetInHand
<1>9. ASSUME key \notin raced'
      PROVE  ResetInHand(key)'
  <2>1. ResetInHand(key)
    BY <1>1, <1>9 DEF CodesInv
  <2>2. InHand(h, key) /\ resets[key][c] = 0
    BY <1>1, <2>1 DEF ResetInHand, InHand
  <2>3. \A k \in Visitor : InHand(k, key) => k = h
    BY <2>1, <2>2 DEF ResetInHand
  <2>4. ASSUME NEW d \in 1..MaxCodes, resets'[key][d] > 0
        PROVE  resets'[key][d] = 1 /\ (verificationMap[key].code = d => d = c)
    <3>1. CASE d = c
      BY <1>1, <2>2, <3>1
    <3>2. CASE d # c
      <4>1. resets'[key][d] = resets[key][d]
        BY <1>1, <3>2
      <4>2. resets[key][d] = 1 /\ (verificationMap[key].code = d =>
              \E k \in Visitor : InHand(k, key) /\ visit[k].pc = "forget" /\ visit[k].code = d)
        BY <2>1, <2>4, <4>1 DEF ResetInHand
      <4>3. QED
        BY <1>1, <2>3, <4>1, <4>2
    <3>3. QED
      BY <3>1, <3>2
  <2>5. QED
    BY <1>1, <1>7, <2>2, <2>3, <2>4 DEF ResetInHand
<1>10. QED
  BY <1>3, <1>4, <1>6, <1>8, <1>9 DEF CodesInv

LEMMA CodesWhenForgotten ==
  ASSUME IdentitiesAssumption, IdentitiesTypeOK, \A k \in Visitor : VisitIs(k), CodesInv, NEW h \in Visitor, Forgets(h)
  PROVE  CodesInv'
<1>1. PICK key \in CodeKey :
        /\ visit[h].pc = "forget" /\ key \in visit[h].keys /\ Left(h)
        /\ verificationMap'[key] = NoCode /\ dropped \subseteq dropped'
        /\ \/ mailed'[key] = NoCode
           \/ mailed'[key] = mailed[key] /\ mailed[key].code # visit[h].code
              /\ verificationMap[key].code \in dropped' \cup {0, visit[h].code}
        /\ \A k \in CodeKey \ {key} : verificationMap'[k] = verificationMap[k] /\ mailed'[k] = mailed[k]
        /\ UNCHANGED <<minutes, codes, resets, raced>>
  BY DEF Forgets
<1>2. OtherVisits(h) /\ visit'[h].pc = "idle"
  BY <1>1, WaitingIsState DEF Left
<1>3. \A j \in visit[h].keys : j = key
  BY <1>1 DEF VisitIs
<1>4. MapAsMailed'
  <2>1. ASSUME NEW j \in CodeKey \ {key}
        PROVE  /\ \/ verificationMap'[j] = mailed'[j]
                  \/ verificationMap'[j] = NoCode /\ (Old(mailed[j])' \/ mailed'[j].code \in dropped')
               /\ mailed'[j].code = 0 => mailed'[j] = NoCode
    BY <1>1 DEF CodesInv, MapAsMailed, Old
  <2>2. CASE mailed'[key] = NoCode
    BY <1>1, <2>1, <2>2 DEF MapAsMailed
  <2>3. CASE /\ mailed'[key] = mailed[key] /\ mailed[key].code # visit[h].code
             /\ verificationMap[key].code \in dropped' \cup {0, visit[h].code}
    <3>1. /\ \/ verificationMap[key] = mailed[key]
             \/ verificationMap[key] = NoCode /\ (Old(mailed[key]) \/ mailed[key].code \in dropped)
          /\ mailed[key].code = 0 => mailed[key] = NoCode
      BY DEF CodesInv, MapAsMailed
    <3>2. mailed'[key] = NoCode \/ Old(mailed[key])' \/ mailed'[key].code \in dropped'
      BY <1>1, <2>3, <3>1 DEF Old
    <3>3. QED
      BY <1>1, <2>1, <2>3, <3>1, <3>2 DEF MapAsMailed
  <2>4. QED
    BY <1>1, <2>2, <2>3
<1>5. CodesKnown'
  <2>1. \A j \in CodeKey : verificationMap'[j].code <= codes
    BY <1>1, CodeTypes DEF CodesInv, CodesKnown
  <2>2. QED
    BY <1>1, <2>1 DEF CodesInv, CodesKnown
<1>6. ASSUME NEW k \in Visitor, visit'[k].pc = "mail"
      PROVE  MailIsNew(k)'
  <2>1. k # h /\ visit[k].pc = "mail" /\ visit'[k] = visit[k] /\ MailIsNew(k)
    BY <1>2, <1>6 DEF CodesInv, OtherVisits
  <2>2. visit[k].code \in 1..codes
    BY <2>1 DEF VisitIs
  <2>3. \A j \in CodeKey : verificationMap'[j].code # visit[k].code
    BY <1>1, <2>1, <2>2, CodeTypes DEF MailIsNew
  <2>4. \A j \in Visitor \ {k} : visit'[j].pc \in {"mail", "reset", "forget"} => visit'[j].code # visit[k].code
    BY <1>2, <2>1 DEF MailIsNew, OtherVisits
  <2>5. QED
    BY <1>1, <2>1, <2>3, <2>4 DEF MailIsNew
<1>7. \A k \in Visitor : MailIsNew(k)'
  BY <1>6 DEF MailIsNew
<1>8. ASSUME NEW j \in CodeKey, NEW k \in Visitor \ {h}
      PROVE  InHand(k, j)' = InHand(k, j) /\ visit'[k] = visit[k]
  BY <1>2 DEF InHand, OtherVisits
<1>9. \A j \in CodeKey : ~InHand(h, j)' /\ (j # key => ~InHand(h, j))
  BY <1>2, <1>3 DEF InHand
<1>10. ASSUME NEW j \in CodeKey, j \notin raced'
       PROVE  ResetInHand(j)'
  <2>1. ResetInHand(j)
    BY <1>1, <1>10 DEF CodesInv
  <2>2. ASSUME NEW c \in 1..MaxCodes, verificationMap'[j].code = c
        PROVE  j # key /\ verificationMap[j].code = c
    BY <1>1, <2>2, CodeTypes
  <2>3. \A k, l \in Visitor : InHand(k, j)' /\ InHand(l, j)' => k = l
    BY <1>8, <1>9, <2>1 DEF ResetInHand
  <2>4. \A c \in 1..MaxCodes : resets[j][c] > 0 =>
          /\ resets[j][c] = 1
          /\ verificationMap'[j].code = c => \E k \in Visitor : InHand(k, j)' /\ visit'[k].pc = "forget" /\ visit'[k].code = c
    BY <1>8, <1>9, <2>1, <2>2 DEF ResetInHand
  <2>5. \A k \in Visitor : InHand(k, j)' /\ visit'[k].pc = "reset" => resets[j][visit'[k].code] = 0
    BY <1>8, <1>9, <2>1 DEF ResetInHand
  <2>6. QED
    BY <1>1, <2>3, <2>4, <2>5 DEF ResetInHand
<1>11. QED
  BY <1>4, <1>5, <1>7, <1>10 DEF CodesInv

LEMMA CodesStep ==
  ASSUME IdentitiesAssumption, IdentitiesTypeOK, \A k \in Visitor : VisitIs(k), CodesInv, [IdentitiesNext]_identityVars
  PROVE  CodesInv'
<1>1. CASE UNCHANGED identityVars
  BY <1>1 DEF identityVars, identityHistory, CodesInv, MapAsMailed, CodesKnown, MailIsNew, ResetInHand, InHand, Old
<1>2. CASE Minute
  <2>1. minutes' = minutes + 1 /\ UNCHANGED <<verificationMap, codes, visit, mailed, resets, dropped, raced>>
    BY <1>2 DEF Minute, identityHistory
  <2>2. MapAsMailed'
    BY <2>1, CodeTypes DEF CodesInv, MapAsMailed, Old
  <2>3. CodesKnown' /\ (\A h \in Visitor : MailIsNew(h)') /\ \A key \in CodeKey \ raced' : ResetInHand(key)'
    BY <2>1 DEF CodesInv, CodesKnown, MailIsNew, ResetInHand, InHand
  <2>4. QED
    BY <2>2, <2>3 DEF CodesInv
<1>3. ASSUME NEW h \in Visitor, Acts(h)
      PROVE  CodesInv'
  <2>1. OtherVisits(h) /\ codes' \in codes..MaxCodes /\ minutes' = minutes
    BY <1>3, ActsGoOn
  <2>2. CASE Mails(h) \/ Resets(h) \/ Forgets(h)
    BY <2>2, CodesWhenMailed, CodesWhenReset, CodesWhenForgotten
  <2>3. CASE Prepares(h) \/ TurnedAway(h) \/ Rewrites(h) \/ Changes(h)
    <3>1. visit[h].pc \in {"idle", "name", "read", "insert", "write"} /\ visit'[h].pc \in {"insert", "read", "write", "idle"}
      BY <2>3, WaitingIsState DEF Prepares, TurnedAway, Rewrites, Changes, ChangesTo, Left
    <3>2. UNCHANGED <<verificationMap, mailed, resets, dropped>> /\ raced \subseteq raced'
      BY <2>3 DEF Prepares, TurnedAway, Rewrites, Changes, ChangesTo, Becomes
    <3>3. QED
      BY <2>1, <3>1, <3>2, CodesQuiet
  <2>4. ASSUME NEW key \in Key, Began(h, key), CodeBegun(h, key) \/ SiteBegun(h, key)
        PROVE  CodesInv'
    <3>1. visit[h].pc = "idle" /\ visit'[h].pc \in {"insert", "read", "name"}
      BY <2>4 DEF Began, CodeBegun, SiteBegun
    <3>2. UNCHANGED <<verificationMap, mailed, resets, dropped>> /\ raced \subseteq raced'
      BY <2>4 DEF Began
    <3>3. QED
      BY <2>1, <3>1, <3>2, CodesQuiet
  <2>5. ASSUME NEW key \in Key, Began(h, key), MailBegun(h, key) \/ ResetBegun(h, key)
        PROVE  CodesInv'
    <3>1. key \in CodeKey
      BY <2>5 DEF MailBegun, ResetBegun
    <3>2. QED
      BY <2>5, <3>1, CodesWhenMailBegins, CodesWhenResetBegins
  <2>6. QED
    BY <1>3, <2>2, <2>3, <2>4, <2>5 DEF Acts, SetsOut
<1>4. QED
  BY <1>1, <1>2, <1>3, IdentitiesSteps

-----------------------------------------------------------------------------
(* Identities: the users.                                                  *)

LEMMA PeopleTypes ==
  ASSUME IdentitiesAssumption, IdentitiesTypeOK
  PROVE  /\ minutes \in Nat /\ VerificationValidMinutes \in Nat \ {0}
         /\ last \in 0..MaxUsers /\ MaxUsers \in Nat /\ Uid = 1..MaxUsers
         /\ \A u \in Uid : /\ person[u] \in Person /\ person[u].email \in Email \cup {NoEmail}
                           /\ gained[u].checked \in Nat /\ gained[u].written \in Nat
         /\ \A h \in Visitor : visit[h].keys \subseteq Key
<1>1. minutes \in Nat /\ VerificationValidMinutes \in Nat \ {0}
  BY CodeTypes
<1>2. last \in 0..MaxUsers /\ MaxUsers \in Nat /\ Uid = 1..MaxUsers
  BY DEF IdentitiesTypeOK, IdentitiesAssumption, Uid
<1>3. \A u \in Uid : person[u] \in Person /\ person[u].email \in Email \cup {NoEmail}
  BY DEF IdentitiesTypeOK, Person
<1>4. \A u \in Uid : gained[u].checked \in Nat /\ gained[u].written \in Nat
  BY DEF IdentitiesTypeOK
<1>5. \A h \in Visitor : visit[h].keys \subseteq Key
  BY DEF IdentitiesTypeOK, VisitState
<1>6. QED
  BY <1>1, <1>2, <1>3, <1>4, <1>5

\* A step that writes no user.
LEMMA PeopleStay ==
  ASSUME UNCHANGED <<person, gained, unasked>>, raced \subseteq raced', OneUserPerAccount, SharedOnlyByCode
  PROVE  OneUserPerAccount' /\ SharedOnlyByCode'
<1>1. OneUserPerAccount'
  BY DEF OneUserPerAccount
<1>2. SharedOnlyByCode'
  BY DEF SharedOnlyByCode
<1>3. QED
  BY <1>1, <1>2

LEMMA AheadStep ==
  ASSUME IdentitiesAssumption, IdentitiesTypeOK, \A k \in Visitor : VisitIs(k), NotAhead, NEW h \in Visitor, Acts(h)
  PROVE  NotAhead'
<1>1. minutes' = minutes /\ OtherVisits(h)
  BY ActsGoOn
<1>2. ASSUME NEW key \in CodeKey
      PROVE  verificationMap'[key].at <= minutes
  <2>1. CASE Mails(h)
    <3>1. \/ verificationMap'[key].at = minutes \/ verificationMap'[key] = verificationMap[key] \/ verificationMap'[key] = NoCode
      BY <2>1 DEF Mails
    <3>2. QED
      BY <3>1, CodeTypes DEF NotAhead
  <2>2. CASE Forgets(h)
    <3>1. verificationMap'[key] = verificationMap[key] \/ verificationMap'[key] = NoCode
      BY <2>2 DEF Forgets
    <3>2. QED
      BY <3>1, CodeTypes DEF NotAhead
  <2>3. CASE SetsOut(h) \/ Resets(h) \/ Prepares(h) \/ TurnedAway(h) \/ Rewrites(h) \/ Changes(h)
    <3>1. verificationMap' = verificationMap
      BY <2>3 DEF SetsOut, Began, Resets, Prepares, TurnedAway, Rewrites, Changes, ChangesTo
    <3>2. QED
      BY <3>1 DEF NotAhead
  <2>4. QED
    BY <2>1, <2>2, <2>3 DEF Acts
<1>3. visit'[h].at <= minutes
  <2>1. visit'[h].at = minutes \/ visit'[h].at = 0 \/ visit'[h].at = visit[h].at
    BY WaitingIsState DEF Acts, SetsOut, Began, Mails, Resets, Forgets, Prepares, TurnedAway, Rewrites, Changes, ChangesTo, Left
  <2>2. QED
    BY <2>1, PeopleTypes DEF NotAhead
<1>4. \A k \in Visitor : visit'[k].at <= minutes
  BY <1>1, <1>3 DEF NotAhead, OtherVisits
<1>5. ASSUME NEW w \in Uid
      PROVE  gained'[w].checked <= minutes /\ gained'[w].written <= minutes
  <2>1. CASE gained' = gained
    BY <2>1 DEF NotAhead
  <2>2. ASSUME NEW u \in Uid, NEW row \in Person, NEW unchecked \in SUBSET Key, ChangesTo(h, u, row, unchecked)
        PROVE  gained'[w].checked <= minutes /\ gained'[w].written <= minutes
    <3>1. Becomes(h, u, row, unchecked) /\ (row.name # Nobody.name => \A x \in Uid \ {u} : person[x].name # row.name)
      BY <2>2 DEF ChangesTo
    <3>2. gained'[w] = gained[w] \/ (gained'[w].checked = visit[h].at /\ gained'[w].written = minutes)
      BY <3>1, BecomesTyped
    <3>3. QED
      BY <3>2, PeopleTypes DEF NotAhead
  <2>3. gained' = gained \/ Changes(h)
    BY DEF Acts, SetsOut, Began, Mails, Resets, Forgets, Prepares, TurnedAway, Rewrites
  <2>4. QED
    BY <2>1, <2>2, <2>3 DEF Changes
<1>6. QED
  BY <1>1, <1>2, <1>4, <1>5 DEF NotAhead

\* A site's account is no code's key.
LEMMA KeysDiffer ==
  ASSUME NEW s \in Site, NEW x, NEW key \in CodeKey
  PROVE  key # <<s, x>>
BY KeysAre DEF Site, Purpose

\* A step of a handler that begins.
LEMMA PeopleWhenBegun ==
  ASSUME IdentitiesAssumption, IdentitiesTypeOK, \A k \in Visitor : VisitIs(k), PeopleInv, NEW h \in Visitor, NEW key \in Key,
         Began(h, key), MailBegun(h, key) \/ CodeBegun(h, key) \/ ResetBegun(h, key) \/ SiteBegun(h, key)
  PROVE  PeopleInv'
<1>1. /\ OtherVisits(h) /\ visit'[h].keys = {key} /\ visit'[h].at = minutes /\ raced \subseteq raced'
      /\ UNCHANGED <<minutes, person, last, verificationMap, gained, unasked>>
  BY DEF Began
<1>2. NotAhead'
  BY AheadStep DEF PeopleInv, Acts, SetsOut
<1>3. OneUserPerAccount' /\ SharedOnlyByCode'
  BY <1>1, PeopleStay DEF PeopleInv
<1>4. InHandFree(h)'
  <2>1. ASSUME NEW s \in Site, NEW x \in Account, <<s, x>> = key, NEW u \in Uid
        PROVE  person[u].id[s] # x
    <3>1. SiteBegun(h, key)
      BY <2>1, KeysDiffer, KeysAre DEF MailBegun, CodeBegun, ResetBegun
    <3>2. key[1] = s /\ key[2] = x
      BY <2>1
    <3>3. QED
      BY <3>1, <3>2 DEF SiteBegun
  <2>2. QED
    BY <1>1, <2>1 DEF InHandFree
<1>5. CopyIsTrue(h)'
  BY DEF CopyIsTrue, MailBegun, CodeBegun, ResetBegun, SiteBegun
<1>6. \A k \in Visitor \ {h} : InHandFree(k)' /\ CopyIsTrue(k)'
  BY <1>1 DEF PeopleInv, InHandFree, CopyIsTrue, OtherVisits
<1>7. ASSUME NEW e \in Email, NEW w \in Uid, <<"v", e>> \notin raced', person'[w].email = e
      PROVE  MailedBefore(e, w)'
  <2> DEFINE v == <<"v", e>>
  <2>1. MailedBefore(e, w) /\ person[w].email = e
    BY <1>1, <1>7 DEF PeopleInv
  <2>2. v \in CodeKey /\ v[1] = "v" /\ v[2] = e
    BY KeysAre
  <2> HIDE DEF v
  <2>3. visit'[h].pc = "mail" => v # key
    BY <2>1, <2>2 DEF MailBegun, CodeBegun, ResetBegun, SiteBegun
  <2>4. ASSUME visit'[h].pc \in {"insert", "read", "write"}, v = key
        PROVE  minutes - gained[w].written < VerificationValidMinutes
    <3>1. CASE CodeBegun(h, key)
      <4>1. verificationMap[v].at <= gained[w].written /\ ~Old(verificationMap[v])
        BY <2>1, <2>4, <3>1 DEF CodeBegun, MailedBefore, v
      <4>2. ~(minutes - verificationMap[v].at >= VerificationValidMinutes)
        BY <4>1 DEF Old
      <4>3. /\ minutes \in Nat /\ VerificationValidMinutes \in Nat /\ verificationMap[v].at \in Nat
            /\ gained[w].written \in Nat
        BY <2>2, CodeTypes, PeopleTypes
      <4>4. QED
        BY <4>1, <4>2, <4>3
    <3>2. CASE SiteBegun(h, key)
      BY <2>2, <2>4, <3>2, KeysAre, KeysDiffer DEF SiteBegun
    <3>3. QED
      BY <2>4, <3>1, <3>2 DEF MailBegun, ResetBegun
  <2>5. \A k \in Visitor : visit'[k].pc = "mail" => v \notin visit'[k].keys
    BY <1>1, <2>1, <2>3 DEF MailedBefore, OtherVisits, v
  <2>6. \A k \in Visitor : visit'[k].pc \in {"insert", "read", "write"} /\ v \in visit'[k].keys
          => visit'[k].at - gained[w].written < VerificationValidMinutes
    BY <1>1, <2>1, <2>4 DEF MailedBefore, OtherVisits, v
  <2>7. QED
    BY <1>1, <2>1, <2>5, <2>6 DEF MailedBefore, v
<1>8. QED
  BY <1>2, <1>3, <1>4, <1>5, <1>6, <1>7 DEF PeopleInv

\* One of a handler that goes on or leaves without a user to write.
LEMMA PeopleWhenGoing ==
  ASSUME IdentitiesAssumption, IdentitiesTypeOK, \A k \in Visitor : VisitIs(k), PeopleInv, NEW h \in Visitor,
         Mails(h) \/ Resets(h) \/ Forgets(h) \/ Prepares(h) \/ TurnedAway(h) \/ Rewrites(h)
  PROVE  PeopleInv'
<1>1. /\ OtherVisits(h) /\ visit' \in [Visitor -> VisitState] /\ UNCHANGED <<minutes, person, last, gained, raced, unasked>>
  BY DEF Mails, Resets, Forgets, Prepares, TurnedAway, Rewrites, Left
<1>2. NotAhead'
  BY AheadStep DEF PeopleInv, Acts
<1>3. OneUserPerAccount' /\ SharedOnlyByCode'
  BY <1>1, PeopleStay DEF PeopleInv
<1>4. visit'[h] = Waiting \/ visit'[h].keys = visit[h].keys \/ visit'[h].keys = {}
  BY DEF Mails, Resets, Forgets, Prepares, TurnedAway, Rewrites, Left
<1>5. visit'[h].keys \subseteq visit[h].keys
  BY <1>4, WaitingIsState
<1>6. InHandFree(h)'
  BY <1>1, <1>5 DEF PeopleInv, InHandFree
<1>7. CopyIsTrue(h)'
  <2>1. visit'[h].pc = "write" => visit'[h].row = person[visit'[h].who]
    BY WaitingIsState DEF Mails, Resets, Forgets, Prepares, TurnedAway, Rewrites, Left
  <2>2. QED
    BY <1>1, <2>1 DEF CopyIsTrue
<1>8. \A k \in Visitor \ {h} : InHandFree(k)' /\ CopyIsTrue(k)'
  BY <1>1 DEF PeopleInv, InHandFree, CopyIsTrue, OtherVisits
<1>9. ASSUME NEW e \in Email, NEW w \in Uid, <<"v", e>> \notin raced', person'[w].email = e
      PROVE  MailedBefore(e, w)'
  <2> DEFINE v == <<"v", e>>
  <2>1. MailedBefore(e, w)
    BY <1>1, <1>9 DEF PeopleInv
  <2>2. v \in CodeKey /\ v \notin IdKey
    BY KeysAre
  <2>3. visit'[h].pc # "mail"
    BY WaitingIsState DEF Mails, Resets, Forgets, Prepares, TurnedAway, Rewrites, Left
  <2>4. verificationMap'[v] = verificationMap[v] \/ verificationMap'[v] = NoCode
    <3>1. ASSUME NEW key \in CodeKey, visit[h].pc = "mail", key \in visit[h].keys
          PROVE  key # v
      BY <2>1, <3>1 DEF MailedBefore
    <3>2. QED
      BY <2>2, <3>1 DEF Mails, Resets, Forgets, Prepares, TurnedAway, Rewrites
  <2>5. visit'[h].pc \in {"insert", "read", "write"} /\ v \in visit'[h].keys =>
          visit'[h].at = visit[h].at /\ v \in visit[h].keys /\ visit[h].pc \in {"insert", "read", "write"}
    <3>1. CASE Prepares(h)
      <4>1. visit'[h].at = visit[h].at /\ visit'[h].keys = visit[h].keys /\ visit[h].pc \in {"name", "read"}
        BY <3>1 DEF Prepares
      <4>2. visit[h].pc = "name" => v \notin visit[h].keys
        BY <2>2 DEF VisitIs
      <4>3. QED
        BY <4>1, <4>2
    <3>2. CASE Mails(h) \/ Resets(h) \/ Forgets(h) \/ TurnedAway(h) \/ Rewrites(h)
      BY <3>2, WaitingIsState DEF Mails, Resets, Forgets, TurnedAway, Rewrites, Left
    <3>3. QED
      BY <3>1, <3>2
  <2> HIDE DEF v
  <2>6. /\ \A k \in Visitor : visit[k].pc = "mail" => v \notin visit[k].keys
        /\ verificationMap[v] # NoCode => verificationMap[v].at <= gained[w].written
        /\ \A k \in Visitor : visit[k].pc \in {"insert", "read", "write"} /\ v \in visit[k].keys
             => visit[k].at - gained[w].written < VerificationValidMinutes
    BY <2>1 DEF MailedBefore, v
  <2>7. /\ \A k \in Visitor : visit'[k].pc = "mail" => v \notin visit'[k].keys
        /\ verificationMap'[v] # NoCode => verificationMap'[v].at <= gained[w].written
        /\ \A k \in Visitor : visit'[k].pc \in {"insert", "read", "write"} /\ v \in visit'[k].keys
             => visit'[k].at - gained[w].written < VerificationValidMinutes
    BY <1>1, <2>3, <2>4, <2>5, <2>6 DEF OtherVisits
  <2>8. QED
    BY <1>1, <2>7 DEF MailedBefore, v
<1>10. QED
  BY <1>2, <1>3, <1>6, <1>7, <1>8, <1>9 DEF PeopleInv

\* A row that is written: what it gives its user was asked for, and was free or is a code's.
LEMMA RowGives ==
  ASSUME PeopleInv, NEW h \in Visitor, NEW u \in Uid, NEW row \in Person, NEW unchecked \in SUBSET Key,
         ChangesTo(h, u, row, unchecked), NEW key \in Gains(u, row), key \notin unchecked, key \notin raced,
         key \in {"v"} \X Email \/ key \in IdKey
  PROVE  key \in visit[h].keys /\ visit[h].pc \in {"insert", "write", "idle"}
<1>1. CopyIsTrue(h)
  BY DEF PeopleInv
<1>2. key \in visit[h].keys \/ (visit[h].pc = "write" /\ u = visit[h].who /\ key \in Columns(visit[h].row))
  BY DEF ChangesTo
<1>3. key \notin Columns(person[u])
  BY DEF Gains
<1>4. CASE visit[h].pc = "write" /\ u = visit[h].who /\ key \in Columns(visit[h].row)
  <2>1. CASE key \in {"v"} \X Email
    <3>1. PICK e \in Email : key = <<"v", e>>
      BY <2>1
    <3>2. visit[h].row.email = e /\ e # NoEmail
      BY <1>4, <3>1, ColumnsAre, IdentitiesAssumption DEF IdentitiesAssumption
    <3>3. person[u].email = e
      BY <1>1, <1>4, <3>1, <3>2 DEF CopyIsTrue
    <3>4. QED
      BY <1>3, <3>1, <3>3, ColumnsAre
  <2>2. CASE key \in IdKey
    <3>1. PICK s \in Site, x \in Account : key = <<s, x>>
      BY <2>2 DEF IdKey
    <3>2. visit[h].row.id[s] = x /\ x # NoAccount
      BY <1>4, <3>1, ColumnsAre, IdentitiesAssumption DEF IdentitiesAssumption
    <3>3. person[u].id[s] = x
      BY <1>1, <1>4, <3>1, <3>2 DEF CopyIsTrue
    <3>4. QED
      BY <1>3, <3>1, <3>3, ColumnsAre
  <2>3. QED
    BY <2>1, <2>2
<1>5. visit[h].pc \in {"insert", "write", "idle"}
  BY DEF ChangesTo
<1>6. QED
  BY <1>2, <1>4, <1>5

LEMMA PeopleWhenChanged ==
  ASSUME IdentitiesAssumption, IdentitiesTypeOK, \A k \in Visitor : VisitIs(k), PeopleInv, NEW h \in Visitor,
         NEW u \in Uid, NEW row \in Person, NEW unchecked \in SUBSET Key, ChangesTo(h, u, row, unchecked)
  PROVE  PeopleInv'
<1>1. /\ Becomes(h, u, row, unchecked) /\ OtherVisits(h) /\ visit'[h] = Waiting /\ UNCHANGED <<minutes, verificationMap>>
      /\ (row.name # Nobody.name => \A x \in Uid \ {u} : person[x].name # row.name)
  BY DEF ChangesTo, Left
<1>2. /\ person'[u] = row /\ \A w \in Uid \ {u} : person'[w] = person[w] /\ gained'[w] = gained[w]
      /\ row.email = person[u].email => gained'[u] = gained[u]
      /\ row.email # person[u].email => gained'[u].checked = visit[h].at /\ gained'[u].written = minutes
      /\ raced \subseteq raced'
  BY <1>1, BecomesTyped
<1>3. visit'[h].pc = "idle" /\ visit'[h].keys = {}
  BY <1>1, WaitingIsState
<1>4. visit[h].pc = "idle" => visit[h].keys = {}
  BY WaitingIsState DEF VisitIs
<1>5. NotAhead'
  BY AheadStep DEF PeopleInv, Acts, Changes
<1>6. OneUserPerAccount'
  <2>1. ASSUME NEW a \in Uid, NEW b \in Uid, NEW s \in Site, NEW x \in Account, a # b,
               person'[a].id[s] = x, person'[b].id[s] = x, a # u,
               <<s, x>> \notin raced', <<a, <<s, x>>>> \notin unasked', <<b, <<s, x>>>> \notin unasked'
        PROVE  FALSE
    <3> DEFINE key == <<s, x>>
    <3>1. person[a].id[s] = x /\ key \notin raced /\ key \in IdKey /\ <<a, key>> \notin unasked /\ x # NoAccount
      BY <1>1, <1>2, <2>1, StaysUnasked, KeysAre DEF IdentitiesAssumption
    <3>2. CASE person[b].id[s] = x
      <4>1. b = u => key \in Columns(row)
        BY <1>2, <2>1, ColumnsAre
      <4>2. <<b, key>> \notin unasked
        BY <1>1, <2>1, <4>1, StaysUnasked
      <4>3. QED
        BY <2>1, <3>1, <3>2, <4>2 DEF PeopleInv, OneUserPerAccount
    <3>3. CASE person[b].id[s] # x
      <4>1. b = u /\ row.id[s] = x
        BY <1>2, <2>1, <3>3
      <4>2. key \in Gains(u, row)
        BY <3>3, <4>1, GainsAre
      <4>3. key \notin unchecked
        BY <1>1, <2>1, <4>1, <4>2, StaysUnasked
      <4>4. key \in visit[h].keys
        BY <3>1, <4>2, <4>3, RowGives
      <4>5. QED
        BY <3>1, <4>4 DEF PeopleInv, InHandFree
    <3>4. QED
      BY <3>2, <3>3
  <2>2. ASSUME NEW a \in Uid, NEW b \in Uid, NEW s \in Site, a # b, person'[a].id[s] = person'[b].id[s],
               person'[a].id[s] # NoAccount, <<s, person'[a].id[s]>> \notin raced',
               <<a, <<s, person'[a].id[s]>>>> \notin unasked', <<b, <<s, person'[a].id[s]>>>> \notin unasked'
        PROVE  FALSE
    <3>1. person'[a] \in Person
      BY <1>1, BecomesTyped
    <3>2. person'[a].id[s] \in Account
      BY <2>2, <3>1 DEF Person
    <3>3. a # u \/ b # u
      BY <2>2
    <3>4. QED
      BY <2>1, <2>2, <3>2, <3>3
  <2>3. QED
    BY <2>2 DEF OneUserPerAccount
<1>7. SharedOnlyByCode'
  <2>1. ASSUME NEW a \in Uid, NEW b \in Uid, a # b, NEW e \in Email, person'[a].email = e, person'[b].email = e,
               gained'[b].written <= gained'[a].written, <<"v", e>> \notin raced', <<a, <<"v", e>>>> \notin unasked'
        PROVE  gained'[a].checked - gained'[b].written < VerificationValidMinutes
    <3> DEFINE v == <<"v", e>>
    <3>0. v \notin raced /\ v \in CodeKey /\ v \in Key /\ e # NoEmail
      BY <1>2, <2>1, KeysAre DEF IdentitiesAssumption
    <3>1. CASE a = u /\ row.email # person[u].email
      <4>1. row.email = e /\ person[b].email = e /\ gained'[b] = gained[b] /\ gained'[a].checked = visit[h].at
        BY <1>2, <2>1, <3>1
      <4>2. v \in Gains(u, row)
        BY <3>1, <4>1, GainsAre
      <4>3. v \notin unchecked
        BY <1>1, <2>1, <3>1, <4>2, StaysUnasked
      <4>4. v \in visit[h].keys /\ visit[h].pc \in {"insert", "write"}
        BY <1>4, <3>0, <4>2, <4>3, RowGives
      <4>5. MailedBefore(e, b)
        BY <3>0, <4>1 DEF PeopleInv
      <4>6. QED
        BY <4>1, <4>4, <4>5 DEF MailedBefore
    <3>2. CASE b = u /\ row.email # person[u].email
      <4>1. gained'[b].written = minutes /\ gained'[a] = gained[a]
        BY <1>2, <2>1, <3>2
      <4>2. gained[a].checked <= minutes
        BY DEF PeopleInv, NotAhead
      <4>3. QED
        BY <4>1, <4>2, PeopleTypes, SMTT(30)
    <3>3. CASE ~(u \in {a, b} /\ row.email # person[u].email)
      <4>1. person[a].email = e /\ person[b].email = e /\ gained'[a] = gained[a] /\ gained'[b] = gained[b]
        BY <1>2, <2>1, <3>3
      <4>2. a = u => v \in Columns(row)
        BY <1>2, <2>1, ColumnsAre
      <4>3. <<a, v>> \notin unasked
        BY <1>1, <2>1, <4>2, StaysUnasked
      <4>4. gained[b].written <= gained[a].written
        BY <2>1, <4>1
      <4>5. gained[a].checked - gained[b].written < VerificationValidMinutes
        BY <2>1, <3>0, <4>1, <4>3, <4>4 DEF PeopleInv, SharedOnlyByCode
      <4>6. QED
        BY <4>1, <4>5
    <3>4. QED
      BY <3>1, <3>2, <3>3
  <2>2. ASSUME NEW a \in Uid, person'[a].email # NoEmail
        PROVE  person'[a].email \in Email
    <3>1. person'[a] \in Person
      BY <1>1, BecomesTyped
    <3>2. QED
      BY <2>2, <3>1 DEF Person
  <2>3. QED
    BY <2>1, <2>2 DEF SharedOnlyByCode
<1>8. ASSUME NEW k \in Visitor \ {h}
      PROVE  InHandFree(k)'
  <2>1. ASSUME NEW s \in Site, NEW x \in Account, <<s, x>> \in visit[k].keys, <<s, x>> \notin raced', NEW w \in Uid
        PROVE  person'[w].id[s] # x
    <3>1. person[w].id[s] # x
      BY <1>2, <2>1 DEF PeopleInv, InHandFree
    <3>2. <<s, x>> \in Key
      BY KeysAre
    <3>3. <<s, x>> \notin Gains(u, row)
      BY <1>1, <2>1, <3>2, Spoils
    <3>4. w = u => row.id[s] # x
      BY <3>1, <3>3, GainsAre
    <3>5. QED
      BY <1>2, <3>1, <3>4
  <2>2. visit'[k] = visit[k]
    BY <1>1 DEF OtherVisits
  <2>3. QED
    BY <2>1, <2>2 DEF InHandFree
<1>9. ASSUME NEW k \in Visitor \ {h}
      PROVE  CopyIsTrue(k)'
  <2>1. visit'[k] = visit[k] /\ CopyIsTrue(k)
    BY <1>1 DEF OtherVisits, PeopleInv
  <2>2. visit[k].row \in Person
    BY DEF IdentitiesTypeOK, VisitState
  <2>3. visit[k].pc = "write" => visit[k].who \in Uid
    BY PeopleTypes DEF VisitIs
  <2>4. ASSUME visit[k].pc = "write", NEW s \in Site, visit[k].row.id[s] # NoAccount, <<s, visit[k].row.id[s]>> \notin raced'
        PROVE  person'[visit[k].who].id[s] = visit[k].row.id[s]
    <3>1. visit[k].row.id[s] \in Account
      BY <2>2, <2>4 DEF Person
    <3>2. <<s, visit[k].row.id[s]>> \in Key /\ <<s, visit[k].row.id[s]>> \in Columns(visit[k].row)
      BY <3>1, KeysAre, ColumnsAre
    <3>3. person[visit[k].who].id[s] = visit[k].row.id[s]
      BY <1>2, <2>1, <2>4 DEF CopyIsTrue
    <3>4. visit[k].who = u => <<s, visit[k].row.id[s]>> \in Columns(row)
      BY <1>1, <2>4, <3>2, Spoils
    <3>5. visit[k].who = u => row.id[s] = visit[k].row.id[s]
      BY <3>4, ColumnsAre
    <3>6. QED
      BY <1>2, <2>3, <2>4, <3>3, <3>5
  <2>5. ASSUME visit[k].pc = "write", visit[k].row.email # NoEmail, <<"v", visit[k].row.email>> \notin raced'
        PROVE  person'[visit[k].who].email = visit[k].row.email
    <3>1. visit[k].row.email \in Email
      BY <2>2, <2>5 DEF Person
    <3>2. <<"v", visit[k].row.email>> \in Key /\ <<"v", visit[k].row.email>> \in Columns(visit[k].row)
      BY <3>1, KeysAre, ColumnsAre
    <3>3. person[visit[k].who].email = visit[k].row.email
      BY <1>2, <2>1, <2>5 DEF CopyIsTrue
    <3>4. visit[k].who = u => <<"v", visit[k].row.email>> \in Columns(row)
      BY <1>1, <2>5, <3>2, Spoils
    <3>5. visit[k].who = u => row.email = visit[k].row.email
      BY <3>4, ColumnsAre
    <3>6. QED
      BY <1>2, <2>3, <2>5, <3>3, <3>5
  <2>6. QED
    BY <2>1, <2>4, <2>5 DEF CopyIsTrue
<1>10. ASSUME NEW e \in Email, NEW w \in Uid, <<"v", e>> \notin raced', person'[w].email = e
       PROVE  MailedBefore(e, w)'
  <2> DEFINE v == <<"v", e>>
  <2>1. v \in CodeKey /\ v \notin raced /\ v \in Key
    BY <1>2, <1>10, KeysAre
  <2>2. CASE w # u \/ row.email = person[u].email
    <3>1. MailedBefore(e, w) /\ gained'[w] = gained[w]
      BY <1>2, <1>10, <2>1, <2>2 DEF PeopleInv
    <3>2. QED
      BY <1>1, <1>3, <3>1 DEF MailedBefore, OtherVisits
  <2>3. CASE w = u /\ row.email # person[u].email
    <3>1. v \in Gains(u, row)
      BY <1>2, <1>10, <2>3, GainsAre
    <3>2. \A k \in Visitor \ {h} : v \notin visit[k].keys
      BY <1>1, <1>10, <2>1, <3>1, Spoils
    <3>3. \A k \in Visitor : v \notin visit'[k].keys
      BY <1>1, <1>3, <3>2 DEF OtherVisits
    <3>4. gained'[w].written = minutes /\ verificationMap[v].at <= minutes
      BY <1>2, <2>1, <2>3 DEF PeopleInv, NotAhead
    <3>5. QED
      BY <1>1, <3>3, <3>4 DEF MailedBefore
  <2>4. QED
    BY <2>2, <2>3
<1>11. InHandFree(h)' /\ CopyIsTrue(h)'
  BY <1>3 DEF InHandFree, CopyIsTrue
<1>12. QED
  BY <1>5, <1>6, <1>7, <1>8, <1>9, <1>10, <1>11 DEF PeopleInv

LEMMA PeopleStep ==
  ASSUME IdentitiesAssumption, IdentitiesTypeOK, \A k \in Visitor : VisitIs(k), PeopleInv, [IdentitiesNext]_identityVars
  PROVE  PeopleInv'
<1>1. CASE Minute \/ UNCHANGED identityVars
  <2>1. minutes' \in Nat /\ minutes <= minutes' /\ UNCHANGED <<person, last, verificationMap, visit, gained, raced, unasked>>
    BY <1>1, PeopleTypes DEF Minute, identityVars, identityHistory
  <2>2. NotAhead'
    <3>1. ASSUME NEW t \in Nat, t <= minutes
          PROVE  t <= minutes'
      BY <2>1, <3>1, PeopleTypes
    <3>2. QED
      BY <2>1, <3>1, CodeTypes, PeopleTypes DEF PeopleInv, NotAhead
  <2>3. OneUserPerAccount' /\ SharedOnlyByCode'
    BY <2>1, PeopleStay DEF PeopleInv
  <2>4. \A h \in Visitor : InHandFree(h)' /\ CopyIsTrue(h)'
    BY <2>1 DEF PeopleInv, InHandFree, CopyIsTrue
  <2>5. \A e \in Email, w \in Uid : <<"v", e>> \notin raced' /\ person'[w].email = e => MailedBefore(e, w)'
    BY <2>1 DEF PeopleInv, MailedBefore
  <2>6. QED
    BY <2>2, <2>3, <2>4, <2>5 DEF PeopleInv
<1>2. ASSUME NEW h \in Visitor, Acts(h)
      PROVE  PeopleInv'
  BY <1>2, PeopleWhenBegun, PeopleWhenGoing, PeopleWhenChanged DEF Acts, SetsOut, Changes
<1>3. QED
  BY <1>1, <1>2, IdentitiesSteps

-----------------------------------------------------------------------------
LEMMA IdentitiesInitial ==
  ASSUME IdentitiesAssumption, IdentitiesInit
  PROVE  IdentitiesInv
<1>0. /\ MaxUsers \in Nat \ {0} /\ MaxVisits \in Nat /\ MaxCodes \in Nat /\ MaxMinutes \in Nat
      /\ VerificationValidMinutes \in Nat \ {0}
  BY DEF IdentitiesAssumption
<1>1. /\ offered \in Offers /\ minutes = 0 /\ last = 1 /\ codes = 0 /\ visits = 0
      /\ verificationMap = [k \in CodeKey |-> NoCode] /\ visit = [h \in Visitor |-> Waiting]
      /\ gained = [u \in Uid |-> [checked |-> 0, written |-> 0]] /\ mailed = [k \in CodeKey |-> NoCode]
      /\ resets = [k \in CodeKey |-> [c \in 1..MaxCodes |-> 0]]
      /\ dropped = {} /\ raced = {} /\ unasked = {}
  BY DEF IdentitiesInit
<1>2. PICK e \in Email \cup {NoEmail} : person = [u \in Uid |-> IF u = 1 THEN [Nobody EXCEPT !.email = e] ELSE Nobody]
  BY DEF IdentitiesInit
<1>3. 1 \in Uid /\ Uid = 1..MaxUsers
  BY <1>0 DEF Uid
<1> DEFINE boss == [Nobody EXCEPT !.email = e]
<1>4. boss \in Person /\ boss.email = e /\ boss.name = Nobody.name /\ \A s \in Site : boss.id[s] = NoAccount
  BY DEF Nobody, Person
<1>5. person = [u \in Uid |-> IF u = 1 THEN boss ELSE Nobody]
  BY <1>2
<1> HIDE DEF boss
<1>6. /\ person \in [Uid -> Person] /\ \A u \in Uid : person[u].name = Nobody.name /\ \A s \in Site : person[u].id[s] = NoAccount
      /\ \A u \in Uid : u # 1 => person[u].email = NoEmail
  BY <1>4, <1>5, NobodyIsPerson
<1>7. NoCode \in [code: 0..MaxCodes, at: Nat] /\ NoCode.code = 0 /\ NoCode.at = 0
  BY <1>0 DEF NoCode
<1>8. /\ verificationMap \in [CodeKey -> [code: 0..MaxCodes, at: Nat]] /\ mailed \in [CodeKey -> [code: 0..MaxCodes, at: Nat]]
      /\ \A key \in CodeKey : verificationMap[key] = NoCode /\ mailed[key] = NoCode
  BY <1>1, <1>7
<1>9. /\ visit \in [Visitor -> VisitState]
      /\ \A h \in Visitor : visit[h] = Waiting /\ visit[h].pc = "idle" /\ visit[h].who = 0 /\ visit[h].keys = {}
                            /\ visit[h].row = Nobody /\ visit[h].at = 0
  BY <1>1, WaitingIsState
<1>10. /\ resets \in [CodeKey -> [1..MaxCodes -> Nat]]
       /\ \A key \in CodeKey, c \in 1..MaxCodes : resets[key][c] = 0
  BY <1>1
<1>11. gained \in [Uid -> [checked: Nat, written: Nat]] /\ \A u \in Uid : gained[u].checked = 0 /\ gained[u].written = 0
  BY <1>1
<1>12. IdentitiesTypeOK
  BY <1>0, <1>1, <1>3, <1>6, <1>8, <1>9, <1>10, <1>11 DEF IdentitiesTypeOK
<1>13. \A h \in Visitor : VisitIs(h)
  BY <1>9 DEF VisitIs
<1>14. CodesInv
  BY <1>1, <1>7, <1>8, <1>9, <1>10 DEF CodesInv, MapAsMailed, CodesKnown, MailIsNew, ResetInHand, InHand
<1>15. NotAhead
  BY <1>1, <1>7, <1>8, <1>9, <1>11 DEF NotAhead
<1>16. OneUserPerAccount
  BY <1>6 DEF OneUserPerAccount
<1>17. SharedOnlyByCode
  BY <1>0, <1>3, <1>6 DEF SharedOnlyByCode
<1>18. ASSUME NEW h \in Visitor
       PROVE  InHandFree(h) /\ CopyIsTrue(h)
  BY <1>9 DEF InHandFree, CopyIsTrue
<1>19. ASSUME NEW f \in Email, NEW w \in Uid
       PROVE  MailedBefore(f, w)
  <2>1. <<"v", f>> \in CodeKey
    BY KeysAre
  <2>2. QED
    BY <1>8, <1>9, <2>1 DEF MailedBefore
<1>20. QED
  BY <1>12, <1>13, <1>14, <1>15, <1>16, <1>17, <1>18, <1>19 DEF IdentitiesInv, PeopleInv

LEMMA IdentitiesInvariant == IdentitiesSpec => []IdentitiesInv
<1>1. IdentitiesInit => IdentitiesInv
  BY IdentitiesInitial, IdentitiesAssumption
<1>2. IdentitiesInv /\ [IdentitiesNext]_identityVars => IdentitiesInv'
  BY IdentitiesTypesStep, CodesStep, PeopleStep, IdentitiesAssumption DEF IdentitiesInv
<1>3. QED
  BY <1>1, <1>2, PTL DEF IdentitiesSpec

\* GetCode, VerifyCodeWithKey, DeleteKey of common/verification.go: a code is good only while it is the last one
\* mailed for its address and purpose, is not old and not used up; and while it is, only a reset that had an older
\* code in hand and deleted this one takes it away: the purge of a full map never does.
THEOREM CodesGoodAsMailed == IdentitiesSpec => []CodesAsMailed
<1>1. ASSUME IdentitiesTypeOK, MapAsMailed
      PROVE  CodesAsMailed
  <2>1. ASSUME NEW key \in CodeKey, NEW c \in 1..MaxCodes
        PROVE  /\ VerifyCodeWithKey(key, c) => mailed[key].code = c /\ ~Old(mailed[key])
               /\ mailed[key].code = c /\ ~Old(mailed[key]) => VerifyCodeWithKey(key, c) \/ c \in dropped
    <3>1. c # 0 /\ NoCode.code = 0
      BY DEF NoCode
    <3>2. CASE verificationMap[key] = mailed[key]
      BY <3>1, <3>2 DEF VerifyCodeWithKey
    <3>3. CASE verificationMap[key] = NoCode /\ (Old(mailed[key]) \/ mailed[key].code \in dropped)
      BY <3>3 DEF VerifyCodeWithKey
    <3>4. QED
      BY <1>1, <3>2, <3>3 DEF MapAsMailed
  <2>2. QED
    BY <2>1 DEF CodesAsMailed
<1>2. IdentitiesInv => CodesAsMailed
  BY <1>1 DEF IdentitiesInv, CodesInv
<1>3. QED
  BY <1>2, IdentitiesInvariant, PTL

\* ResetPassword of controller/misc.go looks at the code in one step and deletes it in another: a code resets a
\* password twice only when two requests had it in hand together.
THEOREM CodesResetOnce == IdentitiesSpec => []ResetsOnce
<1>1. ASSUME IdentitiesTypeOK, CodesInv
      PROVE  ResetsOnce
  <2>1. ASSUME NEW key \in {"r"} \X Email, NEW c \in 1..MaxCodes, resets[key][c] > 1, key \notin raced
        PROVE  FALSE
    <3>1. key \in CodeKey
      BY DEF CodeKey, Purpose
    <3>2. ResetInHand(key) /\ resets[key][c] \in Nat
      BY <1>1, <2>1, <3>1 DEF CodesInv, IdentitiesTypeOK
    <3>3. QED
      BY <2>1, <3>2 DEF ResetInHand
  <2>2. QED
    BY <2>1 DEF ResetsOnce
<1>2. IdentitiesInv => ResetsOnce
  BY <1>1 DEF IdentitiesInv
<1>3. QED
  BY <1>2, IdentitiesInvariant, PTL

\* GitHubOAuth, OidcAuth, LarkOAuth, WeChatAuth and the binds ask whether an account is taken before they write
\* it: two users share one only when one of these took it while another had found it free, when a handler wrote
\* back a copy of a row from which it had been taken, or when UpdateUser, which does not ask, gave it to one.
THEOREM AccountsNotShared == IdentitiesSpec => []OneUserPerAccount
<1>1. IdentitiesInv => OneUserPerAccount
  BY DEF IdentitiesInv, PeopleInv
<1>2. QED
  BY <1>1, IdentitiesInvariant, PTL

\* EmailBind and Register do not ask whether an address is taken: whoever gets one that is in use has checked its
\* code less than a code's life after the other got it, unless handlers raced for that address, or a site or
\* UpdateUser gave it.
THEOREM AddressesSharedByCode == IdentitiesSpec => []SharedOnlyByCode
<1>1. IdentitiesInv => SharedOnlyByCode
  BY DEF IdentitiesInv, PeopleInv
<1>2. QED
  BY <1>1, IdentitiesInvariant, PTL

-----------------------------------------------------------------------------
(* Redemption: the invariant and the proof.                                *)

\* An enabled code has one payment left ...
PaymentsLeft(c) == IF redemption[c].status = "enabled" THEN 1 ELSE 0
PaymentsInv == \A c \in Code : paid[c] + PaymentsLeft(c) <= 1 + revived[c]

\* ... a code that is still to be added has none behind it ...
NewCodesInv == \A c \in Code : redemption[c].status = "new" => paid[c] = 0 /\ revived[c] = 0

\* ... and whoever pays has seen the code enabled; nobody writes a row that is not there.
RedeemersInv ==
  \A h \in Redeemer :
    /\ redeem[h].pc = "pay" => redeem[h].seen.status = "enabled" /\ redeem[h].row.status = "used"
    /\ redeem[h].pc = "save" => redeem[h].row.status \notin {"new", "deleted"}

RedemptionInv == RedemptionTypeOK /\ PaymentsInv /\ NewCodesInv /\ RedeemersInv

RedeemerRow == [pc: {"idle", "pay", "save"}, code: SUBSET Code, row: CodeRow, seen: CodeRow]

\* Every step keeps the types.
LEMMA RedemptionTypesKept ==
  ASSUME RedemptionTypeOK, [RedemptionNext]_redemptionVars
  PROVE  RedemptionTypeOK'
<1> USE DEF RedemptionTypeOK
<1>0. /\ Amount \subseteq Nat /\ Free \in RedeemerRow /\ MaxTries \in Nat
      /\ \A h \in Redeemer : redeem[h] \in RedeemerRow
      /\ \A c \in Code : redemption[c] \in CodeRow
  BY RedemptionAssumption DEF Free, RedeemerRow, CodeRow, NoRow, CodeStatus
<1>t. ASSUME NEW h \in Redeemer, NEW op, Tries(h, op)
      PROVE  tries' \in 0..MaxTries /\ codeMix' \in CodeMixes
  BY <1>0, <1>t DEF Tries
<1>h. ASSUME NEW h \in Redeemer, NEW r \in RedeemerRow, redeem' = [redeem EXCEPT ![h] = r]
      PROVE  redeem' \in [Redeemer -> RedeemerRow]
  BY <1>h DEF RedeemerRow
<1>r. ASSUME NEW c \in Code, NEW r \in CodeRow, redemption' = [redemption EXCEPT ![c] = r]
      PROVE  redemption' \in [Code -> CodeRow]
  BY <1>r
<1>1. ASSUME NEW h \in Redeemer, AddRedemption(h)
      PROVE  RedemptionTypeOK'
  <2>1. PICK c \in Code, q \in Amount : redemption' = [redemption EXCEPT ![c] = [status |-> "enabled", quota |-> q]]
    BY <1>1 DEF AddRedemption
  <2>2. [status |-> "enabled", quota |-> q] \in CodeRow
    BY <1>0 DEF CodeRow, CodeStatus
  <2> QED BY <1>r, <1>t, <1>1, <2>1, <2>2 DEF AddRedemption
<1>2. ASSUME NEW h \in Redeemer, BeginRedeem(h)
      PROVE  RedemptionTypeOK'
  <2>1. PICK c \in Code : redeem' = [redeem EXCEPT ![h] = [pc |-> "pay", code |-> {c}, seen |-> redemption[c],
                                        row |-> [redemption[c] EXCEPT !.status = "used"]]]
    BY <1>2 DEF BeginRedeem
  <2>2. [pc |-> "pay", code |-> {c}, seen |-> redemption[c],
         row |-> [redemption[c] EXCEPT !.status = "used"]] \in RedeemerRow
    BY <1>0 DEF RedeemerRow, CodeRow, CodeStatus
  <2>3. redeem' \in [Redeemer -> RedeemerRow]
    BY <1>h, <2>1, <2>2
  <2> QED BY <1>t, <1>2, <2>3 DEF BeginRedeem, RedeemerRow
<1>3. ASSUME NEW h \in Redeemer, Commit(h)
      PROVE  RedemptionTypeOK'
  <2>1. PICK c \in redeem[h].code :
          /\ redemption' = [redemption EXCEPT ![c] = redeem[h].row]
          /\ balance' = balance + redeem[h].row.quota
          /\ paid' = [paid EXCEPT ![c] = paid[c] + 1]
          /\ redeem' = [redeem EXCEPT ![h] = Free]
    BY <1>3 DEF Commit
  <2>2. c \in Code /\ redeem[h].row \in CodeRow /\ redeem[h].row.quota \in Nat
    BY <1>0 DEF RedeemerRow, CodeRow
  <2>3. redeem' \in [Redeemer -> RedeemerRow]
    BY <1>0, <1>h, <2>1
  <2>4. balance' \in Nat /\ paid' \in [Code -> Nat]
    BY <2>1, <2>2
  <2> QED BY <1>r, <1>3, <2>1, <2>2, <2>3, <2>4 DEF Commit, RedeemerRow
<1>4. ASSUME NEW h \in Redeemer, Rollback(h)
      PROVE  RedemptionTypeOK'
  <2>1. redeem' \in [Redeemer -> RedeemerRow]
    BY <1>0, <1>h, <1>4 DEF Rollback
  <2> QED BY <1>4, <2>1 DEF Rollback, RedeemerRow
<1>5. ASSUME NEW h \in Redeemer, ReadRedemption(h)
      PROVE  RedemptionTypeOK'
  <2>1. PICK c \in Code, s \in {"enabled", "disabled"}, q \in Amount, only \in BOOLEAN :
          redeem' = [redeem EXCEPT ![h] = [pc |-> "save", code |-> {c}, seen |-> redemption[c],
            row |-> IF only THEN [redemption[c] EXCEPT !.status = s] ELSE [redemption[c] EXCEPT !.quota = q]]]
    BY <1>5 DEF ReadRedemption
  <2>2. [redemption[c] EXCEPT !.status = s] \in CodeRow /\ [redemption[c] EXCEPT !.quota = q] \in CodeRow
    BY <1>0 DEF CodeRow, CodeStatus
  <2>3. (IF only THEN [redemption[c] EXCEPT !.status = s] ELSE [redemption[c] EXCEPT !.quota = q]) \in CodeRow
    BY <2>2
  <2>4. [pc |-> "save", code |-> {c}, seen |-> redemption[c],
         row |-> IF only THEN [redemption[c] EXCEPT !.status = s] ELSE [redemption[c] EXCEPT !.quota = q]] \in RedeemerRow
    BY <1>0, <2>3 DEF RedeemerRow
  <2>5. redeem' \in [Redeemer -> RedeemerRow]
    BY <1>h, <2>1, <2>4
  <2> QED BY <1>t, <1>5, <2>5 DEF ReadRedemption, RedeemerRow
<1>6. ASSUME NEW h \in Redeemer, SaveRedemption(h)
      PROVE  RedemptionTypeOK'
  <2>1. PICK c \in redeem[h].code :
          LET there == There(redemption[c]) IN
          /\ redemption' = IF there THEN [redemption EXCEPT ![c] = redeem[h].row] ELSE redemption
          /\ revived' = IF there /\ redemption[c].status # "enabled" /\ redeem[h].row.status = "enabled"
                        THEN [revived EXCEPT ![c] = revived[c] + 1] ELSE revived
          /\ redeem' = [redeem EXCEPT ![h] = Free]
    BY <1>6 DEF SaveRedemption
  <2>2. c \in Code /\ redeem[h].row \in CodeRow
    BY <1>0 DEF RedeemerRow
  <2>3. redeem' \in [Redeemer -> RedeemerRow]
    BY <1>0, <1>h, <2>1
  <2>4. redemption' \in [Code -> CodeRow]
    BY <1>r, <2>1, <2>2
  <2>5. revived' \in [Code -> Nat]
    BY <2>1, <2>2
  <2> QED BY <1>6, <2>3, <2>4, <2>5 DEF SaveRedemption, RedeemerRow
<1>7. ASSUME NEW h \in Redeemer, DeleteRedemption(h)
      PROVE  RedemptionTypeOK'
  <2>1. PICK c \in Code : redemption' = [redemption EXCEPT ![c].status = "deleted"]
    BY <1>7 DEF DeleteRedemption
  <2>2. [redemption[c] EXCEPT !.status = "deleted"] \in CodeRow
    BY <1>0 DEF CodeRow, CodeStatus
  <2>3. redemption' \in [Code -> CodeRow]
    BY <1>r, <2>1, <2>2
  <2> QED BY <1>t, <1>7, <2>3 DEF DeleteRedemption
<1>8. CASE UNCHANGED redemptionVars
  BY <1>8 DEF redemptionVars
<1> QED BY <1>1, <1>2, <1>3, <1>4, <1>5, <1>6, <1>7, <1>8 DEF RedemptionNext

\* Every step keeps the account of payments, where the database serializes.
LEMMA RedemptionInvKept ==
  ASSUME Serializes, RedemptionInv, [RedemptionNext]_redemptionVars
  PROVE  RedemptionInv'
<1>1. RedemptionTypeOK /\ RedemptionTypeOK'
  BY RedemptionTypesKept DEF RedemptionInv
<1>2. PaymentsInv /\ NewCodesInv /\ RedeemersInv
  BY DEF RedemptionInv
<1>3. \A h \in Redeemer : redeem[h].code \subseteq Code
  BY <1>1 DEF RedemptionTypeOK
<1>4. /\ redemption \in [Code -> CodeRow]
      /\ \A c \in Code : paid[c] \in Nat /\ revived[c] \in Nat
      /\ paid \in [Code -> Nat] /\ revived \in [Code -> Nat]
      /\ redeem \in [Redeemer -> RedeemerRow]
  BY <1>1 DEF RedemptionTypeOK, RedeemerRow
<1>5. ASSUME NEW h \in Redeemer, AddRedemption(h)
      PROVE  PaymentsInv' /\ NewCodesInv' /\ RedeemersInv'
  <2>1. PICK c \in Code, q \in Amount :
          /\ redemption[c].status = "new"
          /\ redemption' = [redemption EXCEPT ![c] = [status |-> "enabled", quota |-> q]]
          /\ UNCHANGED <<redeem, paid, revived>>
    BY <1>5 DEF AddRedemption
  <2>2. \A d \in Code : redemption'[d] = IF d = c THEN [status |-> "enabled", quota |-> q] ELSE redemption[d]
    BY <1>4, <2>1
  <2>3. PaymentsInv'
    BY <1>2, <1>4, <2>1, <2>2 DEF PaymentsInv, NewCodesInv, PaymentsLeft
  <2>4. NewCodesInv'
    BY <1>2, <2>1, <2>2 DEF NewCodesInv
  <2> QED BY <1>2, <2>1, <2>3, <2>4 DEF RedeemersInv
<1>6. ASSUME NEW h \in Redeemer, BeginRedeem(h)
      PROVE  PaymentsInv' /\ NewCodesInv' /\ RedeemersInv'
  <2>1. PICK c \in Code :
          /\ redemption[c].status = "enabled"
          /\ redeem' = [redeem EXCEPT ![h] = [pc |-> "pay", code |-> {c}, seen |-> redemption[c],
                                        row |-> [redemption[c] EXCEPT !.status = "used"]]]
          /\ UNCHANGED <<redemption, paid, revived>>
    BY <1>6 DEF BeginRedeem, Redeemable
  <2>2. [redemption[c] EXCEPT !.status = "used"].status = "used"
    BY <1>4 DEF CodeRow
  <2>3. RedeemersInv'
    BY <1>2, <1>4, <2>1, <2>2 DEF RedeemersInv
  <2> QED BY <1>2, <2>1, <2>3 DEF PaymentsInv, NewCodesInv, PaymentsLeft
<1>7. ASSUME NEW h \in Redeemer, Commit(h)
      PROVE  PaymentsInv' /\ NewCodesInv' /\ RedeemersInv'
  <2>1. PICK c \in redeem[h].code :
          /\ redeem[h].pc = "pay"
          /\ redemption[c] = redeem[h].seen
          /\ redemption' = [redemption EXCEPT ![c] = redeem[h].row]
          /\ paid' = [paid EXCEPT ![c] = paid[c] + 1]
          /\ redeem' = [redeem EXCEPT ![h] = Free]
          /\ UNCHANGED revived
    BY <1>7 DEF Commit
  <2>2. c \in Code /\ redemption[c].status = "enabled" /\ redeem[h].row.status = "used"
    BY <1>2, <1>3, <2>1 DEF RedeemersInv
  <2>3. \A d \in Code : /\ redemption'[d] = IF d = c THEN redeem[h].row ELSE redemption[d]
                        /\ paid'[d] = IF d = c THEN paid[c] + 1 ELSE paid[d]
    BY <1>4, <2>1, <2>2
  <2>4. PaymentsInv'
    BY <1>2, <1>4, <2>1, <2>2, <2>3 DEF PaymentsInv, PaymentsLeft
  <2>5. NewCodesInv'
    BY <1>2, <2>1, <2>2, <2>3 DEF NewCodesInv
  <2>6. RedeemersInv'
    BY <1>2, <1>4, <2>1 DEF RedeemersInv, Free
  <2> QED BY <2>4, <2>5, <2>6
<1>8. ASSUME NEW h \in Redeemer, Rollback(h)
      PROVE  PaymentsInv' /\ NewCodesInv' /\ RedeemersInv'
  <2>1. redeem' = [redeem EXCEPT ![h] = Free] /\ UNCHANGED <<redemption, paid, revived>>
    BY <1>8 DEF Rollback
  <2>2. RedeemersInv'
    BY <1>2, <1>4, <2>1 DEF RedeemersInv, Free
  <2> QED BY <1>2, <2>1, <2>2 DEF PaymentsInv, NewCodesInv, PaymentsLeft
<1>9. ASSUME NEW h \in Redeemer, ReadRedemption(h)
      PROVE  PaymentsInv' /\ NewCodesInv' /\ RedeemersInv'
  <2>1. PICK c \in Code, s \in {"enabled", "disabled"}, q \in Amount, only \in BOOLEAN :
          /\ There(redemption[c])
          /\ redeem' = [redeem EXCEPT ![h] = [pc |-> "save", code |-> {c}, seen |-> redemption[c],
               row |-> IF only THEN [redemption[c] EXCEPT !.status = s] ELSE [redemption[c] EXCEPT !.quota = q]]]
          /\ UNCHANGED <<redemption, paid, revived>>
    BY <1>9 DEF ReadRedemption
  <2> DEFINE row == IF only THEN [redemption[c] EXCEPT !.status = s] ELSE [redemption[c] EXCEPT !.quota = q]
  <2>2. row.status \notin {"new", "deleted"}
    BY <1>4, <2>1 DEF CodeRow, There
  <2>3. RedeemersInv'
    BY <1>2, <1>4, <2>1, <2>2 DEF RedeemersInv
  <2> QED BY <1>2, <2>1, <2>3 DEF PaymentsInv, NewCodesInv, PaymentsLeft
<1>10. ASSUME NEW h \in Redeemer, SaveRedemption(h)
       PROVE  PaymentsInv' /\ NewCodesInv' /\ RedeemersInv'
  <2>1. PICK c \in redeem[h].code :
          LET there == There(redemption[c]) IN
          /\ redeem[h].pc = "save"
          /\ redemption' = IF there THEN [redemption EXCEPT ![c] = redeem[h].row] ELSE redemption
          /\ revived' = IF there /\ redemption[c].status # "enabled" /\ redeem[h].row.status = "enabled"
                        THEN [revived EXCEPT ![c] = revived[c] + 1] ELSE revived
          /\ redeem' = [redeem EXCEPT ![h] = Free]
          /\ UNCHANGED paid
    BY <1>10 DEF SaveRedemption
  <2>2. c \in Code /\ redeem[h].row.status \notin {"new", "deleted"}
    BY <1>2, <1>3, <2>1 DEF RedeemersInv
  <2>3. RedeemersInv'
    BY <1>2, <1>4, <2>1 DEF RedeemersInv, Free
  <2>4. CASE There(redemption[c])
    <3>1. \A d \in Code : redemption'[d] = IF d = c THEN redeem[h].row ELSE redemption[d]
      BY <1>4, <2>1, <2>2, <2>4
    <3>2. \A d \in Code :
            revived'[d] = IF d = c /\ redemption[c].status # "enabled" /\ redeem[h].row.status = "enabled"
                          THEN revived[c] + 1 ELSE revived[d]
      BY <1>4, <2>1, <2>2, <2>4
    <3>3. PaymentsInv'
      BY <1>2, <1>4, <2>1, <2>2, <3>1, <3>2 DEF PaymentsInv, PaymentsLeft
    <3>4. NewCodesInv'
      BY <1>2, <2>1, <2>2, <3>1, <3>2 DEF NewCodesInv
    <3> QED BY <2>3, <3>3, <3>4
  <2>5. CASE ~There(redemption[c])
    BY <1>2, <2>1, <2>3, <2>5 DEF PaymentsInv, NewCodesInv, PaymentsLeft
  <2> QED BY <2>4, <2>5
<1>11. ASSUME NEW h \in Redeemer, DeleteRedemption(h)
       PROVE  PaymentsInv' /\ NewCodesInv' /\ RedeemersInv'
  <2>1. PICK c \in Code : /\ redemption' = [redemption EXCEPT ![c].status = "deleted"]
                          /\ UNCHANGED <<redeem, paid, revived>>
    BY <1>11 DEF DeleteRedemption
  <2>2. /\ redemption'[c].status = "deleted"
        /\ \A d \in Code : d # c => redemption'[d] = redemption[d]
    BY <1>4, <2>1 DEF CodeRow
  <2>3. PaymentsInv'
    BY <1>2, <1>4, <2>1, <2>2 DEF PaymentsInv, PaymentsLeft
  <2>4. NewCodesInv'
    BY <1>2, <2>1, <2>2 DEF NewCodesInv
  <2> QED BY <1>2, <2>1, <2>3, <2>4 DEF RedeemersInv
<1>12. ASSUME UNCHANGED redemptionVars
       PROVE  PaymentsInv' /\ NewCodesInv' /\ RedeemersInv'
  BY <1>2, <1>12 DEF redemptionVars, PaymentsInv, NewCodesInv, RedeemersInv, PaymentsLeft
<1>13. PaymentsInv' /\ NewCodesInv' /\ RedeemersInv'
  BY <1>5, <1>6, <1>7, <1>8, <1>9, <1>10, <1>11, <1>12 DEF RedemptionNext
<1> QED BY <1>1, <1>13 DEF RedemptionInv

LEMMA RedemptionInitHolds == RedemptionInit => RedemptionInv
<1> SUFFICES ASSUME RedemptionInit
             PROVE  RedemptionInv
  OBVIOUS
<1>1. RedemptionTypeOK
  BY RedemptionAssumption DEF RedemptionInit, RedemptionTypeOK, Free, NoRow, CodeRow, CodeStatus
<1>2. PaymentsInv /\ NewCodesInv /\ RedeemersInv
  BY DEF RedemptionInit, PaymentsInv, NewCodesInv, RedeemersInv, PaymentsLeft, Free, NoRow
<1> QED BY <1>1, <1>2 DEF RedemptionInv

\* Where the database serializes, no code is paid more often than it was enabled, however
\* many requests redeem, edit and delete codes together (model/redemption.go, Redeem).
THEOREM CodesPaidAsEnabled ==
  ASSUME Serializes
  PROVE  RedemptionSpec => []PaidAsEnabled
<1>1. ASSUME RedemptionInv, [RedemptionNext]_redemptionVars
      PROVE  RedemptionInv'
  BY <1>1, RedemptionInvKept
<1>2. RedemptionInv => PaidAsEnabled
  <2> SUFFICES ASSUME RedemptionInv, NEW c \in Code
               PROVE  paid[c] <= 1 + revived[c]
    BY DEF PaidAsEnabled
  <2>1. paid[c] \in Nat /\ revived[c] \in Nat /\ paid[c] + PaymentsLeft(c) <= 1 + revived[c]
    BY DEF RedemptionInv, RedemptionTypeOK, PaymentsInv
  <2> QED BY <2>1 DEF PaymentsLeft
<1> QED BY <1>1, <1>2, RedemptionInitHolds, PTL DEF RedemptionSpec

=============================================================================
