------------------------------ MODULE Identities ------------------------------
(***************************************************************************)
(* How a user comes to an e-mail address or an account of another site:    *)
(* the codes of common/verification.go, the handlers that send and use     *)
(* them, the first login and the bind of the OAuth sites, and the handlers *)
(* that write a user's row without asking.  A handler asks whether some-   *)
(* thing is taken in one step and writes it in another.                    *)
(***************************************************************************)
EXTENDS Integers, FiniteSets

CONSTANTS
  Email, Account, NoEmail, NoAccount,
  Offers,               \* the sites an installation may offer
  Forms,                \* what an administrator may write with UpdateUser
  Visitor,              \* requests at the same time
  MaxUsers, MaxVisits, MaxCodes, MaxMinutes,    \* bounds
  verificationMapMaxSize, VerificationValidMinutes

Site == {"github", "oidc", "lark", "wechat"}
Uid == 1..MaxUsers
Purpose == {"v", "r"}
CodeKey == Purpose \X Email
IdKey == Site \X Account
Key == CodeKey \cup IdKey
Person == [email: Email \cup {NoEmail}, id: [Site -> Account \cup {NoAccount}],
           name: (Site \cup {"own"}) \X Nat]    \* of the user's choice, or as in github_2
Nobody == [email |-> NoEmail, id |-> [s \in Site |-> NoAccount], name |-> <<"own", 0>>]
NoCode == [code |-> 0, at |-> 0]

ASSUME IdentitiesAssumption ==
  /\ NoEmail \notin Email /\ NoAccount \notin Account
  /\ (\A offer \in Offers : offer \subseteq Site) /\ Forms \subseteq Person
  /\ {MaxUsers, MaxVisits, MaxCodes, MaxMinutes, verificationMapMaxSize} \subseteq Nat
  /\ MaxUsers > 0 /\ VerificationValidMinutes \in Nat \ {0}

VARIABLES
  offered,            \* GitHubOAuthEnabled, OidcEnabled, WeChatAuthEnabled; Lark always
  minutes,            \* time.Now()
  person,             \* table users, as far as it says who someone is
  last,               \* the greatest id
  verificationMap,    \* the code of each purpose and address
  codes,              \* codes generated so far
  visit,              \* the handlers
  visits,             \* handlers so far
  gained,             \* history: when a user's address was checked and when written
  mailed,             \* history: the last code mailed, until a reset uses it up
  resets,             \* history: how often each code reset a password
  dropped,            \* history: codes deleted by a reset that had another code in hand
  raced,              \* history: what two handlers were after at once
  unasked             \* history: who has what from a form, or an address from a site

identityHistory == <<gained, mailed, resets, dropped, raced, unasked>>
identityVars == <<offered, minutes, person, last, verificationMap, codes, visit, visits, identityHistory>>

VisitState == [pc: {"idle", "mail", "read", "write", "insert", "name", "reset", "forget"}, who: Uid \cup {0},
               keys: SUBSET Key, code: 0..MaxCodes, at: Nat, row: Person]
Waiting == [pc |-> "idle", who |-> 0, keys |-> {}, code |-> 0, at |-> 0, row |-> Nobody]

IdentitiesTypeOK ==
  /\ offered \in Offers
  /\ minutes \in 0..MaxMinutes /\ last \in Uid \cup {0} /\ codes \in 0..MaxCodes /\ visits \in 0..MaxVisits
  /\ person \in [Uid -> Person]
  /\ \A u, w \in Uid : u # w /\ person[u].name = person[w].name => person[u].name = Nobody.name
  /\ verificationMap \in [CodeKey -> [code: 0..MaxCodes, at: Nat]]
  /\ visit \in [Visitor -> VisitState]
  /\ gained \in [Uid -> [checked: Nat, written: Nat]]
  /\ mailed \in [CodeKey -> [code: 0..MaxCodes, at: Nat]]
  /\ resets \in [CodeKey -> [1..MaxCodes -> Nat]]
  /\ dropped \subseteq 1..MaxCodes /\ raced \subseteq Key /\ unasked \subseteq Uid \X Key

\* A root user, with or without an address.
IdentitiesInit ==
  /\ offered \in Offers
  /\ minutes = 0 /\ last = 1 /\ codes = 0 /\ visits = 0
  /\ \E e \in Email \cup {NoEmail} : person = [u \in Uid |-> IF u = 1 THEN [Nobody EXCEPT !.email = e] ELSE Nobody]
  /\ verificationMap = [k \in CodeKey |-> NoCode]
  /\ visit = [h \in Visitor |-> Waiting]
  /\ gained = [u \in Uid |-> [checked |-> 0, written |-> 0]]
  /\ mailed = [k \in CodeKey |-> NoCode]
  /\ resets = [k \in CodeKey |-> [c \in 1..MaxCodes |-> 0]]
  /\ dropped = {} /\ raced = {} /\ unasked = {}

-----------------------------------------------------------------------------
Old(value) == minutes - value.at >= VerificationValidMinutes
Stored(map) == {k \in CodeKey : map[k] # NoCode}

\* A mutant: the purge keeps what is old and drops what is not.
PurgeValid(map) == [k \in CodeKey |-> IF Old(map[k]) THEN map[k] ELSE NoCode]

removeExpiredPairs(map) == [k \in CodeKey |-> IF Old(map[k]) THEN NoCode ELSE map[k]]

RegisterVerificationCodeWithKey(key, code) ==
  LET map == [verificationMap EXCEPT ![key] = [code |-> code, at |-> minutes]] IN
  verificationMap' =
    IF Cardinality(Stored(map)) > verificationMapMaxSize THEN removeExpiredPairs(map) ELSE map

\* A mutant: a code is good for ever.
VerifyCodeForever(key, code) == verificationMap[key] # NoCode /\ verificationMap[key].code = code

VerifyCodeWithKey(key, code) ==
  verificationMap[key] # NoCode /\ ~Old(verificationMap[key]) /\ verificationMap[key].code = code

IsEmailAlreadyTaken(e) == \E u \in Uid : person[u].email = e

\* A mutant: only the sites' own logins are looked at.
IsIdNeverTaken(s, x) == FALSE

IsIdAlreadyTaken(s, x) == \E u \in Uid : person[u].id[s] = x

-----------------------------------------------------------------------------
Visits(h, pc, who, keys, code) ==
  /\ visit[h].pc = "idle"
  /\ visits < MaxVisits /\ visits' = visits + 1
  /\ visit' = [visit EXCEPT ![h] = [pc |-> pc, who |-> who, keys |-> keys, code |-> code,
                                    at |-> minutes, row |-> Nobody]]
Leaves(h) == visit' = [visit EXCEPT ![h] = Waiting]

Columns(row) == {<<"v", row.email>>} \cup {<<s, row.id[s]>> : s \in Site}
Gains(u, row) == (Columns(row) \ Columns(person[u])) \cap Key

\* What another handler wants and this one takes, and what another holds a copy of and
\* this one overwrites.
Rivals(h) == Visitor \ {h}
Contested(h, u, row) ==
  (Gains(u, row) \cap UNION {visit[k].keys : k \in Rivals(h)})
  \cup {key \in Key \ Columns(row) : \E k \in Rivals(h) : visit[k].who = u /\ key \in Columns(visit[k].row)}

Becomes(h, u, row, unchecked) ==
  /\ person' = [person EXCEPT ![u] = row]
  /\ gained' = IF row.email = person[u].email THEN gained
               ELSE [gained EXCEPT ![u] = [checked |-> visit[h].at, written |-> minutes]]
  /\ raced' = raced \cup Contested(h, u, row)
  /\ unasked' = {a \in unasked : a[1] = u => a[2] \in Columns(row)} \cup {u} \X (Gains(u, row) \cap unchecked)

(* SendEmailVerification and SendPasswordResetEmail.                       *)
SendMail(h) ==
  \E p \in Purpose, e \in Email :
    /\ codes < MaxCodes
    /\ IF p = "v" THEN ~IsEmailAlreadyTaken(e) ELSE IsEmailAlreadyTaken(e)
    /\ codes' = codes + 1
    /\ Visits(h, "mail", 0, {<<p, e>>}, codes + 1)
    /\ UNCHANGED <<offered, minutes, person, last, verificationMap, identityHistory>>

Mail(h) ==
  \E key \in visit[h].keys :
    /\ visit[h].pc = "mail"
    /\ RegisterVerificationCodeWithKey(key, visit[h].code)
    /\ mailed' = [mailed EXCEPT ![key] = [code |-> visit[h].code, at |-> minutes]]
    /\ Leaves(h)
    /\ UNCHANGED <<offered, visits, minutes, person, last, codes, gained, resets, dropped, raced, unasked>>

\* EmailBind, of a user that is logged in, and Register, which makes a new one.
UseCode(h) ==
  \E e \in Email, c \in 1..codes, u \in 0..last :
    /\ VerifyCodeWithKey(<<"v", e>>, c)
    /\ Visits(h, IF u = 0 THEN "insert" ELSE "read", u, {<<"v", e>>}, c)
    /\ UNCHANGED <<offered, minutes, person, last, verificationMap, codes, identityHistory>>

\* ResetPassword: the code is looked at, the password set, the code deleted.
UseReset(h) ==
  \E e \in Email, c \in 1..codes :
    LET key == <<"r", e>>
        inHand == \E k \in Visitor \ {h} : visit[k].pc \in {"reset", "forget"} /\ key \in visit[k].keys
    IN
    /\ VerifyCodeWithKey(key, c)
    /\ Visits(h, "reset", 0, {key}, c)
    /\ raced' = IF inHand THEN raced \cup {key} ELSE raced
    /\ UNCHANGED <<offered, minutes, person, last, verificationMap, codes, gained, mailed, resets, dropped, unasked>>

SetPassword(h) ==
  \E key \in visit[h].keys :
    /\ visit[h].pc = "reset"
    /\ resets' = [resets EXCEPT ![key][visit[h].code] = @ + 1]
    /\ visit' = [visit EXCEPT ![h].pc = "forget"]
    /\ UNCHANGED <<offered, visits, minutes, person, last, verificationMap, codes, gained, mailed, dropped, raced, unasked>>

\* A mutant: the code stays.
DeleteNothing(key) == verificationMap' = verificationMap

DeleteKey(key) == verificationMap' = [verificationMap EXCEPT ![key] = NoCode]

ForgetCode(h) ==
  \E key \in visit[h].keys :
    /\ visit[h].pc = "forget"
    /\ DeleteKey(key)
    /\ mailed' = IF mailed[key].code = visit[h].code THEN [mailed EXCEPT ![key] = NoCode] ELSE mailed
    /\ dropped' = dropped \cup ({verificationMap[key].code} \ {0, visit[h].code})
    /\ Leaves(h)
    /\ UNCHANGED <<offered, visits, minutes, person, last, codes, gained, resets, raced, unasked>>

-----------------------------------------------------------------------------
(* The logins and binds of the OAuth sites, from the moment the site has   *)
(* said who it is: an account that is known is logged in, as in Accounts.  *)
FirstLogin(h, s) ==
  \E x \in Account :
    /\ s \in offered /\ ~IsIdAlreadyTaken(s, x)
    /\ Visits(h, "name", 0, {<<s, x>>}, 0)
    /\ UNCHANGED <<offered, minutes, person, last, verificationMap, codes, identityHistory>>

Binds(h, s) ==
  \E x \in Account, u \in 1..last :
    /\ s \in offered /\ ~IsIdAlreadyTaken(s, x)
    /\ Visits(h, "read", u, {<<s, x>>}, 0)
    /\ UNCHANGED <<offered, minutes, person, last, verificationMap, codes, identityHistory>>

GitHubOAuth(h) == FirstLogin(h, "github")

GitHubBind(h) == Binds(h, "github")

OidcAuth(h) == FirstLogin(h, "oidc")

OidcBind(h) == Binds(h, "oidc")

LarkOAuth(h) == FirstLogin(h, "lark")

LarkBind(h) == Binds(h, "lark")

WeChatAuth(h) == FirstLogin(h, "wechat")

WeChatBind(h) == Binds(h, "wechat")

\* GitHub and OIDC: a new user gets the address the site names.
SitesWithEmail == {"github", "oidc"}

\* A handler that has made up its row.
Prepared(v, pc, row) == [v EXCEPT !.pc = pc, !.row = row]

NewUser(mail, name) == [Nobody EXCEPT !.email = mail, !.name = name]

\* GetMaxUserId: the new user is named after it; OIDC may tell a name.
SiteMails(s) == {NoEmail} \cup (IF s \in SitesWithEmail THEN Email ELSE {})
SiteNames(s) == {<<s, last + 1>>} \cup (IF s = "oidc" THEN {Nobody.name} ELSE {})

ChooseName(h) ==
  \E key \in visit[h].keys : \E mail \in SiteMails(key[1]), name \in SiteNames(key[1]) :
    /\ visit[h].pc = "name"
    /\ visit' = [visit EXCEPT ![h] = Prepared(@, "insert", NewUser(mail, name))]
    /\ UNCHANGED <<offered, visits, minutes, person, last, verificationMap, codes, identityHistory>>

\* What the handler is after.
With(row, keys) ==
  [row EXCEPT !.email = IF \E k \in keys : k[1] = "v" THEN (CHOOSE k \in keys : k[1] = "v")[2] ELSE @,
              !.id = [s \in Site |-> IF \E x \in Account : <<s, x>> \in keys
                                     THEN CHOOSE x \in Account : <<s, x>> \in keys ELSE @[s]]]

\* Insert; a name that is there is refused.
InsertUser(h) ==
  \E taken \in BOOLEAN :
    LET name == visit[h].row.name IN
    /\ visit[h].pc = "insert"
    /\ name # Nobody.name => (taken <=> \E u \in Uid : person[u].name = name)
    /\ IF last = MaxUsers \/ taken
       THEN UNCHANGED <<person, last, gained, raced, unasked>>
       ELSE /\ last' = last + 1
            /\ Becomes(h, last + 1, With(visit[h].row, visit[h].keys), Key \ visit[h].keys)
    /\ Leaves(h)
    /\ UNCHANGED <<offered, visits, minutes, verificationMap, codes, mailed, resets, dropped>>

\* FillUserById, then Update of every column.
ReadRow(h) ==
  /\ visit[h].pc = "read"
  /\ visit' = [visit EXCEPT ![h] = Prepared(@, "write", person[@.who])]
  /\ UNCHANGED <<offered, visits, minutes, person, last, verificationMap, codes, identityHistory>>

\* Updates.
Merged(row, new) ==
  [row EXCEPT !.email = IF new.email = NoEmail THEN @ ELSE new.email,
              !.id = [s \in Site |-> IF new.id[s] = NoAccount THEN @[s] ELSE new.id[s]]]

WriteIdentity(h) ==
  /\ visit[h].pc = "write"
  /\ LET u == visit[h].who IN Becomes(h, u, Merged(person[u], With(visit[h].row, visit[h].keys)), {})
  /\ Leaves(h)
  /\ UNCHANGED <<offered, visits, minutes, last, verificationMap, codes, mailed, resets, dropped>>

\* GenerateAccessToken, GetAffCode and ManageUser, as far as they read a row and write
\* all of it back.
RewriteRow(h) ==
  \E u \in 1..last :
    /\ Visits(h, "read", u, {}, 0)
    /\ UNCHANGED <<offered, minutes, person, last, verificationMap, codes, identityHistory>>

\* UpdateUser, as far as it writes who someone is: the columns of the form, and nobody
\* asks whether they are taken.  The name is left out.
UpdateUserForm(h) ==
  \E u \in 1..last, form \in Forms :
    /\ visit[h].pc = "idle"
    /\ visits < MaxVisits /\ visits' = visits + 1
    /\ Becomes(h, u, Merged(person[u], form), Key)
    /\ UNCHANGED <<offered, minutes, last, verificationMap, codes, visit, mailed, resets, dropped>>

Minute ==
  /\ minutes < MaxMinutes /\ minutes' = minutes + 1
  /\ UNCHANGED <<offered, visits, person, last, verificationMap, codes, visit, identityHistory>>

IdentitiesNext ==
  \/ Minute
  \/ \E h \in Visitor :
       \/ SendMail(h) \/ Mail(h) \/ UseCode(h) \/ UseReset(h) \/ SetPassword(h) \/ ForgetCode(h)
       \/ GitHubOAuth(h) \/ GitHubBind(h) \/ OidcAuth(h) \/ OidcBind(h)
       \/ LarkOAuth(h) \/ LarkBind(h) \/ WeChatAuth(h) \/ WeChatBind(h)
       \/ ChooseName(h) \/ InsertUser(h) \/ ReadRow(h) \/ WriteIdentity(h)
       \/ RewriteRow(h) \/ UpdateUserForm(h)

IdentitiesSpec == IdentitiesInit /\ [][IdentitiesNext]_identityVars

-----------------------------------------------------------------------------
\* A code is good while it is the last one mailed for its address and purpose, is not old
\* and has not been used up, and only then: the purge of a full map changes no answer.  But
\* a reset deletes the key, so that a newer code, mailed while it was setting the password,
\* is gone before anyone has used it.
CodesAsMailed ==
  \A key \in CodeKey, c \in 1..MaxCodes :
    LET fresh == mailed[key].code = c /\ ~Old(mailed[key]) IN
    /\ VerifyCodeWithKey(key, c) => fresh
    /\ fresh => VerifyCodeWithKey(key, c) \/ c \in dropped

\* A code resets a password once, unless two requests have it in hand together.
ResetsOnce ==
  \A key \in {"r"} \X Email, c \in 1..MaxCodes : resets[key][c] > 1 => key \in raced

\* An account of another site is one user's, unless an administrator's form gave it to one
\* of them; or one handler took it while another had found it free; or a handler took it
\* from a user while another held a copy of the row and wrote it back.
OneUserPerAccount ==
  \A u, w \in Uid, s \in Site :
    u # w /\ person[u].id[s] = person[w].id[s] /\ person[u].id[s] # NoAccount
    => LET key == <<s, person[u].id[s]>> IN key \in raced \/ <<u, key>> \in unasked \/ <<w, key>> \in unasked

\* EmailBind and Register do not ask whether an address is taken, "because we have used
\* verification code to check it": so whoever is later has checked its code within the
\* life of a code after the first got the address, unless a site or an administrator's
\* form gave it, or handlers raced for it as above.
SharedOnlyByCode ==
  \A u, w \in Uid :
    /\ u # w /\ person[u].email = person[w].email /\ person[u].email # NoEmail
    /\ gained[w].written <= gained[u].written
    => LET key == <<"v", person[u].email>> IN
       \/ gained[u].checked - gained[w].written < VerificationValidMinutes
       \/ key \in raced \/ <<u, key>> \in unasked
=============================================================================
