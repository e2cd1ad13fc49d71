------------------------------- MODULE Accounts -------------------------------
(***************************************************************************)
(* The rows of the users, the blacklist of this process and the sessions.  *)
(* A handler reads a user, then changes the blacklist, then writes the     *)
(* row: three steps of their own, and gorm's Updates writes every column   *)
(* of the struct that is not zero.  Names, passwords, groups are left out. *)
(***************************************************************************)
EXTENDS Integers, FiniteSets

CONSTANTS
  User, Handling,
  UserRows,            \* the users there are at first
  UserMixes,           \* which operations run side by side
  UserBodies,          \* what an administrator may write with UpdateUser
  QuotaForNewUser, QuotaForInvitee, QuotaForInviter,
  MaxQuota, MaxRequests, MaxRestarts    \* bounds

RoleCommonUser == 1
RoleAdminUser == 10
RoleRootUser == 100
Roles == {RoleCommonUser, RoleAdminUser, RoleRootUser}

\* A struct User; "" and 0 are zero values, which Updates does not write.  A row has a
\* status and a role: both columns have a default.
UserRow == [status: {"", "enabled", "disabled", "deleted"}, role: {0} \cup Roles, quota: Nat]
NoUser == [status |-> "", role |-> 0, quota |-> 0]
InTable(row) == row = NoUser \/ (row.status # "" /\ row.role # 0)

ASSUME AccountsAssumption ==
  /\ UserRows \in [User -> UserRow] /\ (\A u \in User : InTable(UserRows[u])) /\ UserBodies \subseteq UserRow
  /\ {QuotaForNewUser, QuotaForInvitee, QuotaForInviter, MaxQuota, MaxRequests, MaxRestarts} \subseteq Nat

VARIABLES
  userMix,     \* the operations of this behaviour
  user,        \* table users
  blackList,   \* of this process
  session,     \* the role in a user's cookie, 0 without one
  request,     \* the handlers
  requests, restarts,
  decided,     \* history: the columns as they were decided on and charged
  lost,        \* history: users written while a handler held a copy of the row
  mixed,       \* history: users two requests wrote together, or since a restart
  slipped      \* history: users deleted by an administrator's form

accountVars == <<userMix, user, blackList, session, request, requests, restarts, decided, lost, mixed, slipped>>
counters == <<userMix, requests, restarts>>

Ready == [op |-> "none", pc |-> "ready", rank |-> 0, own |-> FALSE, who |-> {}, row |-> NoUser]
UserOp == {"manage", "remove", "update", "save", "delete", "register", "charge", "login"}
RequestState == [op: UserOp \cup {"none"}, rank: {0} \cup Roles, own: BOOLEAN, who: SUBSET User, row: UserRow,
                 pc: {"ready", "ban", "write", "again", "invitee", "inviter"}]

AccountsTypeOK ==
  /\ userMix \in UserMixes
  /\ user \in [User -> UserRow] /\ decided \in [User -> UserRow]
  /\ \A u \in User : InTable(user[u])
  /\ session \in [User -> {0} \cup Roles]
  /\ request \in [Handling -> RequestState]
  /\ requests \in 0..MaxRequests /\ restarts \in 0..MaxRestarts
  /\ blackList \cup lost \cup mixed \cup slipped \subseteq {u \in User : user[u] # NoUser}

AccountsInit ==
  /\ userMix \in UserMixes
  /\ user = UserRows /\ decided = UserRows
  /\ blackList = {u \in User : user[u].status \in {"disabled", "deleted"}}
  /\ session = [u \in User |-> IF user[u].status = "enabled" THEN user[u].role ELSE 0]
  /\ request = [h \in Handling |-> Ready]
  /\ requests = 0 /\ restarts = 0
  /\ lost = {} /\ mixed = {} /\ slipped = {}

-----------------------------------------------------------------------------
Registered == {u \in User : user[u] # NoUser}

\* authHelper: the role of the session, or of the row whose access token is sent.
Rank(a) ==
  IF a \in blackList THEN {}
  ELSE (IF session[a] = 0 THEN {} ELSE {session[a]})
       \cup (IF a \in Registered /\ user[a].status # "disabled" THEN {user[a].role} ELSE {})

Received(h, op) ==
  /\ request[h].pc = "ready" /\ op \in userMix
  /\ requests < MaxRequests /\ requests' = requests + 1
  /\ UNCHANGED <<userMix, restarts>>

Hold(h, op, rank, own, u, row) == request' = [request EXCEPT ![h] =
  [op |-> op, pc |-> "ban", rank |-> rank, own |-> own, who |-> {u}, row |-> row]]

\* A mutant: an administrator may manage a peer.
OutranksPeers(rank, row) == rank >= row.role

Outranks(rank, row) == rank > row.role \/ rank = RoleRootUser

(* ManageUser: what the action makes of the row it has read.  An action it *)
(* does not know changes nothing, and the row is written back all the same.*)
Managed(rank, row, action) ==
  CASE action = "disable" /\ row.role # RoleRootUser -> {[row EXCEPT !.status = "disabled"]}
    [] action = "enable" -> {[row EXCEPT !.status = "enabled"]}
    [] action = "delete" /\ row.role # RoleRootUser -> {[row EXCEPT !.status = "deleted"]}
    [] action = "promote" /\ rank = RoleRootUser /\ row.role < RoleAdminUser ->
         {[row EXCEPT !.role = RoleAdminUser]}
    [] action = "demote" /\ row.role \notin {RoleRootUser, RoleCommonUser} ->
         {[row EXCEPT !.role = RoleCommonUser]}
    [] action = "other" -> {row}
    [] OTHER -> {}

ManageUser(h) ==
  \E a \in User, u \in Registered, action \in {"disable", "enable", "delete", "promote", "demote", "other"} :
  \E rank \in Rank(a) : \E row \in Managed(rank, user[u], action) :
    /\ Received(h, "manage")
    /\ rank >= RoleAdminUser /\ Outranks(rank, user[u])
    /\ Hold(h, IF action = "delete" THEN "remove" ELSE "manage", rank, FALSE, u, row)
    /\ UNCHANGED <<user, blackList, session, decided, lost, mixed, slipped>>

\* An administrator's form: the columns it sends, whatever the row has become.
UpdateUser(h) ==
  \E a \in User, u \in Registered, body \in UserBodies : \E rank \in Rank(a) :
    /\ Received(h, "update")
    /\ rank >= RoleAdminUser /\ Outranks(rank, user[u]) /\ Outranks(rank, body)
    /\ Hold(h, "update", rank, FALSE, u, body)
    /\ UNCHANGED <<user, blackList, session, decided, lost, mixed, slipped>>

\* GenerateAccessToken, GetAffCode, EmailBind and the OAuth binds: the caller's row is
\* read, one column of it changes, and all of it is written back.
SaveSelf(h) ==
  \E a \in Registered : \E rank \in Rank(a) :
    /\ Received(h, "save") /\ rank >= RoleCommonUser
    /\ Hold(h, "save", rank, TRUE, a, user[a])
    /\ UNCHANGED <<user, blackList, session, decided, lost, mixed, slipped>>

\* DeleteUser and DeleteSelf, with a row of an id and a status.
DeleteUser(h) ==
  \E a \in User, u \in Registered, own \in BOOLEAN : \E rank \in Rank(a) :
    /\ Received(h, "delete")
    /\ IF own THEN a = u /\ user[u].role # RoleRootUser
              ELSE rank >= RoleAdminUser /\ rank > user[u].role
    /\ Hold(h, "delete", rank, own, u, [NoUser EXCEPT !.status = "deleted"])
    /\ UNCHANGED <<user, blackList, session, decided, lost, mixed, slipped>>

-----------------------------------------------------------------------------
Others(h, u) == {k \in Handling \ {h} : u \in request[k].who}
Copies(h, u) == {k \in Others(h, u) : request[k].op \in {"manage", "remove", "save"}}

\* A mutant: Save, which writes every column.
WrittenWhole(row, new) == new

\* Updates.
Written(row, new) ==
  [status |-> IF new.status = "" THEN row.status ELSE new.status,
   role |-> IF new.role = 0 THEN row.role ELSE new.role,
   quota |-> IF new.quota = 0 THEN row.quota ELSE new.quota]

\* A mutant: only a ban is passed on to the blacklist.
BlacklistingOnlyBans(op, u, row) ==
  IF op = "delete" \/ op = "remove" \/ row.status = "disabled" THEN blackList \cup {u} ELSE blackList

\* Delete, of DeleteUser, DeleteSelf and ManageUser, bans; Update bans who is disabled
\* and unbans who is enabled, and does nothing with a row that is deleted.
Blacklisting(op, u, row) ==
  CASE op \in {"delete", "remove"} \/ row.status = "disabled" -> blackList \cup {u}
    [] op \notin {"delete", "remove"} /\ row.status = "enabled" -> blackList \ {u}
    [] OTHER -> blackList

Ban(h) ==
  \E u \in request[h].who :
    /\ request[h].pc = "ban"
    /\ blackList' = Blacklisting(request[h].op, u, request[h].row)
    /\ request' = [request EXCEPT ![h].pc = "write"]
    /\ mixed' = IF Others(h, u) = {} THEN mixed ELSE mixed \cup {u}
    /\ UNCHANGED <<counters, user, session, decided, lost, slipped>>

\* What a request means to change of what has been decided.
Meant(h, u) ==
  LET new == request[h].row  old == decided[u] IN
  CASE request[h].op \in {"update", "delete"} ->
         [c \in DOMAIN old |-> IF new[c] = NoUser[c] THEN old[c] ELSE new[c]]
    [] request[h].op = "save" -> old
    [] OTHER -> [old EXCEPT !.status = IF user[u].status = new.status THEN @ ELSE new.status,
                            !.role = IF user[u].role = new.role THEN @ ELSE new.role]

\* A form that says "deleted" deletes the user without Delete.
Slips(op, u, row) ==
  CASE op = "update" /\ row.status = "deleted" -> slipped \cup {u}
    [] op \in {"delete", "remove"} \/ row.status \in {"enabled", "disabled"} -> slipped \ {u}
    [] OTHER -> slipped

\* ManageUser writes a deleted user a second time.  A request that wrote the status
\* alone leaves the blacklist as the row says.
WriteRow(h) ==
  \E u \in request[h].who :
    LET r == request[h]  again == r.op = "remove" /\ r.pc = "write" IN
    /\ r.pc \in {"write", "again"}
    /\ user' = [user EXCEPT ![u] = Written(@, r.row)]
    /\ decided' = [decided EXCEPT ![u] = Meant(h, u)]
    /\ request' = [request EXCEPT ![h] = IF again THEN [r EXCEPT !.pc = "again"] ELSE Ready]
    /\ lost' = IF Copies(h, u) = {} THEN lost ELSE lost \cup {u}
    /\ mixed' = IF Others(h, u) # {} THEN mixed \cup {u} ELSE mixed
    /\ slipped' = Slips(r.op, u, r.row)
    /\ UNCHANGED <<counters, blackList, session>>

\* IncreaseUserQuota and DecreaseUserQuota are one statement: calls, codes, top-ups.
Credit(h, u, amount) ==
  /\ user' = [user EXCEPT ![u].quota = @ + amount]
  /\ decided' = [decided EXCEPT ![u].quota = @ + amount]
  /\ lost' = IF Copies(h, u) = {} THEN lost ELSE lost \cup {u}

Charge(h) ==
  \E u \in Registered, amount \in {-1, 1} :
    /\ Received(h, "charge")
    /\ user[u].quota + amount \in 0..MaxQuota /\ decided[u].quota + amount \in 0..MaxQuota
    /\ Credit(h, u, amount)
    /\ UNCHANGED <<blackList, session, request, mixed, slipped>>

(* Register and CreateUser: Insert creates the row, then pays the bonuses  *)
(* of an invitation.                                                       *)
Register(h) ==
  \E u \in User \ Registered, invited \in BOOLEAN :
    LET row == [status |-> "enabled", role |-> RoleCommonUser, quota |-> QuotaForNewUser] IN
    /\ Received(h, "register")
    /\ user' = [user EXCEPT ![u] = row] /\ decided' = [decided EXCEPT ![u] = row]
    /\ request' = [request EXCEPT ![h] =
         IF invited THEN [Ready EXCEPT !.op = "register", !.pc = "invitee", !.who = {u}] ELSE @]
    /\ UNCHANGED <<blackList, session, lost, mixed, slipped>>

PayInvitee(h) ==
  \E u \in request[h].who, inviter \in Registered :
    /\ request[h].pc = "invitee" /\ inviter # u
    /\ Credit(h, u, QuotaForInvitee)
    /\ request' = [request EXCEPT ![h].pc = "inviter", ![h].who = {inviter}]
    /\ UNCHANGED <<counters, blackList, session, mixed, slipped>>

PayInviter(h) ==
  \E inviter \in request[h].who :
    /\ request[h].pc = "inviter"
    /\ Credit(h, inviter, QuotaForInviter)
    /\ request' = [request EXCEPT ![h] = Ready]
    /\ UNCHANGED <<counters, blackList, session, mixed, slipped>>

-----------------------------------------------------------------------------
\* A password or an OAuth account: only a user that is enabled gets a session.
Login(h) ==
  \E u \in Registered :
    /\ Received(h, "login")
    /\ user[u].status = "enabled"
    /\ session' = [session EXCEPT ![u] = user[u].role]
    /\ UNCHANGED <<user, blackList, request, decided, lost, mixed, slipped>>

\* Logout; authHelper clears the session of a banned user as well.
Logout(u) ==
  /\ session[u] # 0 /\ ("login" \in userMix \/ u \in blackList)
  /\ session' = [session EXCEPT ![u] = 0]
  /\ UNCHANGED <<counters, user, blackList, request, decided, lost, mixed, slipped>>

\* The blacklist is gone, the cookies are not.
Restart ==
  /\ restarts < MaxRestarts /\ restarts' = restarts + 1
  /\ blackList' = {}
  /\ request' = [h \in Handling |-> Ready]
  /\ mixed' = Registered
  /\ UNCHANGED <<userMix, requests, user, session, decided, lost, slipped>>

AccountsNext ==
  \/ \E h \in Handling :
       \/ ManageUser(h) \/ UpdateUser(h) \/ SaveSelf(h) \/ DeleteUser(h)
       \/ Ban(h) \/ WriteRow(h)
       \/ Charge(h) \/ Register(h) \/ PayInvitee(h) \/ PayInviter(h) \/ Login(h)
  \/ \E u \in User : Logout(u)
  \/ Restart

AccountsSpec == AccountsInit /\ [][AccountsNext]_accountVars

-----------------------------------------------------------------------------
\* Status, role and quota of a user are what administrators decided and what was
\* charged, unless the row was written while a handler held a copy of it: GenerateAccess-
\* Token, EmailBind or ManageUser then write the old columns back.
RowIsDecided == \A u \in User \ lost : user[u] = decided[u]

\* Who is banned here and who is enabled in the database agree between requests, unless
\* two of them wrote the same user together or the process has been restarted; but a user
\* an administrator's form deletes stays off the blacklist: Update does not ban it.
BlacklistAgrees ==
  \A u \in Registered \ mixed :
    (\A h \in Handling : u \notin request[h].who) =>
      /\ u \in blackList => user[u].status # "enabled"
      /\ user[u].status = "disabled" \/ (user[u].status = "deleted" /\ u \notin slipped) => u \in blackList

\* The status and the role of an administrator or a root user are changed by a root
\* user or by its own DeleteSelf, unless two requests wrote it together: the rank is
\* compared with a row that is read before.
PeersStand ==
  [][\A u \in User \ mixed :
       /\ user[u].role >= RoleAdminUser
       /\ user'[u].status # user[u].status \/ user'[u].role # user[u].role
       => \E h \in Handling : u \in request[h].who /\ (request[h].rank = RoleRootUser \/ request[h].own)
    ]_accountVars
=============================================================================
