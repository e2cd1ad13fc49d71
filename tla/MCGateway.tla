------------------------------ MODULE MCGateway ------------------------------
(***************************************************************************)
(* The parts of the gateway that share no variable, in one run.  A step of *)
(* one part leaves the others alone and no property relates two of them,   *)
(* so that each part moves from every initial state of its own while the   *)
(* others stay in one of theirs.                                           *)
(***************************************************************************)
EXTENDS RateLimit, AnthropicStreamProperties, Accounts, Identities, TokenAccess, Redemption, ProviderAnswers,
  RequestConversion

CONSTANTS k1, root, admin, common, guest

PartsOfGateway ==
  {"limits", "stream", "accounts", "identities", "tokens", "codes", "answers", "requests"}
VARIABLE part    \* the one that moves

MCUserRows == [u \in User |->
  CASE u = root -> [status |-> "enabled", role |-> RoleRootUser, quota |-> 1]
    [] u = admin -> [status |-> "enabled", role |-> RoleAdminUser, quota |-> 1]
    [] u = common -> [status |-> "enabled", role |-> RoleCommonUser, quota |-> 1]
    [] u = guest -> NoUser]
MCUserBodies == {[status |-> "disabled", role |-> RoleCommonUser, quota |-> 0],
                 [status |-> "deleted", role |-> 0, quota |-> 0],
                 [status |-> "enabled", role |-> 0, quota |-> 2]}
MCUserMixes == {{"manage", "save"}, {"manage", "update"}, {"update", "save", "charge"}, {"manage", "charge"},
                {"delete", "manage"}, {"register", "save"}, {"login", "manage"}}
MCTokenMixes == {{"call", "update"}, {"call", "debit", "delete"}, {"call", "user"}, {"update", "debit"}}
MCOffers == {{"github", "wechat"}, {"oidc"}, {"lark"}}
MCForms == {[Nobody EXCEPT !.email = e] : e \in Email}
           \cup {[Nobody EXCEPT !.id["wechat"] = x] : x \in Account}
MCCodeMixes == {{"add", "redeem", "edit"}, {"add", "redeem", "delete"}}

\* Where a part may begin in several states: one of them.
Resting ==
  /\ part # "limits" => ~redisEnabled
  /\ part # "accounts" => userMix = {"manage", "save"}
  /\ part # "identities" => offered = {"lark"} /\ person[1].email = NoEmail
  /\ part # "tokens" => ~redis /\ tokenMix = {"update", "debit"}
  /\ part # "codes" => codeMix = {"add", "redeem", "edit"}
  /\ part # "answers" => provider = "openai" /\ mode = "chat"
  /\ part # "requests" => entry = "chat"

GatewayInit ==
  /\ part \in PartsOfGateway
  /\ LimitInit /\ StreamInit /\ AccountsInit /\ IdentitiesInit /\ AccessInit /\ RedemptionInit /\ AnswersInit
  /\ ConversionInit
  /\ Resting

But(p, vars) == IF part = p THEN TRUE ELSE UNCHANGED vars
GatewayNext ==
  /\ \/ part = "limits" /\ LimitNext
     \/ part = "stream" /\ StreamNext
     \/ part = "accounts" /\ AccountsNext
     \/ part = "identities" /\ IdentitiesNext
     \/ part = "tokens" /\ AccessNext
     \/ part = "codes" /\ RedemptionNext
     \/ part = "answers" /\ AnswersNext
     \/ part = "requests" /\ ConversionNext
  /\ But("limits", limitVars) /\ But("stream", streamVars) /\ But("accounts", accountVars)
  /\ But("identities", identityVars) /\ But("tokens", accessVars)
  /\ But("codes", redemptionVars) /\ But("answers", answerVars) /\ But("requests", conversionVars)
  /\ UNCHANGED part

gatewayVars == <<part, limitVars, streamVars, accountVars, identityVars, accessVars, redemptionVars, answerVars,
                 conversionVars>>
GatewaySpec == GatewayInit /\ [][GatewayNext]_gatewayVars

\* Every part's variables keep their types.
GatewayTypeOK ==
  /\ LimitTypeOK /\ StreamTypeOK /\ AccountsTypeOK /\ IdentitiesTypeOK
  /\ AccessTypeOK /\ RedemptionTypeOK /\ AnswersTypeOK /\ ConversionTypeOK
=============================================================================
