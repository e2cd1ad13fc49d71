------------------------------ MODULE PartsProofs ------------------------------
(***************************************************************************)
(* The parts of the gateway that MCGateway runs next to each other do not  *)
(* touch each other: what is proved of each of them by itself, for all     *)
(* constants, is what the run checks.                                      *)
(***************************************************************************)
EXTENDS MCGateway, RateLimitProofs, GatewayProofs, AdaptorProofs

\* Next to the others each part does what it does alone: the handlers of
\* middleware/rate-limit.go, relay/relaymode/anthropic, controller, middleware/auth.go,
\* model/redemption.go and relay/adaptor that MCGateway composes share no state.
THEOREM PartsMoveApart ==
  GatewaySpec => /\ LimitSpec /\ StreamSpec /\ AccountsSpec /\ IdentitiesSpec
                 /\ AccessSpec /\ RedemptionSpec /\ AnswersSpec /\ ConversionSpec
<1>1. GatewayInit => /\ LimitInit /\ StreamInit /\ AccountsInit /\ IdentitiesInit
                     /\ AccessInit /\ RedemptionInit /\ AnswersInit /\ ConversionInit
  BY DEF GatewayInit
<1>2. [GatewayNext]_gatewayVars =>
        /\ [LimitNext]_limitVars /\ [StreamNext]_streamVars /\ [AccountsNext]_accountVars
        /\ [IdentitiesNext]_identityVars /\ [AccessNext]_accessVars /\ [RedemptionNext]_redemptionVars
        /\ [AnswersNext]_answerVars /\ [ConversionNext]_conversionVars
  <2>1. CASE UNCHANGED gatewayVars
    BY <2>1 DEF gatewayVars
  <2>2. CASE GatewayNext
    BY <2>2, Zenon DEF GatewayNext, But
  <2> QED BY <2>1, <2>2
<1> QED
  BY <1>1, <1>2, PTL
     DEF GatewaySpec, LimitSpec, StreamSpec, AccountsSpec, IdentitiesSpec, AccessSpec, RedemptionSpec, AnswersSpec,
         ConversionSpec

\* The variables of all parts keep their types, in every state of the gateway.
THEOREM GatewayTypes == GatewaySpec => []GatewayTypeOK
<1>1. AccessInv => AccessTypeOK
  BY DEF AccessInv
<1>2. AccountsInv => AccountsTypeOK
  BY DEF AccountsInv
<1>3. IdentitiesInv => IdentitiesTypeOK
  BY DEF IdentitiesInv
<1>4. RedemptionSpec => []RedemptionTypeOK
  <2>1. RedemptionInit => RedemptionTypeOK
    BY RedemptionInitHolds DEF RedemptionInv
  <2> QED BY <2>1, RedemptionTypesKept, PTL DEF RedemptionSpec
<1>5. /\ LimitTypeOK /\ StreamTypeOK /\ AccountsTypeOK /\ IdentitiesTypeOK
      /\ AccessTypeOK /\ RedemptionTypeOK /\ AnswersTypeOK /\ ConversionTypeOK
      => GatewayTypeOK
  BY DEF GatewayTypeOK
<1> QED
  BY <1>1, <1>2, <1>3, <1>4, <1>5, PartsMoveApart, LimitTypes, StreamTypes, AccountsInvariant, IdentitiesInvariant,
     AccessInvariant, AnswersTypes, ConversionTypes, PTL
=============================================================================
