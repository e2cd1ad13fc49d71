CONSTANTS
  Redeemer = {a1, a2}
  Code = {k1}
  Amount = {1, 2}
  Serializes = FALSE
  CodeMixes <- MCRedeemMixes
  MaxTries = 4
SPECIFICATION RedemptionSpec
INVARIANT CodePaysOnce
CHECK_DEADLOCK FALSE
