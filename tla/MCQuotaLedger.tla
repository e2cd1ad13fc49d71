--------------------------- MODULE MCQuotaLedger ---------------------------
(***************************************************************************)
(* A small instance of the quota ledger.                                   *)
(***************************************************************************)
EXTENDS QuotaLedgerProperties, TLC

CONSTANTS a1, a2, u1, t1, t2

MCOwner == [t \in Token |-> u1]
MCOpening == [acc \in Account |->
  CASE acc[1] = "quota" -> 6 [] acc[1] = "remain" -> 4 [] OTHER -> 0]

Symmetry == Permutations({a1, a2})
=============================================================================
