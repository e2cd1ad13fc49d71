---------------------------- MODULE MCRedeemTwice ----------------------------
(***************************************************************************)
(* Redemption on a database that does not compare what a transaction read  *)
(* when it commits: MySQL and PostgreSQL as their connections are opened.  *)
(***************************************************************************)
EXTENDS Redemption

MCRedeemMixes == {{"add", "redeem"}}
=============================================================================
