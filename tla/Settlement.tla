------------------------------ MODULE Settlement ------------------------------
(***************************************************************************)
(* What the billing of one relayed call promises the user, without the     *)
(* ledgers, caches and goroutines: while the outcome of the call is open,  *)
(* at most one hold is taken; when it is decided, the amount due is fixed; *)
(* from then on the user's debit changes at most once, to the amount due.  *)
(***************************************************************************)
EXTENDS Integers

CONSTANTS Attempt, Undecided   \* Undecided is no amount

VARIABLES
  debit,   \* what the attempt has taken off the user's balance so far
  due      \* what it is to cost in the end

Init ==
  /\ debit = [a \in Attempt |-> 0]
  /\ due = [a \in Attempt |-> Undecided]

Hold(a) ==
  /\ due[a] = Undecided /\ debit[a] = 0
  /\ debit'[a] \in Nat /\ debit' = [debit EXCEPT ![a] = debit'[a]]
  /\ UNCHANGED due

Decide(a) ==
  /\ due[a] = Undecided
  /\ due'[a] \in Nat /\ due' = [due EXCEPT ![a] = due'[a]]
  /\ UNCHANGED debit

Settle(a) ==
  /\ due[a] # Undecided
  /\ debit' = [debit EXCEPT ![a] = due[a]]
  /\ UNCHANGED due

Next == \E a \in Attempt : Hold(a) \/ Decide(a) \/ Settle(a)

Spec == Init /\ [][Next]_<<debit, due>>
=============================================================================
