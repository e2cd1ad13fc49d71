------------------------ MODULE QuotaLedgerProperties ------------------------
(***************************************************************************)
(* What should be true of the quota ledger.                                *)
(***************************************************************************)
EXTENDS QuotaLedger, FiniteSetsExt

CONSTANT Undecided
ASSUME UndecidedNotAnAmount == Undecided \notin Int

(***************************************************************************)
(* What an attempt has taken off an account, read off its control state.   *)
(***************************************************************************)
Held == {"calling"} \cup (Ended \ {"rejected"})

PastUser == {"token", "cacheGet", "cacheFill", "cacheSet", "stats", "done"}
PastToken == PastUser \ {"token"}

HoldDebit(a, held) == IF att[a].pc \in held THEN att[a].pre ELSE 0
JobDebit(a, j, past) == IF job[a][j].pc \in past THEN job[a][j].delta ELSE 0

BalanceDebit(a) ==
  HoldDebit(a, Held) + JobDebit(a, "refund", PastUser) + JobDebit(a, "settle", PastUser)

TokenDebit(a) ==
  HoldDebit(a, Held \cup {"debitUser"})
    + JobDebit(a, "refund", PastToken) + JobDebit(a, "settle", PastToken)

UsedCredit(a) == IF job[a]["settle"].pc = "done" THEN att[a].cost ELSE 0

Debit(a, acc) ==
  CASE acc = Quota(a) -> BalanceDebit(a)
    [] acc = Remain(a) -> IF Limited(a) THEN TokenDebit(a) ELSE 0
    [] acc = Used(a) -> - UsedCredit(a)
    [] OTHER -> 0

\* An account, wherever its units are: in the database, pending, being
\* flushed, or gone in a crash; top-ups left out.
Worth(acc) == store[acc] + pend[acc] + taken[acc] + lost[acc] - granted[acc]

(***************************************************************************)
(* No unit of quota is made or lost between the two ledgers and the batch  *)
(* updater: every step changes the accounts by exactly what the attempt    *)
(* that took it has then taken more or less, and by nothing otherwise      *)
(* (PreConsumeTokenQuota, PostConsumeTokenQuota, addNewRecord and          *)
(* batchUpdate, in every interleaving and across a crash).                 *)
(***************************************************************************)
StepConserves ==
  \/ \A acc \in Account : Worth(acc)' = Worth(acc) /\ \A a \in Attempt : Debit(a, acc)' = Debit(a, acc)
  \/ \E a \in Attempt : \A acc \in Account :
       /\ Worth(acc)' + Debit(a, acc)' = Worth(acc) + Debit(a, acc)
       /\ \A b \in Attempt \ {a} : Debit(b, acc)' = Debit(b, acc)

Conserved == [][StepConserves]_vars

-----------------------------------------------------------------------------
AtRest(a) ==
  /\ att[a].pc \in Ended \cup {"idle"}
  /\ \A j \in Jobs : job[a][j].pc \in {"none", "done"}

Quiet == killed = {} /\ pend = Zero /\ taken = Zero /\ \A a \in Attempt : AtRest(a)

Grown(acc) == store[acc] - Opening[acc] - granted[acc]

\* The exits on which the code settles a call: all but those the runs with
\* expect = violation are about, and a token deleted while it is in use.
SettlingExit(a) ==
  /\ att[a].tok \in exists
  /\ att[a].pc \notin {"noUsage", "notChat"}
  /\ att[a].pc = "aborted" => att[a].kind # "text"

(***************************************************************************)
(* When nothing is in flight, what a user's balance has gone down by is    *)
(* what users.used_quota reports, whatever mix of refunds, charges,        *)
(* rejections and errors led there (postConsumeQuota,                      *)
(* ReturnPreConsumedQuota, the audio rollback, the image charge).          *)
(***************************************************************************)
SpentIsUsed ==
  Quiet => \A u \in User :
    (\A a \in Attempt : UserOf(a) = u => SettlingExit(a))
      => Grown(<<"quota", u>>) + Grown(<<"used", u>>) = 0

(***************************************************************************)
(* When nothing is in flight, a user whose tokens are all limited has paid *)
(* with the tokens what was paid from the balance: the two ledgers that    *)
(* Pre- and PostConsumeTokenQuota update by separate statements agree, on  *)
(* every exit, the leaking ones included.                                  *)
(***************************************************************************)
TokenMirrorsUser ==
  Quiet => \A u \in User :
    LET mine == {t \in Token : Owner[t] = u} IN
    mine \cap Unlimited = {} =>
      Grown(<<"quota", u>>) = MapThenSumSet(LAMBDA t : Grown(<<"remain", t>>), mine)

\* A call that ends before the upstream is asked costs nothing once it is at
\* rest (audio.go: "we need to roll back the pre-consumed quota").
AbortCostsNothing ==
  \A a \in Attempt \ killed :
    att[a].pc = "aborted" /\ att[a].tok \in exists /\ AtRest(a) => BalanceDebit(a) = 0

\* The hold is returned, and only once (billing.go: "return pre-consumed quota").
NeverRefundedTwice == \A a \in Attempt : BalanceDebit(a) >= 0

-----------------------------------------------------------------------------
debit == [a \in Attempt |-> BalanceDebit(a)]
due == [a \in Attempt |-> IF att[a].pc \in Ended THEN att[a].cost ELSE Undecided]

S == INSTANCE Settlement

\* The ledger implements the settlement a user is promised: one hold, then one
\* move of the debit to the amount due, and never another (no second refund).
ImplementsSettlement == S!Spec

\* A goroutine that settles or refunds a call comes to its end (PostConsumeTokenQuota
\* and what follows it), unless the process dies, whoever deletes the token meanwhile.
JobsFinish ==
  \A a \in Attempt, j \in Jobs :
    job[a][j].pc = "load" ~> (job[a][j].pc = "done" \/ a \in killed)

\* With batch updates on, all that was added to the pending maps ends up in the
\* database once callers stop (batchUpdate visits every type).
PendingReachesStore == <>[](pend = Zero /\ taken = Zero)
=============================================================================
