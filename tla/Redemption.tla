------------------------------ MODULE Redemption ------------------------------
(***************************************************************************)
(* Redemption codes: Redeem reads the code, pays and saves it in one       *)
(* transaction; the administrator's UpdateRedemption reads the row and     *)
(* writes its columns back outside of any.  Redeem asks for a lock with a  *)
(* setting that gorm's second version ignores (go.mod), so that whether    *)
(* two transactions may read one code together is up to the database.      *)
(***************************************************************************)
EXTENDS Integers, FiniteSets

CONSTANTS
  Redeemer,        \* requests at the same time
  Code, Amount,
  Serializes,      \* SQLite: a transaction fails if what it read was changed
  CodeMixes, MaxTries

CodeStatus == {"new", "enabled", "disabled", "used", "deleted"}
NoRow == [status |-> "new", quota |-> 0]

There(row) == row.status \notin {"new", "deleted"}

ASSUME RedemptionAssumption ==
  /\ Amount \subseteq Nat /\ MaxTries \in Nat /\ Serializes \in BOOLEAN

VARIABLES
  codeMix,
  redemption,     \* table redemptions; codes that are new or deleted have no row
  balance,        \* what the users have been paid
  redeem,         \* the handlers
  tries,
  paid,           \* history: how often a code was paid
  revived         \* history: how often an administrator's write enabled it

redemptionVars == <<codeMix, redemption, balance, redeem, tries, paid, revived>>

Free == [pc |-> "idle", code |-> {}, row |-> NoRow, seen |-> NoRow]
CodeRow == [status: CodeStatus, quota: Nat]

RedemptionTypeOK ==
  /\ codeMix \in CodeMixes /\ tries \in 0..MaxTries
  /\ redemption \in [Code -> CodeRow] /\ balance \in Nat
  /\ redeem \in [Redeemer -> [pc: {"idle", "pay", "save"}, code: SUBSET Code, row: CodeRow, seen: CodeRow]]
  /\ paid \in [Code -> Nat] /\ revived \in [Code -> Nat]

RedemptionInit ==
  /\ codeMix \in CodeMixes
  /\ redemption = [c \in Code |-> NoRow]
  /\ balance = 0 /\ tries = 0
  /\ redeem = [h \in Redeemer |-> Free]
  /\ paid = [c \in Code |-> 0] /\ revived = [c \in Code |-> 0]

Tries(h, op) ==
  /\ redeem[h].pc = "idle" /\ op \in codeMix
  /\ tries < MaxTries /\ tries' = tries + 1 /\ UNCHANGED codeMix

\* AddRedemption inserts as many codes as are asked for, one after the other.
AddRedemption(h) ==
  \E c \in Code, q \in Amount :
    /\ Tries(h, "add")
    /\ redemption[c].status = "new"
    /\ redemption' = [redemption EXCEPT ![c] = [status |-> "enabled", quota |-> q]]
    /\ UNCHANGED <<balance, redeem, paid, revived>>

\* A mutant: any code that is there pays.
RedeemableAlways(row) == There(row)

Redeemable(row) == row.status = "enabled"

BeginRedeem(h) ==
  \E c \in Code :
    /\ Tries(h, "redeem")
    /\ Redeemable(redemption[c])
    /\ redeem' = [redeem EXCEPT ![h] = [pc |-> "pay", code |-> {c}, seen |-> redemption[c],
                                        row |-> [redemption[c] EXCEPT !.status = "used"]]]
    /\ UNCHANGED <<redemption, balance, paid, revived>>

\* The increment of the quota and Save, which writes the whole row, are committed together.
Commit(h) ==
  \E c \in redeem[h].code :
    /\ redeem[h].pc = "pay"
    /\ Serializes => redemption[c] = redeem[h].seen
    /\ redemption' = [redemption EXCEPT ![c] = redeem[h].row]
    /\ balance' = balance + redeem[h].row.quota
    /\ paid' = [paid EXCEPT ![c] = @ + 1]
    /\ redeem' = [redeem EXCEPT ![h] = Free]
    /\ UNCHANGED <<codeMix, tries, revived>>

\* The database refuses, or the connection is lost: nothing is written.
Rollback(h) ==
  /\ redeem[h].pc = "pay"
  /\ redeem' = [redeem EXCEPT ![h] = Free]
  /\ UNCHANGED <<codeMix, tries, redemption, balance, paid, revived>>

\* UpdateRedemption: a new status, or a new quota with the status that was read.
ReadRedemption(h) ==
  \E c \in Code, s \in {"enabled", "disabled"}, q \in Amount, only \in BOOLEAN :
    /\ Tries(h, "edit")
    /\ There(redemption[c])
    /\ redeem' = [redeem EXCEPT ![h] = [pc |-> "save", code |-> {c}, seen |-> redemption[c],
         row |-> IF only THEN [redemption[c] EXCEPT !.status = s] ELSE [redemption[c] EXCEPT !.quota = q]]]
    /\ UNCHANGED <<redemption, balance, paid, revived>>

SaveRedemption(h) ==
  \E c \in redeem[h].code :
    LET there == There(redemption[c]) IN
    /\ redeem[h].pc = "save"
    /\ redemption' = IF there THEN [redemption EXCEPT ![c] = redeem[h].row] ELSE redemption
    /\ revived' = IF there /\ redemption[c].status # "enabled" /\ redeem[h].row.status = "enabled"
                  THEN [revived EXCEPT ![c] = @ + 1] ELSE revived
    /\ redeem' = [redeem EXCEPT ![h] = Free]
    /\ UNCHANGED <<codeMix, tries, balance, paid>>

\* Save of a redeemed code puts a row back that was deleted meanwhile.
DeleteRedemption(h) ==
  \E c \in Code :
    /\ Tries(h, "delete")
    /\ There(redemption[c])
    /\ redemption' = [redemption EXCEPT ![c].status = "deleted"]
    /\ UNCHANGED <<balance, redeem, paid, revived>>

RedemptionNext ==
  \E h \in Redeemer :
    \/ AddRedemption(h) \/ BeginRedeem(h) \/ Commit(h) \/ Rollback(h)
    \/ ReadRedemption(h) \/ SaveRedemption(h) \/ DeleteRedemption(h)

RedemptionSpec == RedemptionInit /\ [][RedemptionNext]_redemptionVars

-----------------------------------------------------------------------------
\* Where the database serializes, a code is paid once, and once more for every time an
\* administrator's write enabled it after it was used: also one that meant to change
\* its quota alone and had read the code before.
PaidAsEnabled == \A c \in Code : paid[c] <= 1 + revived[c]

\* Redeem answers a code that has been used with "the code has been used".
CodePaysOnce == \A c \in Code : paid[c] <= 1
=============================================================================
