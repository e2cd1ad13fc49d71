--------------------------- MODULE MCRelayFallback ---------------------------
(***************************************************************************)
(* Small instances of the fallback loop.                                   *)
(***************************************************************************)
EXTENDS RelayFallbackProperties, TLC

CONSTANTS r1, r2, r3, c1, c2, c3, g1, g2, m1, m2

\* All requests ask for one model, with one token, in one group.
OneModel == [r \in Request |-> m1]
OneGroup == [r \in Request |-> g1]
OneToken == [r \in Request |-> "t"]
NoBackup == [r \in Request |-> NoGroup]
SecondGroup == [r \in Request |-> g2]
SecondPinned == [r \in Request |-> IF r = r2 THEN AnyModel ELSE m1]

AllServe == [c \in Channel |-> Group \X Model]
\* The last channel is in the backup group only.
LastIsBackup == [c \in Channel |-> IF c = c3 THEN {<<g2, m1>>} ELSE {<<g1, m1>>}]
\* The first channel has the highest priority.
Falling == [c \in Channel |-> IF c = c1 THEN 2 ELSE 1]
AnyTrigger == [c \in Channel |-> {}]

Symmetry == Permutations({r1, r2})
=============================================================================
