------------------------------ MODULE MCChannels ------------------------------
(***************************************************************************)
(* A few channels of two groups and one model, and the mixes of operations *)
(* that meet in the tables.                                                *)
(***************************************************************************)
EXTENDS ChannelsProperties

CONSTANTS c1, c2, c3, g1, g2, m1, p1, p2, p3, n1, n2

MCBody(s, gs, twice) ==
  [Absent EXCEPT !.status = s, !.groups = gs, !.models = {m1}, !.twice = twice]
\* Enabled in one group, disabled in the other, and a group written twice.
MCBodies == {MCBody("enabled", {g1}, FALSE), MCBody("manual", {g2}, FALSE),
             MCBody("enabled", {g2}, TRUE)}
MCSyncBody == MCBody("enabled", {g1}, FALSE)
\* Two providers have one display name.
MCNameOf == [p \in Provider |-> IF p = p3 THEN n2 ELSE n1]
MCPriority == [c \in Channel |-> IF c = c1 THEN 1 ELSE 0]
MCMixes == {{"update", "switch"}, {"update", "delete", "purge"}, {"add", "delete"},
            {"test", "update"}, {"test", "switch"}, {"test", "purge"}, {"balance", "update"}, {"sync", "delete"}}
=============================================================================
