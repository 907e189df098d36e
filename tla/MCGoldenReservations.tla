------------------------ MODULE MCGoldenReservations ------------------------
(* Three groups for GoldenReservations: the hash reserves two of them for  *)
(* golden, and one of those two is a full bank.                            *)
EXTENDS GoldenReservations

CONSTANTS g1, g2, g3, p1, p2

MCGroups   == {g1, g2, g3}
MCTraining == {"pruning", "quant"}
MCHome     == [g \in MCGroups |-> IF g = g3 THEN "pruning" ELSE "golden"]

(* What a tool that redistributed reservations left behind; the same under *)
(* another salt; and a file that was edited by hand.                       *)
MCShadow == [g \in MCGroups |-> IF g = g2 THEN "golden" ELSE "pruning"]
MCEdited == [MCShadow EXCEPT ![g3] = "quant"]
MCLegacy == {[salt |-> salt, map |-> MCShadow] : salt \in {"none", "ours", "other"}}
                \cup {[salt |-> "ours", map |-> MCEdited]}
MCDefect == {[salt |-> "ours", map |-> MCShadow]}
=============================================================================
