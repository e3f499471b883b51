----------------------------- MODULE MCGroupLoot -----------------------------
(* Instances of GroupLoot for TLC. *)
EXTENDS GroupLoot, TLC
CONSTANTS p1, p2, p3

\* The second item is for one of the players only.
SecondForOne == 1 :> {p1, p2, p3} @@ 2 :> {p1}
=============================================================================
