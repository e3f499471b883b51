------------------------------- MODULE MCTrade -------------------------------
(* Instances of Trade for TLC. *)
EXTENDS Trade, TLC
CONSTANTS p1, p2, sword

RichAndArmed == p1 :> 1 @@ p2 :> 1
SwordOfFirst == p1 :> {sword} @@ p2 :> {}
=============================================================================
