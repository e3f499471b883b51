-------------------------- MODULE MCBattleGroundQueue --------------------------
(* Instances of BattleGroundQueue for TLC. *)
EXTENDS BattleGroundQueue
CONSTANTS a1, a2, h1, Alliance, Horde

TwoToOne == a1 :> Alliance @@ a2 :> Alliance @@ h1 :> Horde
Alone    == {{a1}, {a2}, {h1}}
=============================================================================
