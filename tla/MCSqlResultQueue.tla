-------------------------- MODULE MCSqlResultQueue --------------------------
(* Instances of SqlResultQueue for TLC: the cfg files give the constants. *)
EXTENDS SqlResultQueue
=============================================================================
