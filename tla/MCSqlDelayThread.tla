-------------------------- MODULE MCSqlDelayThread --------------------------
(* Instances of SqlDelayThread for TLC. *)
EXTENDS SqlDelayThread, TLC

CONSTANTS t1, t2

Symmetric == Permutations(Threads)
=============================================================================
