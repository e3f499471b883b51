--------------------------- MODULE MCWorldSessions ---------------------------
(* Instances of WorldSessions for TLC. *)
EXTENDS WorldSessions, TLC

CONSTANTS a1, a2, a3, c1, c2

\* Two characters of the same account, or one in all.
OneAccount == c1 :> a1 @@ c2 :> a1
Solo       == c1 :> a1

\* Accounts without a character are alike.
Alike == Permutations({a2, a3})
=============================================================================
