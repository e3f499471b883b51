--------------------------- MODULE MCAuctionHouse ---------------------------
(* Instances of AuctionHouse for TLC: one item, a seller and two others. *)
EXTENDS AuctionHouse, TLC

CONSTANTS ann, bob, cat, sword

SwordOfAnn == [i \in Items |-> ann]
OneEach    == [c \in Chars |-> c]
Others     == Permutations(Chars \ {ann})
=============================================================================
