--------------------------- MODULE GroupLootProofs ---------------------------
(***************************************************************************)
(* Proofs about GroupLoot, for any players, slots and group: an item goes  *)
(* to one player, the counters of a roll are its votes, the best vote      *)
(* wins, and no item stays blocked without a reason.                       *)
(***************************************************************************)
EXTENDS GroupLoot, SequenceTheorems, FiniteSetTheorems, TLAPS

-----------------------------------------------------------------------------
(* The inductive invariant. *)

\* The counters are the votes.
Exact(r) ==
    /\ r.need = Cardinality(Voters(r, "NEED"))
    /\ r.greed = Cardinality(Voters(r, "GREED"))
    /\ r.pass = Cardinality(Voters(r, "PASS"))
    /\ r.rolling = Cardinality(DOMAIN r.playerVote)

\* A roll with one candidate: StartLootRoll enters his vote and counts none, so
\* that taking it back leaves a counter of 255, but then nobody is in the roll.
Idle(r) ==
    \/ DOMAIN r.playerVote = {}
    \/ r.need = 0 /\ r.greed = 0 /\ \E p \in Players : DOMAIN r.playerVote = {p}

\* A roll that lasts: it was announced and holds its item, or counts nothing.
Live(r, it) ==
    IF it.blocked THEN ~it.looted /\ Exact(r) ELSE Idle(r)

\* The winner's vote, and that an item won by need is his or kept for him.
Fair(r, it, gv, w) ==
    /\ w \in DOMAIN r.playerVote
    /\ \/ /\ r.playerVote[w] = "NEED"
          /\ IF gv = <<>> THEN it.owner = w ELSE Head(gv) = w
       \/ r.playerVote[w] = "GREED" /\ Voters(r, "NEED") = {}

\* The roll, the item, who was given it and who won it, of one slot.
Slot(r, it, gv, w) ==
    /\ Len(gv) = (IF it.looted THEN 1 ELSE 0)
    /\ r.on => Live(r, it) /\ w = Nobody
    /\ w # Nobody => Fair(r, it, gv, w)

SlotInv == \A s \in Slots : Slot(roll[s], item[s], given[s], won[s])

Counted == unlooted = Cardinality({s \in Slots : given[s] = <<>>})

\* A window is that of an announced roll, in which its player has not voted.
WindowInv ==
    \A p \in Players, s \in Slots : <<p, s>> \in window /\ roll[s].on =>
        /\ item[s].blocked
        /\ p \in DOMAIN roll[s].playerVote => roll[s].playerVote[p] = "NOT_EMITED_YET"

\* Nobody has opened the corpse.
FreshInv ==
    corpse = "fresh" =>
        /\ window = {}
        /\ \A s \in Slots : ~roll[s].on /\ ~item[s].looted /\ won[s] = Nobody

IInv == TypeOK /\ SlotInv /\ Counted /\ WindowInv /\ FreshInv /\ BlockedByRoll

-----------------------------------------------------------------------------
(* Rolls and their counters. *)

\* A counter that does not go below zero is an ordinary difference.
LEMMA LessFacts ==
    ASSUME NEW n \in uint8, NEW k \in uint8
    PROVE  Less(n, k) \in uint8 /\ (k <= n => Less(n, k) = n - k)
<1>1. n \in 0 .. 255 /\ k \in 0 .. 255
  BY DEF uint8
<1>2. \A m \in Int : m % 256 \in 0 .. 255
  OBVIOUS
<1>3. \A m \in 0 .. 255 : (256 + m) % 256 = m
  OBVIOUS
<1>4. 256 + n - k \in Int /\ (k <= n => n - k \in 0 .. 255 /\ 256 + n - k = 256 + (n - k))
  BY <1>1
<1> QED BY <1>2, <1>3, <1>4 DEF Less, uint8

LEMMA RollFacts ==
    ASSUME NEW r \in Roll
    PROVE  /\ DOMAIN r.playerVote \subseteq Players /\ IsFiniteSet(DOMAIN r.playerVote)
           /\ r.playerVote \in [DOMAIN r.playerVote -> RollVote]
           /\ r.on \in BOOLEAN /\ r.rolling \in uint8
           /\ r.need \in uint8 /\ r.greed \in uint8 /\ r.pass \in uint8
<1>1. PICK R \in SUBSET Players : r.playerVote \in [R -> RollVote]
  BY DEF Roll
<1>2. IsFiniteSet(R)
  BY <1>1, FS_Subset, GroupLootAssumption DEF GroupLootAssumption
<1> QED BY <1>1, <1>2 DEF Roll

LEMMA RollType ==
    ASSUME NEW on \in BOOLEAN, NEW R \in SUBSET Players, NEW pv \in [R -> RollVote],
           NEW rolling \in uint8, NEW need \in uint8, NEW greed \in uint8, NEW pass \in uint8
    PROVE  [on |-> on, playerVote |-> pv, rolling |-> rolling, need |-> need, greed |-> greed,
            pass |-> pass] \in Roll
  BY DEF Roll

\* An ended roll keeps its votes.
LEMMA EndedFacts ==
    ASSUME NEW r \in Roll
    PROVE  /\ [r EXCEPT !.on = FALSE] \in Roll /\ ~[r EXCEPT !.on = FALSE].on
           /\ [r EXCEPT !.on = FALSE].playerVote = r.playerVote
  BY DEF Roll

\* There are not more voters than players.
LEMMA VoterFacts ==
    ASSUME NEW r \in Roll, NEW v
    PROVE  /\ Voters(r, v) \subseteq DOMAIN r.playerVote /\ IsFiniteSet(Voters(r, v))
           /\ Cardinality(Voters(r, v)) \in uint8 /\ Cardinality(DOMAIN r.playerVote) \in uint8
           /\ Cardinality(Voters(r, v)) = 0 <=> Voters(r, v) = {}
<1>1. /\ Voters(r, v) \subseteq DOMAIN r.playerVote /\ DOMAIN r.playerVote \subseteq Players
      /\ Voters(r, v) \subseteq Players
  BY RollFacts DEF Voters
<1>2. IsFiniteSet(Players) /\ Cardinality(Players) < 256 /\ Cardinality(Players) \in Nat
  BY GroupLootAssumption, FS_CardinalityType DEF GroupLootAssumption
<1>3. \A S \in SUBSET Players : IsFiniteSet(S) /\ Cardinality(S) \in uint8
  <2> SUFFICES ASSUME NEW S \in SUBSET Players PROVE IsFiniteSet(S) /\ Cardinality(S) \in uint8
    OBVIOUS
  <2>1. IsFiniteSet(S) /\ Cardinality(S) <= Cardinality(Players) /\ Cardinality(S) \in Nat
    BY <1>2, FS_Subset, FS_CardinalityType
  <2> QED BY <1>2, <2>1 DEF uint8
<1>4. Cardinality(Voters(r, v)) = 0 <=> Voters(r, v) = {}
  BY <1>1, <1>3, FS_EmptySet
<1> QED BY <1>1, <1>3, <1>4

\* A first vote keeps the counters exact.
LEMMA VoteFacts ==
    ASSUME NEW s, roll[s] \in Roll, Exact(roll[s]), NEW p \in DOMAIN roll[s].playerVote,
           roll[s].playerVote[p] = "NOT_EMITED_YET", NEW v \in RollVote \ {"NOT_EMITED_YET"}
    PROVE  /\ Vote(s, p, v) \in Roll /\ Exact(Vote(s, p, v)) /\ Vote(s, p, v).on = roll[s].on
           /\ DOMAIN Vote(s, p, v).playerVote = DOMAIN roll[s].playerVote
           /\ \A q \in DOMAIN roll[s].playerVote : q # p =>
                 Vote(s, p, v).playerVote[q] = roll[s].playerVote[q]
<1> DEFINE r == roll[s]
           t == Vote(s, p, v)
           n == IF v = "NEED" THEN r.need + 1 ELSE r.need
           g == IF v = "GREED" THEN r.greed + 1 ELSE r.greed
           a == IF v = "PASS" THEN r.pass + 1 ELSE r.pass
<1>1. /\ DOMAIN r.playerVote \subseteq Players /\ r.playerVote \in [DOMAIN r.playerVote -> RollVote]
      /\ r.on \in BOOLEAN /\ r.rolling \in uint8
      /\ r.need \in uint8 /\ r.greed \in uint8 /\ r.pass \in uint8
  BY RollFacts
<1>2. /\ t.on = r.on /\ t.rolling = r.rolling /\ t.playerVote = [r.playerVote EXCEPT ![p] = v]
      /\ t.need = n /\ t.greed = g /\ t.pass = a
      /\ t = [on |-> r.on, playerVote |-> [r.playerVote EXCEPT ![p] = v], rolling |-> r.rolling,
              need |-> n, greed |-> g, pass |-> a]
  BY DEF Vote
<1> HIDE DEF t
<1>3. /\ DOMAIN t.playerVote = DOMAIN r.playerVote /\ t.playerVote[p] = v
      /\ t.playerVote \in [DOMAIN r.playerVote -> RollVote]
      /\ \A q \in DOMAIN r.playerVote : q # p => t.playerVote[q] = r.playerVote[q]
  BY <1>1, <1>2
<1>4. ASSUME NEW w \in RollVote \ {"NOT_EMITED_YET"}
      PROVE  Voters(t, w) = IF w = v THEN Voters(r, w) \cup {p} ELSE Voters(r, w)
  BY <1>3 DEF Voters
<1>5. ASSUME NEW w \in RollVote \ {"NOT_EMITED_YET"}
      PROVE  /\ Cardinality(Voters(t, w)) =
                   IF w = v THEN Cardinality(Voters(r, w)) + 1 ELSE Cardinality(Voters(r, w))
             /\ Cardinality(Voters(t, w)) \in uint8
  <2>1. IsFiniteSet(Voters(r, w)) /\ p \notin Voters(r, w)
    BY VoterFacts DEF Voters
  <2>2. Cardinality(Voters(r, w) \cup {p}) = Cardinality(Voters(r, w)) + 1
    BY <2>1, FS_AddElement
  <2>3. Cardinality(Voters(t, w)) \in uint8
    <3>1. Voters(t, w) \subseteq Players
      BY <1>1, <1>3 DEF Voters
    <3>2. IsFiniteSet(Players) /\ Cardinality(Players) < 256 /\ Cardinality(Players) \in Nat
      BY GroupLootAssumption, FS_CardinalityType DEF GroupLootAssumption
    <3>3. /\ IsFiniteSet(Voters(t, w)) /\ Cardinality(Voters(t, w)) <= Cardinality(Players)
          /\ Cardinality(Voters(t, w)) \in Nat
      BY <3>1, <3>2, FS_Subset, FS_CardinalityType
    <3> QED BY <3>2, <3>3 DEF uint8
  <2> QED BY <1>4, <2>2, <2>3
<1>6. n = Cardinality(Voters(t, "NEED")) /\ g = Cardinality(Voters(t, "GREED"))
      /\ a = Cardinality(Voters(t, "PASS"))
  <2>1. {"NEED", "GREED", "PASS"} \subseteq RollVote \ {"NOT_EMITED_YET"}
    BY DEF RollVote
  <2> QED BY <1>5, <2>1 DEF Exact
<1>7. n \in uint8 /\ g \in uint8 /\ a \in uint8
  BY <1>5, <1>6 DEF RollVote
<1>8. t \in Roll
  <2>1. [r.playerVote EXCEPT ![p] = v] \in [DOMAIN r.playerVote -> RollVote]
    BY <1>2, <1>3
  <2> HIDE DEF n, g, a
  <2> QED BY <1>1, <1>2, <1>7, <2>1, RollType
<1>9. Exact(t)
  BY <1>2, <1>3, <1>6 DEF Exact
<1> QED BY <1>2, <1>3, <1>8, <1>9 DEF t

\* Taking back the vote of a player who leaves: the counters stay exact, and a
\* roll that counts nothing still does.
LEMMA WithoutFacts ==
    ASSUME NEW r \in Roll, NEW it, r.on => Live(r, it), NEW p
    PROVE  /\ WithoutVote(r, p) \in Roll /\ WithoutVote(r, p).on = r.on
           /\ WithoutVote(r, p).on => Live(WithoutVote(r, p), it)
           /\ DOMAIN WithoutVote(r, p).playerVote \subseteq DOMAIN r.playerVote
           /\ \A q \in DOMAIN WithoutVote(r, p).playerVote :
                 WithoutVote(r, p).playerVote[q] = r.playerVote[q]
           /\ ~r.on => WithoutVote(r, p) = r
<1> DEFINE t == WithoutVote(r, p)
           D == DOMAIN r.playerVote
<1>1. CASE ~r.on \/ p \notin D
  BY <1>1 DEF WithoutVote
<1>2. CASE r.on /\ p \in D
  <2> DEFINE n == IF r.playerVote[p] = "NEED" THEN Less(r.need, 1) ELSE r.need
             g == IF r.playerVote[p] = "GREED" THEN Less(r.greed, 1) ELSE r.greed
             a == IF r.playerVote[p] = "PASS" THEN Less(r.pass, 1) ELSE r.pass
             pv == [q \in D \ {p} |-> r.playerVote[q]]
  <2>1. /\ D \subseteq Players /\ IsFiniteSet(D) /\ r.playerVote \in [D -> RollVote]
        /\ r.on \in BOOLEAN /\ r.rolling \in uint8
        /\ r.need \in uint8 /\ r.greed \in uint8 /\ r.pass \in uint8
    BY RollFacts
  <2>2. /\ t.on = r.on /\ t.rolling = Less(r.rolling, 1) /\ t.playerVote = pv
        /\ t.need = n /\ t.greed = g /\ t.pass = a
        /\ t = [on |-> r.on, playerVote |-> pv, rolling |-> Less(r.rolling, 1),
                need |-> n, greed |-> g, pass |-> a]
    BY <1>2 DEF WithoutVote, Restrict
  <2>3. /\ DOMAIN pv = D \ {p} /\ pv \in [D \ {p} -> RollVote]
        /\ \A q \in D \ {p} : pv[q] = r.playerVote[q]
    BY <2>1
  <2>4. /\ Less(r.rolling, 1) \in uint8 /\ n \in uint8 /\ g \in uint8 /\ a \in uint8
    <3>1. 1 \in uint8
      BY DEF uint8
    <3> QED BY <2>1, <3>1, LessFacts
  <2>5. t \in Roll
    <3>1. D \ {p} \in SUBSET Players
      BY <2>1
    <3> HIDE DEF n, g, a, pv, D
    <3> QED BY <2>1, <2>2, <2>3, <2>4, <3>1, RollType
  <2> HIDE DEF t, pv
  <2>6. ASSUME Exact(r) PROVE Exact(t)
    <3>1. ASSUME NEW v PROVE Voters(t, v) = Voters(r, v) \ {p}
      BY <2>2, <2>3 DEF Voters
    <3>2. ASSUME NEW v
          PROVE  /\ r.playerVote[p] = v =>
                      /\ Cardinality(Voters(t, v)) = Cardinality(Voters(r, v)) - 1
                      /\ Cardinality(Voters(r, v)) \in uint8 /\ 1 <= Cardinality(Voters(r, v))
                 /\ r.playerVote[p] # v => Cardinality(Voters(t, v)) = Cardinality(Voters(r, v))
      <4>1. IsFiniteSet(Voters(r, v)) /\ Cardinality(Voters(r, v)) \in uint8
            /\ (Cardinality(Voters(r, v)) = 0 <=> Voters(r, v) = {})
        BY VoterFacts
      <4>2. p \in Voters(r, v) <=> r.playerVote[p] = v
        BY <1>2 DEF Voters
      <4>3. Cardinality(Voters(r, v) \ {p}) =
              IF p \in Voters(r, v) THEN Cardinality(Voters(r, v)) - 1 ELSE Cardinality(Voters(r, v))
        BY <4>1, FS_RemoveElement
      <4>4. r.playerVote[p] = v => 1 <= Cardinality(Voters(r, v))
        BY <4>1, <4>2 DEF uint8
      <4> QED BY <3>1, <4>1, <4>2, <4>3, <4>4
    <3>3. ASSUME NEW m \in uint8, 1 <= m PROVE Less(m, 1) = m - 1
      <4>1. 1 \in uint8
        BY DEF uint8
      <4> QED BY <3>3, <4>1, LessFacts
    <3>4. t.need = Cardinality(Voters(t, "NEED"))
      BY <2>2, <2>6, <3>2, <3>3 DEF Exact
    <3>5. t.greed = Cardinality(Voters(t, "GREED"))
      BY <2>2, <2>6, <3>2, <3>3 DEF Exact
    <3>6. t.pass = Cardinality(Voters(t, "PASS"))
      BY <2>2, <2>6, <3>2, <3>3 DEF Exact
    <3>7. t.rolling = Cardinality(DOMAIN t.playerVote)
      <4>1. Cardinality(D) \in uint8 /\ Cardinality(D) # 0
        BY <1>2, <2>1, VoterFacts, FS_EmptySet
      <4>2. Cardinality(D \ {p}) = Cardinality(D) - 1
        BY <1>2, <2>1, FS_RemoveElement
      <4>3. r.rolling = Cardinality(D)
        BY <2>6 DEF Exact
      <4>4. 1 <= Cardinality(D)
        BY <4>1 DEF uint8
      <4> QED BY <2>2, <2>3, <3>3, <4>1, <4>2, <4>3, <4>4
    <3> QED BY <3>4, <3>5, <3>6, <3>7 DEF Exact
  <2>7. ASSUME Idle(r) PROVE Idle(t)
    <3>1. D = {p}
      BY <1>2, <2>7 DEF Idle
    <3> QED BY <2>2, <2>3, <3>1 DEF Idle
  <2>8. Live(t, it)
    BY <1>2, <2>6, <2>7 DEF Live
  <2> QED BY <1>2, <2>2, <2>3, <2>5, <2>8 DEF t
<1> QED BY <1>1, <1>2

\* Group::StartLootRoll: a roll of several players is announced with exact
\* counters, one of a single player counts nothing.
LEMMA NewRollFacts ==
    ASSUME NEW R \in SUBSET Players, NEW it, ~it.looted, it.blocked <=> Cardinality(R) > 1
    PROVE  /\ NewRoll(R) \in Roll /\ (NewRoll(R).on <=> R # {})
           /\ NewRoll(R).on => Live(NewRoll(R), it)
           /\ DOMAIN NewRoll(R).playerVote = R
           /\ Cardinality(R) > 1 => \A p \in R : NewRoll(R).playerVote[p] = "NOT_EMITED_YET"
<1> DEFINE r == NewRoll(R)
           pv == [p \in R |-> IF Cardinality(R) = 1 THEN "NEED" ELSE "NOT_EMITED_YET"]
<1>1. IsFiniteSet(R) /\ Cardinality(R) \in uint8
  <2>1. IsFiniteSet(Players) /\ Cardinality(Players) < 256 /\ Cardinality(Players) \in Nat
    BY GroupLootAssumption, FS_CardinalityType DEF GroupLootAssumption
  <2>2. IsFiniteSet(R) /\ Cardinality(R) <= Cardinality(Players) /\ Cardinality(R) \in Nat
    BY <2>1, FS_Subset, FS_CardinalityType
  <2> QED BY <2>1, <2>2 DEF uint8
<1>2. /\ (r.on <=> R # {}) /\ r.playerVote = pv
      /\ r.rolling = Cardinality(R) /\ r.need = 0 /\ r.greed = 0 /\ r.pass = 0
  BY DEF NewRoll
<1>3. pv \in [R -> RollVote] /\ DOMAIN pv = R
  BY DEF RollVote
<1>4. r \in Roll
  <2>1. 0 \in uint8 /\ (R # {}) \in BOOLEAN
    BY DEF uint8
  <2> HIDE DEF pv
  <2>2. [on |-> R # {}, playerVote |-> pv, rolling |-> Cardinality(R), need |-> 0, greed |-> 0,
         pass |-> 0] \in Roll
    BY <1>1, <1>3, <2>1, RollType
  <2> QED BY <2>2 DEF NewRoll, pv
<1> HIDE DEF r
<1>5. ASSUME Cardinality(R) > 1 PROVE Exact(r) /\ \A p \in R : r.playerVote[p] = "NOT_EMITED_YET"
  <2>1. \A p \in R : r.playerVote[p] = "NOT_EMITED_YET"
    BY <1>1, <1>2, <1>5 DEF uint8
  <2>2. Voters(r, "NEED") = {} /\ Voters(r, "GREED") = {} /\ Voters(r, "PASS") = {}
    BY <1>2, <1>3, <2>1 DEF Voters
  <2> QED BY <1>2, <1>3, <2>1, <2>2, FS_EmptySet DEF Exact
<1>6. ASSUME ~(Cardinality(R) > 1), R # {} PROVE Idle(r)
  <2>1. Cardinality(R) = 1
    BY <1>1, <1>6, FS_EmptySet DEF uint8
  <2>2. \E p : R = {p}
    BY <1>1, <2>1, FS_Singleton
  <2> QED BY <1>2, <1>3, <2>2 DEF Idle
<1>7. r.on => Live(r, it)
  BY <1>2, <1>5, <1>6 DEF Live
<1> QED BY <1>2, <1>3, <1>4, <1>5, <1>7 DEF r

-----------------------------------------------------------------------------
(* Counting a roll. *)

\* What the outcome o of roll r of slot s may be.
Lawful(s, r, o) ==
    /\ o.item \in LootItem /\ o.taker \in Players \cup {Nobody}
    /\ o.winner \in Players \cup {Nobody}
    /\ o.taker # Nobody => o.item.looted /\ ~item[s].looted /\ o.winner = o.taker
    /\ o.taker = Nobody => o.item.looted = item[s].looted
    /\ o.winner # Nobody =>
          /\ ~item[s].looted
          /\ o.winner \in DOMAIN r.playerVote
          /\ \/ r.playerVote[o.winner] = "NEED" /\ (o.taker = Nobody => o.item.owner = o.winner)
             \/ r.playerVote[o.winner] = "GREED" /\ Voters(r, "NEED") = {}
    /\ o.item.blocked /\ ~o.item.looted => o.winner \notin online \cup {Nobody}

\* Group::CountTheRoll of a roll that lasts.
LEMMA Outcome ==
    ASSUME NEW s \in Slots, item[s] \in LootItem, NEW r \in Roll, Live(r, item[s]),
           NEW o \in CountTheRoll(s, r)
    PROVE  Lawful(s, r, o)
<1>1. /\ DOMAIN r.playerVote \subseteq Players /\ r.playerVote \in [DOMAIN r.playerVote -> RollVote]
      /\ r.need \in 0 .. 255 /\ r.greed \in 0 .. 255
  BY RollFacts DEF uint8
<1>2. Nobody \notin Players
  BY GroupLootAssumption DEF GroupLootAssumption
<1>3. CASE ~(r.need > 0 \/ r.greed > 0)
  <2>1. o = Left(s, Nobody, [item[s] EXCEPT !.blocked = FALSE])
    BY <1>3 DEF CountTheRoll, AllPassed
  <2> QED BY <2>1 DEF Left, Lawful, LootItem
<1>4. CASE (r.need > 0 \/ r.greed > 0) /\ ~item[s].blocked
  <2>1. DOMAIN r.playerVote = {}
    BY <1>1, <1>4 DEF Live, Idle
  <2>2. o = Left(s, Nobody, item[s])
    BY <1>4, <2>1 DEF CountTheRoll
  <2> QED BY <1>4, <2>2 DEF Left, Lawful, LootItem
<1>5. CASE (r.need > 0 \/ r.greed > 0) /\ item[s].blocked
  <2>1. /\ ~item[s].looted
        /\ r.need > 0 <=> Voters(r, "NEED") # {}
        /\ r.greed > 0 <=> Voters(r, "GREED") # {}
    <3>1. Exact(r) /\ ~item[s].looted
      BY <1>5 DEF Live
    <3>2. /\ Cardinality(Voters(r, "NEED")) = 0 <=> Voters(r, "NEED") = {}
          /\ Cardinality(Voters(r, "GREED")) = 0 <=> Voters(r, "GREED") = {}
      BY VoterFacts
    <3> QED BY <1>1, <3>1, <3>2 DEF Exact
  <2>2. DOMAIN r.playerVote # {}
    BY <1>5, <2>1 DEF Voters
  <2>3. ASSUME NEW w, o = Stored(s, w) PROVE o.item.looted /\ o.taker = w /\ o.winner = w
               /\ o.item \in LootItem
    BY <2>3 DEF Stored, LootItem
  <2>4. CASE r.need > 0
    <3>1. PICK w \in Voters(r, "NEED") : o \in NeedWon(s, w)
      BY <1>5, <2>1, <2>2, <2>4 DEF CountTheRoll, Winners
    <3>2. w \in Players /\ w \in DOMAIN r.playerVote /\ r.playerVote[w] = "NEED"
      BY <1>1, <3>1 DEF Voters
    <3>3. CASE o = Stored(s, w)
      BY <1>2, <2>1, <2>3, <3>2, <3>3 DEF Lawful
    <3>4. CASE w \in online /\ o = Left(s, w, [blocked |-> FALSE, looted |-> item[s].looted, owner |-> w])
      BY <1>2, <2>1, <3>2, <3>4 DEF Lawful, Left, LootItem
    <3>5. CASE w \notin online /\ o = Left(s, w, [item[s] EXCEPT !.owner = w])
      BY <1>2, <2>1, <3>2, <3>5 DEF Lawful, Left, LootItem
    <3> QED BY <3>1, <3>3, <3>4, <3>5 DEF NeedWon
  <2>5. CASE ~(r.need > 0)
    <3>1. PICK w \in Voters(r, "GREED") : o \in GreedWon(s, w)
      BY <1>5, <2>1, <2>2, <2>5 DEF CountTheRoll, Winners
    <3>2. /\ w \in Players /\ w \in DOMAIN r.playerVote /\ r.playerVote[w] = "GREED"
          /\ Voters(r, "NEED") = {}
      BY <1>1, <2>1, <2>5, <3>1 DEF Voters
    <3>3. CASE o = Stored(s, w)
      BY <1>2, <2>1, <2>3, <3>2, <3>3 DEF Lawful
    <3>4. CASE w \in online /\ o = Left(s, w, [item[s] EXCEPT !.blocked = FALSE])
      BY <1>2, <2>1, <3>2, <3>4 DEF Lawful, Left, LootItem
    <3>5. CASE w \notin online /\ o = Left(s, w, item[s])
      BY <1>2, <2>1, <3>2, <3>5 DEF Lawful, Left, LootItem
    <3> QED BY <3>1, <3>3, <3>4, <3>5 DEF GreedWon
  <2> QED BY <2>4, <2>5
<1> QED BY <1>3, <1>4, <1>5

\* What is left when the rolls of the slots S, with the votes rs, are counted.
Finished(S, rs) ==
    /\ item' \in [Slots -> LootItem] /\ given' \in [Slots -> Seq(Players)]
    /\ won' \in [Slots -> Players \cup {Nobody}] /\ roll' \in [Slots -> Roll]
    /\ unlooted' \in uint8 /\ absent' \subseteq Slots /\ absent \subseteq absent'
    /\ SlotInv' /\ Counted'
    /\ \A s \in Slots \ S : item'[s] = item[s] /\ roll'[s] = rs[s] /\ won'[s] = won[s]
    /\ \A s \in S : ~roll'[s].on /\ (item'[s].blocked /\ ~item'[s].looted => s \in absent')

LEMMA FinishStep ==
    ASSUME TypeOK, Counted, NEW S \in SUBSET Slots, NEW rs \in [Slots -> Roll],
           \A s \in Slots : Slot(rs[s], item[s], given[s], won[s]),
           \A s \in S : rs[s].on, Finish(S, rs)
    PROVE  Finished(S, rs)
<1>0. Nobody \notin Players
  BY GroupLootAssumption DEF GroupLootAssumption
<1>1. PICK o :
          /\ \A s \in S : o[s] \in CountTheRoll(s, rs[s])
          /\ item' = [s \in Slots |-> IF s \in S THEN o[s].item ELSE item[s]]
          /\ given' = [s \in Slots |->
                IF s \in S /\ o[s].taker # Nobody THEN Append(given[s], o[s].taker)
                ELSE given[s]]
          /\ won' = [s \in Slots |-> IF s \in S THEN o[s].winner ELSE won[s]]
          /\ unlooted' = Less(unlooted, Cardinality({s \in S : o[s].taker # Nobody}))
          /\ absent' = absent \cup {s \in S : o[s].winner \notin online \cup {Nobody}}
  BY DEF Finish
<1>2. roll' = [s \in Slots |-> IF s \in S THEN [rs[s] EXCEPT !.on = FALSE] ELSE rs[s]]
  BY DEF Finish
<1>3. \A s \in S : Lawful(s, rs[s], o[s])
  <2> SUFFICES ASSUME NEW s \in S PROVE Lawful(s, rs[s], o[s])
    OBVIOUS
  <2>1. s \in Slots /\ item[s] \in LootItem /\ rs[s] \in Roll /\ Live(rs[s], item[s])
    BY DEF TypeOK, Slot
  <2> QED BY <1>1, <2>1, Outcome
<1>4. ASSUME NEW s \in Slots \ S
      PROVE  item'[s] = item[s] /\ roll'[s] = rs[s] /\ won'[s] = won[s] /\ given'[s] = given[s]
  BY <1>1, <1>2, <1>4
<1>5. ASSUME NEW s \in S
      PROVE  /\ item'[s] = o[s].item /\ won'[s] = o[s].winner
             /\ given'[s] = IF o[s].taker # Nobody THEN Append(given[s], o[s].taker) ELSE given[s]
             /\ roll'[s] = [rs[s] EXCEPT !.on = FALSE]
             /\ roll'[s] \in Roll /\ ~roll'[s].on /\ roll'[s].playerVote = rs[s].playerVote
  BY <1>1, <1>2, EndedFacts
<1>6. ASSUME NEW s \in S
      PROVE  /\ given'[s] \in Seq(Players) /\ Len(given'[s]) = (IF item'[s].looted THEN 1 ELSE 0)
             /\ o[s].taker # Nobody => given[s] = <<>> /\ given'[s] # <<>> /\ Head(given'[s]) = o[s].taker
             /\ o[s].taker = Nobody => given'[s] = given[s]
  <2>1. s \in Slots /\ given[s] \in Seq(Players) /\ Len(given[s]) = (IF item[s].looted THEN 1 ELSE 0)
    BY DEF TypeOK, Slot
  <2>2. Lawful(s, rs[s], o[s])
    BY <1>3
  <2>3. CASE o[s].taker = Nobody
    BY <1>5, <2>1, <2>2, <2>3 DEF Lawful
  <2>4. CASE o[s].taker # Nobody
    <3>1. o[s].taker \in Players /\ item'[s].looted /\ ~item[s].looted
      BY <1>5, <2>2, <2>4 DEF Lawful
    <3>2. given[s] = <<>>
      BY <2>1, <3>1, EmptySeq
    <3>3. given'[s] = Append(<<>>, o[s].taker)
      <4>1. given'[s] = Append(given[s], o[s].taker)
        BY <1>5, <2>4
      <4> QED BY <3>2, <4>1
    <3>4. PICK t \in Players : t = o[s].taker
      BY <3>1
    <3>5. Append(<<>>, t) = <<t>> /\ <<t>> \in Seq(Players) /\ Len(<<t>>) = 1 /\ Head(<<t>>) = t
          /\ <<t>> # <<>>
      OBVIOUS
    <3> QED BY <2>4, <3>1, <3>2, <3>3, <3>4, <3>5
  <2> QED BY <2>3, <2>4
<1>7. /\ item' \in [Slots -> LootItem] /\ given' \in [Slots -> Seq(Players)]
      /\ won' \in [Slots -> Players \cup {Nobody}] /\ roll' \in [Slots -> Roll]
  <2>1. ASSUME NEW s \in Slots
        PROVE  /\ item'[s] \in LootItem /\ given'[s] \in Seq(Players)
               /\ won'[s] \in Players \cup {Nobody} /\ roll'[s] \in Roll
    <3>1. CASE s \in S
      BY <1>3, <1>5, <1>6, <3>1 DEF Lawful
    <3>2. CASE s \notin S
      BY <1>4, <3>2 DEF TypeOK
    <3> QED BY <3>1, <3>2
  <2>2. /\ item' = [s \in Slots |-> item'[s]] /\ given' = [s \in Slots |-> given'[s]]
        /\ won' = [s \in Slots |-> won'[s]] /\ roll' = [s \in Slots |-> roll'[s]]
    BY <1>1, <1>2
  <2> QED BY <2>1, <2>2
<1>8. SlotInv'
  <2> SUFFICES ASSUME NEW s \in Slots PROVE Slot(roll'[s], item'[s], given'[s], won'[s])
    BY DEF SlotInv
  <2>1. CASE s \notin S
    BY <1>4, <2>1
  <2>2. CASE s \in S
    <3>1. Lawful(s, rs[s], o[s]) /\ Slot(rs[s], item[s], given[s], won[s])
      BY <1>3, <2>2
    <3>2. Voters(roll'[s], "NEED") = Voters(rs[s], "NEED")
      <4>1. roll'[s].playerVote = rs[s].playerVote
        BY <1>5, <2>2
      <4> QED BY <4>1 DEF Voters
    <3>3. ASSUME won'[s] # Nobody PROVE Fair(roll'[s], item'[s], given'[s], won'[s])
      <4>1. ~item[s].looted /\ given[s] = <<>>
        <5>1. ~item[s].looted
          BY <1>5, <2>2, <3>1, <3>3 DEF Lawful
        <5>2. given[s] \in Seq(Players) /\ Len(given[s]) = 0
          BY <3>1, <5>1 DEF Slot, TypeOK
        <5> QED BY <5>1, <5>2, EmptySeq
      <4>2. o[s].taker # Nobody => given'[s] # <<>> /\ Head(given'[s]) = won'[s]
        BY <1>5, <1>6, <2>2, <3>1 DEF Lawful
      <4>3. o[s].taker = Nobody => given'[s] = <<>>
        BY <1>6, <2>2, <4>1
      <4> QED BY <1>5, <2>2, <3>1, <3>2, <3>3, <4>2, <4>3 DEF Lawful, Fair
    <3> QED BY <1>5, <1>6, <2>2, <3>3 DEF Slot
  <2> QED BY <2>1, <2>2
<1>9. Counted' /\ unlooted' \in uint8
  <2> DEFINE A == {s \in Slots : given[s] = <<>>}
             T == {s \in S : o[s].taker # Nobody}
             B == {s \in Slots : given'[s] = <<>>}
  <2>1. T \subseteq A
    BY <1>6
  <2>2. B = A \ T
    <3>1. ASSUME NEW s \in Slots PROVE given'[s] = <<>> <=> given[s] = <<>> /\ s \notin T
      BY <1>4, <1>6
    <3> QED BY <3>1
  <2>3. A \subseteq Slots
    OBVIOUS
  <2>4. Counted' <=> unlooted' = Cardinality(B)
    BY DEF Counted
  <2>5. unlooted = Cardinality(A) /\ unlooted' = Less(unlooted, Cardinality(T))
    BY <1>1 DEF Counted
  <2> HIDE DEF A, T, B
  <2>6. IsFiniteSet(A) /\ Cardinality(A) \in Nat
    BY <2>3, FS_Subset, FS_CardinalityType, GroupLootAssumption DEF GroupLootAssumption
  <2>7. IsFiniteSet(T) /\ Cardinality(T) <= Cardinality(A) /\ Cardinality(T) \in Nat
    BY <2>1, <2>6, FS_Subset, FS_CardinalityType
  <2>8. Cardinality(A \ T) = Cardinality(A) - Cardinality(T)
    <3>1. A \cap T = T
      BY <2>1
    <3> QED BY <2>6, <3>1, FS_Difference
  <2>9. unlooted \in uint8 /\ Cardinality(T) \in uint8
    <3>1. unlooted \in uint8
      BY DEF TypeOK
    <3> QED BY <2>5, <2>6, <2>7, <3>1 DEF uint8
  <2> QED BY <2>2, <2>4, <2>5, <2>7, <2>8, <2>9, LessFacts
<1>10. \A s \in S : item'[s].blocked /\ ~item'[s].looted => s \in absent'
  BY <1>1, <1>3, <1>5 DEF Lawful
<1>11. absent' \subseteq Slots /\ absent \subseteq absent'
  BY <1>1 DEF TypeOK
<1> QED BY <1>4, <1>5, <1>7, <1>8, <1>9, <1>10, <1>11 DEF Finished

-----------------------------------------------------------------------------
(* The steps. *)

\* Steps that touch neither the loot nor the rolls.
LEMMA Quiet ==
    ASSUME IInv, UNCHANGED <<item, unlooted, roll, groupLoot, given, won, absent>>,
           members' \subseteq Players, online' \subseteq Players, window' \subseteq window,
           members = {} => members' = {}, corpse' \in {corpse, "cleared"}
    PROVE  IInv'
<1>a. TypeOK /\ SlotInv /\ Counted /\ WindowInv /\ FreshInv /\ BlockedByRoll
  BY DEF IInv
<1>1. TypeOK'
  BY <1>a DEF TypeOK
<1>2. SlotInv' /\ Counted'
  BY <1>a DEF SlotInv, Counted
<1>3. WindowInv' /\ FreshInv'
  BY <1>a DEF WindowInv, FreshInv
<1>4. BlockedByRoll'
  BY <1>a DEF BlockedByRoll
<1> QED BY <1>1, <1>2, <1>3, <1>4 DEF IInv

LEMMA QuietSteps ==
    ASSUME IInv,
           \/ LootRelease
           \/ \E p \in Players : Disconnect(p) \/ Login(p) \/ AddMember(p)
           \/ UNCHANGED vars
    PROVE  IInv'
<1>a. members \subseteq Players /\ online \subseteq Players
  BY DEF IInv, TypeOK
<1>1. CASE LootRelease
  BY <1>a, <1>1, Quiet DEF LootRelease
<1>2. ASSUME NEW p \in Players, Disconnect(p) \/ Login(p) \/ AddMember(p) PROVE IInv'
  BY <1>a, <1>2, Quiet DEF Disconnect, Login, AddMember, GoOffline
<1>3. CASE UNCHANGED vars
  BY <1>a, <1>3, Quiet DEF vars
<1> QED BY <1>1, <1>2, <1>3

\* The corpse is opened.
LEMMA SendLootStep ==
    ASSUME IInv, NEW R \in [Slots -> SUBSET (members \cap online)], SendLoot(R)
    PROVE  IInv'
<1>a. TypeOK /\ SlotInv /\ Counted /\ FreshInv
  BY DEF IInv
<1> DEFINE rolled == {s \in Slots : Cardinality(R[s]) > 1}
<1>1. /\ corpse = "fresh" /\ corpse' = "open" /\ roll' = [s \in Slots |-> NewRoll(R[s])]
      /\ item' = [s \in Slots |-> [item[s] EXCEPT !.blocked = s \in rolled]]
      /\ groupLoot' = (rolled # {})
      /\ window' = {x \in Players \X Slots : x[2] \in rolled /\ x[1] \in R[x[2]]}
      /\ UNCHANGED <<members, online, unlooted, given, won, absent>>
  BY DEF SendLoot
<1>2. ASSUME NEW s \in Slots
      PROVE  /\ item'[s] \in LootItem /\ item'[s].looted = item[s].looted
             /\ item'[s].blocked <=> Cardinality(R[s]) > 1
  <2>1. PICK b \in BOOLEAN : b <=> s \in rolled
    OBVIOUS
  <2>2. PICK it \in LootItem : it = item[s]
    BY <1>a DEF TypeOK
  <2>3. /\ [it EXCEPT !.blocked = b] \in LootItem /\ [it EXCEPT !.blocked = b].looted = it.looted
        /\ [it EXCEPT !.blocked = b].blocked = b
    BY DEF LootItem
  <2>4. item'[s] = [it EXCEPT !.blocked = b]
    BY <1>1, <2>1, <2>2
  <2> QED BY <2>1, <2>2, <2>3, <2>4
<1>3. ASSUME NEW s \in Slots
      PROVE  ~item[s].looted /\ won[s] = Nobody /\ Len(given[s]) = 0
  BY <1>a, <1>1 DEF FreshInv, SlotInv, Slot
<1>4. ASSUME NEW s \in Slots
      PROVE  /\ roll'[s] \in Roll /\ (roll'[s].on <=> R[s] # {})
             /\ roll'[s].on => Live(roll'[s], item'[s])
             /\ DOMAIN roll'[s].playerVote = R[s]
             /\ Cardinality(R[s]) > 1 => \A p \in R[s] : roll'[s].playerVote[p] = "NOT_EMITED_YET"
  <2>1. R[s] \in SUBSET Players
    BY <1>a DEF TypeOK
  <2>2. PICK it : it = item'[s]
    OBVIOUS
  <2>3. ~it.looted /\ (it.blocked <=> Cardinality(R[s]) > 1)
    BY <1>2, <1>3, <2>2
  <2>4. roll'[s] = NewRoll(R[s])
    BY <1>1
  <2> QED BY <2>1, <2>2, <2>3, <2>4, NewRollFacts
<1>5. TypeOK'
  <2>1. item' \in [Slots -> LootItem] /\ roll' \in [Slots -> Roll]
    BY <1>1, <1>2, <1>4
  <2>2. window' \subseteq Players \X Slots /\ groupLoot' \in BOOLEAN
    BY <1>1
  <2> QED BY <1>a, <1>1, <2>1, <2>2 DEF TypeOK
<1>6. SlotInv'
  BY <1>1, <1>2, <1>3, <1>4 DEF SlotInv, Slot
<1>7. Counted'
  BY <1>a, <1>1 DEF Counted
<1>8. WindowInv'
  <2> SUFFICES ASSUME NEW p \in Players, NEW s \in Slots, <<p, s>> \in window'
               PROVE  /\ item'[s].blocked
                      /\ p \in DOMAIN roll'[s].playerVote => roll'[s].playerVote[p] = "NOT_EMITED_YET"
    BY DEF WindowInv
  <2>1. s \in rolled /\ p \in R[s]
    BY <1>1
  <2> QED BY <1>2, <1>4, <2>1
<1>9. FreshInv'
  BY <1>1 DEF FreshInv
<1>10. BlockedByRoll'
  <2>1. ASSUME NEW s \in Slots, item'[s].blocked PROVE roll'[s].on
    <3>1. Cardinality(R[s]) > 1
      BY <1>2, <2>1
    <3>2. R[s] # {}
      BY <3>1, FS_EmptySet
    <3> QED BY <1>4, <3>2
  <2> QED BY <2>1 DEF BlockedByRoll
<1> QED BY <1>5, <1>6, <1>7, <1>8, <1>9, <1>10 DEF IInv

\* The rolls of the creature end, by its timer or because it decays.
LEMMA StopStep ==
    ASSUME IInv, StopGroupLoot, UNCHANGED <<members, online, window>>, corpse' \in {corpse, "cleared"}
    PROVE  IInv'
<1>a. TypeOK /\ SlotInv /\ Counted /\ WindowInv /\ FreshInv /\ BlockedByRoll
  BY DEF IInv
<1>1. CASE EndRoll /\ groupLoot' = FALSE
  <2>1. PICK S : S = {s \in Slots : roll[s].on /\ corpse = "open"}
    OBVIOUS
  <2>2. PICK rs : rs = roll
    OBVIOUS
  <2>3. S \in SUBSET Slots /\ rs \in [Slots -> Roll]
    BY <1>a, <2>1, <2>2 DEF TypeOK
  <2>4. Finished(S, rs)
    <3>1. Finish(S, rs)
      BY <1>1, <2>1, <2>2 DEF EndRoll
    <3>2. /\ \A s \in Slots : Slot(rs[s], item[s], given[s], won[s])
          /\ \A s \in S : rs[s].on
      BY <1>a, <2>1, <2>2 DEF SlotInv
    <3> QED BY <1>a, <2>3, <3>1, <3>2, FinishStep
  <2>5. \A s \in Slots \ S : item'[s] = item[s] /\ roll'[s] = roll[s] /\ won'[s] = won[s]
    BY <2>2, <2>4 DEF Finished
  <2>6. TypeOK'
    BY <1>a, <1>1, <2>4 DEF TypeOK, Finished
  <2>7. WindowInv'
    <3>1. \A s \in Slots : roll'[s].on => s \notin S
      BY <2>4 DEF Finished
    <3> QED BY <1>a, <2>5, <3>1 DEF WindowInv
  <2>8. FreshInv'
    <3>1. corpse' = "fresh" => corpse = "fresh" /\ S = {}
      BY <2>1
    <3> QED BY <1>a, <2>5, <3>1 DEF FreshInv
  <2>9. BlockedByRoll'
    <3> SUFFICES ASSUME NEW s \in Slots, corpse' = "open", item'[s].blocked, ~item'[s].looted
                 PROVE  roll'[s].on \/ members' = {} \/ s \in absent'
      BY DEF BlockedByRoll
    <3>1. CASE s \in S
      BY <2>4, <3>1 DEF Finished
    <3>2. CASE s \notin S
      BY <1>a, <2>4, <2>5, <3>2 DEF BlockedByRoll, Finished
    <3> QED BY <3>1, <3>2
  <2> QED BY <2>4, <2>6, <2>7, <2>8, <2>9 DEF IInv, Finished
<1>2. CASE UNCHANGED <<item, given, won, unlooted, absent, roll>> /\ groupLoot' = FALSE
  <2>1. TypeOK'
    BY <1>a, <1>2 DEF TypeOK
  <2>2. SlotInv' /\ Counted'
    BY <1>a, <1>2 DEF SlotInv, Counted
  <2>3. WindowInv' /\ FreshInv' /\ BlockedByRoll'
    BY <1>a, <1>2 DEF WindowInv, FreshInv, BlockedByRoll
  <2> QED BY <2>1, <2>2, <2>3 DEF IInv
<1> QED BY <1>1, <1>2 DEF StopGroupLoot

\* Somebody takes an item that no roll holds.
LEMMA AutostoreStep ==
    ASSUME IInv, NEW p \in Players, NEW s \in Slots, AutostoreLootItem(p, s)
    PROVE  IInv'
<1>a. TypeOK /\ SlotInv /\ Counted /\ WindowInv /\ FreshInv /\ BlockedByRoll
  BY DEF IInv
<1>0. p # Nobody
  BY GroupLootAssumption DEF GroupLootAssumption
<1>1. /\ corpse = "open" /\ ~item[s].looted /\ ~item[s].blocked /\ item[s].owner \in {Nobody, p}
      /\ item' = [item EXCEPT ![s].looted = TRUE]
      /\ given' = [given EXCEPT ![s] = Append(given[s], p)]
      /\ unlooted' = Less(unlooted, 1)
      /\ UNCHANGED <<members, online, corpse, roll, groupLoot, window, won, absent>>
  BY DEF AutostoreLootItem, Lootable, AllowedForPlayer
<1>2. /\ item' \in [Slots -> LootItem] /\ item'[s].looted /\ ~item'[s].blocked
      /\ item'[s].owner = item[s].owner
      /\ \A x \in Slots \ {s} : item'[x] = item[x]
  <2>1. PICK it \in LootItem : it = item[s]
    BY <1>a DEF TypeOK
  <2>2. /\ [it EXCEPT !.looted = TRUE] \in LootItem /\ [it EXCEPT !.looted = TRUE].looted = TRUE
        /\ [it EXCEPT !.looted = TRUE].blocked = it.blocked
        /\ [it EXCEPT !.looted = TRUE].owner = it.owner
    BY DEF LootItem
  <2>3. PICK i2 : i2 = [it EXCEPT !.looted = TRUE]
    OBVIOUS
  <2>4. item' = [item EXCEPT ![s] = i2]
    BY <1>1, <2>1, <2>3
  <2>5. i2 \in LootItem /\ i2.looted /\ ~i2.blocked /\ i2.owner = item[s].owner
    BY <1>1, <2>1, <2>2, <2>3
  <2> QED BY <1>a, <2>4, <2>5 DEF TypeOK
<1>3. given[s] = <<>> /\ given[s] \in Seq(Players)
  <2>1. given[s] \in Seq(Players) /\ Len(given[s]) = 0
    BY <1>a, <1>1 DEF TypeOK, SlotInv, Slot
  <2> QED BY <2>1, EmptySeq
<1>4. /\ given' \in [Slots -> Seq(Players)] /\ given'[s] = <<p>>
      /\ \A x \in Slots \ {s} : given'[x] = given[x]
  <2>1. Append(given[s], p) = <<p>> /\ <<p>> \in Seq(Players)
    BY <1>3
  <2> QED BY <1>a, <1>1, <2>1 DEF TypeOK
<1>5. Len(<<p>>) = 1 /\ <<p>> # <<>> /\ Head(<<p>>) = p
  OBVIOUS
<1>6. Counted' /\ unlooted' \in uint8
  <2> DEFINE A == {x \in Slots : given[x] = <<>>}
             B == {x \in Slots : given'[x] = <<>>}
  <2>1. B = A \ {s} /\ s \in A /\ A \subseteq Slots
    BY <1>3, <1>4, <1>5
  <2>2. Counted' <=> unlooted' = Cardinality(B)
    BY DEF Counted
  <2>3. unlooted = Cardinality(A)
    BY <1>a DEF Counted
  <2> HIDE DEF A, B
  <2>4. IsFiniteSet(A)
    BY <2>1, FS_Subset, GroupLootAssumption DEF GroupLootAssumption
  <2>5. Cardinality(A \ {s}) = Cardinality(A) - 1 /\ Cardinality(A) # 0
    BY <2>1, <2>4, FS_RemoveElement, FS_EmptySet
  <2>6. unlooted \in uint8
    BY <1>a DEF TypeOK
  <2>7. 1 \in uint8 /\ 1 <= unlooted
    BY <2>3, <2>5, <2>6 DEF uint8
  <2> QED BY <1>1, <2>1, <2>2, <2>3, <2>5, <2>6, <2>7, LessFacts
<1>7. TypeOK'
  BY <1>a, <1>1, <1>2, <1>4, <1>6 DEF TypeOK
<1>8. SlotInv'
  <2> SUFFICES ASSUME NEW x \in Slots PROVE Slot(roll'[x], item'[x], given'[x], won'[x])
    BY DEF SlotInv
  <2>1. Slot(roll[x], item[x], given[x], won[x])
    BY <1>a DEF SlotInv
  <2>2. CASE x # s
    BY <1>1, <1>2, <1>4, <2>1, <2>2
  <2>3. CASE x = s
    <3>1. roll[s].on => Live(roll[s], item'[s])
      <4>1. roll[s].on => Idle(roll[s])
        BY <1>1, <2>1, <2>3 DEF Slot, Live
      <4> QED BY <1>2, <4>1 DEF Live
    <3>2. won[s] # Nobody => Fair(roll[s], item'[s], <<p>>, won[s])
      <4>1. ASSUME won[s] # Nobody PROVE Fair(roll[s], item[s], <<>>, won[s])
        BY <1>3, <2>1, <2>3, <4>1 DEF Slot
      <4> QED BY <1>1, <1>5, <4>1 DEF Fair
    <3>3. Slot(roll[s], item'[s], <<p>>, won[s])
      BY <1>2, <1>5, <2>1, <2>3, <3>1, <3>2 DEF Slot
    <3> QED BY <1>1, <1>4, <2>3, <3>3
  <2> QED BY <2>2, <2>3
<1>9. WindowInv'
  <2>1. \A x \in Slots : item'[x].blocked <=> item[x].blocked
    BY <1>1, <1>2
  <2> QED BY <1>a, <1>1, <2>1 DEF WindowInv
<1>10. FreshInv' /\ BlockedByRoll'
  BY <1>a, <1>1, <1>2 DEF FreshInv, BlockedByRoll
<1> QED BY <1>6, <1>7, <1>8, <1>9, <1>10 DEF IInv

\* A player answers a roll.
LEMMA LootRollStep ==
    ASSUME IInv, NEW p \in Players, NEW s \in Slots, NEW v \in RollVote \ {"NOT_EMITED_YET"},
           HandleLootRoll(p, s, v)
    PROVE  IInv'
<1>a. TypeOK /\ SlotInv /\ Counted /\ WindowInv /\ FreshInv /\ BlockedByRoll
  BY DEF IInv
<1>1. /\ <<p, s>> \in window /\ window' = window \ {<<p, s>>}
      /\ UNCHANGED <<members, online, corpse, groupLoot>>
  BY DEF HandleLootRoll
<1>2. CASE UNCHANGED <<roll, item, given, won, unlooted, absent>>
  BY <1>a, <1>1, <1>2, Quiet DEF TypeOK
<1>3. CASE /\ roll[s].on /\ corpse = "open" /\ p \in DOMAIN roll[s].playerVote
           /\ Finish(IF IsComplete(Vote(s, p, v)) THEN {s} ELSE {}, [roll EXCEPT ![s] = Vote(s, p, v)])
  <2>1. /\ roll[s] \in Roll /\ Slot(roll[s], item[s], given[s], won[s])
        /\ item[s].blocked /\ roll[s].playerVote[p] = "NOT_EMITED_YET"
    BY <1>a, <1>1, <1>3 DEF TypeOK, SlotInv, WindowInv
  <2>2. ~item[s].looted /\ Exact(roll[s]) /\ won[s] = Nobody
    BY <1>3, <2>1 DEF Slot, Live
  <2>3. PICK r : r = Vote(s, p, v)
    OBVIOUS
  <2>4. /\ r \in Roll /\ Exact(r) /\ r.on
        /\ DOMAIN r.playerVote = DOMAIN roll[s].playerVote
        /\ \A q \in DOMAIN roll[s].playerVote : q # p => r.playerVote[q] = roll[s].playerVote[q]
    BY <1>3, <2>1, <2>2, <2>3, VoteFacts
  <2>5. PICK rs : rs = [roll EXCEPT ![s] = r]
    OBVIOUS
  <2>6. PICK S : S = IF IsComplete(r) THEN {s} ELSE {}
    OBVIOUS
  <2>7. /\ S \in SUBSET Slots /\ S \subseteq {s} /\ rs \in [Slots -> Roll] /\ rs[s] = r
        /\ \A x \in Slots \ {s} : rs[x] = roll[x]
    BY <1>a, <2>4, <2>5, <2>6 DEF TypeOK
  <2>8. Finished(S, rs)
    <3>1. Finish(S, rs)
      BY <1>3, <2>3, <2>5, <2>6
    <3>2. Slot(r, item[s], given[s], won[s])
      BY <2>1, <2>2, <2>4 DEF Slot, Live
    <3>3. /\ \A x \in Slots : Slot(rs[x], item[x], given[x], won[x])
          /\ \A x \in S : rs[x].on
      BY <1>a, <2>4, <2>7, <3>2 DEF SlotInv
    <3> QED BY <1>a, <2>7, <3>1, <3>3, FinishStep
  <2>9. /\ \A x \in Slots : roll'[x].on => x \notin S
        /\ \A x \in Slots \ S : item'[x] = item[x] /\ roll'[x] = rs[x]
    BY <2>8 DEF Finished
  <2>10. TypeOK'
    BY <1>a, <1>1, <2>8 DEF TypeOK, Finished
  <2>11. WindowInv'
    <3> SUFFICES ASSUME NEW q \in Players, NEW x \in Slots, <<q, x>> \in window', roll'[x].on
                 PROVE  /\ item'[x].blocked
                        /\ q \in DOMAIN roll'[x].playerVote =>
                              roll'[x].playerVote[q] = "NOT_EMITED_YET"
      BY DEF WindowInv
    <3>1. item'[x] = item[x] /\ roll'[x] = rs[x] /\ <<q, x>> \in window /\ (q # p \/ x # s)
      BY <1>1, <2>9
    <3>2. CASE x = s
      BY <1>a, <1>3, <2>1, <2>4, <2>7, <3>1, <3>2 DEF WindowInv
    <3>3. CASE x # s
      <4>1. roll'[x] = roll[x] /\ roll[x].on
        BY <2>7, <3>1, <3>3
      <4> QED BY <1>a, <3>1, <4>1 DEF WindowInv
    <3> QED BY <3>2, <3>3
  <2>12. FreshInv'
    BY <1>1, <1>3 DEF FreshInv
  <2>13. BlockedByRoll'
    <3> SUFFICES ASSUME NEW x \in Slots, item'[x].blocked, ~item'[x].looted
                 PROVE  roll'[x].on \/ members' = {} \/ x \in absent'
      BY DEF BlockedByRoll
    <3>1. CASE x \in S
      BY <2>8, <3>1 DEF Finished
    <3>2. CASE x \notin S /\ x = s
      BY <2>4, <2>7, <2>9, <3>2
    <3>3. CASE x \notin S /\ x # s
      <4>1. item'[x] = item[x] /\ roll'[x] = roll[x]
        BY <2>7, <2>9, <3>3
      <4>2. roll[x].on \/ members = {} \/ x \in absent
        BY <1>a, <1>3, <4>1 DEF BlockedByRoll
      <4> QED BY <1>1, <2>8, <4>1, <4>2 DEF Finished
    <3> QED BY <3>1, <3>2, <3>3
  <2> QED BY <2>8, <2>10, <2>11, <2>12, <2>13 DEF IInv, Finished
<1> QED BY <1>2, <1>3 DEF HandleLootRoll, CountRollVote

\* A member leaves and takes his votes with him, or the group is disbanded.
LEMMA RemoveMemberStep ==
    ASSUME IInv, NEW p \in Players, RemoveMember(p), online' \subseteq Players, window' \subseteq window
    PROVE  IInv'
<1>a. TypeOK /\ SlotInv /\ Counted /\ WindowInv /\ FreshInv /\ BlockedByRoll
  BY DEF IInv
<1>1. /\ UNCHANGED <<corpse, item, unlooted, groupLoot, given, won, absent>>
      /\ members' \subseteq members
      /\ members # {}
  BY DEF RemoveMember
<1>2. ASSUME roll' \in [Slots -> Roll],
             \A s \in Slots : /\ roll'[s].on => roll[s].on /\ Live(roll'[s], item[s])
                              /\ ~roll[s].on => roll'[s].playerVote = roll[s].playerVote
                              /\ \A q \in DOMAIN roll'[s].playerVote :
                                    /\ q \in DOMAIN roll[s].playerVote
                                    /\ roll'[s].playerVote[q] = roll[s].playerVote[q]
                              /\ roll'[s].on \/ ~roll[s].on \/ members' = {}
      PROVE  IInv'
  <2>1. TypeOK'
    BY <1>a, <1>1, <1>2 DEF TypeOK
  <2>2. SlotInv'
    <3> SUFFICES ASSUME NEW s \in Slots PROVE Slot(roll'[s], item'[s], given'[s], won'[s])
      BY DEF SlotInv
    <3>1. Slot(roll[s], item[s], given[s], won[s])
      BY <1>a DEF SlotInv
    <3>2. ASSUME won[s] # Nobody PROVE Fair(roll'[s], item[s], given[s], won[s])
      <4>1. ~roll[s].on /\ Fair(roll[s], item[s], given[s], won[s])
        BY <3>1, <3>2 DEF Slot
      <4>2. roll'[s].playerVote = roll[s].playerVote
        BY <1>2, <4>1
      <4> QED BY <4>1, <4>2 DEF Fair, Voters
    <3> QED BY <1>1, <1>2, <3>1, <3>2 DEF Slot
  <2>3. Counted' /\ FreshInv'
    BY <1>a, <1>1, <1>2 DEF Counted, FreshInv
  <2>4. WindowInv'
    BY <1>a, <1>1, <1>2 DEF WindowInv
  <2>5. BlockedByRoll'
    BY <1>a, <1>1, <1>2 DEF BlockedByRoll
  <2> QED BY <2>1, <2>2, <2>3, <2>4, <2>5 DEF IInv
<1>3. CASE roll' = [s \in Slots |-> WithoutVote(roll[s], p)]
  <2>1. ASSUME NEW s \in Slots
        PROVE  /\ roll'[s] \in Roll /\ roll'[s].on = roll[s].on
               /\ roll'[s].on => Live(roll'[s], item[s])
               /\ DOMAIN roll'[s].playerVote \subseteq DOMAIN roll[s].playerVote
               /\ \A q \in DOMAIN roll'[s].playerVote : roll'[s].playerVote[q] = roll[s].playerVote[q]
               /\ ~roll[s].on => roll'[s].playerVote = roll[s].playerVote
    <3>1. PICK r, it : r = roll[s] /\ it = item[s]
      OBVIOUS
    <3>2. r \in Roll /\ (r.on => Live(r, it))
      BY <1>a, <3>1 DEF TypeOK, SlotInv, Slot
    <3>3. roll'[s] = WithoutVote(r, p)
      BY <1>3, <3>1
    <3> QED BY <3>1, <3>2, <3>3, WithoutFacts
  <2>2. roll' \in [Slots -> Roll]
    BY <1>3, <2>1
  <2>3. \A s \in Slots : roll[s].on \in BOOLEAN
    BY <1>a, RollFacts DEF TypeOK
  <2> QED BY <1>2, <2>1, <2>2, <2>3
<1>4. CASE members' = {} /\ roll' = [s \in Slots |-> [roll[s] EXCEPT !.on = FALSE]]
  <2>1. ASSUME NEW s \in Slots
        PROVE  roll'[s] \in Roll /\ ~roll'[s].on /\ roll'[s].playerVote = roll[s].playerVote
    <3>1. PICK r \in Roll : r = roll[s]
      BY <1>a DEF TypeOK
    <3>2. roll'[s] = [r EXCEPT !.on = FALSE]
      BY <1>4, <3>1
    <3> QED BY <3>1, <3>2, EndedFacts
  <2>2. roll' \in [Slots -> Roll]
    BY <1>4, <2>1
  <2> QED BY <1>2, <1>4, <2>1, <2>2
<1> QED BY <1>3, <1>4 DEF RemoveMember

-----------------------------------------------------------------------------
(* The theorems. *)

LEMMA Start == Init => IInv
<1> SUFFICES ASSUME Init PROVE IInv
  OBVIOUS
<1>1. Cardinality(Slots) \in uint8
  <2>1. Cardinality(Slots) \in Nat /\ Cardinality(Slots) < 256
    BY GroupLootAssumption, FS_CardinalityType DEF GroupLootAssumption
  <2> QED BY <2>1 DEF uint8
<1>2. /\ NewRoll({}) \in Roll /\ ~NewRoll({}).on
  <2>1. PICK it : it = [blocked |-> FALSE, looted |-> FALSE]
    OBVIOUS
  <2>2. ~it.looted /\ (it.blocked <=> Cardinality({}) > 1)
    BY <2>1, FS_EmptySet
  <2> QED BY <2>2, NewRollFacts
<1>3. TypeOK
  <2>1. item \in [Slots -> LootItem] /\ given \in [Slots -> Seq(Players)]
    BY DEF Init, LootItem
  <2>2. roll \in [Slots -> Roll]
    BY <1>2 DEF Init
  <2>3. Party \subseteq Players
    BY GroupLootAssumption DEF GroupLootAssumption
  <2> QED BY <1>1, <2>1, <2>2, <2>3 DEF Init, TypeOK
<1>4. \A s \in Slots : /\ ~roll[s].on /\ ~item[s].looted /\ ~item[s].blocked /\ given[s] = <<>>
                       /\ won[s] = Nobody
  BY <1>2 DEF Init
<1>5. SlotInv
  BY <1>4 DEF SlotInv, Slot
<1>6. Counted
  <2>1. {s \in Slots : given[s] = <<>>} = Slots
    BY <1>4
  <2> QED BY <2>1 DEF Counted, Init
<1>7. WindowInv /\ FreshInv /\ BlockedByRoll
  BY <1>4 DEF Init, WindowInv, FreshInv, BlockedByRoll
<1> QED BY <1>3, <1>5, <1>6, <1>7 DEF IInv

LEMMA InductiveStep == IInv /\ [Next]_vars => IInv'
<1> SUFFICES ASSUME IInv, [Next]_vars PROVE IInv'
  OBVIOUS
<1>0. Restless \subseteq Players /\ online \subseteq Players
  BY GroupLootAssumption DEF GroupLootAssumption, IInv, TypeOK
<1>1. ASSUME NEW R \in [Slots -> SUBSET (members \cap online)], SendLoot(R) PROVE IInv'
  BY <1>1, SendLootStep
<1>2. CASE RemoveCorpse \/ GroupLootTimer
  BY <1>2, StopStep DEF RemoveCorpse, GroupLootTimer
<1>3. ASSUME NEW p \in Players,
             \/ \E s \in Slots : AutostoreLootItem(p, s)
             \/ \E s \in Slots, v \in RollVote \ {"NOT_EMITED_YET"} : HandleLootRoll(p, s, v)
      PROVE  IInv'
  BY <1>3, AutostoreStep, LootRollStep
<1>4. ASSUME NEW p \in Players, LeaveGroup(p) \/ Logout(p) PROVE IInv'
  <2>1. RemoveMember(p) /\ online' \subseteq Players /\ window' \subseteq window
    BY <1>0, <1>4 DEF LeaveGroup, Logout, GoOffline
  <2> QED BY <2>1, RemoveMemberStep
<1>5. CASE LootRelease \/ (\E p \in Players : Disconnect(p) \/ Login(p) \/ AddMember(p)) \/ UNCHANGED vars
  BY <1>5, QuietSteps
<1> QED BY <1>0, <1>1, <1>2, <1>3, <1>4, <1>5 DEF Next

\* However the members leave, disconnect and come back, every reachable state
\* of the rolls satisfies the inductive invariant.
THEOREM Invariance == Spec => []IInv
<1>1. Init => IInv
  BY Start
<1>2. IInv /\ [Next]_vars => IInv'
  BY InductiveStep
<1> QED BY <1>1, <1>2, PTL DEF Spec

\* Every variable has its type, the eight-bit counters included.
THEOREM TypeCorrect == Spec => []TypeOK
<1>1. IInv => TypeOK
  BY DEF IInv
<1> QED BY <1>1, Invariance, PTL

\* CountTheRoll and HandleAutostoreLootItemOpcode together give an item to one
\* player at most, and unlootedCount counts the items nobody has.
THEOREM ItemsGivenOnce == Spec => []GivenOnce
<1>1. IInv => GivenOnce
  BY DEF IInv, SlotInv, Slot, Counted, GivenOnce
<1> QED BY <1>1, Invariance, PTL

\* The counters of an announced roll are the votes of those who are still in it.
THEOREM VotesCounted == Spec => []CountersExact
<1>1. IInv => CountersExact
  BY DEF IInv, SlotInv, Slot, Live, Exact, CountersExact
<1> QED BY <1>1, Invariance, PTL

\* The announced winner chose need, or greed when nobody who stayed chose need,
\* and an item won by need is his, now or later.
THEOREM NeedBeforeGreed == Spec => []BestVoteWins
<1>1. IInv => BestVoteWins
  BY DEF IInv, SlotInv, Slot, Fair, BestVoteWins
<1> QED BY <1>1, Invariance, PTL

\* An item of an open corpse stays blocked without a roll only if the group was
\* disbanded or its winner was not online.
THEOREM BlockedForAReason == Spec => []BlockedByRoll
<1>1. IInv => BlockedByRoll
  BY DEF IInv
<1> QED BY <1>1, Invariance, PTL

=============================================================================
