------------------------------ MODULE GroupLoot ------------------------------
(***************************************************************************)
(* Loot rolls of a group over the corpse of one creature                   *)
(* (Group/Group.cpp, Objects/Creature.cpp, Handlers/LootHandler.cpp,       *)
(* Handlers/GroupHandler.cpp).                                             *)
(*                                                                         *)
(* Slots are the items above the group's loot threshold.  Whether a player *)
(* is near, may use an item and has room for it is chosen when the code    *)
(* asks.  The packets of the group are handled in World::UpdateSessions    *)
(* and the creature is updated after it, so that every handler is a step.  *)
(*                                                                         *)
(* External: the client, which answers a roll it was shown once.  The      *)
(* handler itself would count a second answer again.                       *)
(***************************************************************************)
EXTENDS Naturals, Sequences, FiniteSets, Functions

CONSTANTS Players,      \* characters that may loot the corpse
          Slots,        \* slots of the loot that are rolled for
          Eligible,     \* Eligible[s]: who may have the item of slot s
          Restless,     \* who leaves, disconnects and comes back
          Party,        \* who is in the group when the creature dies
          Raid,         \* the group is a raid
          Nobody        \* an empty ObjectGuid

\* Group::Create and AddMember make no group of one; uint8 counters.
ASSUME GroupLootAssumption ==
    /\ IsFiniteSet(Players) /\ IsFiniteSet(Slots)
    /\ Eligible \in [Slots -> SUBSET Players] /\ Restless \subseteq Players
    /\ Party \subseteq Players /\ Cardinality(Party) > 1
    /\ Cardinality(Players) < 256 /\ Cardinality(Slots) < 256
    /\ Raid \in BOOLEAN /\ Nobody \notin Players

VARIABLES
    members,    \* Group::m_memberSlots, {} once the group is deleted
    online,     \* players with a session and in the world
    corpse,     \* the creature's loot: "fresh", "open" or "cleared"
    item,       \* Loot::items
    unlooted,   \* Loot::unlootedCount
    roll,       \* Group::RollId, by slot
    groupLoot,  \* Creature::m_groupLootId is set
    window,     \* external: the roll windows open at the clients
    given,      \* history: who was given the item of the slot
    won,        \* history: the winner announced by SendLootRollWon
    absent      \* history: slots won by a player who was not online

vars == <<members, online, corpse, item, unlooted, roll, groupLoot, window,
          given, won, absent>>

RollVote == {"PASS", "NEED", "GREED", "NOT_EMITED_YET"}

uint8 == 0 .. 255

\* Faulty variant: a counter that is not kept in eight bits.
LessSigned(n, k) == n - k

Less(n, k) == (256 + n - k) % 256

LootItem == [blocked : BOOLEAN, looted : BOOLEAN, owner : Players \cup {Nobody}]

\* A roll that has ended keeps its votes for the properties; on tells whether
\* it is still in RollId.
Roll == [on : BOOLEAN, playerVote : UNION {[R -> RollVote] : R \in SUBSET Players},
         rolling : uint8, need : uint8, greed : uint8, pass : uint8]

NewRoll(R) ==
    [on |-> R # {},
     playerVote |-> [p \in R |-> IF Cardinality(R) = 1 THEN "NEED" ELSE "NOT_EMITED_YET"],
     rolling |-> Cardinality(R), need |-> 0, greed |-> 0, pass |-> 0]

Voters(r, v) == {p \in DOMAIN r.playerVote : r.playerVote[p] = v}

Init ==
    /\ members = Party
    /\ online = Players
    /\ corpse = "fresh"
    /\ item = [s \in Slots |-> [blocked |-> FALSE, looted |-> FALSE, owner |-> Nobody]]
    /\ unlooted = Cardinality(Slots)
    /\ roll = [s \in Slots |-> NewRoll({})]
    /\ groupLoot = FALSE
    /\ window = {}
    /\ given = [s \in Slots |-> <<>>]
    /\ won = [s \in Slots |-> Nobody]
    /\ absent = {}

-----------------------------------------------------------------------------
(* The end of a roll. *)

\* The outcome of a roll is a record: what becomes of the item, who stored it
\* (taker), who was announced (winner).

\* Faulty variant: the item is stored and stays in the loot.
StoredUnmarked(s, w) == [item |-> [item[s] EXCEPT !.blocked = FALSE], taker |-> w, winner |-> w]

Stored(s, w) ==
    [item |-> [item[s] EXCEPT !.looted = TRUE], taker |-> w, winner |-> w]

Left(s, w, it) == [item |-> it, taker |-> Nobody, winner |-> w]

\* Faulty variant: everybody in the roll draws a number.
WinnersAll(r, v) == DOMAIN r.playerVote

\* The winner is the highest of random numbers among those who chose v, and
\* the first of the map when nobody did.
Winners(r, v) ==
    IF Voters(r, v) # {} THEN Voters(r, v) ELSE DOMAIN r.playerVote

NeedWon(s, w) ==
    IF w \in online
    THEN {Stored(s, w), Left(s, w, [blocked |-> FALSE, looted |-> item[s].looted, owner |-> w])}
    ELSE {Left(s, w, [item[s] EXCEPT !.owner = w])}

GreedWon(s, w) ==
    IF w \in online
    THEN {Stored(s, w), Left(s, w, [item[s] EXCEPT !.blocked = FALSE])}
    ELSE {Left(s, w, item[s])}

\* Faulty variant: an item nobody wants stays blocked.
AllPassedBlocked(s) == {Left(s, Nobody, item[s])}

AllPassed(s) == {Left(s, Nobody, [item[s] EXCEPT !.blocked = FALSE])}

\* Group::CountTheRoll, without the erasing of the roll.  A roll whose last
\* player has left is erased and its item left as it is.
CountTheRoll(s, r) ==
    IF r.need > 0 \/ r.greed > 0
    THEN IF DOMAIN r.playerVote = {} THEN {Left(s, Nobody, item[s])}
         ELSE IF r.need > 0 THEN UNION {NeedWon(s, w) : w \in Winners(r, "NEED")}
         ELSE UNION {GreedWon(s, w) : w \in Winners(r, "GREED")}
    ELSE AllPassed(s)

\* The rolls of the slots S are counted with the votes in rs and erased.
Finish(S, rs) ==
    /\ \E o \in [S -> UNION {CountTheRoll(s, rs[s]) : s \in S}] :
          /\ \A s \in S : o[s] \in CountTheRoll(s, rs[s])
          /\ item' = [s \in Slots |-> IF s \in S THEN o[s].item ELSE item[s]]
          /\ given' = [s \in Slots |->
                IF s \in S /\ o[s].taker # Nobody THEN Append(given[s], o[s].taker)
                ELSE given[s]]
          /\ won' = [s \in Slots |-> IF s \in S THEN o[s].winner ELSE won[s]]
          /\ unlooted' = Less(unlooted, Cardinality({s \in S : o[s].taker # Nobody}))
          /\ absent' = absent \cup {s \in S : o[s].winner \notin online \cup {Nobody}}
    /\ roll' = [s \in Slots |-> IF s \in S THEN [rs[s] EXCEPT !.on = FALSE] ELSE rs[s]]

\* Group::EndRoll: every roll of this loot that is still valid.
EndRoll ==
    Finish({s \in Slots : roll[s].on /\ corpse = "open"}, roll)

\* Faulty variant: the timer is reset and the rolls are forgotten.
StopForgets ==
    /\ groupLoot' = FALSE
    /\ UNCHANGED <<item, given, won, unlooted, absent, roll>>

\* Creature::StopGroupLoot: the rolls end if the group still exists.
StopGroupLoot ==
    /\ groupLoot' = FALSE
    /\ IF groupLoot /\ members # {}
       THEN EndRoll
       ELSE UNCHANGED <<item, given, won, unlooted, absent, roll>>

-----------------------------------------------------------------------------
(* The loot. *)

\* LootItem::AllowedForPlayer: conditions and quests, and an item that was won
\* is its winner's.
AllowedForPlayer(s, p) == p \in Eligible[s] /\ item[s].owner \in {Nobody, p}

\* Player::SendLoot opens the corpse for the first time: Group::GroupLoot (or
\* NeedBeforeGreed) starts a roll of every slot among the members R[s] that
\* are near and may have it.  An item with one candidate is not blocked and
\* not announced, one with several is, and starts the creature's timer.
SendLoot(R) ==
    LET rolled == {s \in Slots : Cardinality(R[s]) > 1}
    IN  /\ corpse = "fresh"
        /\ members # {}
        /\ \A s \in Slots : \A p \in R[s] : AllowedForPlayer(s, p)
        /\ corpse' = "open"
        /\ roll' = [s \in Slots |-> NewRoll(R[s])]
        /\ item' = [s \in Slots |-> [item[s] EXCEPT !.blocked = s \in rolled]]
        /\ groupLoot' = (rolled # {})
        /\ window' = {x \in Players \X Slots : x[2] \in rolled /\ x[1] \in R[x[2]]}
        /\ UNCHANGED <<members, online, unlooted, given, won, absent>>

\* Loot::LootItemInSlot, and no roll holds the item.
Lootable(s) == ~item[s].looted /\ ~item[s].blocked

\* WorldSession::HandleAutostoreLootItemOpcode, when there is room.
AutostoreLootItem(p, s) ==
    /\ corpse = "open"
    /\ p \in online
    /\ Lootable(s)
    /\ AllowedForPlayer(s, p)
    /\ item' = [item EXCEPT ![s].looted = TRUE]
    /\ given' = [given EXCEPT ![s] = Append(@, p)]
    /\ unlooted' = Less(unlooted, 1)
    /\ UNCHANGED <<members, online, corpse, roll, groupLoot, window, won, absent>>

\* WorldSession::DoLootRelease of an emptied corpse: Loot::clear invalidates
\* the rolls, which stay in RollId.
LootRelease ==
    /\ corpse = "open"
    /\ unlooted = 0
    /\ corpse' = "cleared"
    /\ UNCHANGED <<members, online, item, unlooted, roll, groupLoot, window,
                   given, won, absent>>

\* Creature::Update, the corpse decays: Creature::RemoveCorpse ends the rolls
\* and then clears the loot.
RemoveCorpse ==
    /\ corpse # "cleared"
    /\ StopGroupLoot
    /\ corpse' = "cleared"
    /\ UNCHANGED <<members, online, window>>

\* Creature::Update, m_groupLootTimer is over.
GroupLootTimer ==
    /\ groupLoot
    /\ StopGroupLoot
    /\ UNCHANGED <<members, online, corpse, window>>

-----------------------------------------------------------------------------
(* Votes and members. *)

\* Group::CountRollVote: the vote is entered, and the roll counted when there
\* are as many votes as players.
Vote(s, p, v) ==
    LET r          == roll[s]
        Plus(n, w) == IF v = w THEN n + 1 ELSE n
    IN  [on |-> r.on, playerVote |-> [r.playerVote EXCEPT ![p] = v], rolling |-> r.rolling,
         need |-> Plus(r.need, "NEED"), greed |-> Plus(r.greed, "GREED"),
         pass |-> Plus(r.pass, "PASS")]

IsComplete(r) == r.pass + r.need + r.greed >= r.rolling

CountRollVote(p, s, v) ==
    LET r  == Vote(s, p, v)
        rs == [roll EXCEPT ![s] = r]
    IN  IF p \notin DOMAIN roll[s].playerVote
        THEN UNCHANGED <<roll, item, given, won, unlooted, absent>>
        ELSE Finish(IF IsComplete(r) THEN {s} ELSE {}, rs)

\* WorldSession::HandleLootRoll: an answer to a roll that has ended, or from a
\* player who has left, is dropped.
HandleLootRoll(p, s, v) ==
    /\ p \in online
    /\ <<p, s>> \in window
    /\ window' = window \ {<<p, s>>}
    /\ IF p \in members /\ roll[s].on /\ corpse = "open"
       THEN CountRollVote(p, s, v)
       ELSE UNCHANGED <<roll, item, given, won, unlooted, absent>>
    /\ UNCHANGED <<members, online, corpse, groupLoot>>

\* Faulty variant: the counter of the erased vote is kept.
WithoutVoteCounted(r, p) ==
    IF ~r.on \/ p \notin DOMAIN r.playerVote THEN r
    ELSE [r EXCEPT !.playerVote = Restrict(@, DOMAIN @ \ {p}), !.rolling = Less(@, 1)]

\* Group::_removeRolls for one roll.  The vote is taken back; the call of
\* CountRollVote that follows returns at once, for it no longer finds the
\* player, and so never counts the roll.
WithoutVote(r, p) ==
    IF ~r.on \/ p \notin DOMAIN r.playerVote THEN r
    ELSE LET Minus(n, w) == IF r.playerVote[p] = w THEN Less(n, 1) ELSE n
         IN  [on |-> r.on, playerVote |-> Restrict(r.playerVote, DOMAIN r.playerVote \ {p}),
              rolling |-> Less(r.rolling, 1),
              need |-> Minus(r.need, "NEED"), greed |-> Minus(r.greed, "GREED"),
              pass |-> Minus(r.pass, "PASS")]

\* Group::_removeMember, or Group::Disband of a group of two, which forgets
\* the rolls and leaves their items blocked; Player::RemoveFromGroup then
\* deletes the group.
RemoveMember(p) ==
    /\ p \in members
    /\ \/ /\ Cardinality(members) > 2
          /\ members' = members \ {p}
          /\ roll' = [s \in Slots |-> WithoutVote(roll[s], p)]
       \/ /\ Cardinality(members) <= 2
          /\ members' = {}
          /\ roll' = [s \in Slots |-> [roll[s] EXCEPT !.on = FALSE]]
    /\ UNCHANGED <<corpse, item, unlooted, groupLoot, given, won, absent>>

\* HandleGroupDisbandOpcode and HandleGroupUninviteGuidOpcode.
LeaveGroup(p) == RemoveMember(p) /\ UNCHANGED <<online, window>>

GoOffline(p) ==
    /\ p \in online
    /\ online' = online \ {p}
    /\ window' = {x \in window : x[1] # p}

\* WorldSession::LogoutPlayer removes a player who logs out normally from a
\* party.  In a raid, and when the connection was lost, he stays a member.
Logout(p) == ~Raid /\ GoOffline(p) /\ RemoveMember(p)

Disconnect(p) ==
    /\ GoOffline(p)
    /\ UNCHANGED <<members, corpse, item, unlooted, roll, groupLoot, given, won, absent>>

Login(p) ==
    /\ p \notin online
    /\ online' = online \cup {p}
    /\ UNCHANGED <<members, corpse, item, unlooted, roll, groupLoot, window,
                   given, won, absent>>

\* Group::AddMember after an accepted invitation.
AddMember(p) ==
    /\ members # {}
    /\ p \in online \ members
    /\ members' = members \cup {p}
    /\ UNCHANGED <<online, corpse, item, unlooted, roll, groupLoot, window,
                   given, won, absent>>

Next ==
    \/ \E R \in [Slots -> SUBSET (members \cap online)] : SendLoot(R)
    \/ LootRelease \/ RemoveCorpse \/ GroupLootTimer
    \/ \E p \in Players :
          \/ \E s \in Slots : AutostoreLootItem(p, s)
          \/ \E s \in Slots, v \in RollVote \ {"NOT_EMITED_YET"} : HandleLootRoll(p, s, v)
    \/ \E p \in Restless :
          LeaveGroup(p) \/ Logout(p) \/ Disconnect(p) \/ Login(p) \/ AddMember(p)

\* Creature::Update runs with every update of its map, so that the timer is
\* over some time after it was set.
Spec == Init /\ [][Next]_vars /\ WF_vars(GroupLootTimer)

-----------------------------------------------------------------------------
(* Properties. *)

\* Every variable has its type (Group.h:123-144, LootMgr.h:107-125).
TypeOK ==
    /\ members \subseteq Players /\ online \subseteq Players
    /\ corpse \in {"fresh", "open", "cleared"}
    /\ item \in [Slots -> LootItem]
    /\ unlooted \in uint8
    /\ roll \in [Slots -> Roll]
    /\ groupLoot \in BOOLEAN
    /\ window \subseteq Players \X Slots
    /\ given \in [Slots -> Seq(Players)]
    /\ won \in [Slots -> Players \cup {Nobody}]
    /\ absent \subseteq Slots

\* Each item goes to one player at most, whether a roll gives it or somebody
\* takes it from the corpse, and unlootedCount, which decides when the corpse
\* is cleared, counts the items nobody has (CountTheRoll gives an item without
\* looking at is_looted).
GivenOnce ==
    /\ \A s \in Slots : Len(given[s]) = (IF item[s].looted THEN 1 ELSE 0)
    /\ unlooted = Cardinality({s \in Slots : given[s] = <<>>})

\* The counters of a roll that was announced are the votes of those who are
\* still in it, however many have left: none runs below zero and none keeps
\* the vote of somebody who is gone (Group::_removeRolls).
CountersExact ==
    \A s \in Slots : roll[s].on /\ item[s].blocked =>
        /\ roll[s].need = Cardinality(Voters(roll[s], "NEED"))
        /\ roll[s].greed = Cardinality(Voters(roll[s], "GREED"))
        /\ roll[s].pass = Cardinality(Voters(roll[s], "PASS"))
        /\ roll[s].rolling = Cardinality(DOMAIN roll[s].playerVote)

\* The announced winner chose need, or greed when nobody who stayed chose
\* need; a player who did not vote passes (Group.cpp:781).  An item won by
\* need ends with its winner or with nobody: if he had no room or was not
\* online it is kept for him (LootItem::lootOwner).
BestVoteWins ==
    \A s \in Slots : won[s] # Nobody =>
        /\ won[s] \in DOMAIN roll[s].playerVote
        /\ \/ /\ roll[s].playerVote[won[s]] = "NEED"
              /\ given[s] # <<>> => Head(given[s]) = won[s]
           \/ /\ roll[s].playerVote[won[s]] = "GREED"
              /\ Voters(roll[s], "NEED") = {}

\* An item of an open corpse is blocked while its roll lasts.  Afterwards it
\* can be looted, with two exceptions that the code does not undo: the group
\* was disbanded during the roll, or the winner was not online.
BlockedByRoll ==
    \A s \in Slots : corpse = "open" /\ item[s].blocked /\ ~item[s].looted =>
        roll[s].on \/ members = {} \/ s \in absent

\* Every announced roll ends, although its players leave or disconnect without
\* a vote: a roll that has lost its last missing voter is not counted by
\* _removeRolls and waits for the timer.
RollEnds ==
    \A s \in Slots : (roll[s].on /\ item[s].blocked) ~> ~roll[s].on

=============================================================================
