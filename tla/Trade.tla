-------------------------------- MODULE Trade --------------------------------
(***************************************************************************)
(* Trade between two players (Handlers/TradeHandler.cpp, TradeData in      *)
(* Objects/Player.cpp): offers, the two accepts, the exchange and its save.*)
(*                                                                         *)
(* The packets of a session are handled one at a time by the thread of the *)
(* map both traders are on.  What a client shows lags behind the server:   *)
(* down[p] holds the updates of the other side's offer that p has not seen,*)
(* pressed[p] an accept that has not arrived.  The spell of the seventh    *)
(* slot is left out, and an offer is a sum of gold and a set of items.     *)
(***************************************************************************)
EXTENDS Integers, Sequences, FiniteSets

CONSTANTS Players, Items,
          Gold,             \* Gold[p]: what p has at first
          Bag,              \* Bag[p]: the items p has at first
          MaxMoney,         \* MAX_MONEY_AMOUNT
          MaxUpdates,       \* bound: updates on their way to one client
          MaxCrashes,       \* bound: crashes of the server
          None

ASSUME TradeAssumption ==
    /\ MaxMoney \in Nat /\ MaxUpdates \in Nat \ {0} /\ MaxCrashes \in Nat
    /\ Gold \in [Players -> 0 .. MaxMoney]
    /\ Bag \in [Players -> SUBSET Items]
    /\ \A p, q \in Players : p # q => Bag[p] \cap Bag[q] = {}
    /\ None \notin Players

VARIABLES
    trade,      \* Player::m_trade
    purse, bag, \* gold and items of the players
    down,       \* external: updates on their way to the client
    view,       \* external: the offer the client shows for the other side, or
                \*   None before the window is open
    pressed,    \* external: the view an accept on its way was given for
    disk,       \* the database, by player
    crashes

vars == <<trade, purse, bag, down, view, pressed, disk, crashes>>

Offer == [money : 0 .. MaxMoney, items : SUBSET Items]

Nothing == [money |-> 0, items |-> {}]

\* accepted: None for false, for true the view that was accepted.
\* recent: m_lastModificationTime is at most two seconds ago.
TradeData == [trader : Players, accepted : Offer \cup {None}, recent : BOOLEAN,
              offer : Offer]

\* A null pointer is no trade and no offer.
ASSUME NoneAssumption == None \notin TradeData /\ None \notin Offer

NewTrade(q) == [trader |-> q, accepted |-> None, recent |-> FALSE, offer |-> Nothing]

\* TradeData::SetAccepted, SetLastModificationTime and three seconds later, and the
\* assignments of SetItem and SetMoney.
WithAccepted(d, v) == [d EXCEPT !.accepted = v]
Delayed(d) == [d EXCEPT !.recent = TRUE]
Undelayed(d) == [d EXCEPT !.recent = FALSE]
WithOffer(d, o) == [d EXCEPT !.offer = o]

Unaccepted(d) == WithAccepted(d, None)

Trading(p) == trade[p] # None
Accepted(p) == trade[p].accepted # None

Init ==
    /\ trade = [p \in Players |-> None]
    /\ purse = Gold /\ bag = Bag
    /\ down = [p \in Players |-> <<>>]
    /\ view = [p \in Players |-> None]
    /\ pressed = [p \in Players |-> None]
    /\ disk = [p \in Players |-> [gold |-> Gold[p], items |-> Bag[p]]]
    /\ crashes = 0

-----------------------------------------------------------------------------
(* Opening and closing. *)

\* WorldSession::HandleInitiateTradeOpcode; the windows open empty.  Assumed of
\* the network: what belongs to an earlier trade of the two has arrived.  (A
\* new trade does not start the delay of three seconds.)
InitiateTrade(p, q) ==
    /\ p # q /\ ~Trading(p) /\ ~Trading(q)
    /\ \A x \in {p, q} : down[x] = <<>> /\ pressed[x] = None
    /\ trade' = [trade EXCEPT ![p] = NewTrade(q), ![q] = NewTrade(p)]
    /\ view' = [view EXCEPT ![p] = None, ![q] = None]
    /\ down' = [down EXCEPT ![p] = <<Nothing>>, ![q] = <<Nothing>>]
    /\ UNCHANGED <<purse, bag, pressed, disk, crashes>>

Closed(p) == [trade EXCEPT ![p] = None, ![trade[p].trader] = None]

\* Player::TradeCancel: by the client, at logout, teleport or flight.
TradeCancel(p) ==
    /\ Trading(p)
    /\ trade' = Closed(p)
    /\ UNCHANGED <<purse, bag, down, view, pressed, disk, crashes>>

-----------------------------------------------------------------------------
(* Offers.  A packet waits behind an accept of the same client. *)

\* Faulty variant: the partner may accept at once.
ChangedAtOnce(p, o) ==
    LET q    == trade[p].trader
        same == o = trade[p].offer
    IN  /\ trade' = [trade EXCEPT
              ![q] = Unaccepted(trade[q]),
              ![p] = IF same THEN trade[p] ELSE Unaccepted(WithOffer(trade[p], o))]
        /\ down' = IF same THEN down ELSE [down EXCEPT ![q] = Append(@, o)]

\* The common end of the handlers that change an offer: the partner's accept
\* is taken back and he may not accept for three seconds; TradeData::SetMoney
\* and SetItem take back the own accept and update the partner's window, if
\* the offer really changes.
Changed(p, o) ==
    LET q    == trade[p].trader
        same == o = trade[p].offer
    IN  /\ trade' = [trade EXCEPT
              ![q] = Delayed(Unaccepted(trade[q])),
              ![p] = IF same THEN trade[p] ELSE Unaccepted(WithOffer(trade[p], o))]
        /\ down' = IF same THEN down ELSE [down EXCEPT ![q] = Append(@, o)]

\* The client has the window of the trade open.
Open(p) == Trading(p) /\ view[p] # None /\ pressed[p] = None

CanChange(p) ==
    /\ Open(p)
    /\ Len(down[trade[p].trader]) < MaxUpdates

SetTradeGold(p, g) ==
    /\ CanChange(p)
    /\ g <= purse[p]
    /\ Changed(p, [trade[p].offer EXCEPT !.money = g])
    /\ UNCHANGED <<purse, bag, view, pressed, disk, crashes>>

\* The slot may hold another item, which leaves the offer.
SetTradeItem(p, i, out) ==
    /\ CanChange(p)
    /\ i \in bag[p] \ trade[p].offer.items
    /\ out \subseteq trade[p].offer.items /\ Cardinality(out) <= 1
    /\ Changed(p, [trade[p].offer EXCEPT !.items = (@ \ out) \cup {i}])
    /\ UNCHANGED <<purse, bag, view, pressed, disk, crashes>>

ClearTradeItem(p, i) ==
    /\ CanChange(p)
    /\ i \in trade[p].offer.items
    /\ Changed(p, [trade[p].offer EXCEPT !.items = @ \ {i}])
    /\ UNCHANGED <<purse, bag, view, pressed, disk, crashes>>

UnacceptTrade(p) ==
    /\ Open(p)
    /\ trade' = [trade EXCEPT ![p] = Unaccepted(@)]
    /\ UNCHANGED <<purse, bag, down, view, pressed, disk, crashes>>

-----------------------------------------------------------------------------
(* The accept. *)

\* Faulty variant: the maximum is not kept.
ReceiveAll(g, d) == g + d

\* Player::ModifyMoney for a gain, which stops at the maximum, and for a loss,
\* which stops at zero.
Receive(g, d) == IF g < MaxMoney - d THEN g + d ELSE MaxMoney
Pay(g, d) == IF g > d THEN g - d ELSE 0

\* Faulty variant: the check at the end of the trade is left out for the partner.
PayableOwn(p) == trade[p].offer.money <= purse[p]

\* Neither side offers more gold than it has by now.
Payable(p) ==
    /\ trade[p].offer.money <= purse[p]
    /\ trade[trade[p].trader].offer.money <= purse[trade[p].trader]

SetAccepted(p) == [trade EXCEPT ![p] = WithAccepted(@, pressed[p])]

\* Who is found without the gold, the sender being asked first, is unaccepted.
Refused(p) ==
    LET poor == IF trade[p].offer.money > purse[p] THEN p ELSE trade[p].trader
    IN  [SetAccepted(p) EXCEPT ![poor] = Unaccepted(@)]

\* No room on one side: both accepts are taken back.
NoRoom(p) ==
    LET q == trade[p].trader
    IN  [trade EXCEPT ![p] = Unaccepted(trade[p]),
                      ![q] = Delayed(Unaccepted(trade[q]))]

\* TradeData::GetItem finds an item only while its owner still has it.
Handed(p) == trade[p].offer.items \cap bag[p]

\* Faulty variant: only the player who completes the trade is saved.
SavedAlone(p, q) ==
    [disk EXCEPT ![p] = [gold |-> purse'[p], items |-> bag'[p]]]

\* One transaction saves both inventories and purses.
Saved(p, q) ==
    [disk EXCEPT ![p] = [gold |-> purse'[p], items |-> bag'[p]],
                 ![q] = [gold |-> purse'[q], items |-> bag'[q]]]

\* Items are removed on both sides and stored (moveItems), gold is moved, both
\* trades are deleted and both players saved.
Exchange(p) ==
    LET q     == trade[p].trader
        mine  == trade[p].offer
        his   == trade[q].offer
    IN  /\ bag' = [bag EXCEPT ![p] = (@ \ Handed(p)) \cup Handed(q),
                              ![q] = (@ \ Handed(q)) \cup Handed(p)]
        /\ purse' = [purse EXCEPT ![p] = Receive(Pay(@, mine.money), his.money),
                                  ![q] = Receive(Pay(@, his.money), mine.money)]
        /\ trade' = Closed(p)
        /\ disk' = Saved(p, q)

\* WorldSession::HandleAcceptTradeOpcode.  An accept that comes too soon after
\* a change of the other side's offer is dropped; an item that can no longer be
\* traded stops the handler after the accept was entered.
AcceptTrade(p) ==
    /\ pressed[p] # None
    /\ pressed' = [pressed EXCEPT ![p] = None]
    /\ IF ~Trading(p) \/ (Trading(p) /\ trade[p].recent)
       THEN UNCHANGED <<trade, bag, purse, disk>>
       ELSE \/ /\ ~Payable(p)
               /\ trade' = Refused(p)
               /\ UNCHANGED <<bag, purse, disk>>
            \/ /\ Payable(p)
               /\ Accepted(trade[p].trader) =>
                     Handed(p) \cup Handed(trade[p].trader) # {}
               /\ trade' = SetAccepted(p)
               /\ UNCHANGED <<bag, purse, disk>>
            \/ /\ Payable(p) /\ Accepted(trade[p].trader)
               /\ \/ trade' = NoRoom(p) /\ UNCHANGED <<bag, purse, disk>>
                  \/ Exchange(p)
    /\ UNCHANGED <<down, view, crashes>>

-----------------------------------------------------------------------------
(* Around the trade. *)

\* The item leaves the inventory otherwise: it is destroyed, sold, mailed.
\* The offer keeps its guid.
LoseItem(p, i) ==
    /\ i \in bag[p]
    /\ bag' = [bag EXCEPT ![p] = @ \ {i}]
    /\ UNCHANGED <<trade, purse, down, view, pressed, disk, crashes>>

SpendMoney(p) ==
    /\ purse[p] > 0
    /\ purse' = [purse EXCEPT ![p] = @ - 1]
    /\ UNCHANGED <<trade, bag, down, view, pressed, disk, crashes>>

\* Player::SaveToDB, by a timer.
SaveToDB(p) ==
    /\ disk' = [disk EXCEPT ![p] = [gold |-> purse[p], items |-> bag[p]]]
    /\ UNCHANGED <<trade, purse, bag, down, view, pressed, crashes>>

\* The client shows the next update.
Receives(p) ==
    /\ down[p] # <<>>
    /\ view' = [view EXCEPT ![p] = Head(down[p])]
    /\ down' = [down EXCEPT ![p] = Tail(@)]
    /\ UNCHANGED <<trade, purse, bag, pressed, disk, crashes>>

\* The player presses the accept button of an open window.
PressAccept(p) ==
    /\ Open(p)
    /\ pressed' = [pressed EXCEPT ![p] = view[p]]
    /\ UNCHANGED <<trade, purse, bag, down, view, disk, crashes>>

\* Three seconds have passed since the other side's last change.  Assumed of
\* the network: the update has been shown by then, and an accept that was
\* pressed before it was shown has arrived.
DelayOver(p) ==
    /\ Trading(p) /\ trade[p].recent
    /\ down[p] = <<>>
    /\ pressed[p] \in {None, view[p]}
    /\ trade' = [trade EXCEPT ![p] = Undelayed(@)]
    /\ UNCHANGED <<purse, bag, down, view, pressed, disk, crashes>>

\* The server dies and comes back with what was committed.
Crash ==
    /\ crashes < MaxCrashes
    /\ crashes' = crashes + 1
    /\ purse' = [p \in Players |-> disk[p].gold]
    /\ bag' = [p \in Players |-> disk[p].items]
    /\ trade' = [p \in Players |-> None]
    /\ down' = [p \in Players |-> <<>>]
    /\ view' = [p \in Players |-> None]
    /\ pressed' = [p \in Players |-> None]
    /\ UNCHANGED disk

Next ==
    \/ \E p, q \in Players : InitiateTrade(p, q)
    \/ \E p \in Players :
          \/ TradeCancel(p) \/ UnacceptTrade(p) \/ AcceptTrade(p)
          \/ \E g \in 0 .. MaxMoney : SetTradeGold(p, g)
          \/ \E i \in Items :
                \/ ClearTradeItem(p, i) \/ LoseItem(p, i)
                \/ \E out \in SUBSET Items : SetTradeItem(p, i, out)
          \/ SpendMoney(p) \/ SaveToDB(p)
          \/ Receives(p) \/ PressAccept(p) \/ DelayOver(p)
    \/ Crash

Spec == Init /\ [][Next]_vars

-----------------------------------------------------------------------------
(* Properties. *)

\* Every variable has its type; no purse goes below zero or above the maximum.
TypeOK ==
    /\ trade \in [Players -> TradeData \cup {None}]
    /\ purse \in [Players -> 0 .. MaxMoney]
    /\ bag \in [Players -> SUBSET Items]
    /\ down \in [Players -> Seq(Offer)]
    /\ view \in [Players -> Offer \cup {None}]
    /\ pressed \in [Players -> Offer \cup {None}]
    /\ disk \in [Players -> [gold : 0 .. MaxMoney, items : SUBSET Items]]
    /\ crashes \in 0 .. MaxCrashes

\* The accept of p is handled and completes the trade.
Completes(p) ==
    /\ pressed[p] # None /\ pressed'[p] = None
    /\ trade[p] # None /\ trade'[p] = None
    /\ crashes' = crashes

\* Nobody gives anything away on terms other than those his client showed when
\* he pressed accept, however the other side's changes and the two accepts
\* cross on their way (the delay of three seconds in HandleAcceptTradeOpcode,
\* "to prevent scam", Player.h:793).
TermsShown ==
    [][\A p \in Players : Completes(p) =>
          LET q == trade[p].trader
          IN  pressed[p] = trade[q].offer /\ trade[q].accepted = trade[p].offer]_vars

\* An item belongs to one player, in memory and after a crash
\* (one transaction saves both sides).
ItemOnce ==
    \A p, q \in Players : p # q =>
        /\ bag[p] \cap bag[q] = {}
        /\ disk[p].items \cap disk[q].items = {}

\* No step creates gold: at most two purses take part in it, together they do
\* not gain, and no third purse does, although an offered sum may have been
\* spent since the offer was made (the comparison in HandleAcceptTradeOpcode,
\* the limits of ModifyMoney).
NoGoldCreated ==
    [][crashes' = crashes =>
         \E p, q \in Players :
            /\ purse'[p] + purse'[q] <= purse[p] + purse[q]
            /\ \A r \in Players \ {p, q} : purse'[r] <= purse[r]]_vars

=============================================================================
