----------------------------- MODULE TradeProofs -----------------------------
(***************************************************************************)
(* Proofs about Trade, for any number of players and items, any purses and *)
(* any number of updates on their way: types, that an item has one owner   *)
(* in memory and on disk, that a trade is completed only on the terms both *)
(* players were shown, and that no step creates gold.                      *)
(***************************************************************************)
EXTENDS Trade, SequenceTheorems, TLAPS

\* Two players trade with each other or not at all.
Paired ==
    \A p \in Players : Trading(p) =>
        LET q == trade[p].trader
        IN  q # p /\ Trading(q) /\ trade[q].trader = p

\* An item of one player is not another's, nor was it when that one was saved.
Separate ==
    \A p, q \in Players : p # q =>
        /\ bag[p] \cap bag[q] = {}
        /\ disk[p].items \cap disk[q].items = {}
        /\ bag[p] \cap disk[q].items = {}

\* What the client of p will show when all updates have arrived.
LastUpdate(p) == IF down[p] = <<>> THEN view[p] ELSE down[p][Len(down[p])]

\* The terms: the last update is the other side's offer; while p may accept
\* there is no older one left, neither on its way nor under an accept on its
\* way; and an accept that was entered is for the offer as it is.
TermsOf(p) ==
    LET offer == trade[trade[p].trader].offer
    IN  /\ LastUpdate(p) = offer
        /\ ~trade[p].recent =>
              /\ down[p] = <<>> \/ (view[p] = None /\ Len(down[p]) = 1)
              /\ pressed[p] \in {None, offer}
        /\ trade[p].accepted \in {None, offer}

Terms == \A p \in Players : Trading(p) => TermsOf(p)

IInv == TypeOK /\ Paired /\ Separate /\ Terms

-----------------------------------------------------------------------------
(* The operators of the model, point by point. *)

\* What the handlers do to a TradeData object leaves its other members alone.
LEMMA AcceptedSet ==
  \A d \in TradeData, a \in Offer \cup {None} :
     /\ WithAccepted(d, a) \in TradeData /\ WithAccepted(d, a).accepted = a
     /\ WithAccepted(d, a).trader = d.trader /\ WithAccepted(d, a).offer = d.offer
     /\ WithAccepted(d, a).recent = d.recent
  BY DEF TradeData, WithAccepted

LEMMA UnacceptedSet ==
  \A d \in TradeData :
     /\ Unaccepted(d) \in TradeData /\ Unaccepted(d).accepted = None
     /\ Unaccepted(d).trader = d.trader /\ Unaccepted(d).offer = d.offer
     /\ Unaccepted(d).recent = d.recent
  BY AcceptedSet DEF Unaccepted

LEMMA RecentSet ==
  \A d \in TradeData :
     /\ Delayed(d) \in TradeData /\ Delayed(d).recent
     /\ Delayed(d).trader = d.trader /\ Delayed(d).offer = d.offer
     /\ Delayed(d).accepted = d.accepted
     /\ Undelayed(d) \in TradeData /\ ~Undelayed(d).recent
     /\ Undelayed(d).trader = d.trader /\ Undelayed(d).offer = d.offer
     /\ Undelayed(d).accepted = d.accepted
  BY DEF TradeData, Delayed, Undelayed

LEMMA OfferSet ==
  \A d \in TradeData, o \in Offer :
     /\ WithOffer(d, o) \in TradeData /\ WithOffer(d, o).offer = o
     /\ WithOffer(d, o).trader = d.trader /\ WithOffer(d, o).recent = d.recent
     /\ WithOffer(d, o).accepted = d.accepted
  BY DEF TradeData, WithOffer

LEMMA NewTradeSet ==
  \A q \in Players :
     /\ NewTrade(q) \in TradeData /\ NewTrade(q).trader = q /\ NewTrade(q).accepted = None
     /\ ~NewTrade(q).recent /\ NewTrade(q).offer = Nothing /\ Nothing \in Offer
  BY TradeAssumption DEF NewTrade, TradeData, Offer, Nothing

\* A member of TradeData has the members it should have, and is no null pointer.
LEMMA Members ==
  \A d \in TradeData :
     /\ d.trader \in Players /\ d.offer \in Offer /\ d.recent \in BOOLEAN
     /\ d.accepted \in Offer \cup {None} /\ d # None
  BY NoneAssumption DEF TradeData

\* Both sides of a trade are players with a TradeData object each.
LEMMA Partner ==
  ASSUME TypeOK, Paired, NEW p \in Players, Trading(p)
  PROVE  LET q == trade[p].trader
         IN  /\ q \in Players /\ q # p /\ trade[q] \in TradeData /\ trade[p] \in TradeData
             /\ trade[q].trader = p /\ Trading(q)
<1>1. trade[p] \in TradeData
  BY DEF TypeOK, Trading
<1>2. trade[p].trader \in Players
  BY <1>1, Members
<1> QED BY <1>1, <1>2 DEF TypeOK, Trading, Paired

\* A changed offer: the partner's accept is taken back and he has to wait,
\* the own accept survives only if nothing really changed, and the update is
\* the last one on its way to the partner (HandleSetTradeGoldOpcode,
\* HandleSetTradeItemOpcode, HandleClearTradeItemOpcode).
LEMMA ChangedFacts ==
  ASSUME TypeOK, Paired, NEW p \in Players, Trading(p), NEW o \in Offer, Changed(p, o)
  PROVE  LET q == trade[p].trader
         IN  /\ trade' \in [Players -> TradeData \cup {None}]
             /\ down' \in [Players -> Seq(Offer)]
             /\ \A x \in Players \ {p, q} : trade'[x] = trade[x]
             /\ trade'[p] \in TradeData /\ trade'[p].trader = q
             /\ trade'[p].offer = o /\ trade'[p].recent = trade[p].recent
             /\ trade'[p].accepted \in {trade[p].accepted, None}
             /\ trade'[q] \in TradeData /\ trade'[q].trader = p
             /\ trade'[q].offer = trade[q].offer /\ trade'[q].recent
             /\ trade'[q].accepted = None
             /\ \A x \in Players \ {q} : down'[x] = down[x]
             /\ \/ o = trade[p].offer /\ down'[q] = down[q]
                \/ down'[q] # <<>> /\ down'[q][Len(down'[q])] = o
<1> DEFINE q == trade[p].trader
           mine == IF o = trade[p].offer THEN trade[p] ELSE Unaccepted(WithOffer(trade[p], o))
           his == Delayed(Unaccepted(trade[q]))
<1>1. /\ q \in Players /\ q # p /\ trade[q] \in TradeData /\ trade[p] \in TradeData
      /\ trade[q].trader = p
  BY Partner
<1>2. /\ mine \in TradeData /\ mine.accepted \in {trade[p].accepted, None} /\ mine.offer = o
      /\ mine.trader = q /\ mine.recent = trade[p].recent
  BY <1>1, OfferSet, UnacceptedSet
<1>3. /\ his \in TradeData /\ his.accepted = None /\ his.recent
      /\ his.trader = p /\ his.offer = trade[q].offer
  BY <1>1, UnacceptedSet, RecentSet
<1>4. trade' = [trade EXCEPT ![q] = his, ![p] = mine]
  BY DEF Changed
<1>5. /\ trade' \in [Players -> TradeData \cup {None}]
      /\ trade'[p] = mine /\ trade'[q] = his
      /\ \A x \in Players \ {p, q} : trade'[x] = trade[x]
  <2> HIDE DEF mine, his, q
  <2> QED BY <1>1, <1>2, <1>3, <1>4 DEF TypeOK
<1>6. down' = IF o = trade[p].offer THEN down ELSE [down EXCEPT ![q] = Append(down[q], o)]
  BY DEF Changed
<1>7. /\ Append(down[q], o) \in Seq(Offer) /\ Append(down[q], o) # <<>>
      /\ Append(down[q], o)[Len(Append(down[q], o))] = o
  <2>1. down[q] \in Seq(Offer)
    BY <1>1 DEF TypeOK
  <2> HIDE DEF q
  <2> QED BY <2>1, AppendProperties
<1>8. /\ down' \in [Players -> Seq(Offer)]
      /\ \A x \in Players \ {q} : down'[x] = down[x]
      /\ \/ o = trade[p].offer /\ down'[q] = down[q]
         \/ down'[q] # <<>> /\ down'[q][Len(down'[q])] = o
  <2> HIDE DEF q
  <2> QED BY <1>1, <1>6, <1>7 DEF TypeOK
<1> HIDE DEF mine, his
<1> QED BY <1>2, <1>3, <1>5, <1>8

\* The three handlers that change an offer, in one form.
OfferStep(p) ==
    /\ CanChange(p)
    /\ \E o \in Offer : Changed(p, o)
    /\ UNCHANGED <<purse, bag, view, pressed, disk, crashes>>

LEMMA OfferHandlers ==
  ASSUME TypeOK, NEW p \in Players,
         \/ \E g \in 0 .. MaxMoney : SetTradeGold(p, g)
         \/ \E i \in Items : ClearTradeItem(p, i)
         \/ \E i \in Items, out \in SUBSET Items : SetTradeItem(p, i, out)
  PROVE  OfferStep(p)
<1>1. Trading(p) => trade[p].offer \in Offer
  BY Members DEF TypeOK, Trading
<1>2. ASSUME NEW g \in 0 .. MaxMoney, SetTradeGold(p, g) PROVE OfferStep(p)
  <2>1. [trade[p].offer EXCEPT !.money = g] \in Offer
    BY <1>1, <1>2 DEF SetTradeGold, CanChange, Open, Offer
  <2> QED BY <1>2, <2>1 DEF SetTradeGold, OfferStep
<1>3. ASSUME NEW i \in Items, ClearTradeItem(p, i) PROVE OfferStep(p)
  <2>1. [trade[p].offer EXCEPT !.items = @ \ {i}] \in Offer
    BY <1>1, <1>3 DEF ClearTradeItem, CanChange, Open, Offer
  <2> QED BY <1>3, <2>1 DEF ClearTradeItem, OfferStep
<1>4. ASSUME NEW i \in Items, NEW out \in SUBSET Items, SetTradeItem(p, i, out) PROVE OfferStep(p)
  <2>1. [trade[p].offer EXCEPT !.items = (@ \ out) \cup {i}] \in Offer
    BY <1>1, <1>4 DEF SetTradeItem, CanChange, Open, Offer
  <2> QED BY <1>4, <2>1 DEF SetTradeItem, OfferStep
<1> QED BY <1>2, <1>3, <1>4

\* The ways an accept can end that do not complete the trade: both objects stay
\* and keep their offers; an accept is entered only for the view it was given
\* for, while no delay runs; the only delay started is the partner's.
Answered(p) ==
    LET q == trade[p].trader
    IN  /\ Trading(p) /\ ~trade[p].recent
        /\ trade' \in [Players -> TradeData \cup {None}]
        /\ \A x \in Players \ {p, q} : trade'[x] = trade[x]
        /\ \A x \in {p, q} : /\ trade'[x] \in TradeData /\ trade'[x].trader = trade[x].trader
                             /\ trade'[x].offer = trade[x].offer
                             /\ trade[x].recent => trade'[x].recent
        /\ trade'[p].accepted \in {None, pressed[p]}
        /\ trade'[q].accepted \in {None, trade[q].accepted}

LEMMA AcceptCases ==
  ASSUME TypeOK, Paired, NEW p \in Players, AcceptTrade(p)
  PROVE  /\ pressed' = [pressed EXCEPT ![p] = None] /\ pressed[p] # None
         /\ UNCHANGED <<down, view, crashes>>
         /\ \/ UNCHANGED <<trade, bag, purse, disk>>
            \/ Answered(p) /\ UNCHANGED <<bag, purse, disk>>
            \/ /\ Trading(p) /\ ~trade[p].recent /\ Payable(p)
               /\ Accepted(trade[p].trader) /\ Exchange(p)
<1> DEFINE q == trade[p].trader
<1>1. CASE ~Trading(p) \/ (Trading(p) /\ trade[p].recent)
  BY <1>1 DEF AcceptTrade
<1>2. CASE Trading(p) /\ ~trade[p].recent
  <2>1. /\ q \in Players /\ q # p /\ trade[q] \in TradeData /\ trade[p] \in TradeData
        /\ trade[q].trader = p /\ Trading(q) /\ pressed[p] \in Offer \cup {None}
    BY <1>2, Partner DEF TypeOK
  <2>2. /\ WithAccepted(trade[p], pressed[p]) \in TradeData
        /\ WithAccepted(trade[p], pressed[p]).accepted = pressed[p]
        /\ WithAccepted(trade[p], pressed[p]).trader = q
        /\ WithAccepted(trade[p], pressed[p]).recent = trade[p].recent
        /\ WithAccepted(trade[p], pressed[p]).offer = trade[p].offer
    BY <2>1, AcceptedSet
  <2>3. ASSUME trade' = SetAccepted(p) PROVE Answered(p)
    BY <1>2, <2>1, <2>2, <2>3 DEF SetAccepted, Answered, TypeOK
  <2>4. ASSUME trade' = Refused(p) PROVE Answered(p)
    <3>1. SetAccepted(p) = [trade EXCEPT ![p] = WithAccepted(trade[p], pressed[p])]
      BY DEF SetAccepted
    <3>2. trade' = [trade EXCEPT ![p] = Unaccepted(WithAccepted(trade[p], pressed[p]))]
          \/ trade' = [trade EXCEPT ![p] = WithAccepted(trade[p], pressed[p]),
                                    ![q] = Unaccepted(trade[q])]
      BY <2>1, <2>4, <3>1 DEF Refused, TypeOK
    <3>3. /\ Unaccepted(WithAccepted(trade[p], pressed[p])) \in TradeData
          /\ Unaccepted(WithAccepted(trade[p], pressed[p])).accepted = None
          /\ Unaccepted(WithAccepted(trade[p], pressed[p])).trader = q
          /\ Unaccepted(WithAccepted(trade[p], pressed[p])).recent = trade[p].recent
          /\ Unaccepted(WithAccepted(trade[p], pressed[p])).offer = trade[p].offer
          /\ Unaccepted(trade[q]) \in TradeData /\ Unaccepted(trade[q]).accepted = None
          /\ Unaccepted(trade[q]).trader = p /\ Unaccepted(trade[q]).offer = trade[q].offer
          /\ Unaccepted(trade[q]).recent = trade[q].recent
      BY <2>1, <2>2, UnacceptedSet
    <3>4. trade \in [Players -> TradeData \cup {None}]
      BY DEF TypeOK
    <3>5. CASE trade' = [trade EXCEPT ![p] = Unaccepted(WithAccepted(trade[p], pressed[p]))]
      BY <1>2, <2>1, <3>3, <3>4, <3>5 DEF Answered
    <3>6. CASE trade' = [trade EXCEPT ![p] = WithAccepted(trade[p], pressed[p]),
                                      ![q] = Unaccepted(trade[q])]
      BY <1>2, <2>1, <2>2, <3>3, <3>4, <3>6 DEF Answered
    <3> QED BY <3>2, <3>5, <3>6
  <2>5. ASSUME trade' = NoRoom(p) PROVE Answered(p)
    <3>1. trade' = [trade EXCEPT ![p] = Unaccepted(trade[p]),
                                 ![q] = Delayed(Unaccepted(trade[q]))]
      BY <2>5 DEF NoRoom
    <3>2. /\ Unaccepted(trade[p]) \in TradeData /\ Unaccepted(trade[p]).accepted = None
          /\ Unaccepted(trade[p]).trader = q /\ Unaccepted(trade[p]).offer = trade[p].offer
          /\ Unaccepted(trade[p]).recent = trade[p].recent
          /\ Delayed(Unaccepted(trade[q])) \in TradeData
          /\ Delayed(Unaccepted(trade[q])).accepted = None
          /\ Delayed(Unaccepted(trade[q])).trader = p
          /\ Delayed(Unaccepted(trade[q])).offer = trade[q].offer
          /\ Delayed(Unaccepted(trade[q])).recent
      BY <2>1, UnacceptedSet, RecentSet
    <3> QED BY <1>2, <2>1, <3>1, <3>2 DEF Answered, TypeOK
  <2> QED BY <1>2, <2>3, <2>4, <2>5 DEF AcceptTrade
<1> QED BY <1>1, <1>2

\* The next update and those after it.
LEMMA NextUpdate ==
  ASSUME NEW S, NEW s \in Seq(S), s # <<>>
  PROVE  /\ Head(s) \in S /\ Tail(s) \in Seq(S)
         /\ Tail(s) = <<>> => Head(s) = s[Len(s)]
         /\ Tail(s) # <<>> => Tail(s)[Len(Tail(s))] = s[Len(s)]
         /\ Len(s) = 1 => Tail(s) = <<>>
<1>1. Len(s) \in Nat /\ Len(s) # 0 /\ Head(s) = s[1] /\ Head(s) \in S
      /\ Tail(s) \in Seq(S) /\ Len(Tail(s)) = Len(s) - 1
      /\ \A i \in 1 .. Len(Tail(s)) : Tail(s)[i] = s[i + 1]
  BY HeadTailProperties, EmptySeq
<1>2. Tail(s) = <<>> <=> Len(Tail(s)) = 0
  BY <1>1, EmptySeq
<1>3. CASE Len(s) = 1
  BY <1>1, <1>2, <1>3
<1>4. CASE Len(s) > 1
  BY <1>1, <1>2, <1>4
<1> QED BY <1>1, <1>3, <1>4

\* Gold that changes hands stays within the limits, and the two purses together
\* do not gain if both offers can be paid (ModifyMoney).
LEMMA Moved ==
  ASSUME TradeAssumption, NEW g \in 0 .. MaxMoney, NEW d \in 0 .. MaxMoney, d <= g,
         NEW h \in 0 .. MaxMoney, NEW e \in 0 .. MaxMoney, e <= h
  PROVE  /\ Receive(Pay(g, d), e) \in 0 .. MaxMoney
         /\ Receive(Pay(g, d), e) + Receive(Pay(h, e), d) <= g + h
  BY DEF TradeAssumption, Receive, Pay

\* A completed trade, point by point.
LEMMA ExchangeFacts ==
  ASSUME TypeOK, Paired, NEW p \in Players, Trading(p), Payable(p), Exchange(p)
  PROVE  LET q == trade[p].trader
         IN  /\ q \in Players /\ q # p
             /\ trade' = [trade EXCEPT ![p] = None, ![q] = None]
             /\ bag' \in [Players -> SUBSET Items]
             /\ bag'[p] \cap bag'[q] \subseteq bag[p] \cap bag[q]
             /\ bag'[p] \cup bag'[q] \subseteq bag[p] \cup bag[q]
             /\ \A x \in Players \ {p, q} : bag'[x] = bag[x] /\ disk'[x] = disk[x]
                                            /\ purse'[x] = purse[x]
             /\ disk' \in [Players -> [gold : 0 .. MaxMoney, items : SUBSET Items]]
             /\ disk'[p].items = bag'[p] /\ disk'[q].items = bag'[q]
             /\ purse' \in [Players -> 0 .. MaxMoney]
             /\ purse'[p] + purse'[q] <= purse[p] + purse[q]
<1> DEFINE q == trade[p].trader
<1>1. /\ q \in Players /\ q # p /\ trade[q] \in TradeData /\ trade[p] \in TradeData
  BY Partner
<1>2. trade' = [trade EXCEPT ![p] = None, ![q] = None]
  BY DEF Exchange, Closed
<1>3. /\ bag' \in [Players -> SUBSET Items]
      /\ bag'[p] = (bag[p] \ Handed(p)) \cup Handed(q)
      /\ bag'[q] = (bag[q] \ Handed(q)) \cup Handed(p)
      /\ \A x \in Players \ {p, q} : bag'[x] = bag[x]
  <2>1. bag' = [bag EXCEPT ![p] = (bag[p] \ Handed(p)) \cup Handed(q),
                           ![q] = (bag[q] \ Handed(q)) \cup Handed(p)]
    BY <1>1 DEF Exchange, TypeOK
  <2>2. Handed(p) \subseteq bag[p] /\ Handed(q) \subseteq bag[q]
    BY DEF Handed
  <2>3. /\ (bag[p] \ Handed(p)) \cup Handed(q) \in SUBSET Items
        /\ (bag[q] \ Handed(q)) \cup Handed(p) \in SUBSET Items
    BY <1>1, <2>2 DEF TypeOK
  <2> QED BY <1>1, <2>1, <2>3 DEF TypeOK
<1>4. /\ bag'[p] \cap bag'[q] \subseteq bag[p] \cap bag[q]
      /\ bag'[p] \cup bag'[q] \subseteq bag[p] \cup bag[q]
  BY <1>3 DEF Handed
<1>5. /\ trade[p].offer.money \in 0 .. MaxMoney /\ trade[q].offer.money \in 0 .. MaxMoney
      /\ purse[p] \in 0 .. MaxMoney /\ purse[q] \in 0 .. MaxMoney
      /\ trade[p].offer.money <= purse[p] /\ trade[q].offer.money <= purse[q]
  <2>1. trade[p].offer \in Offer /\ trade[q].offer \in Offer
    BY <1>1, Members
  <2> QED BY <1>1, <2>1 DEF Offer, Payable, TypeOK
<1>6. /\ purse' \in [Players -> 0 .. MaxMoney]
      /\ purse'[p] + purse'[q] <= purse[p] + purse[q]
      /\ \A x \in Players \ {p, q} : purse'[x] = purse[x]
  <2> DEFINE g == Receive(Pay(purse[p], trade[p].offer.money), trade[q].offer.money)
             h == Receive(Pay(purse[q], trade[q].offer.money), trade[p].offer.money)
  <2>1. purse' = [purse EXCEPT ![p] = g, ![q] = h]
    BY <1>1 DEF Exchange, TypeOK
  <2>2. g \in 0 .. MaxMoney /\ h \in 0 .. MaxMoney /\ g + h <= purse[p] + purse[q]
    BY <1>5, Moved, TradeAssumption
  <2> HIDE DEF g, h
  <2> QED BY <1>1, <2>1, <2>2 DEF TypeOK
<1>7. /\ disk' \in [Players -> [gold : 0 .. MaxMoney, items : SUBSET Items]]
      /\ disk'[p].items = bag'[p] /\ disk'[q].items = bag'[q]
      /\ \A x \in Players \ {p, q} : disk'[x] = disk[x]
  <2> DEFINE dp == [gold |-> purse'[p], items |-> bag'[p]]
             dq == [gold |-> purse'[q], items |-> bag'[q]]
  <2>1. disk' = [disk EXCEPT ![p] = dp, ![q] = dq]
    BY DEF Exchange, Saved
  <2>2. /\ dp \in [gold : 0 .. MaxMoney, items : SUBSET Items] /\ dp.items = bag'[p]
        /\ dq \in [gold : 0 .. MaxMoney, items : SUBSET Items] /\ dq.items = bag'[q]
    BY <1>1, <1>3, <1>6
  <2> HIDE DEF dp, dq
  <2> QED BY <1>1, <2>1, <2>2 DEF TypeOK
<1> QED BY <1>1, <1>2, <1>3, <1>4, <1>6, <1>7

-----------------------------------------------------------------------------
(* The inductive invariant. *)

\* Paired, Separate and Terms look at a few variables only.
LEMMA SeparateKept == Separate /\ UNCHANGED <<bag, disk>> => Separate'
  BY DEF Separate

LEMMA PairedKept == Paired /\ UNCHANGED trade => Paired'
  BY DEF Paired, Trading

LEMMA TermsKept ==
  ASSUME Terms, UNCHANGED <<trade, down, view>>,
         \A x \in Players : pressed'[x] \in {pressed[x], None}
  PROVE  Terms'
  BY DEF Terms, TermsOf, Trading, LastUpdate

\* A step that deletes both objects of a pair and leaves the others.
LEMMA ClosedStep ==
  ASSUME TypeOK, Paired, Terms, NEW p \in Players, Trading(p),
         trade' = [trade EXCEPT ![p] = None, ![trade[p].trader] = None],
         UNCHANGED <<down, view>>,
         \A x \in Players : pressed'[x] \in {pressed[x], None}
  PROVE  /\ trade' \in [Players -> TradeData \cup {None}] /\ Paired' /\ Terms'
<1> DEFINE q == trade[p].trader
<1>1. q \in Players /\ q # p /\ trade[q].trader = p /\ Trading(q)
  BY Partner
<1>2. /\ trade' \in [Players -> TradeData \cup {None}]
      /\ trade'[p] = None /\ trade'[q] = None
      /\ \A x \in Players \ {p, q} : trade'[x] = trade[x]
  BY <1>1 DEF TypeOK
<1>3. ASSUME NEW x \in Players, Trading(x)'
      PROVE  /\ x \notin {p, q} /\ Trading(x) /\ trade[x].trader \notin {p, q}
             /\ trade[x].trader \in Players /\ trade[x].trader # x
             /\ trade'[x] = trade[x] /\ trade'[trade[x].trader] = trade[trade[x].trader]
             /\ Trading(trade[x].trader) /\ trade[trade[x].trader].trader = x
  <2>1. x \notin {p, q} /\ Trading(x) /\ trade'[x] = trade[x]
    BY <1>2, <1>3 DEF Trading
  <2>2. /\ trade[x].trader \in Players /\ trade[x].trader # x
        /\ Trading(trade[x].trader) /\ trade[trade[x].trader].trader = x
    BY <2>1, Partner
  <2> QED BY <1>1, <1>2, <2>1, <2>2
<1>4. Paired'
  <2>1. ASSUME NEW x \in Players, Trading(x)'
        PROVE  /\ trade'[x].trader = trade[x].trader /\ trade[x].trader # x
               /\ trade'[trade[x].trader] # None /\ trade'[trade[x].trader].trader = x
    <3>1. trade[trade[x].trader] # None
      BY <1>3, <2>1 DEF Trading
    <3> QED BY <1>3, <2>1, <3>1
  <2> QED BY <2>1 DEF Paired, Trading
<1>5. Terms'
  <2> SUFFICES ASSUME NEW x \in Players, Trading(x)' PROVE TermsOf(x)'
    BY DEF Terms
  <2>1. LastUpdate(x)' = LastUpdate(x)
    BY DEF LastUpdate
  <2>2. TermsOf(x)
    BY <1>3 DEF Terms
  <2> QED BY <1>3, <2>1, <2>2 DEF TermsOf
<1> QED BY <1>2, <1>4, <1>5

LEMMA InductiveStep == IInv /\ [Next]_vars => IInv'
<1> SUFFICES ASSUME IInv, [Next]_vars PROVE IInv'
  OBVIOUS
<1> USE TradeAssumption
<1>a. TypeOK /\ Paired /\ Separate /\ Terms
  BY DEF IInv
<1>1. ASSUME NEW p \in Players, NEW q \in Players, InitiateTrade(p, q) PROVE IInv'
  <2>1. /\ NewTrade(p) \in TradeData /\ NewTrade(p).trader = p /\ NewTrade(p).accepted = None
        /\ ~NewTrade(p).recent /\ NewTrade(p).offer = Nothing /\ NewTrade(p) # None
        /\ NewTrade(q) \in TradeData /\ NewTrade(q).trader = q /\ NewTrade(q).accepted = None
        /\ ~NewTrade(q).recent /\ NewTrade(q).offer = Nothing /\ NewTrade(q) # None
        /\ Nothing \in Offer
    BY NewTradeSet, Members
  <2>2. /\ trade' \in [Players -> TradeData \cup {None}]
        /\ p # q /\ trade'[p] = NewTrade(q) /\ trade'[q] = NewTrade(p)
        /\ \A x \in Players \ {p, q} : trade'[x] = trade[x]
    BY <1>a, <1>1, <2>1 DEF InitiateTrade, TypeOK
  <2>3. /\ down' \in [Players -> Seq(Offer)] /\ view' \in [Players -> Offer \cup {None}]
        /\ down'[p] = <<Nothing>> /\ down'[q] = <<Nothing>>
        /\ view'[p] = None /\ view'[q] = None
        /\ \A x \in Players \ {p, q} : down'[x] = down[x] /\ view'[x] = view[x]
    <3>1. <<Nothing>> \in Seq(Offer)
      BY <2>1
    <3> QED BY <1>a, <1>1, <3>1 DEF InitiateTrade, TypeOK
  <2>4. TypeOK'
    BY <1>a, <1>1, <2>2, <2>3 DEF InitiateTrade, TypeOK
  <2>5. ASSUME NEW x \in Players, x \notin {p, q}, Trading(x)'
        PROVE  /\ Trading(x) /\ trade[x].trader \notin {p, q} /\ trade[x].trader \in Players
               /\ trade[x].trader # x
               /\ trade'[x] = trade[x] /\ trade'[trade[x].trader] = trade[trade[x].trader]
    <3>1. Trading(x) /\ trade'[x] = trade[x]
      BY <2>2, <2>5 DEF Trading
    <3>2. /\ trade[x].trader \in Players /\ trade[x].trader # x /\ Trading(trade[x].trader)
      BY <1>a, <3>1, Partner
    <3> QED BY <1>1, <2>2, <3>1, <3>2 DEF InitiateTrade
  <2>6. Paired'
    BY <1>a, <2>1, <2>2, <2>5 DEF Paired, Trading
  <2>7. Terms'
    <3> SUFFICES ASSUME NEW x \in Players, Trading(x)' PROVE TermsOf(x)'
      BY DEF Terms
    <3>1. CASE x \in {p, q}
      <4>1. down'[x] = <<Nothing>> /\ view'[x] = None /\ pressed'[x] = None
        BY <1>1, <2>3, <3>1 DEF InitiateTrade
      <4>2. LastUpdate(x)' = Nothing /\ Len(down'[x]) = 1
        BY <4>1 DEF LastUpdate
      <4> QED BY <2>1, <2>2, <3>1, <4>1, <4>2 DEF TermsOf
    <3>2. CASE x \notin {p, q}
      <4>1. LastUpdate(x)' = LastUpdate(x) /\ pressed' = pressed
        BY <1>1, <2>3, <3>2 DEF LastUpdate, InitiateTrade
      <4>2. TermsOf(x)
        BY <1>a, <2>5, <3>2 DEF Terms
      <4> QED BY <2>3, <2>5, <3>2, <4>1, <4>2 DEF TermsOf
    <3> QED BY <3>1, <3>2
  <2> QED BY <1>a, <1>1, <2>4, <2>6, <2>7, SeparateKept DEF IInv, InitiateTrade
<1>2. ASSUME NEW p \in Players, TradeCancel(p) PROVE IInv'
  <2>1. trade' \in [Players -> TradeData \cup {None}] /\ Paired' /\ Terms'
    BY <1>a, <1>2, ClosedStep DEF TradeCancel, Closed
  <2>2. TypeOK'
    BY <1>a, <1>2, <2>1 DEF TradeCancel, TypeOK
  <2> QED BY <1>a, <1>2, <2>1, <2>2, SeparateKept DEF IInv, TradeCancel
<1>3. ASSUME NEW p \in Players, UnacceptTrade(p) \/ DelayOver(p) PROVE IInv'
  <2> DEFINE q == trade[p].trader
  <2>1. /\ q \in Players /\ q # p /\ trade[q] \in TradeData /\ trade[p] \in TradeData
        /\ trade[q].trader = p /\ Trading(q)
    BY <1>a, <1>3, Partner DEF UnacceptTrade, DelayOver, Open
  <2>2. /\ UNCHANGED <<purse, bag, down, view, pressed, disk, crashes>>
        /\ trade' \in [Players -> TradeData \cup {None}]
        /\ trade'[p] \in TradeData /\ trade'[p].trader = q /\ trade'[p].offer = trade[p].offer
        /\ trade'[p].accepted \in {None, trade[p].accepted}
        /\ \/ trade[p].recent => trade'[p].recent
           \/ down[p] = <<>> /\ pressed[p] \in {None, view[p]}
        /\ \A x \in Players \ {p} : trade'[x] = trade[x]
    <3>1. CASE UnacceptTrade(p)
      <4>1. trade' = [trade EXCEPT ![p] = Unaccepted(trade[p])]
        BY <3>1 DEF UnacceptTrade
      <4>2. /\ Unaccepted(trade[p]) \in TradeData /\ Unaccepted(trade[p]).accepted = None
            /\ Unaccepted(trade[p]).trader = q /\ Unaccepted(trade[p]).offer = trade[p].offer
            /\ Unaccepted(trade[p]).recent = trade[p].recent
        BY <2>1, UnacceptedSet
      <4> QED BY <1>a, <3>1, <4>1, <4>2 DEF UnacceptTrade, TypeOK
    <3>2. CASE DelayOver(p)
      <4>1. trade' = [trade EXCEPT ![p] = Undelayed(trade[p])]
        BY <3>2 DEF DelayOver
      <4>2. /\ Undelayed(trade[p]) \in TradeData
            /\ Undelayed(trade[p]).accepted = trade[p].accepted
            /\ Undelayed(trade[p]).trader = q /\ Undelayed(trade[p]).offer = trade[p].offer
        BY <2>1, RecentSet
      <4> QED BY <1>a, <3>2, <4>1, <4>2 DEF DelayOver, TypeOK
    <3> QED BY <1>3, <3>1, <3>2
  <2>3. TypeOK'
    BY <1>a, <2>2 DEF TypeOK
  <2>4. ASSUME NEW x \in Players, Trading(x)'
        PROVE  /\ Trading(x) /\ trade'[x].trader = trade[x].trader
               /\ trade[x].trader \in Players /\ trade[x].trader # x
               /\ trade'[trade[x].trader].offer = trade[trade[x].trader].offer
               /\ trade'[trade[x].trader].trader = x /\ Trading(trade[x].trader)'
    <3>1. Trading(x) /\ trade'[x].trader = trade[x].trader
      BY <2>1, <2>2, <2>4, Members DEF Trading
    <3>2. /\ trade[x].trader \in Players /\ trade[x].trader # x /\ Trading(trade[x].trader)
          /\ trade[trade[x].trader].trader = x
      BY <1>a, <3>1, Partner
    <3> QED BY <2>1, <2>2, <3>1, <3>2, Members DEF Trading
  <2>5. Paired'
    BY <2>4 DEF Paired
  <2>6. Terms'
    <3> SUFFICES ASSUME NEW x \in Players, Trading(x)' PROVE TermsOf(x)'
      BY DEF Terms
    <3>1. LastUpdate(x)' = LastUpdate(x)
      BY <2>2 DEF LastUpdate
    <3>2. CASE x = p
      BY <1>a, <2>1, <2>2, <2>4, <3>1, <3>2 DEF Terms, TermsOf, LastUpdate
    <3>3. CASE x # p
      BY <1>a, <2>2, <2>4, <3>1, <3>3 DEF Terms, TermsOf
    <3> QED BY <3>2, <3>3
  <2> QED BY <1>a, <2>2, <2>3, <2>5, <2>6, SeparateKept DEF IInv
<1>4. ASSUME NEW p \in Players, OfferStep(p) PROVE IInv'
  <2> DEFINE q == trade[p].trader
  <2>0. PICK o \in Offer : Changed(p, o)
    BY <1>4 DEF OfferStep
  <2>1. Trading(p) /\ UNCHANGED <<purse, bag, view, pressed, disk, crashes>>
    BY <1>4 DEF OfferStep, CanChange, Open
  <2>2. /\ q \in Players /\ q # p /\ trade[q] \in TradeData /\ trade[p] \in TradeData
        /\ trade[q].trader = p /\ Trading(q)
    BY <1>a, <2>1, Partner
  <2>3. /\ trade' \in [Players -> TradeData \cup {None}]
        /\ down' \in [Players -> Seq(Offer)]
        /\ \A x \in Players \ {p, q} : trade'[x] = trade[x]
        /\ trade'[p] \in TradeData /\ trade'[p].trader = q
        /\ trade'[p].offer = o /\ trade'[p].recent = trade[p].recent
        /\ trade'[p].accepted \in {trade[p].accepted, None}
        /\ trade'[q] \in TradeData /\ trade'[q].trader = p
        /\ trade'[q].offer = trade[q].offer /\ trade'[q].recent
        /\ trade'[q].accepted = None
        /\ \A x \in Players \ {q} : down'[x] = down[x]
        /\ \/ o = trade[p].offer /\ down'[q] = down[q]
           \/ down'[q] # <<>> /\ down'[q][Len(down'[q])] = o
    BY <1>a, <2>0, <2>1, ChangedFacts
  <2> HIDE DEF q
  <2>4. TypeOK'
    BY <1>a, <2>1, <2>3 DEF TypeOK
  <2>5. ASSUME NEW x \in Players, x \notin {p, q}, Trading(x)'
        PROVE  /\ Trading(x) /\ trade[x].trader \notin {p, q} /\ trade[x].trader \in Players
               /\ trade[x].trader # x
               /\ trade'[x] = trade[x] /\ trade'[trade[x].trader] = trade[trade[x].trader]
    <3>1. Trading(x) /\ trade'[x] = trade[x]
      BY <2>2, <2>3, <2>5 DEF Trading
    <3>2. /\ trade[x].trader \in Players /\ trade[x].trader # x
          /\ trade[trade[x].trader].trader = x
      BY <1>a, <3>1, Partner
    <3>3. trade[p].trader = q
      BY DEF q
    <3> QED BY <2>2, <2>3, <2>5, <3>1, <3>2, <3>3
  <2>6. Paired'
    <3>1. trade'[p] # None /\ trade'[q] # None
      BY <2>3, NoneAssumption
    <3>2. ASSUME NEW x \in Players, x \notin {p, q}, Trading(x)'
          PROVE  /\ trade[x].trader \in Players /\ trade'[x].trader = trade[x].trader
                 /\ trade[x].trader # x /\ trade'[trade[x].trader] # None
                 /\ trade'[trade[x].trader].trader = x
      BY <1>a, <2>5, <3>2 DEF Paired, Trading
    <3> SUFFICES ASSUME NEW x \in Players, trade'[x] # None
                 PROVE  /\ trade'[x].trader # x /\ trade'[trade'[x].trader] # None
                        /\ trade'[trade'[x].trader].trader = x
      BY DEF Paired, Trading
    <3>3. CASE x = p
      BY <2>2, <2>3, <3>1, <3>3
    <3>4. CASE x = q
      BY <2>2, <2>3, <3>1, <3>4
    <3>5. CASE x \notin {p, q}
      BY <3>2, <3>5 DEF Trading
    <3> QED BY <3>3, <3>4, <3>5
  <2>7. Terms'
    <3> SUFFICES ASSUME NEW x \in Players, Trading(x)' PROVE TermsOf(x)'
      BY DEF Terms
    <3>0. trade[p].trader = q
      BY DEF q
    <3>1. CASE x = p
      <4>1. LastUpdate(p)' = LastUpdate(p) /\ down'[p] = down[p]
        BY <2>1, <2>2, <2>3 DEF LastUpdate
      <4> QED BY <1>a, <2>1, <2>2, <2>3, <3>0, <3>1, <4>1 DEF Terms, TermsOf
    <3>2. CASE x = q
      <4>1. LastUpdate(x)' = o
        <5>1. LastUpdate(x) = trade[p].offer
          BY <1>a, <2>2, <3>2 DEF Terms, TermsOf
        <5> QED BY <2>1, <2>3, <3>2, <5>1 DEF LastUpdate
      <4>2. /\ trade'[x].trader = p /\ trade'[x].recent /\ trade'[x].accepted = None
        BY <2>3, <3>2
      <4> QED BY <2>3, <4>1, <4>2 DEF TermsOf
    <3>3. CASE x \notin {p, q}
      <4>1. LastUpdate(x)' = LastUpdate(x) /\ down'[x] = down[x]
        BY <2>1, <2>3, <3>3 DEF LastUpdate
      <4> QED BY <1>a, <2>1, <2>5, <3>3, <4>1 DEF Terms, TermsOf
    <3> QED BY <3>1, <3>2, <3>3
  <2> QED BY <1>a, <2>1, <2>4, <2>6, <2>7, SeparateKept DEF IInv
<1>5. ASSUME NEW p \in Players, AcceptTrade(p) PROVE IInv'
  <2> DEFINE q == trade[p].trader
  <2>1. /\ pressed' = [pressed EXCEPT ![p] = None] /\ pressed[p] # None
        /\ UNCHANGED <<down, view, crashes>>
        /\ \/ UNCHANGED <<trade, bag, purse, disk>>
           \/ Answered(p) /\ UNCHANGED <<bag, purse, disk>>
           \/ /\ Trading(p) /\ ~trade[p].recent /\ Payable(p)
              /\ Accepted(trade[p].trader) /\ Exchange(p)
    BY <1>a, <1>5, AcceptCases
  <2>2. /\ pressed' \in [Players -> Offer \cup {None}]
        /\ \A x \in Players : pressed'[x] \in {pressed[x], None}
    BY <1>a, <2>1 DEF TypeOK
  <2>3. CASE UNCHANGED <<trade, bag, purse, disk>>
    <3>1. TypeOK'
      BY <1>a, <2>1, <2>2, <2>3 DEF TypeOK
    <3> QED BY <1>a, <2>1, <2>2, <2>3, <3>1, SeparateKept, PairedKept, TermsKept DEF IInv
  <2>4. CASE Answered(p) /\ UNCHANGED <<bag, purse, disk>>
    <3>1. /\ q \in Players /\ q # p /\ trade[q] \in TradeData /\ trade[p] \in TradeData
          /\ trade[q].trader = p /\ Trading(q) /\ Trading(p)
      BY <1>a, <2>4, Partner DEF Answered
    <3>2. TypeOK'
      BY <1>a, <2>1, <2>2, <2>4 DEF TypeOK, Answered
    <3>3. ASSUME NEW x \in Players, Trading(x)'
          PROVE  /\ Trading(x) /\ trade'[x].trader = trade[x].trader
                 /\ trade[x].trader \in Players /\ trade[x].trader # x
                 /\ trade'[trade[x].trader].offer = trade[trade[x].trader].offer
                 /\ trade'[trade[x].trader].trader = x /\ Trading(trade[x].trader)'
      <4>1. Trading(x) /\ trade'[x].trader = trade[x].trader
        BY <2>4, <3>1, <3>3 DEF Trading, Answered
      <4>2. /\ trade[x].trader \in Players /\ trade[x].trader # x /\ Trading(trade[x].trader)
            /\ trade[trade[x].trader].trader = x
        BY <1>a, <4>1, Partner
      <4> QED BY <2>4, <3>1, <4>1, <4>2, Members DEF Trading, Answered
    <3>4. Paired'
      BY <3>3 DEF Paired
    <3>5. Terms'
      <4> SUFFICES ASSUME NEW x \in Players, Trading(x)' PROVE TermsOf(x)'
        BY DEF Terms
      <4>1. LastUpdate(x)' = LastUpdate(x) /\ down'[x] = down[x] /\ view'[x] = view[x]
        BY <2>1 DEF LastUpdate
      <4>2. trade[x].recent => trade'[x].recent
        BY <2>4, <3>1 DEF Answered
      <4>3. trade'[x].accepted \in {None, trade[trade[x].trader].offer}
        <5>1. CASE x = p
          BY <1>a, <2>4, <3>1, <5>1 DEF Answered, Terms, TermsOf
        <5>2. CASE x # p
          BY <1>a, <2>4, <3>3, <5>2 DEF Answered, Terms, TermsOf
        <5> QED BY <5>1, <5>2
      <4> QED BY <1>a, <2>2, <3>3, <4>1, <4>2, <4>3 DEF Terms, TermsOf
    <3> QED BY <1>a, <2>4, <3>2, <3>4, <3>5, SeparateKept DEF IInv
  <2>5. CASE Trading(p) /\ ~trade[p].recent /\ Payable(p) /\ Exchange(p)
    <3>1. /\ q \in Players /\ q # p
          /\ trade' = [trade EXCEPT ![p] = None, ![q] = None]
          /\ bag' \in [Players -> SUBSET Items]
          /\ bag'[p] \cap bag'[q] \subseteq bag[p] \cap bag[q]
          /\ bag'[p] \cup bag'[q] \subseteq bag[p] \cup bag[q]
          /\ \A x \in Players \ {p, q} : bag'[x] = bag[x] /\ disk'[x] = disk[x]
          /\ disk' \in [Players -> [gold : 0 .. MaxMoney, items : SUBSET Items]]
          /\ disk'[p].items = bag'[p] /\ disk'[q].items = bag'[q]
          /\ purse' \in [Players -> 0 .. MaxMoney]
      BY <1>a, <2>5, ExchangeFacts
    <3>2. trade' \in [Players -> TradeData \cup {None}] /\ Paired' /\ Terms'
      BY <1>a, <2>1, <2>2, <2>5, <3>1, ClosedStep
    <3>3. TypeOK'
      BY <1>a, <2>1, <2>2, <3>1, <3>2 DEF TypeOK
    <3>4. Separate'
      <4> HIDE DEF q
      <4> SUFFICES ASSUME NEW x \in Players, NEW y \in Players, x # y
                   PROVE  /\ bag'[x] \cap bag'[y] = {}
                          /\ disk'[x].items \cap disk'[y].items = {}
                          /\ bag'[x] \cap disk'[y].items = {}
        BY DEF Separate
      <4>1. CASE x \in {p, q} /\ y \in {p, q}
        BY <1>a, <3>1, <4>1 DEF Separate
      <4>2. CASE x \in {p, q} /\ y \notin {p, q}
        BY <1>a, <3>1, <4>2 DEF Separate
      <4>3. CASE x \notin {p, q} /\ y \in {p, q}
        BY <1>a, <3>1, <4>3 DEF Separate
      <4>4. CASE x \notin {p, q} /\ y \notin {p, q}
        BY <1>a, <3>1, <4>4 DEF Separate
      <4> QED BY <4>1, <4>2, <4>3, <4>4
    <3> QED BY <3>2, <3>3, <3>4 DEF IInv
  <2> QED BY <2>1, <2>3, <2>4, <2>5
<1>6. ASSUME NEW p \in Players, NEW i \in Items, LoseItem(p, i) PROVE IInv'
  <2>1. TypeOK'
    BY <1>a, <1>6 DEF LoseItem, TypeOK
  <2>2. Separate'
    <3>1. \A x \in Players : bag'[x] \subseteq bag[x]
      BY <1>a, <1>6 DEF LoseItem, TypeOK
    <3> QED BY <1>a, <1>6, <3>1 DEF LoseItem, Separate
  <2> QED BY <1>a, <1>6, <2>1, <2>2, PairedKept, TermsKept DEF IInv, LoseItem
<1>7. ASSUME NEW p \in Players, SpendMoney(p) PROVE IInv'
  <2>1. TypeOK'
    <3>1. purse[p] - 1 \in 0 .. MaxMoney
      BY <1>a, <1>7 DEF SpendMoney, TypeOK
    <3> QED BY <1>a, <1>7, <3>1 DEF SpendMoney, TypeOK
  <2> QED BY <1>a, <1>7, <2>1, PairedKept, TermsKept, SeparateKept DEF IInv, SpendMoney
<1>8. ASSUME NEW p \in Players, SaveToDB(p) PROVE IInv'
  <2> DEFINE d == [gold |-> purse[p], items |-> bag[p]]
  <2>1. /\ d \in [gold : 0 .. MaxMoney, items : SUBSET Items] /\ d.items = bag[p]
        /\ disk' = [disk EXCEPT ![p] = d]
    BY <1>a, <1>8 DEF SaveToDB, TypeOK
  <2> HIDE DEF d
  <2>2. TypeOK'
    BY <1>a, <1>8, <2>1 DEF SaveToDB, TypeOK
  <2>3. Separate'
    <3>1. \A x \in Players : disk'[x].items = IF x = p THEN bag[p] ELSE disk[x].items
      BY <1>a, <2>1 DEF TypeOK
    <3> QED BY <1>a, <1>8, <3>1 DEF SaveToDB, Separate
  <2> QED BY <1>a, <1>8, <2>2, <2>3, PairedKept, TermsKept DEF IInv, SaveToDB
<1>9. ASSUME NEW p \in Players, Receives(p) PROVE IInv'
  <2>1. down[p] \in Seq(Offer) /\ down[p] # <<>>
    BY <1>a, <1>9 DEF Receives, TypeOK
  <2>2. /\ Head(down[p]) \in Offer /\ Tail(down[p]) \in Seq(Offer)
        /\ Tail(down[p]) = <<>> => Head(down[p]) = down[p][Len(down[p])]
        /\ Tail(down[p]) # <<>> => Tail(down[p])[Len(Tail(down[p]))] = down[p][Len(down[p])]
        /\ Len(down[p]) = 1 => Tail(down[p]) = <<>>
    BY <2>1, NextUpdate
  <2>3. /\ down' \in [Players -> Seq(Offer)] /\ view' \in [Players -> Offer \cup {None}]
        /\ down'[p] = Tail(down[p]) /\ view'[p] = Head(down[p])
        /\ \A x \in Players \ {p} : down'[x] = down[x] /\ view'[x] = view[x]
    BY <1>a, <1>9, <2>2 DEF Receives, TypeOK
  <2>4. TypeOK'
    BY <1>a, <1>9, <2>3 DEF Receives, TypeOK
  <2>5. \A x \in Players : LastUpdate(x)' = LastUpdate(x)
    BY <2>1, <2>2, <2>3 DEF LastUpdate
  <2>6. Terms'
    BY <1>a, <1>9, <2>1, <2>2, <2>3, <2>5 DEF Terms, TermsOf, Trading, Receives
  <2> QED BY <1>a, <1>9, <2>4, <2>6, PairedKept, SeparateKept DEF IInv, Receives
<1>10. ASSUME NEW p \in Players, PressAccept(p) PROVE IInv'
  <2>1. /\ pressed' \in [Players -> Offer \cup {None}] /\ pressed'[p] = view[p]
        /\ \A x \in Players \ {p} : pressed'[x] = pressed[x]
        /\ view[p] # None
    BY <1>a, <1>10 DEF PressAccept, TypeOK, Open
  <2>2. TypeOK'
    BY <1>a, <1>10, <2>1 DEF PressAccept, TypeOK
  <2>3. Terms'
    BY <1>a, <1>10, <2>1 DEF Terms, TermsOf, Trading, PressAccept, LastUpdate
  <2> QED BY <1>a, <1>10, <2>2, <2>3, PairedKept, SeparateKept DEF IInv, PressAccept
<1>11. CASE Crash
  <2>1. TypeOK'
    BY <1>a, <1>11 DEF Crash, TypeOK
  <2>2. Separate'
    BY <1>a, <1>11 DEF Crash, Separate
  <2>3. Paired' /\ Terms'
    BY <1>11 DEF Crash, Paired, Terms, TermsOf, Trading
  <2> QED BY <2>1, <2>2, <2>3 DEF IInv
<1>12. CASE UNCHANGED vars
  BY <1>a, <1>12, PairedKept, SeparateKept, TermsKept DEF vars, IInv, TypeOK
<1>13. ASSUME NEW p \in Players,
              \/ \E g \in 0 .. MaxMoney : SetTradeGold(p, g)
              \/ \E i \in Items : ClearTradeItem(p, i)
              \/ \E i \in Items, out \in SUBSET Items : SetTradeItem(p, i, out)
       PROVE IInv'
  BY <1>a, <1>4, <1>13, OfferHandlers
<1> QED BY <1>1, <1>2, <1>3, <1>5, <1>6, <1>7, <1>8, <1>9, <1>10, <1>11, <1>12, <1>13 DEF Next

-----------------------------------------------------------------------------
(* The theorems. *)

LEMMA InitInvariant == Init => IInv
<1> SUFFICES ASSUME Init PROVE IInv
  OBVIOUS
<1> USE TradeAssumption
<1>1. TypeOK
  BY DEF Init, TypeOK
<1>2. Separate
  BY DEF Init, Separate
<1>3. Paired /\ Terms
  BY DEF Init, Paired, Terms, Trading
<1> QED BY <1>1, <1>2, <1>3 DEF IInv

\* The strengthened invariant holds in every state: traders come in pairs, no
\* item is in two places, and an accept on its way or entered while no delay
\* runs is for the offer the other side has made.
THEOREM Invariance == Spec => []IInv
  BY InitInvariant, InductiveStep, PTL DEF Spec

\* Every variable has its type: no handler writes a field of a trade that has
\* been deleted, and no purse leaves 0 .. MAX_MONEY_AMOUNT.
THEOREM TypeCorrect == Spec => []TypeOK
<1>1. IInv => TypeOK
  BY DEF IInv
<1> QED BY <1>1, Invariance, PTL

\* An item has one owner, in memory and in the database, at any moment the
\* server may die (HandleAcceptTradeOpcode saves both sides at once).
THEOREM OneOwner == Spec => []ItemOnce
<1>1. IInv => ItemOnce
  BY DEF IInv, Separate, ItemOnce
<1> QED BY <1>1, Invariance, PTL

\* Only an accept completes a trade.
LEMMA OnlyAccept ==
  ASSUME IInv, Next, NEW p \in Players, Completes(p)
  PROVE  /\ Trading(p) /\ ~trade[p].recent /\ pressed[p] # None
         /\ Accepted(trade[p].trader)
<1>a. TypeOK /\ Paired
  BY DEF IInv
<1>b. pressed[p] # None /\ pressed'[p] # pressed[p] /\ pressed' # pressed /\ trade'[p] = None
      /\ Trading(p) /\ crashes' = crashes
  BY DEF Completes, Trading
<1>1. PICK r \in Players : AcceptTrade(r)
  <2>1. ASSUME NEW r \in Players, PressAccept(r) PROVE FALSE
    BY <1>a, <1>b, <2>1 DEF PressAccept, Open, Completes, TypeOK
  <2>2. ~Crash
    BY <1>a, <1>b DEF Crash, TypeOK
  <2> QED
    BY <1>b, <2>1, <2>2
    DEF Next, InitiateTrade, TradeCancel, UnacceptTrade, SetTradeGold, SetTradeItem,
        ClearTradeItem, LoseItem, SpendMoney, SaveToDB, Receives, DelayOver
<1>2. /\ pressed' = [pressed EXCEPT ![r] = None]
      /\ \/ UNCHANGED <<trade, bag, purse, disk>>
         \/ Answered(r)
         \/ /\ Trading(r) /\ ~trade[r].recent
            /\ Accepted(trade[r].trader)
  BY <1>a, <1>1, AcceptCases
<1>3. r = p
  BY <1>a, <1>b, <1>2 DEF TypeOK
<1>4. ~Answered(p)
  BY <1>b, Members DEF Answered
<1>5. trade' # trade
  BY <1>b DEF Trading
<1> QED BY <1>b, <1>2, <1>3, <1>4, <1>5

\* A trade is completed only on the terms that both clients showed when the
\* accept button was pressed, however changes and accepts crossed: the delay
\* of HandleAcceptTradeOpcode does what it is there for.
THEOREM OnShownTerms == Spec => TermsShown
<1>1. ASSUME IInv, [Next]_vars, NEW p \in Players, Completes(p)
      PROVE  /\ pressed[p] = trade[trade[p].trader].offer
             /\ trade[trade[p].trader].accepted = trade[p].offer
  <2>1. Next
    BY <1>1 DEF Completes, vars
  <2>2. /\ Trading(p) /\ ~trade[p].recent /\ pressed[p] # None
        /\ Accepted(trade[p].trader)
    BY <1>1, <2>1, OnlyAccept
  <2>3. LET q == trade[p].trader
        IN  q \in Players /\ Trading(q) /\ trade[q].trader = p
    BY <1>1, <2>2, Partner DEF IInv
  <2> QED BY <1>1, <2>2, <2>3 DEF IInv, Terms, TermsOf, Accepted
<1>2. IInv /\ [Next]_vars =>
        [\A p \in Players : Completes(p) =>
          LET q == trade[p].trader
          IN  pressed[p] = trade[q].offer /\ trade[q].accepted = trade[p].offer]_vars
  BY <1>1
<1> QED BY <1>2, Invariance, PTL DEF Spec, TermsShown

\* No step creates gold, whatever was spent between the offer and the accept
\* (the comparison in HandleAcceptTradeOpcode, the limits of ModifyMoney).
THEOREM GoldConserved == Spec => NoGoldCreated
<1> DEFINE Kept == crashes' = crashes =>
                     \E p, q \in Players :
                        /\ purse'[p] + purse'[q] <= purse[p] + purse[q]
                        /\ \A r \in Players \ {p, q} : purse'[r] <= purse[r]
<1>1. ASSUME IInv, [Next]_vars, UNCHANGED purse, NEW x \in Players PROVE Kept
  <2>1. \A r \in Players : purse[r] \in 0 .. MaxMoney /\ purse'[r] = purse[r]
    BY <1>1 DEF IInv, TypeOK
  <2>2. /\ purse'[x] + purse'[x] <= purse[x] + purse[x]
        /\ \A r \in Players \ {x, x} : purse'[r] <= purse[r]
    BY <2>1, TradeAssumption DEF TradeAssumption
  <2> QED BY <2>2
<1>2. ASSUME IInv, NEW p \in Players, SpendMoney(p) PROVE Kept
  <2>1. purse' = [purse EXCEPT ![p] = purse[p] - 1] /\ purse \in [Players -> 0 .. MaxMoney]
    BY <1>2 DEF SpendMoney, IInv, TypeOK
  <2>2. /\ purse'[p] + purse'[p] <= purse[p] + purse[p]
        /\ \A r \in Players \ {p, p} : purse'[r] <= purse[r]
    BY <2>1, TradeAssumption DEF TradeAssumption
  <2> QED BY <2>2
<1>3. ASSUME IInv, NEW p \in Players, AcceptTrade(p), ~UNCHANGED purse PROVE Kept
  <2> DEFINE q == trade[p].trader
  <2>1. Trading(p) /\ Payable(p) /\ Exchange(p)
    BY <1>3, AcceptCases DEF IInv
  <2>2. /\ q \in Players
        /\ \A r \in Players \ {p, q} : purse'[r] = purse[r]
        /\ purse'[p] + purse'[q] <= purse[p] + purse[q]
    BY <1>3, <2>1, ExchangeFacts DEF IInv
  <2>3. \A r \in Players : purse[r] \in 0 .. MaxMoney
    BY <1>3 DEF IInv, TypeOK
  <2>4. \A r \in Players \ {p, q} : purse'[r] <= purse[r]
    BY <2>2, <2>3, TradeAssumption DEF TradeAssumption
  <2> HIDE DEF q
  <2> QED BY <2>2, <2>4
<1>4. IInv /\ [Next]_vars => [Kept]_vars
  <2> SUFFICES ASSUME IInv, Next, crashes' = crashes PROVE Kept
    BY DEF vars
  <2>1. ~Crash
    BY DEF Crash, IInv, TypeOK
  <2>2. CASE UNCHANGED purse
    <3>1. \E x \in Players : TRUE
      BY <2>1 DEF Next
    <3> HIDE DEF Kept
    <3> QED BY <1>1, <2>2, <3>1
  <2>3. CASE ~UNCHANGED purse
    <3>1. \E p \in Players : SpendMoney(p) \/ AcceptTrade(p)
      BY <2>1, <2>3
      DEF Next, InitiateTrade, TradeCancel, UnacceptTrade, SetTradeGold, SetTradeItem,
          ClearTradeItem, LoseItem, SaveToDB, Receives, PressAccept, DelayOver
    <3> HIDE DEF Kept
    <3> QED BY <1>2, <1>3, <2>3, <3>1
  <2> QED BY <2>2, <2>3
<1> QED BY <1>4, Invariance, PTL DEF Spec, NoGoldCreated

=============================================================================
