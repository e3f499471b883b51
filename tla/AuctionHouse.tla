----------------------------- MODULE AuctionHouse -----------------------------
(***************************************************************************)
(* One auction house (AuctionHouseHandler.cpp, AuctionHouseMgr.cpp), which *)
(* holds items and bids and settles every auction by mail.  Composed with  *)
(* Mail: sellers, bidders and winners are characters who may log in and    *)
(* out, empty their mailboxes and be deleted at any moment.                *)
(***************************************************************************)
EXTENDS Mail, FiniteSetsExt, Functions

CONSTANTS
  Account,       \* the account of each character
  StartBids,     \* first bids and bids
  Buyouts,       \* buyout prices, 0 for none
  Deposit,       \* GetAuctionDeposit
  CutPercent,    \* the share of the house in the bid, in percent
  MaxAuctions    \* bound: auctions created in a behaviour

ASSUME AuctionAssumption ==
  /\ StartBids \subseteq Nat \ {0} /\ Buyouts \subseteq Nat
  /\ Deposit \in Nat /\ CutPercent \in 0 .. 100 /\ MaxAuctions \in Nat

VARIABLES
  auctions,      \* AuctionsMap, each with its item in mAitems
  nextAuction    \* GenerateAuctionID

aucVars == <<auctions, nextAuction>>
vars == <<mailVars, aucVars>>

AInit == Init /\ auctions = {} /\ nextAuction = 1

Cut(a) == (a.bid * CutPercent) \div 100
OutBid(a) == LET step == (a.bid \div 100) * 5 IN IF step = 0 THEN 1 ELSE step

\* UPDATE, DELETE and INSERT of the row of an auction.
DeleteAuction(d, a) == [d EXCEPT !.auctions = {x \in @ : x.id # a.id}]
SaveAuction(d, a) == [DeleteAuction(d, a) EXCEPT !.auctions = @ \cup {a}]

-----------------------------------------------------------------------------
(* The mails of the house.  A mailing is the state of the tables, of the   *)
(* mailboxes and of the mail counter after some mails, with the tables     *)
(* after each transaction.                                                 *)

Start == [log |-> <<>>, d |-> disk, boxes |-> box, id |-> nextMail]

Write(s, d) == [s EXCEPT !.log = Append(@, d), !.d = d]

\* A mail of the house to a character who exists.
Post(s, to, item, money) ==
  LET t == Draft(Nobody, to, item, money, 0, FALSE)
  IN  IF to \notin exists THEN s
      ELSE [Write(s, InsertMail(s.d, s.id, t)) EXCEPT !.boxes = AddMail(@, s.id, t), !.id = @ + 1]

\* SendAuctionOutbiddedMail and SendAuctionCancelledToBidderMail.
Refund(s, a) == IF a.bidder = Nobody THEN s ELSE Post(s, a.bidder, Nobody, a.bid)

\* SendAuctionSuccessfulMail.
Profit(a) == a.bid + a.deposit - Cut(a)
SendAuctionSuccessfulMail(s, a) == Post(s, a.owner, Nobody, Profit(a))

\* SendAuctionWonMail: the item of a winner who is gone is deleted.
SendAuctionWonMail(s, a) ==
  IF a.bidder \in exists THEN Post(Write(s, SetOwner(s.d, a.item, a.bidder)), a.bidder, a.item, 0)
  ELSE Write(s, DeleteItem(s.d, a.item))

\* SendAuctionExpiredMail.
SendAuctionExpiredMail(s, a) ==
  IF a.owner \in exists THEN Post(s, a.owner, a.item, 0)
  ELSE Write(s, DeleteItem(s.d, a.item))

\* The mailing s becomes the state; gold is what the player has afterwards.
Commit(s) ==
  /\ s.id <= MaxMails + 1
  /\ pend' = s.log /\ box' = s.boxes /\ nextMail' = s.id

-----------------------------------------------------------------------------
(* The handlers of the client's requests. *)

\* HandleAuctionSellItem: the item, the auction and the gold are saved in one
\* transaction.
HandleAuctionSellItem(c, i, start, buyout) ==
  LET a    == [id |-> nextAuction, item |-> i, owner |-> c, start |-> start, bid |-> 0,
               bidder |-> Nobody, buyout |-> buyout, deposit |-> Deposit]
      left == ModifyMoney(purse[c], -Deposit)
  IN
  /\ Idle /\ On(c) /\ i \in bag[c] /\ purse[c] >= Deposit
  /\ buyout = 0 \/ start <= buyout
  /\ nextAuction <= MaxAuctions
  /\ auctions' = auctions \cup {a} /\ nextAuction' = nextAuction + 1
  /\ purse' = [purse EXCEPT ![c] = left]
  /\ bag' = [bag EXCEPT ![c] = @ \ {i}]
  /\ pend' = <<SaveGold(SaveAuction(DeleteFromInventory(disk, i), a), c, left)>>
  /\ UNCHANGED <<disk, charVars, box, nextMail, queryVars>>

\* The conditions of HandleAuctionPlaceBid.
MayBid(c, a, price) ==
  /\ On(c) /\ a.owner # c
  /\ ~(a.owner \in exists /\ ~On(a.owner) /\ Account[a.owner] = Account[c])
  /\ price >= a.start /\ price > a.bid
  /\ (a.buyout = 0 \/ price < a.buyout) => price >= a.bid + OutBid(a)
  /\ price <= purse[c]

\* What is left to a bidder: his own earlier bid counts.
Pays(c, a, price) == ModifyMoney(purse[c], -(IF a.bidder = c THEN price - a.bid ELSE price))

\* Faulty variant: the old bidder is not paid back.
OutbidForgets(s, c, a) == s

\* The old bidder gets his bid back.
Outbid(s, c, a) == IF a.bidder = c THEN s ELSE Refund(s, a)

\* HandleAuctionPlaceBid, below the buyout price: the gold is saved last.
Bid(c, a, price) ==
  LET next == [a EXCEPT !.bidder = c, !.bid = price]
      left == Pays(c, a, price)
      s    == Outbid(Start, c, a)
  IN
  /\ Idle /\ MayBid(c, a, price) /\ (a.buyout = 0 \/ price < a.buyout)
  /\ auctions' = (auctions \ {a}) \cup {next}
  /\ purse' = [purse EXCEPT ![c] = left]
  /\ Commit(Write(Write(s, SaveAuction(s.d, next)), SaveGold(SaveAuction(s.d, next), c, left)))
  /\ UNCHANGED <<disk, charVars, bag, queryVars, nextAuction>>

\* HandleAuctionPlaceBid, buyout.
Buyout(c, a, price) ==
  LET sold == [a EXCEPT !.bidder = c, !.bid = a.buyout]
      left == Pays(c, a, a.buyout)
      s    == SendAuctionWonMail(SendAuctionSuccessfulMail(Outbid(Start, c, a), sold), sold)
      gone == Write(s, DeleteAuction(s.d, a))
  IN
  /\ Idle /\ MayBid(c, a, price) /\ a.buyout # 0 /\ price >= a.buyout
  /\ auctions' = auctions \ {a}
  /\ purse' = [purse EXCEPT ![c] = left]
  /\ Commit(Write(gone, SaveGold(gone.d, c, left)))
  /\ UNCHANGED <<disk, charVars, bag, queryVars, nextAuction>>

\* HandleAuctionRemoveItem: the owner pays the cut when there is a bid.
HandleAuctionRemoveItem(c, a) ==
  LET cut  == IF a.bidder = Nobody THEN 0 ELSE Cut(a)
      left == ModifyMoney(purse[c], -cut)
      s    == Post(Refund(Start, a), c, a.item, 0)
  IN
  /\ Idle /\ On(c) /\ a.owner = c /\ purse[c] >= cut
  /\ auctions' = auctions \ {a}
  /\ purse' = [purse EXCEPT ![c] = left]
  /\ Commit(Write(s, SaveGold(DeleteAuction(s.d, a), c, left)))
  /\ UNCHANGED <<disk, charVars, bag, queryVars, nextAuction>>

-----------------------------------------------------------------------------

\* The mails of an auction whose time is over.
Settle(a) ==
  IF a.bidder = Nobody THEN SendAuctionExpiredMail(Start, a)
  ELSE SendAuctionWonMail(SendAuctionSuccessfulMail(Start, a), a)

\* AuctionHouseObject::Update.
Update(a) ==
  LET s == Settle(a) IN
  /\ Idle
  /\ auctions' = auctions \ {a}
  /\ Commit(Write(s, DeleteAuction(s.d, a)))
  /\ UNCHANGED <<disk, charVars, purse, bag, queryVars, nextAuction>>

\* The server stops in good order, everybody being logged out, and starts
\* again: LoadAuctions drops the auctions whose item is not in item_instance.
Restart ==
  LET cs   == {c \in Chars : On(c)}
      log  == SaveBoxes(cs)
      last == IF log = <<>> THEN disk ELSE log[Len(log)]
      keep == {a \in last.auctions : last.inst[a.item] # Nobody}
  IN
  /\ Idle /\ queries = <<>> /\ auctions # {}
  /\ Leave(cs)
  /\ auctions' = keep
  /\ pend' = IF keep = last.auctions THEN log ELSE Append(log, [last EXCEPT !.auctions = keep])
  /\ UNCHANGED <<disk, exists, nextMail, queryVars, nextAuction>>

Next ==
  \/ MailStep /\ UNCHANGED aucVars
  \/ \E c \in Chars, i \in Items, b \in StartBids, p \in Buyouts : HandleAuctionSellItem(c, i, b, p)
  \/ \E a \in auctions :
       \/ Update(a)
       \/ \E c \in Chars :
            \/ HandleAuctionRemoveItem(c, a)
            \/ \E price \in StartBids \cup Buyouts : Bid(c, a, price) \/ Buyout(c, a, price)
  \/ Restart

Spec == AInit /\ [][Next]_vars

-----------------------------------------------------------------------------
(* Properties. *)

Copper == 0 .. MaxMoney
MailRow == [id : Nat, sender : Chars \cup {Nobody}, receiver : Chars, money : Nat,
            cod : Nat, back : BOOLEAN, has : BOOLEAN]
MailItem == [mail : Nat, item : Items, receiver : Chars]
MailEntry == [id : Nat, sender : Chars \cup {Nobody}, money : Nat, cod : Nat,
              back : BOOLEAN, item : Items \cup {Nobody}, deleted : BOOLEAN]
Auction == [id : 1 .. MaxAuctions, item : Items, owner : Chars, start : Nat, bid : Nat,
            bidder : Chars \cup {Nobody}, buyout : Nat, deposit : Nat]

Tables == [gold : [Chars -> Copper], inv : [Items -> Chars \cup {Nobody}],
           inst : [Items -> Chars \cup {Nobody}], mails : SUBSET MailRow,
           mitems : SUBSET MailItem, auctions : SUBSET Auction]

Query ==
  [kind : {"login"}, char : Chars, rows : [gold : Copper, bag : SUBSET Items, box : SUBSET MailEntry]]
  \cup [kind : {"send"}, draft : [from : Chars, to : Chars, item : Items \cup {Nobody},
                                  money : Nat, cod : Nat, back : BOOLEAN]]
  \cup [kind : {"old"}, row : MailRow]
  \cup [kind : {"single"}, row : MailRow, item : Items \cup {Nobody}]

\* The variables have their types: gold stays within 0 and MAX_MONEY_AMOUNT,
\* in memory, in the tables and in every queued transaction.
TypeOK ==
  /\ disk \in Tables /\ pend \in Seq(Tables)
  /\ exists \subseteq Chars /\ phase \in [Chars -> {"off", "loading", "on"}]
  /\ purse \in [Chars -> Copper] /\ bag \in [Chars -> SUBSET Items]
  /\ box \in [Chars -> SUBSET MailEntry]
  /\ nextMail \in 1 .. MaxMails + 1 /\ nextAuction \in 1 .. MaxAuctions + 1
  /\ auctions \subseteq Auction
  /\ queries \in Seq(Query) /\ olds \in 0 .. MaxOld

\* Where the item i is: in the bag or the mailbox of a character, online or
\* as the tables will load it, or in an auction.
Places(i) ==
  {<<"bag", c>> : c \in {x \in Chars : IF On(x) THEN i \in bag[x] ELSE disk.inv[i] = x}}
  \cup (UNION {{<<"mail", c, m.id>> : m \in {x \in box[c] : x.item = i}} : c \in Chars})
  \cup {<<"mail", x.receiver, x.mail>> : x \in {y \in disk.mitems : y.item = i}}
  \cup {<<"auction", a.id>> : a \in {x \in auctions : x.item = i}}

\* No item is in two places: whatever the order in which players send, take,
\* return, auction and buy it, log in and out while queries are under way, and
\* old mails are returned behind their back.  Nor at any moment at which the
\* server may die: no prefix of the queued writes leaves an item both in an
\* inventory and in a mail, or in two mails.
ItemOnce ==
  /\ Idle => \A i \in Items : Cardinality(Places(i)) <= 1
  /\ \A d \in {disk} \cup Range(pend) : \A i \in Items :
       Cardinality({x \in d.mitems : x.item = i}) + (IF d.inv[i] = Nobody THEN 0 ELSE 1) <= 1

\* The gold of the characters, in their mails and held by the auctions.
Gold ==
  MapThenSumSet(LAMBDA c : disk.gold[c], Chars)
  + MapThenSumSet(LAMBDA r : r.money, disk.mails)
  + MapThenSumSet(LAMBDA a : a.bid + a.deposit, disk.auctions)

\* No sequence of handlers creates gold: bids raised and outbid, refunds,
\* profits, cash on delivery and returned mail only move it, or lose it.
NoGoldCreated == Idle => Gold <= StartGold * Cardinality(Chars)

\* The mails queued by a step.
Sent == IF pend' = <<>> THEN {} ELSE pend'[Len(pend')].mails \ disk.mails

\* A character who still exists gets the gold g, or the item i, by mail.
GetsGold(c, g) == c \in exists => \E r \in Sent : r.receiver = c /\ r.money = g
GetsItem(c, i) ==
  c \in exists => \E x \in pend'[Len(pend')].mitems : x.receiver = c /\ x.item = i

Sold(a, b, price) ==
  GetsItem(b, a.item) /\ GetsGold(a.owner, Profit([a EXCEPT !.bid = price]))

Settled(a) ==
  LET next == {x \in auctions' : x.id = a.id}
      held == \E x \in next : x.bidder = a.bidder
  IN  /\ held \/ a.bidder = Nobody
         \/ GetsGold(a.bidder, a.bid) \/ GetsItem(a.bidder, a.item)
      /\ \/ next # {}
         \/ GetsItem(a.owner, a.item)
         \/ a.bidder # Nobody /\ Sold(a, a.bidder, a.bid)
         \/ a.buyout # 0 /\ \E b \in exists : Sold(a, b, a.buyout)

\* Whoever has a stake in an auction is answered in the step that ends it: the
\* item goes to the last bidder or a buyer and the price, less the cut, to the
\* owner, or the item goes back to the owner; and a bidder whose bid is no
\* longer held gets the item or his whole bid back (AuctionHouseHandler.cpp,
\* AuctionHouseObject::Update), as long as the item was not deleted.
AuctionSettled == [][\A a \in auctions : disk.inst[a.item] # Nobody => Settled(a)]_vars
=============================================================================
