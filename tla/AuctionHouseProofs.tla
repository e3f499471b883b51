-------------------------- MODULE AuctionHouseProofs --------------------------
(***************************************************************************)
(* Proofs about AuctionHouse and Mail, for any characters, items, prices   *)
(* and number of mails, queries and auctions: what the statements do, the  *)
(* handlers in parts, and that every variable has its type.                *)
(***************************************************************************)
EXTENDS AuctionHouse, FiniteSetTheorems, SequenceTheorems, TLAPS

-----------------------------------------------------------------------------
(* The statements: their types, and what they leave alone. *)

Who == Chars \cup {Nobody}

DraftType == [from : Who, to : Chars, item : Items \cup {Nobody}, money : Nat, cod : Nat,
              back : BOOLEAN]

\* The tables, field by field.
LEMMA TablesFields ==
  ASSUME NEW d \in Tables
  PROVE  /\ d.gold \in [Chars -> Copper] /\ d.inv \in [Items -> Who] /\ d.inst \in [Items -> Who]
         /\ d.mails \in SUBSET MailRow /\ d.mitems \in SUBSET MailItem
         /\ d.auctions \in SUBSET Auction
  BY DEF Tables, Who

LEMMA SaveGoldFields ==
  ASSUME NEW d \in Tables, NEW c \in Chars, NEW g \in Copper
  PROVE  LET e == SaveGold(d, c, g)
         IN  /\ e \in Tables /\ e.inv = d.inv /\ e.inst = d.inst /\ e.mails = d.mails
             /\ e.mitems = d.mitems /\ e.auctions = d.auctions
  BY DEF SaveGold, Tables

LEMMA DeleteFromInventoryFields ==
  ASSUME NEW d \in Tables, NEW i \in Items
  PROVE  LET e == DeleteFromInventory(d, i)
         IN  /\ e \in Tables /\ e.inv = [d.inv EXCEPT ![i] = Nobody] /\ e.inst = d.inst
             /\ e.mails = d.mails /\ e.mitems = d.mitems /\ e.auctions = d.auctions
  BY DEF DeleteFromInventory, Tables

LEMMA SetOwnerFields ==
  ASSUME NEW d \in Tables, NEW i \in Items, NEW c \in Chars
  PROVE  LET e == SetOwner(d, i, c)
         IN  /\ e \in Tables /\ e.inv = d.inv /\ e.mails = d.mails /\ e.mitems = d.mitems
             /\ e.auctions = d.auctions
             /\ \A x \in Items : x # i => e.inst[x] = d.inst[x]
             /\ d.inst[i] # Nobody => e.inst[i] = c
  BY DEF SetOwner, Tables

LEMMA DeleteItemFields ==
  ASSUME NEW d \in Tables, NEW i \in Items
  PROVE  LET e == DeleteItem(d, i)
         IN  /\ e \in Tables /\ e.inv = d.inv /\ e.mails = d.mails /\ e.mitems = d.mitems
             /\ e.auctions = d.auctions /\ \A x \in Items : x # i => e.inst[x] = d.inst[x]
  BY DEF DeleteItem, Tables

LEMMA SaveItemFields ==
  ASSUME NEW d \in Tables, NEW c \in Chars, NEW i \in Items
  PROVE  LET e == SaveItem(d, c, i)
         IN  /\ e \in Tables /\ e.inv = [d.inv EXCEPT ![i] = c] /\ e.inst = [d.inst EXCEPT ![i] = c]
             /\ e.mails = d.mails /\ e.mitems = d.mitems /\ e.auctions = d.auctions
  BY DEF SaveItem, Tables

LEMMA DeleteMailsFields ==
  ASSUME NEW d \in Tables, NEW ids
  PROVE  LET e == DeleteMails(d, ids)
         IN  /\ e \in Tables /\ e.inv = d.inv /\ e.inst = d.inst /\ e.auctions = d.auctions
             /\ e.mails = {r \in d.mails : r.id \notin ids}
             /\ e.mitems = {x \in d.mitems : x.mail \notin ids}
  BY DEF DeleteMails, Tables

LEMMA DeleteAuctionFields ==
  ASSUME NEW d \in Tables, NEW a \in Auction
  PROVE  LET e == DeleteAuction(d, a)
             f == SaveAuction(d, a)
         IN  /\ e \in Tables /\ e.inv = d.inv /\ e.inst = d.inst /\ e.mails = d.mails
             /\ e.mitems = d.mitems /\ e.auctions = {x \in d.auctions : x.id # a.id}
             /\ f \in Tables /\ f.inv = d.inv /\ f.inst = d.inst /\ f.mails = d.mails
             /\ f.mitems = d.mitems /\ f.auctions = {x \in d.auctions : x.id # a.id} \cup {a}
<1>1. LET e == DeleteAuction(d, a)
      IN  /\ e \in Tables /\ e.inv = d.inv /\ e.inst = d.inst /\ e.mails = d.mails
          /\ e.mitems = d.mitems /\ e.auctions = {x \in d.auctions : x.id # a.id}
  BY DEF DeleteAuction, Tables
<1>2. PICK e \in Tables : e = DeleteAuction(d, a)
  BY <1>1
<1>3. LET f == [e EXCEPT !.auctions = @ \cup {a}]
      IN  /\ f \in Tables /\ f.inv = e.inv /\ f.inst = e.inst /\ f.mails = e.mails
          /\ f.mitems = e.mitems /\ f.auctions = e.auctions \cup {a}
  BY DEF Tables
<1> QED BY <1>1, <1>2, <1>3 DEF SaveAuction

\* The rows of a mail and the mail in memory.
RowOf(n, t) == [id |-> n, sender |-> t.from, receiver |-> t.to, money |-> t.money,
                cod |-> t.cod, back |-> t.back, has |-> t.item # Nobody]
EntryOf(n, t) == [id |-> n, sender |-> t.from, money |-> t.money, cod |-> t.cod,
                  back |-> t.back, item |-> t.item, deleted |-> FALSE]

LEMMA DraftFields ==
  ASSUME NEW n \in Nat, NEW t \in DraftType
  PROVE  /\ t.to \in Chars /\ t.from \in Who /\ t.item \in Items \cup {Nobody}
         /\ RowOf(n, t) \in MailRow /\ RowOf(n, t).id = n /\ RowOf(n, t).receiver = t.to
         /\ EntryOf(n, t) \in MailEntry /\ EntryOf(n, t).id = n /\ EntryOf(n, t).item = t.item
         /\ t.item # Nobody => [mail |-> n, item |-> t.item, receiver |-> t.to] \in MailItem
<1>1. /\ t.to \in Chars /\ t.from \in Who /\ t.item \in Items \cup {Nobody} /\ t.money \in Nat
      /\ t.cod \in Nat /\ t.back \in BOOLEAN
  BY DEF DraftType
<1>2. RowOf(n, t) \in MailRow /\ RowOf(n, t).id = n /\ RowOf(n, t).receiver = t.to
  BY <1>1 DEF RowOf, MailRow, Who
<1>3. EntryOf(n, t) \in MailEntry /\ EntryOf(n, t).id = n /\ EntryOf(n, t).item = t.item
  BY <1>1 DEF EntryOf, MailEntry, Who
<1>4. t.item # Nobody => [mail |-> n, item |-> t.item, receiver |-> t.to] \in MailItem
  BY <1>1 DEF MailItem
<1> QED BY <1>1, <1>2, <1>3, <1>4

LEMMA InsertMailFields ==
  ASSUME NEW d \in Tables, NEW n \in Nat, NEW t \in DraftType
  PROVE  LET e == InsertMail(d, n, t)
         IN  /\ e \in Tables /\ e.inv = d.inv /\ e.inst = d.inst /\ e.auctions = d.auctions
             /\ e.mails = d.mails \cup {RowOf(n, t)}
             /\ e.mitems = IF t.item = Nobody THEN d.mitems
                           ELSE d.mitems \cup {[mail |-> n, item |-> t.item, receiver |-> t.to]}
<1> DEFINE r == RowOf(n, t)
           x == [mail |-> n, item |-> t.item, receiver |-> t.to]
           I == IF t.item = Nobody THEN d.mitems ELSE d.mitems \cup {x}
<1>1. r \in MailRow /\ (t.item # Nobody => x \in MailItem)
  BY DraftFields
<1>2. I \in SUBSET MailItem /\ d.mails \cup {r} \in SUBSET MailRow
  BY <1>1, TablesFields
<1>3. InsertMail(d, n, t) = [d EXCEPT !.mails = d.mails \cup {r}, !.mitems = I]
  BY DEF InsertMail, RowOf
<1> HIDE DEF r, I
<1> QED BY <1>2, <1>3 DEF Tables, r, I

\* Every row of S is one of R, perhaps changed but not in its number and
\* receiver, and no row of R became two.
Follow(R, S) ==
  \A s, u \in S : \E r, q \in R : /\ r.id = s.id /\ r.receiver = s.receiver
                                  /\ q.id = u.id /\ q.receiver = u.receiver
                                  /\ (r = q => s = u)

LEMMA SubsetFollows ==
  ASSUME NEW R, NEW S \in SUBSET R
  PROVE  Follow(R, S)
  BY DEF Follow

Gone(b) == {x \in b : x.deleted}
IdsOf(b) == {x.id : x \in b}

RowsLeft(d, b) == {r \in d.mails : r.id \notin IdsOf(Gone(b))}
ItemsLeft(d, b, taken) == {x \in d.mitems : x.mail \notin IdsOf(Gone(b)) /\ x.item \notin taken}

LEMMA SaveMailsFields ==
  ASSUME NEW d \in Tables, NEW b \in SUBSET MailEntry, NEW m \in MailEntry, NEW taken
  PROVE  LET e == SaveMails(d, b, m, taken)
         IN  /\ e \in Tables /\ e.inv = d.inv /\ e.auctions = d.auctions
             /\ e.mitems = ItemsLeft(d, b, taken)
             /\ \A i \in Items : i \notin ItemsIn(Gone(b)) => e.inst[i] = d.inst[i]
             /\ Follow(RowsLeft(d, b), e.mails)
<1> DEFINE k == DeleteMails(d, IdsOf(Gone(b)))
           F(r) == IF r.id = m.id
                   THEN [r EXCEPT !.money = m.money, !.cod = m.cod, !.has = m.item # Nobody] ELSE r
           R == {F(r) : r \in k.mails}
           I == {x \in k.mitems : x.item \notin taken}
           J == [i \in Items |-> IF i \in ItemsIn(Gone(b)) THEN Nobody ELSE k.inst[i]]
<1>1. /\ k \in Tables /\ k.inv = d.inv /\ k.inst = d.inst /\ k.auctions = d.auctions
      /\ k.mails = {r \in d.mails : r.id \notin IdsOf(Gone(b))}
      /\ k.mitems = {x \in d.mitems : x.mail \notin IdsOf(Gone(b))}
  BY DeleteMailsFields
<1>2. \A r \in MailRow : F(r) \in MailRow /\ F(r).id = r.id /\ F(r).receiver = r.receiver
  BY DEF MailRow, MailEntry
<1>3. SaveMails(d, b, m, taken) = [k EXCEPT !.mails = R, !.mitems = I, !.inst = J]
  BY DEF SaveMails, Gone, IdsOf
<1>4. k.mails \in SUBSET MailRow /\ k.mitems \in SUBSET MailItem /\ k.inst \in [Items -> Who]
  BY <1>1, TablesFields
<1>5. R \in SUBSET MailRow /\ I \in SUBSET MailItem /\ J \in [Items -> Who]
  BY <1>2, <1>4 DEF Who
<1> HIDE DEF F
<1>6. Follow(k.mails, R)
  <2> SUFFICES ASSUME NEW s \in R, NEW u \in R
               PROVE  \E r, q \in k.mails : /\ r.id = s.id /\ r.receiver = s.receiver
                                            /\ q.id = u.id /\ q.receiver = u.receiver
                                            /\ (r = q => s = u)
    BY DEF Follow
  <2>1. PICK r \in k.mails, q \in k.mails : s = F(r) /\ u = F(q)
    OBVIOUS
  <2>2. r \in MailRow /\ q \in MailRow
    BY <1>4
  <2> QED BY <1>2, <2>1, <2>2
<1> HIDE DEF k, R, I, J
<1>7. LET e == [k EXCEPT !.mails = R, !.mitems = I, !.inst = J]
      IN  e \in Tables /\ e.inv = k.inv /\ e.auctions = k.auctions /\ e.mails = R
          /\ e.mitems = I /\ e.inst = J
  BY <1>1, <1>5 DEF Tables, Who
<1>8. I = ItemsLeft(d, b, taken) /\ k.mails = RowsLeft(d, b)
  BY <1>1 DEF I, ItemsLeft, RowsLeft
<1>9. \A i \in Items : i \notin ItemsIn(Gone(b)) => J[i] = d.inst[i]
  BY <1>1 DEF J
<1> QED BY <1>1, <1>3, <1>6, <1>7, <1>8, <1>9

\* The queries, by kind.
LEMMA QueryFields ==
  ASSUME NEW q \in Query
  PROVE  /\ q.kind = "login" => /\ q.char \in Chars /\ q.rows.gold \in Copper
                                /\ q.rows.bag \in SUBSET Items /\ q.rows.box \in SUBSET MailEntry
         /\ q.kind = "send" => q.draft \in DraftType /\ q.draft.from \in Chars
         /\ q.kind \in {"old", "single"} => q.row \in MailRow /\ q.row.id \in Nat
                                            /\ q.row.receiver \in Chars /\ q.row.sender \in Who
         /\ q.kind = "single" => q.item \in Items \cup {Nobody}
         /\ q.kind \in {"login", "send", "old", "single"}
<1>1. CASE q.kind = "login"
  BY <1>1 DEF Query
<1>2. CASE q.kind = "send"
  BY <1>2 DEF Query, DraftType, Who
<1>3. CASE q.kind = "old"
  BY <1>3 DEF Query, MailRow, Who
<1>4. CASE q.kind = "single"
  BY <1>4 DEF Query, MailRow, Who
<1>5. q.kind \in {"login", "send", "old", "single"}
  BY DEF Query
<1> QED BY <1>1, <1>2, <1>3, <1>4, <1>5

LEMMA AddMailFields ==
  ASSUME NEW B \in [Chars -> SUBSET MailEntry], NEW n \in Nat, NEW t \in DraftType
  PROVE  /\ AddMail(B, n, t) \in [Chars -> SUBSET MailEntry]
         /\ \A c \in Chars : AddMail(B, n, t)[c] = IF c = t.to /\ On(c)
                                                   THEN B[c] \cup {EntryOf(n, t)} ELSE B[c]
<1>1. EntryOf(n, t) \in MailEntry
  BY DraftFields
<1>2. AddMail(B, n, t) = [c \in Chars |-> IF c = t.to /\ On(c) THEN B[c] \cup {EntryOf(n, t)} ELSE B[c]]
  BY DEF AddMail, EntryOf
<1> QED BY <1>1, <1>2

LEMMA DraftIs ==
  ASSUME NEW f \in Who, NEW c \in Chars, NEW i \in Items \cup {Nobody}, NEW g \in Nat,
         NEW cod \in Nat, NEW r \in BOOLEAN
  PROVE  /\ Draft(f, c, i, g, cod, r) \in DraftType
         /\ Draft(f, c, i, g, cod, r).to = c /\ Draft(f, c, i, g, cod, r).item = i
         /\ Draft(f, c, i, g, cod, r).money = g
  BY DEF Draft, DraftType

LEMMA ModifyMoneyType ==
  ASSUME NEW g \in Copper, NEW d \in Int
  PROVE  ModifyMoney(g, d) \in Copper
  BY MailAssumption DEF ModifyMoney, Copper

\* The house takes no more than the bid.
LEMMA ProfitType ==
  ASSUME NEW a \in Auction
  PROVE  Cut(a) \in Nat /\ Cut(a) <= a.bid /\ Profit(a) \in Nat
<1>1. a.bid \in Nat /\ a.deposit \in Nat /\ CutPercent \in 0 .. 100
  BY AuctionAssumption DEF Auction
<1>2. ASSUME NEW b \in Nat, NEW p \in 0 .. 100
      PROVE  (b * p) \div 100 \in Nat /\ (b * p) \div 100 <= b
  <2>1. b * p \in Nat
    BY <1>2
  <2>2. b * (100 - p) \in Nat
    BY <1>2
  <2>3. b * 100 = b * p + b * (100 - p)
    BY <1>2
  <2>4. b * p <= b * 100
    BY <1>2, <2>1, <2>2, <2>3
  <2>5. \A x \in Nat : x <= b * 100 => x \div 100 \in Nat /\ x \div 100 <= b
    OBVIOUS
  <2> QED BY <2>1, <2>4, <2>5
<1>3. Cut(a) \in Nat /\ Cut(a) <= a.bid
  BY <1>1, <1>2 DEF Cut
<1> QED BY <1>1, <1>3 DEF Profit

\* The item a login or a deletion reads.
LEMMA MailedItemIs ==
  ASSUME disk \in Tables, NEW r
  PROVE  /\ MailedItem(r) \in Items \cup {Nobody}
         /\ MailedItem(r) # Nobody =>
              \E x \in disk.mitems : x.mail = r.id /\ x.receiver = r.receiver /\ x.item = MailedItem(r)
<1> DEFINE found == {x \in disk.mitems : /\ x.mail = r.id /\ x.receiver = r.receiver
                                         /\ disk.inst[x.item] # Nobody}
           y == CHOOSE x \in found : TRUE
<1>1. MailedItem(r) = IF found = {} THEN Nobody ELSE y.item
  BY DEF MailedItem
<1>2. found # {} => y \in found
  OBVIOUS
<1>3. \A x \in disk.mitems : x.item \in Items
  BY TablesFields DEF MailItem
<1> QED BY <1>1, <1>2, <1>3

EntryIn(r) == [id |-> r.id, sender |-> r.sender, money |-> r.money, cod |-> r.cod,
               back |-> r.back, deleted |-> FALSE, item |-> MailedItem(r)]

LEMMA EntryInFields ==
  ASSUME disk \in Tables, NEW r \in MailRow
  PROVE  EntryIn(r) \in MailEntry /\ EntryIn(r).id = r.id /\ EntryIn(r).item = MailedItem(r)
<1>1. MailedItem(r) \in Items \cup {Nobody}
  BY MailedItemIs
<1> QED BY <1>1 DEF EntryIn, MailEntry, MailRow

LEMMA LoadedFields ==
  ASSUME disk \in Tables, NEW c \in Chars
  PROVE  /\ Loaded(c).gold \in Copper /\ Loaded(c).bag \in SUBSET Items
         /\ Loaded(c).box \in SUBSET MailEntry
         /\ Loaded(c) \in [gold : Copper, bag : SUBSET Items, box : SUBSET MailEntry]
         /\ Loaded(c).bag = {i \in Items : disk.inv[i] = c /\ disk.inst[i] # Nobody}
         /\ Loaded(c).box = {EntryIn(r) : r \in {x \in disk.mails : x.receiver = c}}
<1>1. disk.gold[c] \in Copper /\ disk.mails \in SUBSET MailRow
  BY TablesFields
<1> DEFINE E == {EntryIn(r) : r \in {x \in disk.mails : x.receiver = c}}
           I == {i \in Items : disk.inv[i] = c /\ disk.inst[i] # Nobody}
<1>2. E \in SUBSET MailEntry
  BY <1>1, EntryInFields
<1>3. Loaded(c) = [gold |-> disk.gold[c], bag |-> I, box |-> E]
  BY DEF Loaded, EntryIn
<1> HIDE DEF E
<1> QED BY <1>1, <1>2, <1>3 DEF E

-----------------------------------------------------------------------------
(* Types. *)

LEMMA InitType == AInit => TypeOK
<1> SUFFICES ASSUME AInit PROVE TypeOK
  OBVIOUS
<1> USE MailAssumption, AuctionAssumption DEF AInit, Init
<1>1. disk \in Tables
  BY DEF Tables, Copper
<1>2. pend \in Seq(Tables) /\ queries \in Seq(Query)
  OBVIOUS
<1>3. purse \in [Chars -> Copper]
  BY DEF Copper
<1> QED BY <1>1, <1>2, <1>3 DEF TypeOK

\* The last of a sequence, and a query asked or answered.
LEMMA SeqFacts ==
  ASSUME NEW S, NEW s \in Seq(S)
  PROVE  /\ s # <<>> => s[Len(s)] \in S /\ Head(s) \in S /\ Tail(s) \in Seq(S)
         /\ \A x \in S : Append(s, x) \in Seq(S)
  OBVIOUS

LEMMA ExecuteType ==
  ASSUME TypeOK, Execute, UNCHANGED aucVars
  PROVE  TypeOK'
<1>1. disk' \in Tables /\ pend' \in Seq(Tables)
  BY SeqFacts DEF TypeOK, Execute
<1> QED BY <1>1 DEF TypeOK, Execute, charVars, memVars, queryVars, aucVars

LEMMA LoginStartType ==
  ASSUME TypeOK, NEW c \in Chars, LoginStart(c), UNCHANGED aucVars
  PROVE  TypeOK'
<1> DEFINE q == [kind |-> "login", char |-> c, rows |-> Loaded(c)]
<1>1. q \in Query
  BY LoadedFields DEF Query, TypeOK
<1>2. queries' = Append(queries, q) /\ phase' = [phase EXCEPT ![c] = "loading"]
  BY DEF LoginStart, Ask
<1> HIDE DEF q
<1>3. queries' \in Seq(Query)
  BY <1>1, <1>2, SeqFacts DEF TypeOK
<1>4. phase' \in [Chars -> {"off", "loading", "on"}]
  BY <1>2 DEF TypeOK
<1> QED BY <1>3, <1>4 DEF TypeOK, LoginStart, memVars, aucVars

LEMMA AnsweredHead ==
  ASSUME TypeOK, NEW kind, Answered(kind)
  PROVE  /\ Head(queries) \in Query /\ Head(queries).kind = kind /\ Tail(queries) \in Seq(Query)
         /\ queries # <<>> /\ pend = <<>> /\ queries \in Seq(Query)
  BY SeqFacts DEF TypeOK, Answered, Idle

LEMMA LoginDoneType ==
  ASSUME TypeOK, LoginDone, UNCHANGED aucVars
  PROVE  TypeOK'
<1> DEFINE q == Head(queries)
<1>1. q \in Query /\ q.kind = "login" /\ Tail(queries) \in Seq(Query)
  BY AnsweredHead DEF LoginDone
<1>2. /\ q.char \in Chars /\ q.rows.gold \in Copper
      /\ q.rows.bag \in SUBSET Items /\ q.rows.box \in SUBSET MailEntry
  BY <1>1, QueryFields
<1> HIDE DEF q
<1>3. /\ queries' = Tail(queries)
      /\ phase' = [phase EXCEPT ![q.char] = "on"]
      /\ purse' = [purse EXCEPT ![q.char] = q.rows.gold]
      /\ bag' = [bag EXCEPT ![q.char] = q.rows.bag]
      /\ box' = [box EXCEPT ![q.char] = q.rows.box]
  BY DEF LoginDone, q
<1>4. phase' \in [Chars -> {"off", "loading", "on"}] /\ purse' \in [Chars -> Copper]
  BY <1>2, <1>3 DEF TypeOK
<1>5. bag' \in [Chars -> SUBSET Items] /\ box' \in [Chars -> SUBSET MailEntry]
  BY <1>2, <1>3 DEF TypeOK
<1> QED BY <1>1, <1>3, <1>4, <1>5 DEF TypeOK, LoginDone, aucVars

\* What a logout deletes, and the tables it leaves.
GoneOf(cs) == Gone(UNION {box[c] : c \in cs})
Trimmed(e) == /\ e \in Tables /\ e.inv = disk.inv /\ e.auctions = disk.auctions
              /\ e.mitems \subseteq disk.mitems

LEMMA SaveBoxesFields ==
  ASSUME disk \in Tables, NEW cs
  PROVE  \/ SaveBoxes(cs) = <<>>
         \/ \E d1, d2, d3 \in Tables :
              /\ SaveBoxes(cs) = <<d1, d2, d3>> /\ Trimmed(d1) /\ Trimmed(d2) /\ Trimmed(d3)
              /\ d3.mitems = {x \in disk.mitems : x.mail \notin IdsOf(GoneOf(cs))}
              /\ d3.mails \subseteq disk.mails
              /\ \A i \in Items : i \notin ItemsIn(GoneOf(cs)) => d3.inst[i] = disk.inst[i]
<1> DEFINE g == GoneOf(cs)
           J == [i \in Items |-> IF i \in ItemsIn(g) THEN Nobody ELSE disk.inst[i]]
           d1 == [disk EXCEPT !.inst = J]
           R == {r \in disk.mails : r.id \notin IdsOf(g)}
           d2 == [d1 EXCEPT !.mails = R]
           d3 == DeleteMails(d2, IdsOf(g))
<1>1. SaveBoxes(cs) = IF g = {} THEN <<>> ELSE <<d1, d2, d3>>
  BY DEF SaveBoxes, GoneOf, Gone, IdsOf
<1>2. J \in [Items -> Who] /\ R \in SUBSET MailRow
  BY TablesFields DEF Who
<1> HIDE DEF g, J, R
<1>3. d1 \in Tables /\ d1.inv = disk.inv /\ d1.auctions = disk.auctions /\ d1.mitems = disk.mitems
      /\ d1.mails = disk.mails /\ d1.inst = J
  BY <1>2 DEF Tables, Who
<1> HIDE DEF d1
<1>4. d2 \in Tables /\ d2.inv = d1.inv /\ d2.auctions = d1.auctions /\ d2.mitems = d1.mitems
      /\ d2.mails = R /\ d2.inst = d1.inst
  BY <1>2, <1>3 DEF Tables, Who
<1> HIDE DEF d2
<1>5. /\ d3 \in Tables /\ d3.inv = d2.inv /\ d3.inst = d2.inst /\ d3.auctions = d2.auctions
      /\ d3.mails = {r \in d2.mails : r.id \notin IdsOf(g)}
      /\ d3.mitems = {x \in d2.mitems : x.mail \notin IdsOf(g)}
  BY <1>4, DeleteMailsFields
<1> HIDE DEF d3
<1>6. Trimmed(d1) /\ Trimmed(d2) /\ Trimmed(d3)
  BY <1>3, <1>4, <1>5 DEF Trimmed
<1>7. /\ d3.mitems = {x \in disk.mitems : x.mail \notin IdsOf(g)} /\ d3.mails \subseteq disk.mails
  BY <1>3, <1>4, <1>5 DEF R
<1>8. \A i \in Items : i \notin ItemsIn(g) => d3.inst[i] = disk.inst[i]
  BY <1>3, <1>4, <1>5 DEF J
<1> QED BY <1>1, <1>3, <1>4, <1>5, <1>6, <1>7, <1>8 DEF g

LEMMA SaveBoxesType ==
  ASSUME disk \in Tables, NEW cs
  PROVE  SaveBoxes(cs) \in Seq(Tables)
<1>1. CASE SaveBoxes(cs) = <<>>
  BY <1>1
<1>2. CASE SaveBoxes(cs) # <<>>
  <2>1. PICK d1 \in Tables, d2 \in Tables, d3 \in Tables : SaveBoxes(cs) = <<d1, d2, d3>>
    BY <1>2, SaveBoxesFields
  <2> QED BY <2>1
<1> QED BY <1>1, <1>2

LEMMA LeaveType ==
  ASSUME TypeOK, NEW cs, Leave(cs)
  PROVE  /\ phase' \in [Chars -> {"off", "loading", "on"}] /\ purse' \in [Chars -> Copper]
         /\ bag' \in [Chars -> SUBSET Items] /\ box' \in [Chars -> SUBSET MailEntry]
<1>1. 0 \in Copper
  BY MailAssumption DEF Copper
<1> QED BY <1>1 DEF TypeOK, Leave

LEMMA LogoutType ==
  ASSUME TypeOK, NEW c \in Chars, LogoutPlayer(c), UNCHANGED aucVars
  PROVE  TypeOK'
<1>1. disk \in Tables
  BY DEF TypeOK
<1>2. SaveBoxes({c}) \in Seq(Tables)
  BY <1>1, SaveBoxesType
<1>3. /\ phase' \in [Chars -> {"off", "loading", "on"}] /\ purse' \in [Chars -> Copper]
      /\ bag' \in [Chars -> SUBSET Items] /\ box' \in [Chars -> SUBSET MailEntry]
  BY LeaveType DEF LogoutPlayer
<1> QED BY <1>2, <1>3 DEF TypeOK, LogoutPlayer, queryVars, aucVars

\* The tables of Send: the item leaves the inventory, the mail is inserted and
\* the gold is saved.
SendOff(q) == IF q.item = Nobody THEN disk
              ELSE SetOwner(DeleteFromInventory(disk, q.item), q.item, q.to)
SendIn(q) == InsertMail(SendOff(q), nextMail, q)
Paid(q) == ModifyMoney(purse[q.from], -(q.money + Postage))

LEMMA SendTables ==
  ASSUME TypeOK, NEW q \in DraftType, q.from \in Chars
  PROVE  /\ SendOff(q) \in Tables /\ SendIn(q) \in Tables /\ Paid(q) \in Copper
         /\ SaveGold(SendIn(q), q.from, Paid(q)) \in Tables
<1>1. disk \in Tables /\ nextMail \in Nat /\ purse[q.from] \in Copper
  BY MailAssumption DEF TypeOK
<1>2. q.to \in Chars /\ q.item \in Items \cup {Nobody} /\ q.money \in Nat
  BY DEF DraftType
<1>3. -(q.money + Postage) \in Int
  BY <1>2, MailAssumption
<1>4. Paid(q) \in Copper
  BY <1>1, <1>3, ModifyMoneyType DEF Paid
<1>5. SendOff(q) \in Tables
  BY <1>1, <1>2, DeleteFromInventoryFields, SetOwnerFields DEF SendOff
<1>6. SendIn(q) \in Tables
  BY <1>1, <1>5, InsertMailFields DEF SendIn
<1>7. SaveGold(SendIn(q), q.from, Paid(q)) \in Tables
  BY <1>4, <1>6, SaveGoldFields
<1> QED BY <1>4, <1>5, <1>6, <1>7

LEMMA SendIs ==
  ASSUME NEW q, Send(q)
  PROVE  /\ purse' = [purse EXCEPT ![q.from] = Paid(q)]
         /\ bag' = [bag EXCEPT ![q.from] = @ \ {q.item}]
         /\ box' = AddMail(box, nextMail, q)
         /\ pend' = <<SendOff(q), SendIn(q), SaveGold(SendIn(q), q.from, Paid(q))>>
         /\ nextMail' = nextMail + 1
  BY DEF Send, SendOff, SendIn, Paid

LEMMA SendType ==
  ASSUME TypeOK, NEW q \in DraftType, q.from \in Chars, Send(q), nextMail <= MaxMails
  PROVE  /\ purse' \in [Chars -> Copper] /\ bag' \in [Chars -> SUBSET Items]
         /\ box' \in [Chars -> SUBSET MailEntry] /\ pend' \in Seq(Tables)
         /\ nextMail' \in 1 .. MaxMails + 1
<1>1. nextMail \in Nat /\ nextMail' \in 1 .. MaxMails + 1
  BY MailAssumption, SendIs DEF TypeOK
<1>2. pend' \in Seq(Tables) /\ Paid(q) \in Copper
  <2>1. PICK d1 \in Tables, d2 \in Tables, d3 \in Tables :
          d1 = SendOff(q) /\ d2 = SendIn(q) /\ d3 = SaveGold(SendIn(q), q.from, Paid(q))
    BY SendTables
  <2>2. pend' = <<d1, d2, d3>>
    BY <2>1, SendIs
  <2> QED BY <2>2, SendTables
<1>3. box' \in [Chars -> SUBSET MailEntry]
  BY <1>1, SendIs, AddMailFields DEF TypeOK
<1>4. purse' = [purse EXCEPT ![q.from] = Paid(q)] /\ bag' = [bag EXCEPT ![q.from] = @ \ {q.item}]
  BY SendIs
<1>5. purse' \in [Chars -> Copper]
  BY <1>2, <1>4 DEF TypeOK
<1>6. bag' \in [Chars -> SUBSET Items]
  BY <1>4 DEF TypeOK
<1> QED BY <1>1, <1>2, <1>3, <1>5, <1>6

LEMMA SendMailType ==
  ASSUME TypeOK, NEW s \in Chars, NEW r \in Chars, NEW i \in Items \cup {Nobody},
         NEW g \in Sums, NEW cod \in Cods, SendMail(s, r, i, g, cod), UNCHANGED aucVars
  PROVE  TypeOK'
<1> DEFINE q == Draft(s, r, i, g, IF i = Nobody THEN 0 ELSE cod, FALSE)
<1>1. q \in DraftType /\ q.from \in Chars
  BY MailAssumption DEF DraftType, Draft, Who
<1>2. q \in [from : Chars, to : Chars, item : Items \cup {Nobody}, money : Nat, cod : Nat,
             back : BOOLEAN]
  BY MailAssumption DEF Draft
<1> HIDE DEF q
<1>3. CASE Send(q) /\ UNCHANGED queries
  BY <1>1, <1>3, SendType DEF TypeOK, SendMail, charVars, aucVars
<1>4. CASE Ask([kind |-> "send", draft |-> q]) /\ UNCHANGED <<pend, memVars, nextMail>>
  <2> DEFINE k == [kind |-> "send", draft |-> q]
  <2>1. k \in Query
    BY <1>2 DEF Query
  <2>2. queries' = Append(queries, k)
    BY <1>4 DEF Ask
  <2> HIDE DEF k
  <2>3. queries' \in Seq(Query)
    BY <2>1, <2>2, SeqFacts DEF TypeOK
  <2> QED BY <1>4, <2>3 DEF TypeOK, SendMail, charVars, memVars, aucVars
<1> QED BY <1>3, <1>4 DEF SendMail, q

LEMMA SendCallbackType ==
  ASSUME TypeOK, SendCallback, UNCHANGED aucVars
  PROVE  TypeOK'
<1> DEFINE q == Head(queries).draft
<1>1. q \in DraftType /\ q.from \in Chars /\ Tail(queries) \in Seq(Query)
  BY AnsweredHead, QueryFields DEF SendCallback
<1> HIDE DEF q
<1>2. CASE Send(q) /\ nextMail <= MaxMails
  BY <1>1, <1>2, SendType DEF TypeOK, SendCallback, charVars, aucVars
<1>3. CASE UNCHANGED <<pend, memVars, nextMail>>
  BY <1>1, <1>3 DEF TypeOK, SendCallback, charVars, memVars, aucVars
<1> QED BY <1>2, <1>3 DEF SendCallback, q

\* A mailbox with m replaced, and what stays of a box once it is saved.
Opened(c, m, rest) == (box[c] \ {m}) \cup {rest}
Kept(B) == {x \in B : ~x.deleted}

\* HandleMailTakeItem, in parts: the payment, the mail without its item, the
\* tables after the payment and after the item is saved.
Charged(m) == m.cod > 0 /\ m.sender \in exists
Payment(c, m) == Draft(c, m.sender, Nobody, m.cod, 0, TRUE)
Emptied(m) == [m EXCEPT !.item = Nobody, !.cod = 0]
PaidTables(c, m) == IF Charged(m) THEN InsertMail(disk, nextMail, Payment(c, m)) ELSE disk
Stored(c, m) == SaveGold(SaveItem(PaidTables(c, m), c, m.item), c, ModifyMoney(purse[c], -m.cod))
TakenTables(c, m) == SaveMails(Stored(c, m), Opened(c, m, Emptied(m)), Emptied(m), {m.item})

LEMMA EntryFields ==
  ASSUME NEW m \in MailEntry
  PROVE  /\ m.id \in Nat /\ m.sender \in Who /\ m.money \in Nat /\ m.cod \in Nat
         /\ m.item \in Items \cup {Nobody} /\ m.deleted \in BOOLEAN
         /\ Emptied(m) \in MailEntry /\ Emptied(m).id = m.id /\ Emptied(m).item = Nobody
         /\ Emptied(m).deleted = m.deleted
  BY DEF MailEntry, Who, Emptied

LEMMA BoxEntry ==
  ASSUME TypeOK, NEW c \in Chars, NEW m \in box[c]
  PROVE  m \in MailEntry /\ box[c] \in SUBSET MailEntry
  BY DEF TypeOK

LEMMA TakeItemIs ==
  ASSUME TypeOK, NEW c \in Chars, NEW m \in box[c], HandleMailTakeItem(c, m)
  PROVE  /\ pend = <<>> /\ On(c) /\ ~m.deleted /\ m.item \in Items /\ m.item # Nobody
         /\ purse' = [purse EXCEPT ![c] = ModifyMoney(purse[c], -m.cod)]
         /\ bag' = [bag EXCEPT ![c] = @ \cup {m.item}]
         /\ LET kept == [box EXCEPT ![c] = Kept(Opened(c, m, Emptied(m)))]
            IN  box' = IF Charged(m) THEN AddMail(kept, nextMail, Payment(c, m)) ELSE kept
         /\ pend' = IF Charged(m) THEN <<PaidTables(c, m), TakenTables(c, m)>>
                    ELSE <<TakenTables(c, m)>>
         /\ nextMail' = IF Charged(m) THEN nextMail + 1 ELSE nextMail
         /\ Charged(m) => nextMail <= MaxMails
         /\ UNCHANGED <<disk, charVars, queryVars>>
<1> DEFINE boxes == [box EXCEPT ![c] = (@ \ {m}) \cup {[m EXCEPT !.item = Nobody, !.cod = 0]}]
<1>1. m.item \in Items \cup {Nobody}
  BY BoxEntry, EntryFields
<1>2. boxes[c] = Opened(c, m, Emptied(m))
  BY DEF TypeOK, Opened, Emptied
<1>3. [boxes EXCEPT ![c] = {x \in @ : ~x.deleted}] = [box EXCEPT ![c] = Kept(Opened(c, m, Emptied(m)))]
  BY DEF TypeOK, Opened, Emptied, Kept
<1>4. boxes = [box EXCEPT ![c] = (@ \ {m}) \cup {[m EXCEPT !.item = Nobody, !.cod = 0]}]
  OBVIOUS
<1> DEFINE d2 == SaveMails(Stored(c, m), boxes[c], Emptied(m), {m.item})
<1>5. pend' = IF Charged(m) THEN <<PaidTables(c, m), TakenTables(c, m)>> ELSE <<TakenTables(c, m)>>
  <2>1. pend' = IF Charged(m) THEN <<PaidTables(c, m), d2>> ELSE <<d2>>
    BY Zenon DEF HandleMailTakeItem, Charged, Payment, Emptied, PaidTables, Stored
  <2>2. d2 = TakenTables(c, m)
    BY <1>2 DEF TakenTables
  <2> QED BY <2>1, <2>2
<1> HIDE DEF boxes
<1>6. LET kept == [box EXCEPT ![c] = Kept(Opened(c, m, Emptied(m)))]
      IN  box' = IF Charged(m) THEN AddMail(kept, nextMail, Payment(c, m)) ELSE kept
  BY <1>3, <1>4 DEF HandleMailTakeItem, Charged, Payment
<1> QED BY <1>1, <1>5, <1>6 DEF HandleMailTakeItem, Charged, Payment, Readable, Idle

LEMMA TakeItemTables ==
  ASSUME TypeOK, NEW c \in Chars, NEW m \in box[c], m.item \in Items
  PROVE  /\ PaidTables(c, m) \in Tables /\ Stored(c, m) \in Tables /\ TakenTables(c, m) \in Tables
         /\ ModifyMoney(purse[c], -m.cod) \in Copper
         /\ Charged(m) => Payment(c, m) \in DraftType
         /\ Opened(c, m, Emptied(m)) \in SUBSET MailEntry
<1>1. m \in MailEntry /\ box[c] \in SUBSET MailEntry
  BY BoxEntry
<1>2. m.cod \in Nat /\ Emptied(m) \in MailEntry
  BY <1>1, EntryFields
<1>3. disk \in Tables /\ nextMail \in Nat /\ purse[c] \in Copper /\ exists \subseteq Chars
  BY MailAssumption DEF TypeOK
<1>4. ModifyMoney(purse[c], -m.cod) \in Copper
  <2>1. -m.cod \in Int
    BY <1>2
  <2> QED BY <2>1, <1>3, ModifyMoneyType
<1>5. Charged(m) => Payment(c, m) \in DraftType
  BY <1>2, <1>3, DraftIs DEF Charged, Payment, Who
<1>6. PaidTables(c, m) \in Tables
  BY <1>3, <1>5, InsertMailFields DEF PaidTables
<1>7. Stored(c, m) \in Tables
  <2>1. SaveItem(PaidTables(c, m), c, m.item) \in Tables
    BY <1>6, SaveItemFields
  <2> QED BY <2>1, <1>4, SaveGoldFields DEF Stored
<1>8. Opened(c, m, Emptied(m)) \in SUBSET MailEntry
  BY <1>1, <1>2 DEF Opened
<1>9. TakenTables(c, m) \in Tables
  BY <1>2, <1>7, <1>8, SaveMailsFields DEF TakenTables
<1> QED BY <1>4, <1>5, <1>6, <1>7, <1>8, <1>9

LEMMA TakeItemType ==
  ASSUME TypeOK, NEW c \in Chars, NEW m \in box[c], HandleMailTakeItem(c, m), UNCHANGED aucVars
  PROVE  TypeOK'
<1>1. nextMail \in 1 .. MaxMails + 1 /\ nextMail \in Nat
  BY MailAssumption DEF TypeOK
<1>0. /\ m.item \in Items /\ (Charged(m) => nextMail <= MaxMails)
      /\ nextMail' = IF Charged(m) THEN nextMail + 1 ELSE nextMail
      /\ purse' = [purse EXCEPT ![c] = ModifyMoney(purse[c], -m.cod)]
      /\ bag' = [bag EXCEPT ![c] = @ \cup {m.item}]
      /\ pend' = <<PaidTables(c, m), TakenTables(c, m)>> \/ pend' = <<TakenTables(c, m)>>
  BY TakeItemIs
<1>2. PICK d1 \in Tables, d2 \in Tables : d1 = PaidTables(c, m) /\ d2 = TakenTables(c, m)
  BY <1>0, TakeItemTables
<1>3. pend' \in Seq(Tables)
  <2>1. pend' = <<d1, d2>> \/ pend' = <<d2>>
    BY <1>0, <1>2
  <2>2. <<d1, d2>> \in Seq(Tables) /\ <<d2>> \in Seq(Tables)
    OBVIOUS
  <2> QED BY <2>1, <2>2
<1>4. purse' \in [Chars -> Copper]
  BY <1>0, TakeItemTables DEF TypeOK
<1>5. bag' \in [Chars -> SUBSET Items]
  BY <1>0 DEF TypeOK
<1>6. box' \in [Chars -> SUBSET MailEntry]
  <2> DEFINE K == Kept(Opened(c, m, Emptied(m)))
             kept == [box EXCEPT ![c] = K]
  <2>1. K \in SUBSET MailEntry
    BY <1>0, TakeItemTables DEF Kept
  <2> HIDE DEF K
  <2>2. kept \in [Chars -> SUBSET MailEntry]
    BY <2>1 DEF TypeOK
  <2>3. box' = IF Charged(m) THEN AddMail(kept, nextMail, Payment(c, m)) ELSE kept
    BY TakeItemIs DEF K
  <2> HIDE DEF kept
  <2> QED BY <1>0, <1>1, <2>2, <2>3, AddMailFields, TakeItemTables
<1>7. nextMail' \in 1 .. MaxMails + 1
  BY <1>0, <1>1, MailAssumption
<1> QED BY <1>3, <1>4, <1>5, <1>6, <1>7, TakeItemIs DEF TypeOK, charVars, queryVars, aucVars

\* HandleMailTakeMoney, in parts.
Cashed(m) == [m EXCEPT !.money = 0]
CashedTables(c, m) ==
  SaveMails(SaveGold(disk, c, ModifyMoney(purse[c], m.money)), Opened(c, m, Cashed(m)), Cashed(m), {})

LEMMA CashedFields ==
  ASSUME NEW m \in MailEntry
  PROVE  Cashed(m) \in MailEntry /\ Cashed(m).id = m.id /\ Cashed(m).item = m.item
         /\ Cashed(m).deleted = m.deleted
  BY DEF MailEntry, Cashed

LEMMA TakeMoneyIs ==
  ASSUME TypeOK, NEW c \in Chars, NEW m \in box[c], HandleMailTakeMoney(c, m)
  PROVE  /\ pend = <<>> /\ On(c) /\ ~m.deleted
         /\ purse' = [purse EXCEPT ![c] = ModifyMoney(purse[c], m.money)]
         /\ box' = [box EXCEPT ![c] = Kept(Opened(c, m, Cashed(m)))]
         /\ pend' = <<CashedTables(c, m)>>
         /\ UNCHANGED <<disk, charVars, bag, nextMail, queryVars>>
<1> DEFINE boxes == [box EXCEPT ![c] = (@ \ {m}) \cup {[m EXCEPT !.money = 0]}]
           gold == ModifyMoney(purse[c], m.money)
           d2 == SaveMails(SaveGold(disk, c, gold), boxes[c], Cashed(m), {})
<1>1. boxes[c] = Opened(c, m, Cashed(m))
  BY DEF TypeOK, Opened, Cashed
<1>2. [boxes EXCEPT ![c] = {x \in @ : ~x.deleted}] = [box EXCEPT ![c] = Kept(Opened(c, m, Cashed(m)))]
  BY DEF TypeOK, Opened, Cashed, Kept
<1>3. pend' = <<d2>> /\ box' = [boxes EXCEPT ![c] = {x \in @ : ~x.deleted}]
  BY Zenon DEF HandleMailTakeMoney, Cashed
<1>4. d2 = CashedTables(c, m)
  BY <1>1 DEF CashedTables
<1> HIDE DEF boxes, d2
<1>5. pend' = <<CashedTables(c, m)>>
  BY <1>3, <1>4
<1>6. box' = [box EXCEPT ![c] = Kept(Opened(c, m, Cashed(m)))]
  BY <1>2, <1>3
<1> QED BY <1>5, <1>6 DEF HandleMailTakeMoney, Readable, Idle

LEMMA TakeMoneyTables ==
  ASSUME TypeOK, NEW c \in Chars, NEW m \in box[c]
  PROVE  /\ SaveGold(disk, c, ModifyMoney(purse[c], m.money)) \in Tables
         /\ CashedTables(c, m) \in Tables
         /\ ModifyMoney(purse[c], m.money) \in Copper
         /\ Opened(c, m, Cashed(m)) \in SUBSET MailEntry
<1>1. m \in MailEntry /\ box[c] \in SUBSET MailEntry
  BY BoxEntry
<1>2. m.money \in Int /\ Cashed(m) \in MailEntry
  BY <1>1, EntryFields, CashedFields
<1>3. disk \in Tables /\ purse[c] \in Copper
  BY DEF TypeOK
<1>4. ModifyMoney(purse[c], m.money) \in Copper
  BY <1>2, <1>3, ModifyMoneyType
<1>5. SaveGold(disk, c, ModifyMoney(purse[c], m.money)) \in Tables
  BY <1>3, <1>4, SaveGoldFields
<1>6. Opened(c, m, Cashed(m)) \in SUBSET MailEntry
  BY <1>1, <1>2 DEF Opened
<1>7. CashedTables(c, m) \in Tables
  BY <1>2, <1>5, <1>6, SaveMailsFields DEF CashedTables
<1> QED BY <1>4, <1>5, <1>6, <1>7

LEMMA TakeMoneyType ==
  ASSUME TypeOK, NEW c \in Chars, NEW m \in box[c], HandleMailTakeMoney(c, m), UNCHANGED aucVars
  PROVE  TypeOK'
<1> DEFINE K == Kept(Opened(c, m, Cashed(m)))
<1>1. K \in SUBSET MailEntry
  BY TakeMoneyTables DEF Kept
<1>2. purse' = [purse EXCEPT ![c] = ModifyMoney(purse[c], m.money)] /\ box' = [box EXCEPT ![c] = K]
      /\ pend' = <<CashedTables(c, m)>>
  BY TakeMoneyIs
<1> HIDE DEF K
<1>3. box' \in [Chars -> SUBSET MailEntry]
  BY <1>1, <1>2 DEF TypeOK
<1>4. purse' \in [Chars -> Copper]
  BY <1>2, TakeMoneyTables DEF TypeOK
<1>5. pend' \in Seq(Tables)
  BY <1>2, TakeMoneyTables
<1> QED BY <1>3, <1>4, <1>5, TakeMoneyIs DEF TypeOK, charVars, queryVars, aucVars

Binned(m) == [m EXCEPT !.deleted = TRUE]

LEMMA MailDeleteType ==
  ASSUME TypeOK, NEW c \in Chars, NEW m \in box[c], HandleMailDelete(c, m), UNCHANGED aucVars
  PROVE  TypeOK' /\ box' = [box EXCEPT ![c] = Opened(c, m, Binned(m))]
         /\ Binned(m).id = m.id /\ Binned(m).item = m.item
<1>1. m \in MailEntry /\ box[c] \in SUBSET MailEntry
  BY BoxEntry
<1>2. Binned(m) \in MailEntry /\ Binned(m).id = m.id /\ Binned(m).item = m.item
  BY <1>1 DEF MailEntry, Binned
<1>3. Opened(c, m, Binned(m)) \in SUBSET MailEntry
  BY <1>1, <1>2 DEF Opened
<1>4. box' = [box EXCEPT ![c] = Opened(c, m, Binned(m))]
  BY DEF HandleMailDelete, Opened, Binned
<1>5. box' \in [Chars -> SUBSET MailEntry]
  BY <1>3, <1>4 DEF TypeOK
<1> QED BY <1>2, <1>4, <1>5 DEF TypeOK, HandleMailDelete, charVars, queryVars, aucVars

\* The item given to the receiver of a draft, when there is one.
Handed(d, t) == IF t.item = Nobody THEN d ELSE SetOwner(d, t.item, t.to)

LEMMA HandedFields ==
  ASSUME NEW d \in Tables, NEW t \in DraftType
  PROVE  /\ Handed(d, t) \in Tables /\ Handed(d, t).inv = d.inv /\ Handed(d, t).mails = d.mails
         /\ Handed(d, t).mitems = d.mitems /\ Handed(d, t).auctions = d.auctions
         /\ \A x \in Items : x # t.item => Handed(d, t).inst[x] = d.inst[x]
<1>1. t.to \in Chars /\ t.item \in Items \cup {Nobody}
  BY DEF DraftType
<1> QED BY <1>1, SetOwnerFields DEF Handed

LEMMA ReturnIs ==
  ASSUME NEW d \in Tables, NEW n \in Nat, NEW t, t.item \in Items \cup {Nobody}
  PROVE  /\ t.to \in exists /\ t \in DraftType =>
              /\ SendReturnToSender(d, n, t) = <<Handed(d, t), InsertMail(Handed(d, t), n, t)>>
              /\ Handed(d, t) \in Tables /\ InsertMail(Handed(d, t), n, t) \in Tables
         /\ t.to \notin exists =>
              \/ t.item = Nobody /\ SendReturnToSender(d, n, t) = <<>>
              \/ /\ t.item \in Items /\ SendReturnToSender(d, n, t) = <<DeleteItem(d, t.item)>>
                 /\ DeleteItem(d, t.item) \in Tables
<1>1. ASSUME t.to \in exists, t \in DraftType
      PROVE  /\ SendReturnToSender(d, n, t) = <<Handed(d, t), InsertMail(Handed(d, t), n, t)>>
             /\ Handed(d, t) \in Tables /\ InsertMail(Handed(d, t), n, t) \in Tables
  <2>1. SendReturnToSender(d, n, t) = <<Handed(d, t), InsertMail(Handed(d, t), n, t)>>
    BY <1>1, Zenon DEF SendReturnToSender, Handed
  <2>2. Handed(d, t) \in Tables
    BY <1>1, HandedFields
  <2> QED BY <1>1, <2>1, <2>2, InsertMailFields
<1>2. ASSUME t.to \notin exists
      PROVE  \/ t.item = Nobody /\ SendReturnToSender(d, n, t) = <<>>
             \/ /\ t.item \in Items /\ SendReturnToSender(d, n, t) = <<DeleteItem(d, t.item)>>
                /\ DeleteItem(d, t.item) \in Tables
  BY <1>2, DeleteItemFields DEF SendReturnToSender
<1> QED BY <1>1, <1>2

LEMMA ReturnSeq ==
  ASSUME NEW d \in Tables, NEW n \in Nat, NEW t, t.item \in Items \cup {Nobody},
         t.to \in exists => t \in DraftType
  PROVE  SendReturnToSender(d, n, t) \in Seq(Tables)
<1>1. CASE t.to \in exists
  <2>1. PICK e \in Tables, f \in Tables : SendReturnToSender(d, n, t) = <<e, f>>
    BY <1>1, ReturnIs
  <2> QED BY <2>1
<1>2. CASE t.to \notin exists
  <2>1. SendReturnToSender(d, n, t) = <<>> \/ \E e \in Tables : SendReturnToSender(d, n, t) = <<e>>
    BY <1>2, ReturnIs
  <2>2. CASE SendReturnToSender(d, n, t) = <<>>
    BY <2>2
  <2>3. CASE SendReturnToSender(d, n, t) # <<>>
    <3>1. PICK e \in Tables : SendReturnToSender(d, n, t) = <<e>>
      BY <2>1, <2>3
    <3> QED BY <3>1
  <2> QED BY <2>2, <2>3
<1> QED BY <1>1, <1>2

Returned(c, m) == Draft(c, m.sender, m.item, m.money, 0, TRUE)

LEMMA ReturnedIs ==
  ASSUME TypeOK, NEW c \in Chars, NEW m \in box[c]
  PROVE  /\ m.sender \in Who /\ m.item \in Items \cup {Nobody}
         /\ Returned(c, m).item = m.item /\ Returned(c, m).to = m.sender
         /\ m.sender \in exists => Returned(c, m) \in DraftType /\ m.sender \in Chars
<1>1. m \in MailEntry /\ exists \subseteq Chars
  BY BoxEntry DEF TypeOK
<1>2. m.sender \in Who /\ m.item \in Items \cup {Nobody} /\ m.money \in Nat
  BY <1>1, EntryFields
<1>3. Returned(c, m).item = m.item /\ Returned(c, m).to = m.sender
  BY DEF Returned, Draft
<1>4. m.sender \in exists => Returned(c, m) \in DraftType /\ m.sender \in Chars
  BY <1>1, <1>2, DraftIs DEF Returned, Who
<1> QED BY <1>2, <1>3, <1>4

LEMMA ReturnToSenderIs ==
  ASSUME TypeOK, NEW c \in Chars, NEW m \in box[c], HandleMailReturnToSender(c, m)
  PROVE  LET d1   == DeleteMails(disk, {m.id})
             kept == [box EXCEPT ![c] = box[c] \ {m}]
         IN  /\ pend = <<>> /\ On(c) /\ ~m.deleted /\ nextMail <= MaxMails
             /\ m.sender = Nobody => pend' = <<d1>> /\ box' = kept /\ nextMail' = nextMail
             /\ m.sender # Nobody =>
                  /\ pend' = <<d1>> \o SendReturnToSender(d1, nextMail, Returned(c, m))
                  /\ box' = IF m.sender \in exists THEN AddMail(kept, nextMail, Returned(c, m)) ELSE kept
                  /\ nextMail' = IF m.sender \in exists THEN nextMail + 1 ELSE nextMail
             /\ UNCHANGED <<disk, charVars, purse, bag, queryVars>>
  BY DEF HandleMailReturnToSender, Returned, Readable, Idle

LEMMA ReturnToSenderType ==
  ASSUME TypeOK, NEW c \in Chars, NEW m \in box[c], HandleMailReturnToSender(c, m),
         UNCHANGED aucVars
  PROVE  TypeOK'
<1> DEFINE d1 == DeleteMails(disk, {m.id})
           kept == [box EXCEPT ![c] = box[c] \ {m}]
           t == Returned(c, m)
<1>1. disk \in Tables /\ nextMail \in 1 .. MaxMails + 1 /\ nextMail \in Nat
  BY MailAssumption DEF TypeOK
<1>2. d1 \in Tables
  BY <1>1, DeleteMailsFields
<1>3. kept \in [Chars -> SUBSET MailEntry]
  BY DEF TypeOK
<1>4. SendReturnToSender(d1, nextMail, t) \in Seq(Tables)
  BY <1>1, <1>2, ReturnedIs, ReturnSeq
<1>5. /\ nextMail <= MaxMails
      /\ m.sender = Nobody => pend' = <<d1>> /\ box' = kept /\ nextMail' = nextMail
      /\ m.sender # Nobody => /\ pend' = <<d1>> \o SendReturnToSender(d1, nextMail, t)
                              /\ box' = IF m.sender \in exists THEN AddMail(kept, nextMail, t) ELSE kept
                              /\ nextMail' = IF m.sender \in exists THEN nextMail + 1 ELSE nextMail
  BY ReturnToSenderIs
<1> HIDE DEF d1, kept, t
<1>6. pend' \in Seq(Tables)
  <2>1. <<d1>> \in Seq(Tables)
    BY <1>2
  <2>2. <<d1>> \o SendReturnToSender(d1, nextMail, t) \in Seq(Tables)
    BY <1>4, <2>1, ConcatProperties
  <2> QED BY <1>5, <2>1, <2>2
<1>7. box' \in [Chars -> SUBSET MailEntry]
  <2>1. CASE m.sender \in exists
    <3>1. AddMail(kept, nextMail, t) \in [Chars -> SUBSET MailEntry]
      BY <1>1, <1>3, <2>1, ReturnedIs, AddMailFields DEF t
    <3> QED BY <1>3, <1>5, <3>1
  <2>2. CASE m.sender \notin exists
    BY <1>3, <1>5, <2>2
  <2> QED BY <2>1, <2>2
<1>8. nextMail' \in 1 .. MaxMails + 1
  BY <1>1, <1>5, MailAssumption
<1> QED BY <1>6, <1>7, <1>8, ReturnToSenderIs DEF TypeOK, charVars, queryVars, aucVars

LEMMA OldFoundType ==
  ASSUME TypeOK, NEW r \in disk.mails, ReturnOrDeleteOldMails(r), UNCHANGED aucVars
  PROVE  TypeOK'
<1> DEFINE q == [kind |-> "old", row |-> r]
<1>1. r \in MailRow
  BY TablesFields DEF TypeOK
<1>2. q \in Query
  BY <1>1 DEF Query
<1>3. queries' = Append(queries, q) /\ olds' = olds + 1 /\ olds < MaxOld
  BY DEF ReturnOrDeleteOldMails
<1> HIDE DEF q
<1>4. queries' \in Seq(Query)
  BY <1>2, <1>3, SeqFacts DEF TypeOK
<1>5. olds' \in 0 .. MaxOld
  BY <1>3, MailAssumption DEF TypeOK
<1> QED BY <1>4, <1>5 DEF TypeOK, ReturnOrDeleteOldMails, charVars, memVars, aucVars

\* The rows of mail w without it, and the item of the mail with number w.
Dropped(w) == [disk EXCEPT !.mails = {r \in @ : r.id # w}]

LEMMA DroppedFields ==
  ASSUME disk \in Tables, NEW w
  PROVE  /\ Trimmed(Dropped(w)) /\ Dropped(w).mails \subseteq disk.mails
         /\ Dropped(w).mitems = disk.mitems /\ Dropped(w).inst = disk.inst
  BY DEF Dropped, Tables, Trimmed

ItemOfMail(w) ==
  LET found == {x \in disk.mitems : x.mail = w}
  IN  IF found = {} THEN Nobody ELSE (CHOOSE x \in found : TRUE).item

LEMMA ItemOfMailIs ==
  ASSUME disk \in Tables, NEW w
  PROVE  /\ ItemOfMail(w) \in Items \cup {Nobody}
         /\ ItemOfMail(w) = Nobody => \A x \in disk.mitems : x.mail # w
         /\ ItemOfMail(w) # Nobody => \E x \in disk.mitems : x.mail = w /\ x.item = ItemOfMail(w)
<1> DEFINE found == {x \in disk.mitems : x.mail = w}
           y == CHOOSE x \in found : TRUE
<1>1. ItemOfMail(w) = IF found = {} THEN Nobody ELSE y.item
  BY DEF ItemOfMail
<1>2. found # {} => y \in found
  OBVIOUS
<1>3. \A x \in disk.mitems : x.item \in Items /\ x.item # Nobody
  BY TablesFields, MailAssumption DEF MailItem
<1> QED BY <1>1, <1>2, <1>3

LEMMA OldMailsReturnerIs ==
  ASSUME OldMailsReturner
  PROVE  LET row == Head(queries).row
         IN  /\ Answered("old") /\ UNCHANGED <<disk, charVars, memVars, nextMail, olds>>
             /\ \/ queries' = Tail(queries) /\ UNCHANGED pend
                \/ /\ ~On(row.receiver) /\ UNCHANGED pend
                   /\ queries' = Append(Tail(queries),
                                   [kind |-> "single", row |-> row, item |-> ItemOfMail(row.id)])
                \/ queries' = Tail(queries) /\ pend' = <<Dropped(row.id)>>
  BY Zenon DEF OldMailsReturner, ItemOfMail, Dropped

LEMMA OldMailsReturnerType ==
  ASSUME TypeOK, OldMailsReturner, UNCHANGED aucVars
  PROVE  TypeOK'
<1> DEFINE row == Head(queries).row
           q == [kind |-> "single", row |-> row, item |-> ItemOfMail(row.id)]
<1>1. /\ row \in MailRow /\ Tail(queries) \in Seq(Query)
  BY OldMailsReturnerIs, AnsweredHead, QueryFields
<1>2. ItemOfMail(row.id) \in Items \cup {Nobody} /\ Dropped(row.id) \in Tables
  BY ItemOfMailIs, DroppedFields DEF TypeOK, Trimmed
<1> HIDE DEF row
<1>3. q \in Query
  BY <1>1, <1>2 DEF Query
<1>4. \/ queries' = Tail(queries) /\ pend' = pend
      \/ queries' = Append(Tail(queries), q) /\ pend' = pend
      \/ queries' = Tail(queries) /\ pend' = <<Dropped(row.id)>>
  BY OldMailsReturnerIs DEF row
<1> HIDE DEF q
<1>5. Append(Tail(queries), q) \in Seq(Query)
  BY <1>1, <1>3, SeqFacts
<1>6. <<Dropped(row.id)>> \in Seq(Tables)
  BY <1>2
<1>7. queries' \in Seq(Query) /\ pend' \in Seq(Tables)
  BY <1>1, <1>4, <1>5, <1>6 DEF TypeOK
<1> QED BY <1>7, OldMailsReturnerIs DEF TypeOK, charVars, memVars, aucVars

LEMMA DeleteOldFields ==
  ASSUME disk \in Tables, NEW o, o.item \in Items \cup {Nobody}
  PROVE  \/ o.item = Nobody /\ DeleteOld(o) = <<Dropped(o.row.id)>>
         \/ o.item # Nobody /\ \E e, f, g \in Tables :
              /\ DeleteOld(o) = <<e, f, g>> /\ Trimmed(e) /\ Trimmed(f) /\ Trimmed(g)
              /\ g.mitems = {x \in disk.mitems : x.mail # o.row.id} /\ g.mails \subseteq disk.mails
              /\ \A i \in Items : i # o.item => g.inst[i] = disk.inst[i]
<1> DEFINE w == o.row.id
           e == DeleteItem(disk, o.item)
           f == [e EXCEPT !.mitems = {x \in @ : x.mail # w}]
           g == [f EXCEPT !.mails = {r \in @ : r.id # w}]
<1>1. DeleteOld(o) = IF o.item = Nobody THEN <<Dropped(w)>> ELSE <<e, f, g>>
  BY Zenon DEF DeleteOld, Dropped
<1>2. CASE o.item = Nobody
  BY <1>1, <1>2
<1>3. CASE o.item # Nobody
  <2>1. /\ e \in Tables /\ e.inv = disk.inv /\ e.mails = disk.mails /\ e.mitems = disk.mitems
        /\ e.auctions = disk.auctions /\ \A x \in Items : x # o.item => e.inst[x] = disk.inst[x]
    BY <1>3, DeleteItemFields
  <2> HIDE DEF e
  <2>2. /\ f \in Tables /\ f.inv = e.inv /\ f.inst = e.inst /\ f.mails = e.mails
        /\ f.auctions = e.auctions /\ f.mitems = {x \in e.mitems : x.mail # w}
    BY <2>1 DEF Tables
  <2> HIDE DEF f
  <2>3. /\ g \in Tables /\ g.inv = f.inv /\ g.inst = f.inst /\ g.mitems = f.mitems
        /\ g.auctions = f.auctions /\ g.mails = {r \in f.mails : r.id # w}
    BY <2>2 DEF Tables
  <2> HIDE DEF g
  <2>4. Trimmed(e) /\ Trimmed(f) /\ Trimmed(g)
    BY <2>1, <2>2, <2>3 DEF Trimmed
  <2>5. /\ g.mitems = {x \in disk.mitems : x.mail # w} /\ g.mails \subseteq disk.mails
        /\ \A i \in Items : i # o.item => g.inst[i] = disk.inst[i]
    BY <2>1, <2>2, <2>3
  <2> QED BY <1>1, <1>3, <2>1, <2>2, <2>3, <2>4, <2>5
<1> QED BY <1>2, <1>3

\* The rows of a returned mail.
TurnedRow(o, r) == IF r.id = o.row.id
                   THEN [r EXCEPT !.sender = o.row.receiver, !.receiver = o.row.sender,
                                  !.cod = 0, !.back = TRUE]
                   ELSE r
TurnedItem(o, x) == IF x.item = o.item THEN [x EXCEPT !.receiver = o.row.sender] ELSE x

LEMMA TurnedFields ==
  ASSUME NEW o, o.row.receiver \in Chars, o.row.sender \in Chars
  PROVE  /\ \A r \in MailRow : /\ TurnedRow(o, r) \in MailRow /\ TurnedRow(o, r).id = r.id
                               /\ r.id # o.row.id => TurnedRow(o, r) = r
                               /\ r.id = o.row.id => TurnedRow(o, r).receiver = o.row.sender
         /\ \A x \in MailItem : /\ TurnedItem(o, x) \in MailItem /\ TurnedItem(o, x).item = x.item
                                /\ TurnedItem(o, x).mail = x.mail
                                /\ x.item # o.item => TurnedItem(o, x) = x
                                /\ x.item = o.item => TurnedItem(o, x).receiver = o.row.sender
  BY DEF TurnedRow, TurnedItem, MailRow, MailItem

LEMMA ReturnOldFields ==
  ASSUME disk \in Tables, NEW o, o.item \in Items \cup {Nobody},
         o.row.receiver \in Chars, o.row.sender \in Chars
  PROVE  \E e, f, g \in Tables :
           /\ ReturnOld(o) = IF o.item = Nobody THEN <<e>> ELSE <<e, f, g>>
           /\ e.inv = disk.inv /\ f.inv = disk.inv /\ g.inv = disk.inv
           /\ e.auctions = disk.auctions /\ g.auctions = disk.auctions
           /\ e.mails = {TurnedRow(o, r) : r \in disk.mails} /\ g.mails = e.mails
           /\ e.mitems = disk.mitems /\ f.mitems = {TurnedItem(o, x) : x \in disk.mitems}
           /\ g.mitems = f.mitems /\ e.inst = disk.inst
           /\ \A i \in Items : i # o.item => g.inst[i] = disk.inst[i]
<1> DEFINE R == {TurnedRow(o, r) : r \in disk.mails}
           I == {TurnedItem(o, x) : x \in disk.mitems}
           e == [disk EXCEPT !.mails = R]
           f == [e EXCEPT !.mitems = I]
           g == IF o.item = Nobody THEN f ELSE SetOwner(f, o.item, o.row.sender)
<1>1. R \in SUBSET MailRow /\ I \in SUBSET MailItem
  BY TablesFields, TurnedFields
<1>2. ReturnOld(o) = IF o.item = Nobody THEN <<e>> ELSE <<e, f, g>>
  <2> DEFINE e2 == [disk EXCEPT !.mails = {TurnedRow(o, r) : r \in @}]
             f2 == [e2 EXCEPT !.mitems = {TurnedItem(o, x) : x \in @}]
  <2>1. ReturnOld(o) = IF o.item = Nobody THEN <<e2>> ELSE <<e2, f2, SetOwner(f2, o.item, o.row.sender)>>
    BY Zenon DEF ReturnOld, TurnedRow, TurnedItem
  <2>2. e2 = e /\ e.mitems = disk.mitems
    BY DEF Tables
  <2>3. f2 = f
    BY <2>2
  <2> HIDE DEF e, f, e2, f2
  <2> QED BY <2>1, <2>2, <2>3
<1> HIDE DEF R, I
<1>3. /\ e \in Tables /\ e.inv = disk.inv /\ e.inst = disk.inst /\ e.mails = R
      /\ e.auctions = disk.auctions /\ e.mitems = disk.mitems
  BY <1>1 DEF Tables
<1> HIDE DEF e
<1>4. /\ f \in Tables /\ f.inv = e.inv /\ f.inst = e.inst /\ f.mails = R
      /\ f.auctions = e.auctions /\ f.mitems = I
  BY <1>1, <1>3 DEF Tables
<1> HIDE DEF f
<1>5. /\ g \in Tables /\ g.inv = f.inv /\ g.mails = R /\ g.auctions = f.auctions /\ g.mitems = I
      /\ \A i \in Items : i # o.item => g.inst[i] = f.inst[i]
  BY <1>4, SetOwnerFields
<1> HIDE DEF g
<1> e \in Tables /\ f \in Tables /\ g \in Tables
  BY <1>3, <1>4, <1>5
<1> WITNESS e \in Tables, f \in Tables, g \in Tables
<1> QED BY <1>2, <1>3, <1>4, <1>5 DEF R, I

LEMMA SingleMailReturnerType ==
  ASSUME TypeOK, SingleMailReturner, UNCHANGED aucVars
  PROVE  TypeOK'
<1> DEFINE o == Head(queries)
<1>1. /\ o.row.receiver \in Chars /\ o.row.sender \in Who /\ o.item \in Items \cup {Nobody}
      /\ Tail(queries) \in Seq(Query) /\ disk \in Tables
  BY AnsweredHead, QueryFields DEF SingleMailReturner, TypeOK
<1>2. \/ pend' = pend \/ pend' = DeleteOld(o)
      \/ pend' = ReturnOld(o) /\ o.row.sender # Nobody
  BY DEF SingleMailReturner
<1>3. queries' = Tail(queries) /\ UNCHANGED <<disk, charVars, memVars, nextMail, olds>>
  BY DEF SingleMailReturner
<1> HIDE DEF o
<1>4. DeleteOld(o) \in Seq(Tables)
  <2>1. CASE o.item = Nobody
    <3>1. DeleteOld(o) = <<Dropped(o.row.id)>> /\ Dropped(o.row.id) \in Tables
      BY <1>1, <2>1, DeleteOldFields, DroppedFields DEF Trimmed
    <3> QED BY <3>1
  <2>2. CASE o.item # Nobody
    <3>1. PICK e \in Tables, f \in Tables, g \in Tables : DeleteOld(o) = <<e, f, g>>
      BY <1>1, <2>2, DeleteOldFields
    <3> QED BY <3>1
  <2> QED BY <2>1, <2>2
<1>5. o.row.sender # Nobody => ReturnOld(o) \in Seq(Tables)
  <2> SUFFICES ASSUME o.row.sender # Nobody PROVE ReturnOld(o) \in Seq(Tables)
    OBVIOUS
  <2>1. o.row.sender \in Chars
    BY <1>1 DEF Who
  <2>2. PICK e \in Tables, f \in Tables, g \in Tables :
          ReturnOld(o) = IF o.item = Nobody THEN <<e>> ELSE <<e, f, g>>
    BY <1>1, <2>1, ReturnOldFields
  <2>3. <<e>> \in Seq(Tables) /\ <<e, f, g>> \in Seq(Tables)
    OBVIOUS
  <2> QED BY <2>2, <2>3
<1>6. pend' \in Seq(Tables)
  BY <1>2, <1>4, <1>5 DEF TypeOK
<1> QED BY <1>1, <1>3, <1>6 DEF TypeOK, charVars, memVars, aucVars

\* DeleteFromDB, in parts: the mails that go back, the draft of the first, the
\* tables without them, the transactions so far, and the rest.
CodRows(c) == {r \in disk.mails : r.receiver = c /\ r.has /\ r.cod > 0}
CodRow(c) == CHOOSE x \in CodRows(c) : TRUE
CodDraft(c) == Draft(c, CodRow(c).sender, MailedItem(CodRow(c)), CodRow(c).money, 0, TRUE)
CodFirst(c) == [disk EXCEPT !.mails = @ \ CodRows(c)]
CodDropped(c) == DeleteMails(CodFirst(c), IdsOf(CodRows(c)))
CodBack(c) ==
  IF CodRows(c) = {} THEN <<>>
  ELSE <<CodFirst(c), CodDropped(c)>> \o SendReturnToSender(CodDropped(c), nextMail, CodDraft(c))
CodLast(c) == IF CodBack(c) = <<>> THEN disk ELSE CodBack(c)[Len(CodBack(c))]
Erased(d, c) ==
  [d EXCEPT !.gold = [@ EXCEPT ![c] = 0],
            !.inv  = [i \in Items |-> IF @[i] = c THEN Nobody ELSE @[i]],
            !.inst = [i \in Items |-> IF @[i] = c THEN Nobody ELSE @[i]],
            !.mails = {x \in @ : x.receiver # c},
            !.mitems = {x \in @ : x.receiver # c}]
CodSent(c) == CodRows(c) # {} /\ CodDraft(c).to \in exists

LEMMA DeleteFromDBIs ==
  ASSUME NEW c, DeleteFromDB(c)
  PROVE  /\ pend = <<>> /\ phase[c] = "off" /\ (SlowLookup \/ ~LookedUp(c)) /\ nextMail <= MaxMails
         /\ exists' = exists \ {c} /\ pend' = Append(CodBack(c), Erased(CodLast(c), c))
         /\ box' = IF CodSent(c) THEN AddMail(box, nextMail, CodDraft(c)) ELSE box
         /\ nextMail' = IF CodSent(c) THEN nextMail + 1 ELSE nextMail
         /\ Cardinality(CodRows(c)) <= 1
         /\ UNCHANGED <<disk, phase, purse, bag, queryVars>>
<1>1. pend' = Append(CodBack(c), Erased(CodLast(c), c))
  BY Zenon DEF DeleteFromDB, CodRows, CodRow, CodDraft, CodFirst, CodDropped, CodBack, CodLast, Erased, IdsOf
<1>2. /\ box' = IF CodSent(c) THEN AddMail(box, nextMail, CodDraft(c)) ELSE box
      /\ nextMail' = IF CodSent(c) THEN nextMail + 1 ELSE nextMail
  BY Zenon DEF DeleteFromDB, CodSent, CodRows, CodRow, CodDraft
<1>3. /\ pend = <<>> /\ phase[c] = "off" /\ (SlowLookup \/ ~LookedUp(c)) /\ nextMail <= MaxMails
      /\ exists' = exists \ {c} /\ UNCHANGED <<disk, phase, purse, bag, queryVars>>
      /\ Cardinality(CodRows(c)) <= 1
  BY Zenon DEF DeleteFromDB, Idle, CodRows
<1> QED BY <1>1, <1>2, <1>3

LEMMA ErasedFields ==
  ASSUME NEW d \in Tables, NEW c \in Chars
  PROVE  LET e == Erased(d, c)
         IN  /\ e \in Tables /\ e.auctions = d.auctions
             /\ e.inv = [i \in Items |-> IF d.inv[i] = c THEN Nobody ELSE d.inv[i]]
             /\ e.inst = [i \in Items |-> IF d.inst[i] = c THEN Nobody ELSE d.inst[i]]
             /\ e.mails = {x \in d.mails : x.receiver # c}
             /\ e.mitems = {x \in d.mitems : x.receiver # c}
<1> DEFINE G == [d.gold EXCEPT ![c] = 0]
           V == [i \in Items |-> IF d.inv[i] = c THEN Nobody ELSE d.inv[i]]
           I == [i \in Items |-> IF d.inst[i] = c THEN Nobody ELSE d.inst[i]]
           R == {x \in d.mails : x.receiver # c}
           X == {x \in d.mitems : x.receiver # c}
<1>0. 0 \in Copper
  BY MailAssumption DEF Copper
<1>1. /\ G \in [Chars -> Copper] /\ V \in [Items -> Who] /\ I \in [Items -> Who]
      /\ R \in SUBSET MailRow /\ X \in SUBSET MailItem
  BY <1>0, TablesFields DEF Who
<1>2. Erased(d, c) = [d EXCEPT !.gold = G, !.inv = V, !.inst = I, !.mails = R, !.mitems = X]
  BY DEF Erased
<1> HIDE DEF G, V, I, R, X
<1>3. LET e == [d EXCEPT !.gold = G, !.inv = V, !.inst = I, !.mails = R, !.mitems = X]
      IN  /\ e \in Tables /\ e.auctions = d.auctions /\ e.inv = V /\ e.inst = I
          /\ e.mails = R /\ e.mitems = X
  BY <1>1 DEF Tables, Who
<1> QED BY <1>2, <1>3 DEF V, I, R, X

LEMMA CodFields ==
  ASSUME TypeOK, NEW c \in Chars
  PROVE  /\ CodFirst(c) \in Tables /\ CodFirst(c).inv = disk.inv /\ CodFirst(c).mitems = disk.mitems
         /\ CodFirst(c).inst = disk.inst /\ CodFirst(c).auctions = disk.auctions
         /\ CodFirst(c).mails = disk.mails \ CodRows(c)
         /\ CodDropped(c) \in Tables /\ CodDropped(c).inv = disk.inv
         /\ CodDropped(c).inst = disk.inst /\ CodDropped(c).auctions = disk.auctions
         /\ CodDropped(c).mails \subseteq disk.mails
         /\ CodDropped(c).mitems = {x \in disk.mitems : x.mail \notin IdsOf(CodRows(c))}
         /\ CodRows(c) # {} =>
              /\ CodRow(c) \in CodRows(c) /\ CodRow(c) \in disk.mails /\ CodRow(c) \in MailRow
              /\ CodDraft(c).item = MailedItem(CodRow(c)) /\ CodDraft(c).to = CodRow(c).sender
              /\ CodDraft(c).item \in Items \cup {Nobody}
              /\ CodDraft(c).to \in exists => CodDraft(c) \in DraftType
<1>1. disk \in Tables /\ exists \subseteq Chars
  BY DEF TypeOK
<1>2. /\ CodFirst(c) \in Tables /\ CodFirst(c).inv = disk.inv /\ CodFirst(c).mitems = disk.mitems
      /\ CodFirst(c).inst = disk.inst /\ CodFirst(c).auctions = disk.auctions
      /\ CodFirst(c).mails = disk.mails \ CodRows(c)
  <2> DEFINE R == disk.mails \ CodRows(c)
  <2>1. R \in SUBSET MailRow /\ CodFirst(c) = [disk EXCEPT !.mails = R]
    BY <1>1, TablesFields DEF CodFirst
  <2> HIDE DEF R
  <2>2. LET e == [disk EXCEPT !.mails = R]
        IN  /\ e \in Tables /\ e.inv = disk.inv /\ e.mitems = disk.mitems /\ e.inst = disk.inst
            /\ e.auctions = disk.auctions /\ e.mails = R
    BY <1>1, <2>1 DEF Tables
  <2> QED BY <2>1, <2>2 DEF R
<1>3. /\ CodDropped(c) \in Tables /\ CodDropped(c).inv = CodFirst(c).inv
      /\ CodDropped(c).inst = CodFirst(c).inst /\ CodDropped(c).auctions = CodFirst(c).auctions
      /\ CodDropped(c).mails \subseteq CodFirst(c).mails
      /\ CodDropped(c).mitems = {x \in CodFirst(c).mitems : x.mail \notin IdsOf(CodRows(c))}
  BY <1>2, DeleteMailsFields DEF CodDropped
<1>4. ASSUME CodRows(c) # {}
      PROVE  /\ CodRow(c) \in CodRows(c) /\ CodRow(c) \in disk.mails /\ CodRow(c) \in MailRow
             /\ CodDraft(c).item = MailedItem(CodRow(c)) /\ CodDraft(c).to = CodRow(c).sender
             /\ CodDraft(c).item \in Items \cup {Nobody}
             /\ CodDraft(c).to \in exists => CodDraft(c) \in DraftType
  <2>1. CodRow(c) \in CodRows(c)
    BY <1>4 DEF CodRow
  <2>2. CodRow(c) \in disk.mails /\ CodRow(c) \in MailRow
    BY <1>1, <2>1, TablesFields DEF CodRows
  <2>3. CodRow(c).money \in Nat
    BY <2>2 DEF MailRow
  <2>4. MailedItem(CodRow(c)) \in Items \cup {Nobody}
    BY <1>1, MailedItemIs
  <2>5. CodDraft(c).item = MailedItem(CodRow(c)) /\ CodDraft(c).to = CodRow(c).sender
    BY DEF CodDraft, Draft
  <2>6. CodDraft(c).to \in exists => CodDraft(c) \in DraftType
    BY <1>1, <2>3, <2>4, <2>5, DraftIs DEF CodDraft, Who
  <2> QED BY <2>1, <2>2, <2>4, <2>5, <2>6
<1> QED BY <1>2, <1>3, <1>4

LEMMA CodBackType ==
  ASSUME TypeOK, NEW c \in Chars
  PROVE  /\ CodBack(c) \in Seq(Tables) /\ CodLast(c) \in Tables
         /\ Append(CodBack(c), Erased(CodLast(c), c)) \in Seq(Tables)
<1>1. nextMail \in Nat /\ disk \in Tables
  BY MailAssumption DEF TypeOK
<1>2. CodBack(c) \in Seq(Tables)
  <2>1. CASE CodRows(c) = {}
    BY <2>1 DEF CodBack
  <2>2. CASE CodRows(c) # {}
    <3>1. PICK e \in Tables, f \in Tables : e = CodFirst(c) /\ f = CodDropped(c)
      BY CodFields
    <3>2. SendReturnToSender(f, nextMail, CodDraft(c)) \in Seq(Tables)
      BY <1>1, <2>2, <3>1, CodFields, ReturnSeq
    <3>3. <<e, f>> \in Seq(Tables)
      OBVIOUS
    <3>4. <<e, f>> \o SendReturnToSender(f, nextMail, CodDraft(c)) \in Seq(Tables)
      BY <3>2, <3>3, ConcatProperties
    <3> QED BY <2>2, <3>1, <3>4 DEF CodBack
  <2> QED BY <2>1, <2>2
<1>3. CodLast(c) \in Tables
  BY <1>1, <1>2, SeqFacts DEF CodLast
<1>4. Erased(CodLast(c), c) \in Tables
  BY <1>3, ErasedFields
<1> QED BY <1>2, <1>3, <1>4, SeqFacts

LEMMA DeleteFromDBType ==
  ASSUME TypeOK, NEW c \in Chars, DeleteFromDB(c), UNCHANGED aucVars
  PROVE  TypeOK'
<1>1. nextMail \in 1 .. MaxMails + 1 /\ nextMail \in Nat
  BY MailAssumption DEF TypeOK
<1>2. pend' \in Seq(Tables)
  BY DeleteFromDBIs, CodBackType
<1>3. box' \in [Chars -> SUBSET MailEntry]
  <2>1. CodSent(c) => CodDraft(c) \in DraftType
    BY CodFields DEF CodSent
  <2>2. CodSent(c) => AddMail(box, nextMail, CodDraft(c)) \in [Chars -> SUBSET MailEntry]
    BY <1>1, <2>1, AddMailFields DEF TypeOK
  <2> QED BY <2>2, DeleteFromDBIs DEF TypeOK
<1>4. nextMail' \in 1 .. MaxMails + 1
  <2>1. nextMail <= MaxMails /\ nextMail' \in {nextMail, nextMail + 1}
    BY DeleteFromDBIs
  <2> QED BY <1>1, <2>1, MailAssumption
<1> QED BY <1>2, <1>3, <1>4, DeleteFromDBIs DEF TypeOK, queryVars, aucVars

\* Mailings.
Mailing == [log : Seq(Tables), d : Tables, boxes : [Chars -> SUBSET MailEntry], id : Nat \ {0}]

LEMMA StartFields ==
  ASSUME TypeOK
  PROVE  /\ Start \in Mailing /\ Start.log = <<>> /\ Start.d = disk /\ Start.boxes = box
         /\ Start.id = nextMail
<1>1. nextMail \in Nat \ {0}
  BY MailAssumption DEF TypeOK
<1> QED BY <1>1 DEF Start, Mailing, TypeOK

LEMMA MailingFields ==
  ASSUME NEW s \in Mailing
  PROVE  /\ s.log \in Seq(Tables) /\ s.d \in Tables
         /\ s.boxes \in [Chars -> SUBSET MailEntry] /\ s.id \in Nat /\ 1 <= s.id
  BY DEF Mailing

LEMMA WriteFields ==
  ASSUME NEW s \in Mailing, NEW d \in Tables
  PROVE  /\ Write(s, d) \in Mailing /\ Write(s, d).log = Append(s.log, d) /\ Write(s, d).d = d
         /\ Write(s, d).boxes = s.boxes /\ Write(s, d).id = s.id
<1> DEFINE L == Append(s.log, d)
<1>1. L \in Seq(Tables)
  BY MailingFields, SeqFacts
<1>2. Write(s, d) = [s EXCEPT !.log = L, !.d = d]
  BY DEF Write
<1> HIDE DEF L
<1> QED BY <1>1, <1>2 DEF Mailing, L

HouseMail(to, item, money) == Draft(Nobody, to, item, money, 0, FALSE)

LEMMA PostFields ==
  ASSUME TypeOK, NEW s \in Mailing, NEW to \in Who, NEW item \in Items \cup {Nobody}, NEW money \in Nat
  PROVE  LET t == HouseMail(to, item, money)
             e == InsertMail(s.d, s.id, t)
             p == Post(s, to, item, money)
         IN  /\ p \in Mailing
             /\ to \notin exists => p = s
             /\ to \in exists => /\ to \in Chars /\ t \in DraftType /\ t.to = to /\ t.item = item
                                 /\ t.money = money /\ e \in Tables
                                 /\ p.log = Append(s.log, e) /\ p.d = e
                                 /\ p.boxes = AddMail(s.boxes, s.id, t) /\ p.id = s.id + 1
<1> DEFINE t == HouseMail(to, item, money)
           e == InsertMail(s.d, s.id, t)
<1>1. CASE to \notin exists
  BY <1>1 DEF Post
<1>2. CASE to \in exists
  <2>1. to \in Chars
    BY <1>2 DEF TypeOK
  <2>2. t \in DraftType /\ t.to = to /\ t.item = item /\ t.money = money
    <3>1. Nobody \in Who /\ 0 \in Nat /\ FALSE \in BOOLEAN
      BY DEF Who
    <3> QED BY <2>1, <3>1 DEF HouseMail, Draft, DraftType
  <2>3. /\ s.id \in Nat /\ s.d \in Tables /\ s.boxes \in [Chars -> SUBSET MailEntry]
    BY MailingFields
  <2> HIDE DEF t
  <2>4. e \in Tables
    BY <2>2, <2>3, InsertMailFields
  <2> DEFINE B == AddMail(s.boxes, s.id, t)
  <2>5. B \in [Chars -> SUBSET MailEntry]
    BY <2>2, <2>3, AddMailFields
  <2> DEFINE w == Write(s, e)
  <2>6. /\ w \in Mailing /\ w.log = Append(s.log, e) /\ w.d = e /\ w.boxes = s.boxes /\ w.id = s.id
    BY <2>4, WriteFields
  <2>7. Post(s, to, item, money) = [w EXCEPT !.boxes = AddMail(@, s.id, t), !.id = @ + 1]
    BY <1>2, Zenon DEF Post, t, HouseMail
  <2> HIDE DEF w, e, B
  <2>8. Post(s, to, item, money) = [w EXCEPT !.boxes = B, !.id = s.id + 1]
    BY <2>6, <2>7 DEF B
  <2>9. s.id + 1 \in Nat \ {0}
    BY <2>3
  <2>10. LET p == [w EXCEPT !.boxes = B, !.id = s.id + 1]
         IN  /\ p \in Mailing /\ p.log = w.log /\ p.d = w.d /\ p.boxes = B /\ p.id = s.id + 1
    BY <2>5, <2>6, <2>9 DEF Mailing
  <2> QED BY <1>2, <2>1, <2>2, <2>4, <2>6, <2>8, <2>10 DEF B, e, t
<1> QED BY <1>1, <1>2

LEMMA AuctionFields ==
  ASSUME NEW a \in Auction
  PROVE  /\ a.id \in 1 .. MaxAuctions /\ a.item \in Items /\ a.owner \in Chars /\ a.owner \in Who
         /\ a.bid \in Nat /\ a.bidder \in Who /\ a.buyout \in Nat /\ a.start \in Nat
         /\ \A c \in Chars, p \in Nat :
              LET next == [a EXCEPT !.bidder = c, !.bid = p]
              IN  /\ next \in Auction /\ next.id = a.id /\ next.item = a.item
                  /\ next.owner = a.owner /\ next.bidder = c /\ next.bid = p
                  /\ next.deposit = a.deposit
  BY DEF Auction, Who

LEMMA RefundType ==
  ASSUME TypeOK, NEW s \in Mailing, NEW a \in Auction, NEW c
  PROVE  Refund(s, a) \in Mailing /\ Outbid(s, c, a) \in Mailing
<1>1. Refund(s, a) \in Mailing
  BY AuctionFields, PostFields DEF Refund
<1> QED BY <1>1 DEF Outbid

LEMMA SuccessType ==
  ASSUME TypeOK, NEW s \in Mailing, NEW a \in Auction
  PROVE  SendAuctionSuccessfulMail(s, a) \in Mailing
  BY AuctionFields, ProfitType, PostFields DEF SendAuctionSuccessfulMail

LEMMA WonType ==
  ASSUME TypeOK, NEW s \in Mailing, NEW a \in Auction
  PROVE  SendAuctionWonMail(s, a) \in Mailing /\ SendAuctionExpiredMail(s, a) \in Mailing
<1>1. a.item \in Items /\ a.owner \in Chars /\ a.owner \in Who /\ a.bidder \in Who /\ 0 \in Nat
  BY AuctionFields
<1>2. Write(s, DeleteItem(s.d, a.item)) \in Mailing
  BY <1>1, MailingFields, DeleteItemFields, WriteFields
<1>3. a.bidder \in exists => Write(s, SetOwner(s.d, a.item, a.bidder)) \in Mailing
  <2> SUFFICES ASSUME a.bidder \in exists PROVE Write(s, SetOwner(s.d, a.item, a.bidder)) \in Mailing
    OBVIOUS
  <2>1. a.bidder \in Chars
    BY DEF TypeOK
  <2>2. SetOwner(s.d, a.item, a.bidder) \in Tables
    BY <1>1, <2>1, MailingFields, SetOwnerFields
  <2> QED BY <2>2, WriteFields
<1>4. \A p \in Mailing, w \in Who : Post(p, w, a.item, 0) \in Mailing
  BY <1>1, PostFields
<1> QED BY <1>1, <1>2, <1>3, <1>4 DEF SendAuctionWonMail, SendAuctionExpiredMail

\* A mailing that becomes the state has its type.
LEMMA CommitType ==
  ASSUME TypeOK, NEW s \in Mailing, Commit(s)
  PROVE  /\ pend' \in Seq(Tables) /\ box' \in [Chars -> SUBSET MailEntry]
         /\ nextMail' \in 1 .. MaxMails + 1
  BY MailingFields, MailAssumption DEF Commit

LEMMA PaysType ==
  ASSUME TypeOK, NEW c \in Chars, NEW a \in Auction, NEW p \in Nat
  PROVE  Pays(c, a, p) \in Copper
<1>1. a.bid \in Nat /\ purse[c] \in Copper
  BY AuctionFields DEF TypeOK
<1>2. -(IF a.bidder = c THEN p - a.bid ELSE p) \in Int
  BY <1>1
<1> QED BY <1>1, <1>2, ModifyMoneyType DEF Pays

LEMMA InHouse ==
  ASSUME TypeOK, NEW a \in auctions
  PROVE  a \in Auction
  BY DEF TypeOK

\* HandleAuctionSellItem, in parts.
NewAuction(c, i, start, buyout) ==
  [id |-> nextAuction, item |-> i, owner |-> c, start |-> start, bid |-> 0,
   bidder |-> Nobody, buyout |-> buyout, deposit |-> Deposit]
Listed(c, i, a) ==
  SaveGold(SaveAuction(DeleteFromInventory(disk, i), a), c, ModifyMoney(purse[c], -Deposit))

LEMMA SellItemIs ==
  ASSUME TypeOK, NEW c \in Chars, NEW i \in Items, NEW b \in StartBids, NEW p \in Buyouts,
         HandleAuctionSellItem(c, i, b, p)
  PROVE  LET a == NewAuction(c, i, b, p)
         IN  /\ a \in Auction /\ a.id = nextAuction /\ a.item = i
             /\ ModifyMoney(purse[c], -Deposit) \in Copper
             /\ pend = <<>> /\ On(c) /\ i \in bag[c] /\ nextAuction <= MaxAuctions
             /\ auctions' = auctions \cup {a} /\ nextAuction' = nextAuction + 1
             /\ purse' = [purse EXCEPT ![c] = ModifyMoney(purse[c], -Deposit)]
             /\ bag' = [bag EXCEPT ![c] = @ \ {i}]
             /\ pend' = <<Listed(c, i, a)>> /\ Listed(c, i, a) \in Tables
             /\ UNCHANGED <<disk, charVars, box, nextMail, queryVars>>
<1> DEFINE a == NewAuction(c, i, b, p)
<1>1. a \in Auction /\ a.id = nextAuction /\ a.item = i
  <2>1. nextAuction \in 1 .. MaxAuctions /\ b \in Nat /\ p \in Nat /\ Deposit \in Nat
    BY AuctionAssumption DEF TypeOK, HandleAuctionSellItem
  <2> QED BY <2>1 DEF NewAuction, Auction
<1>2. ModifyMoney(purse[c], -Deposit) \in Copper
  <2>1. -Deposit \in Int /\ purse[c] \in Copper
    BY AuctionAssumption DEF TypeOK
  <2> QED BY <2>1, ModifyMoneyType
<1>3. pend' = <<Listed(c, i, a)>> /\ auctions' = auctions \cup {a}
  BY Zenon DEF HandleAuctionSellItem, NewAuction, Listed
<1>4. Listed(c, i, a) \in Tables
  <2>1. DeleteFromInventory(disk, i) \in Tables
    BY DeleteFromInventoryFields DEF TypeOK
  <2>2. SaveAuction(DeleteFromInventory(disk, i), a) \in Tables
    BY <1>1, <2>1, DeleteAuctionFields
  <2> QED BY <1>2, <2>2, SaveGoldFields DEF Listed
<1> HIDE DEF a
<1>5. /\ pend = <<>> /\ On(c) /\ i \in bag[c] /\ nextAuction <= MaxAuctions
      /\ nextAuction' = nextAuction + 1
      /\ purse' = [purse EXCEPT ![c] = ModifyMoney(purse[c], -Deposit)]
      /\ bag' = [bag EXCEPT ![c] = @ \ {i}]
      /\ UNCHANGED <<disk, charVars, box, nextMail, queryVars>>
  BY DEF HandleAuctionSellItem, Idle
<1> QED BY <1>1, <1>2, <1>3, <1>4, <1>5 DEF a

LEMMA SellItemType ==
  ASSUME TypeOK, NEW c \in Chars, NEW i \in Items, NEW b \in StartBids, NEW p \in Buyouts,
         HandleAuctionSellItem(c, i, b, p)
  PROVE  TypeOK'
<1> DEFINE a == NewAuction(c, i, b, p)
<1>1. /\ a \in Auction /\ ModifyMoney(purse[c], -Deposit) \in Copper
      /\ nextAuction <= MaxAuctions
      /\ auctions' = auctions \cup {a} /\ nextAuction' = nextAuction + 1
      /\ purse' = [purse EXCEPT ![c] = ModifyMoney(purse[c], -Deposit)]
      /\ bag' = [bag EXCEPT ![c] = @ \ {i}]
      /\ pend' = <<Listed(c, i, a)>> /\ Listed(c, i, a) \in Tables
      /\ UNCHANGED <<disk, charVars, box, nextMail, queryVars>>
  BY SellItemIs
<1> HIDE DEF a
<1>2. pend' \in Seq(Tables)
  BY <1>1
<1>3. auctions' \subseteq Auction
  BY <1>1 DEF TypeOK
<1>4. nextAuction' \in 1 .. MaxAuctions + 1
  BY <1>1, AuctionAssumption DEF TypeOK
<1>5. purse' \in [Chars -> Copper] /\ bag' \in [Chars -> SUBSET Items]
  BY <1>1 DEF TypeOK
<1> QED BY <1>1, <1>2, <1>3, <1>4, <1>5 DEF TypeOK, charVars, queryVars

\* The mailings of the handlers, before the gold is saved.
BidMails(c, a, next) == LET s == Outbid(Start, c, a) IN Write(s, SaveAuction(s.d, next))
BuyMails(c, a, sold) ==
  LET s == SendAuctionWonMail(SendAuctionSuccessfulMail(Outbid(Start, c, a), sold), sold)
  IN  Write(s, DeleteAuction(s.d, a))
RemoveMails(c, a) == Post(Refund(Start, a), c, a.item, 0)

LEMMA BidIs ==
  ASSUME TypeOK, NEW c \in Chars, NEW a \in auctions, NEW p \in Nat, Bid(c, a, p)
  PROVE  LET next == [a EXCEPT !.bidder = c, !.bid = p]
             s    == BidMails(c, a, next)
         IN  /\ pend = <<>> /\ On(c) /\ s \in Mailing /\ next \in Auction /\ Pays(c, a, p) \in Copper
             /\ auctions' = (auctions \ {a}) \cup {next}
             /\ purse' = [purse EXCEPT ![c] = Pays(c, a, p)]
             /\ Commit(Write(s, SaveGold(s.d, c, Pays(c, a, p))))
             /\ UNCHANGED <<disk, charVars, bag, queryVars, nextAuction>>
<1> DEFINE next == [a EXCEPT !.bidder = c, !.bid = p]
           o == Outbid(Start, c, a)
           s == BidMails(c, a, next)
<1>1. a \in Auction
  BY InHouse
<1>2. next \in Auction /\ Pays(c, a, p) \in Copper
  BY <1>1, AuctionFields, PaysType
<1>3. /\ auctions' = (auctions \ {a}) \cup {next}
      /\ Commit(Write(Write(o, SaveAuction(o.d, next)), SaveGold(SaveAuction(o.d, next), c, Pays(c, a, p))))
  BY Zenon DEF Bid
<1>4. /\ pend = <<>> /\ On(c) /\ purse' = [purse EXCEPT ![c] = Pays(c, a, p)]
      /\ UNCHANGED <<disk, charVars, bag, queryVars, nextAuction>>
  BY DEF Bid, MayBid, Idle
<1> HIDE DEF next
<1>5. o \in Mailing
  BY <1>1, StartFields, RefundType
<1>6. s = Write(o, SaveAuction(o.d, next))
  BY Zenon DEF BidMails
<1> HIDE DEF o, s
<1>7. o.d \in Tables
  BY <1>5, MailingFields
<1>8. SaveAuction(o.d, next) \in Tables
  BY <1>2, <1>7, DeleteAuctionFields
<1>9. s \in Mailing /\ s.d = SaveAuction(o.d, next)
  BY <1>5, <1>6, <1>8, WriteFields
<1> QED BY <1>2, <1>3, <1>4, <1>6, <1>9 DEF next, s

LEMMA SavedType ==
  ASSUME TypeOK, NEW c \in Chars, NEW s \in Mailing, NEW g \in Copper,
         Commit(Write(s, SaveGold(s.d, c, g)))
  PROVE  /\ pend' \in Seq(Tables) /\ box' \in [Chars -> SUBSET MailEntry]
         /\ nextMail' \in 1 .. MaxMails + 1
<1>1. SaveGold(s.d, c, g) \in Tables
  BY MailingFields, SaveGoldFields
<1>2. Write(s, SaveGold(s.d, c, g)) \in Mailing
  BY <1>1, WriteFields
<1> QED BY <1>2, CommitType

LEMMA BidType ==
  ASSUME TypeOK, NEW c \in Chars, NEW a \in auctions, NEW p \in Nat, Bid(c, a, p)
  PROVE  TypeOK'
<1> DEFINE next == [a EXCEPT !.bidder = c, !.bid = p]
           s == BidMails(c, a, next)
<1>1. /\ s \in Mailing /\ next \in Auction /\ Pays(c, a, p) \in Copper
      /\ auctions' = (auctions \ {a}) \cup {next}
      /\ purse' = [purse EXCEPT ![c] = Pays(c, a, p)]
      /\ Commit(Write(s, SaveGold(s.d, c, Pays(c, a, p))))
      /\ UNCHANGED <<disk, charVars, bag, queryVars, nextAuction>>
  BY BidIs
<1> HIDE DEF next, s
<1>2. /\ pend' \in Seq(Tables) /\ box' \in [Chars -> SUBSET MailEntry]
      /\ nextMail' \in 1 .. MaxMails + 1
  BY <1>1, SavedType
<1>3. auctions' \subseteq Auction /\ purse' \in [Chars -> Copper]
  BY <1>1 DEF TypeOK
<1> QED BY <1>1, <1>2, <1>3 DEF TypeOK, charVars, queryVars

LEMMA BuyoutIs ==
  ASSUME TypeOK, NEW c \in Chars, NEW a \in auctions, NEW p \in Nat, Buyout(c, a, p)
  PROVE  LET sold == [a EXCEPT !.bidder = c, !.bid = a.buyout]
             s    == BuyMails(c, a, sold)
         IN  /\ pend = <<>> /\ On(c) /\ s \in Mailing /\ sold \in Auction
             /\ Pays(c, a, a.buyout) \in Copper /\ a.buyout # 0
             /\ auctions' = auctions \ {a}
             /\ purse' = [purse EXCEPT ![c] = Pays(c, a, a.buyout)]
             /\ Commit(Write(s, SaveGold(s.d, c, Pays(c, a, a.buyout))))
             /\ UNCHANGED <<disk, charVars, bag, queryVars, nextAuction>>
<1> DEFINE sold == [a EXCEPT !.bidder = c, !.bid = a.buyout]
           o == SendAuctionWonMail(SendAuctionSuccessfulMail(Outbid(Start, c, a), sold), sold)
           s == BuyMails(c, a, sold)
<1>1. a \in Auction /\ a.buyout \in Nat
  BY InHouse, AuctionFields
<1>2. sold \in Auction /\ Pays(c, a, a.buyout) \in Copper
  BY <1>1, AuctionFields, PaysType
<1>3. s = Write(o, DeleteAuction(o.d, a))
  BY Zenon DEF BuyMails
<1>4. Commit(Write(s, SaveGold(s.d, c, Pays(c, a, a.buyout))))
  BY Zenon DEF Buyout, BuyMails
<1>5. /\ pend = <<>> /\ On(c) /\ purse' = [purse EXCEPT ![c] = Pays(c, a, a.buyout)]
      /\ a.buyout # 0 /\ auctions' = auctions \ {a}
      /\ UNCHANGED <<disk, charVars, bag, queryVars, nextAuction>>
  BY DEF Buyout, MayBid, Idle
<1> HIDE DEF sold
<1>6. o \in Mailing
  <2>1. Outbid(Start, c, a) \in Mailing
    BY <1>1, StartFields, RefundType
  <2>2. SendAuctionSuccessfulMail(Outbid(Start, c, a), sold) \in Mailing
    BY <1>2, <2>1, SuccessType
  <2> QED BY <1>2, <2>2, WonType
<1> HIDE DEF o, s
<1>7. DeleteAuction(o.d, a) \in Tables
  BY <1>1, <1>6, MailingFields, DeleteAuctionFields
<1>8. s \in Mailing
  BY <1>3, <1>6, <1>7, WriteFields
<1> QED BY <1>2, <1>4, <1>5, <1>8 DEF sold, s

LEMMA BuyoutType ==
  ASSUME TypeOK, NEW c \in Chars, NEW a \in auctions, NEW p \in Nat, Buyout(c, a, p)
  PROVE  TypeOK'
<1> DEFINE sold == [a EXCEPT !.bidder = c, !.bid = a.buyout]
           s == BuyMails(c, a, sold)
<1>1. /\ s \in Mailing /\ Pays(c, a, a.buyout) \in Copper
      /\ auctions' = auctions \ {a}
      /\ purse' = [purse EXCEPT ![c] = Pays(c, a, a.buyout)]
      /\ Commit(Write(s, SaveGold(s.d, c, Pays(c, a, a.buyout))))
      /\ UNCHANGED <<disk, charVars, bag, queryVars, nextAuction>>
  BY BuyoutIs
<1> HIDE DEF s
<1>2. /\ pend' \in Seq(Tables) /\ box' \in [Chars -> SUBSET MailEntry]
      /\ nextMail' \in 1 .. MaxMails + 1
  BY <1>1, SavedType
<1>3. auctions' \subseteq Auction /\ purse' \in [Chars -> Copper]
  BY <1>1 DEF TypeOK
<1> QED BY <1>1, <1>2, <1>3 DEF TypeOK, charVars, queryVars

\* What the owner pays to take his auction back.
RemoveLeft(c, a) == ModifyMoney(purse[c], -(IF a.bidder = Nobody THEN 0 ELSE Cut(a)))

LEMMA RemoveItemIs ==
  ASSUME TypeOK, NEW c \in Chars, NEW a \in auctions, HandleAuctionRemoveItem(c, a)
  PROVE  LET s == RemoveMails(c, a)
             g == RemoveLeft(c, a)
         IN  /\ pend = <<>> /\ On(c) /\ a.owner = c /\ s \in Mailing /\ g \in Copper
             /\ SaveGold(DeleteAuction(s.d, a), c, g) \in Tables
             /\ auctions' = auctions \ {a}
             /\ purse' = [purse EXCEPT ![c] = g]
             /\ Commit(Write(s, SaveGold(DeleteAuction(s.d, a), c, g)))
             /\ UNCHANGED <<disk, charVars, bag, queryVars, nextAuction>>
<1> DEFINE s == RemoveMails(c, a)
           g == RemoveLeft(c, a)
<1>1. a \in Auction /\ a.item \in Items /\ c \in Who /\ 0 \in Nat
  BY InHouse, AuctionFields DEF Who
<1>2. Commit(Write(s, SaveGold(DeleteAuction(s.d, a), c, g)))
  BY Zenon DEF HandleAuctionRemoveItem, RemoveMails, RemoveLeft
<1>3. /\ pend = <<>> /\ On(c) /\ a.owner = c /\ auctions' = auctions \ {a}
      /\ purse' = [purse EXCEPT ![c] = g]
      /\ UNCHANGED <<disk, charVars, bag, queryVars, nextAuction>>
  BY DEF HandleAuctionRemoveItem, RemoveLeft, Idle
<1>4. s \in Mailing
  <2>1. Refund(Start, a) \in Mailing
    BY <1>1, StartFields, RefundType
  <2> QED BY <1>1, <2>1, PostFields DEF RemoveMails
<1>5. g \in Copper
  <2>1. -(IF a.bidder = Nobody THEN 0 ELSE Cut(a)) \in Int /\ purse[c] \in Copper
    BY <1>1, ProfitType DEF TypeOK
  <2> QED BY <2>1, ModifyMoneyType DEF RemoveLeft
<1> HIDE DEF s, g
<1>6. DeleteAuction(s.d, a) \in Tables
  BY <1>1, <1>4, MailingFields, DeleteAuctionFields
<1>7. SaveGold(DeleteAuction(s.d, a), c, g) \in Tables
  BY <1>5, <1>6, SaveGoldFields
<1> QED BY <1>2, <1>3, <1>4, <1>5, <1>7 DEF s, g

LEMMA RemoveItemType ==
  ASSUME TypeOK, NEW c \in Chars, NEW a \in auctions, HandleAuctionRemoveItem(c, a)
  PROVE  TypeOK'
<1> DEFINE s == RemoveMails(c, a)
           g == RemoveLeft(c, a)
           d == SaveGold(DeleteAuction(s.d, a), c, g)
<1>1. /\ s \in Mailing /\ g \in Copper /\ d \in Tables
      /\ auctions' = auctions \ {a} /\ purse' = [purse EXCEPT ![c] = g]
      /\ Commit(Write(s, d)) /\ UNCHANGED <<disk, charVars, bag, queryVars, nextAuction>>
  BY RemoveItemIs
<1> HIDE DEF s, g, d
<1>2. Write(s, d) \in Mailing
  BY <1>1, WriteFields
<1>3. /\ pend' \in Seq(Tables) /\ box' \in [Chars -> SUBSET MailEntry]
      /\ nextMail' \in 1 .. MaxMails + 1
  BY <1>1, <1>2, CommitType
<1>4. auctions' \subseteq Auction /\ purse' \in [Chars -> Copper]
  BY <1>1 DEF TypeOK
<1> QED BY <1>1, <1>3, <1>4 DEF TypeOK, charVars, queryVars

LEMMA UpdateIs ==
  ASSUME TypeOK, NEW a \in auctions, Update(a)
  PROVE  /\ pend = <<>> /\ Settle(a) \in Mailing /\ DeleteAuction(Settle(a).d, a) \in Tables
         /\ auctions' = auctions \ {a}
         /\ Commit(Write(Settle(a), DeleteAuction(Settle(a).d, a)))
         /\ UNCHANGED <<disk, charVars, purse, bag, queryVars, nextAuction>>
<1>1. a \in Auction /\ Start \in Mailing
  BY InHouse, StartFields
<1>2. Settle(a) \in Mailing
  BY <1>1, SuccessType, WonType DEF Settle
<1>3. DeleteAuction(Settle(a).d, a) \in Tables
  BY <1>1, <1>2, MailingFields, DeleteAuctionFields
<1> QED BY <1>2, <1>3 DEF Update, Idle

LEMMA UpdateType ==
  ASSUME TypeOK, NEW a \in auctions, Update(a)
  PROVE  TypeOK'
<1>1. Write(Settle(a), DeleteAuction(Settle(a).d, a)) \in Mailing
  BY UpdateIs, WriteFields
<1>2. /\ pend' \in Seq(Tables) /\ box' \in [Chars -> SUBSET MailEntry]
      /\ nextMail' \in 1 .. MaxMails + 1
  BY <1>1, UpdateIs, CommitType
<1>3. auctions' \subseteq Auction
  BY UpdateIs DEF TypeOK
<1> QED BY <1>2, <1>3, UpdateIs DEF TypeOK, charVars, queryVars

\* Restart, in parts.
Online == {c \in Chars : On(c)}
Final == IF SaveBoxes(Online) = <<>> THEN disk ELSE SaveBoxes(Online)[Len(SaveBoxes(Online))]
Surviving == {a \in Final.auctions : Final.inst[a.item] # Nobody}
Reloaded == [Final EXCEPT !.auctions = Surviving]

LEMMA RestartIs ==
  ASSUME Restart
  PROVE  /\ pend = <<>> /\ queries = <<>> /\ Leave(Online) /\ auctions' = Surviving
         /\ pend' = IF Surviving = Final.auctions THEN SaveBoxes(Online)
                    ELSE Append(SaveBoxes(Online), Reloaded)
         /\ UNCHANGED <<disk, exists, nextMail, queryVars, nextAuction>>
  BY Zenon DEF Restart, Idle, Online, Final, Surviving, Reloaded

LEMMA ReloadedFields ==
  ASSUME disk \in Tables
  PROVE  /\ Final \in Tables /\ Surviving \subseteq Final.auctions /\ Surviving \in SUBSET Auction
         /\ Reloaded \in Tables /\ Reloaded.inv = Final.inv /\ Reloaded.inst = Final.inst
         /\ Reloaded.mails = Final.mails /\ Reloaded.mitems = Final.mitems
         /\ Reloaded.auctions = Surviving
<1>1. Final \in Tables
  BY SaveBoxesType, SeqFacts DEF Final
<1>2. Surviving \subseteq Final.auctions /\ Surviving \in SUBSET Auction
  BY <1>1, TablesFields DEF Surviving
<1>3. /\ Reloaded \in Tables /\ Reloaded.inv = Final.inv /\ Reloaded.inst = Final.inst
      /\ Reloaded.mails = Final.mails /\ Reloaded.mitems = Final.mitems
      /\ Reloaded.auctions = Surviving
  BY <1>1, <1>2 DEF Reloaded, Tables
<1> QED BY <1>1, <1>2, <1>3

LEMMA RestartType ==
  ASSUME TypeOK, Restart
  PROVE  TypeOK'
<1>1. disk \in Tables
  BY DEF TypeOK
<1>2. /\ phase' \in [Chars -> {"off", "loading", "on"}] /\ purse' \in [Chars -> Copper]
      /\ bag' \in [Chars -> SUBSET Items] /\ box' \in [Chars -> SUBSET MailEntry]
  BY RestartIs, LeaveType
<1>3. pend' \in Seq(Tables)
  <2>1. SaveBoxes(Online) \in Seq(Tables)
    BY <1>1, SaveBoxesType
  <2>2. Append(SaveBoxes(Online), Reloaded) \in Seq(Tables)
    BY <1>1, <2>1, ReloadedFields, SeqFacts
  <2> QED BY <2>1, <2>2, RestartIs
<1>4. auctions' \subseteq Auction
  BY <1>1, RestartIs, ReloadedFields
<1> QED BY <1>2, <1>3, <1>4, RestartIs DEF TypeOK, queryVars

LEMMA TypeStep ==
  ASSUME TypeOK, [Next]_vars
  PROVE  TypeOK'
<1>1. CASE MailStep /\ UNCHANGED aucVars
  BY <1>1, ExecuteType, LoginStartType, LogoutType, DeleteFromDBType, TakeItemType, TakeMoneyType,
     MailDeleteType, ReturnToSenderType, SendMailType, LoginDoneType, SendCallbackType,
     OldMailsReturnerType, SingleMailReturnerType, OldFoundType
     DEF MailStep
<1>2. ASSUME NEW c \in Chars, NEW i \in Items, NEW b \in StartBids, NEW p \in Buyouts,
             HandleAuctionSellItem(c, i, b, p)
      PROVE  TypeOK'
  BY <1>2, SellItemType
<1>3. ASSUME NEW a \in auctions, NEW c \in Chars, NEW p \in StartBids \cup Buyouts,
             Bid(c, a, p) \/ Buyout(c, a, p)
      PROVE  TypeOK'
  <2>1. p \in Nat
    BY AuctionAssumption
  <2> QED BY <1>3, <2>1, BidType, BuyoutType
<1>4. ASSUME NEW a \in auctions, NEW c \in Chars, HandleAuctionRemoveItem(c, a) PROVE TypeOK'
  BY <1>4, RemoveItemType
<1>5. ASSUME NEW a \in auctions, Update(a) PROVE TypeOK'
  BY <1>5, UpdateType
<1>6. CASE Restart
  BY <1>6, RestartType
<1>7. CASE UNCHANGED vars
  BY <1>7 DEF TypeOK, vars, mailVars, aucVars, charVars, memVars, queryVars
<1> QED BY <1>1, <1>2, <1>3, <1>4, <1>5, <1>6, <1>7 DEF Next

\* The variables have their types, whatever the constants: gold stays within
\* its bounds in memory, in the tables and in every queued transaction, with
\* every lookup overtaken or none.
THEOREM TypeCorrect == Spec => []TypeOK
<1>1. AInit => TypeOK
  BY InitType
<1>2. TypeOK /\ [Next]_vars => TypeOK'
  BY TypeStep
<1> QED BY <1>1, <1>2, PTL DEF Spec

=============================================================================
