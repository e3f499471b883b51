-------------------------------- MODULE Mail --------------------------------
(***************************************************************************)
(* Mail between characters (MailHandler.cpp, Mail.cpp, MasterPlayer.cpp),  *)
(* the return of old mail (ObjectMgr.cpp) and the deletion of characters   *)
(* (Player.cpp), with the login query that reads a mailbox.                *)
(*                                                                         *)
(* A handler changes the memory of the server in one step and queues its   *)
(* writes; pend holds the contents of the character database after each of *)
(* the queued transactions, the states a crash could leave.  The queue is  *)
(* first in, first out, so a query reads what was queued before it;        *)
(* handlers start when the queue is drained, which changes neither the     *)
(* tables that are reached nor what a query reads.  The callbacks of the   *)
(* queries run in the order in which they were asked.                      *)
(*                                                                         *)
(* Time is left out: a mail may be delivered, and may expire, at any       *)
(* moment.  Texts, the mail cap and refusals that change nothing are too.  *)
(***************************************************************************)
EXTENDS Integers, Sequences, FiniteSets

CONSTANTS
  Chars, Items, Nobody,
  Sums, Cods,          \* what a player puts in a mail, or asks on delivery
  StartGold, StartBag, \* the gold of every character, the items of each
  Postage,             \* 30 copper
  MaxMoney,            \* MAX_MONEY_AMOUNT
  Writers,             \* bound: who writes mails
  Restless,            \* bound: who logs out of his own accord
  Doomed,              \* bound: who may be deleted
  MaxMails,            \* bound: mails created in a behaviour
  MaxQueries,          \* bound: queries of players under way
  MaxOld,              \* bound: mails found expired in a behaviour
  SlowLookup           \* the lookup of an old mail's item may be overtaken: by a
                       \* login, logout or deletion of the receiver, or by the
                       \* next search for old mails

ASSUME MailAssumption ==
  /\ Nobody \notin Chars \cup Items
  /\ Sums \subseteq Nat /\ Cods \subseteq Nat /\ StartGold \in Nat /\ StartBag \in [Items -> Chars]
  /\ Postage \in Nat /\ MaxMoney \in Nat /\ StartGold <= MaxMoney
  /\ Writers \subseteq Chars /\ Restless \subseteq Chars /\ Doomed \subseteq Chars
  /\ MaxMails \in Nat /\ MaxQueries \in Nat /\ MaxOld \in Nat
  /\ SlowLookup \in BOOLEAN

VARIABLES
  disk,      \* tables characters, character_inventory, item_instance, mail,
             \* mail_items and auction
  pend,      \* the tables after each queued transaction
  exists,    \* characters in the player cache
  phase,     \* off, loading (login query under way) or on (MasterPlayer exists)
  purse, bag, box,   \* GetMoney(), the inventory and m_mail of those online
  nextMail,  \* GenerateMailID
  queries,   \* queries whose callback has not run, with what they read
  olds       \* how many expired mails were found so far

memVars  == <<purse, bag, box>>
charVars == <<exists, phase>>
queryVars == <<queries, olds>>
mailVars == <<disk, pend, charVars, memVars, nextMail, queryVars>>

Init ==
  /\ disk = [gold |-> [c \in Chars |-> StartGold], inv |-> StartBag, inst |-> StartBag,
             mails |-> {}, mitems |-> {}, auctions |-> {}]
  /\ pend = <<>> /\ exists = Chars
  /\ phase = [c \in Chars |-> "off"]
  /\ purse = [c \in Chars |-> 0] /\ bag = [c \in Chars |-> {}] /\ box = [c \in Chars |-> {}]
  /\ nextMail = 1 /\ queries = <<>> /\ olds = 0

Idle  == pend = <<>>
On(c) == phase[c] = "on"

\* A player's query is queued; the callback at the head runs.
OfPlayer(q) == q.kind \in {"login", "send"}
Ask(q) == Len(SelectSeq(queries, OfPlayer)) < MaxQueries /\ queries' = Append(queries, q)
Answered(kind) == Idle /\ queries # <<>> /\ Head(queries).kind = kind

\* The worker of the database drains the queue.
Execute ==
  /\ pend # <<>>
  /\ disk' = pend[Len(pend)] /\ pend' = <<>>
  /\ UNCHANGED <<charVars, memVars, nextMail, queryVars>>

-----------------------------------------------------------------------------
(* The statements, as functions of the tables. *)

SaveGold(d, c, g) == [d EXCEPT !.gold = [@ EXCEPT ![c] = g]]

\* DeleteFromInventoryDB, and UPDATE item_instance SET owner_guid, which
\* finds no row when the item was deleted.
DeleteFromInventory(d, i) == [d EXCEPT !.inv = [@ EXCEPT ![i] = Nobody]]
SetOwner(d, i, c) ==
  [d EXCEPT !.inst = [x \in Items |-> IF x = i /\ @[i] # Nobody THEN c ELSE @[x]]]
DeleteItem(d, i) == [d EXCEPT !.inst = [@ EXCEPT ![i] = Nobody]]

\* SaveInventoryAndGoldToDB of a character with a new item.
SaveItem(d, c, i) == [d EXCEPT !.inv = [@ EXCEPT ![i] = c], !.inst = [@ EXCEPT ![i] = c]]

DeleteMails(d, ids) ==
  [d EXCEPT !.mails = {r \in @ : r.id \notin ids}, !.mitems = {x \in @ : x.mail \notin ids}]

\* The item in a mail of the box, or Nobody.
ItemsIn(mails) == {m.item : m \in mails} \ {Nobody}

\* MasterPlayer::SaveMails: the mail m was changed and its items taken; the
\* deleted mails of the box b go with their items.
SaveMails(d, b, m, taken) ==
  LET gone == {x \in b : x.deleted}
      kept == DeleteMails(d, {x.id : x \in gone})
  IN  [kept EXCEPT
        !.mails  = {IF r.id = m.id
                    THEN [r EXCEPT !.money = m.money, !.cod = m.cod, !.has = m.item # Nobody]
                    ELSE r : r \in @},
        !.mitems = {x \in @ : x.item \notin taken},
        !.inst   = [i \in Items |-> IF i \in ItemsIn(gone) THEN Nobody ELSE @[i]]]

\* A draft: a player's mail or one of the auction house (no player as sender),
\* cash on delivery, and the marks RETURNED or COD_PAYMENT.
Draft(from, to, item, money, cod, back) ==
  [from |-> from, to |-> to, item |-> item, money |-> money, cod |-> cod, back |-> back]

\* MailDraft::SendMailTo: the rows, and the mail in the memory of a receiver
\* who is online.
InsertMail(d, id, t) ==
  [d EXCEPT
    !.mails  = @ \cup {[id |-> id, sender |-> t.from, receiver |-> t.to, money |-> t.money,
                        cod |-> t.cod, back |-> t.back, has |-> t.item # Nobody]},
    !.mitems = IF t.item = Nobody THEN @
               ELSE @ \cup {[mail |-> id, item |-> t.item, receiver |-> t.to]}]

AddMail(boxes, id, t) ==
  [c \in Chars |->
    IF c = t.to /\ On(c)
    THEN boxes[c] \cup {[id |-> id, sender |-> t.from, money |-> t.money, cod |-> t.cod,
                         back |-> t.back, item |-> t.item, deleted |-> FALSE]}
    ELSE boxes[c]]

\* Faulty variant: no upper bound.
ModifyMoneyNoCap(g, d) == IF g + d < 0 THEN 0 ELSE g + d

\* ModifyMoney stops at 0 and at MAX_MONEY_AMOUNT.
ModifyMoney(g, d) ==
  IF g + d < 0 THEN 0 ELSE IF g + d > MaxMoney THEN MaxMoney ELSE g + d

-----------------------------------------------------------------------------
(* Login and logout. *)

\* The item LoadMailedItems adds to the mail r of its receiver.
MailedItem(r) ==
  LET found == {x \in disk.mitems : /\ x.mail = r.id /\ x.receiver = r.receiver
                                    /\ disk.inst[x.item] # Nobody}
  IN  IF found = {} THEN Nobody ELSE (CHOOSE x \in found : TRUE).item

\* The rows the login query reads.
Loaded(c) ==
  [gold |-> disk.gold[c],
   bag  |-> {i \in Items : disk.inv[i] = c /\ disk.inst[i] # Nobody},
   box  |-> {[id |-> r.id, sender |-> r.sender, money |-> r.money, cod |-> r.cod,
              back |-> r.back, deleted |-> FALSE, item |-> MailedItem(r)] :
             r \in {x \in disk.mails : x.receiver = c}}]

\* The item of an old mail to c is looked up.
LookedUp(c) ==
  \E k \in 1 .. Len(queries) : queries[k].kind = "single" /\ queries[k].row.receiver = c

\* The mail r was found expired and is not settled yet.
Found(r) ==
  \E k \in 1 .. Len(queries) : queries[k].kind \in {"old", "single"} /\ queries[k].row.id = r.id

\* HandlePlayerLoginOpcode queues the query.
LoginStart(c) ==
  /\ Idle /\ c \in exists /\ phase[c] = "off"
  /\ SlowLookup \/ ~LookedUp(c)
  /\ phase' = [phase EXCEPT ![c] = "loading"]
  /\ Ask([kind |-> "login", char |-> c, rows |-> Loaded(c)])
  /\ UNCHANGED <<disk, pend, exists, memVars, nextMail, olds>>

\* HandlePlayerLogin, the callback.
LoginDone ==
  LET q == Head(queries) IN
  /\ Answered("login") /\ queries' = Tail(queries)
  /\ phase' = [phase EXCEPT ![q.char] = "on"]
  /\ purse' = [purse EXCEPT ![q.char] = q.rows.gold]
  /\ bag' = [bag EXCEPT ![q.char] = q.rows.bag]
  /\ box' = [box EXCEPT ![q.char] = q.rows.box]
  /\ UNCHANGED <<disk, pend, exists, nextMail, olds>>

\* LogoutPlayer of the characters cs: the mailboxes are saved, one statement
\* after the other, and nothing of them stays in memory (gold and items were
\* saved by the handlers that changed them).
SaveBoxes(cs) ==
  LET gone == {m \in UNION {box[c] : c \in cs} : m.deleted}
      ids  == {m.id : m \in gone}
      d1   == [disk EXCEPT !.inst = [i \in Items |-> IF i \in ItemsIn(gone) THEN Nobody ELSE @[i]]]
      d2   == [d1 EXCEPT !.mails = {r \in @ : r.id \notin ids}]
  IN  IF gone = {} THEN <<>> ELSE <<d1, d2, DeleteMails(d2, ids)>>

Leave(cs) ==
  /\ phase' = [c \in Chars |-> IF c \in cs THEN "off" ELSE phase[c]]
  /\ purse' = [c \in Chars |-> IF c \in cs THEN 0 ELSE purse[c]]
  /\ bag' = [c \in Chars |-> IF c \in cs THEN {} ELSE bag[c]]
  /\ box' = [c \in Chars |-> IF c \in cs THEN {} ELSE box[c]]

LogoutPlayer(c) ==
  /\ Idle /\ c \in Restless /\ On(c) /\ (SlowLookup \/ ~LookedUp(c))
  /\ Leave({c}) /\ pend' = SaveBoxes({c})
  /\ UNCHANGED <<disk, exists, nextMail, queryVars>>

-----------------------------------------------------------------------------
(* Sending. *)

\* Faulty variant: the item is not looked for again when the answer comes.
SendableNoCheck(q) == On(q.from) /\ purse[q.from] >= q.money + Postage

\* The checks of HandleSendMailCallback.
Sendable(q) ==
  /\ On(q.from) /\ purse[q.from] >= q.money + Postage
  /\ q.item = Nobody \/ q.item \in bag[q.from]

\* The rest of HandleSendMailCallback: three transactions.
Send(q) ==
  LET paid == ModifyMoney(purse[q.from], -(q.money + Postage))
      d1   == IF q.item = Nobody THEN disk
              ELSE SetOwner(DeleteFromInventory(disk, q.item), q.item, q.to)
      d2   == InsertMail(d1, nextMail, q)
  IN
  /\ purse' = [purse EXCEPT ![q.from] = paid]
  /\ bag' = [bag EXCEPT ![q.from] = @ \ {q.item}]
  /\ box' = AddMail(box, nextMail, q)
  /\ pend' = <<d1, d2, SaveGold(d2, q.from, paid)>>
  /\ nextMail' = nextMail + 1

\* HandleSendMail: an online receiver is served at once, else the number of
\* his mails is queried first.
SendMail(s, r, i, g, cod) ==
  LET q == Draft(s, r, i, g, IF i = Nobody THEN 0 ELSE cod, FALSE) IN
  /\ Idle /\ s \in Writers /\ On(s) /\ s # r /\ r \in exists /\ nextMail <= MaxMails
  /\ i \in bag[s] \cup {Nobody} /\ (i = Nobody => g > 0)
  /\ \/ On(r) /\ Sendable(q) /\ Send(q) /\ UNCHANGED queries
     \/ /\ ~On(r) /\ Ask([kind |-> "send", draft |-> q])
        /\ UNCHANGED <<pend, memVars, nextMail>>
  /\ UNCHANGED <<disk, charVars, olds>>

\* AsyncMailSendRequest::Callback.
SendCallback ==
  LET q == Head(queries).draft IN
  /\ Answered("send") /\ queries' = Tail(queries)
  /\ \/ Sendable(q) /\ nextMail <= MaxMails /\ Send(q)
     \/ ~Sendable(q) /\ UNCHANGED <<pend, memVars, nextMail>>
  /\ UNCHANGED <<disk, charVars, olds>>

-----------------------------------------------------------------------------
(* The mailbox. *)

Readable(c, m) == On(c) /\ m \in box[c] /\ ~m.deleted

\* HandleMailTakeItem.  The payment of a mail with cash on delivery is sent
\* to a sender who still exists; what was bought is saved afterwards.
HandleMailTakeItem(c, m) ==
  LET pays  == m.cod > 0 /\ m.sender \in exists
      t     == Draft(c, m.sender, Nobody, m.cod, 0, TRUE)
      rest  == [m EXCEPT !.item = Nobody, !.cod = 0]
      boxes == [box EXCEPT ![c] = (@ \ {m}) \cup {rest}]
      left  == ModifyMoney(purse[c], -m.cod)
      d1    == IF pays THEN InsertMail(disk, nextMail, t) ELSE disk
      d2    == SaveMails(SaveGold(SaveItem(d1, c, m.item), c, left), boxes[c], rest, {m.item})
  IN
  /\ Idle /\ Readable(c, m) /\ m.item # Nobody /\ purse[c] >= m.cod
  /\ pays => nextMail <= MaxMails
  /\ purse' = [purse EXCEPT ![c] = left]
  /\ bag' = [bag EXCEPT ![c] = @ \cup {m.item}]
  /\ LET kept == [boxes EXCEPT ![c] = {x \in @ : ~x.deleted}]
     IN  box' = IF pays THEN AddMail(kept, nextMail, t) ELSE kept
  /\ pend' = IF pays THEN <<d1, d2>> ELSE <<d2>>
  /\ nextMail' = IF pays THEN nextMail + 1 ELSE nextMail
  /\ UNCHANGED <<disk, charVars, queryVars>>

\* Faulty variant: the mail keeps its money.
TakeMoneyTwice(c, m) ==
  /\ Idle /\ Readable(c, m) /\ m.money > 0
  /\ purse' = [purse EXCEPT ![c] = ModifyMoney(@, m.money)]
  /\ pend' = <<SaveGold(disk, c, purse'[c])>>
  /\ UNCHANGED <<disk, charVars, bag, box, nextMail, queryVars>>

\* HandleMailTakeMoney.
HandleMailTakeMoney(c, m) ==
  LET rest  == [m EXCEPT !.money = 0]
      boxes == [box EXCEPT ![c] = (@ \ {m}) \cup {rest}]
      gold  == ModifyMoney(purse[c], m.money)
  IN
  /\ Idle /\ Readable(c, m) /\ m.money > 0
  /\ purse' = [purse EXCEPT ![c] = gold]
  /\ box' = [boxes EXCEPT ![c] = {x \in @ : ~x.deleted}]
  /\ pend' = <<SaveMails(SaveGold(disk, c, gold), boxes[c], rest, {})>>
  /\ UNCHANGED <<disk, charVars, bag, nextMail, queryVars>>

\* HandleMailDelete marks the mail; it is saved later.
HandleMailDelete(c, m) ==
  /\ Idle /\ Readable(c, m) /\ m.cod = 0
  /\ box' = [box EXCEPT ![c] = (@ \ {m}) \cup {[m EXCEPT !.deleted = TRUE]}]
  /\ UNCHANGED <<disk, pend, charVars, purse, bag, nextMail, queryVars>>

\* SendReturnToSender: the transactions after d, the id of the new mail being
\* id; nothing but the deletion of the item when the sender is gone.
SendReturnToSender(d, id, t) ==
  LET owned == IF t.item = Nobody THEN d ELSE SetOwner(d, t.item, t.to)
  IN  IF t.to \in exists THEN <<owned, InsertMail(owned, id, t)>>
      ELSE IF t.item = Nobody THEN <<>> ELSE <<DeleteItem(d, t.item)>>

\* HandleMailReturnToSender.
HandleMailReturnToSender(c, m) ==
  LET t  == Draft(c, m.sender, m.item, m.money, 0, TRUE)
      d1 == DeleteMails(disk, {m.id})
      kept == [box EXCEPT ![c] = @ \ {m}]
  IN
  /\ Idle /\ Readable(c, m) /\ nextMail <= MaxMails
  /\ IF m.sender = Nobody
     THEN /\ pend' = <<d1>> /\ box' = kept
          /\ UNCHANGED nextMail
     ELSE /\ pend' = <<d1>> \o SendReturnToSender(d1, nextMail, t)
          /\ box' = IF m.sender \in exists THEN AddMail(kept, nextMail, t) ELSE kept
          /\ nextMail' = IF m.sender \in exists THEN nextMail + 1 ELSE nextMail
  /\ UNCHANGED <<disk, charVars, purse, bag, queryVars>>

-----------------------------------------------------------------------------
(* Old mail, found by a thread of its own and returned by two callbacks. *)

\* ReturnOrDeleteOldMails: the query finds the expired mail r.
ReturnOrDeleteOldMails(r) ==
  /\ Idle /\ olds < MaxOld /\ (SlowLookup \/ ~Found(r))
  /\ queries' = Append(queries, [kind |-> "old", row |-> r]) /\ olds' = olds + 1
  /\ UNCHANGED <<disk, pend, charVars, memVars, nextMail>>

\* OldMailsReturner::Callback: the mails of those online wait; a mail without
\* item is deleted; the item of the others is looked up.
OldMailsReturner ==
  LET row   == Head(queries).row
      found == {x \in disk.mitems : x.mail = row.id}
      item  == IF found = {} THEN Nobody ELSE (CHOOSE x \in found : TRUE).item
  IN
  /\ Answered("old")
  /\ \/ On(row.receiver) /\ queries' = Tail(queries) /\ UNCHANGED pend
     \/ /\ ~On(row.receiver) /\ row.has
        /\ queries' = Append(Tail(queries), [kind |-> "single", row |-> row, item |-> item])
        /\ UNCHANGED pend
     \/ /\ ~On(row.receiver) /\ ~row.has
        /\ queries' = Tail(queries)
        /\ pend' = <<[disk EXCEPT !.mails = {r \in @ : r.id # row.id}]>>
  /\ UNCHANGED <<disk, charVars, memVars, nextMail, olds>>

\* The statements that delete an old mail and its item.
DeleteOld(o) ==
  LET d1 == DeleteItem(disk, o.item)
      d2 == [d1 EXCEPT !.mitems = {x \in @ : x.mail # o.row.id}]
      Rest(d) == [d EXCEPT !.mails = {r \in @ : r.id # o.row.id}]
  IN  IF o.item = Nobody THEN <<Rest(disk)>> ELSE <<d1, d2, Rest(d2)>>

\* The statements that return it.
ReturnOld(o) ==
  LET d1 == [disk EXCEPT !.mails =
              {IF r.id = o.row.id
               THEN [r EXCEPT !.sender = o.row.receiver, !.receiver = o.row.sender,
                              !.cod = 0, !.back = TRUE]
               ELSE r : r \in @}]
      d2 == [d1 EXCEPT !.mitems =
              {IF x.item = o.item THEN [x EXCEPT !.receiver = o.row.sender] ELSE x : x \in @}]
  IN  IF o.item = Nobody THEN <<d1>> ELSE <<d1, d2, SetOwner(d2, o.item, o.row.sender)>>

\* SingleMailReturner::Callback: a mail that is not from a player, or was
\* returned already, is deleted; those online are left alone.
SingleMailReturner ==
  LET o == Head(queries) IN
  /\ Answered("single") /\ queries' = Tail(queries)
  /\ \/ On(o.row.receiver) /\ UNCHANGED pend
     \/ /\ ~On(o.row.receiver)
        /\ pend' = IF o.row.sender = Nobody \/ o.row.back THEN DeleteOld(o) ELSE ReturnOld(o)
  /\ UNCHANGED <<disk, charVars, memVars, nextMail, olds>>

-----------------------------------------------------------------------------
(* Deletion of a character that is not loaded (CharDelete.Method 0). *)

\* Mails with an item and cash on delivery go back to their sender, all else
\* the character owns is deleted.
DeleteFromDB(c) ==
  LET cods == {r \in disk.mails : r.receiver = c /\ r.has /\ r.cod > 0}
      r    == CHOOSE x \in cods : TRUE
      t    == Draft(c, r.sender, MailedItem(r), r.money, 0, TRUE)
      d0   == [disk EXCEPT !.mails = @ \ cods]
      d1   == DeleteMails(d0, {x.id : x \in cods})
      back == IF cods = {} THEN <<>> ELSE <<d0, d1>> \o SendReturnToSender(d1, nextMail, t)
      last == IF back = <<>> THEN disk ELSE back[Len(back)]
      d2   == [last EXCEPT
                !.gold = [@ EXCEPT ![c] = 0],
                !.inv  = [i \in Items |-> IF @[i] = c THEN Nobody ELSE @[i]],
                !.inst = [i \in Items |-> IF @[i] = c THEN Nobody ELSE @[i]],
                !.mails = {x \in @ : x.receiver # c},
                !.mitems = {x \in @ : x.receiver # c}]
  IN
  /\ Idle /\ c \in exists \cap Doomed /\ phase[c] = "off" /\ (SlowLookup \/ ~LookedUp(c))
  /\ Cardinality(cods) <= 1 /\ nextMail <= MaxMails
  /\ exists' = exists \ {c}
  /\ pend' = Append(back, d2)
  /\ LET sent == cods # {} /\ t.to \in exists
     IN  /\ box' = IF sent THEN AddMail(box, nextMail, t) ELSE box
         /\ nextMail' = IF sent THEN nextMail + 1 ELSE nextMail
  /\ UNCHANGED <<disk, phase, purse, bag, queryVars>>

MailStep ==
  \/ Execute
  \/ \E c \in Chars :
       \/ LoginStart(c) \/ LogoutPlayer(c) \/ DeleteFromDB(c)
       \/ \E m \in box[c] :
            \/ HandleMailTakeItem(c, m) \/ HandleMailTakeMoney(c, m)
            \/ HandleMailDelete(c, m) \/ HandleMailReturnToSender(c, m)
       \/ \E r \in Chars, i \in Items \cup {Nobody}, g \in Sums, cod \in Cods :
            SendMail(c, r, i, g, cod)
  \/ LoginDone \/ SendCallback \/ OldMailsReturner \/ SingleMailReturner
  \/ \E r \in disk.mails : ReturnOrDeleteOldMails(r)
=============================================================================
