------------------------ MODULE AuctionHouseItemProofs ------------------------
(***************************************************************************)
(* Proofs about AuctionHouse and Mail, continued: that an item is in one   *)
(* place, in memory and after every write, and that every auction is       *)
(* settled, as long as the lookup of an old mail's item is not overtaken.  *)
(***************************************************************************)
EXTENDS AuctionHouseProofs

-----------------------------------------------------------------------------
(* The inductive invariant.  It speaks of the tables as they will be when  *)
(* the queued writes are done.                                             *)

Last == IF pend = <<>> THEN disk ELSE pend[Len(pend)]

\* In tables d an item is in one mail and not also in an inventory.
Apart(d) ==
  /\ \A x, y \in d.mitems : x.item = y.item => x = y
  /\ \A x \in d.mitems : d.inv[x.item] = Nobody

\* The rows of a mail agree and there is one of each table, the numbers from n
\* on are not in use, and an item of an inventory belongs to its owner.
Rows(d, n) ==
  /\ \A x, y \in d.mitems : x.mail = y.mail => x = y
  /\ \A r, s \in d.mails : r.id = s.id => r = s
  /\ \A r \in d.mails, x \in d.mitems : x.mail = r.id => x.receiver = r.receiver
  /\ (\A x \in d.mitems : x.mail < n) /\ (\A r \in d.mails : r.id < n)
  /\ \A i \in Items : d.inv[i] # Nobody => d.inst[i] = d.inv[i]

\* The items of the auctions A are nowhere else.
Away(d, A) ==
  /\ \A a, b \in A : a.item = b.item => a = b
  /\ \A a \in A : d.inv[a.item] = Nobody /\ \A x \in d.mitems : x.item # a.item

\* The auctions are numbered below n.
Numbered(A, n) == (\A a, b \in A : a.id = b.id => a = b) /\ (\A a \in A : a.id < n)

\* The item of the mail with number n of c is in the table.
Posted(d, n, i, c) == [mail |-> n, item |-> i, receiver |-> c] \in d.mitems

\* A mailbox B of c: its mails have numbers of their own, what is in them is
\* in the tables, and what the tables have of them is addressed to c.
Boxed(c, B, d, n) ==
  /\ \A m, l \in B : m.id = l.id => m = l
  /\ \A m \in B : /\ m.id < n
                  /\ m.item # Nobody => Posted(d, m.id, m.item, c)
                  /\ \A x \in d.mitems : x.mail = m.id => x.receiver = c

Owned(c, d) == {i \in Items : d.inv[i] = c}

\* The inventories b and mailboxes B of those online, ph being the phases.
Memory(b, B, d, n, ph) ==
  \A c \in Chars : IF ph[c] = "on" THEN b[c] = Owned(c, d) /\ Boxed(c, B[c], d, n)
                   ELSE b[c] = {} /\ B[c] = {}

\* What a query under way has read is still so when its answer comes: the
\* rows of a character being loaded, the receiver of an old mail, and, unless
\* he is online, its item.
Loads(q, d, n, ph) ==
  q.kind = "login" => /\ ph[q.char] = "loading"
                      /\ q.rows.bag = Owned(q.char, d) /\ Boxed(q.char, q.rows.box, d, n)
Finds(q, d, n) ==
  q.kind \in {"old", "single"} =>
    /\ q.row.id < n
    /\ \A x \in d.mitems : x.mail = q.row.id => x.receiver = q.row.receiver
LooksUp(q, d, ph) ==
  q.kind = "single" /\ ph[q.row.receiver] # "on" =>
    IF q.item = Nobody THEN \A x \in d.mitems : x.mail # q.row.id
    ELSE Posted(d, q.row.id, q.item, q.row.receiver)
Valid(q, d, n, ph) == Loads(q, d, n, ph) /\ Finds(q, d, n) /\ LooksUp(q, d, ph)
AllValid(qs, d, n, ph) == \A k \in 1 .. Len(qs) : Valid(qs[k], d, n, ph)

\* One login of a character at a time, one search of a mail at a time, and no
\* login after the lookup of an item of the same character.
Compatible(p, q) ==
  /\ p.kind = "login" /\ q.kind = "login" => p.char # q.char
  /\ p.kind \in {"old", "single"} /\ q.kind \in {"old", "single"} => p.row.id # q.row.id
  /\ p.kind = "single" /\ q.kind = "login" => p.row.receiver # q.char
InOrder(qs) == \A j, k \in 1 .. Len(qs) : j < k => Compatible(qs[j], qs[k])

World(d, b, B, n, A, ph, qs) ==
  Apart(d) /\ Rows(d, n) /\ Away(d, A) /\ Memory(b, B, d, n, ph) /\ AllValid(qs, d, n, ph)

TablesInv == Apart(disk) /\ \A k \in 1 .. Len(pend) : Apart(pend[k])

IInv ==
  /\ TypeOK /\ TablesInv /\ World(Last, bag, box, nextMail, auctions, phase, queries)
  /\ InOrder(queries) /\ Last.auctions = auctions /\ Numbered(auctions, nextAuction)

-----------------------------------------------------------------------------
(* What a change of the tables from d to e means to those who rely on them. *)

\* The rows addressed to c, and his inventory, stay.
Stays(c, d, e) == Owned(c, e) = Owned(c, d) /\ \A x \in d.mitems : x.receiver = c => x \in e.mitems

\* New rows belong to new mails.
NewRows(d, e, n) == \A x \in e.mitems : x \in d.mitems \/ (x.mail \in Nat /\ n <= x.mail)

\* The item of a row is posted.
LEMMA PostedRow ==
  ASSUME NEW d \in Tables, NEW x \in d.mitems
  PROVE  Posted(d, x.mail, x.item, x.receiver)
<1>1. x \in MailItem
  BY TablesFields
<1>2. x = [mail |-> x.mail, item |-> x.item, receiver |-> x.receiver]
  BY <1>1 DEF MailItem
<1> QED BY <1>2 DEF Posted

LEMMA PostedIs ==
  ASSUME NEW d, NEW n, NEW i, NEW c, Posted(d, n, i, c)
  PROVE  \E x \in d.mitems : x = [mail |-> n, item |-> i, receiver |-> c]
                             /\ x.mail = n /\ x.item = i /\ x.receiver = c
  BY DEF Posted

LEMMA BoxedFrame ==
  ASSUME NEW d, NEW e, NEW c, NEW B \in SUBSET MailEntry, NEW n \in Nat, NEW k \in Nat, n <= k,
         Boxed(c, B, d, n), NewRows(d, e, n),
         \A x \in d.mitems : x.receiver = c => x \in e.mitems
  PROVE  Boxed(c, B, e, k)
<1>1. ASSUME NEW m \in B PROVE m.id < k
  BY <1>1 DEF Boxed, MailEntry
<1>2. ASSUME NEW m \in B, m.item # Nobody PROVE Posted(e, m.id, m.item, c)
  BY <1>2 DEF Boxed, Posted
<1>3. ASSUME NEW m \in B, NEW x \in e.mitems, x.mail = m.id PROVE x.receiver = c
  <2>1. m.id < n /\ m.id \in Nat
    BY <1>3 DEF Boxed, MailEntry
  <2>2. x \in d.mitems
    BY <1>3, <2>1 DEF NewRows
  <2> QED BY <1>3, <2>2 DEF Boxed
<1> QED BY <1>1, <1>2, <1>3 DEF Boxed

\* A query stays valid unless rows it relies on go; nothing relies on those
\* of a character who is online, nor, if no lookup is under way for him, of
\* one who is offline.
LEMMA ValidFrame ==
  ASSUME NEW d, NEW e, NEW n \in Nat, NEW k \in Nat, n <= k, NEW ph, NEW q \in Query,
         Valid(q, d, n, ph), NewRows(d, e, n),
         \A c \in Chars : \/ ph[c] = "on" \/ Stays(c, d, e)
                          \/ ph[c] = "off" /\ ~(q.kind = "single" /\ q.row.receiver = c)
  PROVE  Valid(q, e, k, ph)
<1>1. Loads(q, e, k, ph)
  <2> SUFFICES ASSUME q.kind = "login"
               PROVE  /\ ph[q.char] = "loading" /\ q.rows.bag = Owned(q.char, e)
                      /\ Boxed(q.char, q.rows.box, e, k)
    BY DEF Loads
  <2>1. q.char \in Chars /\ q.rows.box \in SUBSET MailEntry
    BY QueryFields
  <2>2. /\ ph[q.char] = "loading" /\ q.rows.bag = Owned(q.char, d)
        /\ Boxed(q.char, q.rows.box, d, n)
    BY DEF Valid, Loads
  <2>3. Stays(q.char, d, e)
    BY <2>1, <2>2
  <2> QED BY <2>1, <2>2, <2>3, BoxedFrame DEF Stays
<1>2. Finds(q, e, k)
  <2> SUFFICES ASSUME q.kind \in {"old", "single"}
               PROVE  q.row.id < k /\ \A x \in e.mitems : x.mail = q.row.id => x.receiver = q.row.receiver
    BY DEF Finds
  <2>1. q.row.id \in Nat
    BY QueryFields
  <2>2. q.row.id < n /\ \A x \in d.mitems : x.mail = q.row.id => x.receiver = q.row.receiver
    BY DEF Valid, Finds
  <2> QED BY <2>1, <2>2 DEF NewRows
<1>3. LooksUp(q, e, ph)
  <2> SUFFICES ASSUME q.kind = "single", ph[q.row.receiver] # "on"
               PROVE  IF q.item = Nobody THEN \A x \in e.mitems : x.mail # q.row.id
                      ELSE Posted(e, q.row.id, q.item, q.row.receiver)
    BY DEF LooksUp
  <2>1. q.row.id \in Nat /\ q.row.receiver \in Chars
    BY QueryFields
  <2>2. q.row.id < n
    BY DEF Valid, Finds
  <2>3. Stays(q.row.receiver, d, e)
    BY <2>1
  <2>4. CASE q.item = Nobody
    BY <2>1, <2>2, <2>4 DEF Valid, LooksUp, NewRows
  <2>5. CASE q.item # Nobody
    BY <2>3, <2>5 DEF Valid, LooksUp, Stays, Posted
  <2> QED BY <2>4, <2>5
<1> QED BY <1>1, <1>2, <1>3 DEF Valid

-----------------------------------------------------------------------------
(* The invariant from one state of the tables and the memory to another. *)

\* Rows of mails and of items go, rows of mails change in what they say.
Fewer(d, e) ==
  /\ e.inv = d.inv /\ e.mitems \subseteq d.mitems /\ Follow(d.mails, e.mails)
  /\ \A i \in Items : d.inv[i] # Nobody => e.inst[i] = d.inst[i]

LEMMA ApartTrim ==
  ASSUME NEW d, NEW e, Apart(d), e.inv = d.inv, e.mitems \subseteq d.mitems
  PROVE  Apart(e)
  BY DEF Apart

LEMMA FewerTables ==
  ASSUME NEW d \in Tables, NEW e \in Tables, NEW n \in Nat, NEW A,
         Apart(d), Rows(d, n), Away(d, A), Fewer(d, e)
  PROVE  Apart(e) /\ Rows(e, n) /\ Away(e, A)
<1>1. Apart(e)
  BY ApartTrim DEF Fewer
<1>2. Away(e, A)
  BY DEF Away, Fewer
<1>3. /\ \A x, y \in e.mitems : x.mail = y.mail => x = y
      /\ \A x \in e.mitems : x.mail < n
      /\ \A i \in Items : e.inv[i] # Nobody => e.inst[i] = e.inv[i]
  BY DEF Rows, Fewer
<1>4. \A s \in e.mails : \E r \in d.mails : r.id = s.id /\ r.receiver = s.receiver
  BY DEF Fewer, Follow
<1>5. /\ \A r \in e.mails, x \in e.mitems : x.mail = r.id => x.receiver = r.receiver
      /\ \A r \in e.mails : r.id < n
  BY <1>4 DEF Rows, Fewer
<1>6. ASSUME NEW s \in e.mails, NEW u \in e.mails, s.id = u.id PROVE s = u
  <2>1. PICK r \in d.mails, q \in d.mails : /\ r.id = s.id /\ q.id = u.id /\ (r = q => s = u)
    BY DEF Fewer, Follow
  <2> QED BY <1>6, <2>1 DEF Rows
<1> QED BY <1>1, <1>2, <1>3, <1>5, <1>6 DEF Rows

\* No lookup is under way for c.
NoLookup(qs, c) == \A k \in 1 .. Len(qs) : ~(qs[k].kind = "single" /\ qs[k].row.receiver = c)

\* The tables change from d to e and the memory from b, B to b2, B2: whoever
\* is touched is online, and then his new memory agrees with e, or is offline
\* with no lookup under way.
LEMMA WorldFrame ==
  ASSUME NEW d \in Tables, NEW e \in Tables, NEW n \in Nat, NEW k \in Nat, n <= k,
         NEW b, NEW B \in [Chars -> SUBSET MailEntry], NEW b2, NEW B2, NEW A, NEW A2, NEW ph,
         NEW qs \in Seq(Query),
         Memory(b, B, d, n, ph), AllValid(qs, d, n, ph), NewRows(d, e, n),
         Apart(e), Rows(e, k), Away(e, A2),
         \A c \in Chars :
           \/ Stays(c, d, e) /\ b2[c] = b[c] /\ B2[c] = B[c]
           \/ ph[c] = "on" /\ b2[c] = Owned(c, e) /\ Boxed(c, B2[c], e, k)
           \/ ph[c] = "off" /\ NoLookup(qs, c) /\ b2[c] = b[c] /\ B2[c] = B[c]
  PROVE  World(e, b2, B2, k, A2, ph, qs)
<1>1. Memory(b2, B2, e, k, ph)
  <2> SUFFICES ASSUME NEW c \in Chars
               PROVE  IF ph[c] = "on" THEN b2[c] = Owned(c, e) /\ Boxed(c, B2[c], e, k)
                      ELSE b2[c] = {} /\ B2[c] = {}
    BY DEF Memory
  <2>1. CASE ph[c] # "on"
    BY <2>1 DEF Memory
  <2>2. CASE ph[c] = "on" /\ Stays(c, d, e) /\ b2[c] = b[c] /\ B2[c] = B[c]
    <3>1. b[c] = Owned(c, d) /\ Boxed(c, B[c], d, n) /\ B[c] \in SUBSET MailEntry
      BY <2>2 DEF Memory
    <3>2. Boxed(c, B[c], e, k)
      BY <2>2, <3>1, BoxedFrame DEF Stays
    <3> QED BY <2>2, <3>1, <3>2 DEF Stays
  <2>3. CASE ph[c] = "on" /\ b2[c] = Owned(c, e) /\ Boxed(c, B2[c], e, k)
    BY <2>3
  <2> QED BY <2>1, <2>2, <2>3
<1>2. AllValid(qs, e, k, ph)
  <2> SUFFICES ASSUME NEW j \in 1 .. Len(qs) PROVE Valid(qs[j], e, k, ph)
    BY DEF AllValid
  <2>1. qs[j] \in Query /\ Valid(qs[j], d, n, ph)
    BY DEF AllValid
  <2>2. \A c \in Chars : \/ ph[c] = "on" \/ Stays(c, d, e)
                         \/ ph[c] = "off" /\ ~(qs[j].kind = "single" /\ qs[j].row.receiver = c)
    BY DEF NoLookup
  <2> QED BY <2>1, <2>2, ValidFrame
<1> QED BY <1>1, <1>2 DEF World

LEMMA SameRows ==
  ASSUME NEW d, NEW e, NEW n, e.mitems \subseteq d.mitems
  PROVE  NewRows(d, e, n)
  BY DEF NewRows

LEMMA WorldParts ==
  ASSUME NEW d, NEW b, NEW B, NEW n, NEW A, NEW ph, NEW qs, World(d, b, B, n, A, ph, qs)
  PROVE  /\ Apart(d) /\ Rows(d, n) /\ Away(d, A) /\ Memory(b, B, d, n, ph)
         /\ AllValid(qs, d, n, ph)
  BY DEF World

\* Tables that say the same of items, and of mails but for their contents.
Alike(d, e) == e.inv = d.inv /\ e.mitems = d.mitems /\ Follow(d.mails, e.mails)
               /\ \A i \in Items : d.inv[i] # Nobody => e.inst[i] = d.inst[i]

LEMMA AlikeStays ==
  ASSUME NEW d, NEW e, Alike(d, e), NEW c
  PROVE  Stays(c, d, e) /\ Fewer(d, e)
  BY DEF Alike, Stays, Owned, Fewer

LEMMA SameWorld ==
  ASSUME NEW d \in Tables, NEW e \in Tables, NEW n \in Nat, NEW b,
         NEW B \in [Chars -> SUBSET MailEntry], NEW A, NEW ph, NEW qs \in Seq(Query),
         World(d, b, B, n, A, ph, qs), Alike(d, e)
  PROVE  World(e, b, B, n, A, ph, qs)
<1>1. Apart(e) /\ Rows(e, n) /\ Away(e, A)
  BY WorldParts, FewerTables, AlikeStays
<1>2. NewRows(d, e, n) /\ n <= n
  BY SameRows DEF Alike
<1>3. \A c \in Chars : Stays(c, d, e)
  BY AlikeStays
<1>4. Memory(b, B, d, n, ph) /\ AllValid(qs, d, n, ph)
  BY WorldParts
<1> QED BY <1>1, <1>2, <1>3, <1>4, WorldFrame

\* The item i, if it is one, is in no inventory, mail or auction of A.
Spare(i, d, A) ==
  i # Nobody => /\ d.inv[i] = Nobody /\ (\A x \in d.mitems : x.item # i)
                /\ \A a \in A : a.item # i

LEMMA PostTables ==
  ASSUME NEW d \in Tables, NEW n \in Nat, NEW t \in DraftType, NEW A,
         Apart(d), Rows(d, n), Away(d, A), Spare(t.item, d, A)
  PROVE  LET e == InsertMail(d, n, t)
         IN  Apart(e) /\ Rows(e, n + 1) /\ Away(e, A) /\ NewRows(d, e, n)
<1> DEFINE e == InsertMail(d, n, t)
           x0 == [mail |-> n, item |-> t.item, receiver |-> t.to]
           r0 == RowOf(n, t)
<1>1. /\ e.inv = d.inv /\ e.inst = d.inst /\ e.mails = d.mails \cup {r0}
      /\ e.mitems = IF t.item = Nobody THEN d.mitems ELSE d.mitems \cup {x0}
  BY InsertMailFields
<1>2. r0.id = n /\ r0.receiver = t.to
  BY DraftFields
<1>3. x0.mail = n /\ x0.item = t.item /\ x0.receiver = t.to
  OBVIOUS
<1>4. (\A x \in d.mitems : x.mail \in Nat) /\ (\A r \in d.mails : r.id \in Nat)
  BY TablesFields DEF MailItem, MailRow
<1> HIDE DEF e, x0, r0
<1>5. \A x \in e.mitems : x \in d.mitems \/ (x = x0 /\ t.item # Nobody)
  BY <1>1
<1>6. Apart(e)
  BY <1>1, <1>3, <1>5 DEF Apart, Spare
<1>7. Away(e, A)
  BY <1>1, <1>3, <1>5 DEF Away, Spare
<1>8. Rows(e, n + 1)
  <2>1. (\A x \in d.mitems : x.mail < n) /\ (\A r \in d.mails : r.id < n)
    BY DEF Rows
  <2>2. (\A x \in d.mitems : x.mail # n) /\ (\A r \in d.mails : r.id # n)
    BY <2>1, <1>4
  <2>3. \A x, y \in e.mitems : x.mail = y.mail => x = y
    BY <1>3, <1>5, <2>2 DEF Rows
  <2>4. \A r, s \in e.mails : r.id = s.id => r = s
    BY <1>1, <1>2, <2>2 DEF Rows
  <2>5. \A r \in e.mails, x \in e.mitems : x.mail = r.id => x.receiver = r.receiver
    BY <1>1, <1>2, <1>3, <1>5, <2>2 DEF Rows
  <2>6. (\A x \in e.mitems : x.mail < n + 1) /\ (\A r \in e.mails : r.id < n + 1)
    BY <1>1, <1>2, <1>3, <1>4, <1>5, <2>1
  <2> QED BY <1>1, <2>3, <2>4, <2>5, <2>6 DEF Rows
<1>9. NewRows(d, e, n)
  BY <1>3, <1>5 DEF NewRows
<1> QED BY <1>6, <1>7, <1>8, <1>9 DEF e

\* A mail with a spare item, or none, is inserted and shown to its receiver.
LEMMA PostWorld ==
  ASSUME NEW d \in Tables, NEW n \in Nat, NEW t \in DraftType, NEW b,
         NEW B \in [Chars -> SUBSET MailEntry], NEW B2, NEW A, NEW ph, NEW qs \in Seq(Query),
         World(d, b, B, n, A, ph, qs), Spare(t.item, d, A),
         \A c \in Chars : B2[c] = IF c = t.to /\ ph[c] = "on"
                                  THEN B[c] \cup {EntryOf(n, t)} ELSE B[c]
  PROVE  World(InsertMail(d, n, t), b, B2, n + 1, A, ph, qs)
<1> DEFINE e == InsertMail(d, n, t)
           x0 == [mail |-> n, item |-> t.item, receiver |-> t.to]
           m0 == EntryOf(n, t)
<1>1. Apart(d) /\ Rows(d, n) /\ Away(d, A) /\ Memory(b, B, d, n, ph) /\ AllValid(qs, d, n, ph)
  BY WorldParts
<1>2. Apart(e) /\ Rows(e, n + 1) /\ Away(e, A) /\ NewRows(d, e, n)
  BY <1>1, PostTables
<1>3. /\ e \in Tables /\ e.inv = d.inv
      /\ e.mitems = IF t.item = Nobody THEN d.mitems ELSE d.mitems \cup {x0}
  BY InsertMailFields
<1>4. m0.id = n /\ m0.item = t.item /\ t.to \in Chars
  BY DraftFields
<1>5. n <= n + 1 /\ n + 1 \in Nat
  OBVIOUS
<1>0. x0.mail = n /\ x0.receiver = t.to
  OBVIOUS
<1>10. t.item # Nobody => Posted(e, n, t.item, t.to)
  BY <1>3 DEF Posted
<1> HIDE DEF e, x0, m0
<1>6. ASSUME NEW c \in Chars PROVE Stays(c, d, e)
  BY <1>3 DEF Stays, Owned
<1>7. ASSUME NEW c \in Chars, c = t.to, ph[c] = "on"
      PROVE  b[c] = Owned(c, e) /\ Boxed(c, B2[c], e, n + 1)
  <2>1. b[c] = Owned(c, d) /\ Boxed(c, B[c], d, n) /\ B[c] \in SUBSET MailEntry
    BY <1>1, <1>7 DEF Memory
  <2>2. b[c] = Owned(c, e)
    BY <2>1, <1>6 DEF Stays
  <2>3. Boxed(c, B[c], e, n + 1)
    BY <1>2, <1>5, <1>6, <2>1, BoxedFrame DEF Stays
  <2>4. B2[c] = B[c] \cup {m0}
    BY <1>7 DEF m0
  <2>5. \A m \in B[c] : m.id < n /\ m.id # n
    BY <2>1 DEF Boxed, MailEntry
  <2>6. \A m, l \in B2[c] : m.id = l.id => m = l
    BY <1>4, <2>3, <2>4, <2>5 DEF Boxed
  <2>7. \A x \in e.mitems : x.mail = n => x.receiver = c
    <3>1. \A x \in d.mitems : x.mail < n /\ x.mail \in Nat
      BY <1>1, TablesFields DEF Rows, MailItem
    <3> QED BY <1>0, <1>3, <1>7, <3>1
  <2>8. m0.item # Nobody => Posted(e, m0.id, m0.item, c)
    BY <1>4, <1>7, <1>10
  <2>9. n < n + 1
    OBVIOUS
  <2> QED BY <1>4, <2>2, <2>3, <2>4, <2>6, <2>7, <2>8, <2>9 DEF Boxed
<1>8. \A c \in Chars : \/ Stays(c, d, e) /\ b[c] = b[c] /\ B2[c] = B[c]
                       \/ ph[c] = "on" /\ b[c] = Owned(c, e) /\ Boxed(c, B2[c], e, n + 1)
  BY <1>6, <1>7
<1>9. World(e, b, B2, n + 1, A, ph, qs)
  BY <1>1, <1>2, <1>3, <1>5, <1>8, WorldFrame
<1> QED BY <1>9 DEF e

\* An item leaves the inventory of somebody online.
LEMMA TakeAwayWorld ==
  ASSUME NEW d \in Tables, NEW i \in Items, NEW c \in Chars, NEW n \in Nat,
         NEW b \in [Chars -> SUBSET Items],
         NEW B \in [Chars -> SUBSET MailEntry], NEW A \in SUBSET Auction, NEW ph, NEW qs \in Seq(Query),
         World(d, b, B, n, A, ph, qs), ph[c] = "on", i \in b[c]
  PROVE  LET e == DeleteFromInventory(d, i)
         IN  /\ World(e, [b EXCEPT ![c] = @ \ {i}], B, n, A, ph, qs)
             /\ Spare(i, e, A)
<1> DEFINE e == DeleteFromInventory(d, i)
           b2 == [b EXCEPT ![c] = @ \ {i}]
<1>1. Apart(d) /\ Rows(d, n) /\ Away(d, A) /\ Memory(b, B, d, n, ph) /\ AllValid(qs, d, n, ph)
  BY WorldParts
<1>2. /\ e \in Tables /\ e.inv = [d.inv EXCEPT ![i] = Nobody] /\ e.inst = d.inst
      /\ e.mails = d.mails /\ e.mitems = d.mitems
  BY DeleteFromInventoryFields
<1>3. b[c] = Owned(c, d) /\ Boxed(c, B[c], d, n)
  BY <1>1 DEF Memory
<1>4. d.inv[i] = c /\ c # Nobody
  BY <1>3, MailAssumption DEF Owned
<1> HIDE DEF e
<1>5. e.inv[i] = Nobody /\ \A j \in Items : j # i => e.inv[j] = d.inv[j]
  BY <1>2, TablesFields
<1>18. \A x \in d.mitems : x.item \in Items
  BY TablesFields DEF MailItem
<1>6. Apart(e)
  BY <1>1, <1>2, <1>5, <1>18 DEF Apart
<1>7. Rows(e, n)
  BY <1>1, <1>2, <1>5 DEF Rows
<1>8. ASSUME NEW a \in A PROVE a.item # i /\ d.inv[a.item] = Nobody
  BY <1>1, <1>4 DEF Away
<1>19. \A a \in A : e.inv[a.item] = Nobody
  BY <1>5, <1>8, AuctionFields
<1>9. Away(e, A)
  BY <1>1, <1>2, <1>19 DEF Away
<1>10. \A x \in d.mitems : x.item # i
  BY <1>1, <1>4 DEF Apart
<1>11. Spare(i, e, A)
  BY <1>2, <1>5, <1>8, <1>10 DEF Spare
<1>12. NewRows(d, e, n) /\ n <= n
  BY <1>2, SameRows
<1>13. b2[c] = Owned(c, e)
  BY <1>3, <1>4, <1>5 DEF Owned
<1>14. Boxed(c, B[c], e, n)
  BY <1>2, <1>3 DEF Boxed, Posted
<1>15. \A x \in Chars : x # c => Stays(x, d, e) /\ b2[x] = b[x]
  BY <1>2, <1>4, <1>5, MailAssumption DEF Stays, Owned
<1> HIDE DEF b2
<1>16. \A x \in Chars : \/ Stays(x, d, e) /\ b2[x] = b[x] /\ B[x] = B[x]
                        \/ ph[x] = "on" /\ b2[x] = Owned(x, e) /\ Boxed(x, B[x], e, n)
  BY <1>13, <1>14, <1>15
<1>17. World(e, b2, B, n, A, ph, qs)
  BY <1>1, <1>2, <1>6, <1>7, <1>9, <1>12, <1>16, WorldFrame
<1> QED BY <1>11, <1>17 DEF e, b2

\* A spare item is put into the inventory of somebody online.
LEMMA PutWorld ==
  ASSUME NEW d \in Tables, NEW e \in Tables, NEW i \in Items, NEW c \in Chars, NEW n \in Nat,
         NEW b \in [Chars -> SUBSET Items],
         NEW B \in [Chars -> SUBSET MailEntry], NEW A \in SUBSET Auction, NEW ph,
         NEW qs \in Seq(Query),
         World(d, b, B, n, A, ph, qs), ph[c] = "on", Spare(i, d, A),
         e.inv = [d.inv EXCEPT ![i] = c], e.inst[i] = c, e.mails = d.mails, e.mitems = d.mitems,
         \A x \in Items : d.inv[x] # Nobody => e.inst[x] = d.inst[x]
  PROVE  World(e, [b EXCEPT ![c] = @ \cup {i}], B, n, A, ph, qs)
<1> DEFINE b2 == [b EXCEPT ![c] = @ \cup {i}]
<1>1. Apart(d) /\ Rows(d, n) /\ Away(d, A) /\ Memory(b, B, d, n, ph) /\ AllValid(qs, d, n, ph)
  BY WorldParts
<1>2. b[c] = Owned(c, d) /\ Boxed(c, B[c], d, n)
  BY <1>1 DEF Memory
<1>3. i # Nobody /\ c # Nobody
  BY MailAssumption
<1>4. d.inv[i] = Nobody /\ (\A x \in d.mitems : x.item # i) /\ (\A a \in A : a.item # i)
  BY <1>3 DEF Spare
<1>5. e.inv[i] = c /\ \A j \in Items : j # i => e.inv[j] = d.inv[j]
  BY TablesFields
<1>6. (\A x \in d.mitems : x.item \in Items) /\ (\A a \in A : a.item \in Items)
  <2>1. \A x \in d.mitems : x.item \in Items
    BY TablesFields DEF MailItem
  <2>2. \A a \in A : a.item \in Items
    BY DEF Auction
  <2> QED BY <2>1, <2>2
<1>7. Apart(e)
  BY <1>1, <1>4, <1>5, <1>6 DEF Apart
<1>8. Rows(e, n)
  BY <1>1, <1>4, <1>5 DEF Rows
<1>9. Away(e, A)
  BY <1>1, <1>4, <1>5, <1>6 DEF Away
<1>10. NewRows(d, e, n) /\ n <= n
  BY SameRows
<1>11. b2[c] = Owned(c, e)
  BY <1>2, <1>5 DEF Owned
<1>12. Boxed(c, B[c], e, n)
  BY <1>2 DEF Boxed, Posted
<1>13. \A x \in Chars : x # c => Stays(x, d, e) /\ b2[x] = b[x]
  BY <1>3, <1>4, <1>5, MailAssumption DEF Stays, Owned
<1> HIDE DEF b2
<1>14. \A x \in Chars : \/ Stays(x, d, e) /\ b2[x] = b[x] /\ B[x] = B[x]
                        \/ ph[x] = "on" /\ b2[x] = Owned(x, e) /\ Boxed(x, B[x], e, n)
  BY <1>11, <1>12, <1>13
<1>15. World(e, b2, B, n, A, ph, qs)
  BY <1>1, <1>7, <1>8, <1>9, <1>10, <1>14, WorldFrame
<1> QED BY <1>15 DEF b2

\* Rows go that are addressed to people who are online and whose new boxes
\* agree with what is left, or who are offline with no lookup under way.
LEMMA DropWorld ==
  ASSUME NEW d \in Tables, NEW e \in Tables, NEW n \in Nat, NEW b,
         NEW B \in [Chars -> SUBSET MailEntry], NEW B2, NEW A, NEW ph, NEW qs \in Seq(Query),
         World(d, b, B, n, A, ph, qs), Fewer(d, e),
         \A c \in Chars :
           \/ B2[c] = B[c] /\ \A x \in d.mitems : x.receiver = c => x \in e.mitems
           \/ ph[c] = "on" /\ Boxed(c, B2[c], e, n)
           \/ B2[c] = B[c] /\ ph[c] = "off" /\ NoLookup(qs, c)
  PROVE  World(e, b, B2, n, A, ph, qs)
<1>1. Apart(d) /\ Rows(d, n) /\ Away(d, A) /\ Memory(b, B, d, n, ph) /\ AllValid(qs, d, n, ph)
  BY WorldParts
<1>2. Apart(e) /\ Rows(e, n) /\ Away(e, A)
  BY <1>1, FewerTables
<1>3. NewRows(d, e, n) /\ n <= n
  BY SameRows DEF Fewer
<1>4. \A c \in Chars : Owned(c, e) = Owned(c, d) /\ (ph[c] = "on" => b[c] = Owned(c, d))
  BY <1>1 DEF Fewer, Owned, Memory
<1>5. \A c \in Chars :
           \/ Stays(c, d, e) /\ b[c] = b[c] /\ B2[c] = B[c]
           \/ ph[c] = "on" /\ b[c] = Owned(c, e) /\ Boxed(c, B2[c], e, n)
           \/ ph[c] = "off" /\ NoLookup(qs, c) /\ b[c] = b[c] /\ B2[c] = B[c]
  BY <1>4 DEF Stays
<1> QED BY <1>1, <1>2, <1>3, <1>5, WorldFrame

\* A mailbox whose mails B2 were in B, with their items or without.
LEMMA BoxTrim ==
  ASSUME NEW d, NEW e, NEW c, NEW n, NEW B, NEW B2, Boxed(c, B, d, n),
         e.mitems \subseteq d.mitems,
         \A y \in B2 : \E z \in B : /\ y.id = z.id
                                    /\ y.item = Nobody \/ (y.item = z.item /\ Posted(e, y.id, y.item, c)),
         \A y, z \in B2 : y.id = z.id => y = z
  PROVE  Boxed(c, B2, e, n)
<1> SUFFICES ASSUME NEW y \in B2
             PROVE  /\ y.id < n /\ (y.item # Nobody => Posted(e, y.id, y.item, c))
                    /\ \A x \in e.mitems : x.mail = y.id => x.receiver = c
  BY DEF Boxed
<1>1. PICK z \in B : y.id = z.id /\ (y.item = Nobody \/ (y.item = z.item /\ Posted(e, y.id, y.item, c)))
  OBVIOUS
<1>2. z.id < n /\ \A x \in d.mitems : x.mail = z.id => x.receiver = c
  BY DEF Boxed
<1> QED BY <1>1, <1>2

\* Characters log out once nothing of their mailboxes is in memory.
LEMMA DepartWorld ==
  ASSUME NEW d, NEW n, NEW b, NEW B, NEW A, NEW ph, NEW qs, NEW ph2, NEW b2,
         World(d, b, B, n, A, ph, qs),
         \A c \in Chars : \/ ph2[c] = ph[c] /\ b2[c] = b[c]
                          \/ /\ ph[c] = "on" /\ ph2[c] = "off" /\ B[c] = {} /\ b2[c] = {}
                             /\ NoLookup(qs, c),
         qs \in Seq(Query)
  PROVE  World(d, b2, B, n, A, ph2, qs)
<1>1. Apart(d) /\ Rows(d, n) /\ Away(d, A) /\ Memory(b, B, d, n, ph) /\ AllValid(qs, d, n, ph)
  BY WorldParts
<1>2. Memory(b2, B, d, n, ph2)
  BY <1>1 DEF Memory
<1>3. AllValid(qs, d, n, ph2)
  <2> SUFFICES ASSUME NEW k \in 1 .. Len(qs) PROVE Valid(qs[k], d, n, ph2)
    BY DEF AllValid
  <2>1. qs[k] \in Query /\ Valid(qs[k], d, n, ph)
    BY <1>1 DEF AllValid
  <2>2. Loads(qs[k], d, n, ph2)
    <3> SUFFICES ASSUME qs[k].kind = "login" PROVE Loads(qs[k], d, n, ph2)
      BY DEF Loads
    <3>1. qs[k].char \in Chars /\ ph[qs[k].char] = "loading"
      BY <2>1, QueryFields DEF Valid, Loads
    <3>2. ph2[qs[k].char] = "loading"
      BY <3>1
    <3> QED BY <2>1, <3>2 DEF Valid, Loads
  <2>3. LooksUp(qs[k], d, ph2)
    <3> SUFFICES ASSUME qs[k].kind = "single" PROVE LooksUp(qs[k], d, ph2)
      BY DEF LooksUp
    <3>1. qs[k].row.receiver \in Chars /\ ~NoLookup(qs, qs[k].row.receiver)
      BY <2>1, QueryFields DEF NoLookup
    <3>2. ph2[qs[k].row.receiver] = ph[qs[k].row.receiver]
      BY <3>1
    <3> QED BY <2>1, <3>2 DEF Valid, LooksUp
  <2> QED BY <2>1, <2>2, <2>3 DEF Valid
<1> QED BY <1>1, <1>2, <1>3 DEF World

-----------------------------------------------------------------------------
(* The steps. *)

LEMMA IdleFacts ==
  ASSUME IInv, pend = <<>>
  PROVE  /\ disk \in Tables /\ nextMail \in Nat /\ bag \in [Chars -> SUBSET Items]
         /\ box \in [Chars -> SUBSET MailEntry] /\ auctions \in SUBSET Auction
         /\ queries \in Seq(Query) /\ exists \in SUBSET Chars
         /\ World(disk, bag, box, nextMail, auctions, phase, queries)
         /\ Apart(disk) /\ InOrder(queries) /\ disk.auctions = auctions
         /\ Numbered(auctions, nextAuction) /\ TypeOK
<1>1. TypeOK /\ Last = disk
  BY DEF IInv, Last
<1>2. nextMail \in Nat
  BY <1>1, MailAssumption DEF TypeOK
<1>3. World(disk, bag, box, nextMail, auctions, phase, queries) /\ disk.auctions = auctions
  BY <1>1 DEF IInv
<1>4. Apart(disk) /\ InOrder(queries) /\ Numbered(auctions, nextAuction)
  BY DEF IInv, TablesInv
<1> QED BY <1>1, <1>2, <1>3, <1>4 DEF TypeOK

\* A step that leaves the tables e at the end of the queue.
LEMMA Conclude ==
  ASSUME IInv, pend = <<>>, TypeOK', disk' = disk, NEW e,
         pend' = <<>> => e = disk, pend' # <<>> => pend'[Len(pend')] = e,
         World(e, bag', box', nextMail', auctions', phase', queries'),
         \A k \in 1 .. Len(pend') : Apart(pend'[k]),
         InOrder(queries'), e.auctions = auctions', Numbered(auctions', nextAuction')
  PROVE  IInv'
<1>1. Last' = e
  BY DEF Last
<1>2. TablesInv'
  BY IdleFacts DEF TablesInv
<1> QED BY <1>1, <1>2 DEF IInv

\* The same of a step of the mail component that queues nothing.
LEMMA ConcludeIdle ==
  ASSUME IInv, pend = <<>>, TypeOK', UNCHANGED <<disk, pend, aucVars>>,
         World(disk, bag', box', nextMail', auctions, phase', queries'), InOrder(queries')
  PROVE  IInv'
<1>1. auctions' = auctions /\ nextAuction' = nextAuction /\ pend' = <<>>
  BY DEF aucVars
<1>2. disk.auctions = auctions /\ Numbered(auctions, nextAuction)
  BY IdleFacts
<1>3. \A k \in 1 .. Len(pend') : Apart(pend'[k])
  BY <1>1
<1> QED BY <1>1, <1>2, <1>3, Conclude

LEMMA InitIInv == AInit => IInv
<1> SUFFICES ASSUME AInit PROVE IInv
  OBVIOUS
<1>1. TypeOK
  BY InitType
<1>2. /\ disk.inv = StartBag /\ disk.inst = StartBag /\ disk.mails = {} /\ disk.mitems = {}
      /\ disk.auctions = {} /\ pend = <<>> /\ queries = <<>> /\ auctions = {} /\ Last = disk
      /\ \A c \in Chars : phase[c] = "off" /\ bag[c] = {} /\ box[c] = {}
  BY DEF AInit, Init, Last
<1>3. Apart(disk) /\ Rows(disk, nextMail) /\ Away(disk, auctions) /\ Numbered(auctions, nextAuction)
  BY <1>2 DEF Apart, Rows, Away, Numbered
<1>4. Memory(bag, box, disk, nextMail, phase)
  BY <1>2 DEF Memory
<1>5. AllValid(queries, disk, nextMail, phase) /\ InOrder(queries) /\ TablesInv
  <2>1. Len(queries) = 0 /\ Len(pend) = 0
    BY <1>2
  <2> QED BY <1>3, <2>1 DEF AllValid, InOrder, TablesInv
<1> QED BY <1>1, <1>2, <1>3, <1>4, <1>5 DEF IInv, World

LEMMA ExecuteKeeps ==
  ASSUME IInv, Execute, UNCHANGED aucVars
  PROVE  IInv'
<1>1. TypeOK' /\ TypeOK
  BY ExecuteType DEF IInv
<1>2. disk' = pend[Len(pend)] /\ pend' = <<>> /\ pend # <<>>
  BY DEF Execute
<1>3. Last' = Last
  BY <1>2 DEF Last
<1>4. Len(pend) \in 1 .. Len(pend)
  BY <1>1, <1>2 DEF TypeOK
<1>5. TablesInv'
  <2>1. Apart(disk')
    BY <1>2, <1>4 DEF IInv, TablesInv
  <2>2. Len(pend') = 0
    BY <1>2
  <2> QED BY <2>1, <2>2 DEF TablesInv
<1> QED BY <1>1, <1>3, <1>5 DEF IInv, Execute, charVars, memVars, queryVars, aucVars

\* What becomes of the queries: one is asked, or the first is answered.
LEMMA AppendValid ==
  ASSUME NEW qs \in Seq(Query), NEW q, NEW d, NEW n, NEW ph, AllValid(qs, d, n, ph),
         Valid(q, d, n, ph)
  PROVE  AllValid(Append(qs, q), d, n, ph)
<1> SUFFICES ASSUME NEW k \in 1 .. Len(Append(qs, q)) PROVE Valid(Append(qs, q)[k], d, n, ph)
  BY DEF AllValid
<1>1. Len(qs) \in Nat /\ Len(Append(qs, q)) = Len(qs) + 1
  OBVIOUS
<1>2. CASE k = Len(qs) + 1
  BY <1>2
<1>3. CASE k # Len(qs) + 1
  <2>1. k \in 1 .. Len(qs)
    BY <1>1, <1>3
  <2>2. Append(qs, q)[k] = qs[k]
    BY <2>1
  <2> QED BY <2>1, <2>2 DEF AllValid
<1> QED BY <1>2, <1>3

LEMMA AppendInOrder ==
  ASSUME NEW qs \in Seq(Query), NEW q, InOrder(qs), \A k \in 1 .. Len(qs) : Compatible(qs[k], q)
  PROVE  InOrder(Append(qs, q))
<1> SUFFICES ASSUME NEW j \in 1 .. Len(Append(qs, q)), NEW k \in 1 .. Len(Append(qs, q)), j < k
             PROVE  Compatible(Append(qs, q)[j], Append(qs, q)[k])
  BY DEF InOrder
<1>1. Len(qs) \in Nat /\ Len(Append(qs, q)) = Len(qs) + 1
  OBVIOUS
<1>2. j \in 1 .. Len(qs) /\ Append(qs, q)[j] = qs[j]
  BY <1>1
<1>3. CASE k = Len(qs) + 1
  BY <1>2, <1>3
<1>4. CASE k # Len(qs) + 1
  <2>1. k \in 1 .. Len(qs) /\ Append(qs, q)[k] = qs[k]
    BY <1>1, <1>4
  <2> QED BY <1>2, <2>1 DEF InOrder
<1> QED BY <1>3, <1>4

LEMMA TailFacts ==
  ASSUME NEW qs \in Seq(Query), qs # <<>>
  PROVE  /\ \A k \in 1 .. Len(Tail(qs)) : k + 1 \in 1 .. Len(qs) /\ Tail(qs)[k] = qs[k + 1] /\ 1 < k + 1
         /\ 1 \in 1 .. Len(qs) /\ Head(qs) = qs[1]
  OBVIOUS

LEMMA TailKeeps ==
  ASSUME NEW qs \in Seq(Query), qs # <<>>, NEW d, NEW n, NEW ph, AllValid(qs, d, n, ph), InOrder(qs)
  PROVE  /\ AllValid(Tail(qs), d, n, ph) /\ InOrder(Tail(qs)) /\ Valid(Head(qs), d, n, ph)
         /\ \A k \in 1 .. Len(Tail(qs)) : Compatible(Head(qs), Tail(qs)[k])
<1>1. AllValid(Tail(qs), d, n, ph) /\ Valid(Head(qs), d, n, ph)
  BY TailFacts DEF AllValid
<1>2. InOrder(Tail(qs))
  <2> SUFFICES ASSUME NEW j \in 1 .. Len(Tail(qs)), NEW k \in 1 .. Len(Tail(qs)), j < k
               PROVE  Compatible(Tail(qs)[j], Tail(qs)[k])
    BY DEF InOrder
  <2>1. /\ j + 1 \in 1 .. Len(qs) /\ Tail(qs)[j] = qs[j + 1] 
        /\ k + 1 \in 1 .. Len(qs) /\ Tail(qs)[k] = qs[k + 1]
    BY TailFacts
  <2>2. j + 1 < k + 1
    OBVIOUS
  <2> QED BY <2>1, <2>2 DEF InOrder
<1>3. \A k \in 1 .. Len(Tail(qs)) : Compatible(Head(qs), Tail(qs)[k])
  BY TailFacts DEF InOrder
<1> QED BY <1>1, <1>2, <1>3

\* The first query is dropped.
LEMMA TailWorld ==
  ASSUME NEW d, NEW b, NEW B, NEW n, NEW A, NEW ph, NEW qs \in Seq(Query), qs # <<>>,
         World(d, b, B, n, A, ph, qs), InOrder(qs)
  PROVE  World(d, b, B, n, A, ph, Tail(qs)) /\ InOrder(Tail(qs))
<1>1. Apart(d) /\ Rows(d, n) /\ Away(d, A) /\ Memory(b, B, d, n, ph) /\ AllValid(qs, d, n, ph)
  BY WorldParts
<1>2. AllValid(Tail(qs), d, n, ph) /\ InOrder(Tail(qs))
  BY <1>1, TailKeeps
<1> QED BY <1>1, <1>2 DEF World

\* What a login reads is what the tables say.
LEMMA LoadedValid ==
  ASSUME disk \in Tables, NEW n, Rows(disk, n), NEW c \in Chars
  PROVE  Loaded(c).bag = Owned(c, disk) /\ Boxed(c, Loaded(c).box, disk, n)
<1>1. Loaded(c).bag = Owned(c, disk)
  BY LoadedFields, MailAssumption DEF Rows, Owned
<1>2. \A m \in Loaded(c).box : \E r \in disk.mails : r.receiver = c /\ m = EntryIn(r) /\ r \in MailRow
  BY LoadedFields, TablesFields
<1>3. \A m, l \in Loaded(c).box : m.id = l.id => m = l
  <2> SUFFICES ASSUME NEW m \in Loaded(c).box, NEW l \in Loaded(c).box, m.id = l.id PROVE m = l
    OBVIOUS
  <2>1. PICK r \in disk.mails : m = EntryIn(r) /\ r \in MailRow
    BY <1>2
  <2>2. PICK s \in disk.mails : l = EntryIn(s) /\ s \in MailRow
    BY <1>2
  <2>3. r.id = s.id
    BY <2>1, <2>2, EntryInFields
  <2> QED BY <2>1, <2>2, <2>3 DEF Rows
<1>4. ASSUME NEW m \in Loaded(c).box
      PROVE  /\ m.id < n /\ (m.item # Nobody => Posted(disk, m.id, m.item, c))
             /\ \A x \in disk.mitems : x.mail = m.id => x.receiver = c
  <2>1. PICK r \in disk.mails : r.receiver = c /\ m = EntryIn(r) /\ r \in MailRow
    BY <1>2
  <2>2. m.id = r.id /\ m.item = MailedItem(r)
    BY <2>1, EntryInFields
  <2>3. m.item # Nobody => Posted(disk, m.id, m.item, c)
    <3> SUFFICES ASSUME m.item # Nobody PROVE Posted(disk, m.id, m.item, c)
      OBVIOUS
    <3>1. PICK x \in disk.mitems : x.mail = r.id /\ x.receiver = r.receiver /\ x.item = MailedItem(r)
      BY <2>2, MailedItemIs
    <3> QED BY <2>1, <2>2, <3>1, PostedRow
  <2> QED BY <2>1, <2>2, <2>3 DEF Rows
<1> QED BY <1>1, <1>3, <1>4 DEF Boxed

LEMMA LoginStartKeeps ==
  ASSUME IInv, ~SlowLookup, NEW c \in Chars, LoginStart(c), UNCHANGED aucVars
  PROVE  IInv'
<1> DEFINE q == [kind |-> "login", char |-> c, rows |-> Loaded(c)]
<1>1. /\ pend = <<>> /\ phase[c] = "off" /\ ~LookedUp(c)
      /\ phase' = [phase EXCEPT ![c] = "loading"] /\ queries' = Append(queries, q)
      /\ UNCHANGED <<disk, pend, exists, memVars, nextMail, olds>>
  BY DEF LoginStart, Ask, Idle
<1>2. /\ disk \in Tables /\ queries \in Seq(Query) /\ InOrder(queries) /\ TypeOK
      /\ World(disk, bag, box, nextMail, auctions, phase, queries)
  BY <1>1, IdleFacts
<1>3. TypeOK'
  BY <1>2, LoginStartType
<1>4. /\ Apart(disk) /\ Rows(disk, nextMail) /\ Away(disk, auctions)
      /\ Memory(bag, box, disk, nextMail, phase) /\ AllValid(queries, disk, nextMail, phase)
  BY <1>2, WorldParts
<1>5. Loaded(c).bag = Owned(c, disk) /\ Boxed(c, Loaded(c).box, disk, nextMail)
  BY <1>2, <1>4, LoadedValid
<1>6. q.kind = "login" /\ q.char = c /\ q.rows = Loaded(c)
  OBVIOUS
<1> HIDE DEF q
<1>7. phase'[c] = "loading" /\ \A x \in Chars : x # c => phase'[x] = phase[x]
  BY <1>1, <1>2 DEF TypeOK
<1>8. Valid(q, disk, nextMail, phase')
  BY <1>5, <1>6, <1>7 DEF Valid, Loads, Finds, LooksUp
<1>9. AllValid(queries, disk, nextMail, phase')
  <2> SUFFICES ASSUME NEW k \in 1 .. Len(queries) PROVE Valid(queries[k], disk, nextMail, phase')
    BY DEF AllValid
  <2>1. queries[k] \in Query /\ Valid(queries[k], disk, nextMail, phase)
    BY <1>2, <1>4 DEF AllValid
  <2>2. Loads(queries[k], disk, nextMail, phase')
    <3> SUFFICES ASSUME queries[k].kind = "login" PROVE Loads(queries[k], disk, nextMail, phase')
      BY DEF Loads
    <3>1. queries[k].char \in Chars /\ phase[queries[k].char] = "loading"
      BY <2>1, QueryFields DEF Valid, Loads
    <3>2. phase'[queries[k].char] = "loading"
      BY <1>7, <3>1
    <3> QED BY <2>1, <3>2 DEF Valid, Loads
  <2>3. LooksUp(queries[k], disk, phase')
    <3> SUFFICES ASSUME queries[k].kind = "single" PROVE LooksUp(queries[k], disk, phase')
      BY DEF LooksUp
    <3>1. queries[k].row.receiver \in Chars /\ queries[k].row.receiver # c
      BY <1>1, <2>1, QueryFields DEF LookedUp
    <3>2. phase'[queries[k].row.receiver] = phase[queries[k].row.receiver]
      BY <1>7, <3>1
    <3> QED BY <2>1, <3>2 DEF Valid, LooksUp
  <2> QED BY <2>1, <2>2, <2>3 DEF Valid
<1>10. \A k \in 1 .. Len(queries) : Compatible(queries[k], q)
  <2> SUFFICES ASSUME NEW k \in 1 .. Len(queries) PROVE Compatible(queries[k], q)
    OBVIOUS
  <2>1. Valid(queries[k], disk, nextMail, phase)
    BY <1>4 DEF AllValid
  <2>2. queries[k].kind = "login" => queries[k].char # c
    BY <1>1, <2>1 DEF Valid, Loads
  <2>3. queries[k].kind = "single" => queries[k].row.receiver # c
    BY <1>1 DEF LookedUp
  <2> QED BY <1>6, <2>2, <2>3 DEF Compatible
<1>11. InOrder(queries') /\ AllValid(queries', disk, nextMail, phase')
  BY <1>1, <1>2, <1>8, <1>9, <1>10, AppendValid, AppendInOrder
<1>12. Memory(bag, box, disk, nextMail, phase')
  <2>1. \A x \in Chars : phase'[x] = "on" <=> phase[x] = "on"
    BY <1>1, <1>7
  <2> QED BY <1>4, <2>1 DEF Memory
<1>13. bag' = bag /\ box' = box /\ nextMail' = nextMail
  BY <1>1 DEF memVars
<1>14. World(disk, bag', box', nextMail', auctions, phase', queries')
  BY <1>4, <1>11, <1>12, <1>13 DEF World
<1> QED BY <1>1, <1>3, <1>11, <1>14, ConcludeIdle

LEMMA LoginDoneKeeps ==
  ASSUME IInv, LoginDone, UNCHANGED aucVars
  PROVE  IInv'
<1>1. TypeOK /\ TypeOK'
  BY LoginDoneType DEF IInv
<1>2. PICK q \in Query : q = Head(queries)
  BY <1>1, AnsweredHead DEF LoginDone
<1>3. /\ pend = <<>> /\ queries # <<>> /\ q.kind = "login"
  BY <1>1, <1>2, AnsweredHead DEF LoginDone
<1>4. /\ queries' = Tail(queries)
      /\ phase' = [phase EXCEPT ![q.char] = "on"]
      /\ bag' = [bag EXCEPT ![q.char] = q.rows.bag]
      /\ box' = [box EXCEPT ![q.char] = q.rows.box]
      /\ UNCHANGED <<disk, pend, exists, nextMail, olds>>
  BY <1>2 DEF LoginDone
<1>5. /\ disk \in Tables /\ queries \in Seq(Query) /\ InOrder(queries)
      /\ World(disk, bag, box, nextMail, auctions, phase, queries)
  BY <1>3, IdleFacts
<1>6. /\ Apart(disk) /\ Rows(disk, nextMail) /\ Away(disk, auctions)
      /\ Memory(bag, box, disk, nextMail, phase) /\ AllValid(queries, disk, nextMail, phase)
  BY <1>5, WorldParts
<1>7. /\ AllValid(Tail(queries), disk, nextMail, phase) /\ InOrder(Tail(queries))
      /\ Valid(q, disk, nextMail, phase)
      /\ \A k \in 1 .. Len(Tail(queries)) : Compatible(q, Tail(queries)[k])
  BY <1>2, <1>3, <1>5, <1>6, TailKeeps
<1>8. /\ q.char \in Chars /\ q.rows.bag = Owned(q.char, disk)
      /\ Boxed(q.char, q.rows.box, disk, nextMail)
  BY <1>3, <1>7, QueryFields DEF Valid, Loads
<1>9. /\ phase'[q.char] = "on" /\ bag'[q.char] = q.rows.bag /\ box'[q.char] = q.rows.box
      /\ \A x \in Chars : x # q.char => phase'[x] = phase[x] /\ bag'[x] = bag[x] /\ box'[x] = box[x]
  BY <1>1, <1>4, <1>8 DEF TypeOK
<1>10. Memory(bag', box', disk, nextMail, phase')
  BY <1>6, <1>8, <1>9 DEF Memory
<1>11. AllValid(Tail(queries), disk, nextMail, phase')
  <2> DEFINE qs == Tail(queries)
  <2> SUFFICES ASSUME NEW k \in 1 .. Len(qs) PROVE Valid(qs[k], disk, nextMail, phase')
    BY DEF AllValid
  <2>1. qs[k] \in Query
    <3>1. qs \in Seq(Query)
      BY <1>3, <1>5, SeqFacts
    <3> HIDE DEF qs
    <3> QED BY <3>1
  <2>2. Valid(qs[k], disk, nextMail, phase) /\ Compatible(q, qs[k])
    BY <1>7 DEF AllValid
  <2> HIDE DEF qs
  <2>3. Loads(qs[k], disk, nextMail, phase')
    <3> SUFFICES ASSUME qs[k].kind = "login" PROVE Loads(qs[k], disk, nextMail, phase')
      BY DEF Loads
    <3>1. qs[k].char \in Chars /\ phase[qs[k].char] = "loading" /\ qs[k].char # q.char
      BY <1>3, <2>1, <2>2, QueryFields DEF Valid, Loads, Compatible
    <3>2. phase'[qs[k].char] = "loading"
      BY <1>9, <3>1
    <3> QED BY <2>2, <3>2 DEF Valid, Loads
  <2>4. LooksUp(qs[k], disk, phase')
    <3> SUFFICES ASSUME qs[k].kind = "single", phase'[qs[k].row.receiver] # "on"
                 PROVE  LooksUp(qs[k], disk, phase')
      BY DEF LooksUp
    <3>1. qs[k].row.receiver \in Chars /\ qs[k].row.receiver # q.char
      BY <1>9, <2>1, QueryFields
    <3>2. phase'[qs[k].row.receiver] = phase[qs[k].row.receiver]
      BY <1>9, <3>1
    <3> QED BY <2>2, <3>2 DEF Valid, LooksUp
  <2> QED BY <2>2, <2>3, <2>4 DEF Valid
<1>12. InOrder(queries') /\ World(disk, bag', box', nextMail', auctions, phase', queries')
  BY <1>4, <1>6, <1>7, <1>10, <1>11 DEF World
<1> QED BY <1>1, <1>3, <1>4, <1>12, ConcludeIdle

LEMMA LessAuctions ==
  ASSUME NEW d, NEW b, NEW B, NEW n, NEW A, NEW A2 \in SUBSET A, NEW ph, NEW qs,
         World(d, b, B, n, A, ph, qs)
  PROVE  World(d, b, B, n, A2, ph, qs)
  BY DEF World, Away

\* Characters leave with nobody looking up their old mails: nothing but their
\* deleted mails, with the items in them, is gone.
LEMMA LeaveWorld ==
  ASSUME IInv, pend = <<>>, NEW cs \in SUBSET Chars, \A c \in cs : On(c) /\ NoLookup(queries, c),
         Leave(cs), NEW e, SaveBoxes(cs) = <<>> => e = disk,
         SaveBoxes(cs) # <<>> => e = SaveBoxes(cs)[Len(SaveBoxes(cs))]
  PROVE  /\ e \in Tables /\ World(e, bag', box', nextMail, auctions, phase', queries)
         /\ e.auctions = auctions /\ \A k \in 1 .. Len(SaveBoxes(cs)) : Apart(SaveBoxes(cs)[k])
         /\ \A a \in auctions : e.inst[a.item] = disk.inst[a.item]
<1>1. /\ disk \in Tables /\ queries \in Seq(Query) /\ nextMail \in Nat
      /\ box \in [Chars -> SUBSET MailEntry] /\ auctions \in SUBSET Auction
      /\ World(disk, bag, box, nextMail, auctions, phase, queries) /\ disk.auctions = auctions
  BY IdleFacts
<1>2. /\ Apart(disk) /\ Rows(disk, nextMail) /\ Away(disk, auctions)
      /\ Memory(bag, box, disk, nextMail, phase)
  BY <1>1, WorldParts
<1>3. /\ \A c \in Chars : IF c \in cs THEN phase'[c] = "off" /\ bag'[c] = {} /\ box'[c] = {}
                          ELSE phase'[c] = phase[c] /\ bag'[c] = bag[c] /\ box'[c] = box[c]
  BY DEF Leave
<1>4. ASSUME NEW m \in GoneOf(cs) PROVE \E c \in cs : m \in box[c] /\ m \in MailEntry
  BY <1>1, <1>4 DEF GoneOf, Gone
<1>5. ASSUME NEW x \in disk.mitems, x.mail \in IdsOf(GoneOf(cs)) PROVE x.receiver \in cs
  <2>1. PICK m \in GoneOf(cs) : x.mail = m.id
    BY <1>5 DEF IdsOf
  <2>2. PICK c \in cs : m \in box[c]
    BY <1>4
  <2>3. Boxed(c, box[c], disk, nextMail)
    BY <1>2 DEF Memory, On
  <2> QED BY <2>1, <2>2, <2>3 DEF Boxed
<1>6. ASSUME NEW i \in Items, i \in ItemsIn(GoneOf(cs))
      PROVE  \E x \in disk.mitems : x.item = i
  <2>1. PICK m \in GoneOf(cs) : i = m.item /\ i # Nobody
    BY <1>6 DEF ItemsIn
  <2>2. PICK c \in cs : m \in box[c]
    BY <1>4
  <2>3. Boxed(c, box[c], disk, nextMail)
    BY <1>2 DEF Memory, On
  <2>4. Posted(disk, m.id, m.item, c)
    BY <2>1, <2>2, <2>3 DEF Boxed
  <2> QED BY <2>1, <2>4, PostedIs
<1>7. /\ e \in Tables /\ Trimmed(e) /\ e.mails \subseteq disk.mails
      /\ \A x \in disk.mitems : x \in e.mitems \/ x.mail \in IdsOf(GoneOf(cs))
      /\ \A i \in Items : i \notin ItemsIn(GoneOf(cs)) => e.inst[i] = disk.inst[i]
      /\ \A k \in 1 .. Len(SaveBoxes(cs)) : Apart(SaveBoxes(cs)[k])
  <2>1. CASE SaveBoxes(cs) = <<>>
    BY <1>1, <2>1 DEF Trimmed
  <2>2. CASE SaveBoxes(cs) # <<>>
    <3>1. PICK d1 \in Tables, d2 \in Tables, d3 \in Tables :
            /\ SaveBoxes(cs) = <<d1, d2, d3>> /\ Trimmed(d1) /\ Trimmed(d2) /\ Trimmed(d3)
            /\ d3.mitems = {x \in disk.mitems : x.mail \notin IdsOf(GoneOf(cs))}
            /\ d3.mails \subseteq disk.mails
            /\ \A i \in Items : i \notin ItemsIn(GoneOf(cs)) => d3.inst[i] = disk.inst[i]
      BY <1>1, <2>2, SaveBoxesFields
    <3>2. e = d3
      BY <2>2, <3>1
    <3>3. Apart(d1) /\ Apart(d2) /\ Apart(d3)
      BY <1>2, <3>1, ApartTrim DEF Trimmed
    <3>4. \A k \in 1 .. Len(SaveBoxes(cs)) : Apart(SaveBoxes(cs)[k])
      <4>1. Len(<<d1, d2, d3>>) = 3
        OBVIOUS
      <4> QED BY <3>1, <3>3, <4>1
    <3> QED BY <3>1, <3>2, <3>4
  <2> QED BY <2>1, <2>2
<1>8. Fewer(disk, e)
  <2>1. \A i \in Items : disk.inv[i] # Nobody => e.inst[i] = disk.inst[i]
    BY <1>2, <1>6, <1>7 DEF Apart
  <2>2. Follow(disk.mails, e.mails)
    BY <1>7, SubsetFollows
  <2> QED BY <1>7, <2>1, <2>2 DEF Fewer, Trimmed
<1>9. World(e, bag, box', nextMail, auctions, phase, queries)
  <2>1. ASSUME NEW c \in cs PROVE phase[c] = "on" /\ Boxed(c, box'[c], e, nextMail)
    <3>1. phase[c] = "on" /\ box'[c] = {}
      BY <1>3, <2>1 DEF On
    <3> QED BY <3>1 DEF Boxed
  <2>2. ASSUME NEW c \in Chars, c \notin cs
        PROVE  box'[c] = box[c] /\ \A x \in disk.mitems : x.receiver = c => x \in e.mitems
    BY <1>3, <1>5, <1>7, <2>2
  <2> QED BY <1>1, <1>7, <1>8, <2>1, <2>2, DropWorld
<1>10. World(e, bag', box', nextMail, auctions, phase', queries)
  <2>1. \A c \in Chars : \/ phase'[c] = phase[c] /\ bag'[c] = bag[c]
                         \/ /\ phase[c] = "on" /\ phase'[c] = "off" /\ box'[c] = {} /\ bag'[c] = {}
                            /\ NoLookup(queries, c)
    BY <1>3 DEF On
  <2> QED BY <1>1, <1>9, <2>1, DepartWorld
<1>11. ASSUME NEW a \in auctions PROVE e.inst[a.item] = disk.inst[a.item]
  <2>1. a.item \in Items
    BY <1>1, AuctionFields
  <2>2. a.item \notin ItemsIn(GoneOf(cs))
    BY <1>2, <1>6, <2>1 DEF Away
  <2> QED BY <1>7, <2>1, <2>2
<1> QED BY <1>1, <1>7, <1>10, <1>11 DEF Trimmed

LEMMA LogoutKeeps ==
  ASSUME IInv, ~SlowLookup, NEW c \in Chars, LogoutPlayer(c), UNCHANGED aucVars
  PROVE  IInv'
<1> DEFINE log == SaveBoxes({c})
           e == IF log = <<>> THEN disk ELSE log[Len(log)]
<1>1. TypeOK /\ TypeOK'
  BY LogoutType DEF IInv
<1>2. /\ pend = <<>> /\ On(c) /\ ~LookedUp(c) /\ Leave({c}) /\ pend' = log
      /\ UNCHANGED <<disk, exists, nextMail, queryVars>>
  BY DEF LogoutPlayer, Idle
<1>3. NoLookup(queries, c)
  BY <1>2 DEF NoLookup, LookedUp
<1>4. /\ log = <<>> => e = disk
      /\ log # <<>> => e = log[Len(log)]
  OBVIOUS
<1> HIDE DEF e
<1>5. /\ World(e, bag', box', nextMail, auctions, phase', queries) /\ e.auctions = auctions
      /\ \A k \in 1 .. Len(log) : Apart(log[k])
  BY <1>2, <1>3, <1>4, LeaveWorld
<1> HIDE DEF log
<1>6. InOrder(queries) /\ Numbered(auctions, nextAuction)
  BY <1>2, IdleFacts
<1>7. nextMail' = nextMail /\ queries' = queries /\ auctions' = auctions /\ nextAuction' = nextAuction
  BY <1>2 DEF queryVars, aucVars
<1> QED BY <1>1, <1>2, <1>4, <1>5, <1>6, <1>7, Conclude

LEMMA RestartWorld ==
  ASSUME IInv, Restart
  PROVE  /\ Final \in Tables /\ World(Final, bag', box', nextMail, auctions, phase', queries)
         /\ Final.auctions = auctions
         /\ \A k \in 1 .. Len(SaveBoxes(Online)) : Apart(SaveBoxes(Online)[k])
         /\ \A a \in auctions : Final.inst[a.item] = disk.inst[a.item]
<1>1. pend = <<>> /\ queries = <<>> /\ Leave(Online)
  BY RestartIs
<1>2. Online \in SUBSET Chars /\ \A c \in Online : On(c) /\ NoLookup(queries, c)
  <2>1. Len(queries) = 0
    BY <1>1
  <2> QED BY <2>1 DEF Online, NoLookup
<1>3. /\ SaveBoxes(Online) = <<>> => Final = disk
      /\ SaveBoxes(Online) # <<>> => Final = SaveBoxes(Online)[Len(SaveBoxes(Online))]
  BY DEF Final
<1> QED BY <1>1, <1>2, <1>3, LeaveWorld

LEMMA RestartKeeps ==
  ASSUME IInv, Restart
  PROVE  IInv'
<1>1. TypeOK /\ TypeOK'
  BY RestartType DEF IInv
<1>2. /\ pend = <<>> /\ auctions' = Surviving
      /\ pend' = IF Surviving = Final.auctions THEN SaveBoxes(Online)
                 ELSE Append(SaveBoxes(Online), Reloaded)
      /\ UNCHANGED <<disk, exists, nextMail, queryVars, nextAuction>>
  BY RestartIs
<1>3. /\ Final \in Tables /\ World(Final, bag', box', nextMail, auctions, phase', queries)
      /\ Final.auctions = auctions
      /\ \A k \in 1 .. Len(SaveBoxes(Online)) : Apart(SaveBoxes(Online)[k])
  BY RestartWorld
<1>4. /\ disk \in Tables /\ queries \in Seq(Query) /\ nextMail \in Nat
      /\ InOrder(queries) /\ Numbered(auctions, nextAuction)
  BY <1>2, IdleFacts
<1>5. Surviving \subseteq auctions
  BY <1>3, <1>4, ReloadedFields
<1>6. World(Final, bag', box', nextMail, Surviving, phase', queries)
  BY <1>3, <1>5, LessAuctions
<1>7. nextMail' = nextMail /\ queries' = queries /\ nextAuction' = nextAuction
  BY <1>2 DEF queryVars
<1>8. Numbered(auctions', nextAuction')
  BY <1>2, <1>4, <1>5, <1>7 DEF Numbered
<1>9. CASE Surviving = Final.auctions
  <2>1. /\ SaveBoxes(Online) = <<>> => Final = disk
        /\ SaveBoxes(Online) # <<>> => SaveBoxes(Online)[Len(SaveBoxes(Online))] = Final
    BY DEF Final
  <2> QED BY <1>1, <1>2, <1>3, <1>4, <1>6, <1>7, <1>8, <1>9, <2>1, Conclude
<1>10. CASE Surviving # Final.auctions
  <2>1. /\ Reloaded \in Tables /\ Reloaded.inv = Final.inv /\ Reloaded.inst = Final.inst
        /\ Reloaded.mails = Final.mails /\ Reloaded.mitems = Final.mitems
        /\ Reloaded.auctions = Surviving
    BY <1>4, ReloadedFields
  <2>2. Alike(Final, Reloaded)
    BY <2>1, SubsetFollows DEF Alike
  <2>3. box' \in [Chars -> SUBSET MailEntry]
    BY <1>1 DEF TypeOK
  <2>4. World(Reloaded, bag', box', nextMail, Surviving, phase', queries)
    BY <1>3, <1>4, <1>6, <2>1, <2>2, <2>3, SameWorld
  <2>5. Apart(Reloaded)
    BY <2>4, WorldParts
  <2>6. PICK log \in Seq(Tables) : log = SaveBoxes(Online)
    BY <1>4, SaveBoxesType
  <2>7. pend' = Append(log, Reloaded)
    BY <1>2, <1>10, <2>6
  <2>8. /\ Len(pend') = Len(log) + 1 /\ pend'[Len(pend')] = Reloaded /\ pend' # <<>>
        /\ \A k \in 1 .. Len(pend') : pend'[k] = Reloaded \/ (k \in 1 .. Len(log) /\ pend'[k] = log[k])
    BY <2>7
  <2>9. \A k \in 1 .. Len(pend') : Apart(pend'[k])
    BY <1>3, <2>5, <2>6, <2>8
  <2> QED BY <1>1, <1>2, <1>4, <1>7, <1>8, <2>1, <2>4, <2>8, <2>9, Conclude
<1> QED BY <1>9, <1>10

\* Statements after which the tables are alike.
LEMMA SaveGoldAlike ==
  ASSUME NEW d \in Tables, NEW c \in Chars, NEW g \in Copper
  PROVE  /\ SaveGold(d, c, g) \in Tables /\ Alike(d, SaveGold(d, c, g))
         /\ SaveGold(d, c, g).auctions = d.auctions
  BY SaveGoldFields, SubsetFollows DEF Alike

LEMMA SetOwnerAlike ==
  ASSUME NEW d \in Tables, NEW i \in Items, NEW c \in Chars, NEW A, Spare(i, d, A)
  PROVE  /\ SetOwner(d, i, c) \in Tables /\ Alike(d, SetOwner(d, i, c))
         /\ Spare(i, SetOwner(d, i, c), A) /\ SetOwner(d, i, c).auctions = d.auctions
<1> DEFINE e == SetOwner(d, i, c)
<1>1. /\ e \in Tables /\ e.inv = d.inv /\ e.mails = d.mails /\ e.mitems = d.mitems
      /\ e.auctions = d.auctions /\ \A x \in Items : x # i => e.inst[x] = d.inst[x]
  BY SetOwnerFields
<1>2. d.inv[i] = Nobody
  BY MailAssumption DEF Spare
<1> HIDE DEF e
<1>3. Follow(d.mails, e.mails)
  BY <1>1, SubsetFollows
<1>4. Alike(d, e) /\ Spare(i, e, A)
  BY <1>1, <1>2, <1>3 DEF Alike, Spare
<1> QED BY <1>1, <1>4 DEF e

LEMMA DeleteItemAlike ==
  ASSUME NEW d \in Tables, NEW i \in Items, NEW A, Spare(i, d, A)
  PROVE  /\ DeleteItem(d, i) \in Tables /\ Alike(d, DeleteItem(d, i))
         /\ DeleteItem(d, i).auctions = d.auctions
<1> DEFINE e == DeleteItem(d, i)
<1>1. /\ e \in Tables /\ e.inv = d.inv /\ e.mails = d.mails /\ e.mitems = d.mitems
      /\ e.auctions = d.auctions /\ \A x \in Items : x # i => e.inst[x] = d.inst[x]
  BY DeleteItemFields
<1>2. d.inv[i] = Nobody
  BY MailAssumption DEF Spare
<1> HIDE DEF e
<1>3. Follow(d.mails, e.mails)
  BY <1>1, SubsetFollows
<1>4. Alike(d, e)
  BY <1>1, <1>2, <1>3 DEF Alike
<1> QED BY <1>1, <1>4 DEF e

LEMMA HandedAlike ==
  ASSUME NEW d \in Tables, NEW t \in DraftType, NEW A, Spare(t.item, d, A)
  PROVE  /\ Handed(d, t) \in Tables /\ Alike(d, Handed(d, t))
         /\ Spare(t.item, Handed(d, t), A) /\ Handed(d, t).auctions = d.auctions
<1>1. t.to \in Chars /\ t.item \in Items \cup {Nobody}
  BY DEF DraftType
<1>2. CASE t.item = Nobody
  <2>1. Handed(d, t) = d
    BY <1>2 DEF Handed
  <2>2. Alike(d, d)
    BY SubsetFollows DEF Alike
  <2> QED BY <2>1, <2>2
<1>3. CASE t.item # Nobody
  BY <1>1, <1>3, SetOwnerAlike DEF Handed
<1> QED BY <1>2, <1>3

\* The mail of the draft t arrives.
LEMMA ArriveWorld ==
  ASSUME NEW d \in Tables, NEW n \in Nat, NEW t \in DraftType, NEW b,
         NEW B \in [Chars -> SUBSET MailEntry], NEW A, NEW qs \in Seq(Query),
         World(d, b, B, n, A, phase, qs), Spare(t.item, d, A)
  PROVE  World(InsertMail(d, n, t), b, AddMail(B, n, t), n + 1, A, phase, qs)
<1>1. \A c \in Chars : AddMail(B, n, t)[c] = IF c = t.to /\ phase[c] = "on"
                                             THEN B[c] \cup {EntryOf(n, t)} ELSE B[c]
  BY AddMailFields DEF On
<1> QED BY <1>1, PostWorld

LEMMA SendWorld ==
  ASSUME TypeOK, NEW q \in DraftType, q.from \in Chars, Sendable(q), Send(q), NEW qs \in Seq(Query),
         World(disk, bag, box, nextMail, auctions, phase, qs)
  PROVE  LET e == SaveGold(SendIn(q), q.from, Paid(q))
         IN  /\ World(e, bag', box', nextMail', auctions, phase, qs)
             /\ Apart(SendOff(q)) /\ Apart(SendIn(q)) /\ Apart(e)
             /\ e.auctions = disk.auctions
<1>1. /\ disk \in Tables /\ nextMail \in Nat /\ bag \in [Chars -> SUBSET Items]
      /\ box \in [Chars -> SUBSET MailEntry] /\ auctions \in SUBSET Auction
  BY MailAssumption DEF TypeOK
<1>2. /\ bag' = [bag EXCEPT ![q.from] = @ \ {q.item}] /\ box' = AddMail(box, nextMail, q)
      /\ nextMail' = nextMail + 1
  BY SendIs
<1>3. q.item \in Items \cup {Nobody} /\ q.to \in Chars
  BY DEF DraftType
<1>4. /\ SendOff(q) \in Tables /\ SendIn(q) \in Tables /\ Paid(q) \in Copper
  BY SendTables
<1>5. /\ World(SendOff(q), bag', box, nextMail, auctions, phase, qs)
      /\ Spare(q.item, SendOff(q), auctions) /\ SendOff(q).auctions = disk.auctions
  <2>1. CASE q.item = Nobody
    <3>1. bag' = bag
      <4>1. Nobody \notin bag[q.from]
        BY <1>1, MailAssumption
      <4> QED BY <1>1, <1>2, <2>1, <4>1
    <3>2. SendOff(q) = disk
      BY <2>1 DEF SendOff
    <3> QED BY <2>1, <3>1, <3>2 DEF Spare
  <2>2. CASE q.item # Nobody
    <3> DEFINE f == DeleteFromInventory(disk, q.item)
    <3>1. q.item \in Items /\ q.item \in bag[q.from] /\ phase[q.from] = "on"
      BY <1>3, <2>2 DEF Sendable, On
    <3>2. /\ World(f, bag', box, nextMail, auctions, phase, qs) /\ Spare(q.item, f, auctions)
      BY <1>1, <1>2, <3>1, TakeAwayWorld
    <3>3. f \in Tables /\ f.auctions = disk.auctions
      BY <1>1, <3>1, DeleteFromInventoryFields
    <3>4. SendOff(q) = SetOwner(f, q.item, q.to)
      BY <2>2 DEF SendOff
    <3> HIDE DEF f
    <3>5. /\ Alike(f, SendOff(q)) /\ Spare(q.item, SendOff(q), auctions)
          /\ SendOff(q).auctions = f.auctions
      BY <1>3, <3>1, <3>2, <3>3, <3>4, SetOwnerAlike
    <3> QED BY <1>1, <1>4, <3>2, <3>3, <3>5, SameWorld
  <2> QED BY <2>1, <2>2
<1>6. World(SendIn(q), bag', box', nextMail', auctions, phase, qs)
  BY <1>1, <1>2, <1>4, <1>5, ArriveWorld DEF SendIn
<1>7. SendIn(q).auctions = SendOff(q).auctions
  BY <1>1, <1>4, InsertMailFields DEF SendIn
<1> DEFINE e == SaveGold(SendIn(q), q.from, Paid(q))
<1>8. e \in Tables /\ Alike(SendIn(q), e) /\ e.auctions = SendIn(q).auctions
  BY <1>4, SaveGoldAlike
<1> HIDE DEF e
<1>9. nextMail' \in Nat /\ box' \in [Chars -> SUBSET MailEntry]
  <2>1. AddMail(box, nextMail, q) \in [Chars -> SUBSET MailEntry]
    BY <1>1, AddMailFields
  <2>2. nextMail + 1 \in Nat
    BY <1>1
  <2>3. nextMail' = nextMail + 1 /\ box' = AddMail(box, nextMail, q)
    BY <1>2
  <2> QED BY <2>1, <2>2, <2>3
<1>10. World(e, bag', box', nextMail', auctions, phase, qs)
  BY <1>4, <1>6, <1>8, <1>9, SameWorld
<1>11. Apart(SendOff(q)) /\ Apart(SendIn(q)) /\ Apart(e)
  BY <1>5, <1>6, <1>10, WorldParts
<1> QED BY <1>5, <1>7, <1>8, <1>10, <1>11 DEF e

\* A step of the mail component that queues up to three transactions.
LEMMA ConcludeThree ==
  ASSUME IInv, pend = <<>>, TypeOK', UNCHANGED <<disk, aucVars>>, NEW d1, NEW d2, NEW e,
         pend' = <<d1, d2, e>> \/ pend' = <<d1, e>> \/ pend' = <<e>>,
         World(e, bag', box', nextMail', auctions, phase', queries'),
         Apart(d1), Apart(d2), InOrder(queries'), e.auctions = disk.auctions
  PROVE  IInv'
<1>1. auctions' = auctions /\ nextAuction' = nextAuction
  BY DEF aucVars
<1>2. disk.auctions = auctions /\ Numbered(auctions, nextAuction)
  BY IdleFacts
<1>3. Apart(e)
  BY WorldParts
<1>4. pend' # <<>> /\ pend'[Len(pend')] = e /\ \A k \in 1 .. Len(pend') : Apart(pend'[k])
  <2>1. CASE pend' = <<d1, d2, e>>
    <3>1. Len(<<d1, d2, e>>) = 3
      OBVIOUS
    <3> QED BY <1>3, <2>1, <3>1
  <2>2. CASE pend' = <<d1, e>>
    <3>1. Len(<<d1, e>>) = 2
      OBVIOUS
    <3> QED BY <1>3, <2>2, <3>1
  <2>3. CASE pend' = <<e>>
    BY <1>3, <2>3
  <2> QED BY <2>1, <2>2, <2>3
<1> QED BY <1>1, <1>2, <1>4, Conclude

LEMMA SendKeeps ==
  ASSUME IInv, pend = <<>>, TypeOK', UNCHANGED <<disk, phase, aucVars>>,
         NEW q \in DraftType, q.from \in Chars, Sendable(q), Send(q), queries' \in Seq(Query),
         World(disk, bag, box, nextMail, auctions, phase, queries'), InOrder(queries')
  PROVE  IInv'
<1> DEFINE e == SaveGold(SendIn(q), q.from, Paid(q))
<1>1. TypeOK
  BY DEF IInv
<1>2. /\ World(e, bag', box', nextMail', auctions, phase, queries')
      /\ Apart(SendOff(q)) /\ Apart(SendIn(q)) /\ e.auctions = disk.auctions
  BY <1>1, SendWorld
<1>3. pend' = <<SendOff(q), SendIn(q), e>>
  BY SendIs
<1> HIDE DEF e
<1> QED BY <1>2, <1>3, ConcludeThree

LEMMA AskWorld ==
  ASSUME IInv, pend = <<>>, NEW q, q.kind = "send"
  PROVE  /\ World(disk, bag, box, nextMail, auctions, phase, Append(queries, q))
         /\ InOrder(Append(queries, q))
<1>1. /\ queries \in Seq(Query) /\ InOrder(queries)
      /\ World(disk, bag, box, nextMail, auctions, phase, queries)
  BY IdleFacts
<1>2. Valid(q, disk, nextMail, phase) /\ \A k \in 1 .. Len(queries) : Compatible(queries[k], q)
  BY DEF Valid, Loads, Finds, LooksUp, Compatible
<1> QED BY <1>1, <1>2, AppendValid, AppendInOrder DEF World

LEMMA SendMailKeeps ==
  ASSUME IInv, NEW s \in Chars, NEW r \in Chars, NEW i \in Items \cup {Nobody},
         NEW g \in Sums, NEW cod \in Cods, SendMail(s, r, i, g, cod), UNCHANGED aucVars
  PROVE  IInv'
<1> DEFINE q == Draft(s, r, i, g, IF i = Nobody THEN 0 ELSE cod, FALSE)
<1>1. TypeOK /\ TypeOK'
  BY SendMailType DEF IInv
<1>2. q \in DraftType /\ q.from \in Chars
  BY MailAssumption DEF DraftType, Draft, Who
<1>3. /\ pend = <<>> /\ UNCHANGED <<disk, charVars, olds>>
      /\ \/ On(r) /\ Sendable(q) /\ Send(q) /\ UNCHANGED queries
         \/ Ask([kind |-> "send", draft |-> q]) /\ UNCHANGED <<pend, memVars, nextMail>>
  BY DEF SendMail, Idle
<1> HIDE DEF q
<1>4. /\ queries \in Seq(Query) /\ InOrder(queries)
      /\ World(disk, bag, box, nextMail, auctions, phase, queries)
  BY <1>3, IdleFacts
<1>5. CASE Sendable(q) /\ Send(q) /\ UNCHANGED queries
  BY <1>1, <1>2, <1>3, <1>4, <1>5, SendKeeps DEF charVars
<1>6. CASE Ask([kind |-> "send", draft |-> q]) /\ UNCHANGED <<pend, memVars, nextMail>>
  <2> DEFINE k == [kind |-> "send", draft |-> q]
  <2>1. k.kind = "send"
    OBVIOUS
  <2>2. queries' = Append(queries, k)
    BY <1>6 DEF Ask
  <2> HIDE DEF k
  <2>3. World(disk, bag, box, nextMail, auctions, phase, queries') /\ InOrder(queries')
    BY <1>3, <2>1, <2>2, AskWorld
  <2>4. bag' = bag /\ box' = box /\ nextMail' = nextMail /\ phase' = phase /\ pend' = pend /\ disk' = disk
    BY <1>3, <1>6 DEF memVars, charVars
  <2> QED BY <1>1, <1>3, <2>3, <2>4, ConcludeIdle
<1> QED BY <1>3, <1>5, <1>6

LEMMA SendCallbackKeeps ==
  ASSUME IInv, SendCallback, UNCHANGED aucVars
  PROVE  IInv'
<1> DEFINE q == Head(queries).draft
<1>1. TypeOK /\ TypeOK'
  BY SendCallbackType DEF IInv
<1>2. /\ q \in DraftType /\ q.from \in Chars /\ pend = <<>> /\ queries # <<>>
      /\ Tail(queries) \in Seq(Query)
  BY <1>1, AnsweredHead, QueryFields DEF SendCallback
<1>3. /\ queries' = Tail(queries) /\ UNCHANGED <<disk, charVars, olds>>
      /\ \/ Sendable(q) /\ Send(q)
         \/ UNCHANGED <<pend, memVars, nextMail>>
  BY DEF SendCallback
<1> HIDE DEF q
<1>4. World(disk, bag, box, nextMail, auctions, phase, queries') /\ InOrder(queries')
      /\ queries' \in Seq(Query)
  BY <1>2, <1>3, IdleFacts, TailWorld
<1>5. CASE Sendable(q) /\ Send(q)
  BY <1>1, <1>2, <1>3, <1>4, <1>5, SendKeeps DEF charVars
<1>6. CASE UNCHANGED <<pend, memVars, nextMail>>
  <2>1. bag' = bag /\ box' = box /\ nextMail' = nextMail /\ phase' = phase /\ pend' = pend /\ disk' = disk
    BY <1>3, <1>6 DEF memVars, charVars
  <2> QED BY <1>1, <1>2, <1>4, <2>1, ConcludeIdle
<1> QED BY <1>3, <1>5, <1>6

LEMMA FollowMore ==
  ASSUME NEW R, NEW Q, NEW S, R \subseteq Q, Follow(R, S)
  PROVE  Follow(Q, S)
  BY DEF Follow

\* Two mails of a box with the same item are one.
LEMMA BoxItem ==
  ASSUME NEW d, NEW c, NEW C, NEW n, Apart(d), Boxed(c, C, d, n), NEW m \in C, NEW l \in C,
         m.item = l.item, m.item # Nobody
  PROVE  m = l
<1>1. Posted(d, m.id, m.item, c) /\ Posted(d, l.id, l.item, c)
  BY DEF Boxed
<1>2. PICK x \in d.mitems : x.mail = m.id /\ x.item = m.item
  BY <1>1, PostedIs
<1>3. PICK y \in d.mitems : y.mail = l.id /\ y.item = l.item
  BY <1>1, PostedIs
<1>4. m.id = l.id
  BY <1>2, <1>3 DEF Apart
<1> QED BY <1>4 DEF Boxed

\* SaveMails of the box O of c, which has rest in place of m: the deleted mails
\* and what was taken from m are gone, the rest stays in memory.
Saves(d, e, c, m, rest, O, taken, B, B2) ==
  /\ m \in B[c] /\ rest.id = m.id /\ ~rest.deleted
  /\ \/ taken = {} /\ rest.item = m.item
     \/ taken = {m.item} /\ rest.item = Nobody /\ m.item # Nobody
  /\ \A y \in O : y = rest \/ (y \in B[c] /\ y # m)
  /\ \A y \in B2[c] : ~y.deleted /\ (y = rest \/ (y \in B[c] /\ y # m))
  /\ \A x \in Chars : x # c => B2[x] = B[x]
  /\ e.mitems = ItemsLeft(d, O, taken) /\ e.inv = d.inv /\ Follow(d.mails, e.mails)
  /\ \A i \in Items : i \notin ItemsIn(Gone(O)) => e.inst[i] = d.inst[i]

LEMMA SavedBox ==
  ASSUME NEW d \in Tables, NEW e \in Tables, NEW c \in Chars, NEW n \in Nat, NEW b,
         NEW B \in [Chars -> SUBSET MailEntry], NEW B2, NEW A, NEW ph, NEW qs \in Seq(Query),
         NEW m, NEW rest, NEW O, NEW taken,
         World(d, b, B, n, A, ph, qs), ph[c] = "on", Saves(d, e, c, m, rest, O, taken, B, B2)
  PROVE  /\ World(e, b, B2, n, A, ph, qs)
         /\ \A i \in ItemsIn(Gone(O)) : d.inv[i] = Nobody /\ i # m.item
<1>0. /\ m \in B[c] /\ rest.id = m.id /\ ~rest.deleted
      /\ \/ taken = {} /\ rest.item = m.item
         \/ taken = {m.item} /\ rest.item = Nobody /\ m.item # Nobody
      /\ \A y \in O : y = rest \/ (y \in B[c] /\ y # m)
      /\ \A y \in B2[c] : ~y.deleted /\ (y = rest \/ (y \in B[c] /\ y # m))
      /\ \A x \in Chars : x # c => B2[x] = B[x]
      /\ e.mitems = ItemsLeft(d, O, taken) /\ e.inv = d.inv /\ Follow(d.mails, e.mails)
      /\ \A i \in Items : i \notin ItemsIn(Gone(O)) => e.inst[i] = d.inst[i]
  BY DEF Saves
<1> USE <1>0
<1>1. Apart(d) /\ Rows(d, n) /\ Away(d, A) /\ Memory(b, B, d, n, ph)
  BY WorldParts
<1>2. Boxed(c, B[c], d, n)
  BY <1>1 DEF Memory
<1>3. ASSUME NEW y \in Gone(O) PROVE y \in B[c] /\ y # m /\ y.deleted /\ y.id # m.id
  <2>1. y \in B[c] /\ y # m /\ y.deleted
    BY <1>3 DEF Gone
  <2> QED BY <1>2, <2>1 DEF Boxed
<1>4. ASSUME NEW y \in Gone(O), y.item # Nobody
      PROVE  d.inv[y.item] = Nobody /\ y.item # m.item
  <2>1. y \in B[c] /\ y # m
    BY <1>3
  <2>2. Posted(d, y.id, y.item, c)
    BY <1>2, <1>4, <2>1 DEF Boxed
  <2>3. d.inv[y.item] = Nobody
    BY <1>1, <2>2, PostedIs DEF Apart
  <2> QED BY <1>1, <1>2, <1>4, <2>1, <2>3, BoxItem
<1>5. \A i \in ItemsIn(Gone(O)) : d.inv[i] = Nobody /\ i # m.item
  BY <1>4 DEF ItemsIn
<1>6. Fewer(d, e)
  <2>1. \A i \in Items : d.inv[i] # Nobody => e.inst[i] = d.inst[i]
    BY <1>5
  <2> QED BY <2>1 DEF Fewer, ItemsLeft
<1>7. ASSUME NEW x \in d.mitems, x.receiver # c PROVE x \in e.mitems
  <2>1. x.mail \notin IdsOf(Gone(O))
    <3> SUFFICES ASSUME NEW y \in Gone(O), x.mail = y.id PROVE FALSE
      BY DEF IdsOf
    <3>1. y \in B[c]
      BY <1>3
    <3> QED BY <1>2, <1>7, <3>1 DEF Boxed
  <2>2. x.item \notin taken
    <3> SUFFICES ASSUME taken = {m.item}, m.item # Nobody, x.item = m.item PROVE FALSE
      OBVIOUS
    <3>1. Posted(d, m.id, m.item, c)
      BY <1>2 DEF Boxed
    <3>2. PICK z \in d.mitems : z.item = m.item /\ z.receiver = c
      BY <3>1, PostedIs
    <3>3. x = z
      BY <1>1, <3>2 DEF Apart
    <3> QED BY <1>7, <3>2, <3>3
  <2> QED BY <2>1, <2>2 DEF ItemsLeft
<1>8. ASSUME NEW y \in B2[c]
      PROVE  \E z \in B[c] : /\ y.id = z.id
                             /\ y.item = Nobody \/ (y.item = z.item /\ Posted(e, y.id, y.item, c))
  <2> DEFINE z == IF y = rest THEN m ELSE y
  <2>1. z \in B[c] /\ y.id = z.id /\ (y.item = Nobody \/ y.item = z.item)
    BY <1>8
  <2>2. ASSUME y.item # Nobody PROVE Posted(e, y.id, y.item, c)
    <3>1. y.item = z.item
      BY <2>1, <2>2
    <3>2. Posted(d, z.id, z.item, c)
      BY <1>2, <2>1, <2>2, <3>1 DEF Boxed
    <3>3. PICK x \in d.mitems : /\ x = [mail |-> z.id, item |-> z.item, receiver |-> c]
                                /\ x.mail = z.id /\ x.item = z.item
      BY <3>2, PostedIs
    <3>4. z.id \notin IdsOf(Gone(O))
      <4> SUFFICES ASSUME NEW w \in Gone(O), z.id = w.id PROVE FALSE
        BY DEF IdsOf
      <4>1. w \in B[c] /\ w # m /\ w.deleted
        BY <1>3
      <4>2. w = z
        BY <1>2, <2>1, <4>1 DEF Boxed
      <4>3. z = y /\ ~y.deleted
        BY <1>8, <4>1, <4>2
      <4> QED BY <4>1, <4>2, <4>3
    <3>5. z.item \notin taken
      <4> SUFFICES ASSUME taken = {m.item}, rest.item = Nobody, m.item # Nobody, z.item = m.item
                   PROVE  FALSE
        OBVIOUS
      <4>1. y # rest
        BY <2>2
      <4>2. z = y /\ y # m
        BY <1>8, <4>1
      <4>3. z = m
        BY <1>1, <1>2, <2>1, BoxItem
      <4> QED BY <4>2, <4>3
    <3>6. x \in e.mitems
      BY <3>3, <3>4, <3>5 DEF ItemsLeft
    <3> QED BY <2>1, <3>1, <3>3, <3>6 DEF Posted
  <2> HIDE DEF z
  <2> QED BY <2>1, <2>2
<1>9. \A y, z \in B2[c] : y.id = z.id => y = z
  BY <1>2 DEF Boxed
<1>10. Boxed(c, B2[c], e, n)
  BY <1>2, <1>6, <1>8, <1>9, BoxTrim DEF Fewer
<1>11. \A x \in Chars : \/ B2[x] = B[x] /\ \A z \in d.mitems : z.receiver = x => z \in e.mitems
                        \/ ph[x] = "on" /\ Boxed(x, B2[x], e, n)
  BY <1>7, <1>10
<1>12. World(e, b, B2, n, A, ph, qs)
  BY <1>6, <1>11, DropWorld
<1> QED BY <1>5, <1>12

LEMMA TakeMoneyKeeps ==
  ASSUME IInv, NEW c \in Chars, NEW m \in box[c], HandleMailTakeMoney(c, m), UNCHANGED aucVars
  PROVE  IInv'
<1> DEFINE g == SaveGold(disk, c, ModifyMoney(purse[c], m.money))
           O == Opened(c, m, Cashed(m))
           e == CashedTables(c, m)
<1>1. TypeOK /\ TypeOK'
  BY TakeMoneyType DEF IInv
<1>2. /\ pend = <<>> /\ On(c) /\ ~m.deleted /\ box' = [box EXCEPT ![c] = Kept(O)] /\ pend' = <<e>>
      /\ UNCHANGED <<disk, charVars, bag, nextMail, queryVars>>
  BY <1>1, TakeMoneyIs
<1>3. /\ disk \in Tables /\ queries \in Seq(Query) /\ nextMail \in Nat /\ InOrder(queries)
      /\ box \in [Chars -> SUBSET MailEntry]
      /\ World(disk, bag, box, nextMail, auctions, phase, queries)
  BY <1>2, IdleFacts
<1>4. /\ g \in Tables /\ e \in Tables /\ O \in SUBSET MailEntry
      /\ ModifyMoney(purse[c], m.money) \in Copper
  BY <1>1, TakeMoneyTables
<1>5. m \in MailEntry
  BY <1>1, BoxEntry
<1>6. /\ Cashed(m) \in MailEntry /\ Cashed(m).id = m.id /\ Cashed(m).item = m.item
      /\ ~Cashed(m).deleted
  BY <1>2, <1>5, CashedFields
<1>7. /\ g.inv = disk.inv /\ g.inst = disk.inst /\ g.mails = disk.mails
      /\ g.mitems = disk.mitems /\ g.auctions = disk.auctions
  BY <1>3, <1>4, SaveGoldFields
<1>0. PICK none : none = {}
  OBVIOUS
<1>8. e = SaveMails(g, O, Cashed(m), none)
  BY <1>0 DEF CashedTables
<1>9. /\ \A y \in O : y = Cashed(m) \/ (y \in box[c] /\ y # m)
      /\ Kept(O) \subseteq O /\ \A y \in Kept(O) : ~y.deleted
  BY DEF Opened, Kept
<1> HIDE DEF g, O, e
<1>10. /\ e.inv = g.inv /\ e.auctions = g.auctions
       /\ e.mitems = ItemsLeft(g, O, none)
       /\ \A i \in Items : i \notin ItemsIn(Gone(O)) => e.inst[i] = g.inst[i]
       /\ Follow(RowsLeft(g, O), e.mails)
  BY <1>4, <1>6, <1>8, SaveMailsFields
<1>11. Follow(disk.mails, e.mails)
  <2>1. RowsLeft(g, O) \subseteq disk.mails
    BY <1>7 DEF RowsLeft
  <2> QED BY <1>10, <2>1, FollowMore
<1>12. box'[c] = Kept(O) /\ \A x \in Chars : x # c => box'[x] = box[x]
  BY <1>2, <1>3
<1>13. World(e, bag, box', nextMail, auctions, phase, queries)
  <2>1. phase[c] = "on"
    BY <1>2 DEF On
  <2>2. \A y \in box'[c] : ~y.deleted /\ (y = Cashed(m) \/ (y \in box[c] /\ y # m))
    BY <1>9, <1>12
  <2>3. e.mitems = ItemsLeft(disk, O, none)
    BY <1>7, <1>10 DEF ItemsLeft
  <2>4. e.inv = disk.inv /\ \A i \in Items : i \notin ItemsIn(Gone(O)) => e.inst[i] = disk.inst[i]
    BY <1>7, <1>10
  <2>5. Saves(disk, e, c, m, Cashed(m), O, none, box, box')
    BY <1>0, <1>6, <1>9, <1>11, <1>12, <2>2, <2>3, <2>4 DEF Saves
  <2> QED BY <1>3, <1>4, <2>1, <2>5, SavedBox, SMTT(60)
<1>14. bag' = bag /\ nextMail' = nextMail /\ phase' = phase /\ queries' = queries /\ disk' = disk
  BY <1>2 DEF charVars, queryVars
<1>15. Apart(disk)
  BY <1>3, WorldParts
<1> QED BY <1>1, <1>2, <1>3, <1>7, <1>10, <1>13, <1>14, <1>15, ConcludeThree

LEMMA MailDeleteKeeps ==
  ASSUME IInv, NEW c \in Chars, NEW m \in box[c], HandleMailDelete(c, m), UNCHANGED aucVars
  PROVE  IInv'
<1>1. TypeOK /\ TypeOK'
  BY MailDeleteType DEF IInv
<1>2. /\ pend = <<>> /\ On(c) /\ box' = [box EXCEPT ![c] = Opened(c, m, Binned(m))]
      /\ Binned(m).id = m.id /\ Binned(m).item = m.item
      /\ UNCHANGED <<disk, pend, charVars, bag, nextMail, queryVars>>
  BY <1>1, MailDeleteType DEF HandleMailDelete, Readable, Idle
<1>3. /\ disk \in Tables /\ queries \in Seq(Query) /\ nextMail \in Nat /\ InOrder(queries)
      /\ box \in [Chars -> SUBSET MailEntry]
      /\ World(disk, bag, box, nextMail, auctions, phase, queries)
  BY <1>2, IdleFacts
<1>4. Boxed(c, box[c], disk, nextMail)
  BY <1>2, <1>3, WorldParts DEF Memory, On
<1>5. box'[c] = Opened(c, m, Binned(m)) /\ \A x \in Chars : x # c => box'[x] = box[x]
  BY <1>2, <1>3
<1>6. \A y \in box'[c] : y = Binned(m) \/ (y \in box[c] /\ y # m)
  BY <1>5 DEF Opened
<1>7. \A y, z \in box'[c] : y.id = z.id => y = z
  BY <1>2, <1>4, <1>6 DEF Boxed
<1>8. \A y \in box'[c] : \E z \in box[c] : y.id = z.id /\ y.item = z.item
  BY <1>2, <1>6
<1>9. Boxed(c, box'[c], disk, nextMail)
  BY <1>4, <1>7, <1>8 DEF Boxed
<1>10. Fewer(disk, disk)
  BY SubsetFollows DEF Fewer
<1>11. World(disk, bag, box', nextMail, auctions, phase, queries)
  <2>1. \A x \in Chars : \/ box'[x] = box[x] /\ \A z \in disk.mitems : z.receiver = x => z \in disk.mitems
                         \/ phase[x] = "on" /\ Boxed(x, box'[x], disk, nextMail)
    BY <1>2, <1>5, <1>9 DEF On
  <2> QED BY <1>3, <1>10, <2>1, DropWorld
<1>12. bag' = bag /\ nextMail' = nextMail /\ phase' = phase /\ queries' = queries
  BY <1>2 DEF charVars, queryVars
<1> QED BY <1>1, <1>2, <1>3, <1>11, <1>12, ConcludeIdle

\* The payment of a mail with cash on delivery, if there is one, is sent first:
\* the boxes, the number of the next mail and the tables after it.
PaidBoxes(c, m) == IF Charged(m) THEN AddMail(box, nextMail, Payment(c, m)) ELSE box
PaidNext(m) == IF Charged(m) THEN nextMail + 1 ELSE nextMail

LEMMA PaidWorld ==
  ASSUME IInv, pend = <<>>, NEW c \in Chars, NEW m \in box[c], m.item \in Items
  PROVE  /\ World(PaidTables(c, m), bag, PaidBoxes(c, m), PaidNext(m), auctions, phase, queries)
         /\ PaidTables(c, m) \in Tables /\ PaidNext(m) \in Nat
         /\ PaidBoxes(c, m) \in [Chars -> SUBSET MailEntry]
         /\ PaidTables(c, m).auctions = disk.auctions
         /\ \A x \in Chars : /\ box[x] \subseteq PaidBoxes(c, m)[x]
                             /\ \A y \in PaidBoxes(c, m)[x] :
                                  y \in box[x] \/ (y.id = nextMail /\ ~y.deleted)
<1>1. /\ disk \in Tables /\ queries \in Seq(Query) /\ nextMail \in Nat /\ TypeOK
      /\ box \in [Chars -> SUBSET MailEntry]
      /\ World(disk, bag, box, nextMail, auctions, phase, queries)
  BY IdleFacts
<1>2. CASE ~Charged(m)
  BY <1>1, <1>2 DEF PaidTables, PaidBoxes, PaidNext
<1>3. CASE Charged(m)
  <2> DEFINE t == Payment(c, m)
  <2>1. t \in DraftType /\ t.item = Nobody
    <3>1. t \in DraftType
      BY <1>1, <1>3, TakeItemTables
    <3> QED BY <3>1 DEF Payment, Draft
  <2>2. /\ PaidTables(c, m) = InsertMail(disk, nextMail, t) /\ PaidNext(m) = nextMail + 1
        /\ PaidBoxes(c, m) = AddMail(box, nextMail, t)
    BY <1>3 DEF PaidTables, PaidBoxes, PaidNext
  <2> HIDE DEF t
  <2>3. Spare(t.item, disk, auctions)
    BY <2>1 DEF Spare
  <2>4. World(InsertMail(disk, nextMail, t), bag, AddMail(box, nextMail, t), nextMail + 1,
              auctions, phase, queries)
    BY <1>1, <2>1, <2>3, ArriveWorld
  <2>5. /\ InsertMail(disk, nextMail, t) \in Tables
        /\ InsertMail(disk, nextMail, t).auctions = disk.auctions
    BY <1>1, <2>1, InsertMailFields
  <2>6. nextMail + 1 \in Nat
    BY <1>1
  <2>7. /\ AddMail(box, nextMail, t) \in [Chars -> SUBSET MailEntry]
        /\ \A x \in Chars : AddMail(box, nextMail, t)[x] = IF x = t.to /\ On(x)
                                THEN box[x] \cup {EntryOf(nextMail, t)} ELSE box[x]
    BY <1>1, <2>1, AddMailFields
  <2>8. EntryOf(nextMail, t).id = nextMail /\ ~EntryOf(nextMail, t).deleted
    BY DEF EntryOf
  <2> QED BY <2>2, <2>4, <2>5, <2>6, <2>7, <2>8
<1> QED BY <1>2, <1>3

LEMMA TakeItemSaves ==
  ASSUME IInv, NEW c \in Chars, NEW m \in box[c], HandleMailTakeItem(c, m), NEW f \in Tables,
         f.inv = PaidTables(c, m).inv, f.inst = PaidTables(c, m).inst,
         f.mails = TakenTables(c, m).mails, f.mitems = TakenTables(c, m).mitems
  PROVE  Saves(PaidTables(c, m), f, c, m, Emptied(m), Opened(c, m, Emptied(m)), {m.item},
               PaidBoxes(c, m), box')
<1> DEFINE d == PaidTables(c, m)
           O == Opened(c, m, Emptied(m))
           B == PaidBoxes(c, m)
           k == Stored(c, m)
<1>1. TypeOK
  BY DEF IInv
<1>2. /\ pend = <<>> /\ ~m.deleted /\ m.item \in Items /\ m.item # Nobody
  BY <1>1, TakeItemIs
<1>3. /\ d \in Tables /\ k \in Tables /\ O \in SUBSET MailEntry
      /\ ModifyMoney(purse[c], -m.cod) \in Copper
  BY <1>1, <1>2, TakeItemTables
<1>4. m \in MailEntry /\ m.id < nextMail /\ m.id \in Nat /\ nextMail \in Nat
  <2>1. m \in MailEntry
    BY <1>1, BoxEntry
  <2>2. Memory(bag, box, disk, nextMail, phase) /\ phase[c] = "on" /\ nextMail \in Nat
    BY <1>1, <1>2, TakeItemIs, IdleFacts, WorldParts DEF On
  <2>3. Boxed(c, box[c], disk, nextMail)
    BY <2>2 DEF Memory
  <2> QED BY <2>1, <2>2, <2>3, EntryFields DEF Boxed
<1>5. /\ Emptied(m) \in MailEntry /\ Emptied(m).id = m.id /\ Emptied(m).item = Nobody
      /\ ~Emptied(m).deleted
  BY <1>2, <1>4, EntryFields
<1>6. k.mails = d.mails /\ k.mitems = d.mitems
  <2>0. PICK h \in Tables : h = d
    BY <1>3
  <2> DEFINE s == SaveItem(h, c, m.item)
  <2>1. s \in Tables /\ s.mails = h.mails /\ s.mitems = h.mitems
    BY <1>2, SaveItemFields
  <2>2. k = SaveGold(s, c, ModifyMoney(purse[c], -m.cod))
    BY <2>0 DEF Stored
  <2> HIDE DEF s, d, k
  <2> QED BY <1>3, <2>0, <2>1, <2>2, SaveGoldFields
<1>7. \A x \in Chars : /\ box[x] \subseteq B[x]
                       /\ \A y \in B[x] : y \in box[x] \/ (y.id = nextMail /\ ~y.deleted)
  BY <1>2, PaidWorld
<1>8. \A y \in O : y = Emptied(m) \/ (y \in box[c] /\ y # m)
  BY DEF Opened
<1>9. LET kept == [box EXCEPT ![c] = Kept(O)]
      IN  box' = IF Charged(m) THEN AddMail(kept, nextMail, Payment(c, m)) ELSE kept
  BY <1>1, TakeItemIs
<1>10. /\ \A y \in box'[c] : y \in Kept(O) \/ (y \in B[c] /\ ~y.deleted /\ y.id = nextMail)
       /\ \A x \in Chars : x # c => box'[x] = B[x]
  <2> DEFINE kept == [box EXCEPT ![c] = Kept(O)]
  <2>1. kept \in [Chars -> SUBSET MailEntry] /\ kept[c] = Kept(O)
        /\ \A x \in Chars : x # c => kept[x] = box[x]
    BY <1>1, <1>3 DEF TypeOK, Kept
  <2>2. box' = IF Charged(m) THEN AddMail(kept, nextMail, Payment(c, m)) ELSE kept
    BY <1>9
  <2>3. box \in [Chars -> SUBSET MailEntry]
    BY <1>1 DEF TypeOK
  <2> HIDE DEF kept, O
  <2>4. CASE ~Charged(m)
    BY <2>1, <2>2, <2>4 DEF PaidBoxes
  <2>5. CASE Charged(m)
    <3> DEFINE t == Payment(c, m)
    <3>1. t \in DraftType
      BY <1>1, <1>2, <2>5, TakeItemTables
    <3>2. box' = AddMail(kept, nextMail, t) /\ B = AddMail(box, nextMail, t)
      BY <2>2, <2>5 DEF PaidBoxes
    <3> HIDE DEF t, B
    <3>3. \A x \in Chars : box'[x] = IF x = t.to /\ On(x) THEN kept[x] \cup {EntryOf(nextMail, t)} ELSE kept[x]
      BY <1>4, <2>1, <3>1, <3>2, AddMailFields
    <3>4. \A x \in Chars : B[x] = IF x = t.to /\ On(x) THEN box[x] \cup {EntryOf(nextMail, t)} ELSE box[x]
      BY <1>4, <2>3, <3>1, <3>2, AddMailFields
    <3>5. EntryOf(nextMail, t).id = nextMail /\ ~EntryOf(nextMail, t).deleted
      BY DEF EntryOf
    <3>6. \A x \in Chars : x # c => box'[x] = B[x]
      BY <2>1, <3>3, <3>4
    <3>7. ASSUME NEW y \in box'[c], y \notin Kept(O)
          PROVE  y \in B[c] /\ ~y.deleted /\ y.id = nextMail
      <4>1. y = EntryOf(nextMail, t) /\ c = t.to /\ On(c)
        <5>1. box'[c] = IF c = t.to /\ On(c) THEN kept[c] \cup {EntryOf(nextMail, t)} ELSE kept[c]
          BY <3>3
        <5>2. kept[c] = Kept(O)
          BY <2>1
        <5> QED BY <3>7, <5>1, <5>2
      <4> QED BY <3>4, <3>5, <4>1
    <3> QED BY <3>6, <3>7
  <2> QED BY <2>4, <2>5
<1>11. \A y \in box'[c] : ~y.deleted /\ (y = Emptied(m) \/ (y \in B[c] /\ y # m))
  <2>1. \A y \in Kept(O) : y \in O /\ ~y.deleted
    BY DEF Kept
  <2>2. m.id # nextMail
    BY <1>4
  <2> HIDE DEF O, B
  <2> QED BY <1>5, <1>7, <1>8, <1>10, <2>1, <2>2
<1>0. PICK one : one = {m.item}
  OBVIOUS
<1>12. TakenTables(c, m) = SaveMails(k, O, Emptied(m), one)
  BY <1>0 DEF TakenTables
<1> HIDE DEF d, O, B, k
<1>13. f.mitems = ItemsLeft(k, O, one) /\ Follow(RowsLeft(k, O), f.mails)
  BY <1>3, <1>5, <1>12, SaveMailsFields
<1>14. f.mitems = ItemsLeft(d, O, one) /\ Follow(d.mails, f.mails)
  <2>1. RowsLeft(k, O) \subseteq d.mails /\ ItemsLeft(k, O, one) = ItemsLeft(d, O, one)
    BY <1>6 DEF RowsLeft, ItemsLeft
  <2> QED BY <1>13, <2>1, FollowMore
<1>15. m \in B[c] /\ \A y \in O : y = Emptied(m) \/ (y \in B[c] /\ y # m)
  BY <1>7, <1>8
<1>16. d.inv = f.inv /\ d.inst = f.inst
  BY DEF d
<1>17. Saves(d, f, c, m, Emptied(m), O, one, B, box')
  BY <1>0, <1>2, <1>5, <1>10, <1>11, <1>14, <1>15, <1>16 DEF Saves
<1> QED BY <1>0, <1>17 DEF d, O, B

LEMMA TakeItemKeeps ==
  ASSUME IInv, NEW c \in Chars, NEW m \in box[c], HandleMailTakeItem(c, m), UNCHANGED aucVars
  PROVE  IInv'
<1>1. TypeOK /\ TypeOK'
  BY TakeItemType DEF IInv
<1>2. /\ pend = <<>> /\ On(c) /\ m.item \in Items /\ m.item # Nobody
      /\ bag' = [bag EXCEPT ![c] = @ \cup {m.item}]
      /\ pend' = IF Charged(m) THEN <<PaidTables(c, m), TakenTables(c, m)>>
                 ELSE <<TakenTables(c, m)>>
      /\ nextMail' = PaidNext(m)
      /\ UNCHANGED <<disk, charVars, queryVars>>
  BY <1>1, TakeItemIs DEF PaidNext
<1>3. /\ queries \in Seq(Query) /\ InOrder(queries) /\ bag \in [Chars -> SUBSET Items]
      /\ auctions \in SUBSET Auction
  BY <1>2, IdleFacts
<1>4. PICK d \in Tables, B \in [Chars -> SUBSET MailEntry] :
        d = PaidTables(c, m) /\ B = PaidBoxes(c, m)
  BY <1>2, PaidWorld
<1>5. /\ World(d, bag, B, PaidNext(m), auctions, phase, queries) /\ PaidNext(m) \in Nat
      /\ d.auctions = disk.auctions /\ m \in B[c]
  BY <1>2, <1>4, PaidWorld
<1>0. PICK one : one = {m.item}
  OBVIOUS
<1>6. PICK k \in Tables, e \in Tables, O \in SUBSET MailEntry :
        k = Stored(c, m) /\ e = TakenTables(c, m) /\ O = Opened(c, m, Emptied(m))
  BY <1>1, <1>2, TakeItemTables
<1>7. /\ k.inv = [d.inv EXCEPT ![m.item] = c] /\ k.inst = [d.inst EXCEPT ![m.item] = c]
      /\ k.auctions = d.auctions
  <2>0. PICK i \in Items : i = m.item
    BY <1>2
  <2> DEFINE s == SaveItem(d, c, i)
  <2>1. /\ s \in Tables /\ s.inv = [d.inv EXCEPT ![i] = c]
        /\ s.inst = [d.inst EXCEPT ![i] = c] /\ s.auctions = d.auctions
    BY DEF SaveItem, Tables
  <2>2. k = SaveGold(s, c, ModifyMoney(purse[c], -m.cod)) /\ ModifyMoney(purse[c], -m.cod) \in Copper
    BY <1>1, <1>2, <1>4, <1>6, <2>0, TakeItemTables DEF Stored
  <2> HIDE DEF s
  <2>3. k.inv = s.inv /\ k.inst = s.inst /\ k.auctions = s.auctions
    BY <2>1, <2>2, SaveGoldFields
  <2> QED BY <2>0, <2>1, <2>3
<1>8. /\ e.inv = k.inv /\ e.auctions = k.auctions
      /\ \A i \in Items : i \notin ItemsIn(Gone(O)) => e.inst[i] = k.inst[i]
  <2>1. PICK rest \in MailEntry : rest = Emptied(m)
    BY <1>1, BoxEntry, EntryFields
  <2>2. e = SaveMails(k, O, rest, one)
    BY <1>0, <1>6, <2>1 DEF TakenTables
  <2>3. SaveMails(k, O, rest, one).inv = k.inv /\ SaveMails(k, O, rest, one).auctions = k.auctions
    BY SaveMailsFields
  <2>4. \A i \in Items : i \notin ItemsIn(Gone(O)) => SaveMails(k, O, rest, one).inst[i] = k.inst[i]
    BY SaveMailsFields
  <2> QED BY <2>2, <2>3, <2>4
<1>9. PICK f \in Tables : /\ f.inv = d.inv /\ f.inst = d.inst
                          /\ f.mails = e.mails /\ f.mitems = e.mitems
  <2>1. [e EXCEPT !.inv = d.inv, !.inst = d.inst] \in Tables
    BY DEF Tables
  <2>2. /\ [e EXCEPT !.inv = d.inv, !.inst = d.inst].inv = d.inv
        /\ [e EXCEPT !.inv = d.inv, !.inst = d.inst].inst = d.inst
        /\ [e EXCEPT !.inv = d.inv, !.inst = d.inst].mails = e.mails
        /\ [e EXCEPT !.inv = d.inv, !.inst = d.inst].mitems = e.mitems
    BY DEF Tables
  <2> QED BY <2>1, <2>2
<1>10. Saves(d, f, c, m, Emptied(m), O, one, B, box')
  BY <1>0, <1>4, <1>6, <1>9, TakeItemSaves
<1>11. phase[c] = "on"
  BY <1>2 DEF On
<1>12. /\ World(f, bag, box', PaidNext(m), auctions, phase, queries)
       /\ \A i \in ItemsIn(Gone(O)) : d.inv[i] = Nobody /\ i # m.item
  BY <1>3, <1>5, <1>10, <1>11, SavedBox, SMTT(60)
<1>13. Spare(m.item, f, auctions)
  <2>1. Apart(d) /\ Away(d, auctions) /\ Boxed(c, B[c], d, PaidNext(m))
    BY <1>5, <1>11, WorldParts DEF Memory
  <2>2. Posted(d, m.id, m.item, c)
    BY <1>2, <1>5, <2>1 DEF Boxed
  <2>3. PICK x \in d.mitems : x.item = m.item
    BY <2>2, PostedIs
  <2>4. d.inv[m.item] = Nobody /\ \A a \in auctions : a.item # m.item
    BY <2>1, <2>3 DEF Apart, Away
  <2>5. \A y \in f.mitems : y.item # m.item
    BY <1>0, <1>10 DEF Saves, ItemsLeft
  <2> QED BY <1>9, <2>4, <2>5 DEF Spare
<1>14. /\ e.inv = [f.inv EXCEPT ![m.item] = c] /\ e.inst[m.item] = c /\ e.mails = f.mails
       /\ e.mitems = f.mitems /\ \A x \in Items : f.inv[x] # Nobody => e.inst[x] = f.inst[x]
  <2>1. f.inv[m.item] = Nobody
    BY <1>2, <1>13 DEF Spare
  <2>2. d.inst \in [Items -> Who]
    BY TablesFields
  <2>3. e.inst[m.item] = c
    BY <1>2, <1>7, <1>8, <1>12, <2>2
  <2>4. \A x \in Items : f.inv[x] # Nobody => e.inst[x] = f.inst[x]
    BY <1>7, <1>8, <1>9, <1>12, <2>1, <2>2
  <2> QED BY <1>7, <1>8, <1>9, <2>3, <2>4
<1>15. box' \in [Chars -> SUBSET MailEntry]
  BY <1>1 DEF TypeOK
<1>16. World(e, bag', box', nextMail', auctions, phase, queries)
  BY <1>2, <1>3, <1>5, <1>11, <1>12, <1>13, <1>14, <1>15, PutWorld
<1>17. phase' = phase /\ queries' = queries /\ disk' = disk
  BY <1>2 DEF charVars, queryVars
<1>18. Apart(d)
  BY <1>5, WorldParts
<1>19. pend' = <<d, e>> \/ pend' = <<e>>
  BY <1>2, <1>4, <1>6
<1>20. e.auctions = disk.auctions
  BY <1>5, <1>7, <1>8
<1> QED BY <1>1, <1>2, <1>3, <1>16, <1>17, <1>18, <1>19, <1>20, ConcludeThree

\* A mail goes back to its sender, or its item, spare by now, is deleted: the
\* boxes and the number of the next mail afterwards.
BackBoxes(B, n, t) == IF t.to \in exists THEN AddMail(B, n, t) ELSE B
BackNext(n, t) == IF t.to \in exists THEN n + 1 ELSE n

\* The transactions s lead from the tables d to e, no item being in two places
\* after any of them.
Leads(s, d, e) ==
  /\ s \in Seq(Tables) /\ (\A k \in 1 .. Len(s) : Apart(s[k]))
  /\ e = IF s = <<>> THEN d ELSE s[Len(s)]

LEMMA LeadsOn ==
  ASSUME NEW d \in Tables, NEW e \in Tables, NEW f \in Tables, NEW r, NEW s,
         Leads(r, d, f), Leads(s, f, e)
  PROVE  Leads(r \o s, d, e)
<1>1. r \in Seq(Tables) /\ s \in Seq(Tables)
  BY DEF Leads
<1>2. PICK u \in Seq(Tables) : u = r \o s
  BY <1>1, ConcatProperties
<1>3. /\ Len(u) = Len(r) + Len(s) /\ Len(r) \in Nat /\ Len(s) \in Nat
      /\ \A k \in 1 .. Len(u) : u[k] = IF k <= Len(r) THEN r[k] ELSE s[k - Len(r)]
  BY <1>1, <1>2, ConcatProperties
<1>4. ASSUME NEW k \in 1 .. Len(u) PROVE Apart(u[k])
  <2>1. CASE k <= Len(r)
    <3>1. k \in 1 .. Len(r) /\ u[k] = r[k]
      BY <1>3, <1>4, <2>1
    <3> QED BY <3>1 DEF Leads
  <2>2. CASE ~(k <= Len(r))
    <3>1. k - Len(r) \in 1 .. Len(s) /\ u[k] = s[k - Len(r)]
      BY <1>3, <1>4, <2>2
    <3> QED BY <3>1 DEF Leads
  <2> QED BY <2>1, <2>2
<1>5. e = IF u = <<>> THEN d ELSE u[Len(u)]
  <2>1. CASE s = <<>>
    <3>1. Len(s) = 0 /\ e = f
      BY <2>1 DEF Leads
    <3>2. u = r
      BY <1>1, <1>2, <2>1
    <3> QED BY <3>1, <3>2 DEF Leads
  <2>2. CASE s # <<>>
    <3>1. Len(s) > 0 /\ e = s[Len(s)]
      BY <1>1, <2>2 DEF Leads
    <3>2. u # <<>> /\ u[Len(u)] = s[Len(s)]
      BY <1>3, <3>1
    <3> QED BY <3>1, <3>2
  <2> QED BY <2>1, <2>2
<1> QED BY <1>2, <1>4, <1>5 DEF Leads

LEMMA LeadsOne ==
  ASSUME NEW d, NEW e \in Tables, Apart(e)
  PROVE  Leads(<<e>>, d, e)
  BY DEF Leads

LEMMA LeadsTwo ==
  ASSUME NEW d, NEW f \in Tables, NEW e \in Tables, Apart(f), Apart(e)
  PROVE  Leads(<<f, e>>, d, e)
<1>1. Len(<<f, e>>) = 2 /\ <<f, e>> \in Seq(Tables)
  OBVIOUS
<1> QED BY <1>1 DEF Leads

\* A step of the mail component whose transactions lead to e.
LEMMA ConcludeLeads ==
  ASSUME IInv, pend = <<>>, TypeOK', UNCHANGED <<disk, aucVars>>, NEW e, Leads(pend', disk, e),
         World(e, bag', box', nextMail', auctions, phase', queries'), InOrder(queries'),
         e.auctions = disk.auctions
  PROVE  IInv'
<1>1. auctions' = auctions /\ nextAuction' = nextAuction
  BY DEF aucVars
<1>2. disk.auctions = auctions /\ Numbered(auctions, nextAuction)
  BY IdleFacts
<1>3. /\ (pend' = <<>> => e = disk) /\ (pend' # <<>> => pend'[Len(pend')] = e)
      /\ \A k \in 1 .. Len(pend') : Apart(pend'[k])
  BY DEF Leads
<1> QED BY <1>1, <1>2, <1>3, Conclude

LEMMA ReturnWorld ==
  ASSUME NEW d \in Tables, NEW n \in Nat, NEW t, t.item \in Items \cup {Nobody},
         t.to \in exists => t \in DraftType, NEW b, NEW B \in [Chars -> SUBSET MailEntry], NEW A,
         NEW qs \in Seq(Query), World(d, b, B, n, A, phase, qs), Spare(t.item, d, A)
  PROVE  /\ \E e \in Tables :
              /\ Leads(SendReturnToSender(d, n, t), d, e) /\ e.auctions = d.auctions
              /\ World(e, b, BackBoxes(B, n, t), BackNext(n, t), A, phase, qs)
         /\ BackNext(n, t) \in Nat /\ BackBoxes(B, n, t) \in [Chars -> SUBSET MailEntry]
<1>1. Apart(d)
  BY WorldParts
<1>2. CASE t.to \in exists
  <2>1. t \in DraftType /\ BackBoxes(B, n, t) = AddMail(B, n, t) /\ BackNext(n, t) = n + 1
    BY <1>2 DEF BackBoxes, BackNext
  <2>2. PICK f \in Tables : f = Handed(d, t)
    BY <2>1, HandedAlike
  <2>3. /\ Alike(d, f) /\ Spare(t.item, f, A) /\ f.auctions = d.auctions
    BY <2>1, <2>2, HandedAlike
  <2>4. World(f, b, B, n, A, phase, qs)
    BY <2>3, SameWorld
  <2>5. PICK e \in Tables : e = InsertMail(f, n, t)
    BY <2>1, InsertMailFields
  <2>6. e.auctions = f.auctions
    BY <2>1, <2>5, InsertMailFields
  <2>7. World(e, b, AddMail(B, n, t), n + 1, A, phase, qs)
    BY <2>1, <2>3, <2>4, <2>5, ArriveWorld
  <2>8. SendReturnToSender(d, n, t) = <<f, e>>
    BY <1>2, <2>1, <2>2, <2>5, ReturnIs
  <2>9. Leads(SendReturnToSender(d, n, t), d, e)
    BY <2>4, <2>7, <2>8, WorldParts, LeadsTwo
  <2>10. n + 1 \in Nat /\ AddMail(B, n, t) \in [Chars -> SUBSET MailEntry]
    BY <2>1, AddMailFields
  <2> QED BY <2>1, <2>3, <2>6, <2>7, <2>9, <2>10
<1>3. CASE t.to \notin exists
  <2>1. BackBoxes(B, n, t) = B /\ BackNext(n, t) = n
    BY <1>3 DEF BackBoxes, BackNext
  <2>2. CASE t.item = Nobody /\ SendReturnToSender(d, n, t) = <<>>
    <3>1. Leads(<<>>, d, d)
      BY DEF Leads
    <3> QED BY <2>1, <2>2, <3>1
  <2>3. CASE t.item \in Items /\ SendReturnToSender(d, n, t) = <<DeleteItem(d, t.item)>>
    <3>1. PICK e \in Tables : e = DeleteItem(d, t.item)
      BY <2>3, DeleteItemAlike
    <3>2. Alike(d, e) /\ e.auctions = d.auctions
      BY <2>3, <3>1, DeleteItemAlike
    <3>3. World(e, b, B, n, A, phase, qs)
      BY <3>2, SameWorld
    <3>4. Leads(SendReturnToSender(d, n, t), d, e)
      BY <2>3, <3>1, <3>3, WorldParts, LeadsOne
    <3> QED BY <2>1, <3>2, <3>3, <3>4
  <2> QED BY <1>3, <2>2, <2>3, ReturnIs
<1> QED BY <1>2, <1>3

LEMMA ReturnToSenderKeeps ==
  ASSUME IInv, NEW c \in Chars, NEW m \in box[c], HandleMailReturnToSender(c, m), UNCHANGED aucVars
  PROVE  IInv'
<1> DEFINE kept == [box EXCEPT ![c] = box[c] \ {m}]
<1>1. TypeOK /\ TypeOK'
  BY ReturnToSenderType DEF IInv
<1>2. pend = <<>> /\ phase[c] = "on" /\ UNCHANGED <<disk, charVars, bag, queryVars>>
  BY <1>1, ReturnToSenderIs DEF On
<1>3. /\ disk \in Tables /\ queries \in Seq(Query) /\ nextMail \in Nat /\ InOrder(queries)
      /\ box \in [Chars -> SUBSET MailEntry] /\ Apart(disk)
      /\ World(disk, bag, box, nextMail, auctions, phase, queries)
  BY <1>2, IdleFacts
<1>4. Away(disk, auctions) /\ Boxed(c, box[c], disk, nextMail)
  BY <1>2, <1>3, WorldParts DEF Memory
<1>5. PICK d \in Tables : d = DeleteMails(disk, {m.id})
  BY <1>3, DeleteMailsFields
<1>6. /\ d.inv = disk.inv /\ d.inst = disk.inst /\ d.auctions = disk.auctions
      /\ d.mails \subseteq disk.mails
      /\ d.mitems = {x \in disk.mitems : x.mail # m.id}
  BY <1>3, <1>5, DeleteMailsFields
<1>7. kept \in [Chars -> SUBSET MailEntry] /\ kept[c] = box[c] \ {m}
      /\ \A x \in Chars : x # c => kept[x] = box[x]
  BY <1>3
<1>8. /\ m.sender = Nobody => pend' = <<d>> /\ box' = kept /\ nextMail' = nextMail
      /\ m.sender # Nobody =>
           /\ pend' = <<d>> \o SendReturnToSender(d, nextMail, Returned(c, m))
           /\ box' = IF m.sender \in exists THEN AddMail(kept, nextMail, Returned(c, m)) ELSE kept
           /\ nextMail' = IF m.sender \in exists THEN nextMail + 1 ELSE nextMail
  BY <1>1, <1>5, ReturnToSenderIs
<1> HIDE DEF kept
<1>9. World(d, bag, kept, nextMail, auctions, phase, queries)
  <2>1. Fewer(disk, d)
    BY <1>6, SubsetFollows DEF Fewer
  <2>2. Boxed(c, kept[c], d, nextMail)
    <3>1. ASSUME NEW y \in kept[c] PROVE y \in box[c] /\ y.id # m.id
      BY <1>4, <1>7, <3>1 DEF Boxed
    <3>2. ASSUME NEW y \in kept[c], y.item # Nobody PROVE Posted(d, y.id, y.item, c)
      <4>1. Posted(disk, y.id, y.item, c)
        BY <1>4, <3>1, <3>2 DEF Boxed
      <4>2. PICK x \in disk.mitems : /\ x = [mail |-> y.id, item |-> y.item, receiver |-> c]
                                     /\ x.mail = y.id
        BY <4>1, PostedIs
      <4>3. x \in d.mitems
        BY <1>6, <3>1, <3>2, <4>2
      <4> QED BY <4>2, <4>3 DEF Posted
    <3>3. \A y, z \in kept[c] : y.id = z.id => y = z
      BY <1>4, <3>1 DEF Boxed
    <3> QED BY <1>4, <1>6, <3>1, <3>2, <3>3, BoxTrim
  <2>3. \A x \in Chars : \/ kept[x] = box[x] /\ \A z \in disk.mitems : z.receiver = x => z \in d.mitems
                         \/ phase[x] = "on" /\ Boxed(x, kept[x], d, nextMail)
    <3> SUFFICES ASSUME NEW x \in Chars, x # c, NEW z \in disk.mitems, z.receiver = x
                 PROVE  z \in d.mitems
      BY <1>2, <1>7, <2>2
    <3> QED BY <1>4, <1>6 DEF Boxed
  <2> QED BY <1>3, <2>1, <2>3, DropWorld
<1>10. Spare(m.item, d, auctions)
  <2> SUFFICES ASSUME m.item # Nobody
               PROVE  /\ d.inv[m.item] = Nobody /\ (\A x \in d.mitems : x.item # m.item)
                      /\ \A a \in auctions : a.item # m.item
    BY DEF Spare
  <2>1. Posted(disk, m.id, m.item, c)
    BY <1>4 DEF Boxed
  <2>2. PICK x \in disk.mitems : x.mail = m.id /\ x.item = m.item
    BY <2>1, PostedIs
  <2> QED BY <1>3, <1>4, <1>6, <2>2 DEF Apart, Away
<1>11. phase' = phase /\ queries' = queries /\ disk' = disk /\ bag' = bag
  BY <1>2 DEF charVars, queryVars
<1>12. Apart(d)
  BY <1>9, WorldParts
<1>13. CASE m.sender = Nobody
  BY <1>1, <1>2, <1>3, <1>6, <1>8, <1>9, <1>11, <1>12, <1>13, ConcludeThree
<1>14. CASE m.sender # Nobody
  <2>1. PICK t : t = Returned(c, m)
    OBVIOUS
  <2>2. /\ t.item = m.item /\ t.item \in Items \cup {Nobody} /\ t.to = m.sender
        /\ t.to \in exists => t \in DraftType
    BY <1>1, <2>1, ReturnedIs
  <2>6. Spare(t.item, d, auctions)
    BY <1>10, <2>2
  <2>3. PICK e \in Tables :
          /\ Leads(SendReturnToSender(d, nextMail, t), d, e) /\ e.auctions = d.auctions
          /\ World(e, bag, BackBoxes(kept, nextMail, t), BackNext(nextMail, t), auctions, phase, queries)
    BY <1>3, <1>7, <1>9, <2>2, <2>6, ReturnWorld
  <2>4. box' = BackBoxes(kept, nextMail, t) /\ nextMail' = BackNext(nextMail, t)
    BY <1>8, <1>14, <2>1, <2>2 DEF BackBoxes, BackNext
  <2>5. Leads(pend', disk, e)
    <3>1. pend' = <<d>> \o SendReturnToSender(d, nextMail, t)
      BY <1>8, <1>14, <2>1
    <3> QED BY <1>3, <1>12, <2>3, <3>1, LeadsOne, LeadsOn
  <2> QED BY <1>1, <1>2, <1>3, <1>6, <1>11, <2>3, <2>4, <2>5, ConcludeLeads
<1> QED BY <1>13, <1>14

LEMMA OldFoundKeeps ==
  ASSUME IInv, ~SlowLookup, NEW r \in disk.mails, ReturnOrDeleteOldMails(r), UNCHANGED aucVars
  PROVE  IInv'
<1> DEFINE q == [kind |-> "old", row |-> r]
<1>1. TypeOK /\ TypeOK'
  BY OldFoundType DEF IInv
<1>2. /\ pend = <<>> /\ ~Found(r) /\ queries' = Append(queries, q)
      /\ UNCHANGED <<disk, pend, charVars, memVars, nextMail>>
  BY DEF ReturnOrDeleteOldMails, Idle
<1>3. /\ queries \in Seq(Query) /\ InOrder(queries)
      /\ World(disk, bag, box, nextMail, auctions, phase, queries)
  BY <1>2, IdleFacts
<1>4. Rows(disk, nextMail)
  BY <1>3, WorldParts
<1>5. q.kind = "old" /\ q.row = r
  OBVIOUS
<1> HIDE DEF q
<1>6. Valid(q, disk, nextMail, phase)
  BY <1>4, <1>5 DEF Valid, Loads, Finds, LooksUp, Rows
<1>7. \A k \in 1 .. Len(queries) : Compatible(queries[k], q)
  BY <1>2, <1>5 DEF Found, Compatible
<1>8. World(disk, bag, box, nextMail, auctions, phase, queries') /\ InOrder(queries')
  BY <1>2, <1>3, <1>6, <1>7, AppendValid, AppendInOrder DEF World
<1>9. bag' = bag /\ box' = box /\ nextMail' = nextMail /\ phase' = phase
  BY <1>2 DEF memVars, charVars
<1> QED BY <1>1, <1>2, <1>8, <1>9, ConcludeIdle

LEMMA DroppedAlike ==
  ASSUME disk \in Tables, NEW w
  PROVE  /\ Dropped(w) \in Tables /\ Alike(disk, Dropped(w))
         /\ Dropped(w).auctions = disk.auctions
<1>1. /\ Dropped(w) \in Tables /\ Dropped(w).inv = disk.inv /\ Dropped(w).auctions = disk.auctions
      /\ Dropped(w).mails \subseteq disk.mails /\ Dropped(w).mitems = disk.mitems
      /\ Dropped(w).inst = disk.inst
  BY DroppedFields DEF Trimmed
<1>2. Follow(disk.mails, Dropped(w).mails)
  BY <1>1, SubsetFollows
<1> QED BY <1>1, <1>2 DEF Alike

LEMMA OldMailsReturnerKeeps ==
  ASSUME IInv, OldMailsReturner, UNCHANGED aucVars
  PROVE  IInv'
<1>1. TypeOK /\ TypeOK'
  BY OldMailsReturnerType DEF IInv
<1>2. PICK row : row = Head(queries).row
  OBVIOUS
<1>3. /\ Answered("old") /\ UNCHANGED <<disk, charVars, memVars, nextMail, olds>>
      /\ \/ queries' = Tail(queries) /\ UNCHANGED pend
         \/ /\ UNCHANGED pend
            /\ queries' = Append(Tail(queries),
                            [kind |-> "single", row |-> row, item |-> ItemOfMail(row.id)])
         \/ queries' = Tail(queries) /\ pend' = <<Dropped(row.id)>>
  BY <1>2, OldMailsReturnerIs
<1>4. PICK q \in Query : q = Head(queries)
  BY <1>1, <1>3, AnsweredHead
<1>5. /\ pend = <<>> /\ queries # <<>> /\ q.kind = "old" /\ row = q.row
      /\ Tail(queries) \in Seq(Query)
  BY <1>1, <1>2, <1>3, <1>4, AnsweredHead
<1>6. /\ disk \in Tables /\ queries \in Seq(Query) /\ InOrder(queries) /\ nextMail \in Nat
      /\ box \in [Chars -> SUBSET MailEntry]
      /\ World(disk, bag, box, nextMail, auctions, phase, queries)
  BY <1>5, IdleFacts
<1>7. /\ World(disk, bag, box, nextMail, auctions, phase, Tail(queries)) /\ InOrder(Tail(queries))
  BY <1>5, <1>6, TailWorld
<1>8. bag' = bag /\ box' = box /\ nextMail' = nextMail /\ phase' = phase /\ disk' = disk
  BY <1>3 DEF memVars, charVars
<1>9. CASE queries' = Tail(queries) /\ UNCHANGED pend
  BY <1>1, <1>5, <1>7, <1>8, <1>9, ConcludeIdle
<1>10. CASE queries' = Tail(queries) /\ pend' = <<Dropped(row.id)>>
  <2>1. PICK e \in Tables : e = Dropped(row.id)
    BY <1>6, DroppedAlike
  <2>2. Alike(disk, e) /\ e.auctions = disk.auctions
    BY <1>6, <2>1, DroppedAlike
  <2>3. World(e, bag, box, nextMail, auctions, phase, queries')
    BY <1>5, <1>6, <1>7, <1>10, <2>2, SameWorld
  <2>4. Leads(pend', disk, e)
    BY <1>10, <2>1, <2>3, WorldParts, LeadsOne
  <2> QED BY <1>1, <1>5, <1>7, <1>8, <1>10, <2>2, <2>3, <2>4, ConcludeLeads
<1>11. CASE /\ UNCHANGED pend
            /\ queries' = Append(Tail(queries),
                            [kind |-> "single", row |-> row, item |-> ItemOfMail(row.id)])
  <2> DEFINE p == [kind |-> "single", row |-> row, item |-> ItemOfMail(row.id)]
  <2>1. p.kind = "single" /\ p.row = row /\ p.item = ItemOfMail(row.id)
    OBVIOUS
  <2>2. queries' = Append(Tail(queries), p)
    BY <1>11
  <2> HIDE DEF p
  <2>3. /\ Valid(q, disk, nextMail, phase)
        /\ \A k \in 1 .. Len(Tail(queries)) : Compatible(q, Tail(queries)[k])
    BY <1>4, <1>5, <1>6, TailKeeps, WorldParts
  <2>4. /\ row.id < nextMail
        /\ \A x \in disk.mitems : x.mail = row.id => x.receiver = row.receiver
    BY <1>5, <2>3 DEF Valid, Finds
  <2>5. LooksUp(p, disk, phase)
    <3>1. ASSUME ItemOfMail(row.id) # Nobody
          PROVE  Posted(disk, row.id, ItemOfMail(row.id), row.receiver)
      <4>1. PICK x \in disk.mitems : x.mail = row.id /\ x.item = ItemOfMail(row.id)
        BY <1>6, <3>1, ItemOfMailIs
      <4> QED BY <1>6, <2>4, <4>1, PostedRow
    <3>2. ItemOfMail(row.id) = Nobody => \A x \in disk.mitems : x.mail # row.id
      BY <1>6, ItemOfMailIs
    <3> QED BY <2>1, <3>1, <3>2 DEF LooksUp
  <2>6. Valid(p, disk, nextMail, phase)
    BY <2>1, <2>4, <2>5 DEF Valid, Loads, Finds
  <2>7. \A k \in 1 .. Len(Tail(queries)) : Compatible(Tail(queries)[k], p)
    BY <1>5, <2>1, <2>3 DEF Compatible
  <2>8. World(disk, bag, box, nextMail, auctions, phase, queries') /\ InOrder(queries')
    BY <1>5, <1>7, <2>2, <2>6, <2>7, AppendValid, AppendInOrder DEF World
  <2> QED BY <1>1, <1>5, <1>8, <1>11, <2>8, ConcludeIdle
<1> QED BY <1>3, <1>9, <1>10, <1>11

\* The rows of mail w, with item i to R, are changed or deleted, and no others.
Only(w, i, R, d, e) ==
  /\ Posted(d, w, i, R) /\ e.inv = d.inv
  /\ \A x \in d.mitems : x.mail # w => x \in e.mitems
  /\ \A x \in e.mitems : x.mail # w => x \in d.mitems

\* R is not online nor being loaded, and nobody else searches for mail w.
Undisturbed(w, R, ph, qs) ==
  /\ ph[R] # "on"
  /\ \A k \in 1 .. Len(qs) : /\ qs[k].kind = "login" => qs[k].char # R
                             /\ qs[k].kind \in {"old", "single"} => qs[k].row.id # w

LEMMA OnlyBoxed ==
  ASSUME NEW d, NEW e, NEW w, NEW i, NEW R, Only(w, i, R, d, e),
         NEW c, NEW B, NEW n, c # R, Boxed(c, B, d, n)
  PROVE  Boxed(c, B, e, n)
<1>1. PICK x0 \in d.mitems : x0.mail = w /\ x0.receiver = R
  BY PostedIs DEF Only
<1>2. ASSUME NEW m \in B PROVE m.id # w
  BY <1>1, <1>2 DEF Boxed
<1>3. ASSUME NEW m \in B, m.item # Nobody PROVE Posted(e, m.id, m.item, c)
  <2>1. Posted(d, m.id, m.item, c)
    BY <1>3 DEF Boxed
  <2>2. PICK x \in d.mitems : x = [mail |-> m.id, item |-> m.item, receiver |-> c] /\ x.mail = m.id
    BY <2>1, PostedIs
  <2>3. x \in e.mitems
    BY <1>2, <1>3, <2>2 DEF Only
  <2> QED BY <2>2, <2>3 DEF Posted
<1>4. ASSUME NEW m \in B PROVE m.id < n /\ \A x \in e.mitems : x.mail = m.id => x.receiver = c
  BY <1>2, <1>4 DEF Boxed, Only
<1> QED BY <1>3, <1>4 DEF Boxed

LEMMA OnlyWorld ==
  ASSUME NEW d, NEW e, NEW w, NEW i, NEW R \in Chars, NEW b, NEW B, NEW n, NEW A, NEW ph,
         NEW qs \in Seq(Query), World(d, b, B, n, A, ph, qs), Only(w, i, R, d, e),
         Undisturbed(w, R, ph, qs), Apart(e), Rows(e, n), Away(e, A)
  PROVE  World(e, b, B, n, A, ph, qs)
<1>1. Memory(b, B, d, n, ph) /\ AllValid(qs, d, n, ph)
  BY WorldParts
<1>2. \A c \in Chars : Owned(c, e) = Owned(c, d)
  BY DEF Only, Owned
<1>3. Memory(b, B, e, n, ph)
  <2> SUFFICES ASSUME NEW c \in Chars
               PROVE  IF ph[c] = "on" THEN b[c] = Owned(c, e) /\ Boxed(c, B[c], e, n)
                      ELSE b[c] = {} /\ B[c] = {}
    BY DEF Memory
  <2>1. CASE ph[c] # "on"
    BY <1>1, <2>1 DEF Memory
  <2>2. CASE ph[c] = "on"
    <3>1. c # R /\ b[c] = Owned(c, d) /\ Boxed(c, B[c], d, n)
      BY <1>1, <2>2 DEF Memory, Undisturbed
    <3> QED BY <1>2, <2>2, <3>1, OnlyBoxed
  <2> QED BY <2>1, <2>2
<1>4. AllValid(qs, e, n, ph)
  <2> SUFFICES ASSUME NEW k \in 1 .. Len(qs) PROVE Valid(qs[k], e, n, ph)
    BY DEF AllValid
  <2>1. PICK q \in Query : q = qs[k]
    OBVIOUS
  <2>2. /\ Valid(q, d, n, ph) /\ (q.kind = "login" => q.char # R /\ q.char \in Chars)
        /\ q.kind \in {"old", "single"} => q.row.id # w
    BY <1>1, <2>1, QueryFields DEF AllValid, Undisturbed
  <2>3. Loads(q, e, n, ph)
    <3> SUFFICES ASSUME q.kind = "login" PROVE Loads(q, e, n, ph)
      BY DEF Loads
    <3>1. /\ ph[q.char] = "loading" /\ q.rows.bag = Owned(q.char, d)
          /\ Boxed(q.char, q.rows.box, d, n) /\ q.char # R /\ q.char \in Chars
      BY <2>2 DEF Valid, Loads
    <3>2. Boxed(q.char, q.rows.box, e, n)
      BY <3>1, OnlyBoxed
    <3> QED BY <1>2, <3>1, <3>2 DEF Loads
  <2>4. Finds(q, e, n)
    BY <2>2 DEF Valid, Finds, Only
  <2>5. LooksUp(q, e, ph)
    <3> SUFFICES ASSUME q.kind = "single", ph[q.row.receiver] # "on"
                 PROVE  IF q.item = Nobody THEN \A x \in e.mitems : x.mail # q.row.id
                        ELSE Posted(e, q.row.id, q.item, q.row.receiver)
      BY DEF LooksUp
    <3>1. CASE q.item = Nobody
      BY <2>2, <3>1 DEF Valid, LooksUp, Only
    <3>2. CASE q.item # Nobody
      <4>1. Posted(d, q.row.id, q.item, q.row.receiver)
        BY <2>2, <3>2 DEF Valid, LooksUp
      <4>2. PICK x \in d.mitems :
              /\ x = [mail |-> q.row.id, item |-> q.item, receiver |-> q.row.receiver]
              /\ x.mail = q.row.id
        BY <4>1, PostedIs
      <4>3. x \in e.mitems
        BY <2>2, <4>2 DEF Only
      <4> QED BY <3>2, <4>2, <4>3 DEF Posted
    <3> QED BY <3>1, <3>2
  <2> QED BY <2>1, <2>3, <2>4, <2>5 DEF Valid
<1> QED BY <1>3, <1>4 DEF World

\* The item of the mail that is looked up is in the tables, or there is none.
Known(o) == IF o.item = Nobody THEN \A x \in disk.mitems : x.mail # o.row.id
            ELSE Posted(disk, o.row.id, o.item, o.row.receiver)

LEMMA LeadsThree ==
  ASSUME NEW d, NEW f \in Tables, NEW g \in Tables, NEW e \in Tables, Apart(f), Apart(g), Apart(e)
  PROVE  Leads(<<f, g, e>>, d, e)
<1>1. Len(<<f, g, e>>) = 3 /\ <<f, g, e>> \in Seq(Tables)
  OBVIOUS
<1> QED BY <1>1 DEF Leads

LEMMA DeleteOldWorld ==
  ASSUME disk \in Tables, NEW o \in Query, o.kind = "single", Known(o), NEW b,
         NEW B \in [Chars -> SUBSET MailEntry], NEW n \in Nat, NEW A, NEW ph, NEW qs \in Seq(Query),
         World(disk, b, B, n, A, ph, qs), Undisturbed(o.row.id, o.row.receiver, ph, qs)
  PROVE  \E e \in Tables : /\ Leads(DeleteOld(o), disk, e) /\ e.auctions = disk.auctions
                           /\ World(e, b, B, n, A, ph, qs)
<1>1. o.item \in Items \cup {Nobody} /\ o.row.receiver \in Chars
  BY QueryFields
<1>2. CASE o.item = Nobody
  <2>1. DeleteOld(o) = <<Dropped(o.row.id)>>
    BY <1>1, <1>2, DeleteOldFields
  <2>2. PICK e \in Tables : e = Dropped(o.row.id)
    BY DroppedAlike
  <2>3. Alike(disk, e) /\ e.auctions = disk.auctions
    BY <2>2, DroppedAlike
  <2>4. World(e, b, B, n, A, ph, qs)
    BY <2>3, SameWorld
  <2>5. Leads(DeleteOld(o), disk, e)
    BY <2>1, <2>2, <2>4, WorldParts, LeadsOne
  <2> QED BY <2>3, <2>4, <2>5
<1>3. CASE o.item # Nobody
  <2>1. PICK e \in Tables, f \in Tables, g \in Tables :
          /\ DeleteOld(o) = <<e, f, g>> /\ Trimmed(e) /\ Trimmed(f) /\ Trimmed(g)
          /\ g.mitems = {x \in disk.mitems : x.mail # o.row.id} /\ g.mails \subseteq disk.mails
          /\ \A i \in Items : i # o.item => g.inst[i] = disk.inst[i]
    BY <1>1, <1>3, DeleteOldFields
  <2>2. Apart(disk) /\ Rows(disk, n) /\ Away(disk, A)
    BY WorldParts
  <2>3. Posted(disk, o.row.id, o.item, o.row.receiver)
    BY <1>3 DEF Known
  <2>4. Apart(e) /\ Apart(f) /\ Apart(g) /\ g.auctions = disk.auctions /\ g.inv = disk.inv
    BY <2>1, <2>2, ApartTrim DEF Trimmed
  <2>5. disk.inv[o.item] = Nobody
    BY <2>2, <2>3, PostedIs DEF Apart
  <2>6. Fewer(disk, g)
    BY <2>1, <2>4, <2>5, SubsetFollows DEF Fewer
  <2>7. Rows(g, n) /\ Away(g, A)
    BY <2>2, <2>6, FewerTables
  <2>8. Only(o.row.id, o.item, o.row.receiver, disk, g)
    BY <2>1, <2>3, <2>4 DEF Only
  <2>9. World(g, b, B, n, A, ph, qs)
    BY <1>1, <2>4, <2>7, <2>8, OnlyWorld
  <2>10. Leads(DeleteOld(o), disk, g)
    BY <2>1, <2>4, LeadsThree
  <2> QED BY <2>4, <2>9, <2>10
<1> QED BY <1>2, <1>3

LEMMA TurnedTables ==
  ASSUME disk \in Tables, NEW o \in Query, o.kind = "single", o.row.sender \in Chars, Known(o),
         NEW n, NEW A, Apart(disk), Rows(disk, n), Away(disk, A), NEW g \in Tables,
         g.inv = disk.inv, g.mails = {TurnedRow(o, r) : r \in disk.mails},
         g.mitems = IF o.item = Nobody THEN disk.mitems ELSE {TurnedItem(o, x) : x \in disk.mitems},
         \A i \in Items : i # o.item => g.inst[i] = disk.inst[i]
  PROVE  /\ Apart(g) /\ Rows(g, n) /\ Away(g, A)
         /\ o.item # Nobody => Only(o.row.id, o.item, o.row.receiver, disk, g)
<1>1. o.item \in Items \cup {Nobody} /\ o.row.receiver \in Chars
  BY QueryFields
<1>2. \A r \in disk.mails : r \in MailRow
  BY TablesFields
<1>3. \A x \in disk.mitems : x \in MailItem /\ x.item # Nobody /\ x.item \in Items
  BY TablesFields, MailAssumption DEF MailItem
<1>4. ASSUME NEW s \in g.mails
      PROVE  \E r \in disk.mails : /\ s = TurnedRow(o, r) /\ s.id = r.id
                                   /\ r.id # o.row.id => s = r
                                   /\ r.id = o.row.id => s.receiver = o.row.sender
  BY <1>1, <1>2, <1>4, TurnedFields
<1>5. ASSUME NEW y \in g.mitems
      PROVE  \E x \in disk.mitems : /\ y = TurnedItem(o, x) /\ y.item = x.item /\ y.mail = x.mail
                                    /\ x.item # o.item => y = x
                                    /\ x.item = o.item => y.receiver = o.row.sender
  <2>1. CASE o.item = Nobody
    <3>1. \A x \in disk.mitems : x.item # o.item /\ TurnedItem(o, x) = x
      BY <1>1, <1>3, <2>1, TurnedFields
    <3>2. y \in disk.mitems
      BY <1>5, <2>1
    <3> QED BY <3>1, <3>2
  <2>2. CASE o.item # Nobody
    <3>1. PICK x \in disk.mitems : y = TurnedItem(o, x)
      BY <1>5, <2>2
    <3> QED BY <1>1, <1>3, <3>1, TurnedFields
  <2> QED BY <2>1, <2>2
<1>6. ASSUME NEW x \in disk.mitems PROVE x.mail = o.row.id <=> x.item = o.item
  <2>1. CASE o.item = Nobody
    BY <1>3, <1>6, <2>1 DEF Known
  <2>2. CASE o.item # Nobody
    <3>1. PICK z \in disk.mitems : z.mail = o.row.id /\ z.item = o.item
      BY <2>2, PostedIs DEF Known
    <3> QED BY <1>6, <3>1 DEF Apart, Rows
  <2> QED BY <2>1, <2>2
<1>7. Apart(g)
  BY <1>5 DEF Apart
<1>8. Away(g, A)
  BY <1>5 DEF Away
<1>9. Rows(g, n)
  <2>1. \A x, y \in g.mitems : x.mail = y.mail => x = y
    BY <1>5 DEF Rows
  <2>2. \A r, s \in g.mails : r.id = s.id => r = s
    BY <1>4 DEF Rows
  <2>3. ASSUME NEW s \in g.mails, NEW y \in g.mitems, y.mail = s.id PROVE y.receiver = s.receiver
    <3>1. PICK r \in disk.mails : /\ s.id = r.id /\ (r.id # o.row.id => s = r)
                                  /\ r.id = o.row.id => s.receiver = o.row.sender
      BY <1>4
    <3>2. PICK x \in disk.mitems : /\ y.mail = x.mail /\ (x.item # o.item => y = x)
                                   /\ x.item = o.item => y.receiver = o.row.sender
      BY <1>5
    <3>3. x.mail = r.id /\ x.receiver = r.receiver
      BY <2>3, <3>1, <3>2 DEF Rows
    <3> QED BY <1>6, <3>1, <3>2, <3>3
  <2>4. (\A x \in g.mitems : x.mail < n) /\ (\A r \in g.mails : r.id < n)
    BY <1>4, <1>5 DEF Rows
  <2>5. \A i \in Items : g.inv[i] # Nobody => g.inst[i] = g.inv[i]
    <3> SUFFICES ASSUME NEW i \in Items, disk.inv[i] # Nobody PROVE g.inst[i] = disk.inv[i]
      OBVIOUS
    <3>1. i # o.item
      <4>1. CASE o.item = Nobody
        BY <4>1, MailAssumption
      <4>2. CASE o.item # Nobody
        BY <4>2, PostedIs DEF Known, Apart
      <4> QED BY <4>1, <4>2
    <3> QED BY <3>1 DEF Rows
  <2> QED BY <2>1, <2>2, <2>3, <2>4, <2>5 DEF Rows
<1>10. ASSUME o.item # Nobody PROVE Only(o.row.id, o.item, o.row.receiver, disk, g)
  <2>1. ASSUME NEW x \in disk.mitems, x.mail # o.row.id PROVE x \in g.mitems
    <3>1. TurnedItem(o, x) = x
      BY <1>1, <1>3, <1>6, <2>1, TurnedFields
    <3> QED BY <1>10, <2>1, <3>1
  <2>2. ASSUME NEW y \in g.mitems, y.mail # o.row.id PROVE y \in disk.mitems
    BY <1>5, <1>6, <2>2
  <2> QED BY <1>10, <2>1, <2>2 DEF Only, Known
<1> QED BY <1>7, <1>8, <1>9, <1>10

LEMMA ReturnOldWorld ==
  ASSUME disk \in Tables, NEW o \in Query, o.kind = "single", o.row.sender \in Chars, Known(o), NEW b,
         NEW B \in [Chars -> SUBSET MailEntry], NEW n \in Nat, NEW A, NEW ph, NEW qs \in Seq(Query),
         World(disk, b, B, n, A, ph, qs), Undisturbed(o.row.id, o.row.receiver, ph, qs)
  PROVE  \E e \in Tables : /\ Leads(ReturnOld(o), disk, e) /\ e.auctions = disk.auctions
                           /\ World(e, b, B, n, A, ph, qs)
<1>1. o.item \in Items \cup {Nobody} /\ o.row.receiver \in Chars
  BY QueryFields
<1>2. PICK e \in Tables, f \in Tables, g \in Tables :
           /\ ReturnOld(o) = IF o.item = Nobody THEN <<e>> ELSE <<e, f, g>>
           /\ e.inv = disk.inv /\ f.inv = disk.inv /\ g.inv = disk.inv
           /\ e.auctions = disk.auctions /\ g.auctions = disk.auctions
           /\ e.mails = {TurnedRow(o, r) : r \in disk.mails} /\ g.mails = e.mails
           /\ e.mitems = disk.mitems /\ f.mitems = {TurnedItem(o, x) : x \in disk.mitems}
           /\ g.mitems = f.mitems /\ e.inst = disk.inst
           /\ \A i \in Items : i # o.item => g.inst[i] = disk.inst[i]
  BY <1>1, ReturnOldFields
<1>3. Apart(disk) /\ Rows(disk, n) /\ Away(disk, A) /\ Memory(b, B, disk, n, ph)
      /\ AllValid(qs, disk, n, ph)
  BY WorldParts
<1>4. CASE o.item = Nobody
  <2>1. Apart(e) /\ Rows(e, n) /\ Away(e, A)
    BY <1>2, <1>3, <1>4, TurnedTables
  <2>2. NewRows(disk, e, n) /\ n <= n
    BY <1>2, SameRows
  <2>3. \A c \in Chars : Stays(c, disk, e)
    BY <1>2 DEF Stays, Owned
  <2>4. World(e, b, B, n, A, ph, qs)
    BY <1>3, <2>1, <2>2, <2>3, WorldFrame
  <2>5. Leads(ReturnOld(o), disk, e)
    BY <1>2, <1>4, <2>1, LeadsOne
  <2> QED BY <1>2, <2>4, <2>5
<1>5. CASE o.item # Nobody
  <2>1. /\ Apart(g) /\ Rows(g, n) /\ Away(g, A)
        /\ Only(o.row.id, o.item, o.row.receiver, disk, g)
    BY <1>2, <1>3, <1>5, TurnedTables
  <2>2. World(g, b, B, n, A, ph, qs)
    BY <1>1, <2>1, OnlyWorld
  <2>3. Apart(e) /\ Apart(f)
    BY <1>2, <1>3, <2>1 DEF Apart
  <2>4. Leads(ReturnOld(o), disk, g)
    BY <1>2, <1>5, <2>1, <2>3, LeadsThree
  <2> QED BY <1>2, <2>2, <2>4
<1> QED BY <1>4, <1>5

LEMMA SingleMailReturnerKeeps ==
  ASSUME IInv, SingleMailReturner, UNCHANGED aucVars
  PROVE  IInv'
<1>1. TypeOK /\ TypeOK'
  BY SingleMailReturnerType DEF IInv
<1>2. PICK o \in Query : o = Head(queries)
  BY <1>1, AnsweredHead DEF SingleMailReturner
<1>3. /\ pend = <<>> /\ queries # <<>> /\ o.kind = "single" /\ Tail(queries) \in Seq(Query)
  BY <1>1, <1>2, AnsweredHead DEF SingleMailReturner
<1>4. /\ queries' = Tail(queries) /\ UNCHANGED <<disk, charVars, memVars, nextMail, olds>>
      /\ \/ On(o.row.receiver) /\ UNCHANGED pend
         \/ /\ ~On(o.row.receiver)
            /\ pend' = IF o.row.sender = Nobody \/ o.row.back THEN DeleteOld(o) ELSE ReturnOld(o)
  BY <1>2 DEF SingleMailReturner
<1>5. /\ disk \in Tables /\ queries \in Seq(Query) /\ InOrder(queries) /\ nextMail \in Nat
      /\ box \in [Chars -> SUBSET MailEntry]
      /\ World(disk, bag, box, nextMail, auctions, phase, queries)
  BY <1>3, IdleFacts
<1>6. /\ World(disk, bag, box, nextMail, auctions, phase, Tail(queries)) /\ InOrder(Tail(queries))
  BY <1>3, <1>5, TailWorld
<1>7. bag' = bag /\ box' = box /\ nextMail' = nextMail /\ phase' = phase /\ disk' = disk
  BY <1>4 DEF memVars, charVars
<1>8. CASE On(o.row.receiver) /\ UNCHANGED pend
  BY <1>1, <1>3, <1>4, <1>6, <1>7, <1>8, ConcludeIdle
<1>9. CASE /\ ~On(o.row.receiver)
           /\ pend' = IF o.row.sender = Nobody \/ o.row.back THEN DeleteOld(o) ELSE ReturnOld(o)
  <2>1. /\ Valid(o, disk, nextMail, phase)
        /\ \A k \in 1 .. Len(Tail(queries)) : Compatible(o, Tail(queries)[k])
    BY <1>2, <1>3, <1>5, TailKeeps, WorldParts
  <2>2. Known(o)
    BY <1>3, <1>9, <2>1 DEF Valid, LooksUp, Known, On
  <2>3. Undisturbed(o.row.id, o.row.receiver, phase, Tail(queries))
    BY <1>3, <1>9, <2>1 DEF Compatible, Undisturbed, On
  <2>4. o.row.sender # Nobody => o.row.sender \in Chars
    BY <1>3, QueryFields DEF Who
  <2>5. PICK e \in Tables :
          /\ Leads(pend', disk, e) /\ e.auctions = disk.auctions
          /\ World(e, bag, box, nextMail, auctions, phase, Tail(queries))
    <3>1. CASE o.row.sender = Nobody \/ o.row.back
      BY <1>3, <1>5, <1>6, <1>9, <2>2, <2>3, <3>1, DeleteOldWorld
    <3>2. CASE ~(o.row.sender = Nobody \/ o.row.back)
      BY <1>3, <1>5, <1>6, <1>9, <2>2, <2>3, <2>4, <3>2, ReturnOldWorld
    <3> QED BY <3>1, <3>2
  <2> QED BY <1>1, <1>3, <1>4, <1>6, <1>7, <2>5, ConcludeLeads
<1> QED BY <1>4, <1>8, <1>9

LEMMA ErasedWorld ==
  ASSUME NEW d \in Tables, NEW c \in Chars, NEW b, NEW B \in [Chars -> SUBSET MailEntry],
         NEW n \in Nat, NEW A \in SUBSET Auction, NEW ph, NEW qs \in Seq(Query),
         World(d, b, B, n, A, ph, qs), ph[c] = "off", NoLookup(qs, c)
  PROVE  /\ Erased(d, c) \in Tables /\ Erased(d, c).auctions = d.auctions
         /\ World(Erased(d, c), b, B, n, A, ph, qs)
<1>1. PICK e \in Tables : e = Erased(d, c)
  BY ErasedFields
<1>2. /\ e.auctions = d.auctions
      /\ e.inv = [i \in Items |-> IF d.inv[i] = c THEN Nobody ELSE d.inv[i]]
      /\ e.inst = [i \in Items |-> IF d.inst[i] = c THEN Nobody ELSE d.inst[i]]
      /\ e.mails = {x \in d.mails : x.receiver # c}
      /\ e.mitems = {x \in d.mitems : x.receiver # c}
  BY <1>1, ErasedFields
<1>3. /\ Apart(d) /\ Rows(d, n) /\ Away(d, A) /\ Memory(b, B, d, n, ph) /\ AllValid(qs, d, n, ph)
  BY WorldParts
<1>4. (\A x \in d.mitems : x.item \in Items) /\ (\A a \in A : a.item \in Items)
  <2>1. \A x \in d.mitems : x.item \in Items
    BY TablesFields DEF MailItem
  <2>2. \A a \in A : a.item \in Items
    BY DEF Auction
  <2> QED BY <2>1, <2>2
<1>5. \A i \in Items : /\ d.inv[i] = Nobody => e.inv[i] = Nobody
                       /\ e.inv[i] # Nobody => e.inv[i] = d.inv[i] /\ d.inv[i] # c
                       /\ d.inst[i] # c => e.inst[i] = d.inst[i]
  BY <1>2
<1>6. Apart(e)
  BY <1>2, <1>3, <1>4, <1>5 DEF Apart
<1>7. Away(e, A)
  BY <1>2, <1>3, <1>4, <1>5 DEF Away
<1>8. Rows(e, n)
  BY <1>2, <1>3, <1>5 DEF Rows
<1>9. NewRows(d, e, n) /\ n <= n
  BY <1>2, SameRows
<1>10. ASSUME NEW x \in Chars, x # c PROVE Stays(x, d, e)
  <2>1. x # Nobody
    BY MailAssumption
  <2>2. \A i \in Items : e.inv[i] = x <=> d.inv[i] = x
    BY <1>2, <1>10, <2>1
  <2> QED BY <1>2, <1>10, <2>2 DEF Stays, Owned
<1>11. World(e, b, B, n, A, ph, qs)
  BY <1>3, <1>6, <1>7, <1>8, <1>9, <1>10, WorldFrame
<1> QED BY <1>1, <1>2, <1>11

LEMMA CodDroppedWorld ==
  ASSUME IInv, pend = <<>>, NEW c \in Chars, phase[c] = "off", NoLookup(queries, c), CodRows(c) # {}
  PROVE  /\ World(CodDropped(c), bag, box, nextMail, auctions, phase, queries)
         /\ Apart(CodFirst(c)) /\ Apart(CodDropped(c))
         /\ Spare(CodDraft(c).item, CodDropped(c), auctions)
<1>1. /\ disk \in Tables /\ queries \in Seq(Query) /\ nextMail \in Nat /\ TypeOK
      /\ box \in [Chars -> SUBSET MailEntry] /\ Apart(disk)
      /\ World(disk, bag, box, nextMail, auctions, phase, queries)
  BY IdleFacts
<1>2. Rows(disk, nextMail) /\ Away(disk, auctions)
  BY <1>1, WorldParts
<1>3. PICK f \in Tables, d \in Tables, r \in disk.mails :
        f = CodFirst(c) /\ d = CodDropped(c) /\ r = CodRow(c) /\ r \in CodRows(c)
  BY <1>1, CodFields
<1>4. /\ f.inv = disk.inv /\ f.mitems = disk.mitems
      /\ d.inv = disk.inv /\ d.inst = disk.inst /\ d.mails \subseteq disk.mails
      /\ d.mitems = {x \in disk.mitems : x.mail \notin IdsOf(CodRows(c))}
  BY <1>1, <1>3, CodFields
<1>5. ASSUME NEW x \in disk.mitems, x.receiver # c PROVE x \in d.mitems
  <2>1. \A s \in CodRows(c) : s \in disk.mails /\ s.receiver = c
    BY DEF CodRows
  <2>2. \A s \in CodRows(c) : x.mail # s.id
    BY <1>2, <1>5, <2>1 DEF Rows
  <2> QED BY <1>4, <1>5, <2>2 DEF IdsOf
<1>6. Fewer(disk, d)
  BY <1>4, SubsetFollows DEF Fewer
<1>7. \A x \in Chars : \/ box[x] = box[x] /\ \A z \in disk.mitems : z.receiver = x => z \in d.mitems
                       \/ box[x] = box[x] /\ phase[x] = "off" /\ NoLookup(queries, x)
  BY <1>5
<1>8. World(d, bag, box, nextMail, auctions, phase, queries)
  BY <1>1, <1>6, <1>7, DropWorld
<1>9. Apart(f) /\ Apart(d)
  BY <1>1, <1>4, ApartTrim
<1>10. Spare(CodDraft(c).item, d, auctions)
  <2>1. CodDraft(c).item = MailedItem(r)
    BY <1>1, <1>3, CodFields
  <2> SUFFICES ASSUME MailedItem(r) # Nobody PROVE Spare(MailedItem(r), d, auctions)
    BY <2>1 DEF Spare
  <2>2. PICK x \in disk.mitems : x.mail = r.id /\ x.item = MailedItem(r)
    BY <1>1, MailedItemIs
  <2>3. x \notin d.mitems
    BY <1>3, <1>4, <2>2 DEF IdsOf
  <2>4. \A y \in d.mitems : y.item # x.item
    BY <1>1, <1>4, <2>3 DEF Apart
  <2> QED BY <1>1, <1>2, <1>4, <2>2, <2>4 DEF Spare, Apart, Away
<1> QED BY <1>3, <1>8, <1>9, <1>10

LEMMA CodBackWorld ==
  ASSUME IInv, NEW c \in Chars, DeleteFromDB(c), phase[c] = "off", NoLookup(queries, c)
  PROVE  /\ Leads(CodBack(c), disk, CodLast(c)) /\ CodLast(c) \in Tables
         /\ CodLast(c).auctions = disk.auctions
         /\ World(CodLast(c), bag, box', nextMail', auctions, phase, queries)
<1>1. /\ pend = <<>>
      /\ box' = IF CodSent(c) THEN AddMail(box, nextMail, CodDraft(c)) ELSE box
      /\ nextMail' = IF CodSent(c) THEN nextMail + 1 ELSE nextMail
  BY DeleteFromDBIs
<1>2. /\ disk \in Tables /\ queries \in Seq(Query) /\ nextMail \in Nat /\ TypeOK
      /\ box \in [Chars -> SUBSET MailEntry]
      /\ World(disk, bag, box, nextMail, auctions, phase, queries)
  BY <1>1, IdleFacts
<1>3. CASE CodRows(c) = {}
  <2>1. CodBack(c) = <<>> /\ CodLast(c) = disk /\ ~CodSent(c)
    BY <1>3 DEF CodBack, CodLast, CodSent
  <2>2. Leads(<<>>, disk, disk)
    BY DEF Leads
  <2> QED BY <1>1, <1>2, <2>1, <2>2
<1>4. CASE CodRows(c) # {}
  <2>1. PICK f \in Tables, d \in Tables : f = CodFirst(c) /\ d = CodDropped(c)
    BY <1>2, CodFields
  <2>2. PICK t : t = CodDraft(c)
    OBVIOUS
  <2>3. /\ t.item \in Items \cup {Nobody} /\ (t.to \in exists => t \in DraftType)
        /\ d.auctions = disk.auctions
    BY <1>2, <1>4, <2>1, <2>2, CodFields
  <2>4. /\ World(d, bag, box, nextMail, auctions, phase, queries)
        /\ Apart(f) /\ Apart(d) /\ Spare(t.item, d, auctions)
    BY <1>1, <1>4, <2>1, <2>2, CodDroppedWorld
  <2>5. PICK e \in Tables :
          /\ Leads(SendReturnToSender(d, nextMail, t), d, e) /\ e.auctions = d.auctions
          /\ World(e, bag, BackBoxes(box, nextMail, t), BackNext(nextMail, t), auctions, phase, queries)
    BY <1>2, <2>3, <2>4, ReturnWorld
  <2>6. box' = BackBoxes(box, nextMail, t) /\ nextMail' = BackNext(nextMail, t)
    BY <1>1, <1>4, <2>2 DEF CodSent, BackBoxes, BackNext
  <2>7. CodBack(c) = <<f, d>> \o SendReturnToSender(d, nextMail, t)
    BY <1>4, <2>1, <2>2 DEF CodBack
  <2>8. Leads(CodBack(c), disk, e)
    BY <1>2, <2>4, <2>5, <2>7, LeadsTwo, LeadsOn
  <2>9. CodLast(c) = e
    BY <2>8 DEF CodLast, Leads
  <2> QED BY <2>3, <2>5, <2>6, <2>8, <2>9
<1> QED BY <1>3, <1>4

LEMMA DeleteFromDBKeeps ==
  ASSUME IInv, ~SlowLookup, NEW c \in Chars, DeleteFromDB(c), UNCHANGED aucVars
  PROVE  IInv'
<1>1. TypeOK /\ TypeOK'
  BY DeleteFromDBType DEF IInv
<1>2. /\ pend = <<>> /\ phase[c] = "off" /\ ~LookedUp(c)
      /\ pend' = Append(CodBack(c), Erased(CodLast(c), c))
      /\ UNCHANGED <<disk, phase, bag, queryVars>>
  BY DeleteFromDBIs
<1>3. NoLookup(queries, c)
  BY <1>2 DEF LookedUp, NoLookup
<1>4. PICK d \in Tables : d = CodLast(c)
  BY <1>2, <1>3, CodBackWorld
<1>5. /\ Leads(CodBack(c), disk, d) /\ d.auctions = disk.auctions
      /\ World(d, bag, box', nextMail', auctions, phase, queries)
  BY <1>2, <1>3, <1>4, CodBackWorld
<1>6. /\ queries \in Seq(Query) /\ InOrder(queries) /\ auctions \in SUBSET Auction /\ disk \in Tables
  BY <1>2, IdleFacts
<1>7. nextMail' \in Nat /\ box' \in [Chars -> SUBSET MailEntry]
  BY <1>1, MailAssumption DEF TypeOK
<1>8. PICK e \in Tables : e = Erased(d, c)
  BY ErasedFields
<1>9. e.auctions = d.auctions /\ World(e, bag, box', nextMail', auctions, phase, queries)
  BY <1>2, <1>3, <1>5, <1>6, <1>7, <1>8, ErasedWorld
<1>10. Leads(pend', disk, e)
  <2>1. Apart(e)
    BY <1>9, WorldParts
  <2>2. PICK s \in Seq(Tables) : s = CodBack(c)
    BY <1>5 DEF Leads
  <2>3. pend' = s \o <<e>>
    <3>1. pend' = Append(s, e)
      BY <1>2, <1>4, <1>8, <2>2
    <3> QED BY <3>1, AppendIsConcat
  <2> QED BY <1>5, <1>6, <2>1, <2>2, <2>3, LeadsOne, LeadsOn
<1>11. phase' = phase /\ queries' = queries /\ disk' = disk /\ bag' = bag
  BY <1>2 DEF queryVars
<1> QED BY <1>1, <1>2, <1>5, <1>6, <1>9, <1>10, <1>11, ConcludeLeads

-----------------------------------------------------------------------------
(* The auction house. *)

\* A mailing so far, the auctions A being those whose items the house holds
\* and T those in the table.
Sound(s, A, T) ==
  /\ s \in Mailing /\ Leads(s.log, disk, s.d) /\ s.d.auctions = T
  /\ World(s.d, bag, s.boxes, s.id, A, phase, queries)

LEMMA AuctionParts ==
  ASSUME NEW a \in Auction
  PROVE  /\ a.id \in Nat /\ a.item \in Items /\ a.owner \in Chars /\ a.owner \in Who
         /\ a.bid \in Nat /\ a.bidder \in Who /\ a.buyout \in Nat /\ Profit(a) \in Nat
<1>1. a.id \in 1 .. MaxAuctions /\ Profit(a) \in Nat
  BY ProfitType DEF Auction
<1>2. a.id \in Nat
  BY <1>1, AuctionAssumption
<1> QED BY <1>1, <1>2 DEF Auction, Who

\* The mailing p is s and the mail of the house t.
Posting(p, s, t) ==
  /\ p \in Mailing /\ t \in DraftType /\ InsertMail(s.d, s.id, t) \in Tables
  /\ p.log = Append(s.log, p.d) /\ p.d = InsertMail(s.d, s.id, t)
  /\ p.boxes = AddMail(s.boxes, s.id, t) /\ p.id = s.id + 1

LEMMA PostParts ==
  ASSUME TypeOK, NEW s \in Mailing, NEW to \in Who, NEW item \in Items \cup {Nobody},
         NEW money \in Nat
  PROVE  /\ to \notin exists => Post(s, to, item, money) = s
         /\ to \in exists => /\ Posting(Post(s, to, item, money), s, HouseMail(to, item, money))
                             /\ HouseMail(to, item, money).item = item
                             /\ HouseMail(to, item, money).to = to
                             /\ HouseMail(to, item, money).money = money
  BY PostFields DEF Posting

LEMMA StartSound ==
  ASSUME IInv, pend = <<>>
  PROVE  Sound(Start, auctions, auctions)
<1>1. /\ TypeOK /\ disk.auctions = auctions
      /\ World(disk, bag, box, nextMail, auctions, phase, queries)
  BY IdleFacts
<1>2. Leads(<<>>, disk, disk)
  BY DEF Leads
<1> QED BY <1>1, <1>2, StartFields DEF Sound

\* A transaction that changes neither items nor mails is added.
LEMMA WriteSound ==
  ASSUME TypeOK, NEW s, NEW A, NEW A2, NEW T, NEW T2, NEW d \in Tables, Sound(s, A, T),
         World(s.d, bag, s.boxes, s.id, A2, phase, queries), Alike(s.d, d), d.auctions = T2
  PROVE  Sound(Write(s, d), A2, T2)
<1>1. /\ s \in Mailing /\ Leads(s.log, disk, s.d) /\ s.log \in Seq(Tables) /\ s.d \in Tables
      /\ s.boxes \in [Chars -> SUBSET MailEntry] /\ s.id \in Nat
  BY MailingFields DEF Sound
<1>2. /\ Write(s, d) \in Mailing /\ Write(s, d).log = Append(s.log, d) /\ Write(s, d).d = d
      /\ Write(s, d).boxes = s.boxes /\ Write(s, d).id = s.id
  BY <1>1, WriteFields
<1>3. queries \in Seq(Query) /\ disk \in Tables
  BY DEF TypeOK
<1>4. World(d, bag, s.boxes, s.id, A2, phase, queries)
  BY <1>1, <1>3, SameWorld
<1>5. Apart(d)
  BY <1>4, WorldParts
<1>6. Leads(Append(s.log, d), disk, d)
  <2>1. Append(s.log, d) = s.log \o <<d>>
    BY <1>1, AppendIsConcat
  <2> QED BY <1>1, <1>3, <1>5, <2>1, LeadsOne, LeadsOn
<1> QED BY <1>2, <1>4, <1>6 DEF Sound

\* A mail with a spare item, or none, is added.
LEMMA PostSound ==
  ASSUME TypeOK, NEW s, NEW A, NEW T, Sound(s, A, T), NEW to \in Who,
         NEW item \in Items \cup {Nobody}, NEW money \in Nat, Spare(item, s.d, A)
  PROVE  Sound(Post(s, to, item, money), A, T)
<1>1. /\ s \in Mailing /\ Leads(s.log, disk, s.d) /\ s.log \in Seq(Tables) /\ s.d \in Tables
      /\ s.boxes \in [Chars -> SUBSET MailEntry] /\ s.id \in Nat /\ s.d.auctions = T
      /\ World(s.d, bag, s.boxes, s.id, A, phase, queries)
  BY MailingFields DEF Sound
<1>2. queries \in Seq(Query) /\ disk \in Tables
  BY DEF TypeOK
<1>3. CASE to \notin exists
  BY <1>1, <1>3, PostParts DEF Sound
<1>4. CASE to \in exists
  <2>1. PICK t, p : t = HouseMail(to, item, money) /\ p = Post(s, to, item, money)
    OBVIOUS
  <2>2. Posting(p, s, t) /\ t.item = item
    <3>1. s \in Mailing
      BY <1>1
    <3>2. /\ Posting(Post(s, to, item, money), s, HouseMail(to, item, money))
          /\ HouseMail(to, item, money).item = item
      BY <1>4, <3>1, PostParts, SMTT(60)
    <3> QED BY <2>1, <3>2
  <2>3. PICK e : e = InsertMail(s.d, s.id, t)
    OBVIOUS
  <2>4. /\ p \in Mailing /\ t \in DraftType /\ e \in Tables
        /\ p.log = Append(s.log, e) /\ p.d = e
        /\ p.boxes = AddMail(s.boxes, s.id, t) /\ p.id = s.id + 1
    BY <2>2, <2>3 DEF Posting
  <2>5. World(e, bag, p.boxes, p.id, A, phase, queries)
    BY <1>1, <1>2, <2>2, <2>3, <2>4, ArriveWorld
  <2>6. e.auctions = T
    BY <1>1, <2>3 DEF InsertMail, Tables
  <2>7. Leads(Append(s.log, e), disk, e)
    <3>1. Append(s.log, e) = s.log \o <<e>>
      BY <1>1, <2>4, AppendIsConcat
    <3>2. Apart(e)
      BY <2>5, WorldParts
    <3> QED BY <1>1, <1>2, <2>4, <3>1, <3>2, LeadsOne, LeadsOn
  <2>8. Sound(p, A, T)
    BY <2>4, <2>5, <2>6, <2>7 DEF Sound
  <2> QED BY <2>1, <2>8
<1> QED BY <1>3, <1>4

LEMMA GoldSound ==
  ASSUME TypeOK, NEW s, NEW A, NEW T, Sound(s, A, T), NEW to \in Who, NEW money \in Nat
  PROVE  Sound(Post(s, to, Nobody, money), A, T)
<1>1. Spare(Nobody, s.d, A)
  BY DEF Spare
<1> QED BY <1>1, PostSound

LEMMA RefundSound ==
  ASSUME TypeOK, NEW s, NEW A, NEW T, Sound(s, A, T), NEW a \in Auction, NEW c
  PROVE  Sound(Refund(s, a), A, T) /\ Sound(Outbid(s, c, a), A, T)
<1>1. a.bidder \in Who /\ a.bid \in Nat
  BY AuctionParts
<1>2. Sound(Post(s, a.bidder, Nobody, a.bid), A, T)
  BY <1>1, GoldSound
<1> QED BY <1>2 DEF Refund, Outbid

LEMMA SuccessSound ==
  ASSUME TypeOK, NEW s, NEW A, NEW T, Sound(s, A, T), NEW a \in Auction
  PROVE  Sound(SendAuctionSuccessfulMail(s, a), A, T)
<1>1. a.owner \in Who /\ Profit(a) \in Nat
  BY AuctionParts
<1> QED BY <1>1, GoldSound DEF SendAuctionSuccessfulMail

\* The house gives up the item of auction a.
LEMMA ReleaseSound ==
  ASSUME NEW s, NEW A, NEW T, NEW a \in A, Sound(s, A, T)
  PROVE  Sound(s, A \ {a}, T) /\ Spare(a.item, s.d, A \ {a})
<1>1. PICK L \in SUBSET A : L = A \ {a}
  OBVIOUS
<1>2. World(s.d, bag, s.boxes, s.id, L, phase, queries)
  BY LessAuctions DEF Sound
<1>3. Away(s.d, A)
  BY WorldParts DEF Sound
<1>4. Spare(a.item, s.d, L)
  BY <1>1, <1>3 DEF Away, Spare
<1> QED BY <1>1, <1>2, <1>4 DEF Sound

LEMMA WonSound ==
  ASSUME TypeOK, NEW s, NEW A, NEW T, Sound(s, A, T), NEW a \in Auction, Spare(a.item, s.d, A)
  PROVE  Sound(SendAuctionWonMail(s, a), A, T) /\ Sound(SendAuctionExpiredMail(s, a), A, T)
<1>1. /\ a.item \in Items /\ a.item \in Items \cup {Nobody} /\ a.owner \in Who /\ a.bidder \in Who
      /\ exists \subseteq Chars
  BY AuctionParts DEF TypeOK
<1>2. /\ s \in Mailing /\ s.d \in Tables /\ s.d.auctions = T
      /\ World(s.d, bag, s.boxes, s.id, A, phase, queries)
  BY MailingFields DEF Sound
<1>3. Sound(Write(s, DeleteItem(s.d, a.item)), A, T)
  <2>1. PICK e \in Tables : e = DeleteItem(s.d, a.item)
    BY <1>1, <1>2, DeleteItemAlike
  <2>2. Alike(s.d, e) /\ e.auctions = T
    BY <1>1, <1>2, <2>1, DeleteItemAlike
  <2>3. Sound(Write(s, e), A, T)
    BY <1>2, <2>2, WriteSound
  <2> QED BY <2>1, <2>3
<1>4. Sound(Post(s, a.owner, a.item, 0), A, T)
  BY <1>1, PostSound
<1>5. ASSUME a.bidder \in exists
      PROVE  Sound(Post(Write(s, SetOwner(s.d, a.item, a.bidder)), a.bidder, a.item, 0), A, T)
  <2>1. a.bidder \in Chars
    BY <1>1, <1>5
  <2>2. PICK e \in Tables : e = SetOwner(s.d, a.item, a.bidder)
    BY <1>1, <1>2, <2>1, SetOwnerAlike
  <2>3. Alike(s.d, e) /\ e.auctions = T /\ Spare(a.item, e, A)
    BY <1>1, <1>2, <2>1, <2>2, SetOwnerAlike
  <2>4. PICK w : w = Write(s, e)
    OBVIOUS
  <2>5. Sound(w, A, T)
    BY <1>2, <2>3, <2>4, WriteSound
  <2>6. w.d = e
    BY <1>2, <2>4, WriteFields
  <2>7. Sound(Post(w, a.bidder, a.item, 0), A, T)
    BY <1>1, <2>3, <2>5, <2>6, PostSound
  <2> QED BY <2>2, <2>4, <2>7
<1> QED BY <1>3, <1>4, <1>5 DEF SendAuctionWonMail, SendAuctionExpiredMail

LEMMA ConcludeMailing ==
  ASSUME IInv, pend = <<>>, TypeOK', NEW s, Sound(s, auctions', auctions'), Commit(s),
         UNCHANGED <<disk, charVars, bag, queryVars>>, Numbered(auctions', nextAuction')
  PROVE  IInv'
<1>1. /\ pend' = s.log /\ box' = s.boxes /\ nextMail' = s.id
  BY DEF Commit
<1>2. /\ disk' = disk /\ phase' = phase /\ bag' = bag /\ queries' = queries
  BY DEF charVars, queryVars
<1>3. /\ Leads(pend', disk, s.d) /\ s.d.auctions = auctions'
      /\ World(s.d, bag', box', nextMail', auctions', phase', queries')
  BY <1>1, <1>2 DEF Sound
<1>4. InOrder(queries')
  BY <1>2, IdleFacts
<1>5. /\ (pend' = <<>> => s.d = disk) /\ (pend' # <<>> => pend'[Len(pend')] = s.d)
      /\ \A k \in 1 .. Len(pend') : Apart(pend'[k])
  BY <1>3 DEF Leads
<1> QED BY <1>2, <1>3, <1>4, <1>5, Conclude

\* The rows of the auctions when one is changed or ends.
LEMMA OtherAuctions ==
  ASSUME NEW A, NEW n, Numbered(A, n), NEW a \in A
  PROVE  {x \in A : x.id # a.id} = A \ {a} /\ Numbered(A \ {a}, n)
  BY DEF Numbered

LEMMA GoneAlike ==
  ASSUME NEW d \in Tables, NEW a \in Auction
  PROVE  /\ DeleteAuction(d, a) \in Tables /\ Alike(d, DeleteAuction(d, a))
         /\ DeleteAuction(d, a).auctions = {x \in d.auctions : x.id # a.id}
         /\ SaveAuction(d, a) \in Tables /\ Alike(d, SaveAuction(d, a))
         /\ SaveAuction(d, a).auctions = {x \in d.auctions : x.id # a.id} \cup {a}
  BY DeleteAuctionFields, SubsetFollows DEF Alike

\* The gold of c is saved.
LEMMA PaySound ==
  ASSUME TypeOK, NEW s, NEW A, NEW T, Sound(s, A, T), NEW c \in Chars, NEW g \in Copper
  PROVE  Sound(Write(s, SaveGold(s.d, c, g)), A, T)
<1>1. /\ s.d \in Tables /\ s.d.auctions = T /\ World(s.d, bag, s.boxes, s.id, A, phase, queries)
  BY MailingFields DEF Sound
<1>2. PICK e \in Tables : e = SaveGold(s.d, c, g)
  BY <1>1, SaveGoldAlike
<1>3. Alike(s.d, e) /\ e.auctions = T
  BY <1>1, <1>2, SaveGoldAlike
<1>4. Sound(Write(s, e), A, T)
  BY <1>1, <1>3, WriteSound
<1> QED BY <1>2, <1>4

\* The row of auction a is deleted.
LEMMA EndSound ==
  ASSUME TypeOK, NEW s, NEW A, NEW T, NEW n, NEW a \in T, T \subseteq Auction, Numbered(T, n),
         Sound(s, A, T)
  PROVE  /\ DeleteAuction(s.d, a) \in Tables /\ Alike(s.d, DeleteAuction(s.d, a))
         /\ DeleteAuction(s.d, a).auctions = T \ {a}
         /\ Sound(Write(s, DeleteAuction(s.d, a)), A, T \ {a})
<1>1. /\ s.d \in Tables /\ s.d.auctions = T /\ World(s.d, bag, s.boxes, s.id, A, phase, queries)
  BY MailingFields DEF Sound
<1>2. PICK e \in Tables : e = DeleteAuction(s.d, a)
  BY <1>1, GoneAlike
<1>3. PICK L : L = T \ {a}
  OBVIOUS
<1>4. Alike(s.d, e) /\ e.auctions = {x \in T : x.id # a.id}
  BY <1>1, <1>2, GoneAlike
<1>5. e.auctions = L
  BY <1>3, <1>4, OtherAuctions
<1>6. Sound(Write(s, e), A, L)
  BY <1>1, <1>4, <1>5, WriteSound
<1> QED BY <1>2, <1>3, <1>4, <1>5, <1>6

LEMMA UpdateKeeps ==
  ASSUME IInv, NEW a \in auctions, Update(a)
  PROVE  IInv'
<1>1. TypeOK /\ TypeOK'
  BY UpdateType DEF IInv
<1>2. /\ pend = <<>> /\ auctions' = auctions \ {a}
      /\ Commit(Write(Settle(a), DeleteAuction(Settle(a).d, a)))
      /\ UNCHANGED <<disk, charVars, bag, queryVars, nextAuction>>
  BY <1>1, UpdateIs
<1>3. /\ auctions \in SUBSET Auction /\ Numbered(auctions, nextAuction) /\ a \in Auction
      /\ Sound(Start, auctions, auctions)
  BY <1>2, IdleFacts, StartSound
<1>4. PICK L : L = auctions \ {a}
  OBVIOUS
<1>5. Sound(Settle(a), L, auctions)
  <2>1. CASE a.bidder = Nobody
    <3>1. PICK s : s = Start
      OBVIOUS
    <3>2. Sound(s, L, auctions) /\ Spare(a.item, s.d, L)
      BY <1>3, <1>4, <3>1, ReleaseSound
    <3> QED BY <1>1, <1>3, <2>1, <3>1, <3>2, WonSound DEF Settle
  <2>2. CASE a.bidder # Nobody
    <3>1. PICK s : s = SendAuctionSuccessfulMail(Start, a)
      OBVIOUS
    <3>2. Sound(s, auctions, auctions)
      BY <1>1, <1>3, <3>1, SuccessSound
    <3>3. Sound(s, L, auctions) /\ Spare(a.item, s.d, L)
      BY <1>4, <3>2, ReleaseSound
    <3> QED BY <1>1, <1>3, <2>2, <3>1, <3>3, WonSound DEF Settle
  <2> QED BY <2>1, <2>2
<1>6. Sound(Write(Settle(a), DeleteAuction(Settle(a).d, a)), L, L)
  BY <1>1, <1>3, <1>4, <1>5, EndSound
<1>7. Numbered(auctions', nextAuction')
  BY <1>2, <1>3, OtherAuctions
<1> QED BY <1>1, <1>2, <1>4, <1>6, <1>7, ConcludeMailing

LEMMA RemoveItemKeeps ==
  ASSUME IInv, NEW c \in Chars, NEW a \in auctions, HandleAuctionRemoveItem(c, a)
  PROVE  IInv'
<1>1. TypeOK /\ TypeOK'
  BY RemoveItemType DEF IInv
<1>2. PICK s, g : s = RemoveMails(c, a) /\ g = RemoveLeft(c, a)
  OBVIOUS
<1>3. /\ pend = <<>> /\ auctions' = auctions \ {a} /\ g \in Copper
      /\ Commit(Write(s, SaveGold(DeleteAuction(s.d, a), c, g)))
      /\ UNCHANGED <<disk, charVars, bag, queryVars, nextAuction>>
  BY <1>1, <1>2, RemoveItemIs
<1>4. /\ auctions \in SUBSET Auction /\ Numbered(auctions, nextAuction) /\ a \in Auction
      /\ Sound(Start, auctions, auctions)
  BY <1>3, IdleFacts, StartSound
<1>5. PICK L : L = auctions \ {a}
  OBVIOUS
<1>6. Sound(s, L, auctions)
  <2>1. PICK r : r = Refund(Start, a)
    OBVIOUS
  <2>2. Sound(r, auctions, auctions)
    BY <1>1, <1>4, <2>1, RefundSound
  <2>3. Sound(r, L, auctions) /\ Spare(a.item, r.d, L)
    BY <1>5, <2>2, ReleaseSound
  <2>4. a.item \in Items \cup {Nobody} /\ c \in Who
    BY <1>4, AuctionParts DEF Who
  <2> QED BY <1>1, <1>2, <2>1, <2>3, <2>4, PostSound DEF RemoveMails
<1>7. PICK f \in Tables : f = DeleteAuction(s.d, a)
  BY <1>4, <1>6, MailingFields, GoneAlike DEF Sound
<1>8. Alike(s.d, f) /\ f.auctions = L
  <2>1. s.d \in Tables /\ s.d.auctions = auctions
    BY <1>6, MailingFields DEF Sound
  <2>2. Alike(s.d, f) /\ f.auctions = {x \in auctions : x.id # a.id}
    BY <1>4, <1>7, <2>1, GoneAlike
  <2> QED BY <1>4, <1>5, <2>2, OtherAuctions
<1>9. PICK e \in Tables : e = SaveGold(f, c, g)
  BY <1>3, SaveGoldAlike
<1>10. Alike(f, e) /\ e.auctions = L
  BY <1>3, <1>8, <1>9, SaveGoldAlike
<1>11. Alike(s.d, e)
  <2>1. s.d \in Tables
    BY <1>6, MailingFields DEF Sound
  <2>2. e.inv = s.d.inv /\ e.mitems = s.d.mitems
    BY <1>8, <1>10 DEF Alike
  <2>3. Follow(s.d.mails, e.mails)
    <3>1. e.mails = f.mails
      BY <1>9 DEF SaveGold, Tables
    <3>2. f.mails = s.d.mails
      BY <1>7, <2>1 DEF DeleteAuction, Tables
    <3>3. e.mails \in SUBSET MailRow
      BY DEF Tables
    <3> QED BY <3>1, <3>2, <3>3, SubsetFollows
  <2>4. \A i \in Items : s.d.inv[i] # Nobody => e.inst[i] = s.d.inst[i]
    BY <1>8, <1>10 DEF Alike
  <2> QED BY <2>2, <2>3, <2>4 DEF Alike
<1>12. Sound(Write(s, e), L, L)
  BY <1>1, <1>6, <1>10, <1>11, WriteSound DEF Sound
<1>13. Numbered(auctions', nextAuction')
  BY <1>3, <1>4, OtherAuctions
<1> QED BY <1>1, <1>3, <1>5, <1>7, <1>9, <1>12, <1>13, ConcludeMailing

LEMMA BuyoutKeeps ==
  ASSUME IInv, NEW c \in Chars, NEW a \in auctions, NEW p \in Nat, Buyout(c, a, p)
  PROVE  IInv'
<1>1. TypeOK /\ TypeOK'
  BY BuyoutType DEF IInv
<1>2. PICK sold : sold = [a EXCEPT !.bidder = c, !.bid = a.buyout]
  OBVIOUS
<1>3. PICK s, g : s = BuyMails(c, a, sold) /\ g = Pays(c, a, a.buyout)
  OBVIOUS
<1>4. /\ pend = <<>> /\ auctions' = auctions \ {a} /\ g \in Copper /\ sold \in Auction
      /\ Commit(Write(s, SaveGold(s.d, c, g)))
      /\ UNCHANGED <<disk, charVars, bag, queryVars, nextAuction>>
  BY <1>1, <1>2, <1>3, BuyoutIs, Zenon
<1>5. /\ auctions \in SUBSET Auction /\ Numbered(auctions, nextAuction) /\ a \in Auction
      /\ Sound(Start, auctions, auctions)
  BY <1>4, IdleFacts, StartSound
<1>6. sold.item = a.item
  BY <1>2, <1>5 DEF Auction
<1>7. PICK L : L = auctions \ {a}
  OBVIOUS
<1>8. PICK o, r, w : /\ o = Outbid(Start, c, a) /\ r = SendAuctionSuccessfulMail(o, sold)
                     /\ w = SendAuctionWonMail(r, sold)
  OBVIOUS
<1>9. Sound(o, auctions, auctions)
  BY <1>1, <1>5, <1>8, RefundSound
<1>10. Sound(r, auctions, auctions)
  BY <1>1, <1>4, <1>8, <1>9, SuccessSound
<1>11. Sound(r, L, auctions) /\ Spare(sold.item, r.d, L)
  BY <1>6, <1>7, <1>10, ReleaseSound
<1>12. Sound(w, L, auctions)
  BY <1>1, <1>4, <1>8, <1>11, WonSound
<1>13. s = Write(w, DeleteAuction(w.d, a))
  BY <1>3, <1>8 DEF BuyMails
<1>14. Sound(s, L, L)
  BY <1>1, <1>5, <1>7, <1>12, <1>13, EndSound
<1>15. Sound(Write(s, SaveGold(s.d, c, g)), L, L)
  BY <1>1, <1>4, <1>14, PaySound
<1>16. Numbered(auctions', nextAuction')
  BY <1>4, <1>5, OtherAuctions
<1> QED BY <1>1, <1>4, <1>7, <1>15, <1>16, ConcludeMailing

\* An auction gets another bidder.
LEMMA ReplaceAuction ==
  ASSUME NEW d, NEW b, NEW B, NEW n, NEW A, NEW A2, NEW ph, NEW qs, NEW a \in A, NEW x, NEW k,
         x.item = a.item, x.id = a.id, A2 = (A \ {a}) \cup {x},
         World(d, b, B, n, A, ph, qs), Numbered(A, k)
  PROVE  /\ World(d, b, B, n, A2, ph, qs) /\ Numbered(A2, k)
         /\ {y \in A : y.id # x.id} \cup {x} = A2
<1>1. Away(d, A2)
  <2>1. Away(d, A)
    BY WorldParts
  <2> QED BY <2>1 DEF Away
<1>2. Numbered(A2, k)
  BY DEF Numbered
<1>3. {y \in A : y.id # x.id} \cup {x} = A2
  BY DEF Numbered
<1> QED BY <1>1, <1>2, <1>3 DEF World

LEMMA BidKeeps ==
  ASSUME IInv, NEW c \in Chars, NEW a \in auctions, NEW p \in Nat, Bid(c, a, p)
  PROVE  IInv'
<1>1. TypeOK /\ TypeOK'
  BY BidType DEF IInv
<1>2. PICK next : next = [a EXCEPT !.bidder = c, !.bid = p]
  OBVIOUS
<1>3. PICK s, g : s = BidMails(c, a, next) /\ g = Pays(c, a, p)
  OBVIOUS
<1>4. /\ pend = <<>> /\ auctions' = (auctions \ {a}) \cup {next} /\ g \in Copper
      /\ next \in Auction /\ Commit(Write(s, SaveGold(s.d, c, g)))
      /\ UNCHANGED <<disk, charVars, bag, queryVars, nextAuction>>
  BY <1>1, <1>2, <1>3, BidIs, Zenon
<1>5. /\ auctions \in SUBSET Auction /\ Numbered(auctions, nextAuction) /\ a \in Auction
      /\ Sound(Start, auctions, auctions)
  BY <1>4, IdleFacts, StartSound
<1>6. next.item = a.item /\ next.id = a.id
  BY <1>2, <1>5 DEF Auction
<1>7. PICK o : o = Outbid(Start, c, a)
  OBVIOUS
<1>8. Sound(o, auctions, auctions)
  BY <1>1, <1>5, <1>7, RefundSound
<1>9. /\ o.d \in Tables /\ o.d.auctions = auctions
      /\ World(o.d, bag, o.boxes, o.id, auctions, phase, queries)
  BY <1>8, MailingFields DEF Sound
<1>10. PICK L : L = (auctions \ {a}) \cup {next}
  OBVIOUS
<1>11. /\ World(o.d, bag, o.boxes, o.id, L, phase, queries) /\ Numbered(L, nextAuction)
       /\ {x \in auctions : x.id # next.id} \cup {next} = L
  BY <1>5, <1>6, <1>9, <1>10, ReplaceAuction
<1>12. PICK e \in Tables : e = SaveAuction(o.d, next)
  BY <1>4, <1>9, GoneAlike
<1>13. Alike(o.d, e) /\ e.auctions = L
  BY <1>4, <1>9, <1>11, <1>12, GoneAlike
<1>14. Sound(Write(o, e), L, L)
  BY <1>1, <1>8, <1>11, <1>13, WriteSound
<1>15. s = Write(o, e)
  BY <1>3, <1>7, <1>12 DEF BidMails
<1>16. Sound(s, L, L)
  BY <1>14, <1>15
<1>17. Sound(Write(s, SaveGold(s.d, c, g)), L, L)
  BY <1>1, <1>4, <1>16, PaySound
<1>18. Numbered(auctions', nextAuction')
  BY <1>4, <1>10, <1>11
<1> QED BY <1>1, <1>4, <1>10, <1>17, <1>18, ConcludeMailing

\* An auction is opened with a spare item.
Opens(A, x, A2) == A2 = A \cup {x}

LEMMA OpenAuction ==
  ASSUME NEW d, NEW A \in SUBSET Auction, NEW A2, NEW x \in Auction, Opens(A, x, A2),
         Spare(x.item, d, A), Away(d, A), Numbered(A, x.id)
  PROVE  /\ Away(d, A2) /\ Numbered(A2, x.id + 1) /\ {y \in A : y.id # x.id} \cup {x} = A2
<1>1. A2 = A \cup {x} /\ \A y \in A2 : y.id \in Nat
  BY AuctionParts DEF Opens
<1>2. Away(d, A2)
  <2>1. x.item # Nobody
    BY AuctionParts, MailAssumption
  <2> QED BY <1>1, <2>1 DEF Away, Spare
<1>3. Numbered(A2, x.id + 1)
  BY <1>1 DEF Numbered
<1>4. {y \in A : y.id # x.id} \cup {x} = A2
  BY <1>1 DEF Numbered
<1> QED BY <1>2, <1>3, <1>4

LEMMA SellItemKeeps ==
  ASSUME IInv, NEW c \in Chars, NEW i \in Items, NEW b \in StartBids, NEW p \in Buyouts,
         HandleAuctionSellItem(c, i, b, p)
  PROVE  IInv'
<1>1. TypeOK /\ TypeOK'
  BY SellItemType DEF IInv
<1>2. PICK a, g : a = NewAuction(c, i, b, p) /\ g = ModifyMoney(purse[c], -Deposit)
  OBVIOUS
<1>3. /\ a \in Auction /\ a.id = nextAuction /\ a.item = i /\ g \in Copper
      /\ pend = <<>> /\ On(c) /\ i \in bag[c]
      /\ auctions' = auctions \cup {a} /\ nextAuction' = nextAuction + 1
      /\ bag' = [bag EXCEPT ![c] = @ \ {i}]
      /\ pend' = <<Listed(c, i, a)>>
      /\ UNCHANGED <<disk, charVars, box, nextMail, queryVars>>
  BY <1>1, <1>2, SellItemIs
<1>4. /\ disk \in Tables /\ nextMail \in Nat /\ bag \in [Chars -> SUBSET Items]
      /\ box \in [Chars -> SUBSET MailEntry] /\ auctions \in SUBSET Auction
      /\ queries \in Seq(Query) /\ World(disk, bag, box, nextMail, auctions, phase, queries)
      /\ InOrder(queries) /\ disk.auctions = auctions /\ Numbered(auctions, nextAuction)
  BY <1>3, IdleFacts
<1>5. phase[c] = "on"
  BY <1>3 DEF On
<1>6. PICK d \in Tables : d = DeleteFromInventory(disk, i)
  BY <1>4, DeleteFromInventoryFields
<1>7. World(d, bag', box, nextMail, auctions, phase, queries) /\ Spare(i, d, auctions)
  BY <1>3, <1>4, <1>5, <1>6, TakeAwayWorld
<1>8. d.auctions = auctions
  BY <1>4, <1>6 DEF DeleteFromInventory, Tables
<1>9. /\ World(d, bag', box, nextMail, auctions', phase, queries)
      /\ Numbered(auctions', nextAuction')
      /\ {y \in auctions : y.id # a.id} \cup {a} = auctions'
  <2>1. PICK L, b2 : L = auctions' /\ b2 = bag'
    OBVIOUS
  <2>2. World(d, b2, box, nextMail, auctions, phase, queries) /\ Numbered(auctions, a.id)
        /\ Spare(a.item, d, auctions) /\ Opens(auctions, a, L)
    BY <1>3, <1>4, <1>7, <2>1 DEF Opens
  <2>3. Away(d, auctions)
    BY <2>2, WorldParts
  <2>4. /\ Away(d, L) /\ Numbered(L, a.id + 1)
        /\ {y \in auctions : y.id # a.id} \cup {a} = L
    BY <1>3, <1>4, <2>2, <2>3, OpenAuction
  <2>5. World(d, b2, box, nextMail, L, phase, queries)
    BY <2>2, <2>4 DEF World
  <2> QED BY <1>3, <2>1, <2>4, <2>5
<1>10. PICK f \in Tables : f = SaveAuction(d, a)
  BY <1>3, GoneAlike
<1>11. Alike(d, f) /\ f.auctions = auctions'
  BY <1>3, <1>8, <1>9, <1>10, GoneAlike
<1>12. PICK e \in Tables : e = SaveGold(f, c, g)
  BY <1>3, SaveGoldAlike
<1>13. Alike(f, e) /\ e.auctions = auctions'
  BY <1>3, <1>11, <1>12, SaveGoldAlike
<1>14. World(f, bag', box, nextMail, auctions', phase, queries)
  BY <1>4, <1>9, <1>11, SameWorld
<1>15. World(e, bag', box, nextMail, auctions', phase, queries)
  BY <1>4, <1>13, <1>14, SameWorld
<1>16. /\ disk' = disk /\ phase' = phase /\ box' = box /\ queries' = queries
       /\ nextMail' = nextMail
  BY <1>3 DEF charVars, queryVars
<1>17. pend' = <<e>>
  BY <1>2, <1>3, <1>6, <1>10, <1>12 DEF Listed
<1>18. pend' # <<>> /\ pend'[Len(pend')] = e /\ \A k \in 1 .. Len(pend') : Apart(pend'[k])
  BY <1>15, <1>17, WorldParts
<1> QED BY <1>1, <1>3, <1>4, <1>9, <1>13, <1>15, <1>16, <1>18, Conclude

-----------------------------------------------------------------------------
(* The theorems. *)

LEMMA IInvStep ==
  ASSUME IInv, ~SlowLookup, [Next]_vars
  PROVE  IInv'
<1>1. CASE MailStep /\ UNCHANGED aucVars
  BY <1>1, ExecuteKeeps, LoginStartKeeps, LogoutKeeps, DeleteFromDBKeeps, TakeItemKeeps,
     TakeMoneyKeeps, MailDeleteKeeps, ReturnToSenderKeeps, SendMailKeeps, LoginDoneKeeps,
     SendCallbackKeeps, OldMailsReturnerKeeps, SingleMailReturnerKeeps, OldFoundKeeps
     DEF MailStep
<1>2. ASSUME NEW c \in Chars, NEW i \in Items, NEW b \in StartBids, NEW p \in Buyouts,
             HandleAuctionSellItem(c, i, b, p)
      PROVE  IInv'
  BY <1>2, SellItemKeeps
<1>3. ASSUME NEW a \in auctions, NEW c \in Chars, NEW p \in StartBids \cup Buyouts,
             Bid(c, a, p) \/ Buyout(c, a, p)
      PROVE  IInv'
  <2>1. p \in Nat
    BY AuctionAssumption
  <2> QED BY <1>3, <2>1, BidKeeps, BuyoutKeeps
<1>4. ASSUME NEW a \in auctions, NEW c \in Chars, HandleAuctionRemoveItem(c, a) PROVE IInv'
  BY <1>4, RemoveItemKeeps
<1>5. ASSUME NEW a \in auctions, Update(a) PROVE IInv'
  BY <1>5, UpdateKeeps
<1>6. CASE Restart
  BY <1>6, RestartKeeps
<1>7. CASE UNCHANGED vars
  <2>1. TypeOK'
    BY <1>7, TypeStep DEF IInv
  <2>2. /\ disk' = disk /\ pend' = pend /\ bag' = bag /\ box' = box /\ nextMail' = nextMail
        /\ auctions' = auctions /\ phase' = phase /\ queries' = queries
        /\ nextAuction' = nextAuction
    BY <1>7 DEF vars, mailVars, aucVars, charVars, memVars, queryVars
  <2>3. Last' = Last
    BY <2>2 DEF Last
  <2> QED BY <2>1, <2>2, <2>3 DEF IInv, TablesInv
<1> QED BY <1>1, <1>2, <1>3, <1>4, <1>5, <1>6, <1>7 DEF Next

LEMMA AtMostOne ==
  ASSUME NEW S, \A x, y \in S : x = y
  PROVE  Cardinality(S) \in 0 .. 1
<1>1. CASE S = {}
  BY <1>1, FS_EmptySet
<1>2. CASE S # {}
  <2>1. PICK x : S = {x}
    BY <1>2
  <2> QED BY <2>1, FS_Singleton
<1> QED BY <1>1, <1>2

\* Where an item is, by the tables and the auctions alone.
LEMMA PlaceIs ==
  ASSUME IInv, pend = <<>>, NEW i \in Items, NEW p \in Places(i)
  PROVE  \/ disk.inv[i] # Nobody /\ p = <<"bag", disk.inv[i]>>
         \/ \E x \in disk.mitems : x.item = i /\ p = <<"mail", x.receiver, x.mail>>
         \/ \E a \in auctions : a.item = i /\ p = <<"auction", a.id>>
<1>1. World(disk, bag, box, nextMail, auctions, phase, queries)
  BY IdleFacts
<1>2. Memory(bag, box, disk, nextMail, phase)
  BY <1>1, WorldParts
<1>3. i # Nobody /\ Nobody \notin Chars
  BY MailAssumption
<1>4. ASSUME NEW c \in Chars, IF On(c) THEN i \in bag[c] ELSE disk.inv[i] = c
      PROVE  disk.inv[i] = c
  BY <1>2, <1>4 DEF Memory, Owned, On
<1>5. ASSUME NEW c \in Chars, NEW m \in box[c], m.item = i
      PROVE  \E x \in disk.mitems : x.item = i /\ x.receiver = c /\ x.mail = m.id
  <2>1. Boxed(c, box[c], disk, nextMail)
    BY <1>2, <1>5 DEF Memory
  <2>2. Posted(disk, m.id, i, c)
    BY <1>3, <1>5, <2>1 DEF Boxed
  <2> QED BY <2>2, PostedIs
<1>6. CASE \E c \in Chars : (IF On(c) THEN i \in bag[c] ELSE disk.inv[i] = c) /\ p = <<"bag", c>>
  BY <1>3, <1>4, <1>6
<1>7. CASE \E c \in Chars : \E m \in box[c] : m.item = i /\ p = <<"mail", c, m.id>>
  BY <1>5, <1>7
<1>8. CASE \E x \in disk.mitems : x.item = i /\ p = <<"mail", x.receiver, x.mail>>
  BY <1>8
<1>9. CASE \E a \in auctions : a.item = i /\ p = <<"auction", a.id>>
  BY <1>9
<1>10. \/ \E c \in Chars : (IF On(c) THEN i \in bag[c] ELSE disk.inv[i] = c) /\ p = <<"bag", c>>
       \/ \E c \in Chars : \E m \in box[c] : m.item = i /\ p = <<"mail", c, m.id>>
       \/ \E x \in disk.mitems : x.item = i /\ p = <<"mail", x.receiver, x.mail>>
       \/ \E a \in auctions : a.item = i /\ p = <<"auction", a.id>>
  <2> DEFINE P1 == {<<"bag", c>> : c \in {x \in Chars : IF On(x) THEN i \in bag[x] ELSE disk.inv[i] = x}}
             P2 == UNION {{<<"mail", c, m.id>> : m \in {x \in box[c] : x.item = i}} : c \in Chars}
             P3 == {<<"mail", x.receiver, x.mail>> : x \in {y \in disk.mitems : y.item = i}}
             P4 == {<<"auction", a.id>> : a \in {x \in auctions : x.item = i}}
  <2>0. Places(i) = P1 \cup P2 \cup P3 \cup P4
    BY DEF Places
  <2>1. p \in P1 \/ p \in P2 \/ p \in P3 \/ p \in P4
    <3> HIDE DEF P1, P2, P3, P4
    <3> QED BY <2>0
  <2>2. ASSUME p \in UNION {{<<"mail", c, m.id>> : m \in {x \in box[c] : x.item = i}} : c \in Chars}
        PROVE  \E c \in Chars : \E m \in box[c] : m.item = i /\ p = <<"mail", c, m.id>>
    BY <2>2
  <2>3. ASSUME p \in {<<"bag", c>> : c \in {x \in Chars : IF On(x) THEN i \in bag[x] ELSE disk.inv[i] = x}}
        PROVE  \E c \in Chars : (IF On(c) THEN i \in bag[c] ELSE disk.inv[i] = c) /\ p = <<"bag", c>>
    BY <2>3
  <2>4. ASSUME p \in {<<"mail", x.receiver, x.mail>> : x \in {y \in disk.mitems : y.item = i}}
        PROVE  \E x \in disk.mitems : x.item = i /\ p = <<"mail", x.receiver, x.mail>>
    BY <2>4
  <2>5. ASSUME p \in {<<"auction", a.id>> : a \in {x \in auctions : x.item = i}}
        PROVE  \E a \in auctions : a.item = i /\ p = <<"auction", a.id>>
    BY <2>5
  <2> QED BY <2>1, <2>2, <2>3, <2>4, <2>5, Zenon
<1> QED BY <1>6, <1>7, <1>8, <1>9, <1>10, Zenon

LEMMA OncePlaced ==
  ASSUME IInv, pend = <<>>, NEW i \in Items
  PROVE  Cardinality(Places(i)) \in 0 .. 1
<1>1. Apart(disk) /\ Away(disk, auctions)
  BY IdleFacts, WorldParts
<1>2. ASSUME NEW p \in Places(i), NEW q \in Places(i) PROVE p = q
  <2> DEFINE AsBag(z) == disk.inv[i] # Nobody /\ z = <<"bag", disk.inv[i]>>
             AsMail(z) == \E x \in disk.mitems : x.item = i /\ z = <<"mail", x.receiver, x.mail>>
             AsAuction(z) == \E a \in auctions : a.item = i /\ z = <<"auction", a.id>>
  <2>1. (AsBag(p) \/ AsMail(p) \/ AsAuction(p)) /\ (AsBag(q) \/ AsMail(q) \/ AsAuction(q))
    BY PlaceIs
  <2>2. AsBag(p) /\ AsBag(q) => p = q
    OBVIOUS
  <2>3. AsMail(p) /\ AsMail(q) => p = q
    BY <1>1 DEF Apart
  <2>4. AsAuction(p) /\ AsAuction(q) => p = q
    BY <1>1 DEF Away
  <2>5. ~(AsBag(p) /\ AsMail(q)) /\ ~(AsBag(q) /\ AsMail(p))
    BY <1>1 DEF Apart
  <2>6. ~(AsBag(p) /\ AsAuction(q)) /\ ~(AsBag(q) /\ AsAuction(p))
    BY <1>1 DEF Away
  <2>7. ~(AsMail(p) /\ AsAuction(q)) /\ ~(AsMail(q) /\ AsAuction(p))
    BY <1>1 DEF Away
  <2> QED BY <2>1, <2>2, <2>3, <2>4, <2>5, <2>6, <2>7
<1> QED BY <1>2, AtMostOne

LEMMA ApartOnce ==
  ASSUME NEW d, Apart(d), NEW i \in Items
  PROVE  Cardinality({x \in d.mitems : x.item = i}) + (IF d.inv[i] = Nobody THEN 0 ELSE 1) <= 1
<1>1. PICK S : S = {x \in d.mitems : x.item = i}
  OBVIOUS
<1>2. \A x, y \in S : x = y
  BY <1>1 DEF Apart
<1>3. Cardinality(S) \in 0 .. 1
  BY <1>2, AtMostOne
<1>4. CASE d.inv[i] = Nobody
  BY <1>1, <1>3, <1>4
<1>5. CASE d.inv[i] # Nobody
  <2>1. S = {}
    BY <1>1, <1>5 DEF Apart
  <2>2. Cardinality(S) = 0
    BY <2>1, FS_EmptySet
  <2> QED BY <1>1, <1>5, <2>2
<1> QED BY <1>4, <1>5

LEMMA IInvItemOnce ==
  ASSUME IInv
  PROVE  ItemOnce
<1>1. ASSUME Idle, NEW i \in Items PROVE Cardinality(Places(i)) <= 1
  BY <1>1, OncePlaced DEF Idle
<1>2. ASSUME NEW d \in {disk} \cup Range(pend), NEW i \in Items
      PROVE  Cardinality({x \in d.mitems : x.item = i}) + (IF d.inv[i] = Nobody THEN 0 ELSE 1) <= 1
  <2>1. pend \in Seq(Tables) /\ DOMAIN pend = 1 .. Len(pend)
    BY DEF IInv, TypeOK
  <2>2. Apart(d)
    BY <1>2, <2>1 DEF IInv, TablesInv, Range
  <2> QED BY <2>2, ApartOnce
<1> QED BY <1>1, <1>2 DEF ItemOnce

\* An item is in one place at a time, and no prefix of the queued writes has
\* it in two, for any characters, items, sums and bounds, as long as no
\* character logs in, logs out or is deleted, and no second search starts,
\* between the lookup of the item of his old mail and its answer (AuctionHouse
\* and Mail; SingleMailReturner decides by what the lookup has read).
THEOREM ItemNeverTwice ==
  ASSUME ~SlowLookup
  PROVE  Spec => []ItemOnce
<1>1. AInit => IInv
  BY InitIInv
<1>2. IInv /\ [Next]_vars => IInv'
  BY IInvStep
<1>3. IInv => ItemOnce
  BY IInvItemOnce
<1> QED BY <1>1, <1>2, <1>3, PTL DEF Spec

-----------------------------------------------------------------------------
(* The answers of the house.  Mails are only added to a mailing, and what a  *)
(* step commits has them.                                                  *)

Grown(s, t) ==
  /\ s \in Mailing /\ t \in Mailing /\ nextMail <= s.id /\ s.id <= t.id
  /\ s.d.mails \subseteq t.d.mails /\ s.d.mitems \subseteq t.d.mitems

\* A new mail of s brings the gold g, or the item i, to c, if he exists.
HasGold(s, c, g) ==
  c \in exists => \E r \in s.d.mails : nextMail <= r.id /\ r.receiver = c /\ r.money = g
HasItem(s, c, i) == c \in exists => \E x \in s.d.mitems : x.receiver = c /\ x.item = i

LEMMA GrownKeeps ==
  ASSUME NEW s, NEW t, Grown(s, t), NEW c, NEW g
  PROVE  (HasGold(s, c, g) => HasGold(t, c, g)) /\ (HasItem(s, c, g) => HasItem(t, c, g))
  BY DEF Grown, HasGold, HasItem

LEMMA GrownOn ==
  ASSUME TypeOK, NEW s, NEW t, NEW u, Grown(s, t), Grown(t, u)
  PROVE  Grown(s, u) /\ Grown(u, u)
<1>1. nextMail \in Nat
  BY MailAssumption DEF TypeOK
<1>2. s.id \in Nat /\ t.id \in Nat /\ u.id \in Nat
  BY MailingFields DEF Grown
<1> QED BY <1>1, <1>2 DEF Grown

LEMMA StartGrown ==
  ASSUME TypeOK
  PROVE  Grown(Start, Start)
<1>1. nextMail \in Nat
  BY MailAssumption DEF TypeOK
<1> QED BY <1>1, StartFields DEF Grown

LEMMA WriteGrown ==
  ASSUME TypeOK, NEW s, Grown(s, s), NEW d \in Tables, d.mails = s.d.mails, d.mitems = s.d.mitems
  PROVE  Grown(s, Write(s, d))
<1>1. s \in Mailing /\ nextMail <= s.id /\ s.id \in Nat
  BY MailingFields DEF Grown
<1>2. Write(s, d) \in Mailing /\ Write(s, d).d = d /\ Write(s, d).id = s.id
  BY <1>1, WriteFields
<1> QED BY <1>1, <1>2 DEF Grown

LEMMA PostGrown ==
  ASSUME TypeOK, NEW s, Grown(s, s), NEW to \in Who, NEW item \in Items \cup {Nobody},
         NEW money \in Nat
  PROVE  /\ Grown(s, Post(s, to, item, money)) /\ HasGold(Post(s, to, item, money), to, money)
         /\ item # Nobody => HasItem(Post(s, to, item, money), to, item)
<1>1. s \in Mailing /\ nextMail <= s.id /\ s.id \in Nat /\ s.d \in Tables
  BY MailingFields DEF Grown
<1>2. CASE to \notin exists
  BY <1>1, <1>2, PostParts DEF HasGold, HasItem
<1>3. CASE to \in exists
  <2>1. PICK t, p : t = HouseMail(to, item, money) /\ p = Post(s, to, item, money)
    OBVIOUS
  <2>2. Posting(p, s, t) /\ t.item = item /\ t.to = to /\ t.money = money
    <3>1. /\ Posting(Post(s, to, item, money), s, HouseMail(to, item, money))
          /\ HouseMail(to, item, money).item = item /\ HouseMail(to, item, money).to = to
          /\ HouseMail(to, item, money).money = money
      BY <1>1, <1>3, PostParts, SMTT(60)
    <3> QED BY <2>1, <3>1
  <2>3. PICK e : e = InsertMail(s.d, s.id, t)
    OBVIOUS
  <2>4. /\ p \in Mailing /\ t \in DraftType /\ e \in Tables /\ p.d = e /\ p.id = s.id + 1
    BY <2>2, <2>3 DEF Posting
  <2>5. PICK r : r = RowOf(s.id, t)
    OBVIOUS
  <2>6. e.mails = s.d.mails \cup {r}
    BY <1>1, <2>3, <2>5 DEF InsertMail, RowOf, Tables
  <2>7. r.id = s.id /\ r.receiver = to /\ r.money = money
    BY <2>2, <2>5 DEF RowOf
  <2>8. s.d.mitems \subseteq e.mitems
    BY <1>1, <2>3 DEF InsertMail, Tables
  <2>9. item # Nobody => [mail |-> s.id, item |-> item, receiver |-> to] \in e.mitems
    BY <1>1, <2>2, <2>3 DEF InsertMail, Tables
  <2>10. Grown(s, p)
    BY <1>1, <2>4, <2>6, <2>8 DEF Grown
  <2>11. HasGold(p, to, money)
    BY <1>1, <2>4, <2>6, <2>7 DEF HasGold
  <2>12. item # Nobody => HasItem(p, to, item)
    BY <2>4, <2>9 DEF HasItem
  <2> QED BY <2>1, <2>10, <2>11, <2>12
<1> QED BY <1>2, <1>3

LEMMA RefundGrown ==
  ASSUME TypeOK, NEW s, Grown(s, s), NEW a \in Auction, NEW c
  PROVE  /\ Grown(s, Refund(s, a)) /\ Grown(s, Outbid(s, c, a))
         /\ a.bidder # Nobody => HasGold(Refund(s, a), a.bidder, a.bid)
         /\ a.bidder # Nobody /\ a.bidder # c => HasGold(Outbid(s, c, a), a.bidder, a.bid)
<1>1. a.bidder \in Who /\ a.bid \in Nat /\ Nobody \in Items \cup {Nobody}
  BY AuctionParts
<1>2. PICK p : p = Post(s, a.bidder, Nobody, a.bid)
  OBVIOUS
<1>3. Grown(s, p) /\ HasGold(p, a.bidder, a.bid)
  BY <1>1, <1>2, PostGrown
<1>4. Refund(s, a) = IF a.bidder = Nobody THEN s ELSE p
  BY <1>2 DEF Refund
<1>5. Grown(s, Refund(s, a)) /\ (a.bidder # Nobody => HasGold(Refund(s, a), a.bidder, a.bid))
  BY <1>3, <1>4
<1> QED BY <1>5 DEF Outbid

LEMMA SuccessGrown ==
  ASSUME TypeOK, NEW s, Grown(s, s), NEW a \in Auction
  PROVE  /\ Grown(s, SendAuctionSuccessfulMail(s, a))
         /\ HasGold(SendAuctionSuccessfulMail(s, a), a.owner, Profit(a))
<1>1. a.owner \in Who /\ Profit(a) \in Nat /\ Nobody \in Items \cup {Nobody}
  BY AuctionParts
<1> QED BY <1>1, PostGrown DEF SendAuctionSuccessfulMail

LEMMA WonGrown ==
  ASSUME TypeOK, NEW s, Grown(s, s), NEW a \in Auction
  PROVE  /\ Grown(s, SendAuctionWonMail(s, a)) /\ HasItem(SendAuctionWonMail(s, a), a.bidder, a.item)
         /\ Grown(s, SendAuctionExpiredMail(s, a))
         /\ HasItem(SendAuctionExpiredMail(s, a), a.owner, a.item)
<1>1. /\ a.item \in Items /\ a.item \in Items \cup {Nobody} /\ a.owner \in Who /\ a.bidder \in Who
      /\ a.item # Nobody /\ exists \subseteq Chars
  BY AuctionParts, MailAssumption DEF TypeOK
<1>2. s.d \in Tables
  BY MailingFields DEF Grown
<1>3. Grown(s, Write(s, DeleteItem(s.d, a.item)))
  <2>1. PICK e : e = DeleteItem(s.d, a.item)
    OBVIOUS
  <2>2. e \in Tables /\ e.mails = s.d.mails /\ e.mitems = s.d.mitems
    BY <1>1, <1>2, <2>1 DEF DeleteItem, Tables
  <2>3. Grown(s, Write(s, e))
    BY <2>2, WriteGrown
  <2> QED BY <2>1, <2>3
<1>4. /\ Grown(s, Post(s, a.owner, a.item, 0))
      /\ HasItem(Post(s, a.owner, a.item, 0), a.owner, a.item)
  BY <1>1, PostGrown
<1>5. ASSUME a.bidder \in exists
      PROVE  LET p == Post(Write(s, SetOwner(s.d, a.item, a.bidder)), a.bidder, a.item, 0)
             IN  Grown(s, p) /\ HasItem(p, a.bidder, a.item)
  <2>1. a.bidder \in Chars
    BY <1>1, <1>5
  <2>2. PICK e : e = SetOwner(s.d, a.item, a.bidder)
    OBVIOUS
  <2>3. e \in Tables /\ e.mails = s.d.mails /\ e.mitems = s.d.mitems
    BY <1>1, <1>2, <2>1, <2>2 DEF SetOwner, Tables
  <2>4. PICK w : w = Write(s, e)
    OBVIOUS
  <2>5. Grown(s, w) /\ Grown(w, w)
    BY <2>3, <2>4, WriteGrown, GrownOn
  <2>6. PICK p : p = Post(w, a.bidder, a.item, 0)
    OBVIOUS
  <2>7. Grown(w, p) /\ HasItem(p, a.bidder, a.item)
    BY <1>1, <2>5, <2>6, PostGrown
  <2>8. Grown(s, p)
    BY <2>5, <2>7, GrownOn
  <2> QED BY <2>2, <2>4, <2>6, <2>7, <2>8
<1>6. Grown(s, SendAuctionWonMail(s, a)) /\ HasItem(SendAuctionWonMail(s, a), a.bidder, a.item)
  BY <1>3, <1>5 DEF SendAuctionWonMail, HasItem
<1>7. Grown(s, SendAuctionExpiredMail(s, a)) /\ HasItem(SendAuctionExpiredMail(s, a), a.owner, a.item)
  BY <1>3, <1>4 DEF SendAuctionExpiredMail, HasItem
<1> QED BY <1>6, <1>7

\* What the mailing s has is sent when it is committed with a last write.
LEMMA CommitGets ==
  ASSUME IInv, pend = <<>>, NEW s, Grown(s, s), NEW d \in Tables, Commit(Write(s, d)),
         d.mails = s.d.mails, d.mitems = s.d.mitems, NEW c, NEW g
  PROVE  (HasGold(s, c, g) => GetsGold(c, g)) /\ (HasItem(s, c, g) => GetsItem(c, g))
<1>1. s \in Mailing /\ s.log \in Seq(Tables) /\ s.d \in Tables
  BY MailingFields DEF Grown
<1>2. pend' = Append(s.log, d)
  BY <1>1, WriteFields DEF Commit
<1>3. pend' # <<>> /\ pend'[Len(pend')] = d
  BY <1>1, <1>2
<1>4. Rows(disk, nextMail) /\ disk \in Tables /\ nextMail \in Nat
  BY IdleFacts, WorldParts
<1>5. \A r \in d.mails : nextMail <= r.id => r \in Sent
  <2>1. \A r \in d.mails : r.id \in Nat
    BY DEF Tables, MailRow
  <2>2. \A r \in disk.mails : r.id < nextMail
    BY <1>4 DEF Rows
  <2>3. Sent = d.mails \ disk.mails
    BY <1>3 DEF Sent
  <2> QED BY <1>4, <2>1, <2>2, <2>3
<1>6. HasGold(s, c, g) => GetsGold(c, g)
  BY <1>5 DEF HasGold, GetsGold
<1>7. HasItem(s, c, g) => GetsItem(c, g)
  BY <1>3 DEF HasItem, GetsItem
<1> QED BY <1>6, <1>7

\* An auction that goes on as it is.
LEMMA StillHeld ==
  ASSUME NEW a \in auctions'
  PROVE  Settled(a)
<1>1. a \in {x \in auctions' : x.id = a.id}
  OBVIOUS
<1> QED BY <1>1 DEF Settled

LEMMA UpdateSettles ==
  ASSUME IInv, NEW a \in auctions, Update(a)
  PROVE  Settled(a)
<1>1. /\ TypeOK /\ pend = <<>> /\ a \in Auction
      /\ Commit(Write(Settle(a), DeleteAuction(Settle(a).d, a)))
  BY UpdateIs, InHouse DEF IInv
<1>2. Grown(Start, Start)
  BY <1>1, StartGrown
<1>3. PICK s : s = Settle(a)
  OBVIOUS
<1>4. /\ Grown(s, s)
      /\ a.bidder = Nobody => HasItem(s, a.owner, a.item)
      /\ a.bidder # Nobody => HasItem(s, a.bidder, a.item) /\ HasGold(s, a.owner, Profit(a))
  <2>1. CASE a.bidder = Nobody
    <3>1. s = SendAuctionExpiredMail(Start, a)
      BY <1>3, <2>1 DEF Settle
    <3>2. Grown(Start, s) /\ HasItem(s, a.owner, a.item)
      BY <1>1, <1>2, <3>1, WonGrown
    <3> QED BY <1>1, <1>2, <2>1, <3>2, GrownOn
  <2>2. CASE a.bidder # Nobody
    <3>1. PICK r : r = SendAuctionSuccessfulMail(Start, a)
      OBVIOUS
    <3>2. Grown(Start, r) /\ HasGold(r, a.owner, Profit(a)) /\ Grown(r, r)
      BY <1>1, <1>2, <3>1, SuccessGrown, GrownOn
    <3>3. s = SendAuctionWonMail(r, a)
      BY <1>3, <2>2, <3>1 DEF Settle
    <3>4. Grown(r, s) /\ HasItem(s, a.bidder, a.item)
      BY <1>1, <3>2, <3>3, WonGrown
    <3> QED BY <1>1, <2>2, <3>2, <3>4, GrownKeeps, GrownOn
  <2> QED BY <2>1, <2>2
<1>5. PICK d : d = DeleteAuction(s.d, a)
  OBVIOUS
<1>6. s.d \in Tables
  BY <1>4, MailingFields DEF Grown
<1>7. d \in Tables /\ d.mails = s.d.mails /\ d.mitems = s.d.mitems
  BY <1>5, <1>6 DEF DeleteAuction, Tables
<1>8. Commit(Write(s, d))
  BY <1>1, <1>3, <1>5
<1>9. \A c, g : (HasGold(s, c, g) => GetsGold(c, g)) /\ (HasItem(s, c, g) => GetsItem(c, g))
  BY <1>1, <1>4, <1>7, <1>8, CommitGets
<1>10. CASE a.bidder = Nobody
  BY <1>4, <1>9, <1>10 DEF Settled
<1>11. CASE a.bidder # Nobody
  <2>1. GetsItem(a.bidder, a.item) /\ GetsGold(a.owner, Profit(a))
    BY <1>4, <1>9, <1>11
  <2>2. [a EXCEPT !.bid = a.bid] = a
    BY <1>1 DEF Auction
  <2>3. Sold(a, a.bidder, a.bid)
    BY <2>1, <2>2 DEF Sold
  <2> QED BY <1>11, <2>1, <2>3 DEF Settled
<1> QED BY <1>10, <1>11

LEMMA RemoveItemSettles ==
  ASSUME IInv, NEW c \in Chars, NEW a \in auctions, HandleAuctionRemoveItem(c, a)
  PROVE  Settled(a)
<1>1. TypeOK /\ a \in Auction
  BY InHouse DEF IInv
<1>2. PICK s, g : s = RemoveMails(c, a) /\ g = RemoveLeft(c, a)
  OBVIOUS
<1>3. /\ pend = <<>> /\ a.owner = c /\ g \in Copper /\ s \in Mailing
      /\ Commit(Write(s, SaveGold(DeleteAuction(s.d, a), c, g)))
  BY <1>1, <1>2, RemoveItemIs
<1>4. PICK r : r = Refund(Start, a)
  OBVIOUS
<1>5. Grown(Start, r) /\ Grown(r, r) /\ (a.bidder # Nobody => HasGold(r, a.bidder, a.bid))
  BY <1>1, <1>4, StartGrown, RefundGrown, GrownOn
<1>6. c \in Who /\ a.item \in Items \cup {Nobody} /\ a.item # Nobody
  BY <1>1, AuctionParts, MailAssumption DEF Who
<1>7. s = Post(r, c, a.item, 0)
  BY <1>2, <1>4 DEF RemoveMails
<1>8. Grown(r, s) /\ HasItem(s, c, a.item)
  BY <1>1, <1>5, <1>6, <1>7, PostGrown
<1>9. Grown(s, s) /\ (a.bidder # Nobody => HasGold(s, a.bidder, a.bid))
  BY <1>1, <1>5, <1>8, GrownKeeps, GrownOn
<1>10. PICK f : f = DeleteAuction(s.d, a)
  OBVIOUS
<1>11. s.d \in Tables
  BY <1>3, MailingFields
<1>12. f \in Tables /\ f.mails = s.d.mails /\ f.mitems = s.d.mitems
  BY <1>10, <1>11 DEF DeleteAuction, Tables
<1>13. PICK d : d = SaveGold(f, c, g)
  OBVIOUS
<1>14. d \in Tables /\ d.mails = f.mails /\ d.mitems = f.mitems
  BY <1>3, <1>12, <1>13 DEF SaveGold, Tables
<1>15. Commit(Write(s, d)) /\ d.mails = s.d.mails /\ d.mitems = s.d.mitems
  BY <1>3, <1>10, <1>12, <1>13, <1>14
<1>16. GetsItem(a.owner, a.item) /\ (a.bidder # Nobody => GetsGold(a.bidder, a.bid))
  BY <1>3, <1>8, <1>9, <1>14, <1>15, CommitGets
<1> QED BY <1>16 DEF Settled

LEMMA BidSettles ==
  ASSUME IInv, NEW c \in Chars, NEW a \in auctions, NEW p \in Nat, Bid(c, a, p)
  PROVE  Settled(a)
<1>1. TypeOK /\ a \in Auction
  BY InHouse DEF IInv
<1>2. PICK next : next = [a EXCEPT !.bidder = c, !.bid = p]
  OBVIOUS
<1>3. PICK s, g : s = BidMails(c, a, next) /\ g = Pays(c, a, p)
  OBVIOUS
<1>4. /\ pend = <<>> /\ auctions' = (auctions \ {a}) \cup {next} /\ g \in Copper
      /\ next \in Auction /\ Commit(Write(s, SaveGold(s.d, c, g)))
  BY <1>1, <1>2, <1>3, BidIs, Zenon
<1>5. next.id = a.id /\ next.bidder = c
  BY <1>1, <1>2 DEF Auction
<1>6. next \in {x \in auctions' : x.id = a.id}
  BY <1>4, <1>5
<1>7. PICK o : o = Outbid(Start, c, a)
  OBVIOUS
<1>8. /\ Grown(o, o) /\ (a.bidder # Nobody /\ a.bidder # c => HasGold(o, a.bidder, a.bid))
  BY <1>1, <1>7, StartGrown, RefundGrown, GrownOn
<1>9. PICK e : e = SaveAuction(o.d, next)
  OBVIOUS
<1>10. o.d \in Tables
  BY <1>8, MailingFields DEF Grown
<1>11. e \in Tables /\ e.mails = o.d.mails /\ e.mitems = o.d.mitems
  BY <1>4, <1>9, <1>10, DeleteAuctionFields
<1>12. s = Write(o, e)
  BY <1>3, <1>7, <1>9 DEF BidMails
<1>13. Grown(o, s) /\ Grown(s, s)
  BY <1>1, <1>8, <1>11, <1>12, WriteGrown, GrownOn
<1>14. PICK d : d = SaveGold(s.d, c, g)
  OBVIOUS
<1>15. s.d \in Tables
  BY <1>13, MailingFields DEF Grown
<1>16. d \in Tables /\ d.mails = s.d.mails /\ d.mitems = s.d.mitems
  BY <1>4, <1>14, <1>15 DEF SaveGold, Tables
<1>17. a.bidder # Nobody /\ a.bidder # c => GetsGold(a.bidder, a.bid)
  BY <1>4, <1>8, <1>13, <1>14, <1>16, GrownKeeps, CommitGets
<1> QED BY <1>5, <1>6, <1>17 DEF Settled

LEMMA BuyoutSettles ==
  ASSUME IInv, NEW c \in Chars, c \in exists, NEW a \in auctions, NEW p \in Nat, Buyout(c, a, p)
  PROVE  Settled(a)
<1>1. TypeOK /\ a \in Auction
  BY InHouse DEF IInv
<1>2. PICK sold : sold = [a EXCEPT !.bidder = c, !.bid = a.buyout]
  OBVIOUS
<1>3. PICK s, g : s = BuyMails(c, a, sold) /\ g = Pays(c, a, a.buyout)
  OBVIOUS
<1>4. /\ pend = <<>> /\ a.buyout # 0 /\ g \in Copper /\ sold \in Auction
      /\ Commit(Write(s, SaveGold(s.d, c, g)))
  BY <1>1, <1>2, <1>3, BuyoutIs, Zenon
<1>5. /\ sold.item = a.item /\ sold.owner = a.owner /\ sold.bidder = c
      /\ Profit(sold) = Profit([a EXCEPT !.bid = a.buyout])
  BY <1>1, <1>2 DEF Auction, Profit, Cut
<1>6. PICK o, r, w : /\ o = Outbid(Start, c, a) /\ r = SendAuctionSuccessfulMail(o, sold)
                     /\ w = SendAuctionWonMail(r, sold)
  OBVIOUS
<1>7. /\ Grown(o, o) /\ (a.bidder # Nobody /\ a.bidder # c => HasGold(o, a.bidder, a.bid))
  BY <1>1, <1>6, StartGrown, RefundGrown, GrownOn
<1>8. Grown(o, r) /\ Grown(r, r) /\ HasGold(r, a.owner, Profit(sold))
  BY <1>1, <1>4, <1>5, <1>6, <1>7, SuccessGrown, GrownOn
<1>9. Grown(r, w) /\ Grown(w, w) /\ HasItem(w, c, a.item)
  BY <1>1, <1>4, <1>5, <1>6, <1>8, WonGrown, GrownOn
<1>10. PICK e : e = DeleteAuction(w.d, a)
  OBVIOUS
<1>11. w.d \in Tables
  BY <1>9, MailingFields DEF Grown
<1>12. e \in Tables /\ e.mails = w.d.mails /\ e.mitems = w.d.mitems
  BY <1>10, <1>11 DEF DeleteAuction, Tables
<1>13. s = Write(w, e)
  BY <1>3, <1>6, <1>10 DEF BuyMails
<1>14. Grown(w, s) /\ Grown(s, s)
  BY <1>1, <1>9, <1>12, <1>13, WriteGrown, GrownOn
<1>15. /\ HasItem(s, c, a.item) /\ HasGold(s, a.owner, Profit(sold))
       /\ (a.bidder # Nobody /\ a.bidder # c => HasGold(s, a.bidder, a.bid))
  BY <1>7, <1>8, <1>9, <1>14, GrownKeeps
<1>16. PICK d : d = SaveGold(s.d, c, g)
  OBVIOUS
<1>17. s.d \in Tables
  BY <1>14, MailingFields DEF Grown
<1>18. d \in Tables /\ d.mails = s.d.mails /\ d.mitems = s.d.mitems
  BY <1>4, <1>16, <1>17 DEF SaveGold, Tables
<1>19. /\ GetsItem(c, a.item) /\ GetsGold(a.owner, Profit(sold))
       /\ (a.bidder # Nobody /\ a.bidder # c => GetsGold(a.bidder, a.bid))
  BY <1>4, <1>14, <1>15, <1>16, <1>18, CommitGets
<1>20. Sold(a, c, a.buyout)
  BY <1>5, <1>19 DEF Sold
<1> QED BY <1>4, <1>19, <1>20 DEF Settled

\* An auction whose item is in the table is loaded again.
LEMMA RestartSettles ==
  ASSUME IInv, Restart, NEW a \in auctions, disk.inst[a.item] # Nobody
  PROVE  Settled(a)
<1>1. auctions' = Surviving
  BY RestartIs
<1>2. Final.auctions = auctions /\ Final.inst[a.item] = disk.inst[a.item]
  BY RestartWorld
<1>3. a \in auctions'
  BY <1>1, <1>2 DEF Surviving
<1> QED BY <1>3, StillHeld

\* Whoever is online, or being loaded, exists.
Present == \A c \in Chars : phase[c] # "off" => c \in exists

LEMMA PresentStep ==
  ASSUME IInv, Present, [Next]_vars
  PROVE  Present'
<1>1. phase \in [Chars -> {"off", "loading", "on"}] /\ queries \in Seq(Query)
  BY DEF IInv, TypeOK
<1>2. ASSUME UNCHANGED charVars PROVE Present'
  BY <1>2 DEF charVars, Present
<1>3. ASSUME NEW c \in Chars, LoginStart(c) PROVE Present'
  <2>1. c \in exists /\ phase' = [phase EXCEPT ![c] = "loading"] /\ exists' = exists
    BY <1>3 DEF LoginStart
  <2> QED BY <1>1, <2>1 DEF Present
<1>4. ASSUME LoginDone PROVE Present'
  <2>1. /\ pend = <<>> /\ queries # <<>> /\ Head(queries).kind = "login" /\ exists' = exists
        /\ phase' = [phase EXCEPT ![Head(queries).char] = "on"]
    BY <1>4 DEF LoginDone, Answered, Idle
  <2>2. Valid(Head(queries), disk, nextMail, phase)
    BY <1>1, <2>1, IdleFacts, WorldParts, TailKeeps
  <2>3. phase[Head(queries).char] = "loading"
    BY <2>1, <2>2 DEF Valid, Loads
  <2>4. ASSUME NEW c \in Chars, phase'[c] # "off" PROVE phase[c] # "off"
    BY <1>1, <2>1, <2>3, <2>4
  <2> QED BY <2>1, <2>4 DEF Present
<1>5. ASSUME NEW cs, Leave(cs), exists' = exists PROVE Present'
  BY <1>5 DEF Leave, Present
<1>6. ASSUME NEW c \in Chars, DeleteFromDB(c) PROVE Present'
  <2>1. phase[c] = "off" /\ phase' = phase /\ exists' = exists \ {c}
    BY <1>6, DeleteFromDBIs
  <2> QED BY <2>1 DEF Present
<1>7. CASE MailStep /\ UNCHANGED aucVars
  <2>1. Execute => UNCHANGED charVars
    BY DEF Execute
  <2>2. ASSUME NEW c \in Chars, LogoutPlayer(c) PROVE Present'
    BY <1>5, <2>2 DEF LogoutPlayer
  <2>3. ASSUME NEW c \in Chars, NEW m \in box[c],
               \/ HandleMailTakeItem(c, m) \/ HandleMailTakeMoney(c, m)
               \/ HandleMailDelete(c, m) \/ HandleMailReturnToSender(c, m)
        PROVE  UNCHANGED charVars
    <3>1. HandleMailTakeItem(c, m) => UNCHANGED charVars
      BY DEF HandleMailTakeItem
    <3>2. HandleMailTakeMoney(c, m) => UNCHANGED charVars
      BY DEF HandleMailTakeMoney
    <3>3. HandleMailDelete(c, m) => UNCHANGED charVars
      BY DEF HandleMailDelete
    <3>4. HandleMailReturnToSender(c, m) => UNCHANGED charVars
      BY DEF HandleMailReturnToSender
    <3> QED BY <2>3, <3>1, <3>2, <3>3, <3>4
  <2>4. ASSUME NEW c \in Chars, NEW r \in Chars, NEW i \in Items \cup {Nobody}, NEW g \in Sums,
               NEW cod \in Cods, SendMail(c, r, i, g, cod)
        PROVE  UNCHANGED charVars
    BY <2>4 DEF SendMail
  <2>5. SendCallback => UNCHANGED charVars
    BY DEF SendCallback
  <2>6. OldMailsReturner => UNCHANGED charVars
    BY DEF OldMailsReturner
  <2>7. SingleMailReturner => UNCHANGED charVars
    BY DEF SingleMailReturner
  <2>8. ASSUME NEW r \in disk.mails, ReturnOrDeleteOldMails(r) PROVE UNCHANGED charVars
    BY <2>8 DEF ReturnOrDeleteOldMails
  <2> QED BY <1>2, <1>3, <1>4, <1>6, <1>7, <2>1, <2>2, <2>3, <2>4, <2>5, <2>6, <2>7, <2>8 DEF MailStep
<1>8. ASSUME NEW c \in Chars, NEW i \in Items, NEW b \in StartBids, NEW p \in Buyouts,
             HandleAuctionSellItem(c, i, b, p)
      PROVE  UNCHANGED charVars
  BY <1>8 DEF HandleAuctionSellItem
<1>9. ASSUME NEW a \in auctions, NEW c \in Chars, NEW p \in StartBids \cup Buyouts,
             Bid(c, a, p) \/ Buyout(c, a, p)
      PROVE  UNCHANGED charVars
  <2>1. Bid(c, a, p) => UNCHANGED charVars
    BY DEF Bid
  <2>2. Buyout(c, a, p) => UNCHANGED charVars
    BY DEF Buyout
  <2> QED BY <1>9, <2>1, <2>2
<1>10. ASSUME NEW a \in auctions, NEW c \in Chars, HandleAuctionRemoveItem(c, a)
       PROVE  UNCHANGED charVars
  BY <1>10 DEF HandleAuctionRemoveItem
<1>11. ASSUME NEW a \in auctions, Update(a) PROVE UNCHANGED charVars
  BY <1>11 DEF Update
<1>12. CASE Restart
  BY <1>5, <1>12, RestartIs
<1>13. CASE UNCHANGED vars
  BY <1>2, <1>13 DEF vars, mailVars
<1> QED BY <1>2, <1>7, <1>8, <1>9, <1>10, <1>11, <1>12, <1>13 DEF Next

\* One case per action: who has a stake in auction a is answered.
LEMMA SettledStep ==
  ASSUME IInv, Present, Next, NEW a \in auctions, disk.inst[a.item] # Nobody
  PROVE  Settled(a)
<1>1. CASE MailStep /\ UNCHANGED aucVars
  BY <1>1, StillHeld DEF aucVars
<1>2. ASSUME NEW c \in Chars, NEW i \in Items, NEW b \in StartBids, NEW p \in Buyouts,
             HandleAuctionSellItem(c, i, b, p)
      PROVE  Settled(a)
  <2>1. a \in auctions'
    BY <1>2 DEF HandleAuctionSellItem
  <2> QED BY <2>1, StillHeld
<1>3. ASSUME NEW x \in auctions, NEW c \in Chars, NEW p \in StartBids \cup Buyouts,
             Bid(c, x, p)
      PROVE  Settled(a)
  <2>1. p \in Nat /\ (x # a => a \in auctions')
    BY <1>3, AuctionAssumption DEF Bid
  <2> QED BY <1>3, <2>1, BidSettles, StillHeld
<1>4. ASSUME NEW x \in auctions, NEW c \in Chars, NEW p \in StartBids \cup Buyouts,
             Buyout(c, x, p)
      PROVE  Settled(a)
  <2>1. p \in Nat /\ (x # a => a \in auctions')
    BY <1>4, AuctionAssumption DEF Buyout
  <2>2. c \in exists
    BY <1>4 DEF Buyout, MayBid, On, Present
  <2> QED BY <1>4, <2>1, <2>2, BuyoutSettles, StillHeld
<1>5. ASSUME NEW x \in auctions, NEW c \in Chars, HandleAuctionRemoveItem(c, x)
      PROVE  Settled(a)
  <2>1. x # a => a \in auctions'
    BY <1>5 DEF HandleAuctionRemoveItem
  <2> QED BY <1>5, <2>1, RemoveItemSettles, StillHeld
<1>6. ASSUME NEW x \in auctions, Update(x) PROVE Settled(a)
  <2>1. x # a => a \in auctions'
    BY <1>6 DEF Update
  <2> QED BY <1>6, <2>1, UpdateSettles, StillHeld
<1>7. CASE Restart
  BY <1>7, RestartSettles
<1> QED BY <1>1, <1>2, <1>3, <1>4, <1>5, <1>6, <1>7 DEF Next

\* Every auction is settled in the step that ends it, whoever bids, whatever
\* the prices and however many auctions there are: the owner gets the item or
\* the price less the cut, the winner the item, and a bidder whose bid is no
\* longer held his gold (the handlers of AuctionHouseHandler.cpp,
\* AuctionHouseObject::Update and LoadAuctions after a restart).
THEOREM EveryAuctionSettled ==
  ASSUME ~SlowLookup
  PROVE  Spec => AuctionSettled
<1>1. AInit => IInv /\ Present
  <2>1. AInit => Present
    BY DEF AInit, Init, Present
  <2> QED BY <2>1, InitIInv
<1>2. IInv /\ Present /\ [Next]_vars => IInv' /\ Present'
  BY IInvStep, PresentStep
<1>3. IInv /\ Present /\ [Next]_vars =>
        [\A a \in auctions : disk.inst[a.item] # Nobody => Settled(a)]_vars
  BY SettledStep
<1> QED BY <1>1, <1>2, <1>3, PTL DEF Spec, AuctionSettled

=============================================================================
