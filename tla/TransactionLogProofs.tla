------------------------ MODULE TransactionLogProofs ------------------------
(***************************************************************************)
(* Proofs about what SqlDelayThread makes durable: a statement takes       *)
(* effect at most once and a transaction as a whole, the write path        *)
(* implements TransactionLog as long as no connection is lost, and one     *)
(* worker keeps the order in which a thread wrote.                         *)
(***************************************************************************)
EXTENDS SqlDelayThreadProofs

-----------------------------------------------------------------------------
(* The numbers of the statements. *)

Ids(q)        == {q[i].id : i \in 1 .. Len(q)}
Ascending(q)  == \A i, j \in 1 .. Len(q) : i < j => q[i].id < q[j].id
Written(t, q) == \A i \in 1 .. Len(q) : q[i].by = t
Apart(q, r)   == Ids(q) \cap Ids(r) = {}
Before(q, r)  == \A x \in Ids(q), y \in Ids(r) : x < y

\* A list of statements thread t has issued, the last one of number k at most.
Issued(t, q, k) == Ascending(q) /\ Written(t, q) /\ Ids(q) \subseteq 1 .. k

\* Every statement is in one place, an open transaction or an operation, and
\* what a thread hands to the queue comes after what it handed over before.
OpenIds ==
  /\ \A t \in Threads : Issued(t, trans[t].stmts, issued)
  /\ \A t, u \in Threads : t # u => Apart(trans[t].stmts, trans[u].stmts)
  /\ \A t \in Threads : ~trans[t].open => trans[t].stmts = <<>>

OpIds ==
  /\ \A n \in 1 .. Len(ops) : Issued(ops[n].by, ops[n].stmts, issued)
  /\ \A n, m \in 1 .. Len(ops) : n # m => Apart(ops[n].stmts, ops[m].stmts)
  /\ \A n \in 1 .. Len(ops) : ~ops[n].tx => Len(ops[n].stmts) = 1
  /\ \A n, m \in 1 .. Len(ops) :
       n < m /\ ~ops[n].direct /\ ~ops[m].direct /\ ops[n].by = ops[m].by
         => Before(ops[n].stmts, ops[m].stmts)

MixedIds ==
  \A t \in Threads, n \in 1 .. Len(ops) :
    /\ Apart(trans[t].stmts, ops[n].stmts)
    /\ ~ops[n].direct /\ ops[n].by = t => Before(ops[n].stmts, trans[t].stmts)

\* Once the workers are halted no thread has a transaction open.
Closed ==
  phase \in {"halting", "cancelling", "stopped"} => \A t \in Threads : trans[t].stmts = <<>>

IdInv == OpenIds /\ OpIds /\ MixedIds /\ Closed

-----------------------------------------------------------------------------
(* What the server has of the operations. *)

\* The statements for which OnceAndWhole promises a single effect after d
\* drops, and the transactions it promises to be whole.
Once(s, d) == d = 0 \/ s.kind = "prepared"
Safe(q, d) == d = 0 \/ \A i \in 1 .. Len(q) : q[i].kind = "prepared"

In(s, q)     == \E k \in 1 .. Len(q) : q[k] = s
NoneIn(q, r) == \A i \in 1 .. Len(q) : ~In(q[i], r)
AllIn(q, r)  == \A i \in 1 .. Len(q) : In(q[i], r)

\* Of operation n with statements q: a connection that is at step a of it,
\* with a link l, in a transaction or not (x) in which the server has
\* executed p, when D is durable and d connections have been dropped.
ConnOK(n, q, tx, a, l, x, p, D, d) ==
  /\ ~x => p = <<>>
  /\ l # "up" => d > 0
  /\ x => /\ n # 0 /\ tx /\ a >= 1 /\ l = "up"
          /\ Len(p) = a - 1 /\ \A k \in 1 .. Len(p) : p[k] = q[k]
          /\ NoneIn(q, D)
  /\ n # 0 => /\ a \in 0 .. Len(q) + 1
              /\ ~tx => a = 1
              /\ tx /\ Safe(q, d) => NoneIn(q, D) /\ (a >= 1 /\ l = "up" => x)

ConnInv(c) == ConnOK(cur[c], CurOp(c).stmts, CurOp(c).tx, at[c], link[c],
                     inTx[c], pending[c], db, drops)

\* A connection at step a has got as far as statement i, which is s, or
\* beyond: the reply to it was lost, or it is tried again.
Passed(i, s, a, l, d) == i < a \/ (i = a /\ (l # "up" \/ ~Once(s, d)))

Reached(n, i) ==
  \/ IsFinished(n)
  \/ \E c \in Conns : cur[c] = n /\ Passed(i, ops[n].stmts[i], at[c], link[c], drops)

\* What is durable has been reached, and is there once.
DbInv ==
  /\ \A k \in 1 .. Len(db) : \E n \in 1 .. Len(ops) : \E i \in 1 .. Len(ops[n].stmts) :
       db[k] = ops[n].stmts[i] /\ Reached(n, i)
  /\ \A k, l \in 1 .. Len(db) : k # l /\ Once(db[k], drops) => db[k] # db[l]

WholeInv ==
  \A n \in 1 .. Len(ops) :
    IsFinished(n) /\ ops[n].tx /\ Safe(ops[n].stmts, drops)
      => AllIn(ops[n].stmts, db) \/ NoneIn(ops[n].stmts, db)

EffectInv == IdInv /\ (\A c \in Conns : ConnInv(c)) /\ DbInv /\ WholeInv

\* With one worker: operations leave the queue in the order of their numbers.
QueueInv ==
  /\ \A i \in 1 .. Len(delayQueue) : ~ops[delayQueue[i]].direct
  /\ \A w \in Workers : cur[w] # 0 => ~ops[cur[w]].direct
  /\ cur[AsyncConn] # 0 => ops[cur[AsyncConn]].direct
  /\ \A i, j \in 1 .. Len(delayQueue) : i < j => delayQueue[i] < delayQueue[j]
  /\ \A w \in Workers, i \in 1 .. Len(delayQueue) : cur[w] < delayQueue[i]
  /\ \A n \in 1 .. Len(ops) : IsFinished(n) /\ ~ops[n].direct =>
       /\ \A i \in 1 .. Len(delayQueue) : n < delayQueue[i]
       /\ \A w \in Workers : cur[w] # 0 => n < cur[w]

-----------------------------------------------------------------------------
(* The numbers of the statements. *)

\* The numbers in an empty list, in a list of one statement, and in a list
\* that a statement has been appended to.
LEMMA EmptyIds ==
  ASSUME NEW t
  PROVE  Ids(<<>>) = {} /\ Ascending(<<>>) /\ Written(t, <<>>)
<1>1. Len(<<>>) = 0 /\ 1 .. 0 = {}
  OBVIOUS
<1> QED BY <1>1 DEF Ids, Ascending, Written

LEMMA SingleIds ==
  ASSUME NEW s \in Stmt
  PROVE  Ids(<<s>>) = {s.id} /\ Ascending(<<s>>) /\ Written(s.by, <<s>>) /\ Len(<<s>>) = 1
<1>1. Len(<<s>>) = 1 /\ <<s>>[1] = s /\ 1 .. 1 = {1}
  OBVIOUS
<1> QED BY <1>1 DEF Ids, Ascending, Written

LEMMA AppendIds ==
  ASSUME NEW q \in Seq(Stmt), NEW s \in Stmt, NEW k \in Nat, s.id = k + 1,
         Issued(s.by, q, k)
  PROVE  /\ Ids(Append(q, s)) = Ids(q) \cup {k + 1}
         /\ Issued(s.by, Append(q, s), k + 1)
<1> DEFINE a == Append(q, s)
<1>1. /\ Len(q) \in Nat /\ Len(a) = Len(q) + 1 /\ a[Len(q) + 1] = s
      /\ \A i \in 1 .. Len(q) : a[i] = q[i]
  OBVIOUS
<1> HIDE DEF a
<1>2. \A i : i \in 1 .. Len(a) <=> i \in 1 .. Len(q) \/ i = Len(q) + 1
  BY <1>1
<1>3. Ids(a) = Ids(q) \cup {k + 1}
  BY <1>1, <1>2 DEF Ids
<1>4. Written(s.by, a)
  BY <1>1, <1>2 DEF Issued, Written
<1>5. \A i \in 1 .. Len(q) : q[i].id \in 1 .. k
  BY DEF Issued, Ids
<1>6. Ascending(a)
  <2> SUFFICES ASSUME NEW i \in 1 .. Len(a), NEW j \in 1 .. Len(a), i < j
               PROVE  a[i].id < a[j].id
    BY DEF Ascending
  <2>1. i \in 1 .. Len(q)
    BY <1>1, <1>2
  <2>2. CASE j \in 1 .. Len(q)
    BY <1>1, <2>1, <2>2 DEF Issued, Ascending
  <2>3. CASE j = Len(q) + 1
    BY <1>1, <1>5, <2>1, <2>3
  <2> QED BY <1>2, <2>2, <2>3
<1>7. Ids(q) \subseteq 1 .. k /\ 1 .. k \subseteq 1 .. k + 1 /\ k + 1 \in 1 .. k + 1
  BY DEF Issued
<1> QED BY <1>3, <1>4, <1>6, <1>7 DEF Issued, a

\* What has been issued stays issued.
LEMMA IssuedGrows ==
  ASSUME NEW k \in Nat, NEW l \in Nat, k <= l, NEW t, NEW q, Issued(t, q, k)
  PROVE  Issued(t, q, l)
<1>1. 1 .. k \subseteq 1 .. l
  OBVIOUS
<1> QED BY <1>1 DEF Issued

\* An operation and its parts.
LEMMA OpType ==
  ASSUME TypeOK, NEW n \in 1 .. Len(ops)
  PROVE  /\ ops[n] \in Op /\ ops[n].stmts \in Seq(Stmt)
         /\ Len(ops[n].stmts) \in Nat /\ ops[n].tx \in BOOLEAN
<1>1. ops[n] \in Op
  BY DEF TypeOK
<1> QED BY <1>1 DEF Op

\* No two places hold the same statement.
LEMMA Unique ==
  ASSUME TypeOK, OpIds,
         NEW n \in 1 .. Len(ops), NEW m \in 1 .. Len(ops),
         NEW i \in 1 .. Len(ops[n].stmts), NEW j \in 1 .. Len(ops[m].stmts),
         ops[n].stmts[i] = ops[m].stmts[j]
  PROVE  n = m /\ i = j
<1>1. ops[n].stmts[i].id \in Ids(ops[n].stmts) /\ ops[m].stmts[j].id \in Ids(ops[m].stmts)
  BY DEF Ids
<1>2. n = m
  BY <1>1 DEF OpIds, Apart
<1>3. Ascending(ops[n].stmts)
  BY DEF OpIds, Issued
<1>4. ops[n].stmts \in Seq(Stmt)
  BY OpType
<1>5. i \in Nat /\ j \in Nat /\ ops[n].stmts[i] \in Stmt
  BY <1>2, <1>4
<1>a. ops[n].stmts[i].id \in 1 .. MaxStmts /\ MaxStmts \in Nat
  BY <1>5, ConfigAssumption DEF Stmt, ConfigAssumption
<1>6. ~(i < j) /\ ~(j < i)
  BY <1>2, <1>3, <1>5, <1>a DEF Ascending
<1> QED BY <1>2, <1>5, <1>6

\* What a step can do to the statements: drop open transactions, add a
\* statement to one, make a new statement an operation, or make a
\* transaction one.
IdKeep ==
  /\ UNCHANGED <<ops, issued>>
  /\ \A t \in Threads :
       \/ trans'[t] = trans[t]
       \/ trans'[t].stmts = <<>>

IssuesOp(t, k, op) ==
  /\ CanIssue /\ op.by = t /\ op.stmts = <<NewStmt(t, k)>> /\ ~op.tx
  /\ op.direct \/ trans[t].stmts = <<>>
  /\ ops' = Append(ops, op) /\ issued' = issued + 1 /\ UNCHANGED trans

CommitsOp(t, op) ==
  /\ op.by = t /\ op.stmts = trans[t].stmts /\ op.tx
  /\ ops' = Append(ops, op) /\ trans' = [trans EXCEPT ![t] = NoTrans]
  /\ UNCHANGED issued

IdStep ==
  \/ IdKeep
  \/ \E t \in Threads, k \in Kinds : ExecuteInTransaction(t, k)
  \/ \E t \in Threads, k \in Kinds, op \in Op : IssuesOp(t, k, op)
  \/ \E t \in Threads, op \in Op : CommitsOp(t, op)

\* Every step does one of the four.
LEMMA FourIdKinds ==
  ASSUME TypeOK, OpenIds, Closed, [Next]_vars
  PROVE  IdStep
<1> USE ConfigAssumption
<1>1. ASSUME NEW t \in Threads, ClientNext(t) PROVE IdStep
  <2>0. trans[t].stmts \in Seq(Stmt)
    BY DEF TypeOK
  <2>1. CASE BeginTransaction(t) \/ RollbackTransaction(t)
    <3>1. \E r \in {NoTrans, [open |-> TRUE, stmts |-> <<>>]} : trans' = [trans EXCEPT ![t] = r]
      BY <2>1 DEF BeginTransaction, RollbackTransaction
    <3>2. PICK r \in {NoTrans, [open |-> TRUE, stmts |-> <<>>]} : trans' = [trans EXCEPT ![t] = r]
      BY <3>1
    <3>3. r.stmts = <<>>
      BY DEF NoTrans
    <3>4. \A u \in Threads : trans'[u] = IF u = t THEN r ELSE trans[u]
      BY <3>2 DEF TypeOK
    <3>5. UNCHANGED <<ops, issued>>
      BY <2>1 DEF BeginTransaction, RollbackTransaction
    <3> QED BY <3>3, <3>4, <3>5 DEF IdStep, IdKeep
  <2>2. ASSUME NEW k \in Kinds, ExecuteAsync(t, k) \/ DirectExecute(t, k) PROVE IdStep
    <3> DEFINE o(d) == [by |-> t, stmts |-> <<NewStmt(t, k)>>, tx |-> FALSE,
                        direct |-> d, late |-> FALSE]
    <3>1. \A d \in BOOLEAN : o(d) \in Op
      BY <2>2, NewStmtType DEF TypeOK, ExecuteAsync, DirectExecute, Op
    <3>2. \A d \in BOOLEAN : o(d).by = t /\ o(d).stmts = <<NewStmt(t, k)>> /\ ~o(d).tx
                             /\ (o(d).direct <=> d)
      OBVIOUS
    <3>3. \/ ops' = Append(ops, o(FALSE)) /\ ~trans[t].open
          \/ ops' = Append(ops, o(TRUE))
      BY <2>2 DEF ExecuteAsync, DirectExecute, AddToDelayQueue, DirectOn
    <3>4. CanIssue /\ issued' = issued + 1 /\ UNCHANGED trans
      BY <2>2 DEF ExecuteAsync, DirectExecute
    <3> HIDE DEF o
    <3>5. \E d \in BOOLEAN : IssuesOp(t, k, o(d))
      BY <3>2, <3>3, <3>4 DEF IssuesOp, OpenIds
    <3> QED BY <3>1, <3>5 DEF IdStep
  <2>3. CASE CommitTransaction(t) \/ CommitTransactionDirect(t)
    <3> DEFINE o(d) == [by |-> t, stmts |-> trans[t].stmts, tx |-> TRUE,
                        direct |-> d, late |-> FALSE]
    <3>1. \A d \in BOOLEAN : o(d) \in Op
      BY <2>0 DEF Op
    <3>2. \A d \in BOOLEAN : o(d).by = t /\ o(d).stmts = trans[t].stmts /\ o(d).tx
      OBVIOUS
    <3>3. \E d \in BOOLEAN : ops' = Append(ops, o(d))
      BY <2>3 DEF CommitTransaction, CommitTransactionDirect, AddToDelayQueue, DirectOn
    <3>4. trans' = [trans EXCEPT ![t] = NoTrans] /\ UNCHANGED issued
      BY <2>3 DEF CommitTransaction, CommitTransactionDirect
    <3> HIDE DEF o
    <3>5. \E d \in BOOLEAN : CommitsOp(t, o(d))
      BY <3>2, <3>3, <3>4 DEF CommitsOp
    <3> QED BY <3>1, <3>5 DEF IdStep
  <2> QED BY <1>1, <2>1, <2>2, <2>3 DEF ClientNext, IdStep
<1>2. ASSUME NEW c \in Conns, ConnNext(c) PROVE IdStep
  <2>1. UNCHANGED <<ops, issued, trans>>
    BY <1>2 DEF ConnNext, SkipEmpty, BeginOnServer, BeginOnNull, ExecuteStmt,
         RejectStmt, FatalStmt, FailOnDeadLink, Reconnect, ReconnectFails,
         RollbackOnNull, Commit, LostReply, LostCommitReply, Steps, Crash, clientVars
  <2> QED BY <2>1 DEF IdStep, IdKeep
<1>3. ASSUME NEW c \in Conns, Drop(c) PROVE IdStep
  BY <1>3 DEF IdStep, IdKeep, Drop, clientVars
<1>4. ASSUME NEW w \in Workers, WorkerNext(w) PROVE IdStep
  <2>1. UNCHANGED <<ops, issued, trans>>
    BY <1>4 DEF WorkerNext, CheckRunning, QueueEmpty, Ping, NextDelayedOperation,
                WorkerSteps, clientVars
  <2> QED BY <2>1 DEF IdStep, IdKeep
<1>5. CASE MainNext
  <2>1. CASE AllowAsyncTransactions \/ CloseConnections
    BY <2>1 DEF IdStep, IdKeep, AllowAsyncTransactions, CloseConnections, clientVars
  <2>4. CASE StopServer
    BY <2>4 DEF IdStep, IdKeep, StopServer, NoTrans
  <2>3. ASSUME NEW w \in Workers, JoinWorker(w) \/ DeleteWorker(w) PROVE IdStep
    BY <2>3 DEF IdStep, IdKeep, JoinWorker, DeleteWorker, clientVars
  <2>2. ASSUME NEW t \in Threads, NEW k \in Kinds, CancelledCallbackWrites(t, k)
        PROVE  IdStep
    <3> DEFINE o == [by |-> t, stmts |-> <<NewStmt(t, k)>>, tx |-> FALSE,
                     direct |-> FALSE, late |-> TRUE]
    <3>1. o \in Op
      BY <2>2, NewStmtType DEF TypeOK, CancelledCallbackWrites, Op
    <3>2. o.by = t /\ o.stmts = <<NewStmt(t, k)>> /\ ~o.tx
      OBVIOUS
    <3>3. /\ ops' = Append(ops, o) /\ CanIssue /\ issued' = issued + 1 /\ UNCHANGED trans
          /\ phase = "cancelling"
      BY <2>2 DEF CancelledCallbackWrites, AddToDelayQueue
    <3> HIDE DEF o
    <3>4. IssuesOp(t, k, o)
      BY <3>2, <3>3 DEF IssuesOp, Closed
    <3> QED BY <3>1, <3>4 DEF IdStep
  <2> QED BY <1>5, <2>1, <2>2, <2>3, <2>4 DEF MainNext
<1>6. CASE UNCHANGED vars
  BY <1>6 DEF IdStep, IdKeep, vars
<1> QED BY <1>1, <1>2, <1>3, <1>4, <1>5, <1>6 DEF Next

\* Dropping transactions keeps the numbers of the rest.
LEMMA IdsKept ==
  ASSUME OpenIds, OpIds, MixedIds, IdKeep
  PROVE  OpenIds' /\ OpIds' /\ MixedIds'
<1>1. ops' = ops /\ issued' = issued
  BY DEF IdKeep
<1>2. \A t \in Threads : trans'[t] = trans[t] \/ trans'[t].stmts = <<>>
  BY DEF IdKeep
<1>3. \A t \in Threads : Issued(t, <<>>, issued)
  BY EmptyIds DEF Issued
<1>4. \A q : Apart(<<>>, q) /\ Apart(q, <<>>) /\ Before(q, <<>>)
  BY EmptyIds DEF Apart, Before
<1>5. OpIds'
  BY <1>1 DEF OpIds
<1>6. MixedIds'
  <2> SUFFICES ASSUME NEW t \in Threads, NEW n \in 1 .. Len(ops')
               PROVE  /\ Apart(trans'[t].stmts, ops'[n].stmts)
                      /\ ~ops'[n].direct /\ ops'[n].by = t => Before(ops'[n].stmts, trans'[t].stmts)
    BY DEF MixedIds
  <2> QED BY <1>1, <1>2, <1>4 DEF MixedIds
<1>7. \A t \in Threads : Issued(t, trans'[t].stmts, issued')
  BY <1>1, <1>2, <1>3 DEF OpenIds
<1>8. \A t, u \in Threads : t # u => Apart(trans'[t].stmts, trans'[u].stmts)
  BY <1>2, <1>4 DEF OpenIds
<1>9. \A t \in Threads : ~trans'[t].open => trans'[t].stmts = <<>>
  BY <1>2 DEF OpenIds
<1> QED BY <1>5, <1>6, <1>7, <1>8, <1>9 DEF OpenIds

\* ExecuteInTransaction: the new number is greater than all others.
LEMMA IdsJoin ==
  ASSUME TypeOK, OpenIds, OpIds, MixedIds,
         NEW t \in Threads, NEW k \in Kinds, ExecuteInTransaction(t, k)
  PROVE  OpenIds' /\ OpIds' /\ MixedIds'
<1> USE ConfigAssumption
<1>0. issued \in Nat /\ issued + 1 \in Nat
  BY DEF TypeOK, ConfigAssumption
<1>1. PICK s \in Stmt : s = NewStmt(t, k)
  BY NewStmtType DEF TypeOK, ExecuteInTransaction
<1>2. s.id = issued + 1 /\ s.by = t
  BY <1>1 DEF NewStmt
<1>3. PICK q \in Seq(Stmt) : q = trans[t].stmts
  BY DEF TypeOK
<1>4. Issued(s.by, q, issued)
  BY <1>2, <1>3 DEF OpenIds
<1>5. PICK a : a = Append(q, s)
  OBVIOUS
<1>6. Ids(a) = Ids(q) \cup {issued + 1} /\ Issued(t, a, issued + 1)
  BY <1>0, <1>2, <1>4, <1>5, AppendIds
<1>7. /\ ops' = ops /\ issued' = issued + 1
      /\ trans' = [trans EXCEPT ![t] = [open |-> TRUE, stmts |-> a]]
  BY <1>1, <1>3, <1>5 DEF ExecuteInTransaction
<1>8. /\ trans'[t].open /\ trans'[t].stmts = a
      /\ \A u \in Threads : u # t => trans'[u] = trans[u]
  BY <1>7 DEF TypeOK
<1>9. \A u, r : Issued(u, r, issued) => Issued(u, r, issued + 1) /\ issued + 1 \notin Ids(r)
  <2> SUFFICES ASSUME NEW u, NEW r, Issued(u, r, issued)
               PROVE  Issued(u, r, issued + 1) /\ issued + 1 \notin Ids(r)
    OBVIOUS
  <2>1. Issued(u, r, issued + 1)
    BY <1>0, IssuedGrows
  <2>2. Ids(r) \subseteq 1 .. issued
    BY DEF Issued
  <2> QED BY <1>0, <2>1, <2>2
<1>10. \A r : Apart(q, r) /\ issued + 1 \notin Ids(r) => Apart(a, r) /\ Apart(r, a)
  BY <1>6 DEF Apart
<1>11. \A r : Apart(r, q) => Apart(q, r)
  BY DEF Apart
<1>12. OpIds'
  BY <1>7, <1>9 DEF OpIds
<1>13. MixedIds'
  <2> SUFFICES ASSUME NEW u \in Threads, NEW n \in 1 .. Len(ops)
               PROVE  /\ Apart(trans'[u].stmts, ops[n].stmts)
                      /\ ~ops[n].direct /\ ops[n].by = u => Before(ops[n].stmts, trans'[u].stmts)
    BY <1>7 DEF MixedIds
  <2>1. CASE u # t
    BY <1>8, <2>1 DEF MixedIds
  <2>2. CASE u = t
    <3>1. Issued(ops[n].by, ops[n].stmts, issued)
      BY DEF OpIds
    <3>2. Apart(a, ops[n].stmts)
      BY <1>3, <1>9, <1>10, <3>1, <2>2 DEF MixedIds
    <3>3. ASSUME ~ops[n].direct, ops[n].by = t PROVE Before(ops[n].stmts, a)
      <4>1. Before(ops[n].stmts, q)
        BY <1>3, <3>3 DEF MixedIds
      <4>2. \A x \in Ids(ops[n].stmts) : x < issued + 1
        BY <1>0, <3>1 DEF Issued
      <4> QED BY <1>6, <4>1, <4>2 DEF Before
    <3> QED BY <1>8, <2>2, <3>2, <3>3
  <2> QED BY <2>1, <2>2
<1>14. \A u \in Threads : Issued(u, trans'[u].stmts, issued + 1)
  BY <1>6, <1>8, <1>9 DEF OpenIds
<1>15. \A u, v \in Threads : u # v => Apart(trans'[u].stmts, trans'[v].stmts)
  <2>1. \A u \in Threads : u # t => Apart(a, trans[u].stmts) /\ Apart(trans[u].stmts, a)
    BY <1>3, <1>9, <1>10 DEF OpenIds
  <2> QED BY <1>8, <2>1 DEF OpenIds
<1>16. \A u \in Threads : ~trans'[u].open => trans'[u].stmts = <<>>
  BY <1>8 DEF OpenIds
<1> QED BY <1>7, <1>12, <1>13, <1>14, <1>15, <1>16 DEF OpenIds

\* A new operation whose statements are nowhere else, and come after those
\* the thread handed over before.
LEMMA IdsNewOp ==
  ASSUME TypeOK, OpIds, NEW op \in Op, ops' = Append(ops, op),
         issued \in Nat, issued' \in Nat, issued <= issued',
         Issued(op.by, op.stmts, issued'),
         \A n \in 1 .. Len(ops) : Apart(op.stmts, ops[n].stmts),
         ~op.tx => Len(op.stmts) = 1,
         \A n \in 1 .. Len(ops) : ~op.direct /\ ~ops[n].direct /\ ops[n].by = op.by
                                    => Before(ops[n].stmts, op.stmts)
  PROVE  OpIds'
<1>1. /\ Len(ops') = Len(ops) + 1 /\ Len(ops) \in Nat
      /\ \A n \in 1 .. Len(ops) : ops'[n] = ops[n]
      /\ ops'[Len(ops')] = op
  BY GrowOps DEF TypeOK
<1> DEFINE m == Len(ops')
<1>2. \A n : n \in 1 .. m <=> n \in 1 .. Len(ops) \/ n = m
  BY <1>1
<1>3. \A n \in 1 .. Len(ops) : ~(m < n) /\ n # m
  BY <1>1
<1>4. ops'[m] = op /\ ~(m < m)
  BY <1>1
<1> HIDE DEF m
<1>5. \A n \in 1 .. m : Issued(ops'[n].by, ops'[n].stmts, issued')
  BY <1>1, <1>2, <1>4, IssuedGrows DEF OpIds
<1>6. \A n, l \in 1 .. m : n # l => Apart(ops'[n].stmts, ops'[l].stmts)
  <2>1. \A q, r : Apart(q, r) => Apart(r, q)
    BY DEF Apart
  <2> QED BY <1>1, <1>2, <1>4, <2>1 DEF OpIds
<1>7. \A n \in 1 .. m : ~ops'[n].tx => Len(ops'[n].stmts) = 1
  BY <1>1, <1>2, <1>4 DEF OpIds
<1>8. \A n, l \in 1 .. m :
        n < l /\ ~ops'[n].direct /\ ~ops'[l].direct /\ ops'[n].by = ops'[l].by
          => Before(ops'[n].stmts, ops'[l].stmts)
  BY <1>1, <1>2, <1>3, <1>4 DEF OpIds
<1> QED BY <1>5, <1>6, <1>7, <1>8 DEF OpIds, m

\* Statements that become an operation of their own.
LEMMA IdsIssue ==
  ASSUME TypeOK, OpenIds, OpIds, MixedIds,
         NEW t \in Threads, NEW k \in Kinds, NEW op \in Op, IssuesOp(t, k, op)
  PROVE  OpenIds' /\ OpIds' /\ MixedIds'
<1> USE ConfigAssumption
<1>0. issued \in Nat /\ issued + 1 \in Nat /\ issued <= issued + 1
  BY DEF TypeOK, ConfigAssumption
<1>1. PICK s \in Stmt : s = NewStmt(t, k)
  BY NewStmtType DEF TypeOK, IssuesOp
<1>2. s.id = issued + 1 /\ s.by = t
  BY <1>1 DEF NewStmt
<1>3. /\ op.stmts = <<s>> /\ op.by = t /\ ~op.tx /\ (op.direct \/ trans[t].stmts = <<>>)
      /\ ops' = Append(ops, op) /\ issued' = issued + 1 /\ trans' = trans
  BY <1>1 DEF IssuesOp
<1>4. Ids(op.stmts) = {issued + 1} /\ Issued(t, op.stmts, issued + 1) /\ Len(op.stmts) = 1
  <2>1. issued + 1 \in 1 .. issued + 1
    BY <1>0
  <2> QED BY <1>2, <1>3, <2>1, SingleIds DEF Issued
<1>5. \A u, r : Issued(u, r, issued) =>
        /\ Issued(u, r, issued + 1)
        /\ Apart(op.stmts, r) /\ Apart(r, op.stmts) /\ Before(r, op.stmts)
  <2> SUFFICES ASSUME NEW u, NEW r, Issued(u, r, issued)
               PROVE  /\ Issued(u, r, issued + 1)
                      /\ Apart(op.stmts, r) /\ Apart(r, op.stmts) /\ Before(r, op.stmts)
    OBVIOUS
  <2>1. Issued(u, r, issued + 1)
    BY <1>0, IssuedGrows
  <2>2. \A x \in Ids(r) : x < issued + 1 /\ x # issued + 1
    BY <1>0 DEF Issued
  <2> QED BY <1>4, <2>1, <2>2 DEF Apart, Before
<1>6. OpIds'
  <2>1. \A n \in 1 .. Len(ops) : Apart(op.stmts, ops[n].stmts) /\ Before(ops[n].stmts, op.stmts)
    BY <1>5 DEF OpIds
  <2> QED BY <1>0, <1>3, <1>4, <2>1, IdsNewOp
<1>7. OpenIds'
  <2>1. \A u \in Threads : Issued(u, trans[u].stmts, issued + 1)
    BY <1>5 DEF OpenIds
  <2> QED BY <1>3, <2>1 DEF OpenIds
<1>8. MixedIds'
  <2>1. /\ Len(ops') = Len(ops) + 1 /\ Len(ops) \in Nat
        /\ \A n \in 1 .. Len(ops) : ops'[n] = ops[n]
        /\ ops'[Len(ops')] = op
    BY <1>3, GrowOps DEF TypeOK
  <2> SUFFICES ASSUME NEW u \in Threads, NEW n \in 1 .. Len(ops')
               PROVE  /\ Apart(trans[u].stmts, ops'[n].stmts)
                      /\ ~ops'[n].direct /\ ops'[n].by = u => Before(ops'[n].stmts, trans[u].stmts)
    BY <1>3 DEF MixedIds
  <2>2. CASE n \in 1 .. Len(ops)
    BY <2>1, <2>2 DEF MixedIds
  <2>3. CASE n = Len(ops')
    <3>1. Apart(trans[u].stmts, op.stmts)
      BY <1>5 DEF OpenIds
    <3>2. Before(op.stmts, <<>>)
      BY EmptyIds DEF Before
    <3> QED BY <1>3, <2>1, <2>3, <3>1, <3>2
  <2> QED BY <2>1, <2>2, <2>3
<1> QED BY <1>6, <1>7, <1>8

\* A transaction that becomes an operation.
LEMMA IdsCommit ==
  ASSUME TypeOK, OpenIds, OpIds, MixedIds,
         NEW t \in Threads, NEW op \in Op, CommitsOp(t, op)
  PROVE  OpenIds' /\ OpIds' /\ MixedIds'
<1>0. issued \in Nat
  BY ConfigAssumption DEF TypeOK, ConfigAssumption
<1>1. /\ op.by = t /\ op.stmts = trans[t].stmts /\ op.tx
      /\ ops' = Append(ops, op) /\ issued' = issued
  BY DEF CommitsOp
<1>2. /\ trans'[t].stmts = <<>>
      /\ \A u \in Threads : u # t => trans'[u] = trans[u]
  BY DEF CommitsOp, TypeOK, NoTrans
<1>3. OpIds'
  <2>1. Issued(op.by, op.stmts, issued)
    BY <1>1 DEF OpenIds
  <2>2. \A n \in 1 .. Len(ops) : Apart(op.stmts, ops[n].stmts)
    BY <1>1 DEF MixedIds
  <2>3. \A n \in 1 .. Len(ops) : ~ops[n].direct /\ ops[n].by = op.by => Before(ops[n].stmts, op.stmts)
    BY <1>1 DEF MixedIds
  <2>4. issued <= issued
    BY <1>0
  <2> QED BY <1>0, <1>1, <2>1, <2>2, <2>3, <2>4, IdsNewOp
<1>4. \A u \in Threads : Issued(u, <<>>, issued)
  BY EmptyIds DEF Issued
<1>5. \A q : Apart(<<>>, q) /\ Apart(q, <<>>) /\ Before(q, <<>>)
  BY EmptyIds DEF Apart, Before
<1>6. OpenIds'
  <2>1. \A u \in Threads : Issued(u, trans'[u].stmts, issued)
    BY <1>2, <1>4 DEF OpenIds
  <2>2. \A u, v \in Threads : u # v => Apart(trans'[u].stmts, trans'[v].stmts)
    BY <1>2, <1>5 DEF OpenIds
  <2>3. \A u \in Threads : ~trans'[u].open => trans'[u].stmts = <<>>
    BY <1>2 DEF OpenIds
  <2> QED BY <1>1, <2>1, <2>2, <2>3 DEF OpenIds
<1>7. MixedIds'
  <2>1. /\ Len(ops') = Len(ops) + 1 /\ Len(ops) \in Nat
        /\ \A n \in 1 .. Len(ops) : ops'[n] = ops[n]
        /\ ops'[Len(ops')] = op
    BY <1>1, GrowOps DEF TypeOK
  <2> SUFFICES ASSUME NEW u \in Threads, NEW n \in 1 .. Len(ops')
               PROVE  /\ Apart(trans'[u].stmts, ops'[n].stmts)
                      /\ ~ops'[n].direct /\ ops'[n].by = u => Before(ops'[n].stmts, trans'[u].stmts)
    BY DEF MixedIds
  <2>2. CASE u = t
    BY <1>2, <1>5, <2>2
  <2>3. CASE u # t /\ n \in 1 .. Len(ops)
    BY <1>2, <2>1, <2>3 DEF MixedIds
  <2>4. CASE u # t /\ n = Len(ops')
    <3>1. Apart(trans[u].stmts, op.stmts)
      BY <1>1, <2>4 DEF OpenIds
    <3> QED BY <1>1, <1>2, <2>1, <2>4, <3>1
  <2> QED BY <2>1, <2>2, <2>3, <2>4
<1> QED BY <1>3, <1>6, <1>7

\* StopServer closes the transactions, and from then on no thread opens one.
LEMMA ClosedStep ==
  ASSUME Closed, [Next]_vars
  PROVE  Closed'
<1> DEFINE Late == {"halting", "cancelling", "stopped"}
<1>1. CASE StopServer
  BY <1>1 DEF StopServer, Closed, NoTrans
<1>2. CASE ~StopServer
  <2>1. phase' \in Late => phase \in Late /\ trans' = trans
    <3>1. ASSUME NEW t \in Threads, ClientNext(t) PROVE phase' \notin Late
      BY <3>1 DEF ClientNext, BeginTransaction, CommitTransaction, Calls,
         CommitTransactionDirect, RollbackTransaction, ExecuteInTransaction,
         ExecuteAsync, DirectExecute
    <3>2. ASSUME NEW c \in Conns, ConnNext(c) \/ Drop(c)
          PROVE  (phase' = phase \/ phase' = "crashed") /\ trans' = trans
      BY <3>2 DEF ConnNext, SkipEmpty, BeginOnServer, BeginOnNull, ExecuteStmt,
         RejectStmt, FatalStmt, FailOnDeadLink, Reconnect, ReconnectFails, Drop,
         RollbackOnNull, Commit, LostReply, LostCommitReply, Steps, Crash, clientVars
    <3>3. ASSUME NEW w \in Workers, WorkerNext(w)
          PROVE  phase' = phase /\ trans' = trans
      BY <3>3 DEF WorkerNext, CheckRunning, QueueEmpty, Ping, NextDelayedOperation,
                  WorkerSteps, clientVars
    <3>4. CASE MainNext
      BY <1>2, <3>4 DEF MainNext, AllowAsyncTransactions, CloseConnections, JoinWorker,
         DeleteWorker, CancelledCallbackWrites, clientVars
    <3>5. CASE UNCHANGED vars
      BY <3>5 DEF vars
    <3> QED BY <3>1, <3>2, <3>3, <3>4, <3>5 DEF Next
  <2> QED BY <2>1 DEF Closed
<1> QED BY <1>1, <1>2

LEMMA IdStepKeeps ==
  ASSUME TypeOK, IdInv, [Next]_vars
  PROVE  IdInv'
<1>1. OpenIds /\ OpIds /\ MixedIds /\ Closed
  BY DEF IdInv
<1>2. IdStep /\ Closed'
  BY <1>1, FourIdKinds, ClosedStep
<1>3. OpenIds' /\ OpIds' /\ MixedIds'
  BY <1>1, <1>2, IdsKept, IdsJoin, IdsIssue, IdsCommit DEF IdStep
<1> QED BY <1>2, <1>3 DEF IdInv

-----------------------------------------------------------------------------
(* What becomes durable. *)

Grown == Len(ops) <= Len(ops') /\ \A n \in 1 .. Len(ops) : ops'[n] = ops[n]

\* The statements of new become durable.
Adds(new) ==
  /\ Len(db') = Len(db) + Len(new)
  /\ \A k \in 1 .. Len(db) : db'[k] = db[k]
  /\ \A k \in 1 .. Len(new) : db'[Len(db) + k] = new[k]

\* The operation on connection c is over, or it goes on and does not get
\* back to a statement that has been reached, unless the statement may be
\* executed twice.
Onward(c) ==
  cur[c] # 0 =>
    \/ In(cur[c], finished')
    \/ /\ cur'[c] = cur[c] /\ at[c] <= at'[c]
       /\ at'[c] = at[c] /\ AtStmt(c) /\ link[c] # "up" /\ link'[c] = "up"
            => ~Once(CurStmt(c), drops')

\* What holds of durable statements by the numbers: they have been reached.
LEMMA DurableReached ==
  ASSUME TypeOK, OpIds, DbInv, NEW n \in 1 .. Len(ops),
         NEW i \in 1 .. Len(ops[n].stmts), In(ops[n].stmts[i], db)
  PROVE  Reached(n, i)
<1>1. PICK k \in 1 .. Len(db) : db[k] = ops[n].stmts[i]
  BY DEF In
<1>2. PICK m \in 1 .. Len(ops) : \E j \in 1 .. Len(ops[m].stmts) :
        db[k] = ops[m].stmts[j] /\ Reached(m, j)
  BY DEF DbInv
<1>3. PICK j \in 1 .. Len(ops[m].stmts) : db[k] = ops[m].stmts[j] /\ Reached(m, j)
  BY <1>2
<1>4. ops[n].stmts[i] = ops[m].stmts[j]
  BY <1>1, <1>3
<1>5. n = m /\ i = j
  BY <1>4, Unique
<1> QED BY <1>3, <1>5

\* So nothing of an operation is durable that no connection has started.
LEMMA NotStarted ==
  ASSUME TypeOK, OpIds, DbInv, NEW n \in 1 .. Len(ops), ~IsFinished(n),
         \A c \in Conns : cur[c] = n => at[c] = 0
  PROVE  NoneIn(ops[n].stmts, db)
<1> SUFFICES ASSUME NEW i \in 1 .. Len(ops[n].stmts), In(ops[n].stmts[i], db)
             PROVE  FALSE
  BY DEF NoneIn
<1>1. Reached(n, i)
  BY DurableReached
<1>2. i \in Nat /\ i >= 1
  BY OpType
<1> QED BY <1>1, <1>2 DEF Reached, Passed

\* The durable statements after a step.
LEMMA AddsMembers ==
  ASSUME db \in Seq(Stmt), NEW new \in Seq(Stmt), db' \in Seq(Stmt), Adds(new)
  PROVE  /\ \A s : In(s, db') <=> In(s, db) \/ In(s, new)
         /\ \A k \in 1 .. Len(db') : \/ k \in 1 .. Len(db) /\ db'[k] = db[k]
                                     \/ \E l \in 1 .. Len(new) : k = Len(db) + l /\ db'[k] = new[l]
<1>0. Len(db) \in Nat /\ Len(new) \in Nat /\ Len(db') = Len(db) + Len(new)
  BY DEF Adds
<1>1. ASSUME NEW k \in 1 .. Len(db')
      PROVE  \/ k \in 1 .. Len(db) /\ db'[k] = db[k]
             \/ \E l \in 1 .. Len(new) : k = Len(db) + l /\ db'[k] = new[l]
  <2>1. CASE k <= Len(db)
    BY <1>0, <2>1 DEF Adds
  <2>2. CASE k > Len(db)
    <3>1. k - Len(db) \in 1 .. Len(new) /\ k = Len(db) + (k - Len(db))
      BY <1>0, <2>2
    <3> QED BY <3>1 DEF Adds
  <2> QED BY <1>0, <2>1, <2>2
<1>2. \A s : In(s, db') => In(s, db) \/ In(s, new)
  BY <1>1 DEF In
<1>3. \A s : In(s, db) => In(s, db')
  BY <1>0 DEF In, Adds
<1>4. ASSUME NEW s, In(s, new) PROVE In(s, db')
  <2>1. PICK l \in 1 .. Len(new) : new[l] = s
    BY <1>4 DEF In
  <2>2. Len(db) + l \in 1 .. Len(db')
    BY <1>0
  <2> QED BY <2>1, <2>2 DEF In, Adds
<1> QED BY <1>1, <1>2, <1>3, <1>4

\* What has been reached stays so.
LEMMA ReachedStays ==
  ASSUME TypeOK, TypeOK', Grown, drops <= drops',
         \A n : IsFinished(n) => In(n, finished'),
         \A c \in Conns : Onward(c),
         NEW n \in 1 .. Len(ops), NEW i \in 1 .. Len(ops[n].stmts), Reached(n, i)
  PROVE  Reached(n, i)'
<1>0. \A m : In(m, finished') => IsFinished(m)'
  BY DEF In, IsFinished
<1>1. CASE IsFinished(n)
  BY <1>0, <1>1 DEF Reached
<1>2. ASSUME NEW c \in Conns, cur[c] = n,
             Passed(i, ops[n].stmts[i], at[c], link[c], drops)
      PROVE  Reached(n, i)'
  <2>1. CASE In(cur[c], finished')
    BY <1>0, <1>2, <2>1 DEF Reached
  <2>2. CASE ~In(cur[c], finished')
    <3>1. n # 0 /\ i \in Nat /\ at[c] \in Nat /\ at'[c] \in Nat
          /\ drops \in Nat /\ drops' \in Nat
      BY OpType, ConfigAssumption DEF TypeOK, ConfigAssumption
    <3>2. /\ cur'[c] = n /\ at[c] <= at'[c]
          /\ at'[c] = at[c] /\ AtStmt(c) /\ link[c] # "up" /\ link'[c] = "up"
               => ~Once(CurStmt(c), drops')
      BY <1>2, <2>2, <3>1 DEF Onward
    <3>3. PICK s : s = ops[n].stmts[i]
      OBVIOUS
    <3>4. ops'[n].stmts[i] = s
      BY <3>3 DEF Grown
    <3>5. ~Once(s, drops) => ~Once(s, drops')
      BY <3>1 DEF Once
    <3>6. i = at[c] => AtStmt(c) /\ CurStmt(c) = s
      BY <1>2, <3>3 DEF AtStmt, CurStmt, CurOp
    <3>7. Passed(i, s, at'[c], link'[c], drops')
      BY <1>2, <3>1, <3>2, <3>3, <3>5, <3>6 DEF Passed
    <3> QED BY <3>2, <3>4, <3>7 DEF Reached
  <2> QED BY <2>1, <2>2
<1> QED BY <1>1, <1>2 DEF Reached

\* Adding statements that are reached, different, and durable already only
\* if they may be executed twice.
LEMMA DbStep ==
  ASSUME TypeOK, TypeOK', DbInv, Grown, drops <= drops',
         NEW new \in Seq(Stmt), Adds(new),
         \A n \in 1 .. Len(ops) : \A i \in 1 .. Len(ops[n].stmts) :
           Reached(n, i) => Reached(n, i)',
         \A k \in 1 .. Len(new) : \E n \in 1 .. Len(ops) : \E i \in 1 .. Len(ops[n].stmts) :
           new[k] = ops[n].stmts[i] /\ Reached(n, i)',
         \A k, l \in 1 .. Len(new) : k # l => new[k] # new[l],
         \A k \in 1 .. Len(new) : Once(new[k], drops') => ~In(new[k], db)
  PROVE  DbInv'
<1>0. db \in Seq(Stmt) /\ db' \in Seq(Stmt) /\ Len(db) \in Nat /\ Len(new) \in Nat
  BY DEF TypeOK
<1>1. \A k \in 1 .. Len(db') : \/ k \in 1 .. Len(db) /\ db'[k] = db[k]
                               \/ \E l \in 1 .. Len(new) : k = Len(db) + l /\ db'[k] = new[l]
  BY <1>0, AddsMembers
<1>2. \A n \in 1 .. Len(ops) : n \in 1 .. Len(ops') /\ ops'[n] = ops[n]
  <2>1. Len(ops) \in Nat /\ Len(ops') \in Nat
    BY DEF TypeOK
  <2> QED BY <2>1 DEF Grown
<1>3. \A k \in 1 .. Len(db') : \E n \in 1 .. Len(ops') : \E i \in 1 .. Len(ops'[n].stmts) :
        db'[k] = ops'[n].stmts[i] /\ Reached(n, i)'
  <2> SUFFICES ASSUME NEW k \in 1 .. Len(db')
               PROVE  \E n \in 1 .. Len(ops) : \E i \in 1 .. Len(ops[n].stmts) :
                        db'[k] = ops[n].stmts[i] /\ Reached(n, i)'
    BY <1>2
  <2>1. CASE k \in 1 .. Len(db) /\ db'[k] = db[k]
    BY <2>1 DEF DbInv
  <2>2. CASE \E l \in 1 .. Len(new) : db'[k] = new[l]
    BY <2>2
  <2> QED BY <1>1, <2>1, <2>2
<1>4. \A s : Once(s, drops') => Once(s, drops)
  <2>1. drops \in Nat /\ drops' \in Nat
    BY ConfigAssumption DEF TypeOK, ConfigAssumption
  <2> QED BY <2>1 DEF Once
<1>5. ASSUME NEW k \in 1 .. Len(db'), NEW l \in 1 .. Len(db'), k # l, Once(db'[k], drops')
      PROVE  db'[k] # db'[l]
  <2>1. CASE k \in 1 .. Len(db) /\ db'[k] = db[k] /\ l \in 1 .. Len(db) /\ db'[l] = db[l]
    BY <1>4, <1>5, <2>1 DEF DbInv
  <2>2. ASSUME k \in 1 .. Len(db), db'[k] = db[k],
               NEW j \in 1 .. Len(new), db'[l] = new[j]
        PROVE  db'[k] # db'[l]
    BY <1>5, <2>2 DEF In
  <2>3. ASSUME l \in 1 .. Len(db), db'[l] = db[l],
               NEW j \in 1 .. Len(new), db'[k] = new[j]
        PROVE  db'[k] # db'[l]
    BY <1>5, <2>3 DEF In
  <2>4. ASSUME NEW i \in 1 .. Len(new), NEW j \in 1 .. Len(new),
               k = Len(db) + i, db'[k] = new[i], l = Len(db) + j, db'[l] = new[j]
        PROVE  db'[k] # db'[l]
    BY <1>5, <2>4
  <2> QED BY <1>1, <2>1, <2>2, <2>3, <2>4
<1> QED BY <1>3, <1>5 DEF DbInv

\* A drop leaves fewer promises.
LEMMA FewerPromises ==
  ASSUME NEW d \in Nat, NEW e \in Nat, d <= e
  PROVE  \A q : Safe(q, e) => Safe(q, d)
BY DEF Safe

\* A connection does not mind what happens to other operations.
LEMMA ConnKept ==
  ASSUME NEW n, NEW q, NEW tx, NEW a, NEW l, NEW x, NEW p, NEW D, NEW E,
         NEW d \in Nat, NEW e \in Nat, d <= e,
         ConnOK(n, q, tx, a, l, x, p, D, d),
         n # 0 => \A i \in 1 .. Len(q) : In(q[i], E) <=> In(q[i], D)
  PROVE  ConnOK(n, q, tx, a, l, x, p, E, e)
<1>1. Safe(q, e) => Safe(q, d)
  BY FewerPromises
<1>2. n # 0 /\ NoneIn(q, D) => NoneIn(q, E)
  BY DEF NoneIn
<1>3. d > 0 => e > 0
  OBVIOUS
<1> QED BY <1>1, <1>2, <1>3 DEF ConnOK

\* A connection without an operation is in no transaction.
LEMMA ConnIdle ==
  ASSUME NEW q, NEW tx, NEW a, NEW l, NEW D, NEW d, l # "up" => d > 0
  PROVE  ConnOK(0, q, tx, a, l, FALSE, <<>>, D, d)
BY DEF ConnOK

\* The other connections are as before.
Elsewhere(c) ==
  \A d \in Conns : d # c =>
    /\ cur'[d] = cur[d] /\ at'[d] = at[d] /\ link'[d] = link[d]
    /\ inTx'[d] = inTx[d] /\ pending'[d] = pending[d]

Over(c) == cur[c] # 0 /\ In(cur[c], finished')

\* A step on connection c keeps the invariant if it does so there.
LEMMA EffectStep ==
  ASSUME TypeOK, TypeOK', OwnedOnce, IdInv, \A d \in Conns : ConnInv(d), DbInv, WholeInv,
         NEW c \in Conns, NEW new \in Seq(Stmt),
         ops' = ops, drops <= drops', Adds(new), Elsewhere(c), Onward(c), ConnInv(c)',
         \A n : In(n, finished') <=> IsFinished(n) \/ (n = cur[c] /\ Over(c)),
         \A k \in 1 .. Len(new) : cur[c] # 0 /\ \E i \in 1 .. Len(CurOp(c).stmts) :
           /\ new[k] = CurOp(c).stmts[i]
           /\ \/ Over(c)
              \/ cur'[c] = cur[c] /\ Passed(i, new[k], at'[c], link'[c], drops'),
         \A k, l \in 1 .. Len(new) : k # l => new[k] # new[l],
         \A k \in 1 .. Len(new) : Once(new[k], drops') => ~In(new[k], db),
         Over(c) /\ CurOp(c).tx /\ Safe(CurOp(c).stmts, drops')
           => AllIn(CurOp(c).stmts, db') \/ NoneIn(CurOp(c).stmts, db')
  PROVE  (\A d \in Conns : ConnInv(d)') /\ DbInv' /\ WholeInv'
<1>0. /\ OpIds /\ drops \in Nat /\ drops' \in Nat /\ Len(ops) \in Nat
      /\ db \in Seq(Stmt) /\ db' \in Seq(Stmt)
      /\ \A d \in Conns : cur[d] \in 0 .. Len(ops) /\ at[d] \in Nat
  BY ConfigAssumption DEF TypeOK, ConfigAssumption, IdInv
<1>1. \A d \in Conns : cur[d] # 0 => cur[d] \in 1 .. Len(ops)
  BY <1>0
<1>2. \A s : In(s, db') <=> In(s, db) \/ In(s, new)
  BY <1>0, AddsMembers
<1>3. \A n \in 1 .. Len(ops) : n # cur[c] =>
        \A i \in 1 .. Len(ops[n].stmts) : In(ops[n].stmts[i], db') <=> In(ops[n].stmts[i], db)
  <2> SUFFICES ASSUME NEW n \in 1 .. Len(ops), n # cur[c],
                      NEW i \in 1 .. Len(ops[n].stmts), In(ops[n].stmts[i], new)
               PROVE  FALSE
    BY <1>2
  <2>1. PICK k \in 1 .. Len(new) : new[k] = ops[n].stmts[i]
    BY DEF In
  <2>2. cur[c] # 0
    BY <2>1
  <2>3. PICK j \in 1 .. Len(CurOp(c).stmts) : new[k] = CurOp(c).stmts[j]
    BY <2>1
  <2>4. PICK m \in 1 .. Len(ops) : m = cur[c]
    BY <1>1, <2>2
  <2>5. j \in 1 .. Len(ops[m].stmts) /\ ops[n].stmts[i] = ops[m].stmts[j]
    BY <2>1, <2>3, <2>4 DEF CurOp
  <2>6. n = m
    BY <1>0, <2>5, Unique
  <2> QED BY <2>4, <2>6
<1>4. ASSUME NEW d \in Conns, d # c PROVE ConnInv(d)'
  <2>1. /\ cur'[d] = cur[d] /\ at'[d] = at[d] /\ link'[d] = link[d]
        /\ inTx'[d] = inTx[d] /\ pending'[d] = pending[d]
    BY <1>4 DEF Elsewhere
  <2>2. cur[d] # 0 => cur[d] # cur[c]
    BY <1>4 DEF OwnedOnce
  <2>3. cur[d] # 0 => \A i \in 1 .. Len(CurOp(d).stmts) :
                        In(CurOp(d).stmts[i], db') <=> In(CurOp(d).stmts[i], db)
    BY <1>1, <1>3, <2>2 DEF CurOp
  <2>4. ConnOK(cur[d], CurOp(d).stmts, CurOp(d).tx, at[d], link[d],
               inTx[d], pending[d], db, drops)
    BY DEF ConnInv
  <2>5. ConnOK(cur[d], CurOp(d).stmts, CurOp(d).tx, at[d], link[d],
               inTx[d], pending[d], db', drops')
    BY <1>0, <2>3, <2>4, ConnKept
  <2> QED BY <2>1, <2>5 DEF ConnInv, CurOp
<1>5. Grown
  BY <1>0 DEF Grown
<1>6. \A d \in Conns : Onward(d)
  <2> SUFFICES ASSUME NEW d \in Conns, d # c PROVE Onward(d)
    OBVIOUS
  <2> QED BY <1>0 DEF Elsewhere, Onward
<1>7. \A n : IsFinished(n) => In(n, finished')
  OBVIOUS
<1>8. \A n \in 1 .. Len(ops) : \A i \in 1 .. Len(ops[n].stmts) : Reached(n, i) => Reached(n, i)'
  BY <1>5, <1>6, <1>7, ReachedStays
<1>9. ASSUME NEW k \in 1 .. Len(new)
      PROVE  \E n \in 1 .. Len(ops) : \E i \in 1 .. Len(ops[n].stmts) :
               new[k] = ops[n].stmts[i] /\ Reached(n, i)'
  <2>1. PICK m \in 1 .. Len(ops) : m = cur[c]
    BY <1>1
  <2>2. PICK i \in 1 .. Len(CurOp(c).stmts) :
           /\ new[k] = CurOp(c).stmts[i]
           /\ \/ Over(c)
              \/ cur'[c] = cur[c] /\ Passed(i, new[k], at'[c], link'[c], drops')
    OBVIOUS
  <2>3. i \in 1 .. Len(ops[m].stmts) /\ new[k] = ops[m].stmts[i] /\ ops'[m].stmts[i] = new[k]
    BY <2>1, <2>2 DEF CurOp
  <2>4. CASE Over(c)
    <3>1. IsFinished(m)'
      BY <2>1, <2>4 DEF Over, In, IsFinished
    <3> QED BY <2>3, <3>1 DEF Reached
  <2>5. CASE cur'[c] = m /\ Passed(i, new[k], at'[c], link'[c], drops')
    BY <2>3, <2>5 DEF Reached
  <2> QED BY <2>1, <2>2, <2>4, <2>5
<1>10. DbInv'
  BY <1>5, <1>8, <1>9, DbStep
<1>11. WholeInv'
  <2> SUFFICES ASSUME NEW n \in 1 .. Len(ops), In(n, finished'), ops[n].tx,
                      Safe(ops[n].stmts, drops')
               PROVE  AllIn(ops[n].stmts, db') \/ NoneIn(ops[n].stmts, db')
    <3>1. \A n : IsFinished(n)' => In(n, finished')
      BY DEF IsFinished, In
    <3> QED BY <3>1 DEF WholeInv
  <2>1. CASE n = cur[c] /\ Over(c)
    BY <2>1 DEF CurOp
  <2>2. CASE IsFinished(n)
    <3>1. n # cur[c]
      BY <2>2 DEF OwnedOnce
    <3>2. Safe(ops[n].stmts, drops)
      BY <1>0, FewerPromises
    <3>3. AllIn(ops[n].stmts, db) \/ NoneIn(ops[n].stmts, db)
      BY <2>2, <3>2 DEF WholeInv
    <3> QED BY <1>3, <3>1, <3>3 DEF AllIn, NoneIn
  <2> QED BY <2>1, <2>2
<1> QED BY <1>4, <1>10, <1>11

\* A step on a connection leaves the others alone.
LEMMA OneConnection ==
  ASSUME TypeOK, NEW c \in Conns, ConnNext(c) \/ Drop(c)
  PROVE  Elsewhere(c) /\ ops' = ops
<1>1. ops' = ops
  BY DEF ConnNext, SkipEmpty, BeginOnServer, BeginOnNull, ExecuteStmt,
     RejectStmt, FatalStmt, FailOnDeadLink, Reconnect, ReconnectFails, Drop,
     RollbackOnNull, Commit, LostReply, LostCommitReply, Steps, Crash
<1>2. ASSUME NEW d \in Conns, d # c PROVE cur'[d] = cur[d] /\ at'[d] = at[d]
  <2>1. (cur' = cur \/ cur' = [cur EXCEPT ![c] = 0])
        /\ (at' = at \/ \E a : at' = [at EXCEPT ![c] = a])
    BY DEF ConnNext, SkipEmpty, BeginOnServer, BeginOnNull, ExecuteStmt,
       RejectStmt, FatalStmt, FailOnDeadLink, Reconnect, ReconnectFails, Drop, FailOp,
       RollbackOnNull, Commit, LostReply, LostCommitReply, Crash, Finish
  <2> QED BY <1>2, <2>1 DEF TypeOK
<1>3. ASSUME NEW d \in Conns, d # c PROVE link'[d] = link[d]
  <2>1. link' = link \/ \E a : link' = [link EXCEPT ![c] = a]
    BY DEF ConnNext, SkipEmpty, BeginOnServer, BeginOnNull, ExecuteStmt, connVars,
       RejectStmt, FatalStmt, FailOnDeadLink, Reconnect, ReconnectFails, Drop, FailOp,
       RollbackOnNull, Commit, LostReply, LostCommitReply, Crash, Gone
  <2> QED BY <1>3, <2>1 DEF TypeOK
<1>4. ASSUME NEW d \in Conns, d # c PROVE inTx'[d] = inTx[d]
  <2>1. inTx' = inTx \/ \E a : inTx' = [inTx EXCEPT ![c] = a]
    BY DEF ConnNext, SkipEmpty, BeginOnServer, BeginOnNull, ExecuteStmt, connVars,
       RejectStmt, FatalStmt, FailOnDeadLink, Reconnect, ReconnectFails, Drop, FailOp,
       RollbackOnNull, Commit, LostReply, LostCommitReply, Crash, Gone
  <2> QED BY <1>4, <2>1 DEF TypeOK
<1>5. ASSUME NEW d \in Conns, d # c PROVE pending'[d] = pending[d]
  <2>1. pending' = pending \/ \E a : pending' = [pending EXCEPT ![c] = a]
    BY DEF ConnNext, SkipEmpty, BeginOnServer, BeginOnNull, ExecuteStmt, connVars, Apply,
       RejectStmt, FatalStmt, FailOnDeadLink, Reconnect, ReconnectFails, Drop, FailOp,
       RollbackOnNull, Commit, LostReply, LostCommitReply, Crash, Gone
  <2> QED BY <1>5, <2>1 DEF TypeOK
<1> QED BY <1>1, <1>2, <1>3, <1>4, <1>5 DEF Elsewhere

\* What the end of an operation does.
LEMMA EndFacts ==
  ASSUME TypeOK, NEW c \in Conns, Ends(c)
  PROVE  /\ cur[c] \in 1 .. Len(ops) /\ cur[c] # 0 /\ cur'[c] = 0 /\ Over(c) /\ Onward(c)
         /\ \A n : In(n, finished') <=> IsFinished(n) \/ (n = cur[c] /\ Over(c))
<1>1. /\ finished' = Append(finished, cur[c]) /\ cur' = [cur EXCEPT ![c] = 0]
      /\ cur[c] \in 1 .. Len(ops) /\ Len(ops) \in Nat
      /\ finished \in Seq(1 .. Len(ops))
  BY CurStmtType DEF TypeOK, Ends, Finish
<1>2. cur'[c] = 0 /\ cur[c] # 0
  BY <1>1 DEF TypeOK
<1>3. \A n : In(n, finished') <=> IsFinished(n) \/ n = cur[c]
  <2>1. \A n : (\E i \in 1 .. Len(Append(finished, cur[c])) : Append(finished, cur[c])[i] = n)
                 <=> (\E i \in 1 .. Len(finished) : finished[i] = n) \/ n = cur[c]
    BY <1>1, AppendMembers
  <2> QED BY <1>1, <2>1 DEF In, IsFinished
<1> QED BY <1>1, <1>2, <1>3 DEF Over, Onward

\* Nothing, one statement, or a list of them becomes durable.
LEMMA AddsForms ==
  ASSUME db \in Seq(Stmt)
  PROVE  /\ db' = db => Adds(<<>>)
         /\ \A s \in Stmt : db' = Append(db, s) => Adds(<<s>>)
         /\ \A p \in Seq(Stmt) : db' = db \o p => Adds(p)
<1>1. db' = db => Adds(<<>>)
  BY DEF Adds
<1>2. ASSUME NEW s \in Stmt, db' = Append(db, s) PROVE Adds(<<s>>)
  <2>1. Len(db) \in Nat /\ Len(<<s>>) = 1 /\ <<s>>[1] = s /\ 1 .. 1 = {1}
    OBVIOUS
  <2>2. Len(db') = Len(db) + 1 /\ db'[Len(db) + 1] = s
        /\ \A k \in 1 .. Len(db) : db'[k] = db[k]
    BY <1>2
  <2> QED BY <2>1, <2>2 DEF Adds
<1>3. ASSUME NEW p \in Seq(Stmt), db' = db \o p PROVE Adds(p)
  <2>1. Len(db) \in Nat /\ Len(p) \in Nat
    OBVIOUS
  <2>2. Len(db') = Len(db) + Len(p)
        /\ \A k \in 1 .. Len(db) + Len(p) : db'[k] = IF k <= Len(db) THEN db[k] ELSE p[k - Len(db)]
    BY <1>3, ConcatProperties
  <2>3. \A k \in 1 .. Len(db) : db'[k] = db[k]
    BY <2>1, <2>2
  <2>4. \A k \in 1 .. Len(p) : db'[Len(db) + k] = p[k]
    <3>1. \A k \in 1 .. Len(p) : Len(db) + k \in 1 .. Len(db) + Len(p) /\ ~(Len(db) + k <= Len(db))
                                 /\ (Len(db) + k) - Len(db) = k
      BY <2>1
    <3> QED BY <2>2, <3>1
  <2> QED BY <2>2, <2>3, <2>4 DEF Adds
<1> QED BY <1>1, <1>2, <1>3

-----------------------------------------------------------------------------
(* The four things a step on a connection can do. *)

Given  == TypeOK /\ TypeOK' /\ OwnedOnce /\ EffectInv
Wanted == (\A d \in Conns : ConnInv(d)') /\ DbInv' /\ WholeInv'

\* An operation ends and nothing becomes durable: it was empty, a statement
\* of it failed, or there was nothing to commit.
LEMMA EndsQuietly ==
  ASSUME Given, NEW c \in Conns, Elsewhere(c), Ends(c), db' = db, drops' = drops,
         inTx'[c] = FALSE, pending'[c] = <<>>, link'[c] # "up" => drops > 0
  PROVE  Wanted
<1>0. TypeOK /\ TypeOK' /\ OwnedOnce /\ IdInv /\ (\A d \in Conns : ConnInv(d)) /\ DbInv /\ WholeInv
  BY DEF Given, EffectInv
<1>1. /\ cur[c] \in 1 .. Len(ops) /\ cur[c] # 0 /\ cur'[c] = 0 /\ Onward(c)
      /\ \A n : In(n, finished') <=> IsFinished(n) \/ (n = cur[c] /\ Over(c))
  BY <1>0, EndFacts
<1>2. ops' = ops /\ db \in Seq(Stmt) /\ drops \in Nat
  BY <1>0, ConfigAssumption DEF Ends, TypeOK, ConfigAssumption
<1>3. Adds(<<>>) /\ <<>> \in Seq(Stmt) /\ Len(<<>>) = 0 /\ drops <= drops'
  BY <1>2, AddsForms
<1>4. ConnInv(c)'
  BY <1>1, ConnIdle DEF ConnInv
<1>5. CurOp(c).tx /\ Safe(CurOp(c).stmts, drops) => NoneIn(CurOp(c).stmts, db)
  BY <1>0, <1>1 DEF ConnInv, ConnOK
<1>6. \A k : k \notin 1 .. Len(<<>>)
  BY <1>3
<1> QED BY <1>0, <1>1, <1>2, <1>3, <1>4, <1>5, <1>6, EffectStep DEF Wanted

\* An operation goes on and nothing becomes durable yet.
LEMMA GoesOn ==
  ASSUME Given, NEW c \in Conns, Elsewhere(c), ops' = ops, finished' = finished,
         db' = db, drops <= drops', Onward(c), ConnInv(c)'
  PROVE  Wanted
<1>0. TypeOK /\ TypeOK' /\ OwnedOnce /\ IdInv /\ (\A d \in Conns : ConnInv(d)) /\ DbInv /\ WholeInv
  BY DEF Given, EffectInv
<1>1. ~Over(c)
  <2>1. cur[c] \in 0 .. Len(ops) /\ Len(ops) \in Nat
    BY <1>0 DEF TypeOK
  <2>2. cur[c] # 0 => ~IsFinished(cur[c])
    BY <1>0, <2>1 DEF OwnedOnce
  <2> QED BY <2>2 DEF Over, In, IsFinished
<1>2. \A n : In(n, finished') <=> IsFinished(n)
  BY DEF In, IsFinished
<1>3. Adds(<<>>) /\ <<>> \in Seq(Stmt) /\ Len(<<>>) = 0
  BY <1>0, AddsForms DEF TypeOK
<1>4. \A k : k \notin 1 .. Len(<<>>)
  BY <1>3
<1> QED BY <1>0, <1>1, <1>2, <1>3, <1>4, EffectStep DEF Wanted

\* A statement becomes durable by itself: it has not been durable before,
\* unless it is tried again.
LEMMA TakesEffect ==
  ASSUME Given, NEW c \in Conns, Elsewhere(c), ops' = ops, drops <= drops',
         Executing(c), AtStmt(c), link[c] = "up", db' = Append(db, CurStmt(c)),
         Onward(c), ConnInv(c)',
         \A n : In(n, finished') <=> IsFinished(n) \/ (n = cur[c] /\ Over(c)),
         \/ Over(c) /\ ~CurOp(c).tx
         \/ ~Over(c) /\ cur'[c] = cur[c] /\ (at[c] < at'[c] \/ (at'[c] = at[c] /\ link'[c] # "up"))
  PROVE  Wanted
<1>0. TypeOK /\ TypeOK' /\ OwnedOnce /\ IdInv /\ (\A d \in Conns : ConnInv(d)) /\ DbInv /\ WholeInv
  BY DEF Given, EffectInv
<1>a. cur[c] \in 1 .. Len(ops) /\ CurStmt(c) \in Stmt /\ cur[c] # 0
  BY <1>0, CurStmtType DEF Executing
<1>b. drops \in Nat /\ drops' \in Nat /\ Len(ops) \in Nat
  BY <1>0, ConfigAssumption DEF TypeOK, ConfigAssumption
<1>1. /\ cur[c] \in 1 .. Len(ops) /\ cur[c] # 0 /\ CurStmt(c) \in Stmt
      /\ drops \in Nat /\ drops' \in Nat /\ Len(ops) \in Nat
  BY <1>a, <1>b
<1>2. PICK s \in Stmt : s = CurStmt(c)
  BY <1>1
<1>3. PICK n \in 1 .. Len(ops) : n = cur[c]
  BY <1>1
<1>4. PICK i \in 1 .. Len(ops[n].stmts) : i = at[c] /\ s = ops[n].stmts[i]
  BY <1>2, <1>3 DEF AtStmt, CurStmt, CurOp
<1>5. ASSUME Once(s, drops') PROVE ~In(s, db)
  <2>0. Once(s, drops)
    BY <1>1, <1>5 DEF Once
  <2> SUFFICES ASSUME In(s, db) PROVE FALSE
    OBVIOUS
  <2>1. Reached(n, i)
    BY <1>0, <1>4, DurableReached DEF IdInv
  <2>2. ~IsFinished(n) /\ \A d \in Conns : cur[d] = n => d = c
    BY <1>0, <1>1, <1>3 DEF OwnedOnce
  <2>3. Passed(i, s, at[c], link[c], drops)
    BY <1>4, <2>1, <2>2 DEF Reached
  <2>4. at[c] \in Nat
    BY <1>0 DEF TypeOK
  <2> QED BY <1>4, <2>0, <2>3, <2>4 DEF Passed
<1>6. Adds(<<s>>)
  BY <1>0, <1>2, AddsForms DEF TypeOK
<1>7. <<s>> \in Seq(Stmt) /\ Len(<<s>>) = 1 /\ <<s>>[1] = s /\ 1 .. 1 = {1}
  OBVIOUS
<1>8. PICK new \in Seq(Stmt) : Adds(new) /\ Len(new) = 1 /\ new[1] = s
  BY <1>6, <1>7
<1>9. \A k \in 1 .. Len(new) : k = 1 /\ new[k] = s
  BY <1>7, <1>8
<1>10. Over(c) \/ (cur'[c] = cur[c] /\ Passed(i, s, at'[c], link'[c], drops'))
  BY <1>4 DEF Passed
<1>11. \A k \in 1 .. Len(new) : cur[c] # 0 /\ \E j \in 1 .. Len(CurOp(c).stmts) :
           /\ new[k] = CurOp(c).stmts[j]
           /\ \/ Over(c)
              \/ cur'[c] = cur[c] /\ Passed(j, new[k], at'[c], link'[c], drops')
  BY <1>1, <1>3, <1>4, <1>9, <1>10 DEF CurOp
<1>12. /\ \A k, l \in 1 .. Len(new) : k # l => new[k] # new[l]
       /\ \A k \in 1 .. Len(new) : Once(new[k], drops') => ~In(new[k], db)
  BY <1>5, <1>9
<1>13. ~(Over(c) /\ CurOp(c).tx)
  OBVIOUS
<1> QED BY <1>0, <1>8, <1>11, <1>12, <1>13, EffectStep DEF Wanted

\* COMMIT makes the whole transaction durable.
LEMMA Commits ==
  ASSUME Given, NEW c \in Conns, Elsewhere(c), Ends(c), drops <= drops',
         AtCommit(c), inTx[c], db' = db \o pending[c],
         inTx'[c] = FALSE, pending'[c] = <<>>, link'[c] # "up" => drops' > 0
  PROVE  Wanted
<1>0. TypeOK /\ TypeOK' /\ OwnedOnce /\ IdInv /\ (\A d \in Conns : ConnInv(d)) /\ DbInv /\ WholeInv
  BY DEF Given, EffectInv
<1>1. /\ cur[c] \in 1 .. Len(ops) /\ cur[c] # 0 /\ cur'[c] = 0 /\ Onward(c) /\ Over(c)
      /\ \A n : In(n, finished') <=> IsFinished(n) \/ (n = cur[c] /\ Over(c))
  BY <1>0, EndFacts
<1>2. ops' = ops /\ db \in Seq(Stmt) /\ pending[c] \in Seq(Stmt)
  BY <1>0 DEF Ends, TypeOK
<1>3. PICK new \in Seq(Stmt) : new = pending[c]
  BY <1>2
<1>4. Adds(new)
  BY <1>2, <1>3, AddsForms
<1>5. PICK n \in 1 .. Len(ops) : n = cur[c]
  BY <1>1
<1>6. PICK q \in Seq(Stmt) : q = ops[n].stmts /\ q = CurOp(c).stmts
  BY <1>0, <1>5, OpType DEF CurOp
<1>7. Len(q) \in Nat /\ Len(new) = Len(q)
  BY <1>0, <1>3, <1>6 DEF ConnInv, ConnOK, AtCommit
<1>8. (\A k \in 1 .. Len(new) : new[k] = q[k]) /\ NoneIn(q, db)
  <2>1. ConnOK(cur[c], q, CurOp(c).tx, at[c], link[c], inTx[c], new, db, drops)
    BY <1>0, <1>3, <1>6 DEF ConnInv
  <2> QED BY <2>1 DEF ConnOK
<1>9. ConnInv(c)'
  BY <1>1, ConnIdle DEF ConnInv
<1>10. \A k \in 1 .. Len(new) : cur[c] # 0 /\ \E i \in 1 .. Len(CurOp(c).stmts) :
           /\ new[k] = CurOp(c).stmts[i]
           /\ \/ Over(c)
              \/ cur'[c] = cur[c] /\ Passed(i, new[k], at'[c], link'[c], drops')
  BY <1>1, <1>6, <1>7, <1>8
<1>11. \A k, l \in 1 .. Len(new) : k # l => new[k] # new[l]
  <2> SUFFICES ASSUME NEW k \in 1 .. Len(new), NEW l \in 1 .. Len(new), new[k] = new[l]
               PROVE  k = l
    OBVIOUS
  <2>1. /\ k \in 1 .. Len(ops[n].stmts) /\ l \in 1 .. Len(ops[n].stmts)
        /\ ops[n].stmts[k] = ops[n].stmts[l]
    BY <1>6, <1>7, <1>8
  <2> QED BY <1>0, <2>1, Unique DEF IdInv
<1>12. \A k \in 1 .. Len(new) : ~In(new[k], db)
  BY <1>7, <1>8 DEF NoneIn
<1>13. AllIn(CurOp(c).stmts, db')
  <2>1. \A s : In(s, new) => In(s, db')
    BY <1>0, <1>4, AddsMembers DEF TypeOK
  <2>2. \A k \in 1 .. Len(q) : In(q[k], new)
    BY <1>7, <1>8 DEF In
  <2> QED BY <1>6, <2>1, <2>2 DEF AllIn
<1> QED BY <1>0, <1>1, <1>2, <1>4, <1>9, <1>10, <1>11, <1>12, <1>13, EffectStep DEF Wanted

\* A step on a connection, or the loss of one, keeps the invariant.
LEMMA ConnStep ==
  ASSUME Given, NEW c \in Conns, ConnNext(c) \/ Drop(c)
  PROVE  Wanted
<1>0. TypeOK /\ TypeOK' /\ OwnedOnce /\ IdInv /\ (\A d \in Conns : ConnInv(d)) /\ DbInv /\ WholeInv
  BY DEF Given, EffectInv
<1>1. /\ drops \in Nat /\ at[c] \in Nat /\ Len(ops) \in Nat
      /\ inTx[c] \in BOOLEAN /\ pending[c] \in Seq(Stmt)
      /\ cur[c] \in 0 .. Len(ops)
  BY <1>0, ConfigAssumption DEF TypeOK, ConfigAssumption
<1>2. Elsewhere(c) /\ ops' = ops
  BY <1>0, OneConnection
<1>3. ConnOK(cur[c], CurOp(c).stmts, CurOp(c).tx, at[c], link[c],
             inTx[c], pending[c], db, drops)
  BY <1>0 DEF ConnInv
<1>4. /\ ~inTx[c] => pending[c] = <<>>
      /\ link[c] # "up" => drops > 0
      /\ inTx[c] => CurOp(c).tx /\ at[c] >= 1 /\ link[c] = "up"
      /\ cur[c] # 0 /\ ~CurOp(c).tx => at[c] = 1
      /\ cur[c] # 0 /\ CurOp(c).tx /\ Safe(CurOp(c).stmts, drops) /\ at[c] >= 1 /\ link[c] = "up"
           => inTx[c]
  BY <1>3 DEF ConnOK
<1>5. cur[c] # 0 => cur[c] \in 1 .. Len(ops) /\ CurOp(c).stmts \in Seq(Stmt)
                    /\ Len(CurOp(c).stmts) \in Nat /\ CurOp(c).tx \in BOOLEAN
  <2>1. cur[c] # 0 => cur[c] \in 1 .. Len(ops)
    BY <1>1
  <2> QED BY <1>0, <2>1, OpType DEF CurOp
<1>6. CASE SkipEmpty(c)
  <2>1. Ends(c) /\ AtBegin(c)
    BY <1>6 DEF SkipEmpty, Ends, Steps
  <2>2. /\ db' = db /\ drops' = drops /\ link' = link /\ inTx' = inTx /\ pending' = pending
    BY <1>6 DEF SkipEmpty, connVars
  <2>3. inTx[c] = FALSE
    BY <1>1, <1>4, <2>1 DEF AtBegin
  <2> QED BY <1>2, <1>4, <2>1, <2>2, <2>3, EndsQuietly
<1>7. CASE RejectStmt(c) \/ FailOnDeadLink(c) \/ ReconnectFails(c)
  <2>1. Ends(c) /\ FailOp(c)
    BY <1>7 DEF RejectStmt, FailOnDeadLink, ReconnectFails, Ends, Steps, FailOp
  <2>2. db' = db /\ drops' = drops /\ inTx'[c] = FALSE /\ pending'[c] = <<>>
    BY <1>0, <2>1 DEF FailOp, TypeOK
  <2>3. link'[c] # "up" => drops > 0
    <3>1. link' = link \/ (link[c] = "gone" /\ link' = [link EXCEPT ![c] = "null"])
      BY <1>7 DEF RejectStmt, FailOnDeadLink, ReconnectFails
    <3> QED BY <1>0, <1>4, <3>1 DEF TypeOK
  <2> QED BY <1>2, <2>1, <2>2, <2>3, EndsQuietly
<1>8. CASE BeginOnNull(c) \/ FatalStmt(c) \/ RollbackOnNull(c)
  <2>1. UNCHANGED <<cur, at, link, inTx, pending, db, drops, finished>>
    BY <1>8 DEF BeginOnNull, FatalStmt, RollbackOnNull, Crash, connVars
  <2>2. Onward(c)
    BY <1>1, <2>1 DEF Onward
  <2>3. ConnInv(c)'
    BY <1>2, <1>3, <2>1 DEF ConnInv, CurOp
  <2> QED BY <1>1, <1>2, <2>1, <2>2, <2>3, GoesOn
<1>9. CASE BeginOnServer(c)
  <2>1. /\ cur' = cur /\ link' = link /\ pending' = pending /\ db' = db
        /\ finished' = finished /\ drops' = drops /\ at[c] = 0 /\ cur[c] # 0
    BY <1>9 DEF BeginOnServer, Steps, Executing, AtBegin
  <2>2. at'[c] = 1 /\ inTx'[c] = (link[c] = "up") /\ CurOp(c).stmts # <<>>
    BY <1>0, <1>9 DEF BeginOnServer, TypeOK
  <2>3. Onward(c)
    BY <1>1, <2>1, <2>2 DEF Onward
  <2>4. NoneIn(CurOp(c).stmts, db)
    <3>1. ~IsFinished(cur[c]) /\ \A d \in Conns : cur[d] = cur[c] => d = c
      BY <1>0, <1>5, <2>1 DEF OwnedOnce
    <3> QED BY <1>0, <1>5, <2>1, <3>1, NotStarted DEF CurOp, IdInv
  <2>5. CurOp(c).tx /\ pending[c] = <<>> /\ Len(<<>>) = 0
    BY <1>1, <1>4, <2>1
  <2>6. /\ \A k \in 1 .. Len(pending[c]) : pending[c][k] = CurOp(c).stmts[k]
        /\ Len(pending[c]) = 1 - 1
    BY <2>5
  <2>7. 1 \in 0 .. Len(CurOp(c).stmts) + 1
    BY <1>5, <2>1
  <2>8. ConnOK(cur[c], CurOp(c).stmts, CurOp(c).tx, 1, link[c],
               link[c] = "up", pending[c], db, drops)
    BY <1>4, <2>1, <2>4, <2>5, <2>6, <2>7 DEF ConnOK
  <2>9. ConnInv(c)'
    BY <1>2, <2>1, <2>2, <2>8 DEF ConnInv, CurOp
  <2> QED BY <1>1, <1>2, <2>1, <2>3, <2>9, GoesOn
<1>10. CASE Reconnect(c)
  <2>1. /\ cur' = cur /\ at' = at /\ inTx' = inTx /\ pending' = pending /\ db' = db
        /\ finished' = finished /\ drops' = drops /\ cur[c] # 0
        /\ AtStmt(c) /\ link[c] = "gone" /\ CurStmt(c).kind = "plain"
    BY <1>10 DEF Reconnect, Steps, Executing
  <2>2. link'[c] = "up"
    BY <1>0, <1>10 DEF Reconnect, TypeOK
  <2>3. ~Once(CurStmt(c), drops) /\ ~Safe(CurOp(c).stmts, drops)
    BY <1>4, <2>1 DEF Once, Safe, CurStmt, AtStmt
  <2>4. Onward(c)
    BY <1>1, <2>1, <2>3 DEF Onward
  <2>5. ~inTx[c]
    BY <1>4, <2>1
  <2>6. ConnOK(cur[c], CurOp(c).stmts, CurOp(c).tx, at[c], "up",
               inTx[c], pending[c], db, drops)
    BY <1>3, <2>3, <2>5 DEF ConnOK
  <2>7. ConnInv(c)'
    BY <1>2, <2>1, <2>2, <2>6 DEF ConnInv, CurOp
  <2> QED BY <1>1, <1>2, <2>1, <2>4, <2>7, GoesOn
<1>11. CASE Drop(c)
  <2>1. /\ cur' = cur /\ at' = at /\ db' = db /\ finished' = finished /\ drops' = drops + 1
    BY <1>11 DEF Drop, Gone
  <2>2. link'[c] = "gone" /\ inTx'[c] = FALSE /\ pending'[c] = <<>>
    BY <1>0, <1>11 DEF Drop, Gone, TypeOK
  <2>3. Onward(c)
    BY <1>1, <2>1, <2>2 DEF Onward
  <2>4. drops + 1 \in Nat /\ drops <= drops + 1 /\ drops + 1 > 0
    BY <1>1
  <2>5. Safe(CurOp(c).stmts, drops + 1) => Safe(CurOp(c).stmts, drops)
    BY <1>1, <2>4, FewerPromises
  <2>6. ConnOK(cur[c], CurOp(c).stmts, CurOp(c).tx, at[c], "gone",
               FALSE, <<>>, db, drops + 1)
    BY <1>3, <2>4, <2>5 DEF ConnOK
  <2>7. ConnInv(c)'
    BY <1>2, <2>1, <2>2, <2>6 DEF ConnInv, CurOp
  <2> QED BY <1>2, <2>1, <2>3, <2>4, <2>7, GoesOn
<1>12. CASE LostReply(c)
  <2>1. /\ cur' = cur /\ at' = at /\ finished' = finished /\ drops' = drops + 1
        /\ Executing(c) /\ AtStmt(c) /\ link[c] = "up" /\ ~inTx[c] /\ cur[c] # 0
        /\ db' = Append(db, CurStmt(c))
    BY <1>12 DEF LostReply, Gone, Steps, Executing
  <2>2. link'[c] = "gone" /\ inTx'[c] = FALSE /\ pending'[c] = <<>>
    BY <1>0, <1>12 DEF LostReply, Gone, TypeOK
  <2>3. Onward(c)
    BY <1>1, <2>1, <2>2 DEF Onward
  <2>4. drops + 1 \in Nat /\ drops <= drops + 1 /\ drops + 1 > 0
    BY <1>1
  <2>5. Safe(CurOp(c).stmts, drops + 1) => Safe(CurOp(c).stmts, drops)
    BY <1>1, <2>4, FewerPromises
  <2>6. CurOp(c).tx => ~Safe(CurOp(c).stmts, drops + 1)
    BY <1>1, <1>4, <1>5, <2>1, <2>5 DEF AtStmt
  <2>7. ConnOK(cur[c], CurOp(c).stmts, CurOp(c).tx, at[c], "gone",
               FALSE, <<>>, db', drops + 1)
    BY <1>3, <2>4, <2>6 DEF ConnOK
  <2>8. ConnInv(c)'
    BY <1>2, <2>1, <2>2, <2>7 DEF ConnInv, CurOp
  <2>9. ~Over(c)
    BY <1>0, <1>5, <2>1 DEF Over, In, IsFinished, OwnedOnce
  <2>10. \A n : In(n, finished') <=> IsFinished(n)
    BY <2>1 DEF In, IsFinished
  <2> QED BY <1>1, <1>2, <2>1, <2>2, <2>3, <2>4, <2>8, <2>9, <2>10, TakesEffect
<1>13. CASE Commit(c)
  <2>1. Ends(c) /\ AtCommit(c)
    BY <1>13 DEF Commit, Ends, Steps
  <2>2. /\ db' = db \o pending[c] /\ drops' = drops /\ link' = link
        /\ inTx'[c] = FALSE /\ pending'[c] = <<>>
    BY <1>0, <1>13 DEF Commit, TypeOK
  <2>3. CASE inTx[c]
    <3>1. drops <= drops' /\ (link'[c] # "up" => drops' > 0)
      BY <1>1, <1>4, <2>2
    <3>2. db' = db \o pending[c] /\ inTx'[c] = FALSE /\ pending'[c] = <<>>
      BY <2>2
    <3> QED BY <1>2, <2>1, <2>3, <3>1, <3>2, Commits
  <2>4. CASE ~inTx[c]
    <3>1. db' = db
      BY <1>0, <1>4, <2>2, <2>4, ConcatEmptySeq DEF TypeOK
    <3> QED BY <1>2, <1>4, <2>1, <2>2, <3>1, EndsQuietly
  <2> QED BY <2>3, <2>4
<1>14. CASE LostCommitReply(c)
  <2>1. Ends(c) /\ AtCommit(c) /\ inTx[c]
    BY <1>14 DEF LostCommitReply, Ends, Steps
  <2>2. db' = db \o pending[c] /\ inTx'[c] = FALSE /\ pending'[c] = <<>>
    BY <1>0, <1>14 DEF LostCommitReply, Gone, TypeOK
  <2>3. drops <= drops' /\ drops' > 0
    BY <1>1, <1>14 DEF LostCommitReply, Gone
  <2> QED BY <1>2, <2>1, <2>2, <2>3, Commits
<1>15. CASE ExecuteStmt(c)
  <2>1. /\ Executing(c) /\ AtStmt(c) /\ link[c] = "up" /\ Apply(c) /\ link' = link
        /\ inTx' = inTx /\ drops' = drops /\ cur[c] # 0 /\ drops <= drops'
    BY <1>1, <1>15 DEF ExecuteStmt, Steps, Executing
  <2>2. CASE ~CurOp(c).tx
    <3>1. Ends(c) /\ inTx[c] = FALSE
      BY <1>1, <1>4, <1>15, <2>2 DEF ExecuteStmt, Ends, Steps
    <3>2. db' = Append(db, CurStmt(c)) /\ pending' = pending
      BY <2>1, <3>1 DEF Apply
    <3>3. /\ cur'[c] = 0 /\ Onward(c) /\ Over(c)
          /\ \A n : In(n, finished') <=> IsFinished(n) \/ (n = cur[c] /\ Over(c))
      BY <1>0, <3>1, EndFacts
    <3>4. ConnInv(c)'
      BY <1>4, <2>1, <3>1, <3>2, <3>3, ConnIdle DEF ConnInv
    <3> QED BY <1>2, <2>1, <2>2, <3>2, <3>3, <3>4, TakesEffect
  <2>3. CASE CurOp(c).tx
    <3>1. cur' = cur /\ finished' = finished /\ at'[c] = at[c] + 1
      BY <1>0, <1>15, <2>3 DEF ExecuteStmt, TypeOK
    <3>2. Onward(c)
      BY <1>1, <3>1 DEF Onward
    <3>3. at[c] + 1 \in 0 .. Len(CurOp(c).stmts) + 1 /\ at[c] >= 1 /\ at[c] + 1 >= 1
      BY <1>1, <1>5, <2>1 DEF AtStmt
    <3>4. CASE inTx[c]
      <4>1. db' = db /\ pending'[c] = Append(pending[c], CurStmt(c))
        BY <1>0, <2>1, <3>4 DEF Apply, TypeOK
      <4>2. CurStmt(c) \in Stmt
        BY <1>0, <2>1, CurStmtType
      <4>3. PICK p \in Seq(Stmt) : p = pending[c]
        BY <1>1
      <4>4. PICK s \in Stmt : s = CurOp(c).stmts[at[c]] /\ s = CurStmt(c)
        BY <4>2 DEF CurStmt
      <4>5. /\ Len(p) = at[c] - 1 /\ (\A k \in 1 .. Len(p) : p[k] = CurOp(c).stmts[k])
            /\ NoneIn(CurOp(c).stmts, db) /\ Len(p) \in Nat
        BY <1>3, <3>4, <4>3 DEF ConnOK
      <4>6. PICK r : r = Append(p, s)
        OBVIOUS
      <4>7. /\ Len(r) = Len(p) + 1 /\ r[Len(p) + 1] = s
            /\ \A k \in 1 .. Len(p) : r[k] = p[k]
        BY <4>6
      <4>8. /\ Len(r) = (at[c] + 1) - 1
            /\ \A k \in 1 .. Len(r) : r[k] = CurOp(c).stmts[k]
        <5>1. Len(p) + 1 = at[c] /\ Len(r) = (at[c] + 1) - 1
          BY <1>1, <4>5, <4>7
        <5>2. \A k \in 1 .. Len(r) : k \in 1 .. Len(p) \/ k = Len(p) + 1
          BY <4>5, <4>7
        <5> QED BY <4>4, <4>5, <4>7, <5>1, <5>2
      <4>9. ConnOK(cur[c], CurOp(c).stmts, CurOp(c).tx, at[c] + 1, link[c],
                   inTx[c], r, db, drops)
        BY <2>1, <2>3, <3>3, <3>4, <4>5, <4>8 DEF ConnOK
      <4>10. ConnInv(c)'
        BY <1>2, <2>1, <3>1, <4>1, <4>3, <4>4, <4>6, <4>9 DEF ConnInv, CurOp
      <4> QED BY <1>2, <2>1, <3>1, <3>2, <4>1, <4>10, GoesOn
    <3>5. CASE ~inTx[c]
      <4>1. db' = Append(db, CurStmt(c)) /\ pending' = pending
        BY <2>1, <3>5 DEF Apply
      <4>2. ~Safe(CurOp(c).stmts, drops)
        BY <1>4, <2>1, <2>3, <3>3, <3>5
      <4>3. ConnOK(cur[c], CurOp(c).stmts, CurOp(c).tx, at[c] + 1, link[c],
                   inTx[c], pending[c], db', drops)
        BY <1>4, <2>1, <2>3, <3>3, <3>5, <4>2 DEF ConnOK
      <4>4. ConnInv(c)'
        BY <1>2, <2>1, <3>1, <4>1, <4>3 DEF ConnInv, CurOp
      <4>5. ~Over(c)
        BY <1>0, <1>5, <2>1, <3>1 DEF Over, In, IsFinished, OwnedOnce
      <4>6. \A n : In(n, finished') <=> IsFinished(n)
        BY <3>1 DEF In, IsFinished
      <4>7. at[c] < at'[c]
        BY <1>1, <3>1
      <4> QED BY <1>2, <2>1, <3>1, <3>2, <4>1, <4>4, <4>5, <4>6, <4>7, TakesEffect
    <3> QED BY <3>4, <3>5
  <2> QED BY <2>2, <2>3
<1> QED BY <1>6, <1>7, <1>8, <1>9, <1>10, <1>11, <1>12, <1>13, <1>14, <1>15 DEF ConnNext

-----------------------------------------------------------------------------
(* The other steps. *)

\* Nothing changes in the database.
LEMMA NoEffect ==
  ASSUME Given, Grown, UNCHANGED <<db, finished, drops>>,
         \A d \in Conns : ConnInv(d)', \A d \in Conns : Onward(d)
  PROVE  Wanted
<1>0. TypeOK /\ TypeOK' /\ OwnedOnce /\ IdInv /\ (\A d \in Conns : ConnInv(d)) /\ DbInv /\ WholeInv
  BY DEF Given, EffectInv
<1>1. drops \in Nat /\ drops <= drops' /\ Len(ops) \in Nat /\ finished \in Seq(1 .. Len(ops))
  BY <1>0, ConfigAssumption DEF TypeOK, ConfigAssumption
<1>2. Adds(<<>>) /\ <<>> \in Seq(Stmt) /\ Len(<<>>) = 0
  BY <1>0, AddsForms DEF TypeOK
<1>3. \A k : k \notin 1 .. Len(<<>>)
  BY <1>2
<1>4. \A n : IsFinished(n) => In(n, finished')
  BY DEF IsFinished, In
<1>5. \A n \in 1 .. Len(ops) : \A i \in 1 .. Len(ops[n].stmts) : Reached(n, i) => Reached(n, i)'
  BY <1>0, <1>1, <1>4, ReachedStays
<1>6. DbInv'
  BY <1>0, <1>1, <1>2, <1>3, <1>5, DbStep
<1>7. WholeInv'
  <2> SUFFICES ASSUME NEW n \in 1 .. Len(ops'), IsFinished(n), ops'[n].tx, Safe(ops'[n].stmts, drops)
               PROVE  AllIn(ops'[n].stmts, db) \/ NoneIn(ops'[n].stmts, db)
    <3>1. \A n : IsFinished(n)' <=> IsFinished(n)
      BY DEF IsFinished
    <3> QED BY <3>1 DEF WholeInv
  <2>1. n \in 1 .. Len(ops)
    BY <1>1 DEF IsFinished
  <2>2. ops'[n] = ops[n]
    BY <2>1 DEF Grown
  <2> QED BY <1>0, <2>1, <2>2 DEF WholeInv
<1> QED BY <1>6, <1>7 DEF Wanted

\* A connection that nothing happens to.
LEMMA Untouched ==
  ASSUME TypeOK, Grown, UNCHANGED <<db, drops>>, NEW d \in Conns, ConnInv(d),
         cur'[d] = cur[d], at'[d] = at[d], inTx'[d] = inTx[d], pending'[d] = pending[d],
         link'[d] = link[d] \/ (cur[d] = 0 /\ (link'[d] # "up" => link[d] # "up"))
  PROVE  ConnInv(d)' /\ Onward(d)
<1>1. ConnOK(cur[d], CurOp(d).stmts, CurOp(d).tx, at[d], link[d], inTx[d], pending[d], db, drops)
  BY DEF ConnInv
<1>2. cur[d] \in 0 .. Len(ops) /\ Len(ops) \in Nat /\ at[d] \in Nat
  BY DEF TypeOK
<1>3. CASE cur[d] = 0
  <2>1. ASSUME NEW q, NEW tx
        PROVE  ConnOK(0, q, tx, at[d], link'[d], inTx[d], pending[d], db, drops)
    BY <1>1, <1>3 DEF ConnOK
  <2> QED BY <1>3, <2>1 DEF ConnInv, Onward
<1>4. CASE cur[d] # 0
  <2>1. ops'[cur[d]] = ops[cur[d]]
    BY <1>2, <1>4 DEF Grown
  <2> QED BY <1>1, <1>2, <1>4, <2>1 DEF ConnInv, CurOp, Onward
<1> QED BY <1>3, <1>4

\* A connection takes an operation nothing of which is durable yet.
LEMMA TakesOp ==
  ASSUME TypeOK, NEW d \in Conns, ConnInv(d), cur[d] = 0,
         UNCHANGED <<link, inTx, pending, db, drops>>,
         NEW n \in 1 .. Len(ops'), cur'[d] = n, Len(ops'[n].stmts) \in Nat,
         at'[d] = IF ops'[n].tx THEN 0 ELSE 1,
         ~ops'[n].tx => Len(ops'[n].stmts) = 1, NoneIn(ops'[n].stmts, db)
  PROVE  ConnInv(d)' /\ Onward(d)
<1>1. ConnOK(0, CurOp(d).stmts, CurOp(d).tx, at[d], link[d], inTx[d], pending[d], db, drops)
  BY DEF ConnInv
<1>2. ~inTx[d] /\ pending[d] = <<>> /\ (link[d] # "up" => drops > 0)
  BY <1>1 DEF ConnOK
<1>3. at'[d] \in 0 .. Len(ops'[n].stmts) + 1 /\ (~ops'[n].tx => at'[d] = 1)
      /\ (ops'[n].tx => ~(at'[d] >= 1))
  OBVIOUS
<1>4. ConnOK(n, ops'[n].stmts, ops'[n].tx, at'[d], link[d], inTx[d], pending[d], db, drops)
  BY <1>2, <1>3 DEF ConnOK
<1> QED BY <1>4 DEF ConnInv, CurOp, Onward

\* Operations are only added.
LEMMA OpsGrow ==
  ASSUME TypeOK, [Next]_vars
  PROVE  Grown
<1>0. Len(ops) \in Nat /\ ops \in Seq(Op)
  BY DEF TypeOK
<1>1. CASE ops' = ops
  BY <1>0, <1>1 DEF Grown
<1>2. ASSUME NEW op \in Op, ops' = Append(ops, op) PROVE Grown
  BY <1>0, <1>2, GrowOps DEF Grown
<1> QED BY <1>1, <1>2, FourKinds DEF Same, Creates, AddToDelayQueue, DirectOn, Ends, Pops

\* Steps of the clients, workers and the main thread that leave every
\* operation where it is, but may queue a new one or repair idle links.
Bystander ==
  /\ UNCHANGED <<cur, at, inTx, pending, db, finished, drops>>
  /\ \A d \in Conns :
       link'[d] = link[d] \/ (cur[d] = 0 /\ (link'[d] # "up" => link[d] # "up"))

LEMMA BystanderKeeps ==
  ASSUME Given, Grown, Bystander
  PROVE  Wanted
<1>1. TypeOK /\ \A d \in Conns : ConnInv(d)
  BY DEF Given, EffectInv
<1>2. ASSUME NEW d \in Conns PROVE ConnInv(d)' /\ Onward(d)
  BY <1>1, Untouched DEF Bystander
<1> QED BY <1>2, NoEffect DEF Bystander

\* A Direct* call takes m_pAsyncConn with a new operation.
LEMMA DirectKeeps ==
  ASSUME Given, IdInv', Grown, NEW op \in Op, DirectOn(op), UNCHANGED <<connVars, finished>>
  PROVE  Wanted
<1>0. TypeOK /\ TypeOK' /\ OwnedOnce /\ IdInv /\ (\A d \in Conns : ConnInv(d)) /\ DbInv /\ WholeInv
  BY DEF Given, EffectInv
<1>1. UNCHANGED <<link, inTx, pending, db, drops, finished>>
  BY DEF connVars
<1>2. PICK m : m = Len(ops')
  OBVIOUS
<1>3. /\ Len(ops) \in Nat /\ m = Len(ops) + 1 /\ ops'[m] = op /\ m \in 1 .. Len(ops')
      /\ \A n \in 1 .. Len(ops) : ops'[n] = ops[n] /\ n \in 1 .. Len(ops') /\ n # m
  <2>1. ops' = Append(ops, op) /\ ops \in Seq(Op)
    BY <1>0 DEF DirectOn, TypeOK
  <2>2. /\ Len(ops') = Len(ops) + 1 /\ Len(ops) \in Nat
        /\ \A n \in 1 .. Len(ops) : ops'[n] = ops[n]
        /\ ops'[Len(ops')] = op
    BY <2>1, GrowOps
  <2> QED BY <1>2, <2>2
<1>4. NoneIn(op.stmts, db)
  <2> SUFFICES ASSUME NEW i \in 1 .. Len(op.stmts), In(op.stmts[i], db) PROVE FALSE
    BY DEF NoneIn
  <2>1. PICK k \in 1 .. Len(db) : db[k] = op.stmts[i]
    BY DEF In
  <2>2. PICK n \in 1 .. Len(ops) : \E j \in 1 .. Len(ops[n].stmts) : db[k] = ops[n].stmts[j]
    BY <1>0 DEF DbInv
  <2>3. db[k].id \in Ids(ops[n].stmts) /\ db[k].id \in Ids(op.stmts)
    BY <2>1, <2>2 DEF Ids
  <2>4. Apart(ops'[n].stmts, ops'[m].stmts)
    BY <1>3 DEF IdInv, OpIds
  <2> QED BY <1>3, <2>3, <2>4 DEF Apart
<1>5. ~op.tx => Len(op.stmts) = 1
  BY <1>3 DEF IdInv, OpIds
<1>6. AsyncConn \in Conns /\ cur[AsyncConn] = 0
  BY DEF Conns, DirectOn
<1>7. /\ cur'[AsyncConn] = m /\ at'[AsyncConn] = IF op.tx THEN 0 ELSE 1
      /\ \A d \in Conns : d # AsyncConn => cur'[d] = cur[d] /\ at'[d] = at[d]
  BY <1>0, <1>2, <1>6 DEF DirectOn, TypeOK
<1>8. Len(op.stmts) \in Nat
  BY DEF Op
<1>9. ConnInv(AsyncConn)' /\ Onward(AsyncConn)
  BY <1>0, <1>1, <1>3, <1>4, <1>5, <1>6, <1>7, <1>8, TakesOp
<1>10. ASSUME NEW d \in Conns, d # AsyncConn PROVE ConnInv(d)' /\ Onward(d)
  BY <1>0, <1>1, <1>7, <1>10, Untouched
<1> QED BY <1>1, <1>9, <1>10, NoEffect

\* A worker takes an operation from the queue.
LEMMA PopKeeps ==
  ASSUME Given, Grown, NEW w \in Workers, NextDelayedOperation(w)
  PROVE  Wanted
<1>0. TypeOK /\ TypeOK' /\ OwnedOnce /\ IdInv /\ (\A d \in Conns : ConnInv(d)) /\ DbInv /\ WholeInv
  BY DEF Given, EffectInv
<1>1. /\ UNCHANGED <<ops, link, inTx, pending, db, drops, finished>>
      /\ cur[w] = 0 /\ delayQueue # <<>>
  BY DEF NextDelayedOperation, WorkerSteps
<1>2. w \in Conns
  BY DEF Conns
<1>3. PICK h : h = Head(delayQueue)
  OBVIOUS
<1>4. h \in 1 .. Len(ops) /\ InQueue(h)
  <2>1. delayQueue \in Seq(1 .. Len(ops))
    BY <1>0 DEF TypeOK
  <2>2. Len(delayQueue) \in Nat /\ 1 \in 1 .. Len(delayQueue) /\ h = delayQueue[1]
    BY <1>1, <1>3, <2>1
  <2>3. delayQueue[1] \in 1 .. Len(ops)
    BY <2>1, <2>2
  <2> QED BY <2>2, <2>3 DEF InQueue
<1>5. /\ cur'[w] = h /\ at'[w] = IF ops[h].tx THEN 0 ELSE 1
      /\ \A d \in Conns : d # w => cur'[d] = cur[d] /\ at'[d] = at[d]
  BY <1>0, <1>2, <1>3 DEF NextDelayedOperation, TypeOK
<1>6. ~IsFinished(h) /\ \A d \in Conns : cur[d] # h
  BY <1>0, <1>4 DEF OwnedOnce
<1>7. NoneIn(ops[h].stmts, db)
  BY <1>0, <1>4, <1>6, NotStarted DEF IdInv
<1>8. Len(ops[h].stmts) \in Nat /\ (~ops[h].tx => Len(ops[h].stmts) = 1)
  BY <1>0, <1>4, OpType DEF IdInv, OpIds
<1>9. ConnInv(w)' /\ Onward(w)
  BY <1>0, <1>1, <1>2, <1>4, <1>5, <1>7, <1>8, TakesOp
<1>10. ASSUME NEW d \in Conns, d # w PROVE ConnInv(d)' /\ Onward(d)
  BY <1>0, <1>1, <1>5, <1>10, Untouched
<1> QED BY <1>1, <1>9, <1>10, NoEffect

\* Every step keeps what is durable in order.
LEMMA EffectKept ==
  ASSUME Given, IdInv', [Next]_vars
  PROVE  Wanted
<1>0. TypeOK
  BY DEF Given
<1>1. Grown
  BY <1>0, OpsGrow
<1>2. UNCHANGED <<cur, at, connVars, finished>> => Wanted
  BY <1>1, BystanderKeeps DEF Bystander, connVars
<1>3. ASSUME NEW t \in Threads, ClientNext(t) PROVE Wanted
  <2>0. trans[t].stmts \in Seq(Stmt)
    BY <1>0 DEF TypeOK
  <2>1. CASE BeginTransaction(t) \/ RollbackTransaction(t)
             \/ (\E k \in Kinds : ExecuteInTransaction(t, k) \/ ExecuteAsync(t, k))
             \/ CommitTransaction(t)
    BY <1>2, <2>1 DEF BeginTransaction, RollbackTransaction, ExecuteInTransaction,
       ExecuteAsync, CommitTransaction, AddToDelayQueue
  <2>2. ASSUME NEW k \in Kinds, DirectExecute(t, k) PROVE Wanted
    <3> DEFINE o == [by |-> t, stmts |-> <<NewStmt(t, k)>>, tx |-> FALSE,
                     direct |-> TRUE, late |-> FALSE]
    <3>1. o \in Op
      BY <1>0, <2>2, NewStmtType, ConfigAssumption DEF TypeOK, DirectExecute, Op
    <3>2. DirectOn(o) /\ UNCHANGED <<connVars, finished>>
      BY <2>2 DEF DirectExecute
    <3> HIDE DEF o
    <3> QED BY <1>1, <3>1, <3>2, DirectKeeps
  <2>3. CASE CommitTransactionDirect(t)
    <3> DEFINE o == [by |-> t, stmts |-> trans[t].stmts, tx |-> TRUE,
                     direct |-> TRUE, late |-> FALSE]
    <3>1. o \in Op
      BY <2>0 DEF Op
    <3>2. DirectOn(o) /\ UNCHANGED <<connVars, finished>>
      BY <2>3 DEF CommitTransactionDirect
    <3> HIDE DEF o
    <3> QED BY <1>1, <3>1, <3>2, DirectKeeps
  <2> QED BY <1>3, <2>1, <2>2, <2>3 DEF ClientNext
<1>4. ASSUME NEW c \in Conns, ConnNext(c) \/ Drop(c) PROVE Wanted
  BY <1>4, ConnStep
<1>5. ASSUME NEW w \in Workers, WorkerNext(w) PROVE Wanted
  <2>1. CASE CheckRunning(w) \/ QueueEmpty(w)
    BY <1>2, <2>1 DEF CheckRunning, QueueEmpty, WorkerSteps, connVars
  <2>2. CASE NextDelayedOperation(w)
    BY <1>1, <2>2, PopKeeps
  <2>3. CASE Ping(w)
    <3>1. UNCHANGED <<cur, at, inTx, pending, db, finished, drops>>
      BY <2>3 DEF Ping, WorkerSteps
    <3>2. cur[w] = 0 /\ cur[AsyncConn] = 0
      BY <2>3 DEF Ping, WorkerSteps
    <3>3. ASSUME NEW d \in Conns
          PROVE  link'[d] = link[d] \/ (cur[d] = 0 /\ (link'[d] # "up" => link[d] # "up"))
      <4>1. link'[d] = link[d] \/ (d \in {w, AsyncConn} /\ link[d] = "gone")
        BY <2>3 DEF Ping
      <4> QED BY <3>2, <4>1
    <3> QED BY <1>1, <3>1, <3>3, BystanderKeeps DEF Bystander
  <2> QED BY <1>5, <2>1, <2>2, <2>3 DEF WorkerNext
<1>6. CASE MainNext
  BY <1>2, <1>6 DEF MainNext, AllowAsyncTransactions, StopServer, CloseConnections,
     JoinWorker, DeleteWorker, CancelledCallbackWrites, AddToDelayQueue
<1>7. CASE UNCHANGED vars
  BY <1>2, <1>7 DEF vars, connVars
<1> QED BY <1>3, <1>4, <1>5, <1>6, <1>7 DEF Next

\* The inductive invariant of what becomes durable.
THEOREM Effects == Spec => [](IInv /\ EffectInv)
<1>1. Init => EffectInv
  <2> SUFFICES ASSUME Init PROVE EffectInv
    OBVIOUS
  <2>0. Len(ops) = 0 /\ Len(db) = 0 /\ issued = 0
        /\ \A t \in Threads : trans[t].stmts = <<>>
    BY DEF Init, NoTrans
  <2>1. OpenIds
    <3>1. \A t \in Threads : Issued(t, <<>>, issued)
      BY EmptyIds DEF Issued
    <3>2. Apart(<<>>, <<>>)
      BY EmptyIds DEF Apart
    <3> QED BY <2>0, <3>1, <3>2 DEF OpenIds
  <2>2. OpIds /\ MixedIds /\ Closed
    BY <2>0 DEF OpIds, MixedIds, Closed
  <2>3. DbInv /\ WholeInv
    BY <2>0 DEF DbInv, WholeInv
  <2>4. ASSUME NEW c \in Conns PROVE ConnInv(c)
    <3>1. cur[c] = 0 /\ link[c] = "up" /\ inTx[c] = FALSE /\ pending[c] = <<>>
      BY DEF Init
    <3> QED BY <3>1, ConnIdle DEF ConnInv
  <2> QED BY <2>1, <2>2, <2>3, <2>4 DEF EffectInv, IdInv
<1>2. IInv /\ EffectInv /\ [Next]_vars => IInv' /\ EffectInv'
  <2> SUFFICES ASSUME IInv, EffectInv, [Next]_vars PROVE IInv' /\ EffectInv'
    OBVIOUS
  <2>1. IInv'
    BY TypeStep, OwnedStep, HaltStep DEF IInv
  <2>2. TypeOK /\ TypeOK' /\ OwnedOnce
    BY <2>1 DEF IInv
  <2>3. IdInv'
    BY <2>2, IdStepKeeps DEF EffectInv
  <2>4. Given
    BY <2>2 DEF Given
  <2>5. Wanted
    BY <2>3, <2>4, EffectKept
  <2> QED BY <2>1, <2>3, <2>5 DEF EffectInv, Wanted
<1>3. Init => IInv
  <2> SUFFICES ASSUME Init PROVE IInv
    OBVIOUS
  <2>1. TypeOK
    BY ConfigAssumption DEF Init, TypeOK, NoTrans
  <2>2. OwnedOnce /\ Accounted
    BY DEF Init, OwnedOnce, Accounted
  <2>3. HaltOrder
    BY DEF Init, HaltOrder, Conns
  <2> QED BY <2>1, <2>2, <2>3 DEF IInv
<1> QED BY <1>1, <1>2, <1>3, PTL DEF Spec

\* A statement takes effect at most once and a transaction as a whole, for
\* any number of threads, workers and lost connections, as long as no
\* connection was lost or for prepared statements: a transaction that is on
\* its way has no effect before COMMIT, and what is durable is behind the
\* connection that executes it (SqlTransaction::Execute, HandleMySQLError).
THEOREM EffectOnceAndWhole == Spec => []OnceAndWhole
<1>1. IInv /\ EffectInv => OnceAndWhole
  <2> SUFFICES ASSUME IInv, EffectInv PROVE OnceAndWhole
    OBVIOUS
  <2>0. /\ TypeOK /\ OwnedOnce /\ OpIds /\ DbInv /\ WholeInv
        /\ \A c \in Conns : ConnInv(c)
    BY DEF IInv, EffectInv, IdInv
  <2>1. \A k, l \in 1 .. Len(db) :
          k # l /\ (drops = 0 \/ db[k].kind = "prepared") => db[k] # db[l]
    BY <2>0 DEF DbInv, Once
  <2>2. ASSUME NEW n \in 1 .. Len(ops), ops[n].tx, Safe(ops[n].stmts, drops)
        PROVE  AllIn(ops[n].stmts, db) \/ NoneIn(ops[n].stmts, db)
    <3>1. CASE IsFinished(n)
      BY <2>0, <2>2, <3>1 DEF WholeInv
    <3>2. CASE ~IsFinished(n) /\ \A c \in Conns : cur[c] # n
      BY <2>0, <3>2, NotStarted
    <3>3. ASSUME NEW c \in Conns, cur[c] = n PROVE NoneIn(ops[n].stmts, db)
      <4>1. n # 0
        OBVIOUS
      <4> QED BY <2>0, <2>2, <3>3, <4>1 DEF ConnInv, ConnOK, CurOp
    <3> QED BY <3>1, <3>2, <3>3
  <2>3. ASSUME NEW n \in 1 .. Len(ops), NEW S,
               S = {ops[n].stmts[i] : i \in 1 .. Len(ops[n].stmts)},
               ops[n].tx, drops = 0 \/ \A s \in S : s.kind = "prepared"
        PROVE  (\A s \in S : Durable(s)) \/ (\A s \in S : ~Durable(s))
    <3>1. Safe(ops[n].stmts, drops)
      BY <2>3 DEF Safe
    <3>2. \A s : Durable(s) <=> In(s, db)
      BY DEF Durable, In
    <3>3. CASE AllIn(ops[n].stmts, db)
      BY <2>3, <3>2, <3>3 DEF AllIn
    <3>4. CASE NoneIn(ops[n].stmts, db)
      BY <2>3, <3>2, <3>4 DEF NoneIn
    <3> QED BY <2>2, <2>3, <3>1, <3>3, <3>4
  <2> QED BY <2>1, <2>3 DEF OnceAndWhole
<1> QED BY <1>1, Effects, PTL

-----------------------------------------------------------------------------
(* The refinement, as long as no connection is lost. *)

\* An operation makes a statement durable, a transaction all of them, or
\* none, and in the same step it is over.
Settles(c) ==
  /\ Ends(c)
  /\ \/ db' = db
     \/ ~CurOp(c).tx /\ AtStmt(c) /\ db' = Append(db, CurStmt(c))
     \/ AtCommit(c) /\ inTx[c] /\ db' = db \o pending[c]

\* Without losses the database changes only when an operation is over.
LEMMA SettleOrNot ==
  ASSUME MaxDrops = 0, TypeOK, OwnedOnce, EffectInv, [Next]_vars
  PROVE  \/ db' = db /\ ((\E op \in Op : Creates(op)) \/ UNCHANGED <<ops, finished>>)
         \/ \E c \in Conns : Settles(c)
<1> DEFINE Goal == \/ db' = db /\ ((\E op \in Op : Creates(op)) \/ UNCHANGED <<ops, finished>>)
                   \/ \E c \in Conns : Settles(c)
<1>0. drops = 0
  BY DEF TypeOK
<1>1. ASSUME NEW c \in Conns, ConnNext(c) \/ Drop(c) PROVE Goal
  <2>0. ~Gone(c)
    BY <1>0 DEF Gone
  <2>1. CASE SkipEmpty(c) \/ RejectStmt(c) \/ FailOnDeadLink(c) \/ ReconnectFails(c)
    <3>1. Ends(c) /\ db' = db
      BY <2>1 DEF Ends, SkipEmpty, RejectStmt, FailOnDeadLink, ReconnectFails, FailOp, Steps, connVars
    <3> QED BY <3>1 DEF Settles
  <2>2. CASE BeginOnServer(c) \/ BeginOnNull(c) \/ FatalStmt(c) \/ Reconnect(c)
             \/ RollbackOnNull(c)
    BY <2>2 DEF BeginOnServer, BeginOnNull, FatalStmt, Reconnect, RollbackOnNull,
       Crash, Steps, connVars
  <2>3. CASE ExecuteStmt(c)
    <3>1. /\ cur[c] # 0 /\ AtStmt(c) /\ link[c] = "up" /\ Apply(c) /\ ops' = ops
          /\ IF CurOp(c).tx THEN finished' = finished ELSE Ends(c)
      BY <2>3 DEF ExecuteStmt, Steps, Executing, Ends
    <3>2. ConnOK(cur[c], CurOp(c).stmts, CurOp(c).tx, at[c], link[c], inTx[c], pending[c], db, drops)
      BY DEF EffectInv, ConnInv
    <3>3. CASE CurOp(c).tx
      <4>1. inTx[c]
        <5>1. at[c] >= 1 /\ Safe(CurOp(c).stmts, drops)
          BY <1>0, <3>1 DEF AtStmt, Safe
        <5> QED BY <3>1, <3>2, <3>3, <5>1 DEF ConnOK
      <4> QED BY <3>1, <3>3, <4>1 DEF Apply
    <3>4. CASE ~CurOp(c).tx
      <4>1. ~inTx[c]
        BY <3>2, <3>4 DEF ConnOK
      <4> QED BY <3>1, <3>4, <4>1 DEF Apply, Settles
    <3> QED BY <3>3, <3>4
  <2>4. CASE Commit(c)
    <3>1. Ends(c) /\ AtCommit(c) /\ db' = db \o pending[c]
      BY <2>4 DEF Commit, Ends, Steps
    <3>2. CASE inTx[c]
      BY <3>1, <3>2 DEF Settles
    <3>3. CASE ~inTx[c]
      <4>1. pending[c] = <<>>
        BY <3>3 DEF EffectInv, ConnInv, ConnOK
      <4>2. db' = db
        BY <3>1, <4>1, ConcatEmptySeq DEF TypeOK
      <4> QED BY <3>1, <4>2 DEF Settles
    <3> QED BY <3>2, <3>3
  <2>5. ~LostReply(c) /\ ~LostCommitReply(c) /\ ~Drop(c)
    BY <2>0 DEF LostReply, LostCommitReply, Drop
  <2> QED BY <1>1, <2>1, <2>2, <2>3, <2>4, <2>5 DEF ConnNext
<1>2. ASSUME ~\E c \in Conns : ConnNext(c) \/ Drop(c) PROVE Goal
  <2>1. /\ db' = db /\ finished' = finished
        /\ (\E op : AddToDelayQueue(op) \/ DirectOn(op)) \/ ops' = ops
    <3>1. ASSUME NEW t \in Threads, ClientNext(t)
          PROVE  /\ db' = db /\ finished' = finished
                 /\ (\E op : AddToDelayQueue(op) \/ DirectOn(op)) \/ ops' = ops
      BY <3>1 DEF ClientNext, BeginTransaction, CommitTransaction, CommitTransactionDirect,
         RollbackTransaction, ExecuteInTransaction, ExecuteAsync, DirectExecute, connVars
    <3>2. ASSUME NEW w \in Workers, WorkerNext(w) PROVE UNCHANGED <<db, finished, ops>>
      BY <3>2 DEF WorkerNext, CheckRunning, QueueEmpty, Ping, NextDelayedOperation, WorkerSteps
    <3>3. CASE MainNext
      BY <3>3 DEF MainNext, AllowAsyncTransactions, StopServer, CloseConnections,
         JoinWorker, DeleteWorker, CancelledCallbackWrites, connVars
    <3>4. CASE UNCHANGED vars
      BY <3>4 DEF vars
    <3> QED BY <1>2, <3>1, <3>2, <3>3, <3>4 DEF Next
  <2>2. \A c \in Conns : ~Ends(c)
    <3> SUFFICES ASSUME NEW c \in Conns, Ends(c) PROVE FALSE
      OBVIOUS
    <3>1. finished' = Append(finished, cur[c]) /\ finished \in Seq(1 .. Len(ops))
          /\ cur[c] \in 1 .. Len(ops)
      BY CurStmtType DEF Ends, Finish, TypeOK
    <3>2. Len(finished') = Len(finished) + 1 /\ Len(finished) \in Nat
      BY <3>1
    <3> QED BY <2>1, <3>2
  <2> QED BY <2>1, <2>2, FourKinds DEF Same, Pops
<1> QED BY <1>1, <1>2

\* The operations as the abstract log sees them.
Submitted == [n \in 1 .. Len(ops) |-> ops[n].stmts]
Settled   == {finished[i] : i \in 1 .. Len(finished)}
Effective == {db[i] : i \in 1 .. Len(db)}

LEMMA SubmittedSeq ==
  ASSUME TypeOK
  PROVE  /\ Submitted \in Seq(Seq(Stmt)) /\ Len(Submitted) = Len(ops)
         /\ \A n \in 1 .. Len(ops) : Submitted[n] = ops[n].stmts
<1>1. Len(ops) \in Nat /\ \A n \in 1 .. Len(ops) : ops[n].stmts \in Seq(Stmt)
  BY OpType DEF TypeOK
<1> QED BY <1>1 DEF Submitted

\* A new operation is submitted, and settles nothing.
LEMMA SubmitStep ==
  ASSUME TypeOK, TypeOK', db' = db, NEW op \in Op, Creates(op)
  PROVE  Log!Submit
<1>1. ops' = Append(ops, op) /\ finished' = finished /\ ops \in Seq(Op)
  BY DEF Creates, AddToDelayQueue, DirectOn, TypeOK
<1>2. /\ Len(ops') = Len(ops) + 1 /\ Len(ops) \in Nat
      /\ \A n \in 1 .. Len(ops) : ops'[n] = ops[n]
  BY <1>1, GrowOps
<1>3. Len(Submitted) = Len(ops) /\ \A n \in 1 .. Len(ops) : Submitted[n] = ops[n].stmts
  BY SubmittedSeq
<1>4. /\ Len(Submitted') = Len(ops')
      /\ \A n \in 1 .. Len(ops') : Submitted'[n] = ops'[n].stmts
  <2>1. Len(ops') \in Nat /\ \A n \in 1 .. Len(ops') : ops'[n].stmts \in Seq(Stmt)
    <3>1. Len(ops') \in Nat /\ \A n \in 1 .. Len(ops') : ops'[n] \in Op
      BY DEF TypeOK
    <3>2. \A o \in Op : o.stmts \in Seq(Stmt)
      BY DEF Op
    <3> QED BY <3>1, <3>2
  <2> QED BY <2>1 DEF Submitted
<1>5. \A n \in 1 .. Len(ops) : Submitted'[n] = Submitted[n]
  BY <1>2, <1>3, <1>4
<1>6. Settled' = Settled /\ Effective' = Effective
  BY <1>1 DEF Settled, Effective
<1> QED BY <1>2, <1>3, <1>4, <1>5, <1>6 DEF Log!Submit, Submitted, Settled, Effective

\* An operation that is over is settled, with all of its effects or none.
LEMMA SettleStep ==
  ASSUME TypeOK, TypeOK', OwnedOnce, EffectInv, NEW c \in Conns, Settles(c)
  PROVE  Log!Settle
<1>1. /\ cur[c] \in 1 .. Len(ops) /\ cur[c] # 0 /\ Over(c)
      /\ \A n : In(n, finished') <=> IsFinished(n) \/ (n = cur[c] /\ Over(c))
  BY EndFacts DEF Settles
<1>2. ops' = ops /\ db \in Seq(Stmt) /\ db' \in Seq(Stmt)
  BY DEF Settles, Ends, TypeOK
<1>3. PICK n \in 1 .. Len(ops) : n = cur[c]
  BY <1>1
<1>4. Settled' = Settled \cup {n} /\ n \notin Settled
  <2>1. \A m : m \in Settled' <=> In(m, finished')
    BY DEF Settled, In
  <2>2. \A m : m \in Settled <=> IsFinished(m)
    BY DEF Settled, IsFinished
  <2>3. ~IsFinished(n)
    BY <1>3 DEF OwnedOnce
  <2> QED BY <1>1, <1>3, <2>1, <2>2, <2>3
<1>5. PICK q \in Seq(Stmt) : q = ops[n].stmts /\ q = CurOp(c).stmts /\ q = Submitted[n]
  BY <1>3, OpType, SubmittedSeq DEF CurOp
<1>6. PICK S : S = {q[i] : i \in 1 .. Len(q)}
  OBVIOUS
<1>7. Effective' = Effective \/ Effective' = Effective \cup S
  <2>0. /\ \A s : s \in Effective' <=> In(s, db')
        /\ \A s : s \in Effective <=> In(s, db)
        /\ \A s : s \in S <=> In(s, q)
    BY <1>6 DEF Effective, In
  <2>1. CASE db' = db
    BY <2>1 DEF Effective
  <2>2. CASE ~CurOp(c).tx /\ AtStmt(c) /\ db' = Append(db, CurStmt(c))
    <3>1. CurStmt(c) \in Stmt /\ at[c] \in 1 .. Len(q) /\ CurStmt(c) = q[at[c]]
      BY <1>5, <2>2, CurStmtType DEF Settles, Ends, AtStmt, CurStmt
    <3>2. Len(q) = 1
      BY <1>3, <1>5, <2>2 DEF EffectInv, IdInv, OpIds, CurOp
    <3>3. PICK s \in Stmt : s = CurStmt(c)
      BY <3>1
    <3>4. 1 .. 1 = {1} /\ Len(<<s>>) = 1 /\ <<s>>[1] = s /\ <<s>> \in Seq(Stmt)
      OBVIOUS
    <3>5. Adds(<<s>>)
      BY <1>2, <2>2, <3>3, AddsForms
    <3>6. \A x : In(x, db') <=> In(x, db) \/ In(x, <<s>>)
      BY <1>2, <3>4, <3>5, AddsMembers
    <3>7. \A x : In(x, <<s>>) <=> x = s
      BY <3>4 DEF In
    <3>8. \A x : In(x, q) <=> x = s
      BY <3>1, <3>2, <3>3, <3>4 DEF In
    <3> QED BY <2>0, <3>6, <3>7, <3>8
  <2>3. CASE AtCommit(c) /\ inTx[c] /\ db' = db \o pending[c]
    <3>1. PICK p \in Seq(Stmt) : p = pending[c]
      BY DEF TypeOK
    <3>2. ConnOK(cur[c], q, CurOp(c).tx, at[c], link[c], inTx[c], p, db, drops)
      BY <1>5, <3>1 DEF EffectInv, ConnInv
    <3>3. Len(p) = at[c] - 1 /\ \A k \in 1 .. Len(p) : p[k] = q[k]
      BY <2>3, <3>2 DEF ConnOK
    <3>4. Len(p) = Len(q)
      <4>1. at[c] = Len(q) + 1
        BY <1>5, <2>3 DEF AtCommit
      <4>2. Len(q) \in Nat
        OBVIOUS
      <4> QED BY <3>3, <4>1, <4>2
    <3>5. \A x : In(x, p) <=> In(x, q)
      BY <3>3, <3>4 DEF In
    <3>6. Adds(p)
      BY <1>2, <2>3, <3>1, AddsForms
    <3>7. \A x : In(x, db') <=> In(x, db) \/ In(x, p)
      BY <1>2, <3>6, AddsMembers
    <3> QED BY <2>0, <3>5, <3>7
  <2> QED BY <2>1, <2>2, <2>3 DEF Settles
<1>8. Log!Statements(n) = S
  BY <1>5, <1>6 DEF Log!Statements, Submitted
<1>9. Len(Submitted) = Len(ops) /\ Submitted' = Submitted
  BY <1>2, SubmittedSeq DEF Submitted
<1>10. \E m \in 1 .. Len(Submitted) :
         /\ m \notin Settled /\ Settled' = Settled \cup {m}
         /\ Effective' \in {Effective, Effective \cup Log!Statements(m)}
  BY <1>4, <1>7, <1>8, <1>9
<1> QED BY <1>9, <1>10 DEF Log!Settle, Submitted, Settled, Effective

\* As long as no connection is lost the queue, the workers, the Direct*
\* calls, the rollback and the shutdown together implement an atomic log: an
\* operation is settled once, in one step, with all of its effects or none.
THEOREM RefinesLog ==
  ASSUME MaxDrops = 0
  PROVE  Spec => ImplementsLog
<1>1. Init => Log!Init
  <2> SUFFICES ASSUME Init PROVE Log!Init
    OBVIOUS
  <2>1. Len(ops) = 0 /\ Len(finished) = 0 /\ Len(db) = 0 /\ 1 .. 0 = {}
    BY DEF Init
  <2>2. Settled = {} /\ Effective = {}
    BY <2>1 DEF Settled, Effective
  <2>3. Submitted = <<>>
    BY <2>1 DEF Submitted
  <2> QED BY <2>2, <2>3 DEF Log!Init, Submitted, Settled, Effective
<1>2. IInv /\ EffectInv /\ TypeOK' /\ [Next]_vars => [Log!Next]_(Log!vars)
  <2> SUFFICES ASSUME IInv, EffectInv, TypeOK', [Next]_vars
               PROVE  Log!Submit \/ Log!Settle \/ UNCHANGED Log!vars
    BY DEF Log!Next
  <2>0. TypeOK /\ OwnedOnce
    BY DEF IInv
  <2>1. ASSUME db' = db, NEW op \in Op, Creates(op) PROVE Log!Submit
    BY <2>0, <2>1, SubmitStep
  <2>2. CASE db' = db /\ UNCHANGED <<ops, finished>>
    BY <2>2 DEF Log!vars
  <2>3. ASSUME NEW c \in Conns, Settles(c) PROVE Log!Settle
    BY <2>0, <2>3, SettleStep
  <2> QED BY <2>0, <2>1, <2>2, <2>3, SettleOrNot
<1>3. IInv => TypeOK
  BY DEF IInv
<1> QED BY <1>1, <1>2, <1>3, Effects, PTL DEF Spec, ImplementsLog, Log!Spec

-----------------------------------------------------------------------------
(* The order of the writes, with one worker and no lost connection. *)

\* FourKinds again, with what is queued and what goes to m_pAsyncConn.
LEMMA DirectOrQueued ==
  ASSUME TypeOK, [Next]_vars
  PROVE  \/ Same
         \/ \E op \in Op : ~op.direct /\ AddToDelayQueue(op) /\ UNCHANGED finished
         \/ \E op \in Op : op.direct /\ DirectOn(op) /\ UNCHANGED finished
         \/ \E c \in Conns : Ends(c)
         \/ \E w \in Workers : Pops(w)
<1> DEFINE Goal == \/ Same
                   \/ \E op \in Op : ~op.direct /\ AddToDelayQueue(op) /\ UNCHANGED finished
                   \/ \E op \in Op : op.direct /\ DirectOn(op) /\ UNCHANGED finished
                   \/ \E c \in Conns : Ends(c)
                   \/ \E w \in Workers : Pops(w)
<1> HIDE DEF Goal
<1> USE ConfigAssumption
<1>1. CASE ops' = ops
  <2>1. ASSUME NEW op \in Op, Creates(op) PROVE FALSE
    <3>1. ops' = Append(ops, op) /\ ops \in Seq(Op)
      BY <2>1 DEF Creates, AddToDelayQueue, DirectOn, TypeOK
    <3>2. Len(ops') = Len(ops) + 1 /\ Len(ops) \in Nat
      BY <3>1, GrowOps
    <3> QED BY <1>1, <3>2
  <2> QED BY <2>1, FourKinds DEF Goal
<1>2. ASSUME NEW t \in Threads, NEW k \in Kinds,
             ExecuteAsync(t, k) \/ CancelledCallbackWrites(t, k)
      PROVE  Goal
  <2> DEFINE o(l) == [by |-> t, stmts |-> <<NewStmt(t, k)>>, tx |-> FALSE,
                      direct |-> FALSE, late |-> l]
  <2>1. \A l \in BOOLEAN : o(l) \in Op /\ ~o(l).direct
    BY <1>2, NewStmtType DEF TypeOK, ExecuteAsync, CancelledCallbackWrites, Op
  <2>2. \E l \in BOOLEAN : AddToDelayQueue(o(l)) /\ UNCHANGED finished
    BY <1>2 DEF ExecuteAsync, CancelledCallbackWrites
  <2> HIDE DEF o
  <2> QED BY <2>1, <2>2 DEF Goal
<1>3. ASSUME NEW t \in Threads, NEW k \in Kinds, DirectExecute(t, k) PROVE Goal
  <2> DEFINE o == [by |-> t, stmts |-> <<NewStmt(t, k)>>, tx |-> FALSE,
                   direct |-> TRUE, late |-> FALSE]
  <2>1. o \in Op /\ o.direct
    BY <1>3, NewStmtType DEF TypeOK, DirectExecute, Op
  <2>2. DirectOn(o) /\ UNCHANGED finished
    BY <1>3 DEF DirectExecute
  <2> HIDE DEF o
  <2> QED BY <2>1, <2>2 DEF Goal
<1>4. ASSUME NEW t \in Threads, CommitTransaction(t) \/ CommitTransactionDirect(t) PROVE Goal
  <2> DEFINE o(d) == [by |-> t, stmts |-> trans[t].stmts, tx |-> TRUE,
                      direct |-> d, late |-> FALSE]
  <2>1. \A d \in BOOLEAN : o(d) \in Op /\ (o(d).direct <=> d)
    BY DEF TypeOK, Op
  <2>2. \/ AddToDelayQueue(o(FALSE)) /\ UNCHANGED finished
        \/ DirectOn(o(TRUE)) /\ UNCHANGED finished
    BY <1>4 DEF CommitTransaction, CommitTransactionDirect
  <2> HIDE DEF o
  <2> QED BY <2>1, <2>2 DEF Goal
<1>5. \/ ops' = ops
      \/ \E t \in Threads : \/ CommitTransaction(t) \/ CommitTransactionDirect(t)
                            \/ \E k \in Kinds : \/ ExecuteAsync(t, k) \/ DirectExecute(t, k)
                                                \/ CancelledCallbackWrites(t, k)
  <2>1. ASSUME NEW t \in Threads,
               \/ BeginTransaction(t) \/ RollbackTransaction(t)
               \/ \E k \in Kinds : ExecuteInTransaction(t, k)
        PROVE  ops' = ops
    BY <2>1 DEF BeginTransaction, RollbackTransaction, ExecuteInTransaction
  <2>2. ASSUME NEW c \in Conns, ConnNext(c) \/ Drop(c) PROVE ops' = ops
    BY <2>2, OneConnection
  <2>3. ASSUME NEW w \in Workers, WorkerNext(w) PROVE ops' = ops
    BY <2>3 DEF WorkerNext, CheckRunning, QueueEmpty, Ping, NextDelayedOperation, WorkerSteps
  <2>4. ASSUME NEW w \in Workers, JoinWorker(w) \/ DeleteWorker(w) PROVE ops' = ops
    BY <2>4 DEF JoinWorker, DeleteWorker
  <2>5. CASE AllowAsyncTransactions \/ StopServer \/ CloseConnections
    BY <2>5 DEF AllowAsyncTransactions, StopServer, CloseConnections
  <2>6. CASE UNCHANGED vars
    BY <2>6 DEF vars
  <2> QED BY <2>1, <2>2, <2>3, <2>4, <2>5, <2>6 DEF Next, ClientNext, MainNext
<1> QED BY <1>1, <1>2, <1>3, <1>4, <1>5 DEF Goal

\* With one worker the operations leave the queue in order.
LEMMA QueueStep ==
  ASSUME NWorkers = 1, TypeOK, TypeOK', QueueInv, [Next]_vars
  PROVE  QueueInv'
<1>0. /\ Len(ops) \in Nat /\ ops \in Seq(Op) /\ delayQueue \in Seq(1 .. Len(ops))
      /\ finished \in Seq(1 .. Len(ops)) /\ cur \in [Conns -> 0 .. Len(ops)]
  BY DEF TypeOK
<1>1. Workers = {1} /\ Conns = {0, 1} /\ AsyncConn = 0
  BY DEF Workers, Conns, AsyncConn
<1>2. Len(delayQueue) \in Nat /\ \A i \in 1 .. Len(delayQueue) : delayQueue[i] \in 1 .. Len(ops)
  BY <1>0
<1>3. \A n : IsFinished(n) => n \in 1 .. Len(ops)
  BY <1>0 DEF IsFinished
<1>4. cur[0] \in 0 .. Len(ops) /\ cur[1] \in 0 .. Len(ops)
  BY <1>0, <1>1
<1>5. CASE Same
  BY <1>5 DEF Same, QueueInv, IsFinished
<1>6. ASSUME NEW op \in Op, ops' = Append(ops, op), finished' = finished
      PROVE  /\ Len(ops') = Len(ops) + 1 /\ ops'[Len(ops')] = op
             /\ \A n \in 1 .. Len(ops) : ops'[n] = ops[n]
             /\ \A n : IsFinished(n)' <=> IsFinished(n)
  BY <1>0, <1>6, GrowOps DEF IsFinished
<1>7. ASSUME NEW op \in Op, ~op.direct, AddToDelayQueue(op), UNCHANGED finished
      PROVE  QueueInv'
  <2>1. ops' = Append(ops, op) /\ delayQueue' = Append(delayQueue, Len(ops')) /\ cur' = cur
    BY <1>7 DEF AddToDelayQueue
  <2>2. /\ Len(ops') = Len(ops) + 1 /\ ops'[Len(ops')] = op
        /\ \A n \in 1 .. Len(ops) : ops'[n] = ops[n]
        /\ \A n : IsFinished(n)' <=> IsFinished(n)
    BY <1>6, <1>7, <2>1
  <2>3. PICK m : m = Len(ops) + 1 /\ m = Len(ops')
    BY <2>2
  <2>4. delayQueue' = Append(delayQueue, m) /\ ops'[m] = op
    BY <2>1, <2>2, <2>3
  <2>5. /\ Len(delayQueue') = Len(delayQueue) + 1 /\ delayQueue'[Len(delayQueue) + 1] = m
        /\ \A i \in 1 .. Len(delayQueue) : delayQueue'[i] = delayQueue[i]
    BY <1>0, <2>4
  <2>6. \A i : i \in 1 .. Len(delayQueue') <=> i \in 1 .. Len(delayQueue) \/ i = Len(delayQueue) + 1
    BY <1>2, <2>5
  <2>7. \A n \in 0 .. Len(ops) : n < m
    BY <1>0, <2>3
  <2>8. \A n \in 1 .. Len(ops) : n < m /\ n \in 0 .. Len(ops)
    BY <1>0, <2>3
  <2>9. \A i \in 1 .. Len(delayQueue') : ~ops'[delayQueue'[i]].direct
    BY <1>2, <1>7, <2>2, <2>4, <2>5, <2>6 DEF QueueInv
  <2>10. \A c \in Conns : cur[c] # 0 => cur[c] \in 1 .. Len(ops)
    BY <1>0
  <2>11. /\ \A w \in Workers : cur'[w] # 0 => ~ops'[cur'[w]].direct
         /\ cur'[AsyncConn] # 0 => ops'[cur'[AsyncConn]].direct
    BY <1>1, <2>1, <2>2, <2>10 DEF QueueInv
  <2>12. \A i, j \in 1 .. Len(delayQueue') : i < j => delayQueue'[i] < delayQueue'[j]
    BY <1>2, <2>5, <2>6, <2>8 DEF QueueInv
  <2>13. \A w \in Workers, i \in 1 .. Len(delayQueue') : cur'[w] < delayQueue'[i]
    BY <1>1, <1>4, <2>1, <2>5, <2>6, <2>7 DEF QueueInv
  <2>14. ASSUME NEW n \in 1 .. Len(ops'), IsFinished(n)', ~ops'[n].direct
         PROVE  /\ \A i \in 1 .. Len(delayQueue') : n < delayQueue'[i]
                /\ \A w \in Workers : cur'[w] # 0 => n < cur'[w]
    <3>1. n \in 1 .. Len(ops) /\ IsFinished(n) /\ ~ops[n].direct
      BY <1>3, <2>2, <2>14
    <3> QED BY <2>1, <2>5, <2>6, <2>8, <3>1 DEF QueueInv
  <2> QED BY <2>9, <2>11, <2>12, <2>13, <2>14 DEF QueueInv
<1>8. ASSUME NEW op \in Op, op.direct, DirectOn(op), UNCHANGED finished
      PROVE  QueueInv'
  <2>1. ops' = Append(ops, op) /\ delayQueue' = delayQueue
        /\ cur' = [cur EXCEPT ![0] = Len(ops')]
    BY <1>1, <1>8 DEF DirectOn
  <2>2. /\ Len(ops') = Len(ops) + 1 /\ ops'[Len(ops')] = op
        /\ \A n \in 1 .. Len(ops) : ops'[n] = ops[n]
        /\ \A n : IsFinished(n)' <=> IsFinished(n)
    BY <1>6, <1>8, <2>1
  <2>3. cur'[0] = Len(ops') /\ cur'[1] = cur[1]
    BY <1>0, <1>1, <2>1
  <2>4. ops'[cur'[0]].direct
    BY <1>8, <2>2, <2>3
  <2>5. cur[1] # 0 => cur[1] \in 1 .. Len(ops)
    BY <1>4
  <2>6. \A i \in 1 .. Len(delayQueue') : ~ops'[delayQueue'[i]].direct
    BY <1>2, <2>1, <2>2 DEF QueueInv
  <2>7. \A w \in Workers : cur'[w] # 0 => ~ops'[cur'[w]].direct
    BY <1>1, <2>2, <2>3, <2>5 DEF QueueInv
  <2>8. \A w \in Workers : cur'[w] = cur[w]
    BY <1>1, <2>3
  <2>9. \A n \in 1 .. Len(ops') : IsFinished(n)' /\ ~ops'[n].direct =>
          n \in 1 .. Len(ops) /\ IsFinished(n) /\ ~ops[n].direct
    BY <1>3, <2>2
  <2>10. \A i, j \in 1 .. Len(delayQueue') : i < j => delayQueue'[i] < delayQueue'[j]
    BY <2>1 DEF QueueInv
  <2>11. \A w \in Workers, i \in 1 .. Len(delayQueue') : cur'[w] < delayQueue'[i]
    BY <2>1, <2>8 DEF QueueInv
  <2>12. \A n \in 1 .. Len(ops') : IsFinished(n)' /\ ~ops'[n].direct =>
           /\ \A i \in 1 .. Len(delayQueue') : n < delayQueue'[i]
           /\ \A w \in Workers : cur'[w] # 0 => n < cur'[w]
    BY <2>1, <2>8, <2>9 DEF QueueInv
  <2> QED BY <1>1, <2>4, <2>6, <2>7, <2>10, <2>11, <2>12 DEF QueueInv
<1>9. ASSUME NEW c \in Conns, Ends(c) PROVE QueueInv'
  <2>1. /\ ops' = ops /\ delayQueue' = delayQueue /\ cur' = [cur EXCEPT ![c] = 0]
    BY <1>9 DEF Ends, Finish
  <2>2. cur'[c] = 0 /\ (\A d \in Conns : d # c => cur'[d] = cur[d]) /\ cur[c] # 0
    BY <1>0, <1>9, <2>1 DEF Ends, Executing
  <2>3. \A n : IsFinished(n)' <=> IsFinished(n) \/ n = cur[c]
    BY <1>9, EndFacts DEF In, IsFinished
  <2>4. ASSUME NEW n \in 1 .. Len(ops), IsFinished(n)', ~ops[n].direct
        PROVE  /\ \A i \in 1 .. Len(delayQueue) : n < delayQueue[i]
               /\ \A w \in Workers : cur'[w] # 0 => n < cur'[w]
    <3>1. CASE IsFinished(n)
      BY <1>1, <2>2, <2>4, <3>1 DEF QueueInv
    <3>2. CASE n = cur[c]
      <4>1. c = 1
        BY <1>1, <2>2, <2>4, <3>2 DEF QueueInv
      <4> QED BY <1>1, <2>2, <3>2, <4>1 DEF QueueInv
    <3> QED BY <2>3, <2>4, <3>1, <3>2
  <2>5. \A i \in 1 .. Len(delayQueue') : ~ops'[delayQueue'[i]].direct
    BY <2>1 DEF QueueInv
  <2>6. /\ \A w \in Workers : cur'[w] # 0 => ~ops'[cur'[w]].direct
        /\ cur'[AsyncConn] # 0 => ops'[cur'[AsyncConn]].direct
    BY <1>1, <2>1, <2>2 DEF QueueInv
  <2>7. \A w \in Workers, i \in 1 .. Len(delayQueue') : cur'[w] < delayQueue'[i]
    <3>1. \A i \in 1 .. Len(delayQueue) : 0 < delayQueue[i]
      BY <1>0, <1>2
    <3> QED BY <1>1, <2>1, <2>2, <3>1 DEF QueueInv
  <2>8. \A i, j \in 1 .. Len(delayQueue') : i < j => delayQueue'[i] < delayQueue'[j]
    BY <2>1 DEF QueueInv
  <2> QED BY <2>1, <2>4, <2>5, <2>6, <2>7, <2>8 DEF QueueInv
<1>10. ASSUME NEW w \in Workers, Pops(w) PROVE QueueInv'
  <2>1. /\ ops' = ops /\ finished' = finished /\ delayQueue # <<>> /\ w = 1
        /\ delayQueue' = Tail(delayQueue) /\ cur' = [cur EXCEPT ![1] = Head(delayQueue)]
    BY <1>1, <1>10 DEF Pops
  <2>2. /\ Len(delayQueue') = Len(delayQueue) - 1 /\ Head(delayQueue) = delayQueue[1]
        /\ \A i \in 1 .. Len(delayQueue') : delayQueue'[i] = delayQueue[i + 1]
        /\ Len(delayQueue) >= 1
    BY <1>0, <2>1
  <2>3. cur'[1] = delayQueue[1] /\ cur'[0] = cur[0]
    BY <1>0, <1>1, <2>1, <2>2
  <2>4. /\ \A i \in 1 .. Len(delayQueue') : i + 1 \in 1 .. Len(delayQueue) /\ 1 < i + 1
        /\ 1 \in 1 .. Len(delayQueue)
    BY <1>2, <2>2
  <2>5. \A i, j \in 1 .. Len(delayQueue') : i < j => i + 1 < j + 1
    OBVIOUS
  <2>6. \A n : IsFinished(n)' <=> IsFinished(n)
    BY <2>1 DEF IsFinished
  <2>7. \A i \in 1 .. Len(delayQueue') : ~ops'[delayQueue'[i]].direct
    BY <2>1, <2>2, <2>4 DEF QueueInv
  <2>8. /\ \A v \in Workers : cur'[v] # 0 => ~ops'[cur'[v]].direct
        /\ cur'[AsyncConn] # 0 => ops'[cur'[AsyncConn]].direct
    BY <1>1, <2>1, <2>3, <2>4 DEF QueueInv
  <2>9. \A i, j \in 1 .. Len(delayQueue') : i < j => delayQueue'[i] < delayQueue'[j]
    BY <2>2, <2>4, <2>5 DEF QueueInv
  <2>10. \A v \in Workers, i \in 1 .. Len(delayQueue') : cur'[v] < delayQueue'[i]
    BY <1>1, <2>2, <2>3, <2>4 DEF QueueInv
  <2>11. \A n \in 1 .. Len(ops) : IsFinished(n) /\ ~ops[n].direct =>
           /\ \A i \in 1 .. Len(delayQueue') : n < delayQueue'[i]
           /\ \A v \in Workers : cur'[v] # 0 => n < cur'[v]
    BY <1>1, <2>2, <2>3, <2>4 DEF QueueInv
  <2> QED BY <2>1, <2>6, <2>7, <2>8, <2>9, <2>10, <2>11 DEF QueueInv
<1> QED BY <1>5, <1>7, <1>8, <1>9, <1>10, DirectOrQueued

\* Without losses only what is over has an effect.
LEMMA DurableFinished ==
  ASSUME TypeOK, EffectInv, drops = 0, NEW k \in 1 .. Len(db)
  PROVE  \E n \in 1 .. Len(ops) : \E i \in 1 .. Len(ops[n].stmts) :
           db[k] = ops[n].stmts[i] /\ IsFinished(n)
<1>1. PICK n \in 1 .. Len(ops) : \E i \in 1 .. Len(ops[n].stmts) :
        db[k] = ops[n].stmts[i] /\ Reached(n, i)
  BY DEF EffectInv, DbInv
<1>2. PICK i \in 1 .. Len(ops[n].stmts) : db[k] = ops[n].stmts[i] /\ Reached(n, i)
  BY <1>1
<1>3. ASSUME NEW c \in Conns, cur[c] = n,
             Passed(i, ops[n].stmts[i], at[c], link[c], drops)
      PROVE  FALSE
  <2>1. ConnOK(n, ops[n].stmts, ops[n].tx, at[c], link[c], inTx[c], pending[c], db, drops)
    BY <1>3 DEF EffectInv, ConnInv, CurOp
  <2>2. n # 0 /\ i \in Nat /\ i >= 1
    BY OpType
  <2>3. link[c] = "up"
    BY <2>1 DEF ConnOK
  <2>4. i < at[c]
    BY <1>3, <2>3 DEF Passed, Once
  <2>5. CASE ops[n].tx
    <3>1. NoneIn(ops[n].stmts, db)
      BY <2>1, <2>2, <2>5 DEF ConnOK, Safe
    <3> QED BY <1>2, <3>1 DEF NoneIn, In
  <2>6. CASE ~ops[n].tx
    <3>1. at[c] = 1
      BY <2>1, <2>2, <2>6 DEF ConnOK
    <3> QED BY <2>2, <2>4, <3>1
  <2> QED BY <2>5, <2>6
<1> QED BY <1>2, <1>3 DEF Reached

\* A new operation does not make an old statement one of the queue.
LEMMA QueuedBefore ==
  ASSUME TypeOK, TypeOK', EffectInv, IdInv', Grown, NEW s, In(s, db), Queued(s)'
  PROVE  Queued(s)
<1>1. PICK k \in 1 .. Len(db) : db[k] = s
  BY DEF In
<1>2. PICK n \in 1 .. Len(ops) : \E i \in 1 .. Len(ops[n].stmts) : s = ops[n].stmts[i]
  BY <1>1 DEF EffectInv, DbInv
<1>3. PICK m \in 1 .. Len(ops') : /\ ~ops'[m].direct
                                  /\ \E i \in 1 .. Len(ops'[m].stmts) : ops'[m].stmts[i] = s
  BY DEF Queued
<1>4. n \in 1 .. Len(ops') /\ ops'[n] = ops[n]
  <2>1. Len(ops) \in Nat /\ Len(ops') \in Nat
    BY DEF TypeOK
  <2> QED BY <2>1 DEF Grown
<1>5. s.id \in Ids(ops'[n].stmts) /\ s.id \in Ids(ops'[m].stmts)
  BY <1>2, <1>3, <1>4 DEF Ids
<1>6. n = m
  BY <1>4, <1>5 DEF IdInv, OpIds, Apart
<1> QED BY <1>2, <1>3, <1>4, <1>6 DEF Queued

\* What the worker adds comes after what the thread had there before.
LEMMA OrderAdds ==
  ASSUME NWorkers = 1, TypeOK, TypeOK', EffectInv, QueueInv, SessionOrder, drops = 0,
         ops' = ops, NEW c \in Conns, cur[c] \in 1 .. Len(ops),
         NEW new \in Seq(Stmt), Adds(new), Ascending(new),
         \A k \in 1 .. Len(new) : \E i \in 1 .. Len(CurOp(c).stmts) : new[k] = CurOp(c).stmts[i]
  PROVE  SessionOrder'
<1>0. /\ db \in Seq(Stmt) /\ db' \in Seq(Stmt) /\ Len(db) \in Nat /\ Len(new) \in Nat /\ OpIds
  <2>1. db \in Seq(Stmt) /\ db' \in Seq(Stmt)
    BY DEF TypeOK
  <2>2. OpIds
    BY DEF EffectInv, IdInv
  <2> QED BY <2>1, <2>2
<1>1. \A k \in 1 .. Len(db') : \/ k \in 1 .. Len(db) /\ db'[k] = db[k]
                               \/ \E l \in 1 .. Len(new) : k = Len(db) + l /\ db'[k] = new[l]
  BY <1>0, AddsMembers
<1>3. Workers = {1} /\ Conns = {0, 1} /\ AsyncConn = 0
  BY DEF Workers, Conns, AsyncConn
<1>4. PICK m \in 1 .. Len(ops) : m = cur[c] /\ m # 0
  OBVIOUS
<1>5. \A n \in 1 .. Len(ops) : \A i \in 1 .. Len(ops[n].stmts) :
        Queued(ops[n].stmts[i]) => ~ops[n].direct
  <2> SUFFICES ASSUME NEW n \in 1 .. Len(ops), NEW i \in 1 .. Len(ops[n].stmts),
                      NEW l \in 1 .. Len(ops), NEW j \in 1 .. Len(ops[l].stmts),
                      ops[l].stmts[j] = ops[n].stmts[i], ~ops[l].direct
               PROVE  ~ops[n].direct
    BY DEF Queued
  <2>1. l = n
    BY <1>0, Unique
  <2> QED BY <2>1
<1>6. ASSUME NEW k \in 1 .. Len(db), NEW l \in 1 .. Len(new), db[k].by = new[l].by,
             Queued(db[k]), Queued(new[l])
      PROVE  db[k].id < new[l].id
  <2>1. PICK n \in 1 .. Len(ops) : \E i \in 1 .. Len(ops[n].stmts) :
           db[k] = ops[n].stmts[i] /\ IsFinished(n)
    BY DurableFinished
  <2>2. PICK i \in 1 .. Len(ops[n].stmts) : db[k] = ops[n].stmts[i] /\ IsFinished(n)
    BY <2>1
  <2>3. PICK j \in 1 .. Len(ops[m].stmts) : new[l] = ops[m].stmts[j]
    BY <1>4 DEF CurOp
  <2>4. ~ops[n].direct /\ ~ops[m].direct
    BY <1>5, <1>6, <2>2, <2>3
  <2>5. c \in Workers
    BY <1>3, <1>4, <2>4 DEF QueueInv
  <2>6. n < m
    BY <1>4, <2>2, <2>4, <2>5 DEF QueueInv
  <2>7. ops[n].by = ops[m].by
    <3>1. Written(ops[n].by, ops[n].stmts) /\ Written(ops[m].by, ops[m].stmts)
      BY <1>0 DEF OpIds, Issued
    <3> QED BY <1>6, <2>2, <2>3, <3>1 DEF Written
  <2>8. Before(ops[n].stmts, ops[m].stmts)
    BY <1>0, <2>4, <2>6, <2>7 DEF OpIds
  <2>9. db[k].id \in Ids(ops[n].stmts) /\ new[l].id \in Ids(ops[m].stmts)
    BY <2>2, <2>3 DEF Ids
  <2> QED BY <2>8, <2>9 DEF Before
<1>7. ASSUME NEW k \in 1 .. Len(db'), NEW l \in 1 .. Len(db'), k < l,
             db'[k].by = db'[l].by, Queued(db'[k]), Queued(db'[l])
      PROVE  db'[k].id < db'[l].id
  <2>1. CASE k \in 1 .. Len(db) /\ db'[k] = db[k] /\ l \in 1 .. Len(db) /\ db'[l] = db[l]
    BY <1>7, <2>1 DEF SessionOrder
  <2>2. ASSUME k \in 1 .. Len(db), db'[k] = db[k], NEW j \in 1 .. Len(new), db'[l] = new[j]
        PROVE  db'[k].id < db'[l].id
    BY <1>6, <1>7, <2>2
  <2>3. ASSUME NEW i \in 1 .. Len(new), k = Len(db) + i, db'[k] = new[i],
               NEW j \in 1 .. Len(new), l = Len(db) + j, db'[l] = new[j]
        PROVE  db'[k].id < db'[l].id
    <3>1. i < j
      BY <1>0, <1>7, <2>3
    <3> QED BY <2>3, <3>1 DEF Ascending
  <2>4. ASSUME NEW i \in 1 .. Len(new), k = Len(db) + i, l \in 1 .. Len(db)
        PROVE  FALSE
    BY <1>0, <1>7, <2>4
  <2> QED BY <1>1, <2>1, <2>2, <2>3, <2>4
<1> QED BY <1>7 DEF SessionOrder, Queued

\* Queued with the operations as an argument, so that it can speak of ops'.
QueuedIn(s, o) ==
  \E n \in 1 .. Len(o) : ~o[n].direct /\ \E i \in 1 .. Len(o[n].stmts) : o[n].stmts[i] = s

LEMMA OrderStep ==
  ASSUME NWorkers = 1, MaxDrops = 0, TypeOK, TypeOK', OwnedOnce, EffectInv, IdInv',
         QueueInv, SessionOrder, [Next]_vars
  PROVE  SessionOrder'
<1>0. drops = 0 /\ Grown /\ db \in Seq(Stmt)
  BY OpsGrow DEF TypeOK
<1>1. CASE db' = db
  <2> SUFFICES ASSUME NEW k \in 1 .. Len(db), NEW l \in 1 .. Len(db), k < l,
                      db[k].by = db[l].by,
                      NEW s, s = db[k], Queued(s)', NEW u, u = db[l], Queued(u)'
               PROVE  db[k].id < db[l].id
    <3>1. \A s : Queued(s)' <=> QueuedIn(s, ops')
      BY DEF Queued, QueuedIn
    <3>2. SUFFICES ASSUME NEW k \in 1 .. Len(db'), NEW l \in 1 .. Len(db'), k < l,
                          db'[k].by = db'[l].by, QueuedIn(db'[k], ops'), QueuedIn(db'[l], ops')
                   PROVE  db'[k].id < db'[l].id
      BY DEF SessionOrder, Queued, QueuedIn
    <3>3. PICK s, u : s = db[k] /\ u = db[l]
      OBVIOUS
    <3>4. Queued(s)' /\ Queued(u)'
      BY <1>1, <3>1, <3>2, <3>3
    <3> QED BY <1>1, <3>2, <3>3, <3>4
  <2>1. In(s, db) /\ In(u, db)
    BY DEF In
  <2>2. Queued(s) /\ Queued(u)
    BY <1>0, <2>1, QueuedBefore
  <2> QED BY <2>2 DEF SessionOrder
<1>2. ASSUME NEW c \in Conns, Settles(c), db' # db PROVE SessionOrder'
  <2>0. ops' = ops /\ cur[c] \in 1 .. Len(ops) /\ cur[c] # 0
    BY <1>2, EndFacts DEF Settles, Ends
  <2>1. CASE AtStmt(c) /\ db' = Append(db, CurStmt(c))
    <3>1. PICK s \in Stmt : s = CurStmt(c)
      BY <1>2, <2>1, CurStmtType DEF Settles, Ends
    <3>2. Adds(<<s>>)
      BY <1>0, <2>1, <3>1, AddsForms
    <3>3. Ascending(<<s>>)
      BY SingleIds
    <3>4. PICK new \in Seq(Stmt) : /\ Adds(new) /\ Ascending(new)
                                   /\ \A k \in 1 .. Len(new) : new[k] = s
      <4>1. <<s>> \in Seq(Stmt) /\ Len(<<s>>) = 1 /\ <<s>>[1] = s /\ 1 .. 1 = {1}
        OBVIOUS
      <4> QED BY <3>2, <3>3, <4>1
    <3>5. \A k \in 1 .. Len(new) : \E i \in 1 .. Len(CurOp(c).stmts) : new[k] = CurOp(c).stmts[i]
      BY <2>1, <3>1, <3>4 DEF AtStmt, CurStmt
    <3> QED BY <1>0, <2>0, <3>4, <3>5, OrderAdds
  <2>2. CASE AtCommit(c) /\ inTx[c] /\ db' = db \o pending[c]
    <3>1. PICK p \in Seq(Stmt) : p = pending[c]
      BY DEF TypeOK
    <3>2. PICK q \in Seq(Stmt) : q = CurOp(c).stmts
      BY <2>0, OpType DEF CurOp
    <3>3. ConnOK(cur[c], q, CurOp(c).tx, at[c], link[c], inTx[c], p, db, drops)
      BY <3>1, <3>2 DEF EffectInv, ConnInv
    <3>4. Len(p) = at[c] - 1 /\ \A k \in 1 .. Len(p) : p[k] = q[k]
      BY <2>2, <3>3 DEF ConnOK
    <3>5. at[c] = Len(q) + 1
      BY <2>2, <3>2 DEF AtCommit
    <3>6. Len(q) \in Nat
      OBVIOUS
    <3>7. Len(p) = Len(q)
      BY <3>4, <3>5, <3>6
    <3>8. Ascending(q)
      BY <2>0, <3>2 DEF EffectInv, IdInv, OpIds, Issued, CurOp
    <3>9. Ascending(p)
      BY <3>4, <3>7, <3>8 DEF Ascending
    <3>10. Adds(p)
      BY <1>0, <2>2, <3>1, AddsForms
    <3>11. \A k \in 1 .. Len(p) : \E i \in 1 .. Len(CurOp(c).stmts) : p[k] = CurOp(c).stmts[i]
      BY <3>2, <3>4, <3>7
    <3> QED BY <1>0, <2>0, <3>9, <3>10, <3>11, OrderAdds
  <2> QED BY <1>2, <2>1, <2>2 DEF Settles
<1> QED BY <1>1, <1>2, SettleOrNot

\* With one worker and no lost connection, what a thread hands to the queue
\* becomes durable in the order in which the thread issued it, whatever the
\* other threads do and whichever statements the server rejects.
THEOREM WritesInOrder ==
  ASSUME NWorkers = 1, MaxDrops = 0
  PROVE  Spec => []SessionOrder
<1>1. Init => QueueInv /\ SessionOrder
  <2> SUFFICES ASSUME Init PROVE QueueInv /\ SessionOrder
    OBVIOUS
  <2>1. Len(ops) = 0 /\ Len(db) = 0 /\ Len(delayQueue) = 0 /\ \A c \in Conns : cur[c] = 0
    BY DEF Init
  <2>2. AsyncConn \in Conns /\ Workers \subseteq Conns
    BY DEF Conns
  <2> QED BY <2>1, <2>2 DEF QueueInv, SessionOrder
<1>2. IInv /\ EffectInv /\ IInv' /\ EffectInv' /\ QueueInv /\ SessionOrder /\ [Next]_vars
        => QueueInv' /\ SessionOrder'
  <2> SUFFICES ASSUME IInv, EffectInv, IInv', EffectInv', QueueInv, SessionOrder, [Next]_vars
               PROVE  QueueInv' /\ SessionOrder'
    OBVIOUS
  <2>1. TypeOK /\ TypeOK' /\ OwnedOnce /\ IdInv'
    BY DEF IInv, EffectInv
  <2> QED BY <2>1, QueueStep, OrderStep
<1> QED BY <1>1, <1>2, Effects, PTL DEF Spec

=============================================================================
