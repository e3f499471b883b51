------------------------ MODULE SqlDelayThreadProofs ------------------------
(***************************************************************************)
(* Proofs about SqlDelayThread, for every number of threads, workers,      *)
(* statements, operations and connection drops: type correctness, the      *)
(* single owner of every operation, and that StopServer leaves nothing     *)
(* behind.                                                                 *)
(***************************************************************************)
EXTENDS SqlDelayThread, SequenceTheorems, TLAPS

-----------------------------------------------------------------------------
(* Type correctness. *)

\* Appending an operation keeps the numbers already given valid, and the new
\* number is the length of the longer sequence (AddToDelayQueue, DirectOn).
LEMMA GrowOps ==
  ASSUME ops \in Seq(Op), NEW op \in Op, ops' = Append(ops, op)
  PROVE  /\ ops' \in Seq(Op)
         /\ Len(ops') = Len(ops) + 1
         /\ Len(ops) \in Nat
         /\ \A n \in 1 .. Len(ops) : ops'[n] = ops[n]
         /\ ops'[Len(ops')] = op
         /\ Seq(1 .. Len(ops)) \subseteq Seq(1 .. Len(ops'))
<1>1. /\ ops' \in Seq(Op) /\ Len(ops') = Len(ops) + 1 /\ Len(ops) \in Nat
      /\ \A n \in 1 .. Len(ops) : ops'[n] = ops[n]
      /\ ops'[Len(ops')] = op
  OBVIOUS
<1>2. 1 .. Len(ops) \subseteq 1 .. Len(ops')
  BY <1>1
<1>3. \A s \in Seq(1 .. Len(ops)) : s \in Seq(1 .. Len(ops'))
  BY <1>2
<1> QED BY <1>1, <1>3

\* The statement a call builds is a statement of the model.
LEMMA NewStmtType ==
  ASSUME ConfigAssumption, issued \in 0 .. MaxStmts, CanIssue,
         NEW t \in Threads, NEW k \in Kinds
  PROVE  NewStmt(t, k) \in Stmt /\ issued + 1 \in 0 .. MaxStmts
         /\ <<NewStmt(t, k)>> \in Seq(Stmt)
<1>1. issued + 1 \in 1 .. MaxStmts
  BY DEF CanIssue, ConfigAssumption
<1>2. NewStmt(t, k) \in Stmt
  BY <1>1 DEF NewStmt, Stmt
<1> QED BY <1>1, <1>2

\* The statement about to be executed is one.
LEMMA CurStmtType ==
  ASSUME TypeOK, NEW c \in Conns, Executing(c)
  PROVE  /\ cur[c] \in 1 .. Len(ops) /\ CurOp(c) \in Op
         /\ CurOp(c).stmts \in Seq(Stmt)
         /\ AtStmt(c) => CurStmt(c) \in Stmt
<1>1. cur[c] \in 1 .. Len(ops)
  BY DEF TypeOK, Executing
<1>2. CurOp(c) \in Op
  BY <1>1 DEF TypeOK, CurOp
<1>3. CurOp(c).stmts \in Seq(Stmt)
  BY <1>2 DEF Op
<1> QED BY <1>1, <1>2, <1>3 DEF AtStmt, CurStmt

\* Both ways of creating an operation keep what refers to operations typed.
LEMMA NewOpType ==
  ASSUME TypeOK, NEW op \in Op, AddToDelayQueue(op) \/ DirectOn(op)
  PROVE  /\ ops' \in Seq(Op) /\ delayQueue' \in Seq(1 .. Len(ops'))
         /\ cur' \in [Conns -> 0 .. Len(ops')] /\ at' \in [Conns -> Nat]
         /\ finished \in Seq(1 .. Len(ops'))
<1>0. ops \in Seq(Op) /\ ops' = Append(ops, op)
  BY DEF TypeOK, AddToDelayQueue, DirectOn
<1>1. /\ ops' \in Seq(Op) /\ Len(ops') = Len(ops) + 1 /\ Len(ops) \in Nat
      /\ Seq(1 .. Len(ops)) \subseteq Seq(1 .. Len(ops'))
  BY <1>0, GrowOps
<1>2. /\ finished \in Seq(1 .. Len(ops')) /\ delayQueue \in Seq(1 .. Len(ops'))
      /\ cur \in [Conns -> 0 .. Len(ops')] /\ at \in [Conns -> Nat]
  <2>1. 0 .. Len(ops) \subseteq 0 .. Len(ops')
    BY <1>1
  <2> QED BY <1>1, <2>1 DEF TypeOK
<1>3. Len(ops') \in 1 .. Len(ops') /\ Len(ops') \in 0 .. Len(ops')
  BY <1>1
<1>4. CASE AddToDelayQueue(op)
  BY <1>1, <1>2, <1>3, <1>4 DEF AddToDelayQueue
<1>5. CASE DirectOn(op)
  BY <1>1, <1>2, <1>3, <1>5 DEF DirectOn
<1> QED BY <1>4, <1>5

\* Executing an operation to its end keeps the types.
LEMMA FinishType ==
  ASSUME TypeOK, NEW c \in Conns, Executing(c), Finish(c)
  PROVE  /\ finished' \in Seq(1 .. Len(ops)) /\ cur' \in [Conns -> 0 .. Len(ops)]
         /\ at' \in [Conns -> Nat]
<1>1. cur[c] \in 1 .. Len(ops) /\ Len(ops) \in Nat
  BY CurStmtType DEF TypeOK
<1> QED BY <1>1 DEF Finish, TypeOK

\* Every action keeps the types.
LEMMA TypeStep == TypeOK /\ [Next]_vars => TypeOK'
<1> SUFFICES ASSUME TypeOK, [Next]_vars PROVE TypeOK'
  OBVIOUS
<1> USE ConfigAssumption
<1>a. Len(ops) \in Nat
  BY DEF TypeOK
<1>1. ASSUME NEW t \in Threads, ClientNext(t) PROVE TypeOK'
  <2>0. trans[t].stmts \in Seq(Stmt)
    BY DEF TypeOK
  <2>1. CASE BeginTransaction(t)
    BY <2>1 DEF TypeOK, BeginTransaction, connVars
  <2>2. CASE RollbackTransaction(t)
    BY <2>2 DEF TypeOK, RollbackTransaction, connVars, NoTrans
  <2>3. ASSUME NEW k \in Kinds, ExecuteInTransaction(t, k) PROVE TypeOK'
    <3>1. NewStmt(t, k) \in Stmt /\ issued' \in 0 .. MaxStmts
      BY <2>3, NewStmtType DEF TypeOK, ExecuteInTransaction
    <3>2. trans' \in [Threads -> [open : BOOLEAN, stmts : Seq(Stmt)]]
      BY <2>3, <3>1 DEF TypeOK, ExecuteInTransaction
    <3> QED BY <2>3, <3>1, <3>2 DEF TypeOK, ExecuteInTransaction, connVars
  <2>4. ASSUME NEW k \in Kinds, ExecuteAsync(t, k) \/ DirectExecute(t, k) PROVE TypeOK'
    <3> DEFINE o(d) == [by |-> t, stmts |-> <<NewStmt(t, k)>>, tx |-> FALSE,
                        direct |-> d, late |-> FALSE]
    <3>1. /\ issued' \in 0 .. MaxStmts
          /\ \A d \in BOOLEAN : o(d) \in Op
      BY <2>4, NewStmtType DEF TypeOK, ExecuteAsync, DirectExecute, Op
    <3>2. \E d \in BOOLEAN : AddToDelayQueue(o(d)) \/ DirectOn(o(d))
      BY <2>4 DEF ExecuteAsync, DirectExecute
    <3>3. /\ ops' \in Seq(Op) /\ delayQueue' \in Seq(1 .. Len(ops'))
          /\ cur' \in [Conns -> 0 .. Len(ops')] /\ at' \in [Conns -> Nat]
          /\ finished \in Seq(1 .. Len(ops'))
      BY <3>1, <3>2, NewOpType
    <3> QED BY <2>4, <3>1, <3>3
         DEF TypeOK, ExecuteAsync, DirectExecute, connVars
  <2>5. CASE CommitTransaction(t) \/ CommitTransactionDirect(t)
    <3> DEFINE o(d) == [by |-> t, stmts |-> trans[t].stmts, tx |-> TRUE,
                        direct |-> d, late |-> FALSE]
    <3>1. \A d \in BOOLEAN : o(d) \in Op
      BY <2>0 DEF Op
    <3>2. \E d \in BOOLEAN : AddToDelayQueue(o(d)) \/ DirectOn(o(d))
      BY <2>5 DEF CommitTransaction, CommitTransactionDirect
    <3>3. /\ ops' \in Seq(Op) /\ delayQueue' \in Seq(1 .. Len(ops'))
          /\ cur' \in [Conns -> 0 .. Len(ops')] /\ at' \in [Conns -> Nat]
          /\ finished \in Seq(1 .. Len(ops'))
      BY <3>1, <3>2, NewOpType
    <3>4. trans' \in [Threads -> [open : BOOLEAN, stmts : Seq(Stmt)]]
      <4>1. trans' = [trans EXCEPT ![t] = NoTrans]
        BY <2>5 DEF CommitTransaction, CommitTransactionDirect
      <4> QED BY <4>1 DEF TypeOK, NoTrans
    <3>5. /\ phase' = phase /\ halt' = halt /\ issued' = issued /\ wpc' = wpc
          /\ UNCHANGED connVars /\ finished' = finished
      BY <2>5 DEF CommitTransaction, CommitTransactionDirect
    <3> QED BY <3>3, <3>4, <3>5 DEF TypeOK, connVars
  <2> QED BY <1>1, <2>1, <2>2, <2>3, <2>4, <2>5 DEF ClientNext
<1>2. ASSUME NEW c \in Conns, ConnNext(c) PROVE TypeOK'
  <2>1. CASE SkipEmpty(c)
    BY <2>1, FinishType DEF TypeOK, SkipEmpty, Steps, clientVars, connVars
  <2>2. CASE BeginOnServer(c)
    BY <2>2 DEF TypeOK, BeginOnServer, Steps, clientVars
  <2>3. CASE ExecuteStmt(c)
    <3>1. CurStmt(c) \in Stmt
      BY <2>3, CurStmtType DEF ExecuteStmt, Steps
    <3>2. pending' \in [Conns -> Seq(Stmt)] /\ db' \in Seq(Stmt)
      <4>1. Append(pending[c], CurStmt(c)) \in Seq(Stmt) /\ Append(db, CurStmt(c)) \in Seq(Stmt)
        BY <3>1 DEF TypeOK
      <4> QED BY <2>3, <4>1 DEF ExecuteStmt, Apply, TypeOK
    <3>3. finished' \in Seq(1 .. Len(ops)) /\ cur' \in [Conns -> 0 .. Len(ops)]
          /\ at' \in [Conns -> Nat]
      BY <2>3, FinishType DEF ExecuteStmt, Steps, TypeOK
    <3> QED BY <2>3, <3>2, <3>3 DEF TypeOK, ExecuteStmt, Steps, clientVars
  <2>4. CASE RejectStmt(c) \/ FailOnDeadLink(c) \/ ReconnectFails(c)
    <3>1. finished' \in Seq(1 .. Len(ops)) /\ cur' \in [Conns -> 0 .. Len(ops)]
          /\ at' \in [Conns -> Nat]
      BY <2>4, FinishType DEF RejectStmt, FailOnDeadLink, ReconnectFails, FailOp, Steps
    <3>2. inTx' \in [Conns -> BOOLEAN] /\ pending' \in [Conns -> Seq(Stmt)]
      <4>1. FailOp(c)
        BY <2>4 DEF RejectStmt, FailOnDeadLink, ReconnectFails
      <4> QED BY <4>1 DEF TypeOK, FailOp
    <3>3. link' \in [Conns -> {"up", "gone", "null"}]
      BY <2>4 DEF TypeOK, RejectStmt, FailOnDeadLink, ReconnectFails
    <3>4. /\ phase' = phase /\ halt' = halt /\ UNCHANGED clientVars /\ ops' = ops
          /\ delayQueue' = delayQueue /\ wpc' = wpc /\ db' = db /\ drops' = drops
      BY <2>4 DEF RejectStmt, FailOnDeadLink, ReconnectFails, FailOp, Steps
    <3> QED BY <3>1, <3>2, <3>3, <3>4 DEF TypeOK, clientVars
  <2>5. CASE BeginOnNull(c) \/ FatalStmt(c) \/ RollbackOnNull(c)
    BY <2>5 DEF TypeOK, BeginOnNull, FatalStmt, RollbackOnNull, Crash, clientVars, connVars
  <2>6. CASE Reconnect(c)
    BY <2>6 DEF TypeOK, Reconnect, Steps, clientVars
  <2>7. CASE Commit(c) \/ LostCommitReply(c)
    <3>1. finished' \in Seq(1 .. Len(ops)) /\ cur' \in [Conns -> 0 .. Len(ops)]
          /\ at' \in [Conns -> Nat]
      BY <2>7, FinishType DEF Commit, LostCommitReply, Steps
    <3>2. db' \in Seq(Stmt) /\ pending' \in [Conns -> Seq(Stmt)]
      <4>1. db \o pending[c] \in Seq(Stmt)
        BY ConcatProperties DEF TypeOK
      <4>2. db' = db \o pending[c] /\ pending' = [pending EXCEPT ![c] = <<>>]
        BY <2>7 DEF Commit, LostCommitReply, Gone
      <4> QED BY <4>1, <4>2 DEF TypeOK
    <3>3. drops' \in 0 .. MaxDrops
      BY <2>7 DEF Commit, LostCommitReply, Gone, TypeOK
    <3> QED BY <2>7, <3>1, <3>2, <3>3
         DEF TypeOK, Commit, LostCommitReply, Gone, Steps, clientVars
  <2>8. CASE LostReply(c)
    <3>1. db' \in Seq(Stmt)
      BY <2>8, CurStmtType DEF LostReply, Steps, TypeOK
    <3>2. drops' \in 0 .. MaxDrops
      BY <2>8 DEF LostReply, Gone, TypeOK
    <3> QED BY <2>8, <3>1, <3>2 DEF TypeOK, LostReply, Gone, Steps, clientVars
  <2> QED BY <1>2, <2>1, <2>2, <2>3, <2>4, <2>5, <2>6, <2>7, <2>8 DEF ConnNext
<1>3. ASSUME NEW c \in Conns, Drop(c) PROVE TypeOK'
  BY <1>3 DEF TypeOK, Drop, Gone, clientVars
<1>4. ASSUME NEW w \in Workers, WorkerNext(w) PROVE TypeOK'
  <2>0. w \in Conns
    BY DEF Conns
  <2>1. CASE CheckRunning(w) \/ QueueEmpty(w)
    BY <2>1 DEF TypeOK, CheckRunning, QueueEmpty, WorkerSteps, clientVars
  <2>2. CASE NextDelayedOperation(w)
    <3>1. Head(delayQueue) \in 0 .. Len(ops) /\ Tail(delayQueue) \in Seq(1 .. Len(ops))
      BY <2>2, <1>a DEF TypeOK, NextDelayedOperation
    <3> QED BY <2>0, <2>2, <3>1 DEF TypeOK, NextDelayedOperation, WorkerSteps, clientVars
  <2>3. CASE Ping(w)
    BY <2>3 DEF TypeOK, Ping, WorkerSteps, clientVars
  <2> QED BY <1>4, <2>1, <2>2, <2>3 DEF WorkerNext
<1>5. CASE MainNext
  <2>1. CASE AllowAsyncTransactions \/ CloseConnections
    BY <2>1 DEF TypeOK, AllowAsyncTransactions, CloseConnections, clientVars, connVars
  <2>4. CASE StopServer
    <3>1. halt' \in 0 .. NWorkers
      BY <2>4 DEF StopServer, ConfigAssumption
    <3>2. trans' \in [Threads -> [open : BOOLEAN, stmts : Seq(Stmt)]]
      BY <2>4 DEF StopServer, NoTrans
    <3> QED BY <2>4, <3>1, <3>2 DEF TypeOK, StopServer, connVars
  <2>2. ASSUME NEW t \in Threads, NEW k \in Kinds, CancelledCallbackWrites(t, k)
        PROVE  TypeOK'
    <3> DEFINE o == [by |-> t, stmts |-> <<NewStmt(t, k)>>, tx |-> FALSE,
                     direct |-> FALSE, late |-> TRUE]
    <3>1. issued' \in 0 .. MaxStmts /\ o \in Op
      BY <2>2, NewStmtType DEF TypeOK, CancelledCallbackWrites, Op
    <3>2. AddToDelayQueue(o)
      BY <2>2 DEF CancelledCallbackWrites
    <3>3. /\ ops' \in Seq(Op) /\ delayQueue' \in Seq(1 .. Len(ops'))
          /\ cur' \in [Conns -> 0 .. Len(ops')] /\ at' \in [Conns -> Nat]
          /\ finished \in Seq(1 .. Len(ops'))
      BY <3>1, <3>2, NewOpType
    <3> QED BY <2>2, <3>1, <3>3 DEF TypeOK, CancelledCallbackWrites, connVars
  <2>3. ASSUME NEW w \in Workers, JoinWorker(w) \/ DeleteWorker(w) PROVE TypeOK'
    <3>1. halt' \in 0 .. NWorkers
      BY <2>3 DEF JoinWorker, DeleteWorker, TypeOK, Workers, ConfigAssumption
    <3>2. wpc' \in [Workers -> {"check", "process", "ping", "exited", "drain", "deleted"}]
      BY <2>3 DEF JoinWorker, DeleteWorker, TypeOK
    <3>3. phase' \in {"halting", "cancelling"}
      BY <2>3 DEF JoinWorker, DeleteWorker
    <3>4. /\ UNCHANGED clientVars /\ ops' = ops /\ delayQueue' = delayQueue
          /\ cur' = cur /\ at' = at /\ UNCHANGED connVars /\ finished' = finished
      BY <2>3 DEF JoinWorker, DeleteWorker
    <3> QED BY <3>1, <3>2, <3>3, <3>4 DEF TypeOK, clientVars, connVars
  <2> QED BY <1>5, <2>1, <2>2, <2>3, <2>4 DEF MainNext
<1>6. CASE UNCHANGED vars
  BY <1>6 DEF TypeOK, vars
<1> QED BY <1>1, <1>2, <1>3, <1>4, <1>5, <1>6 DEF Next

\* Type correctness of the write path, for every configuration: no worker,
\* client or shutdown step takes a variable out of its type.
THEOREM TypeCorrect == Spec => []TypeOK
<1>1. Init => TypeOK
  BY ConfigAssumption DEF Init, TypeOK, NoTrans
<1> QED BY <1>1, TypeStep, PTL DEF Spec

-----------------------------------------------------------------------------
(* The inductive invariant. *)

\* No operation is lost: it is queued, on a connection, or finished.
Accounted ==
  \A n \in 1 .. Len(ops) :
    InQueue(n) \/ IsFinished(n) \/ \E c \in Conns : cur[c] = n

\* How far the shutdown has come: HaltDelayThread joins, drains and deletes
\* the workers in order, only a worker in its loop or draining holds an
\* operation, and afterwards only the writes of cancelled callbacks arrive.
HaltOrder ==
  /\ phase \in {"startup", "running"} => halt = 0
  /\ phase = "halting" =>
       /\ halt \in Workers /\ cur[AsyncConn] = 0
       /\ \A w \in Workers : w < halt => wpc[w] = "deleted"
  /\ \A w \in Workers : cur[w] # 0 => wpc[w] \in {"process", "drain"}
  /\ \A w \in Workers : wpc[w] = "drain" => halt = w
  /\ phase \in {"cancelling", "stopped"} =>
       /\ \A c \in Conns : cur[c] = 0
       /\ \A i \in 1 .. Len(delayQueue) : ops[delayQueue[i]].late

IInv == TypeOK /\ OwnedOnce /\ Accounted /\ HaltOrder

-----------------------------------------------------------------------------
(* What a step can do to the owner of an operation: nothing, create one,   *)
(* finish the one on a connection, or move one from the queue to a worker. *)

Same    == UNCHANGED <<ops, delayQueue, cur, finished>>
Creates(op) == (AddToDelayQueue(op) \/ DirectOn(op)) /\ UNCHANGED finished
Ends(c) == Executing(c) /\ Finish(c) /\ UNCHANGED <<ops, delayQueue>>
Pops(w) ==
  /\ delayQueue # <<>> /\ cur[w] = 0
  /\ cur' = [cur EXCEPT ![w] = Head(delayQueue)]
  /\ delayQueue' = Tail(delayQueue)
  /\ UNCHANGED <<ops, finished>>

\* Every step does one of the four.
LEMMA FourKinds ==
  ASSUME TypeOK, [Next]_vars
  PROVE  \/ Same
         \/ \E op \in Op : Creates(op)
         \/ \E c \in Conns : Ends(c)
         \/ \E w \in Workers : Pops(w)
<1> DEFINE Goal == \/ Same
                   \/ \E op \in Op : Creates(op)
                   \/ \E c \in Conns : Ends(c)
                   \/ \E w \in Workers : Pops(w)
<1> HIDE DEF Goal
<1> USE ConfigAssumption
<1>1. ASSUME NEW t \in Threads, ClientNext(t) PROVE Goal
  <2>0. trans[t].stmts \in Seq(Stmt)
    BY DEF TypeOK
  <2>1. CASE BeginTransaction(t) \/ RollbackTransaction(t)
             \/ \E k \in Kinds : ExecuteInTransaction(t, k)
    BY <2>1 DEF Goal, Same, BeginTransaction, RollbackTransaction, ExecuteInTransaction
  <2>2. ASSUME NEW k \in Kinds, ExecuteAsync(t, k) \/ DirectExecute(t, k) PROVE Goal
    <3> DEFINE o(d) == [by |-> t, stmts |-> <<NewStmt(t, k)>>, tx |-> FALSE,
                        direct |-> d, late |-> FALSE]
    <3>1. \A d \in BOOLEAN : o(d) \in Op
      BY <2>2, NewStmtType DEF TypeOK, ExecuteAsync, DirectExecute, Op
    <3>2. \E d \in BOOLEAN : Creates(o(d))
      BY <2>2 DEF Creates, ExecuteAsync, DirectExecute
    <3> HIDE DEF o
    <3> QED BY <3>1, <3>2 DEF Goal
  <2>3. CASE CommitTransaction(t) \/ CommitTransactionDirect(t)
    <3> DEFINE o(d) == [by |-> t, stmts |-> trans[t].stmts, tx |-> TRUE,
                        direct |-> d, late |-> FALSE]
    <3>1. \A d \in BOOLEAN : o(d) \in Op
      BY <2>0 DEF Op
    <3>2. \E d \in BOOLEAN : Creates(o(d))
      BY <2>3 DEF Creates, CommitTransaction, CommitTransactionDirect
    <3> HIDE DEF o
    <3> QED BY <3>1, <3>2 DEF Goal
  <2> QED BY <1>1, <2>1, <2>2, <2>3 DEF ClientNext
<1>2. ASSUME NEW c \in Conns, ConnNext(c) PROVE Goal
  <2>1. CASE SkipEmpty(c) \/ RejectStmt(c) \/ FailOnDeadLink(c)
             \/ ReconnectFails(c) \/ Commit(c) \/ LostCommitReply(c)
    <3>1. Ends(c)
      BY <2>1 DEF Ends, SkipEmpty, RejectStmt, FailOnDeadLink, ReconnectFails,
                  Commit, LostCommitReply, FailOp, Steps
    <3> QED BY <3>1 DEF Goal
  <2>2. CASE ExecuteStmt(c)
    <3>1. Ends(c) \/ Same
      BY <2>2 DEF Ends, Same, ExecuteStmt, Steps
    <3> QED BY <3>1 DEF Goal
  <2>3. CASE BeginOnServer(c) \/ BeginOnNull(c) \/ FatalStmt(c) \/ Reconnect(c)
             \/ RollbackOnNull(c) \/ LostReply(c)
    <3>1. Same
      BY <2>3 DEF Same, BeginOnServer, BeginOnNull, FatalStmt, Reconnect,
                  RollbackOnNull, LostReply, Crash, Steps
    <3> QED BY <3>1 DEF Goal
  <2> QED BY <1>2, <2>1, <2>2, <2>3 DEF ConnNext
<1>3. ASSUME NEW c \in Conns, Drop(c) PROVE Goal
  BY <1>3 DEF Goal, Same, Drop
<1>4. ASSUME NEW w \in Workers, WorkerNext(w) PROVE Goal
  <2>1. CASE CheckRunning(w) \/ QueueEmpty(w) \/ Ping(w)
    <3>1. Same
      BY <2>1 DEF Same, CheckRunning, QueueEmpty, Ping, WorkerSteps
    <3> QED BY <3>1 DEF Goal
  <2>2. CASE NextDelayedOperation(w)
    <3>1. Pops(w)
      BY <2>2 DEF Pops, NextDelayedOperation, WorkerSteps
    <3> QED BY <3>1 DEF Goal
  <2> QED BY <1>4, <2>1, <2>2 DEF WorkerNext
<1>5. CASE MainNext
  <2>1. CASE AllowAsyncTransactions \/ StopServer \/ CloseConnections
    BY <2>1 DEF Goal, Same, AllowAsyncTransactions, StopServer, CloseConnections
  <2>3. ASSUME NEW w \in Workers, JoinWorker(w) \/ DeleteWorker(w) PROVE Goal
    BY <2>3 DEF Goal, Same, JoinWorker, DeleteWorker
  <2>2. ASSUME NEW t \in Threads, NEW k \in Kinds, CancelledCallbackWrites(t, k)
        PROVE  Goal
    <3> DEFINE o == [by |-> t, stmts |-> <<NewStmt(t, k)>>, tx |-> FALSE,
                     direct |-> FALSE, late |-> TRUE]
    <3>1. o \in Op
      BY <2>2, NewStmtType DEF TypeOK, CancelledCallbackWrites, Op
    <3>2. Creates(o)
      BY <2>2 DEF Creates, CancelledCallbackWrites
    <3> HIDE DEF o
    <3> QED BY <3>1, <3>2 DEF Goal
  <2> QED BY <1>5, <2>1, <2>2, <2>3 DEF MainNext, Goal
<1>6. CASE UNCHANGED vars
  BY <1>6 DEF Goal, Same, vars
<1> QED BY <1>1, <1>2, <1>3, <1>4, <1>5, <1>6 DEF Next, Goal

\* What Append and Tail do to the members of a sequence and their repetition.
LEMMA AppendMembers ==
  ASSUME NEW S, NEW s \in Seq(S), NEW e \in S
  PROVE  /\ \A n : (\E i \in 1 .. Len(Append(s, e)) : Append(s, e)[i] = n)
                     <=> (\E i \in 1 .. Len(s) : s[i] = n) \/ n = e
         /\ ~(\E i \in 1 .. Len(s) : s[i] = e)
            /\ (\A i, j \in 1 .. Len(s) : i # j => s[i] # s[j])
            => \A i, j \in 1 .. Len(Append(s, e)) :
                 i # j => Append(s, e)[i] # Append(s, e)[j]
<1> DEFINE a == Append(s, e)
<1>1. /\ Len(s) \in Nat /\ Len(a) = Len(s) + 1 /\ a[Len(s) + 1] = e
      /\ \A i \in 1 .. Len(s) : a[i] = s[i]
  OBVIOUS
<1> HIDE DEF a
<1>2. \A n : (\E i \in 1 .. Len(a) : a[i] = n)
               <=> (\E i \in 1 .. Len(s) : s[i] = n) \/ n = e
  <2>1. \A i : i \in 1 .. Len(a) <=> i \in 1 .. Len(s) \/ i = Len(s) + 1
    BY <1>1
  <2> QED BY <1>1, <2>1
<1>3. ASSUME ~(\E i \in 1 .. Len(s) : s[i] = e),
             \A i, j \in 1 .. Len(s) : i # j => s[i] # s[j]
      PROVE  \A i, j \in 1 .. Len(a) : i # j => a[i] # a[j]
  BY <1>1, <1>3
<1> QED BY <1>2, <1>3 DEF a

LEMMA TailMembers ==
  ASSUME NEW S, NEW s \in Seq(S), s # <<>>,
         \A i, j \in 1 .. Len(s) : i # j => s[i] # s[j]
  PROVE  /\ \A n : (\E i \in 1 .. Len(Tail(s)) : Tail(s)[i] = n)
                     <=> (\E i \in 1 .. Len(s) : s[i] = n) /\ n # Head(s)
         /\ \A i, j \in 1 .. Len(Tail(s)) : i # j => Tail(s)[i] # Tail(s)[j]
<1> DEFINE q == Tail(s)
<1>1. /\ Len(s) \in Nat \ {0} /\ Len(q) = Len(s) - 1 /\ Head(s) = s[1]
      /\ \A i \in 1 .. Len(q) : q[i] = s[i + 1]
  OBVIOUS
<1> HIDE DEF q
<1>2. ASSUME NEW n
      PROVE  (\E i \in 1 .. Len(q) : q[i] = n)
               <=> (\E i \in 1 .. Len(s) : s[i] = n) /\ n # Head(s)
  <2>1. ASSUME NEW i \in 1 .. Len(q), q[i] = n
        PROVE  (\E j \in 1 .. Len(s) : s[j] = n) /\ n # Head(s)
    <3>1. i + 1 \in 1 .. Len(s) /\ i + 1 # 1 /\ 1 \in 1 .. Len(s)
      BY <1>1
    <3> QED BY <1>1, <2>1, <3>1
  <2>2. ASSUME NEW i \in 1 .. Len(s), s[i] = n, n # Head(s)
        PROVE  \E j \in 1 .. Len(q) : q[j] = n
    <3>1. i - 1 \in 1 .. Len(q) /\ (i - 1) + 1 = i
      BY <1>1, <2>2
    <3> QED BY <1>1, <2>2, <3>1
  <2> QED BY <2>1, <2>2
<1>3. \A i, j \in 1 .. Len(q) : i # j => q[i] # q[j]
  BY <1>1
<1> QED BY <1>2, <1>3 DEF q

\* A new operation has a number that nothing refers to yet.
LEMMA OwnedNew ==
  ASSUME TypeOK, OwnedOnce, Accounted, NEW op \in Op, Creates(op)
  PROVE  OwnedOnce' /\ Accounted'
<1>0. /\ ops' = Append(ops, op) /\ finished' = finished
      /\ ops \in Seq(Op) /\ delayQueue \in Seq(1 .. Len(ops))
      /\ finished \in Seq(1 .. Len(ops)) /\ cur \in [Conns -> 0 .. Len(ops)]
      /\ Len(ops') = Len(ops) + 1 /\ Len(ops) \in Nat
  BY DEF TypeOK, Creates, AddToDelayQueue, DirectOn
<1> DEFINE m == Len(ops) + 1
<1>a. /\ m \notin 1 .. Len(ops) /\ m \notin 0 .. Len(ops) /\ m # 0
      /\ \A n : n \in 1 .. Len(ops') <=> n \in 1 .. Len(ops) \/ n = m
  BY <1>0
<1>b. ~InQueue(m) /\ ~IsFinished(m) /\ \A c \in Conns : cur[c] # m
  BY <1>0, <1>a DEF InQueue, IsFinished
<1>c. \A n : IsFinished(n)' <=> IsFinished(n)
  BY <1>0 DEF IsFinished
<1>1. CASE AddToDelayQueue(op)
  <2>1. delayQueue' = Append(delayQueue, m) /\ cur' = cur
    BY <1>0, <1>1 DEF AddToDelayQueue
  <2>2. delayQueue \in Seq(Nat) /\ m \in Nat
    <3>1. 1 .. Len(ops) \subseteq Nat
      BY <1>0
    <3> QED BY <1>0, <3>1
  <2>3. /\ \A n : InQueue(n)' <=> InQueue(n) \/ n = m
        /\ \A i, j \in 1 .. Len(delayQueue') : i # j => delayQueue'[i] # delayQueue'[j]
    BY <1>b, <2>1, <2>2, AppendMembers DEF InQueue, OwnedOnce
  <2> HIDE DEF m
  <2>4. OwnedOnce'
    BY <1>0, <1>a, <1>b, <1>c, <2>1, <2>3 DEF OwnedOnce
  <2>5. Accounted'
    BY <1>a, <1>c, <2>1, <2>3 DEF Accounted
  <2> QED BY <2>4, <2>5
<1>2. CASE DirectOn(op)
  <2>0. AsyncConn \in Conns
    BY DEF Conns
  <2>1. /\ delayQueue' = delayQueue /\ cur[AsyncConn] = 0
        /\ cur' = [cur EXCEPT ![AsyncConn] = m]
    BY <1>0, <1>2 DEF DirectOn
  <2>2. \A n : InQueue(n)' <=> InQueue(n)
    BY <2>1 DEF InQueue
  <2>3. /\ cur'[AsyncConn] = m
        /\ \A c \in Conns : c # AsyncConn => cur'[c] = cur[c]
    BY <1>0, <2>0, <2>1
  <2> HIDE DEF m
  <2>4. OwnedOnce'
    BY <1>0, <1>a, <1>b, <1>c, <2>0, <2>1, <2>2, <2>3 DEF OwnedOnce
  <2>5. Accounted'
    <3>1. \A n \in 1 .. Len(ops) : (\E c \in Conns : cur[c] = n) => \E c \in Conns : cur'[c] = n
      BY <1>0, <2>1, <2>3
    <3> QED BY <1>a, <1>c, <2>0, <2>2, <2>3, <3>1 DEF Accounted
  <2> QED BY <2>4, <2>5
<1> QED BY <1>1, <1>2 DEF Creates

\* Finish moves an operation from its connection to the finished ones.
LEMMA OwnedEnd ==
  ASSUME TypeOK, OwnedOnce, Accounted, NEW c \in Conns, Ends(c)
  PROVE  OwnedOnce' /\ Accounted'
<1>0. /\ ops' = ops /\ delayQueue' = delayQueue
      /\ finished' = Append(finished, cur[c]) /\ cur' = [cur EXCEPT ![c] = 0]
      /\ cur[c] \in 1 .. Len(ops) /\ Len(ops) \in Nat
      /\ delayQueue \in Seq(1 .. Len(ops))
      /\ finished \in Seq(1 .. Len(ops)) /\ cur \in [Conns -> 0 .. Len(ops)]
  BY CurStmtType DEF TypeOK, Ends, Finish
<1>1. \A n : IsFinished(n)' <=> IsFinished(n) \/ n = cur[c]
  <2>1. \A n : (\E i \in 1 .. Len(Append(finished, cur[c])) : Append(finished, cur[c])[i] = n)
                 <=> (\E i \in 1 .. Len(finished) : finished[i] = n) \/ n = cur[c]
    BY <1>0, AppendMembers
  <2> QED BY <1>0, <2>1 DEF IsFinished
<1>2. \A n : InQueue(n)' <=> InQueue(n)
  BY <1>0 DEF InQueue
<1>3. ~IsFinished(cur[c]) /\ ~InQueue(cur[c])
  BY <1>0 DEF OwnedOnce
<1>4. \A i, j \in 1 .. Len(finished') : i # j => finished'[i] # finished'[j]
  BY <1>0, <1>3, AppendMembers DEF OwnedOnce, IsFinished
<1>5. OwnedOnce'
  BY <1>0, <1>1, <1>2, <1>3, <1>4 DEF OwnedOnce
<1>6. Accounted'
  BY <1>0, <1>1, <1>2 DEF Accounted
<1> QED BY <1>5, <1>6

\* A worker takes the head of the queue, and the queue no longer has it.
LEMMA OwnedPop ==
  ASSUME TypeOK, OwnedOnce, Accounted, NEW w \in Workers, Pops(w)
  PROVE  OwnedOnce' /\ Accounted'
<1> DEFINE h == Head(delayQueue)
<1>0. /\ ops' = ops /\ finished' = finished
      /\ delayQueue' = Tail(delayQueue) /\ cur' = [cur EXCEPT ![w] = h]
      /\ cur[w] = 0 /\ w \in Conns
      /\ h \in 1 .. Len(ops) /\ Len(ops) \in Nat
      /\ delayQueue \in Seq(1 .. Len(ops)) /\ delayQueue # <<>>
      /\ finished \in Seq(1 .. Len(ops)) /\ cur \in [Conns -> 0 .. Len(ops)]
  BY DEF TypeOK, Pops, Conns
<1>1. \A n : IsFinished(n)' <=> IsFinished(n)
  BY <1>0 DEF IsFinished
<1>2. \A n : InQueue(n)' <=> InQueue(n) /\ n # h
  <2>1. \A i, j \in 1 .. Len(delayQueue) : i # j => delayQueue[i] # delayQueue[j]
    BY DEF OwnedOnce
  <2>2. \A n : (\E i \in 1 .. Len(Tail(delayQueue)) : Tail(delayQueue)[i] = n)
                 <=> (\E i \in 1 .. Len(delayQueue) : delayQueue[i] = n) /\ n # h
    BY <1>0, <2>1, TailMembers
  <2> QED BY <1>0, <2>2 DEF InQueue
<1>3. InQueue(h) /\ ~IsFinished(h) /\ \A c \in Conns : cur[c] # h
  BY <1>0 DEF OwnedOnce, InQueue
<1>4. \A i, j \in 1 .. Len(delayQueue') : i # j => delayQueue'[i] # delayQueue'[j]
  BY <1>0, TailMembers DEF OwnedOnce
<1> HIDE DEF h
<1>5. OwnedOnce'
  BY <1>0, <1>1, <1>2, <1>3, <1>4 DEF OwnedOnce
<1>6. Accounted'
  BY <1>0, <1>1, <1>2 DEF Accounted
<1> QED BY <1>5, <1>6

\* So every step keeps the owners.
LEMMA OwnedStep ==
  ASSUME TypeOK, OwnedOnce, Accounted, [Next]_vars
  PROVE  OwnedOnce' /\ Accounted'
<1>1. CASE Same
  BY <1>1 DEF Same, OwnedOnce, Accounted, InQueue, IsFinished
<1> QED BY <1>1, FourKinds, OwnedNew, OwnedEnd, OwnedPop

-----------------------------------------------------------------------------
(* The shutdown. *)

\* Every step keeps the order of the shutdown.
LEMMA HaltStep ==
  ASSUME IInv, TypeOK', [Next]_vars
  PROVE  HaltOrder'
<1> USE ConfigAssumption
<1>0. TypeOK /\ HaltOrder
  BY DEF IInv
<1>1. ASSUME NEW t \in Threads, ClientNext(t) PROVE HaltOrder'
  <2>1. phase \in {"startup", "running"} /\ phase' = phase /\ halt' = halt /\ wpc' = wpc
    BY <1>1 DEF ClientNext, BeginTransaction, CommitTransaction, Calls,
         CommitTransactionDirect, RollbackTransaction, ExecuteInTransaction,
         ExecuteAsync, DirectExecute
  <2>2. \A w \in Workers : cur'[w] = cur[w]
    <3>1. \/ cur' = cur
          \/ \E op : DirectOn(op)
      BY <1>1 DEF ClientNext, BeginTransaction, CommitTransaction, AddToDelayQueue,
         CommitTransactionDirect, RollbackTransaction, ExecuteInTransaction,
         ExecuteAsync, DirectExecute
    <3>2. \A w \in Workers : w # AsyncConn /\ w \in Conns
      BY DEF Workers, AsyncConn, Conns
    <3> QED BY <1>0, <3>1, <3>2 DEF DirectOn, TypeOK
  <2> QED BY <1>0, <2>1, <2>2 DEF HaltOrder
<1>2. ASSUME NEW c \in Conns, ConnNext(c) PROVE HaltOrder'
  <2>0. cur[c] # 0 /\ phase \in {"startup", "running", "halting"}
    BY <1>0, <1>2 DEF ConnNext, SkipEmpty, BeginOnServer, BeginOnNull, ExecuteStmt,
         RejectStmt, FatalStmt, FailOnDeadLink, Reconnect, ReconnectFails,
         RollbackOnNull, Commit, LostReply, LostCommitReply, Steps, Executing, Alive, TypeOK
  <2>1. (phase' = phase \/ phase' = "crashed") /\ halt' = halt /\ wpc' = wpc
    BY <1>2 DEF ConnNext, SkipEmpty, BeginOnServer, BeginOnNull, ExecuteStmt,
         RejectStmt, FatalStmt, FailOnDeadLink, Reconnect, ReconnectFails,
         RollbackOnNull, Commit, LostReply, LostCommitReply, Steps, Crash
  <2>2. cur' = cur \/ cur' = [cur EXCEPT ![c] = 0]
    BY <1>2 DEF ConnNext, SkipEmpty, BeginOnServer, BeginOnNull, ExecuteStmt,
         RejectStmt, FatalStmt, FailOnDeadLink, Reconnect, ReconnectFails,
         RollbackOnNull, Commit, LostReply, LostCommitReply, FailOp, Finish, Crash
  <2>3. \A d \in Conns : cur'[d] = cur[d] \/ cur'[d] = 0
    BY <1>0, <2>2 DEF TypeOK
  <2> QED BY <1>0, <2>0, <2>1, <2>3 DEF HaltOrder, Conns
<1>3. ASSUME NEW c \in Conns, Drop(c) PROVE HaltOrder'
  BY <1>0, <1>3 DEF HaltOrder, Drop
<1>4. ASSUME NEW w \in Workers, WorkerNext(w) PROVE HaltOrder'
  <2>1. Alive /\ phase' = phase /\ halt' = halt /\ cur[w] = 0 /\ ops' = ops
    BY <1>4 DEF WorkerNext, CheckRunning, NextDelayedOperation, QueueEmpty, Ping, WorkerSteps
  <2>2. CASE CheckRunning(w) \/ QueueEmpty(w) \/ Ping(w)
    <3>1. /\ cur' = cur /\ wpc[w] \in {"check", "process", "ping"}
          /\ \E pc \in {"check", "process", "ping", "exited"} : wpc' = [wpc EXCEPT ![w] = pc]
      BY <2>2 DEF CheckRunning, QueueEmpty, Ping
    <3>2. /\ wpc'[w] # "drain" /\ wpc[w] # "deleted"
          /\ \A v \in Workers : v # w => wpc'[v] = wpc[v]
      BY <1>0, <3>1 DEF TypeOK
    <3> QED BY <1>0, <2>1, <3>1, <3>2 DEF HaltOrder, Alive
  <2>3. CASE NextDelayedOperation(w)
    <3>1. wpc' = wpc /\ wpc[w] \in {"process", "drain"} /\ w # AsyncConn
          /\ cur' = [cur EXCEPT ![w] = Head(delayQueue)]
      BY <2>3 DEF NextDelayedOperation, Workers, AsyncConn
    <3>2. w \in Conns /\ \A d \in Conns : d # w => cur'[d] = cur[d]
      BY <1>0, <3>1 DEF TypeOK, Conns
    <3> QED BY <1>0, <2>1, <3>1, <3>2 DEF HaltOrder, Alive, Conns
  <2> QED BY <1>4, <2>2, <2>3 DEF WorkerNext
<1>5. CASE MainNext
  <2>1. CASE AllowAsyncTransactions
    BY <1>0, <2>1 DEF HaltOrder, AllowAsyncTransactions
  <2>2. CASE StopServer
    <3>1. \A w \in Workers : ~(w < 1) /\ 1 \in Workers
      BY DEF Workers, ConfigAssumption
    <3>2. halt = 0 /\ \A w \in Workers : wpc[w] # "drain"
      <4>1. \A w \in Workers : w # 0
        BY DEF Workers
      <4> QED BY <1>0, <2>2, <4>1 DEF HaltOrder, StopServer
    <3>3. 1 \in Workers
      BY DEF Workers, ConfigAssumption
    <3> QED BY <1>0, <2>2, <3>1, <3>2, <3>3 DEF HaltOrder, StopServer
  <2>3. CASE CloseConnections
    BY <1>0, <2>3 DEF HaltOrder, CloseConnections
  <2>4. ASSUME NEW t \in Threads, NEW k \in Kinds, CancelledCallbackWrites(t, k)
        PROVE  HaltOrder'
    <3> DEFINE o == [by |-> t, stmts |-> <<NewStmt(t, k)>>, tx |-> FALSE,
                     direct |-> FALSE, late |-> TRUE]
    <3>1. /\ phase = "cancelling" /\ phase' = phase /\ halt' = halt /\ wpc' = wpc
          /\ cur' = cur /\ ops' = Append(ops, o) /\ delayQueue' = Append(delayQueue, Len(ops'))
      BY <2>4 DEF CancelledCallbackWrites, AddToDelayQueue
    <3>2. o.late /\ ops \in Seq(Op) /\ o \in Op /\ delayQueue \in Seq(1 .. Len(ops))
      BY <1>0, <2>4, NewStmtType DEF TypeOK, CancelledCallbackWrites, Op
    <3> HIDE DEF o
    <3>3. /\ Len(ops') = Len(ops) + 1 /\ Len(ops) \in Nat
          /\ \A n \in 1 .. Len(ops) : ops'[n] = ops[n]
          /\ ops'[Len(ops')] = o
      BY <3>1, <3>2, GrowOps
    <3>4. \A i \in 1 .. Len(delayQueue') :
            (i \in 1 .. Len(delayQueue) /\ delayQueue'[i] = delayQueue[i])
            \/ delayQueue'[i] = Len(ops')
      BY <3>1, <3>2
    <3>5. \A i \in 1 .. Len(delayQueue') : ops'[delayQueue'[i]].late
      BY <1>0, <3>1, <3>2, <3>3, <3>4 DEF HaltOrder
    <3> QED BY <1>0, <3>1, <3>5 DEF HaltOrder
  <2>5. ASSUME NEW w \in Workers, JoinWorker(w) PROVE HaltOrder'
    <3>1. /\ phase = "halting" /\ phase' = phase /\ halt' = halt /\ halt = w /\ cur' = cur
          /\ wpc[w] = "exited" /\ wpc' = [wpc EXCEPT ![w] = "drain"]
      BY <2>5 DEF JoinWorker
    <3>2. wpc'[w] = "drain" /\ \A v \in Workers : v # w => wpc'[v] = wpc[v]
      BY <1>0, <3>1 DEF TypeOK
    <3> QED BY <1>0, <3>1, <3>2 DEF HaltOrder
  <2>6. ASSUME NEW w \in Workers, DeleteWorker(w) PROVE HaltOrder'
    <3>1. /\ phase = "halting" /\ wpc[w] = "drain" /\ cur[w] = 0 /\ delayQueue = <<>>
          /\ delayQueue' = <<>> /\ cur' = cur /\ wpc' = [wpc EXCEPT ![w] = "deleted"]
          /\ halt' = IF w = NWorkers THEN w ELSE w + 1
          /\ phase' = IF w = NWorkers THEN "cancelling" ELSE phase
      BY <2>6 DEF DeleteWorker
    <3>2. wpc'[w] = "deleted" /\ \A v \in Workers : v # w => wpc'[v] = wpc[v]
      BY <1>0, <3>1 DEF TypeOK
    <3>3. halt = w /\ \A v \in Workers : v # w => wpc[v] # "drain"
      BY <1>0, <3>1 DEF HaltOrder
    <3>4. \A v \in Workers : v < w + 1 => wpc'[v] = "deleted"
      BY <1>0, <3>1, <3>2, <3>3 DEF HaltOrder, Workers
    <3>5. CASE w = NWorkers
      <4>1. \A v \in Workers : cur[v] = 0
        <5>1. \A v \in Workers : v # w => v < w
          BY <3>5, ConfigAssumption DEF Workers, ConfigAssumption
        <5> QED BY <1>0, <3>1, <3>3, <5>1 DEF HaltOrder
      <4>2. \A c \in Conns : cur'[c] = 0
        BY <1>0, <3>1, <4>1 DEF HaltOrder, Conns
      <4>3. Len(delayQueue') = 0
        BY <3>1
      <4> QED BY <1>0, <3>1, <3>2, <3>3, <3>5, <4>1, <4>2, <4>3 DEF HaltOrder
    <3>6. CASE w # NWorkers
      <4>1. w + 1 \in Workers
        BY <3>6 DEF Workers, ConfigAssumption
      <4> QED BY <1>0, <3>1, <3>2, <3>3, <3>4, <3>6, <4>1 DEF HaltOrder
    <3> QED BY <3>5, <3>6
  <2> QED BY <1>5, <2>1, <2>2, <2>3, <2>4, <2>5, <2>6 DEF MainNext
<1>6. CASE UNCHANGED vars
  BY <1>0, <1>6 DEF HaltOrder, vars
<1> QED BY <1>1, <1>2, <1>3, <1>4, <1>5, <1>6 DEF Next

\* The inductive invariant holds of the write path.
THEOREM Inductive == Spec => []IInv
<1>1. Init => IInv
  <2> SUFFICES ASSUME Init PROVE IInv
    OBVIOUS
  <2>1. TypeOK
    BY ConfigAssumption DEF Init, TypeOK, NoTrans
  <2>2. OwnedOnce /\ Accounted
    BY DEF Init, OwnedOnce, Accounted
  <2>3. HaltOrder
    BY DEF Init, HaltOrder, Conns
  <2> QED BY <2>1, <2>2, <2>3 DEF IInv
<1>2. IInv /\ [Next]_vars => IInv'
  BY TypeStep, OwnedStep, HaltStep DEF IInv
<1> QED BY <1>1, <1>2, PTL DEF Spec

\* Every operation has one owner, for any number of workers: the workers
\* that pop m_delayQueue and the shutdown that drains it never execute or
\* delete an operation twice.
THEOREM SingleOwner == Spec => []OwnedOnce
<1>1. IInv => OwnedOnce
  BY DEF IInv
<1> QED BY <1>1, Inductive, PTL

\* StopServer leaves no operation behind that was accepted before the last
\* worker was deleted, whatever the connections did meanwhile.
THEOREM Drained == Spec => []NothingLeftBehind
<1>1. IInv => NothingLeftBehind
  <2> SUFFICES ASSUME IInv, phase \in {"cancelling", "stopped"}, NEW n \in 1 .. Len(ops)
               PROVE  ops[n].late \/ IsFinished(n)
    BY DEF NothingLeftBehind
  <2>1. \A c \in Conns : cur[c] # n
    BY DEF IInv, HaltOrder
  <2>2. InQueue(n) => ops[n].late
    BY DEF IInv, HaltOrder, InQueue
  <2> QED BY <2>1, <2>2 DEF IInv, Accounted
<1> QED BY <1>1, Inductive, PTL
=============================================================================
