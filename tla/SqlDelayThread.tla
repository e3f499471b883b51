--------------------------- MODULE SqlDelayThread ---------------------------
(***************************************************************************)
(* The asynchronous write path of the database layer (src/shared/Database).*)
(* Game threads open a transaction in thread-local storage                 *)
(* (Database::m_TransStorage), collect statements in it and commit it to   *)
(* one shared queue (m_delayQueue).  Each SqlDelayThread owns a connection *)
(* and executes the operations it pops, statement by statement.  Before    *)
(* AllowAsyncTransactions(), and for the Direct* calls, the game thread    *)
(* executes on m_pAsyncConn itself and blocks.  StopServer() halts the     *)
(* workers one after the other and drains the queue on each one's          *)
(* connection.                                                             *)
(*                                                                         *)
(* The environment is the database server: it may reject a statement, drop *)
(* a connection (MaxDrops times) with or without having executed what the  *)
(* client is waiting for, and refuse a reconnect.                          *)
(***************************************************************************)
EXTENDS Integers, Sequences, FiniteSets

CONSTANTS
  Threads,    \* the game threads that use the database
  NWorkers,   \* the *Database.WorkerThreads setting (default 1)
  Kinds,      \* the kinds of statement in use, a subset of StmtKinds
  MaxStmts,   \* bound: statements issued in a behaviour
  MaxOps,     \* bound: operations created in a behaviour
  MaxDrops    \* bound: connections the server drops

StmtKinds == {"plain", "prepared"}

ASSUME ConfigAssumption ==
  /\ NWorkers \in Nat \ {0}
  /\ Kinds \subseteq StmtKinds
  /\ MaxStmts \in Nat /\ MaxOps \in Nat /\ MaxDrops \in Nat

AsyncConn == 0                    \* m_pAsyncConn
Workers   == 1 .. NWorkers        \* the SqlDelayThreads and their connections
Conns     == {AsyncConn} \cup Workers

VARIABLES
  phase,       \* startup, running, halting, cancelling, stopped; or crashed
  halt,        \* workers 1..halt have been told to Stop()
  trans,       \* the open transaction of each thread (m_TransStorage)
  issued,      \* statements issued so far
  ops,         \* every operation created, in order (the heap)
  delayQueue,  \* m_delayQueue: numbers of operations
  wpc,         \* where each worker is
  cur,         \* the operation a connection executes, 0 if none
  at,          \* its next step: 0 BEGIN, k the k-th statement, after them COMMIT
  link,        \* up, gone (the server dropped it), null (mMysql is NULL)
  inTx,        \* the server's view: a transaction is open on the connection
  pending,     \* statements the server has executed in that transaction
  db,          \* the durable statements, in the order they became durable
  finished,    \* operations executed and deleted, in order
  drops        \* connections dropped so far

clientVars == <<trans, issued>>
connVars   == <<link, inTx, pending, db, drops>>
vars == <<phase, halt, trans, issued, ops, delayQueue, wpc, cur, at, link,
          inTx, pending, db, finished, drops>>

Stmt    == [id : 1 .. MaxStmts, by : Threads, kind : Kinds]
NoTrans == [open |-> FALSE, stmts |-> <<>>]
Op      == [by : Threads, stmts : Seq(Stmt), tx : BOOLEAN,
            direct : BOOLEAN, late : BOOLEAN]

Init ==
  /\ phase = "startup" /\ halt = 0
  /\ trans = [t \in Threads |-> NoTrans]
  /\ issued = 0 /\ ops = <<>> /\ delayQueue = <<>>
  /\ wpc = [w \in Workers |-> "check"]
  /\ cur = [c \in Conns |-> 0]
  /\ at = [c \in Conns |-> 0]
  /\ link = [c \in Conns |-> "up"]
  /\ inTx = [c \in Conns |-> FALSE]
  /\ pending = [c \in Conns |-> <<>>]
  /\ db = <<>> /\ finished = <<>> /\ drops = 0

-----------------------------------------------------------------------------
(* The calls of a game thread. *)

\* A thread inside a Direct* call holds the lock of m_pAsyncConn and waits.
Blocked(t) == cur[AsyncConn] # 0 /\ ops[cur[AsyncConn]].by = t
Calls(t)   == phase \in {"startup", "running"} /\ ~Blocked(t)

\* The statement a call of thread t builds.
NewStmt(t, k) == [id |-> issued + 1, by |-> t, kind |-> k]
CanIssue      == issued < MaxStmts

AddToDelayQueue(op) ==
  /\ Len(ops) < MaxOps
  /\ ops' = Append(ops, op)
  /\ delayQueue' = Append(delayQueue, Len(ops'))
  /\ UNCHANGED <<cur, at>>

\* The Direct* calls take the lock of m_pAsyncConn and execute there.
DirectOn(op) ==
  /\ cur[AsyncConn] = 0 /\ Len(ops) < MaxOps
  /\ ops' = Append(ops, op)
  /\ cur' = [cur EXCEPT ![AsyncConn] = Len(ops')]
  /\ at' = [at EXCEPT ![AsyncConn] = IF op.tx THEN 0 ELSE 1]
  /\ UNCHANGED delayQueue

BeginTransaction(t) ==
  /\ Calls(t) /\ ~trans[t].open
  /\ trans' = [trans EXCEPT ![t] = [open |-> TRUE, stmts |-> <<>>]]
  /\ UNCHANGED <<phase, halt, issued, ops, delayQueue, wpc, cur, at, connVars, finished>>

\* Execute / ExecuteStmt with a transaction open: the statement joins it.
ExecuteInTransaction(t, k) ==
  /\ Calls(t) /\ trans[t].open /\ CanIssue
  /\ trans' = [trans EXCEPT ![t] = [open |-> TRUE,
                                    stmts |-> Append(trans[t].stmts, NewStmt(t, k))]]
  /\ issued' = issued + 1
  /\ UNCHANGED <<phase, halt, ops, delayQueue, wpc, cur, at, connVars, finished>>

\* Execute / ExecuteStmt without one, once asynchronous execution is allowed.
ExecuteAsync(t, k) ==
  /\ Calls(t) /\ ~trans[t].open /\ phase = "running" /\ CanIssue
  /\ AddToDelayQueue([by |-> t, stmts |-> <<NewStmt(t, k)>>,
                      tx |-> FALSE, direct |-> FALSE, late |-> FALSE])
  /\ issued' = issued + 1
  /\ UNCHANGED <<phase, halt, trans, wpc, connVars, finished>>

\* DirectExecute / DirectExecuteStmt: what Execute falls back to during
\* startup, and a call of its own that ignores an open transaction.
DirectExecute(t, k) ==
  /\ Calls(t) /\ CanIssue
  /\ DirectOn([by |-> t, stmts |-> <<NewStmt(t, k)>>,
               tx |-> FALSE, direct |-> TRUE, late |-> FALSE])
  /\ issued' = issued + 1
  /\ UNCHANGED <<phase, halt, trans, wpc, connVars, finished>>

CommitTransaction(t) ==
  /\ Calls(t) /\ trans[t].open /\ phase = "running"
  /\ AddToDelayQueue([by |-> t, stmts |-> trans[t].stmts,
                      tx |-> TRUE, direct |-> FALSE, late |-> FALSE])
  /\ trans' = [trans EXCEPT ![t] = NoTrans]
  /\ UNCHANGED <<phase, halt, issued, wpc, connVars, finished>>

\* CommitTransactionDirect: called as such, and by CommitTransaction at startup.
CommitTransactionDirect(t) ==
  /\ Calls(t) /\ trans[t].open
  /\ DirectOn([by |-> t, stmts |-> trans[t].stmts,
               tx |-> TRUE, direct |-> TRUE, late |-> FALSE])
  /\ trans' = [trans EXCEPT ![t] = NoTrans]
  /\ UNCHANGED <<phase, halt, issued, wpc, connVars, finished>>

\* RollbackTransaction, and ~TransHelper when the thread ends.
RollbackTransaction(t) ==
  /\ Calls(t) /\ trans[t].open
  /\ trans' = [trans EXCEPT ![t] = NoTrans]
  /\ UNCHANGED <<phase, halt, issued, ops, delayQueue, wpc, cur, at, connVars, finished>>

-----------------------------------------------------------------------------
(* Executing an operation on connection c, by whoever holds it: worker c,  *)
(* the main thread draining for it, or the thread in a Direct* call.       *)

Alive        == phase \notin {"cancelling", "stopped", "crashed"}
Executing(c) == Alive /\ cur[c] # 0
CurOp(c)     == ops[cur[c]]
AtBegin(c)   == at[c] = 0
AtStmt(c)    == at[c] \in 1 .. Len(CurOp(c).stmts)
AtCommit(c)  == at[c] = Len(CurOp(c).stmts) + 1 /\ CurOp(c).tx
CurStmt(c)   == CurOp(c).stmts[at[c]]

Finish(c) ==      \* Execute() returns, whatever it returns; delete s
  /\ finished' = Append(finished, cur[c])
  /\ cur' = [cur EXCEPT ![c] = 0]
  /\ at' = [at EXCEPT ![c] = 0]

Crash ==
  /\ phase' = "crashed"
  /\ UNCHANGED <<halt, clientVars, ops, delayQueue, wpc, cur, at, connVars, finished>>

\* What is common to the steps of an execution that do not kill the process.
Steps(c) == Executing(c) /\ UNCHANGED <<phase, halt, clientVars, ops, delayQueue, wpc>>

\* SqlTransaction::Execute returns at once if the transaction is empty.
SkipEmpty(c) ==
  /\ Steps(c) /\ AtBegin(c) /\ CurOp(c).stmts = <<>>
  /\ Finish(c)
  /\ UNCHANGED connVars

\* Faulty variant: START TRANSACTION is never sent (SqlConnection's default).
BeginNotSent(c) ==
  /\ Steps(c) /\ AtBegin(c) /\ CurOp(c).stmts # <<>> /\ link[c] # "null"
  /\ at' = [at EXCEPT ![c] = 1]
  /\ UNCHANGED <<cur, connVars, finished>>

\* conn->BeginTransaction(): its result is ignored, so a dropped connection
\* leaves the following statements outside any transaction.
BeginOnServer(c) ==
  /\ Steps(c) /\ AtBegin(c) /\ CurOp(c).stmts # <<>> /\ link[c] # "null"
  /\ inTx' = [inTx EXCEPT ![c] = (link[c] = "up")]
  /\ at' = [at EXCEPT ![c] = 1]
  /\ UNCHANGED <<cur, link, pending, db, finished, drops>>

\* mysql_query on a NULL handle, from BEGIN or from ROLLBACK.
BeginOnNull(c) ==
  /\ Executing(c) /\ AtBegin(c) /\ CurOp(c).stmts # <<>> /\ link[c] = "null"
  /\ Crash

\* The server executes the statement: in the open transaction, or durably.
Apply(c) ==
  IF inTx[c]
    THEN /\ pending' = [pending EXCEPT ![c] = Append(pending[c], CurStmt(c))]
         /\ UNCHANGED db
    ELSE db' = Append(db, CurStmt(c)) /\ UNCHANGED pending

ExecuteStmt(c) ==
  /\ Steps(c) /\ AtStmt(c) /\ link[c] = "up"
  /\ Apply(c)
  /\ IF CurOp(c).tx
       THEN at' = [at EXCEPT ![c] = @ + 1] /\ UNCHANGED <<cur, finished>>
       ELSE Finish(c)
  /\ UNCHANGED <<link, inTx, drops>>

\* A statement returned false: a transaction is rolled back, and the
\* operation is over.  Nothing is retried.
FailOp(c) ==
  /\ Finish(c)
  /\ inTx' = [inTx EXCEPT ![c] = FALSE]
  /\ pending' = [pending EXCEPT ![c] = <<>>]
  /\ UNCHANGED <<db, drops>>

\* The server refuses the statement (duplicate key, deadlock, ...).
RejectStmt(c) ==
  /\ Steps(c) /\ AtStmt(c) /\ link[c] = "up"
  /\ FailOp(c)
  /\ UNCHANGED link

\* ER_BAD_FIELD_ERROR, ER_NO_SUCH_TABLE, ER_PARSE_ERROR: ASSERT(false).
FatalStmt(c) ==
  /\ Executing(c) /\ AtStmt(c) /\ link[c] = "up" /\ CurStmt(c).kind = "plain"
  /\ Crash

\* Faulty variant: prepared statements reconnect and retry as plain ones do.
RetryOnDeadLink(c) ==
  /\ Steps(c) /\ AtStmt(c) /\ link[c] = "gone" /\ CurStmt(c).kind = "prepared"
  /\ link' = [link EXCEPT ![c] = "up"]
  /\ UNCHANGED <<cur, at, inTx, pending, db, finished, drops>>

\* MySqlPreparedStatement::execute does not reconnect; and once mMysql is
\* NULL every statement fails.  A transaction is then rolled back, which
\* needs a handle: see RollbackOnNull.
FailOnDeadLink(c) ==
  /\ Steps(c) /\ AtStmt(c)
  /\ \/ link[c] = "gone" /\ CurStmt(c).kind = "prepared"
     \/ link[c] = "null" /\ ~CurOp(c).tx
  /\ FailOp(c)
  /\ UNCHANGED link

\* MySQLConnection::Execute on a dropped connection: HandleMySQLError opens
\* a new one, in autocommit mode, and the statement is tried again on it.
Reconnect(c) ==
  /\ Steps(c) /\ AtStmt(c) /\ link[c] = "gone" /\ CurStmt(c).kind = "plain"
  /\ link' = [link EXCEPT ![c] = "up"]
  /\ UNCHANGED <<cur, at, inTx, pending, db, finished, drops>>

\* OpenConnection fails and leaves mMysql NULL: the statement has failed.
ReconnectFails(c) ==
  /\ Steps(c) /\ AtStmt(c) /\ link[c] = "gone" /\ CurStmt(c).kind = "plain"
  /\ ~CurOp(c).tx
  /\ link' = [link EXCEPT ![c] = "null"]
  /\ FailOp(c)

\* The same inside a transaction: ROLLBACK is sent on the NULL handle.
RollbackOnNull(c) ==
  /\ Executing(c) /\ AtStmt(c) /\ CurOp(c).tx
  /\ link[c] = "gone" /\ CurStmt(c).kind = "plain"
  /\ Crash

\* COMMIT; after a reconnect or a failed BEGIN there is nothing to commit.
Commit(c) ==
  /\ Steps(c) /\ AtCommit(c)
  /\ db' = db \o pending[c]
  /\ pending' = [pending EXCEPT ![c] = <<>>]
  /\ inTx' = [inTx EXCEPT ![c] = FALSE]
  /\ Finish(c)
  /\ UNCHANGED <<link, drops>>

-----------------------------------------------------------------------------
(* The server drops a connection: an open transaction is rolled back. *)

Gone(c) ==
  /\ link[c] = "up" /\ drops < MaxDrops
  /\ link' = [link EXCEPT ![c] = "gone"]
  /\ inTx' = [inTx EXCEPT ![c] = FALSE]
  /\ pending' = [pending EXCEPT ![c] = <<>>]
  /\ drops' = drops + 1

Drop(c) ==
  /\ Alive /\ Gone(c)
  /\ UNCHANGED <<phase, halt, clientVars, ops, delayQueue, wpc, cur, at, db, finished>>

\* CR_SERVER_LOST: the statement was executed but its answer is lost.
LostReply(c) ==
  /\ Steps(c) /\ AtStmt(c) /\ ~inTx[c] /\ Gone(c)
  /\ db' = Append(db, CurStmt(c))
  /\ UNCHANGED <<cur, at, finished>>

\* The same for COMMIT, which is not tried again.
LostCommitReply(c) ==
  /\ Steps(c) /\ AtCommit(c) /\ inTx[c] /\ Gone(c)
  /\ db' = db \o pending[c]
  /\ Finish(c)

-----------------------------------------------------------------------------
(* The worker loop, SqlDelayThread::run, and the halt. *)

Running(w) == w > halt       \* m_running

WorkerSteps(w) == Alive /\ cur[w] = 0 /\ UNCHANGED <<phase, clientVars, ops, db, finished>>

CheckRunning(w) ==
  /\ WorkerSteps(w) /\ wpc[w] = "check"
  /\ wpc' = [wpc EXCEPT ![w] = IF Running(w) THEN "process" ELSE "exited"]
  /\ UNCHANGED <<halt, delayQueue, cur, at, link, inTx, pending, drops>>

\* Faulty variant: the operation is read but stays in the queue.
PeekDelayedOperation(w) ==
  /\ WorkerSteps(w) /\ wpc[w] \in {"process", "drain"} /\ delayQueue # <<>>
  /\ cur' = [cur EXCEPT ![w] = Head(delayQueue)]
  /\ at' = [at EXCEPT ![w] = IF ops[Head(delayQueue)].tx THEN 0 ELSE 1]
  /\ UNCHANGED <<halt, delayQueue, wpc, link, inTx, pending, drops>>

\* Faulty variant: the newest operation is taken first.
LastDelayedOperation(w) ==
  /\ WorkerSteps(w) /\ wpc[w] \in {"process", "drain"} /\ delayQueue # <<>>
  /\ LET n == delayQueue[Len(delayQueue)] IN
       /\ cur' = [cur EXCEPT ![w] = n]
       /\ at' = [at EXCEPT ![w] = IF ops[n].tx THEN 0 ELSE 1]
  /\ delayQueue' = SubSeq(delayQueue, 1, Len(delayQueue) - 1)
  /\ UNCHANGED <<halt, wpc, link, inTx, pending, drops>>

\* ProcessRequests, in the worker's loop and in its destructor.
NextDelayedOperation(w) ==
  /\ WorkerSteps(w) /\ wpc[w] \in {"process", "drain"} /\ delayQueue # <<>>
  /\ cur' = [cur EXCEPT ![w] = Head(delayQueue)]
  /\ at' = [at EXCEPT ![w] = IF ops[Head(delayQueue)].tx THEN 0 ELSE 1]
  /\ delayQueue' = Tail(delayQueue)
  /\ UNCHANGED <<halt, wpc, link, inTx, pending, drops>>

\* Faulty variant: the worker leaves its loop when the queue is empty.
QueueEmptyExits(w) ==
  /\ WorkerSteps(w) /\ wpc[w] = "process" /\ delayQueue = <<>>
  /\ wpc' = [wpc EXCEPT ![w] = "exited"]
  /\ UNCHANGED <<halt, delayQueue, cur, at, link, inTx, pending, drops>>

\* The queue is empty; every pingEveryLoop rounds the worker pings first.
QueueEmpty(w) ==
  /\ WorkerSteps(w) /\ wpc[w] = "process" /\ delayQueue = <<>>
  /\ \E pc \in {"check", "ping"} : wpc' = [wpc EXCEPT ![w] = pc]
  /\ UNCHANGED <<halt, delayQueue, cur, at, link, inTx, pending, drops>>

\* Database::Ping on m_pAsyncConn, under its lock, then the worker's own
\* connection: a query reconnects, or leaves the handle NULL.
Ping(w) ==
  /\ WorkerSteps(w) /\ wpc[w] = "ping" /\ cur[AsyncConn] = 0
  /\ \E back \in SUBSET {c \in {w, AsyncConn} : link[c] = "gone"} :
       link' = [c \in Conns |->
                  IF c \in {w, AsyncConn} /\ link[c] = "gone"
                    THEN IF c \in back THEN "up" ELSE "null"
                    ELSE link[c]]
  /\ wpc' = [wpc EXCEPT ![w] = "check"]
  /\ UNCHANGED <<halt, delayQueue, cur, at, inTx, pending, drops>>

AllowAsyncTransactions ==
  /\ phase = "startup"
  /\ phase' = "running"
  /\ UNCHANGED <<halt, clientVars, ops, delayQueue, wpc, cur, at, connVars, finished>>

\* Faulty variant: the workers are joined without SqlDelayThread::Stop.
StopWithoutFlag ==
  /\ phase = "running" /\ cur[AsyncConn] = 0
  /\ phase' = "halting"
  /\ trans' = [t \in Threads |-> NoTrans]
  /\ UNCHANGED <<halt, issued, ops, delayQueue, wpc, cur, at, connVars, finished>>

\* Master::Run joins every game thread before it calls StopServer; a thread
\* that ends drops its open transaction (~TransHelper).
StopServer ==
  /\ phase = "running" /\ cur[AsyncConn] = 0
  /\ phase' = "halting" /\ halt' = 1
  /\ trans' = [t \in Threads |-> NoTrans]
  /\ UNCHANGED <<issued, ops, delayQueue, wpc, cur, at, connVars, finished>>

\* HaltDelayThread: join worker `halt`, then run its destructor.
JoinWorker(w) ==
  /\ phase = "halting" /\ halt = w /\ wpc[w] = "exited"
  /\ wpc' = [wpc EXCEPT ![w] = "drain"]
  /\ UNCHANGED <<phase, halt, clientVars, ops, delayQueue, cur, at, connVars, finished>>

\* Faulty variants: the destructor does not drain the queue; the loop over the
\* workers goes one too far.
DeleteWithoutDrain(w) ==
  /\ phase = "halting" /\ wpc[w] = "drain" /\ cur[w] = 0
  /\ wpc' = [wpc EXCEPT ![w] = "deleted"]
  /\ halt' = IF w = NWorkers THEN w ELSE w + 1
  /\ phase' = IF w = NWorkers THEN "cancelling" ELSE phase
  /\ UNCHANGED <<clientVars, ops, delayQueue, cur, at, connVars, finished>>

DeleteOneTooMany(w) ==
  /\ phase = "halting" /\ wpc[w] = "drain" /\ cur[w] = 0 /\ delayQueue = <<>>
  /\ wpc' = [wpc EXCEPT ![w] = "deleted"]
  /\ halt' = w + 1
  /\ phase' = IF w > NWorkers THEN "cancelling" ELSE phase
  /\ UNCHANGED <<clientVars, ops, delayQueue, cur, at, connVars, finished>>

\* The destructor found the queue empty: on to the next worker.  After the
\* last one StopServer cancels the waiting query callbacks.
DeleteWorker(w) ==
  /\ phase = "halting" /\ wpc[w] = "drain" /\ cur[w] = 0 /\ delayQueue = <<>>
  /\ wpc' = [wpc EXCEPT ![w] = "deleted"]
  /\ halt' = IF w = NWorkers THEN w ELSE w + 1
  /\ phase' = IF w = NWorkers THEN "cancelling" ELSE phase
  /\ UNCHANGED <<clientVars, ops, delayQueue, cur, at, connVars, finished>>

\* CancelAll runs the callbacks with a NULL result while m_pAsyncConn is
\* still there: what one of them writes is accepted, with no worker left.
CancelledCallbackWrites(t, k) ==
  /\ phase = "cancelling" /\ CanIssue
  /\ AddToDelayQueue([by |-> t, stmts |-> <<NewStmt(t, k)>>,
                      tx |-> FALSE, direct |-> FALSE, late |-> TRUE])
  /\ issued' = issued + 1
  /\ UNCHANGED <<phase, halt, trans, wpc, connVars, finished>>

\* The result queue and the connections are deleted.
CloseConnections ==
  /\ phase = "cancelling"
  /\ phase' = "stopped"
  /\ UNCHANGED <<halt, clientVars, ops, delayQueue, wpc, cur, at, connVars, finished>>

-----------------------------------------------------------------------------
ClientNext(t) ==
  \/ BeginTransaction(t) \/ CommitTransaction(t)
  \/ CommitTransactionDirect(t) \/ RollbackTransaction(t)
  \/ \E k \in Kinds : \/ ExecuteInTransaction(t, k) \/ ExecuteAsync(t, k)
                      \/ DirectExecute(t, k)

\* What the code does next on a connection, given the server's answer.
ConnNext(c) ==
  \/ SkipEmpty(c) \/ BeginOnServer(c) \/ BeginOnNull(c) \/ ExecuteStmt(c)
  \/ RejectStmt(c) \/ FatalStmt(c) \/ FailOnDeadLink(c) \/ Reconnect(c)
  \/ ReconnectFails(c) \/ RollbackOnNull(c) \/ Commit(c)
  \/ LostReply(c) \/ LostCommitReply(c)

WorkerNext(w) ==
  \/ CheckRunning(w) \/ NextDelayedOperation(w) \/ QueueEmpty(w) \/ Ping(w)

MainNext ==
  \/ AllowAsyncTransactions \/ StopServer \/ CloseConnections
  \/ \E t \in Threads, k \in Kinds : CancelledCallbackWrites(t, k)
  \/ \E w \in Workers : JoinWorker(w) \/ DeleteWorker(w)

Next ==
  \/ \E t \in Threads : ClientNext(t)
  \/ \E c \in Conns : ConnNext(c) \/ Drop(c)
  \/ \E w \in Workers : WorkerNext(w)
  \/ MainNext

Spec == Init /\ [][Next]_vars

\* The operating system schedules every worker and the main thread, and the
\* server answers or the connection breaks; game threads may stop calling.
Fairness ==
  /\ \A c \in Conns : WF_vars(ConnNext(c))
  /\ \A w \in Workers : WF_vars(WorkerNext(w)) /\ WF_vars(JoinWorker(w))
                        /\ WF_vars(DeleteWorker(w))
  /\ WF_vars(CloseConnections)

FairSpec == Spec /\ Fairness

-----------------------------------------------------------------------------
(* Properties. *)

InQueue(n)   == \E i \in 1 .. Len(delayQueue) : delayQueue[i] = n
IsFinished(n) == \E i \in 1 .. Len(finished) : finished[i] = n
Durable(s)   == \E i \in 1 .. Len(db) : db[i] = s

TypeOK ==
  /\ phase \in {"startup", "running", "halting", "cancelling", "stopped", "crashed"}
  /\ halt \in 0 .. NWorkers
  /\ trans \in [Threads -> [open : BOOLEAN, stmts : Seq(Stmt)]]
  /\ issued \in 0 .. MaxStmts
  /\ ops \in Seq(Op)
  /\ delayQueue \in Seq(1 .. Len(ops))
  /\ wpc \in [Workers -> {"check", "process", "ping", "exited", "drain", "deleted"}]
  /\ cur \in [Conns -> 0 .. Len(ops)]
  /\ at \in [Conns -> Nat]
  /\ link \in [Conns -> {"up", "gone", "null"}]
  /\ inTx \in [Conns -> BOOLEAN]
  /\ pending \in [Conns -> Seq(Stmt)]
  /\ db \in Seq(Stmt)
  /\ finished \in Seq(1 .. Len(ops))
  /\ drops \in 0 .. MaxDrops

\* An operation has one owner at any time: the queue, one connection, or it
\* has been executed and deleted, once.  Two workers popping m_delayQueue
\* concurrently, and the main thread draining it, never share an operation
\* (NextDelayedOperation, ProcessRequests).
OwnedOnce ==
  /\ \A i, j \in 1 .. Len(delayQueue) : i # j => delayQueue[i] # delayQueue[j]
  /\ \A i, j \in 1 .. Len(finished) : i # j => finished[i] # finished[j]
  /\ \A c, d \in Conns : c # d /\ cur[c] # 0 => cur[c] # cur[d]
  /\ \A n \in 1 .. Len(ops) :
       /\ InQueue(n) => ~IsFinished(n)
       /\ \A c \in Conns : cur[c] = n => ~InQueue(n) /\ ~IsFinished(n)

\* "Wait for DB delay threads to end": once StopServer has halted the workers,
\* every operation accepted before that has been executed (HaltDelayThread
\* joins each worker and its destructor drains the queue).  What is left in
\* the queue is what the cancelled callbacks wrote.
NothingLeftBehind ==
  phase \in {"cancelling", "stopped"} =>
    \A n \in 1 .. Len(ops) : ops[n].late \/ IsFinished(n)

\* A transaction is durable as a whole or not at all, at every moment, also
\* when a statement of it fails or the process dies (SqlTransaction::Execute).
\* The comment in MySQLConnection::OpenConnection counts on it.
TransactionAtomic ==
  \A n \in 1 .. Len(ops) : ops[n].tx =>
    LET S == {ops[n].stmts[i] : i \in 1 .. Len(ops[n].stmts)}
    IN  (\A s \in S : Durable(s)) \/ (\A s \in S : ~Durable(s))

\* What holds of failing statements, several workers, the shutdown and lost
\* connections: as long as no connection was lost every statement takes effect
\* at most once and every transaction is all or nothing; with losses this is
\* still so for prepared statements, whatever the moment of the loss and even
\* if only the answer is lost, for MySqlPreparedStatement::execute, unlike
\* MySQLConnection::Execute, neither reconnects nor tries again.
OnceAndWhole ==
  /\ \A i, j \in 1 .. Len(db) :
       i # j /\ (drops = 0 \/ db[i].kind = "prepared") => db[i] # db[j]
  /\ \A n \in 1 .. Len(ops) :
       LET S == {ops[n].stmts[i] : i \in 1 .. Len(ops[n].stmts)}
       IN  ops[n].tx /\ (drops = 0 \/ \A s \in S : s.kind = "prepared")
             => (\A s \in S : Durable(s)) \/ (\A s \in S : ~Durable(s))

\* With one worker, what a thread hands to the queue becomes durable in the
\* order in which the thread issued it; Direct* calls are outside the queue.
Queued(s) == \E n \in 1 .. Len(ops) : ~ops[n].direct
               /\ \E i \in 1 .. Len(ops[n].stmts) : ops[n].stmts[i] = s
SessionOrder ==
  \A i, j \in 1 .. Len(db) :
    i < j /\ db[i].by = db[j].by /\ Queued(db[i]) /\ Queued(db[j])
      => db[i].id < db[j].id

\* Every operation accepted before the workers are halted is eventually
\* executed, shutdown or not, unless the process dies.
EventuallyExecuted ==
  \A n \in 1 .. MaxOps :
    (n <= Len(ops)) ~> \/ IsFinished(n)
                       \/ n <= Len(ops) /\ ops[n].late
                       \/ phase = "crashed"

\* StopServer returns: no worker waits for another, and the loop over the
\* workers reaches the last one.
StopTerminates == (phase = "halting") ~> (phase \in {"stopped", "crashed"})

\* What a caller is promised: see TransactionLog.
Log == INSTANCE TransactionLog WITH
  submitted <- [n \in 1 .. Len(ops) |-> ops[n].stmts],
  settled   <- {finished[i] : i \in 1 .. Len(finished)},
  durable   <- {db[i] : i \in 1 .. Len(db)}

\* Absent connection loss the queue, the workers and the rollback together
\* implement an atomic log of transactions.
ImplementsLog == Log!Spec
=============================================================================
