--------------------------- MODULE SqlResultQueue ---------------------------
(***************************************************************************)
(* Asynchronous queries and their callbacks (SqlQuery, SqlQueryHolderEx,   *)
(* SqlResultQueue).  A game thread queues a query; a worker executes it    *)
(* and puts its callback on the result queue; once per tick the world      *)
(* thread sorts the callbacks, runs the thread-safe ones in fresh threads  *)
(* and the others itself, the latter for at most AsyncQueriesTickTimeout   *)
(* milliseconds.  StopServer lets the workers finish and cancels what is   *)
(* in the result queue.                                                    *)
(***************************************************************************)
EXTENDS Integers, Sequences, FiniteSets

CONSTANTS
  NWorkers,    \* SqlDelayThreads
  NCallers,    \* threadsCount in SqlResultQueue::Update (6 in the code)
  TickTimeout, \* TRUE iff AsyncQueriesTickTimeout is not 0
  MaxQueries   \* bound: queries issued in a behaviour

ASSUME ResultQueueAssumption ==
  /\ NWorkers \in Nat \ {0} /\ NCallers \in Nat \ {0}
  /\ TickTimeout \in BOOLEAN /\ MaxQueries \in Nat

Workers == 1 .. NWorkers
Callers == 1 .. NCallers

VARIABLES
  phase,       \* running, halting, cancelling, stopped
  safe,        \* IsThreadSafe() of each callback; their number is the query's
  delayQueue,  \* m_delayQueue, queries only
  executing,   \* the query each worker executes, 0 if none
  results,     \* the result queue itself
  waiting,     \* _threadUnsafeWaitingQueries
  numUnsafe,   \* numUnsafeQueries
  callerQueue, \* SqlResultCallbackCaller::queue
  caller,      \* each caller thread: -1 not running, 0 between callbacks, or one
  world,       \* the world thread: tick (outside Update), sort, run, join
  current,     \* the thread-unsafe callback the world thread executes, or 0
  called       \* callbacks executed and deleted, in order

vars == <<phase, safe, delayQueue, executing, results, waiting, numUnsafe,
          callerQueue, caller, world, current, called>>

Queries == 1 .. Len(safe)

Init ==
  /\ phase = "running"
  /\ safe = <<>> /\ delayQueue = <<>> /\ results = <<>>
  /\ waiting = <<>> /\ numUnsafe = 0 /\ callerQueue = <<>> /\ called = <<>>
  /\ executing = [w \in Workers |-> 0]
  /\ caller = [i \in Callers |-> -1]
  /\ world = "tick" /\ current = 0

-----------------------------------------------------------------------------
\* AsyncQuery, AsyncQueryUnsafe, DelayQueryHolder(Unsafe): from a packet
\* handler between two updates, or from a callback.
AsyncQuery(isSafe) ==
  /\ phase = "running" /\ Len(safe) < MaxQueries
  /\ world = "tick" \/ current # 0 \/ \E i \in Callers : caller[i] > 0
  /\ safe' = Append(safe, isSafe)
  /\ delayQueue' = Append(delayQueue, Len(safe'))
  /\ UNCHANGED <<phase, executing, results, waiting, numUnsafe, callerQueue,
                 caller, world, current, called>>

\* SqlDelayThread::ProcessRequests, also in its destructor while halting.
NextQuery(w) ==
  /\ phase \in {"running", "halting"} /\ executing[w] = 0 /\ delayQueue # <<>>
  /\ executing' = [executing EXCEPT ![w] = Head(delayQueue)]
  /\ delayQueue' = Tail(delayQueue)
  /\ UNCHANGED <<phase, safe, results, waiting, numUnsafe, callerQueue,
                 caller, world, current, called>>

\* SqlQuery::Execute / SqlQueryHolderEx::Execute: the callback is queued
\* whether the query succeeded or not.
QueryExecuted(w) ==
  /\ executing[w] # 0
  /\ results' = Append(results, executing[w])
  /\ executing' = [executing EXCEPT ![w] = 0]
  /\ UNCHANGED <<phase, safe, delayQueue, waiting, numUnsafe, callerQueue,
                 caller, world, current, called>>

-----------------------------------------------------------------------------
(* SqlResultQueue::Update, by the world thread and its callers. *)

BeginUpdate ==
  /\ phase = "running" /\ world = "tick"
  /\ world' = "sort"
  /\ UNCHANGED <<phase, safe, delayQueue, executing, results, waiting,
                 numUnsafe, callerQueue, caller, current, called>>

\* Faulty variants: every callback is treated as thread-unsafe; a
\* thread-unsafe callback overtakes those left from earlier ticks.
SortAllUnsafe ==
  /\ world = "sort" /\ results # <<>>
  /\ waiting' = Append(waiting, Head(results))
  /\ numUnsafe' = IF safe[Head(results)] THEN numUnsafe ELSE numUnsafe + 1
  /\ results' = Tail(results)
  /\ UNCHANGED <<phase, safe, delayQueue, executing, callerQueue, caller,
                 world, current, called>>

SortUnsafeFirst ==
  /\ world = "sort" /\ results # <<>>
  /\ IF safe[Head(results)]
       THEN /\ callerQueue' = Append(callerQueue, Head(results))
            /\ UNCHANGED <<waiting, numUnsafe>>
       ELSE /\ waiting' = <<Head(results)>> \o waiting
            /\ numUnsafe' = numUnsafe + 1
            /\ UNCHANGED callerQueue
  /\ results' = Tail(results)
  /\ UNCHANGED <<phase, safe, delayQueue, executing, caller, world, current, called>>

SortResult ==
  /\ world = "sort" /\ results # <<>>
  /\ IF safe[Head(results)]
       THEN /\ callerQueue' = Append(callerQueue, Head(results))
            /\ UNCHANGED <<waiting, numUnsafe>>
       ELSE /\ waiting' = Append(waiting, Head(results))
            /\ numUnsafe' = numUnsafe + 1
            /\ UNCHANGED callerQueue
  /\ results' = Tail(results)
  /\ UNCHANGED <<phase, safe, delayQueue, executing, caller, world, current, called>>

\* Faulty variant: no thread is started when there is only one callback.
SpawnTooFew ==
  /\ world = "sort" /\ results = <<>>
  /\ caller' = [i \in Callers |-> IF i < Len(callerQueue) THEN 0 ELSE -1]
  /\ world' = "run"
  /\ UNCHANGED <<phase, safe, delayQueue, executing, results, waiting,
                 numUnsafe, callerQueue, current, called>>

\* As many threads as callbacks, NCallers at most.
SpawnCallers ==
  /\ world = "sort" /\ results = <<>>
  /\ caller' = [i \in Callers |-> IF i <= Len(callerQueue) THEN 0 ELSE -1]
  /\ world' = "run"
  /\ UNCHANGED <<phase, safe, delayQueue, executing, results, waiting,
                 numUnsafe, callerQueue, current, called>>

\* Faulty variant: the callers read the shared queue without popping it.
CallerPeeks(i) ==
  /\ caller[i] = 0 /\ callerQueue # <<>>
  /\ caller' = [caller EXCEPT ![i] = Head(callerQueue)]
  /\ UNCHANGED <<phase, safe, delayQueue, executing, results, waiting,
                 numUnsafe, callerQueue, world, current, called>>

CallerNext(i) ==
  /\ caller[i] = 0 /\ callerQueue # <<>>
  /\ caller' = [caller EXCEPT ![i] = Head(callerQueue)]
  /\ callerQueue' = Tail(callerQueue)
  /\ UNCHANGED <<phase, safe, delayQueue, executing, results, waiting,
                 numUnsafe, world, current, called>>

CallerDone(i) ==
  /\ caller[i] > 0
  /\ called' = Append(called, caller[i])
  /\ caller' = [caller EXCEPT ![i] = 0]
  /\ UNCHANGED <<phase, safe, delayQueue, executing, results, waiting,
                 numUnsafe, callerQueue, world, current>>

CallerExit(i) ==
  /\ caller[i] = 0 /\ callerQueue = <<>>
  /\ caller' = [caller EXCEPT ![i] = -1]
  /\ UNCHANGED <<phase, safe, delayQueue, executing, results, waiting,
                 numUnsafe, callerQueue, world, current, called>>

UnsafeNext ==
  /\ world = "run" /\ current = 0 /\ waiting # <<>>
  /\ current' = Head(waiting)
  /\ waiting' = Tail(waiting)
  /\ UNCHANGED <<phase, safe, delayQueue, executing, results, numUnsafe,
                 callerQueue, caller, world, called>>

\* The time is looked at after a callback, so every update runs one at least.
UnsafeDone ==
  /\ world = "run" /\ current # 0
  /\ called' = Append(called, current)
  /\ current' = 0
  /\ numUnsafe' = numUnsafe - 1
  /\ world' \in (IF TickTimeout THEN {"run", "join"} ELSE {"run"})
  /\ UNCHANGED <<phase, safe, delayQueue, executing, results, waiting,
                 callerQueue, caller>>

UnsafeEmpty ==
  /\ world = "run" /\ current = 0 /\ waiting = <<>>
  /\ world' = "join"
  /\ UNCHANGED <<phase, safe, delayQueue, executing, results, waiting,
                 numUnsafe, callerQueue, caller, current, called>>

\* Faulty variant: Update returns without waiting for its threads.
EndUpdateNoJoin ==
  /\ world = "join"
  /\ world' = "tick"
  /\ UNCHANGED <<phase, safe, delayQueue, executing, results, waiting,
                 numUnsafe, callerQueue, caller, current, called>>

EndUpdate ==
  /\ world = "join" /\ \A i \in Callers : caller[i] = -1
  /\ world' = "tick"
  /\ UNCHANGED <<phase, safe, delayQueue, executing, results, waiting,
                 numUnsafe, callerQueue, caller, current, called>>

-----------------------------------------------------------------------------
(* StopServer, after Master::Run has joined the world thread. *)

StopServer ==
  /\ phase = "running" /\ world = "tick"
  /\ phase' = "halting"
  /\ UNCHANGED <<safe, delayQueue, executing, results, waiting, numUnsafe,
                 callerQueue, caller, world, current, called>>

HaltDelayThread ==
  /\ phase = "halting" /\ delayQueue = <<>> /\ \A w \in Workers : executing[w] = 0
  /\ phase' = "cancelling"
  /\ UNCHANGED <<safe, delayQueue, executing, results, waiting, numUnsafe,
                 callerQueue, caller, world, current, called>>

\* SetResult(NULL), Execute, delete.
CancelAll ==
  /\ phase = "cancelling" /\ results # <<>>
  /\ called' = Append(called, Head(results))
  /\ results' = Tail(results)
  /\ UNCHANGED <<phase, safe, delayQueue, executing, waiting, numUnsafe,
                 callerQueue, caller, world, current>>

DeleteResultQueue ==
  /\ phase = "cancelling" /\ results = <<>>
  /\ phase' = "stopped"
  /\ UNCHANGED <<safe, delayQueue, executing, results, waiting, numUnsafe,
                 callerQueue, caller, world, current, called>>

-----------------------------------------------------------------------------
WorkerNext(w) == NextQuery(w) \/ QueryExecuted(w)
CallerStep(i) == CallerNext(i) \/ CallerDone(i) \/ CallerExit(i)
WorldNext ==
  \/ BeginUpdate \/ SortResult \/ SpawnCallers \/ UnsafeNext \/ UnsafeDone
  \/ UnsafeEmpty \/ EndUpdate
MainNext == HaltDelayThread \/ CancelAll \/ DeleteResultQueue

Next ==
  \/ \E b \in BOOLEAN : AsyncQuery(b)
  \/ \E w \in Workers : WorkerNext(w)
  \/ \E i \in Callers : CallerStep(i)
  \/ WorldNext \/ StopServer \/ MainNext

Spec == Init /\ [][Next]_vars

\* Every thread is scheduled; the world thread keeps ticking until it stops.
FairSpec ==
  /\ Spec
  /\ \A w \in Workers : WF_vars(WorkerNext(w))
  /\ \A i \in Callers : WF_vars(CallerStep(i))
  /\ WF_vars(WorldNext) /\ WF_vars(MainNext)

-----------------------------------------------------------------------------
(* Properties. *)

In(q, seq) == \E i \in 1 .. Len(seq) : seq[i] = q
NoRepeat(seq) == \A i, j \in 1 .. Len(seq) : seq[i] = seq[j] => i = j

\* Types; and numUnsafeQueries, an unsigned counter kept beside the queue and
\* changed by push, pop and the end of a callback, never drifts from what it
\* counts, so it cannot wrap below zero and stall or hurry the tick.
TypeOK ==
  /\ phase \in {"running", "halting", "cancelling", "stopped"}
  /\ safe \in Seq(BOOLEAN) /\ Len(safe) <= MaxQueries
  /\ delayQueue \in Seq(Queries) /\ results \in Seq(Queries)
  /\ waiting \in Seq(Queries) /\ callerQueue \in Seq(Queries) /\ called \in Seq(Queries)
  /\ executing \in [Workers -> {0} \cup Queries]
  /\ caller \in [Callers -> {-1, 0} \cup Queries]
  /\ numUnsafe = Len(waiting) + (IF current # 0 THEN 1 ELSE 0)
  /\ world \in {"tick", "sort", "run", "join"}
  /\ current \in {0} \cup Queries

\* A callback is executed and deleted at most once, by one thread: it is
\* never in two of the three queues, never taken by two callers, and never
\* both cancelled and called (Update, SqlResultCallbackCaller, CancelAll).
CallbackOnce ==
  /\ NoRepeat(called) /\ NoRepeat(callerQueue) /\ NoRepeat(results) /\ NoRepeat(waiting)
  /\ \A i, j \in Callers : i # j /\ caller[i] > 0 => caller[i] # caller[j]
  /\ \A q \in Queries :
       LET callersOf == \E i \in Callers : caller[i] = q
       IN  /\ In(q, called) => ~In(q, results) /\ ~In(q, waiting) /\ ~In(q, callerQueue)
                               /\ current # q /\ ~callersOf
           /\ callersOf => ~In(q, callerQueue) /\ ~In(q, waiting) /\ current # q

\* Outside SqlResultQueue::Update no callback is running: the threads started
\* for the thread-safe ones are joined, so the maps and sessions updated in
\* the rest of the tick are not touched by a callback.
TickBarrier ==
  world = "tick" =>
    current = 0 /\ callerQueue = <<>> /\ \A i \in Callers : caller[i] = -1

\* With one worker the thread-unsafe callbacks run in the order in which the
\* queries were issued, also when a tick runs out of time and leaves some for
\* the next one, and also when StopServer cancels (a login, then its mails).
UnsafeOrder ==
  \A i, j \in 1 .. Len(called) :
    i < j /\ ~safe[called[i]] /\ ~safe[called[j]] => called[i] < called[j]

\* While the server runs, every query's callback is eventually executed, even
\* if every tick runs out of time.
CallbackRuns ==
  \A q \in 1 .. MaxQueries :
    (q <= Len(safe)) ~> (In(q, called) \/ phase # "running")
=============================================================================
