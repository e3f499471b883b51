------------------------ MODULE SqlResultQueueProofs ------------------------
(***************************************************************************)
(* Proofs about SqlResultQueue, for every number of workers, callers and   *)
(* queries, with and without a tick timeout: types and the exact counter   *)
(* of thread-unsafe callbacks, that a query is in exactly one place, that  *)
(* no callback runs outside SqlResultQueue::Update, and, with one worker,  *)
(* the order of the thread-unsafe callbacks.                               *)
(***************************************************************************)
EXTENDS SqlResultQueue, SequenceTheorems, TLAPS

-----------------------------------------------------------------------------
(* The inductive invariant. *)

\* How far Update has come: the callers live only between SpawnCallers and the
\* end of the update, the world thread executes a callback only in between,
\* and the callers' queue is not abandoned by all of them.
Barrier ==
  /\ world # "tick" => phase = "running"
  /\ world \in {"tick", "sort"} => \A i \in Callers : caller[i] = -1
  /\ world = "tick" => callerQueue = <<>>
  /\ world # "run" => current = 0
  /\ world \in {"run", "join"} /\ callerQueue # <<>> => \E i \in Callers : caller[i] # -1

\* The places a query can be in, and what is there.
Places == {"delay", "worker", "results", "waiting", "world", "queued", "caller", "called"}

Has(c, q) ==
  CASE c = "delay"   -> In(q, delayQueue)
    [] c = "worker"  -> \E w \in Workers : executing[w] = q
    [] c = "results" -> In(q, results)
    [] c = "waiting" -> In(q, waiting)
    [] c = "world"   -> current = q
    [] c = "queued"  -> In(q, callerQueue)
    [] c = "caller"  -> \E i \in Callers : caller[i] = q
    [] c = "called"  -> In(q, called)

\* No query is twice in the same place.
Distinct ==
  /\ NoRepeat(delayQueue) /\ NoRepeat(results) /\ NoRepeat(waiting)
  /\ NoRepeat(callerQueue) /\ NoRepeat(called)
  /\ \A w, v \in Workers : executing[w] # 0 /\ executing[w] = executing[v] => w = v
  /\ \A i, j \in Callers : caller[i] > 0 /\ caller[i] = caller[j] => i = j

\* at tells where every query is: no query is lost and none is in two places.
\* The caller threads see thread-safe callbacks only.
Placed(at) ==
  /\ \A q \in Queries : \A c \in Places : Has(c, q) <=> at[q] = c
  /\ \A q \in Queries : at[q] \in {"queued", "caller"} => safe[q]

\* The thread-unsafe queries of a sequence are in the order of issue.
Sorted(s, f) ==
  \A i, j \in 1 .. Len(s) : i < j /\ ~f[s[i]] /\ ~f[s[j]] => s[i] < s[j]

\* The way of a thread-unsafe query.
Rank(c) ==
  CASE c = "called" -> 0 [] c = "world" -> 1 [] c = "waiting" -> 2
    [] c = "results" -> 3 [] c = "worker" -> 4 [] OTHER -> 5

\* None overtakes an earlier one, except that CancelAll passes over those that
\* a tick without time has left in the world thread's own queue.
NoneOvertakes(at) ==
  \A q, r \in Queries : q < r /\ ~safe[q] /\ ~safe[r] =>
    \/ Rank(at[q]) <= Rank(at[r])
    \/ at[q] = "waiting" /\ at[r] = "called" /\ phase # "running"

Ordered(at) ==
  /\ Sorted(delayQueue, safe) /\ Sorted(results, safe)
  /\ Sorted(waiting, safe) /\ Sorted(called, safe)
  /\ NoneOvertakes(at)

InPlace ==
  \E at \in [Queries -> Places] : Placed(at) /\ (NWorkers = 1 => Ordered(at))

IInv == TypeOK /\ Barrier /\ Distinct /\ InPlace

-----------------------------------------------------------------------------
(* Sequences: what push and pop do to the members, their repetition and    *)
(* their order.                                                            *)

LEMMA Push ==
  ASSUME NEW S, NEW s \in Seq(S), NEW e \in S
  PROVE  /\ Append(s, e) \in Seq(S) /\ Append(s, e) # <<>> /\ Len(Append(s, e)) = Len(s) + 1
         /\ \A x : In(x, Append(s, e)) <=> In(x, s) \/ x = e
         /\ NoRepeat(s) /\ ~In(e, s) => NoRepeat(Append(s, e))
<1> DEFINE a == Append(s, e)
<1>1. /\ a \in Seq(S) /\ Len(s) \in Nat /\ Len(a) = Len(s) + 1 /\ a[Len(s) + 1] = e
      /\ \A i \in 1 .. Len(s) : a[i] = s[i]
      /\ a # <<>>
  BY AppendProperties
<1> HIDE DEF a
<1>2. \A x : In(x, a) <=> In(x, s) \/ x = e
  <2>1. \A i : i \in 1 .. Len(a) <=> i \in 1 .. Len(s) \/ i = Len(s) + 1
    BY <1>1
  <2> QED BY <1>1, <2>1 DEF In
<1>3. ASSUME NoRepeat(s), ~In(e, s) PROVE NoRepeat(a)
  BY <1>1, <1>3 DEF NoRepeat, In
<1> QED BY <1>1, <1>2, <1>3 DEF a

LEMMA Pop ==
  ASSUME NEW S, NEW s \in Seq(S), s # <<>>
  PROVE  /\ Head(s) \in S /\ Tail(s) \in Seq(S) /\ Len(Tail(s)) = Len(s) - 1
         /\ In(Head(s), s)
         /\ NoRepeat(s) => /\ NoRepeat(Tail(s))
                           /\ \A x : In(x, Tail(s)) <=> In(x, s) /\ x # Head(s)
<1> DEFINE t == Tail(s)
<1>1. /\ Len(s) \in Nat /\ Len(s) # 0 /\ Len(t) = Len(s) - 1 /\ Head(s) = s[1]
      /\ Head(s) \in S /\ t \in Seq(S)
      /\ \A i \in 1 .. Len(t) : t[i] = s[i + 1]
  BY HeadTailProperties, EmptySeq
<1> HIDE DEF t
<1>2. In(Head(s), s)
  BY <1>1 DEF In
<1>3. ASSUME NoRepeat(s), NEW x
      PROVE  In(x, t) <=> In(x, s) /\ x # Head(s)
  <2>1. ASSUME NEW i \in 1 .. Len(t), t[i] = x PROVE In(x, s) /\ x # Head(s)
    <3>1. i + 1 \in 1 .. Len(s) /\ i + 1 # 1 /\ 1 \in 1 .. Len(s)
      BY <1>1
    <3> QED BY <1>1, <1>3, <2>1, <3>1 DEF In, NoRepeat
  <2>2. ASSUME NEW i \in 1 .. Len(s), s[i] = x, x # Head(s) PROVE In(x, t)
    <3>1. i - 1 \in 1 .. Len(t) /\ (i - 1) + 1 = i
      BY <1>1, <2>2
    <3> QED BY <1>1, <2>2, <3>1 DEF In
  <2> QED BY <2>1, <2>2 DEF In
<1>4. NoRepeat(s) => NoRepeat(t)
  BY <1>1 DEF NoRepeat
<1> QED BY <1>1, <1>2, <1>3, <1>4 DEF t

LEMMA SortedPush ==
  ASSUME NEW S \in SUBSET Nat, NEW s \in Seq(S), NEW e \in S, NEW f, Sorted(s, f),
         \A x \in S : In(x, s) /\ ~f[x] /\ ~f[e] => x < e
  PROVE  Sorted(Append(s, e), f)
<1> DEFINE a == Append(s, e)
<1>1. /\ Len(s) \in Nat /\ Len(a) = Len(s) + 1 /\ a[Len(s) + 1] = e
      /\ \A i \in 1 .. Len(s) : a[i] = s[i] /\ s[i] \in S /\ In(s[i], s)
  BY AppendProperties DEF In
<1> HIDE DEF a
<1>2. ASSUME NEW i \in 1 .. Len(a), NEW j \in 1 .. Len(a), i < j, ~f[a[i]], ~f[a[j]]
      PROVE  a[i] < a[j]
  <2>1. CASE j \in 1 .. Len(s)
    BY <1>1, <1>2, <2>1 DEF Sorted
  <2>2. CASE j = Len(s) + 1
    <3>1. i \in 1 .. Len(s)
      BY <1>1, <1>2, <2>2
    <3> QED BY <1>1, <1>2, <2>2, <3>1
  <2> QED BY <1>1, <2>1, <2>2
<1> QED BY <1>2 DEF Sorted, a

LEMMA SortedPop ==
  ASSUME NEW S \in SUBSET Nat, NEW s \in Seq(S), s # <<>>, NEW f, Sorted(s, f)
  PROVE  /\ Sorted(Tail(s), f)
         /\ \A x \in S : In(x, s) /\ x # Head(s) /\ ~f[x] /\ ~f[Head(s)] => Head(s) < x
<1> DEFINE t == Tail(s)
<1>1. /\ Len(s) \in Nat /\ Len(s) # 0 /\ Len(t) = Len(s) - 1 /\ Head(s) = s[1]
      /\ \A i \in 1 .. Len(t) : t[i] = s[i + 1]
  BY HeadTailProperties, EmptySeq
<1> HIDE DEF t
<1>2. Sorted(t, f)
  <2> SUFFICES ASSUME NEW i \in 1 .. Len(t), NEW j \in 1 .. Len(t), i < j, ~f[t[i]], ~f[t[j]]
               PROVE  t[i] < t[j]
    BY DEF Sorted
  <2>1. i + 1 \in 1 .. Len(s) /\ j + 1 \in 1 .. Len(s) /\ i + 1 < j + 1
    BY <1>1
  <2> QED BY <1>1, <2>1 DEF Sorted
<1>3. ASSUME NEW x \in S, In(x, s), x # Head(s), ~f[x], ~f[Head(s)] PROVE Head(s) < x
  <2>1. PICK j \in 1 .. Len(s) : s[j] = x
    BY <1>3 DEF In
  <2>2. 1 \in 1 .. Len(s) /\ 1 < j
    BY <1>1, <1>3, <2>1
  <2> QED BY <1>1, <1>3, <2>1, <2>2 DEF Sorted
<1> QED BY <1>2, <1>3 DEF t

\* The ranks are what they say.
LEMMA Ranks ==
  /\ Rank("called") = 0 /\ Rank("world") = 1 /\ Rank("waiting") = 2 /\ Rank("results") = 3
  /\ Rank("worker") = 4 /\ Rank("delay") = 5
  /\ \A c : Rank(c) \in 0 .. 5
  BY DEF Rank

-----------------------------------------------------------------------------
(* A query changes its place. *)

\* A step takes the query h from place a to place b, and no other anywhere.
Shifts(h, a, b) ==
  /\ \A q \in Queries : \A c \in Places \ {a, b} : Has(c, q)' <=> Has(c, q)
  /\ \A q \in Queries : Has(a, q)' <=> Has(a, q) /\ q # h
  /\ \A q \in Queries : Has(b, q)' <=> Has(b, q) \/ q = h

\* On its way the query h has nobody before it at b.
Follows(h, b, at) ==
  ~safe[h] =>
    /\ Rank(b) <= Rank(at[h])
    /\ at[h] # "waiting" \/ phase = "running"
    /\ \A q \in Queries : q < h /\ ~safe[q] =>
          \/ Rank(at[q]) <= Rank(b)
          \/ at[q] = "waiting" /\ b = "called" /\ phase # "running"

AllSorted ==
  /\ Sorted(delayQueue, safe) /\ Sorted(results, safe)
  /\ Sorted(waiting, safe) /\ Sorted(called, safe)

\* Such a step keeps every query in one place; with one worker it keeps the
\* order if h overtakes nobody.
LEMMA Move ==
  ASSUME safe' = safe, phase' = phase,
         NEW at \in [Queries -> Places], Placed(at), NWorkers = 1 => Ordered(at),
         NEW h \in Queries, NEW a \in Places, NEW b \in Places, at[h] = a, a # b,
         b \in {"queued", "caller"} => safe[h],
         Shifts(h, a, b),
         NWorkers = 1 => AllSorted' /\ Follows(h, b, at)
  PROVE  InPlace'
<1>1. PICK to \in [Queries -> Places] : to = [at EXCEPT ![h] = b]
  OBVIOUS
<1>2. Queries' = Queries /\ safe' = safe /\ phase' = phase
  BY DEF Queries
<1>3. /\ \A q \in Queries : \A c \in Places : Has(c, q)' <=> to[q] = c
      /\ \A q \in Queries : to[q] \in {"queued", "caller"} => safe[q]
  <2> SUFFICES ASSUME NEW q \in Queries
               PROVE  /\ \A c \in Places : Has(c, q)' <=> to[q] = c
                      /\ to[q] \in {"queued", "caller"} => safe[q]
    OBVIOUS
  <2>0. at[h] \in Places /\ \A c \in Places : Has(c, q) <=> at[q] = c
    BY DEF Placed
  <2>1. CASE q = h
    <3>1. to[q] = b
      BY <1>1, <2>1
    <3> QED BY <2>0, <2>1, <3>1 DEF Shifts
  <2>2. CASE q # h
    <3>1. to[q] = at[q]
      BY <1>1, <2>2
    <3>2. \A c \in Places : Has(c, q)' <=> Has(c, q)
      BY <2>2 DEF Shifts
    <3> QED BY <2>0, <3>1, <3>2 DEF Placed
  <2> QED BY <2>1, <2>2
<1>4. Placed(to)'
  BY <1>2, <1>3 DEF Placed
<1>5. ASSUME NWorkers = 1 PROVE NoneOvertakes(to)'
  <2> SUFFICES ASSUME NEW q \in Queries, NEW r \in Queries, q < r, ~safe[q], ~safe[r]
               PROVE  \/ Rank(to[q]) <= Rank(to[r])
                      \/ to[q] = "waiting" /\ to[r] = "called" /\ phase # "running"
    BY <1>2 DEF NoneOvertakes
  <2>1. \/ Rank(at[q]) <= Rank(at[r])
        \/ at[q] = "waiting" /\ at[r] = "called" /\ phase # "running"
    BY <1>5 DEF Ordered, NoneOvertakes
  <2>2. CASE q # h /\ r # h
    BY <1>1, <2>1, <2>2
  <2>3. CASE r = h
    <3>1. q # h /\ to[q] = at[q] /\ to[r] = b
      BY <1>1, <2>3 DEF Queries
    <3> QED BY <1>5, <2>3, <3>1 DEF Follows
  <2>4. CASE q = h /\ r # h
    <3>1. to[q] = b /\ to[r] = at[r] /\ Rank(b) <= Rank(at[q])
      BY <1>1, <1>5, <2>4 DEF Follows
    <3>2. Rank(at[q]) <= Rank(at[r])
      BY <1>5, <2>1, <2>4 DEF Follows
    <3> QED BY <3>1, <3>2, Ranks
  <2> QED BY <2>2, <2>3, <2>4
<1>6. NWorkers = 1 => Ordered(to)'
  BY <1>5 DEF Ordered, AllSorted
<1> QED BY <1>1, <1>2, <1>4, <1>6 DEF InPlace


\* The places, one by one.
LEMMA HasPlaces ==
  ASSUME NEW q
  PROVE  /\ Has("delay", q) <=> In(q, delayQueue)
         /\ Has("worker", q) <=> \E w \in Workers : executing[w] = q
         /\ Has("results", q) <=> In(q, results)
         /\ Has("waiting", q) <=> In(q, waiting)
         /\ Has("world", q) <=> current = q
         /\ Has("queued", q) <=> In(q, callerQueue)
         /\ Has("caller", q) <=> \E i \in Callers : caller[i] = q
         /\ Has("called", q) <=> In(q, called)
  BY DEF Has

LEMMA NextQueryStep == ASSUME IInv, NEW w \in Workers, NextQuery(w) PROVE IInv'
<1> USE ResultQueueAssumption DEF Queries
<1>1. PICK at \in [Queries -> Places] : Placed(at) /\ (NWorkers = 1 => Ordered(at))
  BY DEF IInv, InPlace
<1>2. PICK h \in Queries : h = Head(delayQueue)
  BY Pop DEF IInv, TypeOK, NextQuery
<1>3. /\ delayQueue \in Seq(Queries) /\ delayQueue # <<>> /\ Len(safe) \in Nat
      /\ executing[w] = 0 /\ executing' = [executing EXCEPT ![w] = h]
      /\ delayQueue' = Tail(delayQueue)
      /\ UNCHANGED <<phase, safe, results, waiting, numUnsafe, callerQueue,
                     caller, world, current, called>>
  BY <1>2 DEF IInv, TypeOK, NextQuery
<1>4. /\ delayQueue' \in Seq(Queries) /\ NoRepeat(delayQueue') /\ In(h, delayQueue)
      /\ \A x : In(x, delayQueue') <=> In(x, delayQueue) /\ x # h
  BY <1>2, <1>3, Pop DEF IInv, Distinct
<1>5. at[h] = "delay"
  BY <1>1, <1>4, HasPlaces DEF Placed, Places
<1>6. \A v \in Workers : executing[v] # h
  BY <1>1, <1>5, HasPlaces DEF Placed, Places
<1>7. TypeOK'
  BY <1>2, <1>3, <1>4 DEF IInv, TypeOK
<1>8. Barrier' /\ Distinct'
  BY <1>2, <1>3, <1>4, <1>6 DEF IInv, TypeOK, Barrier, Distinct
<1>9. InPlace'
  <2>1. Shifts(h, "delay", "worker")
    <3>1. /\ \A q \in Queries : \A c \in Places \ {"delay", "worker"} : Has(c, q)' <=> Has(c, q)
          /\ \A q \in Queries : Has("delay", q)' <=> Has("delay", q) /\ q # h
      BY <1>3, <1>4 DEF Has, Places
    <3>2. \A q \in Queries : Has("worker", q)' <=> Has("worker", q) \/ q = h
      BY <1>3 DEF Has, IInv, TypeOK
    <3> QED BY <3>1, <3>2 DEF Shifts
  <2>2. ASSUME NWorkers = 1 PROVE AllSorted' /\ Follows(h, "worker", at)
    <3>1. Queries \in SUBSET Nat /\ Sorted(delayQueue, safe)
      BY <1>1, <2>2 DEF Ordered
    <3>2. /\ Sorted(Tail(delayQueue), safe)
          /\ \A x \in Queries : In(x, delayQueue) /\ x # h /\ ~safe[x] /\ ~safe[h] => h < x
      BY <1>2, <1>3, <3>1, SortedPop
    <3>3. AllSorted'
      BY <1>1, <1>3, <2>2, <3>2 DEF Ordered, AllSorted
    <3>4. ASSUME NEW q \in Queries, q < h, ~safe[q], ~safe[h] PROVE Rank(at[q]) <= Rank("worker")
      <4>1. at[q] \in Places \ {"delay", "queued", "caller"}
        BY <1>1, <3>2, <3>4, HasPlaces DEF Placed, Places
      <4> QED BY <4>1, Ranks DEF Places
    <3> QED BY <1>5, <3>3, <3>4, Ranks DEF Follows
  <2>3. "worker" \in Places /\ "delay" \in Places
    BY DEF Places
  <2> QED BY <1>1, <1>3, <1>5, <2>1, <2>2, <2>3, Move
<1> QED BY <1>7, <1>8, <1>9 DEF IInv

LEMMA QueryExecutedStep == ASSUME IInv, NEW w \in Workers, QueryExecuted(w) PROVE IInv'
<1> USE ResultQueueAssumption DEF Queries
<1>1. PICK at \in [Queries -> Places] : Placed(at) /\ (NWorkers = 1 => Ordered(at))
  BY DEF IInv, InPlace
<1>2. PICK h \in Queries : h = executing[w]
  BY DEF IInv, TypeOK, QueryExecuted
<1>3. /\ results \in Seq(Queries) /\ Len(safe) \in Nat
      /\ executing' = [executing EXCEPT ![w] = 0] /\ results' = Append(results, h)
      /\ UNCHANGED <<phase, safe, delayQueue, waiting, numUnsafe, callerQueue,
                     caller, world, current, called>>
  BY <1>2 DEF IInv, TypeOK, QueryExecuted
<1>4. at[h] = "worker"
  BY <1>1, <1>2, HasPlaces DEF Placed, Places
<1>5. ~In(h, results)
  BY <1>1, <1>4, HasPlaces DEF Placed, Places
<1>6. /\ results' \in Seq(Queries) /\ NoRepeat(results')
      /\ \A x : In(x, results') <=> In(x, results) \/ x = h
  BY <1>2, <1>3, <1>5, Push DEF IInv, Distinct
<1>7. TypeOK'
  BY <1>2, <1>3, <1>6 DEF IInv, TypeOK
<1>8. Barrier' /\ Distinct'
  BY <1>2, <1>3, <1>6 DEF IInv, TypeOK, Barrier, Distinct
<1>9. InPlace'
  <2>1. Shifts(h, "worker", "results")
    <3>1. /\ \A q \in Queries : \A c \in Places \ {"worker", "results"} : Has(c, q)' <=> Has(c, q)
          /\ \A q \in Queries : Has("results", q)' <=> Has("results", q) \/ q = h
      BY <1>3, <1>6 DEF Has, Places
    <3>2. \A q \in Queries : Has("worker", q)' <=> Has("worker", q) /\ q # h
      BY <1>2, <1>3 DEF Has, IInv, TypeOK, Distinct
    <3> QED BY <3>1, <3>2 DEF Shifts
  <2>2. ASSUME NWorkers = 1 PROVE AllSorted' /\ Follows(h, "results", at)
    <3>1. Queries \in SUBSET Nat /\ Sorted(results, safe) /\ NoneOvertakes(at)
      BY <1>1, <2>2 DEF Ordered
    <3>2. ASSUME NEW x \in Queries, In(x, results), ~safe[x], ~safe[h] PROVE x < h
      <4>1. at[x] = "results" /\ x # h
        BY <1>1, <1>5, <3>2, HasPlaces DEF Placed, Places
      <4> QED BY <1>4, <3>1, <3>2, <4>1, Ranks DEF NoneOvertakes
    <3>3. Sorted(Append(results, h), safe)
      BY <1>3, <3>1, <3>2, SortedPush
    <3>4. AllSorted'
      BY <1>1, <1>3, <2>2, <3>3 DEF Ordered, AllSorted
    <3>5. ASSUME NEW q \in Queries, q < h, ~safe[q], ~safe[h] PROVE Rank(at[q]) <= Rank("results")
      <4>1. at[q] # "worker"
        <5>1. \A v \in Workers : v = w
          BY <2>2 DEF Workers
        <5> QED BY <1>1, <1>2, <3>5, <5>1, HasPlaces DEF Placed, Places
      <4>2. Rank(at[q]) <= 4
        BY <1>4, <3>1, <3>5, Ranks DEF NoneOvertakes
      <4>3. at[q] \in Places \ {"worker", "delay", "queued", "caller"}
        BY <1>1, <3>5, <4>1, <4>2, Ranks DEF Placed
      <4> QED BY <4>3, Ranks DEF Places
    <3> QED BY <1>4, <3>4, <3>5, Ranks DEF Follows
  <2>3. "worker" \in Places /\ "results" \in Places
    BY DEF Places
  <2> QED BY <1>1, <1>3, <1>4, <2>1, <2>2, <2>3, Move
<1> QED BY <1>7, <1>8, <1>9 DEF IInv

\* A thread-safe callback goes to the callers, another behind those the world
\* thread has kept.
LEMMA SortResultStep == ASSUME IInv, SortResult PROVE IInv'
<1> USE ResultQueueAssumption DEF Queries
<1>1. PICK at \in [Queries -> Places] : Placed(at) /\ (NWorkers = 1 => Ordered(at))
  BY DEF IInv, InPlace
<1>2. PICK h \in Queries : h = Head(results)
  BY Pop DEF IInv, TypeOK, SortResult
<1>3. /\ results \in Seq(Queries) /\ results # <<>> /\ Len(safe) \in Nat
      /\ results' = Tail(results) /\ world = "sort"
      /\ waiting \in Seq(Queries) /\ callerQueue \in Seq(Queries)
      /\ \/ safe[h] /\ callerQueue' = Append(callerQueue, h) /\ UNCHANGED <<waiting, numUnsafe>>
         \/ ~safe[h] /\ waiting' = Append(waiting, h) /\ numUnsafe' = numUnsafe + 1
            /\ UNCHANGED callerQueue
      /\ UNCHANGED <<phase, safe, delayQueue, executing, caller, world, current, called>>
  BY <1>2 DEF IInv, TypeOK, SortResult
<1>4. /\ results' \in Seq(Queries) /\ NoRepeat(results') /\ In(h, results)
      /\ \A x : In(x, results') <=> In(x, results) /\ x # h
  BY <1>2, <1>3, Pop DEF IInv, Distinct
<1>5. at[h] = "results"
  BY <1>1, <1>4, HasPlaces DEF Placed, Places
<1>6. ~In(h, waiting) /\ ~In(h, callerQueue)
  BY <1>1, <1>5, HasPlaces DEF Placed, Places
<1>7. /\ Append(waiting, h) \in Seq(Queries) /\ NoRepeat(Append(waiting, h))
      /\ Len(Append(waiting, h)) = Len(waiting) + 1
      /\ \A x : In(x, Append(waiting, h)) <=> In(x, waiting) \/ x = h
      /\ Append(callerQueue, h) \in Seq(Queries) /\ NoRepeat(Append(callerQueue, h))
      /\ \A x : In(x, Append(callerQueue, h)) <=> In(x, callerQueue) \/ x = h
  BY <1>2, <1>3, <1>6, Push DEF IInv, Distinct
<1>8. TypeOK'
  <2>1. Len(waiting) \in Nat /\ numUnsafe = Len(waiting) + (IF current # 0 THEN 1 ELSE 0)
    BY DEF IInv, TypeOK
  <2>2. numUnsafe' = Len(waiting') + (IF current' # 0 THEN 1 ELSE 0)
    BY <1>3, <1>7, <2>1
  <2> QED BY <1>2, <1>3, <1>4, <1>7, <2>2 DEF IInv, TypeOK
<1>9. Barrier' /\ Distinct'
  BY <1>2, <1>3, <1>4, <1>7 DEF IInv, TypeOK, Barrier, Distinct
<1>10. InPlace'
  <2>0. {"results", "queued", "waiting"} \subseteq Places
    BY DEF Places
  <2>1. CASE safe[h]
    <3>1. Shifts(h, "results", "queued")
      <4>1. UNCHANGED <<delayQueue, executing, waiting, current, caller, called>>
        BY <1>3, <2>1
      <4>2. \A q \in Queries : \A c \in Places \ {"results", "queued"} : Has(c, q)' <=> Has(c, q)
        BY <4>1 DEF Has, Places
      <4>3. \A q \in Queries : Has("results", q)' <=> Has("results", q) /\ q # h
        BY <1>4 DEF Has
      <4>4. callerQueue' = Append(callerQueue, h)
        BY <1>3, <2>1
      <4>5. \A q \in Queries : Has("queued", q)' <=> Has("queued", q) \/ q = h
        BY <1>7, <4>4 DEF Has
      <4> QED BY <4>2, <4>3, <4>5 DEF Shifts
    <3>2. ASSUME NWorkers = 1 PROVE AllSorted'
      <4>1. Queries \in SUBSET Nat /\ Sorted(results, safe)
        BY <1>1, <3>2 DEF Ordered
      <4>2. Sorted(Tail(results), safe)
        BY <1>3, <4>1, SortedPop
      <4> QED BY <1>1, <1>3, <2>1, <3>2, <4>2 DEF Ordered, AllSorted
    <3>3. Follows(h, "queued", at)
      BY <2>1 DEF Follows
    <3> QED BY <1>1, <1>3, <1>5, <2>0, <2>1, <3>1, <3>2, <3>3, Move
  <2>2. CASE ~safe[h]
    <3>1. Shifts(h, "results", "waiting")
      <4>1. UNCHANGED <<delayQueue, executing, callerQueue, current, caller, called>>
        BY <1>3, <2>2
      <4>2. \A q \in Queries : \A c \in Places \ {"results", "waiting"} : Has(c, q)' <=> Has(c, q)
        BY <4>1 DEF Has, Places
      <4>3. \A q \in Queries : Has("results", q)' <=> Has("results", q) /\ q # h
        BY <1>4 DEF Has
      <4>4. waiting' = Append(waiting, h)
        BY <1>3, <2>2
      <4>5. \A q \in Queries : Has("waiting", q)' <=> Has("waiting", q) \/ q = h
        BY <1>7, <4>4 DEF Has
      <4> QED BY <4>2, <4>3, <4>5 DEF Shifts
    <3>2. ASSUME NWorkers = 1 PROVE AllSorted' /\ Follows(h, "waiting", at)
      <4>1. /\ Queries \in SUBSET Nat /\ Sorted(results, safe) /\ Sorted(waiting, safe)
            /\ NoneOvertakes(at)
        BY <1>1, <3>2 DEF Ordered
      <4>2. /\ Sorted(Tail(results), safe)
            /\ \A x \in Queries : In(x, results) /\ x # h /\ ~safe[x] /\ ~safe[h] => h < x
        BY <1>2, <1>3, <4>1, SortedPop
      <4>3. ASSUME NEW x \in Queries, In(x, waiting), ~safe[x] PROVE x < h
        <5>1. at[x] = "waiting" /\ x # h
          BY <1>1, <1>6, <4>3, HasPlaces DEF Placed, Places
        <5> QED BY <1>5, <2>2, <4>1, <4>3, <5>1, Ranks DEF NoneOvertakes
      <4>4. Sorted(Append(waiting, h), safe)
        BY <1>3, <4>1, <4>3, SortedPush
      <4>5. AllSorted'
        BY <1>1, <1>3, <2>2, <3>2, <4>2, <4>4 DEF Ordered, AllSorted
      <4>6. ASSUME NEW q \in Queries, q < h, ~safe[q] PROVE Rank(at[q]) <= Rank("waiting")
        <5>1. at[q] # "results"
          BY <1>1, <2>2, <4>2, <4>6, HasPlaces DEF Placed, Places
        <5>2. Rank(at[q]) <= 3
          BY <1>5, <2>2, <4>1, <4>6, Ranks DEF NoneOvertakes
        <5>3. at[q] \in Places \ {"results", "worker", "delay", "queued", "caller"}
          BY <1>1, <4>6, <5>1, <5>2, Ranks DEF Placed
        <5> QED BY <5>3, Ranks DEF Places
      <4> QED BY <1>5, <4>5, <4>6, Ranks DEF Follows
    <3> QED BY <1>1, <1>3, <1>5, <2>0, <3>1, <3>2, Move
  <2> QED BY <2>1, <2>2
<1> QED BY <1>8, <1>9, <1>10 DEF IInv

\* A caller takes a callback: the queue no longer has it, nobody else does.
LEMMA CallerNextStep == ASSUME IInv, NEW i \in Callers, CallerNext(i) PROVE IInv'
<1> USE ResultQueueAssumption DEF Queries
<1>1. PICK at \in [Queries -> Places] : Placed(at) /\ (NWorkers = 1 => Ordered(at))
  BY DEF IInv, InPlace
<1>2. PICK h \in Queries : h = Head(callerQueue)
  BY Pop DEF IInv, TypeOK, CallerNext
<1>3. /\ callerQueue \in Seq(Queries) /\ callerQueue # <<>> /\ Len(safe) \in Nat
      /\ caller[i] = 0 /\ caller' = [caller EXCEPT ![i] = h]
      /\ callerQueue' = Tail(callerQueue)
      /\ UNCHANGED <<phase, safe, delayQueue, executing, results, waiting,
                     numUnsafe, world, current, called>>
  BY <1>2 DEF IInv, TypeOK, CallerNext
<1>4. /\ callerQueue' \in Seq(Queries) /\ NoRepeat(callerQueue') /\ In(h, callerQueue)
      /\ \A x : In(x, callerQueue') <=> In(x, callerQueue) /\ x # h
  BY <1>2, <1>3, Pop DEF IInv, Distinct
<1>5. at[h] = "queued" /\ safe[h]
  BY <1>1, <1>4, HasPlaces DEF Placed, Places
<1>6. \A j \in Callers : caller[j] # h
  BY <1>1, <1>5, HasPlaces DEF Placed, Places
<1>7. TypeOK'
  BY <1>2, <1>3, <1>4 DEF IInv, TypeOK
<1>8. Barrier'
  <2>1. caller'[i] # -1 /\ caller[i] # -1
    BY <1>3 DEF IInv, TypeOK
  <2> QED BY <1>3, <2>1 DEF IInv, Barrier
<1>9. Distinct'
  BY <1>2, <1>3, <1>4, <1>6 DEF IInv, TypeOK, Distinct
<1>10. InPlace'
  <2>1. Shifts(h, "queued", "caller")
    <3>1. /\ \A q \in Queries : \A c \in Places \ {"queued", "caller"} : Has(c, q)' <=> Has(c, q)
          /\ \A q \in Queries : Has("queued", q)' <=> Has("queued", q) /\ q # h
      BY <1>3, <1>4 DEF Has, Places
    <3>2. \A q \in Queries : Has("caller", q)' <=> Has("caller", q) \/ q = h
      BY <1>3 DEF Has, IInv, TypeOK
    <3> QED BY <3>1, <3>2 DEF Shifts
  <2>2. Follows(h, "caller", at)
    BY <1>5 DEF Follows
  <2>3. NWorkers = 1 => AllSorted'
    BY <1>1, <1>3 DEF Ordered, AllSorted
  <2>4. "queued" \in Places /\ "caller" \in Places
    BY DEF Places
  <2> QED BY <1>1, <1>3, <1>5, <2>1, <2>2, <2>3, <2>4, Move
<1> QED BY <1>7, <1>8, <1>9, <1>10 DEF IInv

\* A callback has been executed: by a caller, by the world thread, or by
\* StopServer in CancelAll.
LEMMA CallerDoneStep == ASSUME IInv, NEW i \in Callers, CallerDone(i) PROVE IInv'
<1> USE ResultQueueAssumption DEF Queries
<1>1. PICK at \in [Queries -> Places] : Placed(at) /\ (NWorkers = 1 => Ordered(at))
  BY DEF IInv, InPlace
<1>2. PICK h \in Queries : h = caller[i]
  <2>1. caller[i] \in {-1, 0} \cup Queries /\ caller[i] > 0
    BY DEF IInv, TypeOK, CallerDone
  <2> QED BY <2>1
<1>3. /\ called \in Seq(Queries) /\ Len(safe) \in Nat
      /\ caller' = [caller EXCEPT ![i] = 0] /\ called' = Append(called, h)
      /\ UNCHANGED <<phase, safe, delayQueue, executing, results, waiting,
                     numUnsafe, callerQueue, world, current>>
  BY <1>2 DEF IInv, TypeOK, CallerDone
<1>4. at[h] = "caller" /\ safe[h]
  BY <1>1, <1>2, HasPlaces DEF Placed, Places
<1>5. ~In(h, called)
  BY <1>1, <1>4, HasPlaces DEF Placed, Places
<1>6. /\ called' \in Seq(Queries) /\ NoRepeat(called')
      /\ \A x : In(x, called') <=> In(x, called) \/ x = h
  BY <1>2, <1>3, <1>5, Push DEF IInv, Distinct
<1>7. TypeOK'
  BY <1>2, <1>3, <1>6 DEF IInv, TypeOK
<1>8. Barrier'
  <2>1. caller'[i] # -1 /\ caller[i] # -1
    BY <1>2, <1>3 DEF IInv, TypeOK
  <2> QED BY <1>3, <2>1 DEF IInv, Barrier
<1>9. Distinct'
  BY <1>2, <1>3, <1>6 DEF IInv, TypeOK, Distinct
<1>10. InPlace'
  <2>1. Shifts(h, "caller", "called")
    <3>1. /\ \A q \in Queries : \A c \in Places \ {"caller", "called"} : Has(c, q)' <=> Has(c, q)
          /\ \A q \in Queries : Has("called", q)' <=> Has("called", q) \/ q = h
      BY <1>3, <1>6 DEF Has, Places
    <3>2. \A q \in Queries : Has("caller", q)' <=> Has("caller", q) /\ q # h
      BY <1>2, <1>3 DEF Has, IInv, TypeOK, Distinct
    <3> QED BY <3>1, <3>2 DEF Shifts
  <2>2. Follows(h, "called", at)
    BY <1>4 DEF Follows
  <2>3. ASSUME NWorkers = 1 PROVE AllSorted'
    <3>1. Queries \in SUBSET Nat /\ Sorted(called, safe)
      BY <1>1, <2>3 DEF Ordered
    <3>2. Sorted(Append(called, h), safe)
      BY <1>3, <1>4, <3>1, SortedPush
    <3> QED BY <1>1, <1>3, <2>3, <3>2 DEF Ordered, AllSorted
  <2>4. "caller" \in Places /\ "called" \in Places
    BY DEF Places
  <2> QED BY <1>1, <1>3, <1>4, <2>1, <2>2, <2>3, <2>4, Move
<1> QED BY <1>7, <1>8, <1>9, <1>10 DEF IInv

LEMMA UnsafeNextStep == ASSUME IInv, UnsafeNext PROVE IInv'
<1> USE ResultQueueAssumption DEF Queries
<1>1. PICK at \in [Queries -> Places] : Placed(at) /\ (NWorkers = 1 => Ordered(at))
  BY DEF IInv, InPlace
<1>2. PICK h \in Queries : h = Head(waiting)
  BY Pop DEF IInv, TypeOK, UnsafeNext
<1>3. /\ waiting \in Seq(Queries) /\ waiting # <<>> /\ Len(safe) \in Nat
      /\ world = "run" /\ phase = "running" /\ current = 0 /\ current' = h
      /\ waiting' = Tail(waiting)
      /\ UNCHANGED <<phase, safe, delayQueue, executing, results, numUnsafe,
                     callerQueue, caller, world, called>>
  BY <1>2 DEF IInv, TypeOK, UnsafeNext, Barrier
<1>4. /\ waiting' \in Seq(Queries) /\ NoRepeat(waiting') /\ In(h, waiting)
      /\ Len(waiting') = Len(waiting) - 1
      /\ \A x : In(x, waiting') <=> In(x, waiting) /\ x # h
  BY <1>2, <1>3, Pop DEF IInv, Distinct
<1>5. at[h] = "waiting"
  BY <1>1, <1>4, HasPlaces DEF Placed, Places
<1>6. TypeOK'
  <2>1. Len(waiting) \in Nat /\ numUnsafe = Len(waiting) + (IF current # 0 THEN 1 ELSE 0)
    BY DEF IInv, TypeOK
  <2>2. numUnsafe' = Len(waiting') + (IF current' # 0 THEN 1 ELSE 0)
    BY <1>3, <1>4, <2>1
  <2> QED BY <1>2, <1>3, <1>4, <2>2 DEF IInv, TypeOK
<1>7. Barrier' /\ Distinct'
  BY <1>3, <1>4 DEF IInv, TypeOK, Barrier, Distinct
<1>8. InPlace'
  <2>1. Shifts(h, "waiting", "world")
    <3>1. \A q \in Queries : \A c \in Places \ {"waiting", "world"} : Has(c, q)' <=> Has(c, q)
      BY <1>3 DEF Has, Places
    <3>2. \A q \in Queries : Has("waiting", q)' <=> Has("waiting", q) /\ q # h
      BY <1>4 DEF Has
    <3>3. \A q \in Queries : Has("world", q)' <=> Has("world", q) \/ q = h
      BY <1>3, <1>4 DEF Has
    <3> QED BY <3>1, <3>2, <3>3 DEF Shifts
  <2>2. ASSUME NWorkers = 1 PROVE AllSorted' /\ Follows(h, "world", at)
    <3>1. Queries \in SUBSET Nat /\ Sorted(waiting, safe) /\ NoneOvertakes(at)
      BY <1>1, <2>2 DEF Ordered
    <3>2. /\ Sorted(Tail(waiting), safe)
          /\ \A x \in Queries : In(x, waiting) /\ x # h /\ ~safe[x] /\ ~safe[h] => h < x
      BY <1>2, <1>3, <3>1, SortedPop
    <3>3. AllSorted'
      BY <1>1, <1>3, <2>2, <3>2 DEF Ordered, AllSorted
    <3>4. ASSUME NEW q \in Queries, q < h, ~safe[q], ~safe[h] PROVE Rank(at[q]) <= Rank("world")
      <4>1. at[q] # "waiting"
        BY <1>1, <3>2, <3>4, HasPlaces DEF Placed, Places
      <4>2. Rank(at[q]) <= 2
        BY <1>3, <1>5, <3>1, <3>4, Ranks DEF NoneOvertakes
      <4>3. at[q] \in {"world", "called"}
        BY <1>1, <3>4, <4>1, <4>2, Ranks DEF Placed, Places
      <4> QED BY <4>3, Ranks
    <3> QED BY <1>3, <1>5, <3>3, <3>4, Ranks DEF Follows
  <2>3. "waiting" \in Places /\ "world" \in Places
    BY DEF Places
  <2> QED BY <1>1, <1>3, <1>5, <2>1, <2>2, <2>3, Move
<1> QED BY <1>6, <1>7, <1>8 DEF IInv

LEMMA UnsafeDoneStep == ASSUME IInv, UnsafeDone PROVE IInv'
<1> USE ResultQueueAssumption DEF Queries
<1>1. PICK at \in [Queries -> Places] : Placed(at) /\ (NWorkers = 1 => Ordered(at))
  BY DEF IInv, InPlace
<1>2. PICK h \in Queries : h = current
  BY DEF IInv, TypeOK, UnsafeDone
<1>3. /\ called \in Seq(Queries) /\ Len(safe) \in Nat
      /\ current' = 0 /\ called' = Append(called, h) /\ numUnsafe' = numUnsafe - 1
      /\ world = "run" /\ world' \in {"run", "join"} /\ phase = "running"
      /\ UNCHANGED <<phase, safe, delayQueue, executing, results, waiting,
                     callerQueue, caller>>
  BY <1>2 DEF IInv, TypeOK, UnsafeDone, Barrier
<1>4. at[h] = "world"
  BY <1>1, <1>2, HasPlaces DEF Placed, Places
<1>5. ~In(h, called)
  BY <1>1, <1>4, HasPlaces DEF Placed, Places
<1>6. /\ called' \in Seq(Queries) /\ NoRepeat(called')
      /\ \A x : In(x, called') <=> In(x, called) \/ x = h
  BY <1>2, <1>3, <1>5, Push DEF IInv, Distinct
<1>7. TypeOK'
  <2>1. Len(waiting) \in Nat /\ numUnsafe = Len(waiting) + (IF current # 0 THEN 1 ELSE 0)
    BY DEF IInv, TypeOK
  <2>2. numUnsafe' = Len(waiting') + (IF current' # 0 THEN 1 ELSE 0)
    BY <1>2, <1>3, <2>1
  <2> QED BY <1>3, <1>6, <2>2 DEF IInv, TypeOK
<1>8. Barrier' /\ Distinct'
  BY <1>3, <1>6 DEF IInv, TypeOK, Barrier, Distinct
<1>9. InPlace'
  <2>1. Shifts(h, "world", "called")
    <3>1. /\ \A q \in Queries : \A c \in Places \ {"world", "called"} : Has(c, q)' <=> Has(c, q)
          /\ \A q \in Queries : Has("called", q)' <=> Has("called", q) \/ q = h
      BY <1>3, <1>6 DEF Has, Places
    <3>2. \A q \in Queries : Has("world", q)' <=> Has("world", q) /\ q # h
      BY <1>2, <1>3 DEF Has
    <3> QED BY <3>1, <3>2 DEF Shifts
  <2>2. ASSUME NWorkers = 1 PROVE AllSorted' /\ Follows(h, "called", at)
    <3>1. Queries \in SUBSET Nat /\ Sorted(called, safe) /\ NoneOvertakes(at)
      BY <1>1, <2>2 DEF Ordered
    <3>2. ASSUME NEW x \in Queries, In(x, called), ~safe[x], ~safe[h] PROVE x < h
      <4>1. at[x] = "called" /\ x # h
        BY <1>1, <1>5, <3>2, HasPlaces DEF Placed, Places
      <4> QED BY <1>4, <3>1, <3>2, <4>1, Ranks DEF NoneOvertakes
    <3>3. Sorted(Append(called, h), safe)
      BY <1>3, <3>1, <3>2, SortedPush
    <3>4. AllSorted'
      BY <1>1, <1>3, <2>2, <3>3 DEF Ordered, AllSorted
    <3>5. ASSUME NEW q \in Queries, q < h, ~safe[q], ~safe[h] PROVE Rank(at[q]) <= Rank("called")
      <4>1. at[q] # "world"
        BY <1>1, <1>2, <3>5, HasPlaces DEF Placed, Places
      <4>2. Rank(at[q]) <= 1
        BY <1>4, <3>1, <3>5, Ranks DEF NoneOvertakes
      <4>3. at[q] = "called"
        BY <1>1, <3>5, <4>1, <4>2, Ranks DEF Placed, Places
      <4> QED BY <4>3, Ranks
    <3> QED BY <1>4, <3>4, <3>5, Ranks DEF Follows
  <2>3. "world" \in Places /\ "called" \in Places
    BY DEF Places
  <2> QED BY <1>1, <1>3, <1>4, <2>1, <2>2, <2>3, Move
<1> QED BY <1>7, <1>8, <1>9 DEF IInv

LEMMA CancelAllStep == ASSUME IInv, CancelAll PROVE IInv'
<1> USE ResultQueueAssumption DEF Queries
<1>1. PICK at \in [Queries -> Places] : Placed(at) /\ (NWorkers = 1 => Ordered(at))
  BY DEF IInv, InPlace
<1>2. PICK h \in Queries : h = Head(results)
  BY Pop DEF IInv, TypeOK, CancelAll
<1>3. /\ results \in Seq(Queries) /\ results # <<>> /\ called \in Seq(Queries)
      /\ Len(safe) \in Nat /\ phase = "cancelling" /\ current = 0
      /\ results' = Tail(results) /\ called' = Append(called, h)
      /\ UNCHANGED <<phase, safe, delayQueue, executing, waiting, numUnsafe,
                     callerQueue, caller, world, current>>
  BY <1>2 DEF IInv, TypeOK, CancelAll, Barrier
<1>4. /\ results' \in Seq(Queries) /\ NoRepeat(results') /\ In(h, results)
      /\ \A x : In(x, results') <=> In(x, results) /\ x # h
  BY <1>2, <1>3, Pop DEF IInv, Distinct
<1>5. at[h] = "results"
  BY <1>1, <1>4, HasPlaces DEF Placed, Places
<1>6. ~In(h, called)
  BY <1>1, <1>5, HasPlaces DEF Placed, Places
<1>7. /\ called' \in Seq(Queries) /\ NoRepeat(called')
      /\ \A x : In(x, called') <=> In(x, called) \/ x = h
  BY <1>2, <1>3, <1>6, Push DEF IInv, Distinct
<1>8. TypeOK'
  BY <1>3, <1>4, <1>7 DEF IInv, TypeOK
<1>9. Barrier' /\ Distinct'
  BY <1>3, <1>4, <1>7 DEF IInv, TypeOK, Barrier, Distinct
<1>10. InPlace'
  <2>1. Shifts(h, "results", "called")
    <3>1. \A q \in Queries : \A c \in Places \ {"results", "called"} : Has(c, q)' <=> Has(c, q)
      BY <1>3 DEF Has, Places
    <3>2. \A q \in Queries : Has("results", q)' <=> Has("results", q) /\ q # h
      BY <1>4 DEF Has
    <3>3. \A q \in Queries : Has("called", q)' <=> Has("called", q) \/ q = h
      BY <1>3, <1>4, <1>7 DEF Has
    <3> QED BY <3>1, <3>2, <3>3 DEF Shifts
  <2>2. ASSUME NWorkers = 1 PROVE AllSorted' /\ Follows(h, "called", at)
    <3>1. /\ Queries \in SUBSET Nat /\ Sorted(called, safe) /\ Sorted(results, safe)
          /\ NoneOvertakes(at)
      BY <1>1, <2>2 DEF Ordered
    <3>2. /\ Sorted(Tail(results), safe)
          /\ \A x \in Queries : In(x, results) /\ x # h /\ ~safe[x] /\ ~safe[h] => h < x
      BY <1>2, <1>3, <3>1, SortedPop
    <3>3. ASSUME NEW x \in Queries, In(x, called), ~safe[x], ~safe[h] PROVE x < h
      <4>1. at[x] = "called" /\ x # h
        BY <1>1, <1>6, <3>3, HasPlaces DEF Placed, Places
      <4> QED BY <1>5, <3>1, <3>3, <4>1, Ranks DEF NoneOvertakes
    <3>4. Sorted(Append(called, h), safe)
      BY <1>3, <3>1, <3>3, SortedPush
    <3>5. AllSorted'
      BY <1>1, <1>3, <2>2, <3>2, <3>4 DEF Ordered, AllSorted
    <3>6. ASSUME NEW q \in Queries, q < h, ~safe[q], ~safe[h]
          PROVE  Rank(at[q]) <= Rank("called") \/ at[q] = "waiting"
      <4>1. at[q] \notin {"results", "world"}
        BY <1>1, <1>3, <3>2, <3>6, HasPlaces DEF Placed, Places
      <4>2. Rank(at[q]) <= 3
        BY <1>5, <3>1, <3>6, Ranks DEF NoneOvertakes
      <4>3. at[q] \in {"called", "waiting"}
        BY <1>1, <3>6, <4>1, <4>2, Ranks DEF Placed, Places
      <4> QED BY <4>3, Ranks
    <3> QED BY <1>3, <1>5, <3>5, <3>6, Ranks DEF Follows
  <2>3. "results" \in Places /\ "called" \in Places
    BY DEF Places
  <2> QED BY <1>1, <1>3, <1>5, <2>1, <2>2, <2>3, Move
<1> QED BY <1>8, <1>9, <1>10 DEF IInv

\* A new query has a number that is nowhere yet, and larger than all others.
LEMMA AsyncQueryStep == ASSUME IInv, NEW b \in BOOLEAN, AsyncQuery(b) PROVE IInv'
<1> USE ResultQueueAssumption DEF Queries
<1>1. PICK at \in [Queries -> Places] : Placed(at) /\ (NWorkers = 1 => Ordered(at))
  BY DEF IInv, InPlace
<1>2. /\ safe \in Seq(BOOLEAN) /\ Len(safe) \in Nat /\ Len(safe) < MaxQueries
      /\ delayQueue \in Seq(Queries) /\ results \in Seq(Queries)
      /\ waiting \in Seq(Queries) /\ callerQueue \in Seq(Queries) /\ called \in Seq(Queries)
      /\ executing \in [Workers -> {0} \cup Queries]
      /\ caller \in [Callers -> {-1, 0} \cup Queries]
      /\ current \in {0} \cup Queries
      /\ safe' = Append(safe, b)
      /\ UNCHANGED <<phase, executing, results, waiting, numUnsafe, callerQueue,
                     caller, world, current, called>>
  BY DEF IInv, TypeOK, AsyncQuery
<1>3. PICK n \in Nat : n = Len(safe) + 1
  BY <1>2
<1>4. /\ safe' \in Seq(BOOLEAN) /\ Len(safe') = n /\ n \notin Queries /\ n # 0 /\ n # -1
      /\ \A q \in Queries : safe'[q] = safe[q] /\ q < n
      /\ n \in Queries' /\ Queries \subseteq Queries'
      /\ \A q \in Queries' : q \in Queries \/ q = n
  BY <1>2, <1>3
<1>5. delayQueue' = Append(delayQueue, n)
  BY <1>4 DEF AsyncQuery
<1>6. \A s \in Seq(Queries) : s \in Seq(Queries') /\ ~In(n, s)
  BY <1>4 DEF In
<1>7. /\ delayQueue' \in Seq(Queries') /\ NoRepeat(delayQueue')
      /\ \A x : In(x, delayQueue') <=> In(x, delayQueue) \/ x = n
  <2>1. delayQueue \in Seq(Queries') /\ NoRepeat(delayQueue) /\ ~In(n, delayQueue)
    BY <1>2, <1>6 DEF IInv, Distinct
  <2> HIDE DEF Queries
  <2> QED BY <1>4, <1>5, <2>1, Push
<1>8. TypeOK'
  <2>1. Len(safe') <= MaxQueries
    BY <1>2, <1>3, <1>4
  <2>2. /\ executing' \in [Workers -> {0} \cup Queries']
        /\ caller' \in [Callers -> {-1, 0} \cup Queries'] /\ current' \in {0} \cup Queries'
    BY <1>2, <1>4
  <2>3. /\ results' \in Seq(Queries') /\ waiting' \in Seq(Queries')
        /\ callerQueue' \in Seq(Queries') /\ called' \in Seq(Queries')
    BY <1>2, <1>6
  <2> HIDE DEF Queries
  <2> QED BY <1>2, <1>4, <1>7, <2>1, <2>2, <2>3 DEF IInv, TypeOK
<1>9. Barrier' /\ Distinct'
  BY <1>2, <1>7 DEF IInv, Barrier, Distinct
<1>10. PICK to \in [Queries' -> Places] : to = [q \in Queries' |-> IF q = n THEN "delay" ELSE at[q]]
  BY <1>4 DEF Places
<1>11. to[n] = "delay" /\ \A q \in Queries : to[q] = at[q]
  BY <1>4, <1>10
<1>12. Placed(to)'
  <2>1. ASSUME NEW q \in Queries, NEW c \in Places PROVE Has(c, q)' <=> Has(c, q)
    <3>1. In(q, delayQueue') <=> In(q, delayQueue)
      BY <1>4, <1>7
    <3> QED BY <1>2, <2>1, <3>1 DEF Has, Places
  <2>2. ASSUME NEW c \in Places PROVE Has(c, n)' <=> c = "delay"
    <3>1. /\ ~In(n, results) /\ ~In(n, waiting) /\ ~In(n, callerQueue) /\ ~In(n, called)
          /\ current # n /\ (\A w \in Workers : executing[w] # n)
          /\ (\A i \in Callers : caller[i] # n) /\ In(n, delayQueue')
      BY <1>2, <1>4, <1>6, <1>7
    <3> QED BY <1>2, <2>2, <3>1 DEF Has, Places
  <2>3. ASSUME NEW q \in Queries', NEW c \in Places PROVE Has(c, q)' <=> to[q] = c
    <3>1. CASE q = n
      BY <1>11, <2>2, <2>3, <3>1
    <3>2. CASE q \in Queries
      BY <1>1, <1>11, <2>1, <2>3, <3>2 DEF Placed
    <3> QED BY <1>4, <2>3, <3>1, <3>2
  <2>4. ASSUME NEW q \in Queries', to[q] \in {"queued", "caller"} PROVE safe'[q]
    BY <1>1, <1>4, <1>11, <2>4 DEF Placed
  <2> QED BY <2>3, <2>4 DEF Placed
<1>13. ASSUME NWorkers = 1 PROVE Ordered(to)'
  <2>1. Ordered(at)
    BY <1>1, <1>13
  <2>2. ASSUME NEW s \in Seq(Queries), Sorted(s, safe) PROVE Sorted(s, safe')
    <3>1. \A i \in 1 .. Len(s) : s[i] \in Queries
      BY <2>2
    <3> QED BY <1>4, <2>2, <3>1 DEF Sorted
  <2>3. Sorted(results, safe)' /\ Sorted(waiting, safe)' /\ Sorted(called, safe)'
    BY <1>2, <2>1, <2>2 DEF Ordered
  <2>4. Sorted(delayQueue, safe)'
    <3>1. Sorted(delayQueue, safe')
      BY <1>2, <2>1, <2>2 DEF Ordered
    <3>2. Queries' \in SUBSET Nat /\ delayQueue \in Seq(Queries')
      BY <1>2, <1>4, <1>6
    <3>3. \A x \in Queries' : In(x, delayQueue) => x < n
      BY <1>2, <1>4, <1>6
    <3> HIDE DEF Queries
    <3> QED BY <1>4, <1>5, <3>1, <3>2, <3>3, SortedPush
  <2>5. NoneOvertakes(to)'
    <3> SUFFICES ASSUME NEW q \in Queries', NEW r \in Queries', q < r, ~safe'[q], ~safe'[r]
                 PROVE  \/ Rank(to[q]) <= Rank(to[r])
                        \/ to[q] = "waiting" /\ to[r] = "called" /\ phase' # "running"
      BY DEF NoneOvertakes
    <3>1. CASE r = n
      BY <1>11, <3>1, Ranks
    <3>2. CASE r # n
      <4>1. q \in Queries /\ r \in Queries
        BY <1>3, <1>4, <3>2
      <4> QED BY <1>2, <1>4, <1>11, <2>1, <4>1 DEF Ordered, NoneOvertakes
    <3> QED BY <3>1, <3>2
  <2> QED BY <2>3, <2>4, <2>5 DEF Ordered
<1>14. InPlace'
  BY <1>10, <1>12, <1>13 DEF InPlace
<1> QED BY <1>8, <1>9, <1>14 DEF IInv

\* The steps that move no query.
LEMMA QuietStep ==
  ASSUME IInv, UNCHANGED <<safe, delayQueue, executing, results, waiting, callerQueue,
                           numUnsafe, current, called>>,
         phase' = phase \/ (phase' # "running" /\ phase' \in {"halting", "cancelling", "stopped"}),
         world' \in {"tick", "sort", "run", "join"},
         caller' \in [Callers -> {-1, 0} \cup Queries],
         \A i \in Callers : caller'[i] = caller[i] \/ (caller[i] <= 0 /\ caller'[i] <= 0),
         Barrier'
  PROVE  IInv'
<1> USE DEF Queries
<1>1. TypeOK'
  BY DEF IInv, TypeOK
<1>2. ASSUME NEW i \in Callers
      PROVE  /\ caller[i] \in Int /\ caller'[i] \in Int
             /\ \A q \in Queries : caller'[i] = q <=> caller[i] = q
  <2>1. /\ caller[i] \in {-1, 0} \cup Queries /\ caller'[i] \in {-1, 0} \cup Queries
        /\ Len(safe) \in Nat
    BY DEF IInv, TypeOK
  <2> QED BY <2>1
<1>3. Distinct'
  BY <1>2 DEF IInv, Distinct
<1>4. \A q \in Queries : \A c \in Places : Has(c, q)' <=> Has(c, q)
  BY <1>2 DEF Has, Places
<1>5. PICK at \in [Queries -> Places] : Placed(at) /\ (NWorkers = 1 => Ordered(at))
  BY DEF IInv, InPlace
<1>6. Placed(at)'
  BY <1>4, <1>5 DEF Placed
<1>7. NWorkers = 1 => Ordered(at)'
  BY <1>5 DEF Ordered, NoneOvertakes
<1>8. InPlace'
  BY <1>5, <1>6, <1>7 DEF InPlace
<1> QED BY <1>1, <1>3, <1>8 DEF IInv

LEMMA InductiveStep == IInv /\ [Next]_vars => IInv'
<1> SUFFICES ASSUME IInv, [Next]_vars PROVE IInv'
  OBVIOUS
<1> USE ResultQueueAssumption
<1>0. TypeOK /\ Barrier
  BY DEF IInv
<1>1. CASE BeginUpdate
  BY <1>0, <1>1, QuietStep DEF BeginUpdate, Barrier, TypeOK
<1>2. CASE SpawnCallers
  <2>1. /\ caller' \in [Callers -> {-1, 0} \cup Queries]
        /\ \A i \in Callers : caller[i] = -1 /\ caller'[i] <= 0
    BY <1>0, <1>2 DEF SpawnCallers, Barrier, TypeOK
  <2>2. ASSUME callerQueue # <<>> PROVE 1 \in Callers /\ caller'[1] = 0
    <3>1. Len(callerQueue) \in Nat /\ Len(callerQueue) # 0 /\ 1 \in Callers
      BY <1>0, <2>2, EmptySeq DEF TypeOK, Callers, ResultQueueAssumption
    <3> QED BY <1>2, <3>1 DEF SpawnCallers
  <2>3. Barrier'
    BY <1>0, <1>2, <2>2 DEF SpawnCallers, Barrier
  <2> QED BY <1>0, <1>2, <2>1, <2>3, QuietStep DEF SpawnCallers
<1>3. ASSUME NEW i \in Callers, CallerExit(i) PROVE IInv'
  <2>1. /\ caller' \in [Callers -> {-1, 0} \cup Queries]
        /\ \A j \in Callers : caller'[j] = caller[j] \/ (caller[j] <= 0 /\ caller'[j] <= 0)
    BY <1>0, <1>3 DEF CallerExit, TypeOK
  <2>2. Barrier'
    BY <1>0, <1>3 DEF CallerExit, Barrier, TypeOK
  <2> QED BY <1>0, <1>3, <2>1, <2>2, QuietStep DEF CallerExit, TypeOK
<1>4. CASE UnsafeEmpty
  BY <1>0, <1>4, QuietStep DEF UnsafeEmpty, Barrier, TypeOK
<1>5. CASE EndUpdate
  BY <1>0, <1>5, QuietStep DEF EndUpdate, Barrier, TypeOK
<1>6. CASE StopServer \/ HaltDelayThread \/ DeleteResultQueue
  BY <1>0, <1>6, QuietStep DEF StopServer, HaltDelayThread, DeleteResultQueue, Barrier, TypeOK
<1>7. CASE UNCHANGED vars
  <2>1. Barrier'
    BY <1>0, <1>7 DEF Barrier, vars
  <2> QED BY <1>0, <1>7, <2>1, QuietStep DEF vars, TypeOK
<1> QED BY <1>1, <1>2, <1>3, <1>4, <1>5, <1>6, <1>7, AsyncQueryStep, NextQueryStep,
           QueryExecutedStep, SortResultStep, CallerNextStep, CallerDoneStep, UnsafeNextStep,
           UnsafeDoneStep, CancelAllStep
       DEF Next, WorkerNext, CallerStep, WorldNext, MainNext

LEMMA InitInvariant == Init => IInv
<1> SUFFICES ASSUME Init PROVE IInv
  OBVIOUS
<1> USE ResultQueueAssumption DEF Init, ResultQueueAssumption
<1>1. Queries = {}
  BY DEF Queries
<1>2. TypeOK
  BY <1>1 DEF TypeOK
<1>3. Barrier
  BY DEF Barrier
<1>4. Distinct
  BY DEF Distinct, NoRepeat
<1>5. InPlace
  <2>1. [q \in Queries |-> "delay"] \in [Queries -> Places]
    BY DEF Places
  <2> DEFINE at == [q \in Queries |-> "delay"]
  <2>2. Placed(at)
    BY <1>1 DEF Placed
  <2>3. Ordered(at)
    BY <1>1 DEF Ordered, NoneOvertakes, Sorted
  <2> QED BY <2>1, <2>2, <2>3 DEF InPlace
<1> QED BY <1>2, <1>3, <1>4, <1>5 DEF IInv

-----------------------------------------------------------------------------
(* The theorems. *)

\* A query is in exactly one place, from AsyncQuery to its callback.
THEOREM Invariance == Spec => []IInv
  BY InitInvariant, InductiveStep, PTL DEF Spec

\* Every variable has its type, and numUnsafeQueries counts exactly the
\* thread-unsafe callbacks that are left, so it never wraps below zero.
THEOREM TypeCorrect == Spec => []TypeOK
<1>1. IInv => TypeOK
  BY DEF IInv
<1> QED BY <1>1, Invariance, PTL

\* No callback runs while the world thread is outside SqlResultQueue::Update.
THEOREM NothingBetweenTicks == Spec => []TickBarrier
<1>1. IInv => TickBarrier
  BY DEF IInv, Barrier, TickBarrier
<1> QED BY <1>1, Invariance, PTL

\* A callback is executed and deleted at most once, by one thread, whatever
\* the number of workers and callers.
THEOREM ExecutedOnce == Spec => []CallbackOnce
<1>1. ASSUME IInv PROVE CallbackOnce
  <2>1. PICK at \in [Queries -> Places] : Placed(at)
    BY <1>1 DEF IInv, InPlace
  <2>2. ASSUME NEW i \in Callers, NEW j \in Callers, i # j, caller[i] > 0
        PROVE  caller[i] # caller[j]
    BY <1>1, <2>2 DEF IInv, Distinct
  <2>3. ASSUME NEW q \in Queries, In(q, called)
        PROVE  /\ ~In(q, results) /\ ~In(q, waiting) /\ ~In(q, callerQueue) /\ current # q
               /\ \A i \in Callers : caller[i] # q
    <3>1. at[q] = "called"
      BY <2>1, <2>3, HasPlaces DEF Placed, Places
    <3> QED BY <2>1, <2>3, <3>1, HasPlaces DEF Placed, Places
  <2>4. ASSUME NEW q \in Queries, \E i \in Callers : caller[i] = q
        PROVE  ~In(q, callerQueue) /\ ~In(q, waiting) /\ current # q
    <3>1. at[q] = "caller"
      BY <2>1, <2>4, HasPlaces DEF Placed, Places
    <3> QED BY <2>1, <2>4, <3>1, HasPlaces DEF Placed, Places
  <2>5. NoRepeat(called) /\ NoRepeat(callerQueue) /\ NoRepeat(results) /\ NoRepeat(waiting)
    BY <1>1 DEF IInv, Distinct
  <2> QED BY <2>2, <2>3, <2>4, <2>5 DEF CallbackOnce
<1> QED BY <1>1, Invariance, PTL

\* With one worker the thread-unsafe callbacks are executed in the order in
\* which their queries were issued, however ticks end early and whenever
\* StopServer cancels the rest.
THEOREM InIssueOrder == ASSUME NWorkers = 1 PROVE Spec => []UnsafeOrder
<1>1. IInv => UnsafeOrder
  <2> SUFFICES ASSUME IInv PROVE UnsafeOrder
    OBVIOUS
  <2>1. PICK at \in [Queries -> Places] : Ordered(at)
    BY DEF IInv, InPlace
  <2> QED BY <2>1 DEF Ordered, Sorted, UnsafeOrder
<1> QED BY <1>1, Invariance, PTL

=============================================================================
