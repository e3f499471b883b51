------------------------- MODULE WorldSessionsProofs -------------------------
(***************************************************************************)
(* Proofs about WorldSessions, for any accounts, characters, limits and    *)
(* number of sessions: no pointer to a deleted session, one session for    *)
(* every character, the login queue and its flags, and who is saved when   *)
(* the server stops.                                                       *)
(***************************************************************************)
EXTENDS WorldSessions, SequenceTheorems, FiniteSetTheorems, TLAPS

-----------------------------------------------------------------------------
(* The inductive invariant. *)

\* s is the session of its account in m_sessions.
Mapped(s) == s \in 1 .. Len(acct) /\ sessions[acct[s]] = s

NoRepeat(seq) == \A i, j \in 1 .. Len(seq) : seq[i] = seq[j] => i = j

\* m_sessions holds a session under its own account, m_disconnectedSessions
\* only sessions that have left it.
MapInv ==
  /\ \A a \in Accounts : sessions[a] # 0 => sessions[a] \in alive /\ acct[sessions[a]] = a
  /\ \A s \in disconnected : s \in alive /\ ~Mapped(s)

\* A session that waits in addSessQueue is known to nobody else and has done
\* nothing yet, nor has one that does not exist yet.
NewInv ==
  /\ NoRepeat(addSessQueue)
  /\ \A s \in Sess : InSeq(s, addSessQueue) =>
       /\ s \in alive /\ ~Mapped(s) /\ s \notin disconnected
       /\ player[s] = NoChar /\ ~inQueue[s] /\ ~loading[s]
  /\ \A s \in Sess : s \notin 1 .. Len(acct) => ~inQueue[s] /\ ~loading[s]

\* A player and its session point at each other, and the session is one of the
\* player's account that the world still updates.
OwnInv ==
  /\ \A s \in Sess, c \in Chars : player[s] = c <=> owner[c] = s
  /\ \A c \in Chars : owner[c] # 0 =>
       /\ owner[c] \in alive /\ Owner[c] = acct[owner[c]]
       /\ Mapped(owner[c]) \/ owner[c] \in disconnected

\* The queue, its flags, and what a queued session cannot have done.
QueueInv ==
  /\ NoRepeat(queued)
  /\ \A s \in Sess : InSeq(s, queued) => inQueue[s] /\ Mapped(s)
  /\ \A s \in Sess : Mapped(s) /\ inQueue[s] /\ open[s] => InSeq(s, queued)
  /\ \A s \in Sess : inQueue[s] => player[s] = NoChar /\ ~loading[s]

\* The loops visit what is in the containers they walk through.
LoopInv ==
  /\ turn # 0 => pc = "update" /\ turn \in left
  /\ pc = "update" => \A s \in left : Mapped(s)
  /\ pc = "late" => left \subseteq disconnected

\* The last pass of World::Shutdown: a character whose session is not
\* disconnected belongs to a session that was kicked and has its turn yet.
StopInv ==
  /\ stopped = "last" => pc # "rest"
  /\ pc = "down" => stopped = "last"
  /\ stopped = "last" =>
       \A c \in Chars : owner[c] \notin disconnected \cup {0} =>
          /\ ~open[owner[c]]
          /\ pc \in {"accept", "add"} \/ (pc = "update" /\ owner[c] \in left)

IInv == TypeOK /\ MapInv /\ NewInv /\ OwnInv /\ QueueInv /\ LoopInv /\ StopInv

-----------------------------------------------------------------------------
(* Sequences: members and repetition under push, pop, erase and drop. *)

LEMMA Push ==
  ASSUME NEW S, NEW s \in Seq(S), NEW e \in S
  PROVE  /\ Append(s, e) \in Seq(S)
         /\ \A x : InSeq(x, Append(s, e)) <=> InSeq(x, s) \/ x = e
         /\ NoRepeat(s) /\ ~InSeq(e, s) => NoRepeat(Append(s, e))
<1> DEFINE a == Append(s, e)
<1>1. /\ a \in Seq(S) /\ Len(s) \in Nat /\ Len(a) = Len(s) + 1 /\ a[Len(s) + 1] = e
      /\ \A i \in 1 .. Len(s) : a[i] = s[i]
  BY AppendProperties
<1> HIDE DEF a
<1>2. \A x : InSeq(x, a) <=> InSeq(x, s) \/ x = e
  <2>1. \A i : i \in 1 .. Len(a) <=> i \in 1 .. Len(s) \/ i = Len(s) + 1
    BY <1>1
  <2> QED BY <1>1, <2>1 DEF InSeq
<1>3. ASSUME NoRepeat(s), ~InSeq(e, s) PROVE NoRepeat(a)
  BY <1>1, <1>3 DEF NoRepeat, InSeq
<1> QED BY <1>1, <1>2, <1>3 DEF a

LEMMA Pop ==
  ASSUME NEW S, NEW s \in Seq(S), s # <<>>
  PROVE  /\ Head(s) \in S /\ Tail(s) \in Seq(S) /\ InSeq(Head(s), s)
         /\ NoRepeat(s) => /\ NoRepeat(Tail(s))
                           /\ \A x : InSeq(x, Tail(s)) <=> InSeq(x, s) /\ x # Head(s)
<1> DEFINE t == Tail(s)
<1>1. /\ Len(s) \in Nat /\ Len(s) # 0 /\ Len(t) = Len(s) - 1 /\ Head(s) = s[1]
      /\ Head(s) \in S /\ t \in Seq(S)
      /\ \A i \in 1 .. Len(t) : t[i] = s[i + 1]
  BY HeadTailProperties, EmptySeq
<1> HIDE DEF t
<1>2. InSeq(Head(s), s)
  BY <1>1 DEF InSeq
<1>3. ASSUME NoRepeat(s), NEW x
      PROVE  InSeq(x, t) <=> InSeq(x, s) /\ x # Head(s)
  <2>1. ASSUME NEW i \in 1 .. Len(t), t[i] = x PROVE InSeq(x, s) /\ x # Head(s)
    <3>1. i + 1 \in 1 .. Len(s) /\ i + 1 # 1 /\ 1 \in 1 .. Len(s)
      BY <1>1
    <3> QED BY <1>1, <1>3, <2>1, <3>1 DEF InSeq, NoRepeat
  <2>2. ASSUME NEW i \in 1 .. Len(s), s[i] = x, x # Head(s) PROVE InSeq(x, t)
    <3>1. i - 1 \in 1 .. Len(t) /\ (i - 1) + 1 = i
      BY <1>1, <2>2
    <3> QED BY <1>1, <2>2, <3>1 DEF InSeq
  <2> QED BY <2>1, <2>2 DEF InSeq
<1>4. NoRepeat(s) => NoRepeat(t)
  BY <1>1 DEF NoRepeat
<1> QED BY <1>1, <1>2, <1>3, <1>4 DEF t

LEMMA Erase ==
  ASSUME NEW S, NEW s \in Seq(S), NEW e, NoRepeat(s)
  PROVE  /\ Without(s, e) \in Seq(S) /\ NoRepeat(Without(s, e))
         /\ \A x : InSeq(x, Without(s, e)) => InSeq(x, s) /\ x # e
<1>1. CASE ~InSeq(e, s)
  BY <1>1 DEF Without
<1>2. CASE InSeq(e, s)
  <2> DEFINE k == CHOOSE k \in 1 .. Len(s) : s[k] = e
             r == [i \in 1 .. Len(s) - 1 |-> IF i < k THEN s[i] ELSE s[i + 1]]
  <2>1. k \in 1 .. Len(s) /\ s[k] = e /\ Len(s) \in Nat
    BY <1>2 DEF InSeq
  <2>2. Without(s, e) = r
    BY <1>2 DEF Without
  <2> HIDE DEF k
  <2>3. /\ r \in Seq(S) /\ Len(r) = Len(s) - 1
        /\ \A i \in 1 .. Len(r) : r[i] = IF i < k THEN s[i] ELSE s[i + 1]
    <3>1. Len(s) - 1 \in Nat /\ \A i \in 1 .. Len(s) - 1 : r[i] \in S
      BY <2>1
    <3> QED BY <3>1
  <2> HIDE DEF r
  <2>4. \A i \in 1 .. Len(r) : \E j \in 1 .. Len(s) : j # k /\ r[i] = s[j]
                                /\ j = IF i < k THEN i ELSE i + 1
    BY <2>1, <2>3
  <2>5. NoRepeat(r)
    <3> SUFFICES ASSUME NEW i \in 1 .. Len(r), NEW l \in 1 .. Len(r), i # l PROVE r[i] # r[l]
      BY DEF NoRepeat
    <3>1. PICK j \in 1 .. Len(s) : r[i] = s[j] /\ j = IF i < k THEN i ELSE i + 1
      BY <2>4
    <3>2. PICK m \in 1 .. Len(s) : r[l] = s[m] /\ m = IF l < k THEN l ELSE l + 1
      BY <2>4
    <3>3. j # m
      BY <2>1, <2>3, <3>1, <3>2
    <3> QED BY <3>1, <3>2, <3>3 DEF NoRepeat
  <2>6. \A x : InSeq(x, r) => InSeq(x, s) /\ x # e
    BY <2>1, <2>4 DEF InSeq, NoRepeat
  <2> QED BY <2>2, <2>3, <2>5, <2>6
<1> QED BY <1>1, <1>2

LEMMA Drop ==
  ASSUME NEW S, NEW s \in Seq(S), NEW n \in 0 .. Len(s), NoRepeat(s)
  PROVE  LET r == SubSeq(s, n + 1, Len(s))
         IN  r \in Seq(S) /\ NoRepeat(r) /\ \A x : InSeq(x, r) => InSeq(x, s)
<1> DEFINE r == SubSeq(s, n + 1, Len(s))
<1>1. Len(s) \in Nat
  OBVIOUS
<1>2. r \in Seq(S) /\ Len(r) = Len(s) - n /\ \A i \in 1 .. Len(r) : r[i] = s[n + i]
  BY <1>1, SubSeqProperties
<1> HIDE DEF r
<1>3. \A i \in 1 .. Len(r) : n + i \in 1 .. Len(s)
  BY <1>1, <1>2
<1>4. NoRepeat(r)
  <2> SUFFICES ASSUME NEW i \in 1 .. Len(r), NEW j \in 1 .. Len(r), r[i] = r[j] PROVE i = j
    BY DEF NoRepeat
  <2>1. n + i = n + j
    BY <1>2, <1>3 DEF NoRepeat
  <2> QED BY <1>1, <1>2, <2>1
<1>5. \A x : InSeq(x, r) => InSeq(x, s)
  BY <1>2, <1>3 DEF InSeq
<1> QED BY <1>2, <1>4, <1>5 DEF r

-----------------------------------------------------------------------------
(* The operators of the model. *)

\* The two ways to say that a session is in m_sessions.
LEMMA MapMembers ==
  ASSUME TypeOK, MapInv, NEW s \in Sess
  PROVE  s \in InMap(sessions) <=> Mapped(s)
<1>1. \A x \in alive : x \in 1 .. Len(acct) /\ acct[x] \in Accounts /\ x # 0
  BY DEF TypeOK
<1>2. ASSUME NEW a \in Accounts, sessions[a] = s PROVE Mapped(s)
  BY <1>1, <1>2 DEF MapInv, Mapped, Sess
<1>3. ASSUME Mapped(s) PROVE s \in InMap(sessions)
  <2>1. acct[s] \in Accounts /\ sessions[acct[s]] = s /\ s # 0
    BY <1>3 DEF Mapped, TypeOK, Sess
  <2> QED BY <2>1 DEF InMap
<1> QED BY <1>2, <1>3 DEF InMap

\* The number of sessions is a number.
LEMMA CountType == TypeOK => SessionCount \in Nat /\ Active \in Int
<1> SUFFICES ASSUME TypeOK PROVE SessionCount \in Nat /\ Active \in Int
  OBVIOUS
<1>1. InMap(sessions) \subseteq Sess
  BY DEF InMap, TypeOK
<1>2. IsFiniteSet(Sess)
  BY SessionsAssumption, FS_Interval DEF Sess, SessionsAssumption
<1>3. Cardinality(InMap(sessions)) \in Nat
  BY <1>1, <1>2, FS_Subset, FS_CardinalityType
<1>4. Len(queued) \in Nat
  BY DEF TypeOK
<1> QED BY <1>3, <1>4 DEF SessionCount, Active

\* RemoveQueuedSession: the session is out, nobody comes in, the order stays.
LEMMA QueueAfterFacts ==
  ASSUME TypeOK, NoRepeat(queued), NEW s
  PROVE  /\ QueueAfter(s) \in Seq(Sess) /\ NoRepeat(QueueAfter(s))
         /\ \A x : InSeq(x, QueueAfter(s)) => InSeq(x, queued) /\ x # s
<1> DEFINE rest == Without(queued, s)
<1>1. /\ rest \in Seq(Sess) /\ NoRepeat(rest)
      /\ \A x : InSeq(x, rest) => InSeq(x, queued) /\ x # s
  BY Erase DEF TypeOK
<1>2. QueueAfter(s) = rest \/ (rest # <<>> /\ QueueAfter(s) = Tail(rest))
  BY DEF QueueAfter
<1> HIDE DEF rest
<1>3. rest # <<>> => /\ Tail(rest) \in Seq(Sess) /\ NoRepeat(Tail(rest))
                     /\ \A x : InSeq(x, Tail(rest)) => InSeq(x, rest)
  BY <1>1, Pop
<1> QED BY <1>1, <1>2, <1>3

\* The player of s is unloaded, and no other.
LEMMA Unloaded ==
  ASSUME TypeOK, OwnInv, NEW s \in Sess, LogoutPlayer(s)
  PROVE  /\ owner' \in [Chars -> {0} \cup Sess] /\ inWorld' \in [Chars -> BOOLEAN]
         /\ player' \in [Sess -> Chars \cup {NoChar}] /\ leaving' \in [Sess -> BOOLEAN]
         /\ player'[s] = NoChar /\ \A x \in Sess \ {s} : player'[x] = player[x]
         /\ \A c \in Chars : owner'[c] = IF owner[c] = s THEN 0 ELSE owner[c]
         /\ \A x \in Sess, c \in Chars : player'[x] = c <=> owner'[c] = x
<1>0. s # 0 /\ NoChar \notin Chars
  BY SessionsAssumption DEF Sess, SessionsAssumption
<1>1. /\ owner' \in [Chars -> {0} \cup Sess] /\ inWorld' \in [Chars -> BOOLEAN]
      /\ player' \in [Sess -> Chars \cup {NoChar}] /\ leaving' \in [Sess -> BOOLEAN]
  BY DEF LogoutPlayer, TypeOK
<1>2. player'[s] = NoChar /\ \A x \in Sess \ {s} : player'[x] = player[x]
  BY DEF LogoutPlayer, TypeOK
<1>3. \A c \in Chars : owner'[c] = IF owner[c] = s THEN 0 ELSE owner[c]
  BY DEF LogoutPlayer, OwnInv
<1>4. ASSUME NEW x \in Sess, NEW c \in Chars PROVE player'[x] = c <=> owner'[c] = x
  <2>1. x # 0
    BY DEF Sess
  <2>2. CASE x = s
    BY <1>0, <1>2, <1>3, <2>1, <2>2
  <2>3. CASE x # s
    BY <1>2, <1>3, <2>1, <2>3 DEF OwnInv
  <2> QED BY <2>2, <2>3
<1> QED BY <1>1, <1>2, <1>3, <1>4

\* Where the queue only loses members and the flags follow, the queue and its
\* flags still agree.
LEMMA QueueShrinks ==
  ASSUME TypeOK, QueueInv, NoRepeat(queued'),
         \A x \in Sess : InSeq(x, queued)' => InSeq(x, queued) /\ Mapped(x)',
         \A x \in Sess : Mapped(x)' => Mapped(x),
         inQueue' = FlagsAfter(inQueue, queued'),
         \A x \in Sess : open'[x] => open[x],
         \A x \in Sess : player'[x] \in {player[x], NoChar} /\ loading'[x] = loading[x]
  PROVE  QueueInv' /\ inQueue' \in [Sess -> BOOLEAN]
<1>1. \A x \in Sess : inQueue'[x] <=> inQueue[x] /\ (InSeq(x, queued)' \/ ~InSeq(x, queued))
  BY DEF FlagsAfter, TypeOK, InSeq
<1>2. inQueue' \in [Sess -> BOOLEAN]
  BY DEF FlagsAfter, TypeOK
<1>3. ASSUME NEW x \in Sess, InSeq(x, queued)' PROVE inQueue'[x] /\ Mapped(x)'
  BY <1>1, <1>3 DEF QueueInv
<1>4. ASSUME NEW x \in Sess, Mapped(x)', inQueue'[x], open'[x] PROVE InSeq(x, queued)'
  BY <1>1, <1>4 DEF QueueInv
<1>5. ASSUME NEW x \in Sess, inQueue'[x] PROVE player'[x] = NoChar /\ ~loading'[x]
  BY <1>1, <1>5 DEF QueueInv
<1> QED BY <1>2, <1>3, <1>4, <1>5 DEF QueueInv

-----------------------------------------------------------------------------
(* The steps. *)

\* Steps that move no session and no player.
LEMMA Quiet ==
  ASSUME IInv,
         UNCHANGED <<acct, alive, inQueue, loading, player, sessions, disconnected,
                     addSessQueue, owner, queued>>,
         \A x \in Sess : open'[x] => open[x]
  PROVE  MapInv' /\ NewInv' /\ OwnInv' /\ QueueInv' /\ \A x : Mapped(x)' <=> Mapped(x)
<1>1. \A x : Mapped(x)' <=> Mapped(x)
  BY DEF Mapped
<1>2. MapInv' /\ OwnInv'
  BY <1>1 DEF IInv, MapInv, OwnInv
<1>3. NewInv'
  BY <1>1 DEF IInv, NewInv
<1>4. QueueInv'
  BY <1>1 DEF IInv, QueueInv
<1> QED BY <1>1, <1>2, <1>3, <1>4

LEMMA QuietSteps ==
  ASSUME IInv,
         \/ StopNow \/ EndSessions \/ BeginUpdate \/ BeginDisconnected
         \/ \E c \in Chars : TeleportFar(c)
         \/ \E s \in Sess : \/ CloseSocket(s) \/ BeginSession(s) \/ LogoutRequest(s)
                            \/ HandleMoveWorldportAckOpcode(s) \/ KeepSession(s)
  PROVE  IInv'
<1> DEFINE Same == UNCHANGED <<acct, alive, inQueue, loading, player, sessions, disconnected,
                               addSessQueue, owner, queued, holders, limit, timer, lastLogout>>
<1>a. TypeOK /\ MapInv /\ OwnInv /\ LoopInv /\ StopInv
  BY DEF IInv
<1>b. ASSUME Same, \A x \in Sess : open'[x] => open[x], TypeOK', LoopInv', StopInv' PROVE IInv'
  BY <1>b, Quiet DEF IInv
<1>c. ASSUME UNCHANGED <<acct, sessions>> PROVE \A x : Mapped(x)' <=> Mapped(x)
  BY <1>c DEF Mapped
<1>1. CASE StopNow
  <2>1. Same /\ UNCHANGED open /\ TypeOK'
    BY <1>a, <1>1 DEF StopNow, TypeOK, sessVars, mapVars, charVars
  <2>2. LoopInv' /\ StopInv'
    BY <1>a, <1>c, <1>1, <2>1 DEF StopNow, LoopInv, StopInv
  <2> QED BY <1>b, <2>1, <2>2
<1>2. CASE EndSessions
  <2>1. Same /\ UNCHANGED open /\ TypeOK'
    BY <1>a, <1>2 DEF EndSessions, TypeOK, sessVars, mapVars, charVars
  <2>2. LoopInv' /\ StopInv'
    BY <1>a, <1>2, <2>1 DEF EndSessions, LoopInv, StopInv
  <2> QED BY <1>b, <2>1, <2>2
<1>3. CASE BeginUpdate
  <2>0. InMap(sessions) \subseteq Sess
    BY <1>a DEF InMap, TypeOK
  <2>1. Same /\ UNCHANGED open /\ TypeOK'
    BY <1>a, <1>3, <2>0 DEF BeginUpdate, TypeOK, sessVars, mapVars, charVars
  <2>2. \A s \in Sess : s \in left' <=> Mapped(s)
    BY <1>a, <1>3, MapMembers DEF BeginUpdate
  <2>3. LoopInv'
    BY <1>a, <1>c, <1>3, <2>0, <2>1, <2>2 DEF BeginUpdate, LoopInv
  <2>4. StopInv'
    <3>1. \A c \in Chars : owner[c] \in Sess \/ owner[c] = 0
      BY <1>a DEF TypeOK
    <3> QED BY <1>a, <1>3, <2>1, <2>2, <3>1 DEF BeginUpdate, StopInv, OwnInv
  <2> QED BY <1>b, <2>1, <2>3, <2>4
<1>4. CASE BeginDisconnected
  <2>1. Same /\ UNCHANGED open /\ TypeOK'
    BY <1>a, <1>4 DEF BeginDisconnected, TypeOK, sessVars, mapVars, charVars
  <2>2. LoopInv' /\ StopInv'
    BY <1>a, <1>4, <2>1 DEF BeginDisconnected, LoopInv, StopInv
  <2> QED BY <1>b, <2>1, <2>2
<1>5. ASSUME NEW c \in Chars, TeleportFar(c) PROVE IInv'
  <2>1. Same /\ UNCHANGED open /\ TypeOK' /\ UNCHANGED loopVars
    BY <1>a, <1>5 DEF TeleportFar, TypeOK, sessVars, mapVars, loopVars
  <2>2. LoopInv' /\ StopInv'
    BY <1>a, <1>c, <2>1 DEF loopVars, LoopInv, StopInv
  <2> QED BY <1>b, <2>1, <2>2
<1>6. ASSUME NEW s \in Sess, CloseSocket(s) \/ LogoutRequest(s) \/ HandleMoveWorldportAckOpcode(s)
      PROVE  IInv'
  <2>1. Same /\ TypeOK' /\ UNCHANGED loopVars /\ \A x \in Sess : open'[x] => open[x]
    BY <1>a, <1>6 DEF CloseSocket, LogoutRequest, HandleMoveWorldportAckOpcode, TypeOK, sessVars,
                      mapVars, loopVars, charVars
  <2>2. \A c \in Chars : owner[c] \in Sess \/ owner[c] = 0
    BY <1>a DEF TypeOK
  <2>3. LoopInv' /\ StopInv'
    BY <1>a, <1>c, <2>1, <2>2 DEF loopVars, LoopInv, StopInv
  <2> QED BY <1>b, <2>1, <2>3
<1>7. ASSUME NEW s \in Sess, BeginSession(s) PROVE IInv'
  <2>1. Same /\ UNCHANGED open /\ TypeOK'
    BY <1>a, <1>7 DEF BeginSession, TypeOK, sessVars, mapVars, charVars
  <2>2. LoopInv' /\ StopInv'
    BY <1>a, <1>c, <1>7, <2>1 DEF BeginSession, LoopInv, StopInv
  <2> QED BY <1>b, <2>1, <2>2
<1>8. ASSUME NEW s \in Sess, KeepSession(s) PROVE IInv'
  <2>1. Same /\ UNCHANGED open /\ TypeOK'
    BY <1>a, <1>8 DEF KeepSession, Turn, TypeOK, sessVars, mapVars, charVars
  <2>2. LoopInv' /\ StopInv'
    BY <1>a, <1>c, <1>8, <2>1 DEF KeepSession, Turn, LoopInv, StopInv
  <2> QED BY <1>b, <2>1, <2>2
<1> QED BY <1>1, <1>2, <1>3, <1>4, <1>5, <1>6, <1>7, <1>8

\* A new session has a number that no container and no player knows.
LEMMA AddSessionStep == ASSUME IInv, NEW a \in Accounts, AddSession(a) PROVE IInv'
<1>a. TypeOK /\ MapInv /\ NewInv /\ OwnInv /\ QueueInv /\ LoopInv /\ StopInv
  BY DEF IInv
<1>0. acct \in Seq(Accounts) /\ Len(acct) \in Nat /\ MaxSessions \in Nat /\ Len(acct) < MaxSessions
  BY <1>a, SessionsAssumption DEF TypeOK, AddSession, SessionsAssumption
<1>1. PICK n \in Sess : n = Len(acct) + 1
  BY <1>0 DEF Sess
<1>2. /\ acct' = Append(acct, a) /\ alive' = alive \cup {n} /\ open' = [open EXCEPT ![n] = TRUE]
      /\ addSessQueue' = Append(addSessQueue, n)
      /\ UNCHANGED <<inQueue, loading, leaving, player, timer, sessions, queued,
                     disconnected, lastLogout, limit, charVars, holders, loopVars>>
  BY <1>0, <1>1 DEF AddSession
<1>3. /\ acct' \in Seq(Accounts) /\ Len(acct') = n /\ Len(acct') <= MaxSessions
      /\ \A x \in 1 .. Len(acct) : acct'[x] = acct[x] /\ x \in 1 .. n
      /\ acct'[n] = a /\ n \notin 1 .. Len(acct) /\ n \in 1 .. n /\ n # 0
      /\ \A x \in 1 .. n : x \in 1 .. Len(acct) \/ x = n
  BY <1>0, <1>1, <1>2 DEF Sess
<1>4. /\ n \notin alive /\ (\A b \in Accounts : sessions[b] # n) /\ n \notin disconnected
      /\ (\A c \in Chars : owner[c] # n) /\ ~InSeq(n, addSessQueue) /\ ~InSeq(n, queued)
      /\ n \notin left \/ pc \notin {"update", "late"}
      /\ player[n] = NoChar
  <2>1. n \notin alive
    BY <1>a, <1>3 DEF TypeOK
  <2>2. /\ (\A b \in Accounts : sessions[b] # n) /\ n \notin disconnected
        /\ (\A c \in Chars : owner[c] # n) /\ ~InSeq(n, addSessQueue)
    BY <1>a, <1>3, <2>1 DEF MapInv, NewInv, OwnInv
  <2>3. ~Mapped(n)
    BY <1>3 DEF Mapped
  <2>4. player[n] = NoChar
    BY <1>a, <2>2 DEF OwnInv, TypeOK
  <2> QED BY <1>a, <2>1, <2>2, <2>3, <2>4 DEF QueueInv, LoopInv
<1>5. ASSUME NEW x \in Sess PROVE Mapped(x)' <=> Mapped(x)
  BY <1>2, <1>3, <1>4 DEF Mapped
<1>6. /\ addSessQueue' \in Seq(Sess) /\ NoRepeat(addSessQueue')
      /\ \A x : InSeq(x, addSessQueue') <=> InSeq(x, addSessQueue) \/ x = n
  BY <1>a, <1>2, <1>4, Push DEF TypeOK, NewInv
<1>7. TypeOK'
  BY <1>a, <1>2, <1>3, <1>6 DEF TypeOK, charVars, loopVars
<1>8. MapInv'
  <2>1. \A s \in alive : s \in 1 .. Len(acct) /\ s \in Sess
    BY <1>a, <1>0 DEF TypeOK, Sess
  <2> QED BY <1>a, <1>2, <1>3, <1>5, <2>1 DEF MapInv
<1>9. NewInv'
  <2>1. ~inQueue[n] /\ ~loading[n] /\ ~Mapped(n)
    BY <1>a, <1>3 DEF NewInv, Mapped
  <2>2. \A s \in Sess : s \notin 1 .. Len(acct') => s \notin 1 .. Len(acct)
    BY <1>3
  <2> QED BY <1>a, <1>2, <1>4, <1>5, <1>6, <2>1, <2>2 DEF NewInv
<1>10. OwnInv'
  <2>1. \A c \in Chars : owner[c] # 0 => owner[c] \in 1 .. Len(acct) /\ owner[c] \in Sess
    BY <1>a DEF OwnInv, TypeOK
  <2> QED BY <1>a, <1>2, <1>3, <1>5, <2>1 DEF OwnInv, charVars
<1>11. QueueInv'
  BY <1>a, <1>2, <1>3, <1>4, <1>5 DEF QueueInv, TypeOK, Mapped
<1>12. LoopInv'
  BY <1>a, <1>2, <1>5 DEF LoopInv, loopVars, TypeOK
<1>13. StopInv'
  BY <1>a, <1>2, <1>4 DEF StopInv, loopVars, charVars, TypeOK
<1> QED BY <1>7, <1>8, <1>9, <1>10, <1>11, <1>12, <1>13 DEF IInv

\* The login queue moves up.
LEMMA AcceptStep == ASSUME IInv, AcceptQueued PROVE IInv'
<1>a. TypeOK /\ MapInv /\ NewInv /\ OwnInv /\ QueueInv /\ LoopInv /\ StopInv
  BY DEF IInv
<1>1. /\ pc = "accept" /\ pc' = "add" /\ inQueue' = FlagsAfter(inQueue, queued')
      /\ UNCHANGED <<alive, acct, open, loading, leaving, player, timer,
                     sessions, disconnected, lastLogout, addSessQueue, charVars,
                     holders, left, turn, stopped>>
  BY DEF AcceptQueued
<1>2. /\ queued' = queued \/ \E n \in 0 .. Len(queued) : queued' = SubSeq(queued, n + 1, Len(queued))
      /\ limit' \in Int
  <2>1. /\ limit \in Int /\ Active \in Int /\ HardLimit \in Nat /\ LoginPerTick \in Nat
        /\ Len(queued) \in Nat
    BY <1>a, CountType, SessionsAssumption DEF TypeOK, SessionsAssumption
  <2> DEFINE low  == IF HardLimit > 0 THEN Min2(HardLimit, limit) ELSE limit
             up   == Min2(low, Active) + LoginPerTick
             n    == IF up > HardLimit THEN 0 ELSE Min2(LoginPerTick, Len(queued))
  <2>2. low \in Int /\ up \in Int /\ n \in 0 .. Len(queued)
    BY <2>1 DEF Min2
  <2>3. \/ /\ limit' = IF up > HardLimit THEN HardLimit ELSE up
           /\ queued' = SubSeq(queued, n + 1, Len(queued))
        \/ limit' = low /\ queued' = queued
    BY DEF AcceptQueued
  <2> HIDE DEF low, up, n
  <2>4. limit' \in Int
    BY <2>1, <2>2, <2>3
  <2> QED BY <2>2, <2>3, <2>4
<1>3. queued' \in Seq(Sess) /\ NoRepeat(queued') /\ \A x : InSeq(x, queued') => InSeq(x, queued)
  <2>1. queued \in Seq(Sess) /\ NoRepeat(queued)
    BY <1>a DEF TypeOK, QueueInv
  <2>2. ASSUME NEW n \in 0 .. Len(queued), queued' = SubSeq(queued, n + 1, Len(queued))
        PROVE  /\ queued' \in Seq(Sess) /\ NoRepeat(queued')
               /\ \A x : InSeq(x, queued') => InSeq(x, queued)
    BY <2>1, <2>2, Drop
  <2> QED BY <1>2, <2>1, <2>2
<1>4. \A x : Mapped(x)' <=> Mapped(x)
  BY <1>1 DEF Mapped
<1>5. QueueInv' /\ inQueue' \in [Sess -> BOOLEAN]
  <2>1. \A x \in Sess : InSeq(x, queued)' => InSeq(x, queued) /\ Mapped(x)'
    BY <1>a, <1>3, <1>4 DEF QueueInv
  <2> QED BY <1>a, <1>1, <1>3, <1>4, <2>1, QueueShrinks
<1>6. TypeOK'
  BY <1>a, <1>1, <1>2, <1>3, <1>5 DEF TypeOK, charVars
<1>7. MapInv' /\ OwnInv'
  BY <1>a, <1>1, <1>4 DEF MapInv, OwnInv, charVars
<1>8. NewInv'
  <2>1. \A x \in Sess : inQueue'[x] => inQueue[x]
    BY <1>1 DEF FlagsAfter
  <2> QED BY <1>a, <1>1, <1>4, <2>1 DEF NewInv
<1>9. LoopInv' /\ StopInv'
  BY <1>a, <1>1 DEF LoopInv, StopInv, charVars
<1> QED BY <1>5, <1>6, <1>7, <1>8, <1>9 DEF IInv

\* The tick ends; at the last one everyone is kicked and the queue emptied.
LEMMA EndTickStep == ASSUME IInv, EndTick PROVE IInv'
<1>a. TypeOK /\ MapInv /\ NewInv /\ OwnInv /\ QueueInv /\ LoopInv /\ StopInv
  BY DEF IInv
<1>1. /\ pc = "rest" /\ pc' = "accept"
      /\ UNCHANGED <<acct, inQueue, loading, leaving, player, timer, alive,
                     sessions, disconnected, lastLogout, addSessQueue, limit, charVars,
                     holders, left, turn>>
  BY DEF EndTick
<1>2. \/ UNCHANGED <<queued, open, stopped>>
      \/ /\ queued' = <<>> /\ stopped' = "last"
         /\ open' = [s \in Sess |-> open[s] /\ s \notin InMap(sessions) \cup disconnected]
  BY DEF EndTick
<1>3. \A x : Mapped(x)' <=> Mapped(x)
  BY <1>1 DEF Mapped
<1>4. \A x \in Sess : open'[x] => open[x]
  BY <1>2
<1>5. TypeOK'
  <2>1. open' \in [Sess -> BOOLEAN]
    BY <1>a, <1>2 DEF TypeOK
  <2>2. queued' \in Seq(Sess)
    <3>1. CASE queued' = queued
      BY <1>a, <3>1 DEF TypeOK
    <3>2. CASE queued' = <<>>
      BY <3>2
    <3> QED BY <1>2, <3>1, <3>2
  <2>3. stopped' \in {"no", "asked", "last"}
    BY <1>a, <1>2 DEF TypeOK
  <2> QED BY <1>a, <1>1, <2>1, <2>2, <2>3 DEF TypeOK, charVars
<1>6. MapInv' /\ OwnInv' /\ NewInv'
  BY <1>a, <1>1, <1>3 DEF MapInv, OwnInv, NewInv, charVars
<1>7. CASE UNCHANGED <<queued, open, stopped>>
  <2>1. QueueInv'
    BY <1>a, <1>1, <1>3, <1>7 DEF QueueInv
  <2>2. LoopInv' /\ StopInv'
    BY <1>a, <1>1, <1>7 DEF LoopInv, StopInv, charVars
  <2> QED BY <1>5, <1>6, <2>1, <2>2 DEF IInv
<1>8. CASE /\ queued' = <<>> /\ stopped' = "last"
           /\ open' = [s \in Sess |-> open[s] /\ s \notin InMap(sessions) \cup disconnected]
  <2>1. \A x \in Sess : Mapped(x) \/ x \in disconnected => ~open'[x]
    BY <1>a, <1>8, MapMembers
  <2>2. NoRepeat(queued') /\ \A x : ~InSeq(x, queued')
    BY <1>8 DEF NoRepeat, InSeq
  <2>3. QueueInv'
    BY <1>a, <1>1, <1>3, <2>1, <2>2 DEF QueueInv
  <2>4. LoopInv'
    BY <1>a, <1>1 DEF LoopInv
  <2>5. StopInv'
    <3>1. \A c \in Chars : owner[c] = 0 \/ owner[c] \in Sess
      BY <1>a DEF TypeOK
    <3> QED BY <1>a, <1>1, <1>8, <2>1, <3>1 DEF StopInv, OwnInv, charVars
  <2> QED BY <1>5, <1>6, <2>3, <2>4, <2>5 DEF IInv
<1> QED BY <1>2, <1>7, <1>8

\* A login is asked for.
LEMMA LoginStep ==
  ASSUME IInv, NEW s \in Sess, NEW c \in Chars, HandlePlayerLoginOpcode(s, c)
  PROVE  IInv'
<1>a. TypeOK /\ MapInv /\ NewInv /\ OwnInv /\ QueueInv /\ LoopInv /\ StopInv
  BY DEF IInv
<1>1. /\ pc = "update" /\ turn = s /\ ~inQueue[s] /\ s # 0
      /\ loading' = [loading EXCEPT ![s] = TRUE]
      /\ holders' = Append(holders, [acct |-> acct[s], char |-> c])
      /\ UNCHANGED <<acct, open, inQueue, leaving, player, timer, mapVars,
                     addSessQueue, limit, charVars, loopVars>>
  BY DEF HandlePlayerLoginOpcode, Processes, Sess
<1>2. Mapped(s) /\ s \in 1 .. Len(acct) /\ acct[s] \in Accounts
  BY <1>a, <1>1 DEF LoopInv, Mapped, TypeOK
<1>3. \A x : Mapped(x)' <=> Mapped(x)
  BY <1>1 DEF Mapped, mapVars
<1>4. TypeOK'
  <2>1. [acct |-> acct[s], char |-> c] \in [acct : Accounts, char : Chars]
    BY <1>2
  <2>2. holders' \in Seq([acct : Accounts, char : Chars])
    BY <1>a, <1>1, <2>1 DEF TypeOK
  <2> QED BY <1>a, <1>1, <2>2 DEF TypeOK, mapVars, charVars, loopVars
<1>5. MapInv' /\ OwnInv' /\ LoopInv' /\ StopInv'
  BY <1>a, <1>1, <1>3 DEF MapInv, OwnInv, LoopInv, StopInv, mapVars, charVars, loopVars
<1>6. NewInv' /\ QueueInv'
  BY <1>a, <1>1, <1>2, <1>3 DEF NewInv, QueueInv, mapVars, TypeOK
<1> QED BY <1>4, <1>5, <1>6 DEF IInv

\* The player leaves and the session stays.
LEMMA LogoutStep == ASSUME IInv, NEW s \in Sess, InstantLogout(s) \/ LogoutDue(s) PROVE IInv'
<1>a. TypeOK /\ MapInv /\ NewInv /\ OwnInv /\ QueueInv /\ LoopInv /\ StopInv
  BY DEF IInv
<1>1. /\ LogoutPlayer(s) /\ open[s]
      /\ pc = "update" /\ turn = s /\ s # 0 /\ turn' \in {turn, 0}
      /\ left' = left \/ (left' = left \ {s} /\ turn' = 0)
      /\ UNCHANGED <<acct, open, inQueue, loading, timer, mapVars,
                     addSessQueue, limit, holders, pc, stopped>>
  BY DEF InstantLogout, LogoutDue, Processes, Turn, Sess, loopVars
<1>2. /\ owner' \in [Chars -> {0} \cup Sess] /\ inWorld' \in [Chars -> BOOLEAN]
      /\ player' \in [Sess -> Chars \cup {NoChar}] /\ leaving' \in [Sess -> BOOLEAN]
      /\ player'[s] = NoChar /\ \A x \in Sess \ {s} : player'[x] = player[x]
      /\ \A c \in Chars : owner'[c] = IF owner[c] = s THEN 0 ELSE owner[c]
      /\ \A x \in Sess, c \in Chars : player'[x] = c <=> owner'[c] = x
  BY <1>a, <1>1, Unloaded
<1>3. \A x : Mapped(x)' <=> Mapped(x)
  BY <1>1 DEF Mapped, mapVars
<1>4. TypeOK'
  BY <1>a, <1>1, <1>2 DEF TypeOK, mapVars
<1>5. MapInv' /\ LoopInv'
  BY <1>a, <1>1, <1>3 DEF MapInv, LoopInv, mapVars, TypeOK
<1>6. OwnInv'
  BY <1>a, <1>1, <1>2, <1>3 DEF OwnInv, mapVars
<1>7. NewInv' /\ QueueInv'
  BY <1>a, <1>1, <1>2, <1>3 DEF NewInv, QueueInv, mapVars
<1>8. StopInv'
  BY <1>a, <1>1, <1>2 DEF StopInv, mapVars
<1> QED BY <1>4, <1>5, <1>6, <1>7, <1>8 DEF IInv

\* What leaves m_sessions, and that no other session does.
LEMMA Unmapped ==
  ASSUME TypeOK, MapInv, NEW s \in Sess, Mapped(s), acct' = acct,
         sessions' = [sessions EXCEPT ![acct[s]] = 0]
  PROVE  /\ acct[s] \in Accounts /\ s \in alive /\ s \in 1 .. Len(acct) /\ s # 0
         /\ sessions' \in [Accounts -> {0} \cup Sess]
         /\ \A x \in Sess : Mapped(x)' <=> Mapped(x) /\ x # s
         /\ \A a \in Accounts : sessions'[a] # 0 => sessions'[a] = sessions[a] /\ sessions[a] # s
<1>1. acct[s] \in Accounts /\ s \in 1 .. Len(acct) /\ s # 0 /\ sessions[acct[s]] = s
  BY DEF Mapped, TypeOK
<1>2. s \in alive
  BY <1>1 DEF MapInv
<1>3. \A x \in 1 .. Len(acct) : acct[x] \in Accounts
  BY DEF TypeOK
<1>4. \A x \in Sess : Mapped(x)' <=> Mapped(x) /\ x # s
  BY <1>1, <1>3 DEF Mapped, TypeOK
<1>5. ASSUME NEW a \in Accounts, sessions'[a] # 0
      PROVE  sessions'[a] = sessions[a] /\ sessions[a] # s
  BY <1>1, <1>5 DEF TypeOK, MapInv
<1> QED BY <1>1, <1>2, <1>4, <1>5 DEF TypeOK

\* UpdateSessions drops a session in its turn.
LEMMA DropStep ==
  ASSUME IInv, NEW s \in Sess, Turn(s), DropSession(s),
         UNCHANGED <<acct, loading, timer, disconnected, addSessQueue, limit, holders, pc, stopped>>
  PROVE  IInv'
<1>a. TypeOK /\ MapInv /\ NewInv /\ OwnInv /\ QueueInv /\ LoopInv /\ StopInv
  BY DEF IInv
<1>1. /\ pc = "update" /\ turn = s /\ turn' = 0 /\ left' = left \ {s} /\ Mapped(s)
      /\ alive' = alive \ {s} /\ open' = [open EXCEPT ![s] = FALSE] /\ LogoutPlayer(s)
      /\ queued' = QueueAfter(s) /\ inQueue' = FlagsAfter(inQueue, queued')
      /\ sessions' = [sessions EXCEPT ![acct[s]] = 0]
      /\ lastLogout' = lastLogout \/ lastLogout' = lastLogout \cup {acct[s]}
  BY <1>a DEF Turn, DropSession, DeleteSession, LoopInv, Sess
<1>2. /\ acct[s] \in Accounts /\ s \in alive /\ s # 0
      /\ sessions' \in [Accounts -> {0} \cup Sess]
      /\ \A x \in Sess : Mapped(x)' <=> Mapped(x) /\ x # s
      /\ \A a \in Accounts : sessions'[a] # 0 => sessions'[a] = sessions[a] /\ sessions[a] # s
  BY <1>a, <1>1, Unmapped
<1>3. /\ owner' \in [Chars -> {0} \cup Sess] /\ inWorld' \in [Chars -> BOOLEAN]
      /\ player' \in [Sess -> Chars \cup {NoChar}] /\ leaving' \in [Sess -> BOOLEAN]
      /\ player'[s] = NoChar /\ \A x \in Sess \ {s} : player'[x] = player[x]
      /\ \A c \in Chars : owner'[c] = IF owner[c] = s THEN 0 ELSE owner[c]
      /\ \A x \in Sess, c \in Chars : player'[x] = c <=> owner'[c] = x
  BY <1>a, <1>1, Unloaded
<1>4. /\ queued' \in Seq(Sess) /\ NoRepeat(queued')
      /\ \A x : InSeq(x, queued') => InSeq(x, queued) /\ x # s
  BY <1>a, <1>1, QueueAfterFacts DEF QueueInv
<1>5. QueueInv' /\ inQueue' \in [Sess -> BOOLEAN]
  <2>1. \A x \in Sess : InSeq(x, queued)' => InSeq(x, queued) /\ Mapped(x)'
    BY <1>a, <1>2, <1>4 DEF QueueInv
  <2>2. \A x \in Sess : open'[x] => open[x]
    BY <1>a, <1>1 DEF TypeOK
  <2>3. \A x \in Sess : player'[x] \in {player[x], NoChar}
    BY <1>3
  <2> QED BY <1>a, <1>1, <1>2, <1>4, <2>1, <2>2, <2>3, QueueShrinks
<1>6. TypeOK'
  <2>1. open' \in [Sess -> BOOLEAN] /\ lastLogout' \subseteq Accounts /\ left' \subseteq Sess
    BY <1>a, <1>1, <1>2 DEF TypeOK
  <2> QED BY <1>a, <1>1, <1>2, <1>3, <1>4, <1>5, <2>1 DEF TypeOK
<1>7. MapInv'
  BY <1>a, <1>1, <1>2 DEF MapInv, TypeOK
<1>8. NewInv'
  <2>1. \A x \in Sess : inQueue'[x] => inQueue[x]
    BY <1>1 DEF FlagsAfter
  <2> QED BY <1>a, <1>1, <1>2, <1>3, <2>1 DEF NewInv
<1>9. OwnInv'
  BY <1>a, <1>1, <1>2, <1>3 DEF OwnInv, TypeOK
<1>10. LoopInv'
  BY <1>a, <1>1, <1>2 DEF LoopInv, TypeOK
<1>11. StopInv'
  BY <1>a, <1>1, <1>3 DEF StopInv, TypeOK
<1> QED BY <1>5, <1>6, <1>7, <1>8, <1>9, <1>10, <1>11 DEF IInv

\* The socket is lost and the character stays in the world.
LEMMA StayStep ==
  ASSUME IInv, NEW s \in Sess, LostSocket(s), StaysInWorld(s)
  PROVE  IInv'
<1>a. TypeOK /\ MapInv /\ NewInv /\ OwnInv /\ QueueInv /\ LoopInv /\ StopInv
  BY DEF IInv
<1>1. /\ pc = "update" /\ turn = s /\ turn' = 0 /\ left' = left \ {s} /\ Mapped(s)
      /\ stopped = "no" /\ player[s] # NoChar
      /\ disconnected' = disconnected \cup {s} /\ lastLogout' = lastLogout \cup {acct[s]}
      /\ timer' = [timer EXCEPT ![s] = DelayTicks]
      /\ sessions' = [sessions EXCEPT ![acct[s]] = 0]
      /\ UNCHANGED <<acct, loading, addSessQueue, limit, holders, pc, stopped, queued, inQueue,
                     alive, open, owner, inWorld, player, leaving>>
  BY <1>a DEF LostSocket, Turn, StaysInWorld, InGame, SetDisconnectedSession, LoopInv, Sess, charVars
<1>2. /\ acct[s] \in Accounts /\ s \in alive /\ s # 0
      /\ sessions' \in [Accounts -> {0} \cup Sess]
      /\ \A x \in Sess : Mapped(x)' <=> Mapped(x) /\ x # s
      /\ \A a \in Accounts : sessions'[a] # 0 => sessions'[a] = sessions[a] /\ sessions[a] # s
  BY <1>a, <1>1, Unmapped
<1>3. ~inQueue[s] /\ ~InSeq(s, queued)
  BY <1>a, <1>1 DEF QueueInv
<1>4. TypeOK'
  <2>1. DelayTicks \in 0 .. DelayTicks
    BY SessionsAssumption DEF SessionsAssumption
  <2>2. timer' \in [Sess -> 0 .. DelayTicks]
    BY <1>a, <1>1, <2>1 DEF TypeOK
  <2> QED BY <1>a, <1>1, <1>2, <2>2 DEF TypeOK
<1>5. MapInv' /\ OwnInv' /\ LoopInv'
  BY <1>a, <1>1, <1>2 DEF MapInv, OwnInv, LoopInv, TypeOK
<1>6. NewInv' /\ QueueInv'
  BY <1>a, <1>1, <1>2, <1>3 DEF NewInv, QueueInv
<1>7. StopInv'
  BY <1>a, <1>1 DEF StopInv
<1> QED BY <1>4, <1>5, <1>6, <1>7 DEF IInv

LEMMA EndSessionStep == ASSUME IInv, NEW s \in Sess, EndSession(s) PROVE IInv'
<1>1. CASE LostSocket(s)
  <2>1. CASE StaysInWorld(s)
    BY <1>1, <2>1, StayStep
  <2>2. CASE ~StaysInWorld(s)
    BY <1>1, <2>2, DropStep DEF LostSocket
  <2> QED BY <2>1, <2>2
<1>2. CASE IdleTooLong(s)
  BY <1>2, DropStep DEF IdleTooLong
<1> QED BY <1>1, <1>2, LogoutStep, QuietSteps DEF EndSession

\* A disconnected session is deleted or waits on.
LEMMA DisconnectedStep == ASSUME IInv, NEW s \in Sess, UpdateDisconnected(s) PROVE IInv'
<1>a. TypeOK /\ MapInv /\ NewInv /\ OwnInv /\ QueueInv /\ LoopInv /\ StopInv
  BY DEF IInv
<1>1. /\ pc = "late" /\ left' = left \ {s} /\ s \in disconnected /\ s # 0
      /\ UNCHANGED <<acct, inQueue, loading, sessions,
                     queued, lastLogout, addSessQueue, limit, holders, pc, turn, stopped>>
  BY <1>a DEF UpdateDisconnected, LoopInv, Sess
<1>2. \A x : Mapped(x)' <=> Mapped(x)
  BY <1>1 DEF Mapped
<1>3. CASE disconnected' = disconnected \ {s} /\ DeleteSession(s) /\ UNCHANGED timer
  <2>1. /\ alive' = alive \ {s} /\ open' = [open EXCEPT ![s] = FALSE] /\ LogoutPlayer(s)
    BY <1>3 DEF DeleteSession
  <2>2. /\ owner' \in [Chars -> {0} \cup Sess] /\ inWorld' \in [Chars -> BOOLEAN]
        /\ player' \in [Sess -> Chars \cup {NoChar}] /\ leaving' \in [Sess -> BOOLEAN]
        /\ player'[s] = NoChar /\ \A x \in Sess \ {s} : player'[x] = player[x]
        /\ \A c \in Chars : owner'[c] = IF owner[c] = s THEN 0 ELSE owner[c]
        /\ \A x \in Sess, c \in Chars : player'[x] = c <=> owner'[c] = x
    BY <1>a, <2>1, Unloaded
  <2>3. ~Mapped(s) /\ ~InSeq(s, addSessQueue) /\ \A a \in Accounts : sessions[a] # s
    <3>1. ~Mapped(s) /\ ~InSeq(s, addSessQueue)
      BY <1>a, <1>1 DEF MapInv, NewInv
    <3>2. ASSUME NEW a \in Accounts, sessions[a] = s PROVE FALSE
      <4>1. acct[s] = a /\ s \in 1 .. Len(acct)
        BY <1>a, <1>1, <3>2 DEF MapInv, TypeOK
      <4> QED BY <3>1, <3>2, <4>1 DEF Mapped
    <3> QED BY <3>1, <3>2
  <2>4. TypeOK'
    BY <1>a, <1>1, <1>3, <2>1, <2>2 DEF TypeOK
  <2>5. MapInv' /\ OwnInv' /\ LoopInv'
    BY <1>a, <1>1, <1>2, <1>3, <2>1, <2>2, <2>3 DEF MapInv, OwnInv, LoopInv, TypeOK
  <2>6. NewInv'
    BY <1>a, <1>1, <1>2, <1>3, <2>1, <2>2, <2>3 DEF NewInv
  <2>7. QueueInv'
    BY <1>a, <1>1, <1>2, <2>1, <2>2 DEF QueueInv, TypeOK
  <2>8. StopInv'
    BY <1>a, <1>1, <1>3, <2>1, <2>2 DEF StopInv, TypeOK
  <2> QED BY <2>4, <2>5, <2>6, <2>7, <2>8 DEF IInv
<1>4. CASE /\ timer' = timer \/ (timer[s] > 0 /\ timer' = [timer EXCEPT ![s] = timer[s] - 1])
           /\ UNCHANGED <<disconnected, alive, open, charVars, player, leaving>>
  <2>1. timer' \in [Sess -> 0 .. DelayTicks]
    <3>1. timer[s] \in 0 .. DelayTicks
      BY <1>a DEF TypeOK
    <3>2. timer[s] > 0 => timer[s] - 1 \in 0 .. DelayTicks
      BY <3>1, SessionsAssumption DEF SessionsAssumption
    <3> QED BY <1>a, <1>4, <3>2 DEF TypeOK
  <2>2. TypeOK'
    BY <1>a, <1>1, <1>4, <2>1 DEF TypeOK, charVars
  <2>3. MapInv' /\ OwnInv' /\ NewInv' /\ QueueInv'
    BY <1>1, <1>4, Quiet DEF charVars
  <2>4. LoopInv' /\ StopInv'
    BY <1>a, <1>1, <1>4 DEF LoopInv, StopInv, charVars
  <2> QED BY <2>2, <2>3, <2>4 DEF IInv
<1> QED BY <1>3, <1>4 DEF UpdateDisconnected

\* A new session is refused: nobody has heard of it.
LEMMA RefuseStep == ASSUME IInv, RefuseSession PROVE IInv'
<1>a. TypeOK /\ MapInv /\ NewInv /\ OwnInv /\ QueueInv /\ LoopInv /\ StopInv
  BY DEF IInv
<1>b. addSessQueue \in Seq(Sess) /\ addSessQueue # <<>> /\ NoRepeat(addSessQueue)
  BY <1>a DEF RefuseSession, TypeOK, NewInv
<1>c. PICK s : s = Head(addSessQueue)
  OBVIOUS
<1>1. /\ s \in Sess /\ InSeq(s, addSessQueue) /\ addSessQueue' \in Seq(Sess) /\ NoRepeat(addSessQueue')
      /\ \A x : InSeq(x, addSessQueue') <=> InSeq(x, addSessQueue) /\ x # s
  <2>1. addSessQueue' = Tail(addSessQueue)
    BY DEF RefuseSession
  <2> QED BY <1>b, <1>c, <2>1, Pop
<1>2. /\ pc = "add"
      /\ alive' = alive \ {s} /\ open' = [open EXCEPT ![s] = FALSE] /\ LogoutPlayer(s)
      /\ UNCHANGED <<acct, inQueue, loading, timer, sessions, queued,
                     disconnected, lastLogout, limit, holders, loopVars>>
  BY <1>c DEF RefuseSession, DeleteSession
<1>3. /\ owner' \in [Chars -> {0} \cup Sess] /\ inWorld' \in [Chars -> BOOLEAN]
      /\ player' \in [Sess -> Chars \cup {NoChar}] /\ leaving' \in [Sess -> BOOLEAN]
      /\ player'[s] = NoChar /\ \A x \in Sess \ {s} : player'[x] = player[x]
      /\ \A c \in Chars : owner'[c] = IF owner[c] = s THEN 0 ELSE owner[c]
      /\ \A x \in Sess, c \in Chars : player'[x] = c <=> owner'[c] = x
  BY <1>a, <1>1, <1>2, Unloaded
<1>4. \A x : Mapped(x)' <=> Mapped(x)
  BY <1>2 DEF Mapped
<1>5. /\ s \in alive /\ ~Mapped(s) /\ s \notin disconnected /\ s # 0
      /\ \A a \in Accounts : sessions[a] # s
  <2>1. s \in alive /\ ~Mapped(s) /\ s \notin disconnected /\ s # 0
    BY <1>a, <1>1 DEF NewInv, Sess
  <2>2. ASSUME NEW a \in Accounts, sessions[a] = s PROVE FALSE
    <3>1. acct[s] = a /\ s \in 1 .. Len(acct)
      BY <1>a, <2>1, <2>2 DEF MapInv, TypeOK
    <3> QED BY <2>1, <2>2, <3>1 DEF Mapped
  <2> QED BY <2>1, <2>2
<1>6. TypeOK'
  BY <1>a, <1>1, <1>2, <1>3 DEF TypeOK, loopVars
<1>7. MapInv' /\ OwnInv'
  BY <1>a, <1>2, <1>3, <1>4, <1>5 DEF MapInv, OwnInv
<1>8. NewInv'
  BY <1>a, <1>1, <1>2, <1>3, <1>4 DEF NewInv
<1>9. QueueInv'
  BY <1>a, <1>1, <1>2, <1>3, <1>4 DEF QueueInv, TypeOK
<1>10. LoopInv' /\ StopInv'
  <2>1. LoopInv'
    BY <1>a, <1>2, <1>4 DEF LoopInv, loopVars
  <2>2. \A x \in Sess : open'[x] => open[x]
    BY <1>a, <1>2 DEF TypeOK
  <2>3. StopInv'
    BY <1>a, <1>2, <1>3, <2>2 DEF StopInv, loopVars, TypeOK
  <2> QED BY <2>1, <2>3
<1> QED BY <1>6, <1>7, <1>8, <1>9, <1>10 DEF IInv

-----------------------------------------------------------------------------
(* The login callbacks. *)

\* What every callback does: the holder is used up, the account's session is
\* the one in m_sessions.
LEMMA CallbackFacts ==
  ASSUME IInv, NEW s \in {0} \cup Sess, NEW c \in Chars, Callback(s, c)
  PROVE  /\ holders' \in Seq([acct : Accounts, char : Chars])
         /\ pc = "rest" /\ stopped # "last"
         /\ s # 0 => Mapped(s) /\ s \in alive
         /\ \A x : Mapped(x)' <=> Mapped(x)
<1>a. TypeOK /\ MapInv /\ StopInv
  BY DEF IInv
<1>1. holders # <<>> /\ holders' = Tail(holders) /\ s = sessions[Head(holders).acct]
  BY DEF Callback
<1>2. /\ Head(holders) \in [acct : Accounts, char : Chars]
      /\ Tail(holders) \in Seq([acct : Accounts, char : Chars])
  BY <1>a, <1>1, Pop DEF TypeOK
<1>3. s # 0 => Mapped(s) /\ s \in alive
  <2>1. Head(holders).acct \in Accounts
    BY <1>2
  <2> QED BY <1>a, <1>1, <2>1 DEF MapInv, Mapped, TypeOK
<1>4. pc = "rest" /\ stopped # "last"
  BY <1>a DEF Callback, StopInv
<1>5. \A x : Mapped(x)' <=> Mapped(x)
  BY DEF Callback, Mapped, mapVars
<1> QED BY <1>1, <1>2, <1>3, <1>4, <1>5

\* Nobody is logged in.
LEMMA UnansweredStep ==
  ASSUME IInv, NEW s \in {0} \cup Sess, NEW c \in Chars,
         CallbackDropped(s, c) \/ CallbackRefused(s, c)
  PROVE  IInv'
<1>a. TypeOK /\ MapInv /\ NewInv /\ OwnInv /\ QueueInv /\ LoopInv /\ StopInv
  BY DEF IInv
<1>1. /\ Callback(s, c) /\ UNCHANGED <<player, owner, inWorld>>
      /\ UNCHANGED <<acct, inQueue, leaving, timer, mapVars, addSessQueue, limit, loopVars>>
  BY DEF CallbackDropped, CallbackRefused, Callback, charVars
<1>2. /\ holders' \in Seq([acct : Accounts, char : Chars])
      /\ pc = "rest" /\ stopped # "last"
      /\ \A x : Mapped(x)' <=> Mapped(x)
  BY <1>1, CallbackFacts
<1>3. loading' \in [Sess -> BOOLEAN] /\ \A x \in Sess : loading'[x] => loading[x]
  BY <1>a DEF CallbackDropped, CallbackRefused, Wanted, TypeOK
<1>4. open' \in [Sess -> BOOLEAN] /\ \A x \in Sess : open'[x] => open[x]
  BY <1>a DEF CallbackDropped, CallbackRefused, Wanted, TypeOK
<1>5. TypeOK'
  BY <1>a, <1>1, <1>2, <1>3, <1>4 DEF TypeOK, mapVars, loopVars
<1>6. MapInv' /\ OwnInv'
  BY <1>a, <1>1, <1>2 DEF MapInv, OwnInv, mapVars
<1>7. NewInv'
  BY <1>a, <1>1, <1>2, <1>3 DEF NewInv, mapVars
<1>8. QueueInv'
  BY <1>a, <1>1, <1>2, <1>3, <1>4 DEF QueueInv, mapVars
<1>9. LoopInv' /\ StopInv'
  BY <1>a, <1>1, <1>2 DEF LoopInv, StopInv, loopVars, mapVars
<1> QED BY <1>5, <1>6, <1>7, <1>8, <1>9 DEF IInv

\* The character comes to session s: loaded from the database, or taken over
\* from the session that has it.
LEMMA LoggedInStep ==
  ASSUME IInv, NEW s \in {0} \cup Sess, NEW c \in Chars,
         CallbackTakesOver(s, c) \/ CallbackLoads(s, c)
  PROVE  IInv'
<1>a. TypeOK /\ MapInv /\ NewInv /\ OwnInv /\ QueueInv /\ LoopInv /\ StopInv
  BY DEF IInv
<1>0. NoChar \notin Chars /\ 0 \notin Sess
  BY SessionsAssumption DEF Sess, SessionsAssumption
<1>1. /\ Callback(s, c) /\ UNCHANGED open
      /\ UNCHANGED <<acct, inQueue, leaving, timer, mapVars, addSessQueue, limit, loopVars>>
      /\ s \in Sess /\ player[s] = NoChar /\ loading[s]
      /\ loading' = [loading EXCEPT ![s] = FALSE]
      /\ owner' = [owner EXCEPT ![c] = s]
  BY DEF CallbackTakesOver, CallbackLoads, Callback, Wanted
<1>2. /\ holders' \in Seq([acct : Accounts, char : Chars])
      /\ pc = "rest" /\ stopped # "last" /\ Mapped(s) /\ s \in alive
      /\ \A x : Mapped(x)' <=> Mapped(x)
  BY <1>0, <1>1, CallbackFacts
<1>3. ~inQueue[s] /\ ~InSeq(s, addSessQueue)
  BY <1>a, <1>1, <1>2 DEF QueueInv, NewInv
<1>4. Owner[c] = acct[s]
  BY <1>a DEF CallbackTakesOver, CallbackLoads, OwnInv
<1>5. inWorld' \in [Chars -> BOOLEAN]
  <2>1. CASE CallbackTakesOver(s, c)
    BY <1>a, <2>1 DEF CallbackTakesOver, TypeOK
  <2>2. CASE CallbackLoads(s, c)
    BY <1>a, <2>2 DEF CallbackLoads, TypeOK
  <2> QED BY <2>1, <2>2
<1>6. /\ player' \in [Sess -> Chars \cup {NoChar}] /\ player'[s] = c
      /\ \A x \in Sess \ {s} : player'[x] = IF x = owner[c] THEN NoChar ELSE player[x]
  <2>1. CASE CallbackTakesOver(s, c)
    <3>1. owner[c] # s
      BY <1>0, <1>a, <1>1 DEF OwnInv
    <3>2. player' = [player EXCEPT ![owner[c]] = NoChar, ![s] = c] /\ owner[c] \in Sess
      BY <1>a, <2>1 DEF CallbackTakesOver, TypeOK
    <3> QED BY <1>a, <1>1, <3>1, <3>2 DEF TypeOK
  <2>2. CASE CallbackLoads(s, c)
    <3>1. owner[c] \notin Sess /\ player' = [player EXCEPT ![s] = c]
      BY <1>0, <2>2 DEF CallbackLoads
    <3> QED BY <1>a, <1>1, <3>1 DEF TypeOK
  <2> QED BY <2>1, <2>2
<1>7. owner' \in [Chars -> {0} \cup Sess] /\ owner'[c] = s /\ \A d \in Chars \ {c} : owner'[d] = owner[d]
  BY <1>a, <1>1 DEF TypeOK
<1>8. loading' \in [Sess -> BOOLEAN] /\ ~loading'[s] /\ \A x \in Sess : loading'[x] => loading[x]
  BY <1>a, <1>1 DEF TypeOK
<1>9. TypeOK'
  BY <1>a, <1>1, <1>2, <1>5, <1>6, <1>7, <1>8 DEF TypeOK, mapVars, loopVars
<1>10. MapInv'
  BY <1>a, <1>1, <1>2 DEF MapInv, mapVars
<1>11. OwnInv'
  <2>1. ASSUME NEW x \in Sess, NEW d \in Chars PROVE player'[x] = d <=> owner'[d] = x
    <3>1. player[x] = d <=> owner[d] = x
      BY <1>a DEF OwnInv
    <3>2. player[x] = c <=> owner[c] = x
      BY <1>a DEF OwnInv
    <3>3. player[s] # d /\ owner[d] # s
      BY <1>a, <1>0, <1>1 DEF OwnInv
    <3>4. CASE x = s
      BY <1>6, <1>7, <3>3, <3>4
    <3>5. CASE x # s
      BY <1>0, <1>6, <1>7, <3>1, <3>2, <3>5
    <3> QED BY <3>4, <3>5
  <2>2. ASSUME NEW d \in Chars, owner'[d] # 0
        PROVE  /\ owner'[d] \in alive' /\ Owner[d] = acct'[owner'[d]]
               /\ Mapped(owner'[d]) \/ owner'[d] \in disconnected'
    <3>1. CASE d = c
      BY <1>1, <1>2, <1>4, <1>7, <3>1 DEF mapVars
    <3>2. CASE d # c
      BY <1>a, <1>1, <1>7, <2>2, <3>2 DEF OwnInv, mapVars
    <3> QED BY <3>1, <3>2
  <2> QED BY <1>2, <2>1, <2>2 DEF OwnInv
<1>12. NewInv'
  <2>1. \A x \in Sess : InSeq(x, addSessQueue) => x # s /\ player'[x] = NoChar
    BY <1>a, <1>3, <1>6 DEF NewInv
  <2> QED BY <1>a, <1>1, <1>2, <1>8, <2>1 DEF NewInv, mapVars
<1>13. QueueInv'
  <2>1. \A x \in Sess : inQueue[x] => x # s /\ player'[x] = NoChar
    BY <1>a, <1>3, <1>6 DEF QueueInv
  <2> QED BY <1>a, <1>1, <1>2, <1>8, <2>1 DEF QueueInv, mapVars
<1>14. LoopInv' /\ StopInv'
  BY <1>a, <1>1, <1>2 DEF LoopInv, StopInv, loopVars, mapVars
<1> QED BY <1>9, <1>10, <1>11, <1>12, <1>13, <1>14 DEF IInv

-----------------------------------------------------------------------------
(* AddSession_ lets a session in. *)

\* What becomes of the old session of the account: it is deleted with its
\* player, or joins m_disconnectedSessions with it.
Ousted(old) ==
  /\ alive \ {old} \subseteq alive' /\ alive' \subseteq alive
  /\ disconnected \subseteq disconnected'
  /\ \A x \in disconnected' \ disconnected : x = old /\ x \in alive'
  /\ \A x \in Sess : open'[x] => open[x] /\ x # old
  /\ \A x \in Sess : player'[x] \in {player[x], NoChar}
  /\ \A c \in Chars : owner'[c] # 0 => /\ owner'[c] = owner[c]
                                       /\ owner'[c] = old => old \in disconnected' /\ old \in alive'
  /\ \A x \in Sess, c \in Chars : player'[x] = c <=> owner'[c] = x
  /\ open' \in [Sess -> BOOLEAN] /\ leaving' \in [Sess -> BOOLEAN]
  /\ player' \in [Sess -> Chars \cup {NoChar}]
  /\ timer' \in [Sess -> 0 .. DelayTicks]
  /\ disconnected' \subseteq Sess /\ lastLogout' \subseteq Accounts
  /\ owner' \in [Chars -> {0} \cup Sess] /\ inWorld' \in [Chars -> BOOLEAN]

LEMMA OustedFacts ==
  ASSUME TypeOK, MapInv, OwnInv, NEW old \in {0} \cup Sess,
         old # 0 => acct[old] \in Accounts /\ old \in alive,
         IF old = 0
           THEN UNCHANGED <<open, alive, disconnected, lastLogout, timer, charVars, player, leaving>>
           ELSE IF StaysInWorld(old)
             THEN /\ SetDisconnectedSession(old)
                  /\ open' = [open EXCEPT ![old] = FALSE]
                  /\ UNCHANGED <<alive, charVars, player, leaving>>
             ELSE DeleteSession(old) /\ UNCHANGED <<disconnected, lastLogout, timer>>
  PROVE  Ousted(old)
<1>0. 0 \notin Sess
  BY DEF Sess
<1>1. CASE old = 0
  BY <1>0, <1>1 DEF Ousted, TypeOK, OwnInv, charVars
<1>2. CASE old # 0 /\ StaysInWorld(old)
  <2>1. /\ disconnected' = disconnected \cup {old} /\ lastLogout' = lastLogout \cup {acct[old]}
        /\ timer' = [timer EXCEPT ![old] = DelayTicks]
        /\ open' = [open EXCEPT ![old] = FALSE]
        /\ UNCHANGED <<alive, owner, inWorld, player, leaving>>
    BY <1>2 DEF SetDisconnectedSession, charVars
  <2>2. timer' \in [Sess -> 0 .. DelayTicks]
    <3>1. DelayTicks \in 0 .. DelayTicks
      BY SessionsAssumption DEF SessionsAssumption
    <3> QED BY <2>1, <3>1 DEF TypeOK
  <2>3. open' \in [Sess -> BOOLEAN] /\ \A x \in Sess : open'[x] => open[x] /\ x # old
    BY <2>1 DEF TypeOK
  <2> QED BY <1>2, <2>1, <2>2, <2>3 DEF Ousted, TypeOK, OwnInv
<1>3. CASE old # 0 /\ ~StaysInWorld(old)
  <2>1. /\ alive' = alive \ {old} /\ open' = [open EXCEPT ![old] = FALSE] /\ LogoutPlayer(old)
        /\ UNCHANGED <<disconnected, lastLogout, timer>> /\ old \in Sess
    BY <1>3 DEF DeleteSession
  <2>2. /\ owner' \in [Chars -> {0} \cup Sess] /\ inWorld' \in [Chars -> BOOLEAN]
        /\ player' \in [Sess -> Chars \cup {NoChar}] /\ leaving' \in [Sess -> BOOLEAN]
        /\ player'[old] = NoChar /\ \A x \in Sess \ {old} : player'[x] = player[x]
        /\ \A c \in Chars : owner'[c] = IF owner[c] = old THEN 0 ELSE owner[c]
        /\ \A x \in Sess, c \in Chars : player'[x] = c <=> owner'[c] = x
    BY <2>1, Unloaded
  <2>3. open' \in [Sess -> BOOLEAN] /\ \A x \in Sess : open'[x] => open[x] /\ x # old
    BY <2>1 DEF TypeOK
  <2>4. \A x \in Sess : player'[x] \in {player[x], NoChar}
    BY <2>2
  <2>5. \A c \in Chars : owner'[c] # 0 => owner'[c] = owner[c] /\ owner'[c] # old
    BY <2>2
  <2> QED BY <1>3, <2>1, <2>2, <2>3, <2>4, <2>5 DEF Ousted, TypeOK
<1> QED BY <1>1, <1>2, <1>3

\* What becomes of the queue and its flags: the old session is out of it, the
\* new one may be at its end.
Requeued(s, old) ==
  /\ queued' \in Seq(Sess) /\ NoRepeat(queued') /\ inQueue' \in [Sess -> BOOLEAN]
  /\ \A x \in Sess : x # s /\ InSeq(x, queued') => InSeq(x, queued) /\ x # old
  /\ \A x \in Sess \ {s} : inQueue'[x] <=> inQueue[x] /\ (InSeq(x, queued') \/ ~InSeq(x, queued))
  /\ inQueue'[s] <=> InSeq(s, queued')

LEMMA RequeuedFacts ==
  ASSUME TypeOK, NoRepeat(queued), NEW s \in Sess, NEW old \in {0} \cup Sess, ~InSeq(s, queued),
         NEW full \in BOOLEAN, NEW q, q = IF old = 0 THEN queued ELSE QueueAfter(old),
         queued' = IF full THEN Append(q, s) ELSE q,
         inQueue' = [FlagsAfter(inQueue, q) EXCEPT ![s] = full]
  PROVE  Requeued(s, old)
<1>1. /\ q \in Seq(Sess) /\ NoRepeat(q)
      /\ \A x \in Sess : InSeq(x, q) => InSeq(x, queued) /\ x # old
  <2>1. CASE old = 0
    BY <2>1 DEF TypeOK, Sess
  <2>2. CASE old # 0
    BY <2>2, QueueAfterFacts
  <2> QED BY <2>1, <2>2
<1>2. ~InSeq(s, q)
  BY <1>1
<1>3. /\ queued' \in Seq(Sess) /\ NoRepeat(queued')
      /\ \A x : InSeq(x, queued') <=> InSeq(x, q) \/ (full /\ x = s)
  <2>1. CASE full
    BY <1>1, <1>2, <2>1, Push
  <2>2. CASE ~full
    BY <1>1, <2>2
  <2> QED BY <2>1, <2>2
<1>4. /\ inQueue' \in [Sess -> BOOLEAN] /\ inQueue'[s] = full
      /\ \A x \in Sess \ {s} : inQueue'[x] <=> inQueue[x] /\ (InSeq(x, q) \/ ~InSeq(x, queued))
  BY DEF FlagsAfter, TypeOK
<1> QED BY <1>1, <1>2, <1>3, <1>4 DEF Requeued

LEMMA AdmitStep == ASSUME IInv, NEW skip \in BOOLEAN, AdmitSession(skip) PROVE IInv'
<1>a. TypeOK /\ MapInv /\ NewInv /\ OwnInv /\ QueueInv /\ LoopInv /\ StopInv
  BY DEF IInv
<1>b. addSessQueue \in Seq(Sess) /\ addSessQueue # <<>> /\ NoRepeat(addSessQueue)
  BY <1>a DEF AdmitSession, TypeOK, NewInv
<1>c. PICK s : s = Head(addSessQueue)
  OBVIOUS
<1>d. PICK a : a = acct[s]
  OBVIOUS
<1>e. PICK old : old = sessions[a]
  OBVIOUS
<1>1. /\ s \in Sess /\ InSeq(s, addSessQueue) /\ addSessQueue' \in Seq(Sess) /\ NoRepeat(addSessQueue')
      /\ \A x : InSeq(x, addSessQueue') <=> InSeq(x, addSessQueue) /\ x # s
  <2>1. addSessQueue' = Tail(addSessQueue)
    BY DEF AdmitSession
  <2> QED BY <1>b, <1>c, <2>1, Pop
<1>2. /\ s \in alive /\ ~Mapped(s) /\ s \notin disconnected /\ player[s] = NoChar
      /\ ~inQueue[s] /\ ~loading[s] /\ s # 0
  BY <1>a, <1>1 DEF NewInv, Sess
<1>3. s \in 1 .. Len(acct) /\ a \in Accounts /\ old \in {0} \cup Sess /\ old # s
  <2>1. s \in 1 .. Len(acct)
    BY <1>a, <1>2 DEF TypeOK
  <2>2. a \in Accounts
    BY <1>a, <1>d, <2>1 DEF TypeOK
  <2> QED BY <1>a, <1>d, <1>e, <1>2, <2>1, <2>2 DEF TypeOK, Mapped
<1>4. old # 0 => /\ old \in Sess /\ old \in alive /\ acct[old] = a /\ Mapped(old)
                 /\ old \notin disconnected /\ ~InSeq(old, addSessQueue)
  <2>1. old # 0 => old \in Sess /\ old \in alive /\ acct[old] = a
    BY <1>a, <1>e, <1>3 DEF MapInv
  <2>2. old # 0 => Mapped(old)
    BY <1>a, <1>e, <2>1 DEF Mapped, TypeOK
  <2> QED BY <1>a, <2>1, <2>2 DEF MapInv, NewInv
<1>5. /\ pc = "add" /\ UNCHANGED <<acct, loading, limit, holders, loopVars>>
      /\ sessions' = [sessions EXCEPT ![a] = s]
  BY <1>c, <1>d DEF AdmitSession
<1>6. Ousted(old)
  <2>1. IF old = 0
          THEN UNCHANGED <<open, alive, disconnected, lastLogout, timer, charVars, player, leaving>>
          ELSE IF StaysInWorld(old)
            THEN /\ SetDisconnectedSession(old)
                 /\ open' = [open EXCEPT ![old] = FALSE]
                 /\ UNCHANGED <<alive, charVars, player, leaving>>
            ELSE DeleteSession(old) /\ UNCHANGED <<disconnected, lastLogout, timer>>
    BY <1>c, <1>d, <1>e DEF AdmitSession
  <2> QED BY <1>a, <1>3, <1>4, <2>1, OustedFacts
<1>7. Requeued(s, old)
  <2>1. PICK q : q = IF old = 0 THEN queued ELSE QueueAfter(old)
    OBVIOUS
  <2>2. \E full \in BOOLEAN : /\ queued' = IF full THEN Append(q, s) ELSE q
                              /\ inQueue' = [FlagsAfter(inQueue, q) EXCEPT ![s] = full]
    <3> DEFINE wasQ == old # 0 /\ InSeq(old, queued)
               count == Cardinality(InMap([sessions EXCEPT ![a] = s])) - (IF wasQ THEN 0 ELSE 1)
               full == Full(count) /\ ~skip
    <3>1. /\ queued' = IF full THEN Append(q, s) ELSE q
          /\ inQueue' = [FlagsAfter(inQueue, q) EXCEPT ![s] = full]
      BY <1>c, <1>d, <1>e, <2>1 DEF AdmitSession
    <3>2. full \in BOOLEAN
      OBVIOUS
    <3> HIDE DEF full
    <3> QED BY <3>1, <3>2
  <2>3. PICK full \in BOOLEAN : /\ queued' = IF full THEN Append(q, s) ELSE q
                                /\ inQueue' = [FlagsAfter(inQueue, q) EXCEPT ![s] = full]
    BY <2>2
  <2>4. ~InSeq(s, queued) /\ NoRepeat(queued)
    BY <1>a, <1>1, <1>2 DEF QueueInv
  <2> QED BY <1>a, <1>1, <1>3, <2>1, <2>3, <2>4, RequeuedFacts
<1>8. /\ sessions' \in [Accounts -> {0} \cup Sess]
      /\ \A b \in Accounts : sessions'[b] = IF b = a THEN s ELSE sessions[b]
  BY <1>a, <1>1, <1>3, <1>5 DEF TypeOK
<1>9. \A x \in Sess : Mapped(x)' <=> (Mapped(x) /\ x # old) \/ x = s
  <2>1. ASSUME NEW x \in Sess, x \in 1 .. Len(acct)
        PROVE  sessions'[acct[x]] = x <=> (sessions[acct[x]] = x /\ x # old) \/ x = s
    <3>1. acct[x] \in Accounts
      BY <1>a, <2>1 DEF TypeOK
    <3>2. x = old => acct[x] = a
      BY <1>4, <2>1
    <3> QED BY <1>d, <1>e, <1>8, <3>1, <3>2
  <2> QED BY <1>3, <1>5, <2>1 DEF Mapped
<1>10. TypeOK'
  <2>1. alive' \subseteq 1 .. Len(acct)
    BY <1>a, <1>6 DEF Ousted, TypeOK
  <2> QED BY <1>a, <1>1, <1>5, <1>6, <1>7, <1>8, <2>1 DEF TypeOK, Ousted, Requeued, loopVars
<1>11. MapInv'
  <2>1. ASSUME NEW b \in Accounts, sessions'[b] # 0
        PROVE  sessions'[b] \in alive' /\ acct[sessions'[b]] = b
    <3>1. CASE b = a
      BY <1>d, <1>2, <1>3, <1>6, <1>8, <3>1 DEF Ousted
    <3>2. CASE b # a
      <4>1. sessions'[b] = sessions[b] /\ sessions[b] \in alive /\ acct[sessions[b]] = b
        BY <1>a, <1>8, <2>1, <3>2 DEF MapInv
      <4>2. sessions[b] # old
        BY <1>4, <1>8, <2>1, <3>2, <4>1
      <4> QED BY <1>6, <4>1, <4>2 DEF Ousted
    <3> QED BY <3>1, <3>2
  <2>2. ASSUME NEW x \in disconnected' PROVE x \in Sess /\ x \in alive' /\ ~Mapped(x)'
    <3>1. x \in Sess
      BY <1>6 DEF Ousted
    <3>2. CASE x \in disconnected
      <4>1. x \in alive /\ ~Mapped(x) /\ x # s
        BY <1>a, <1>2, <3>2 DEF MapInv
      <4>2. x # old
        BY <1>4, <3>1, <3>2 DEF Sess
      <4> QED BY <1>6, <1>9, <3>1, <4>1, <4>2 DEF Ousted
    <3>3. CASE x \notin disconnected
      BY <1>3, <1>6, <1>9, <3>1, <3>3 DEF Ousted
    <3> QED BY <3>1, <3>2, <3>3
  <2> QED BY <1>5, <2>1, <2>2 DEF MapInv
<1>12. NewInv'
  <2>1. ASSUME NEW x \in Sess, InSeq(x, addSessQueue')
        PROVE  /\ x \in alive' /\ ~Mapped(x)' /\ x \notin disconnected'
               /\ player'[x] = NoChar /\ ~inQueue'[x] /\ ~loading'[x]
    <3>1. /\ x # s /\ x \in alive /\ ~Mapped(x) /\ x \notin disconnected
          /\ player[x] = NoChar /\ ~inQueue[x] /\ ~loading[x]
      BY <1>a, <1>1, <2>1 DEF NewInv
    <3>2. x # old
      BY <1>4, <3>1 DEF Sess
    <3>3. x \in alive' /\ x \notin disconnected' /\ player'[x] = NoChar
      BY <1>6, <3>1, <3>2 DEF Ousted
    <3>4. ~inQueue'[x] /\ ~Mapped(x)'
      BY <1>7, <1>9, <3>1 DEF Requeued
    <3> QED BY <1>5, <3>1, <3>3, <3>4
  <2>2. ASSUME NEW x \in Sess, x \notin 1 .. Len(acct) PROVE ~inQueue'[x] /\ ~loading'[x]
    BY <1>a, <1>3, <1>5, <1>7, <2>2 DEF NewInv, Requeued
  <2> QED BY <1>1, <1>5, <2>1, <2>2 DEF NewInv
<1>13. OwnInv'
  <2>1. ASSUME NEW c \in Chars, owner'[c] # 0
        PROVE  /\ owner'[c] \in alive' /\ Owner[c] = acct'[owner'[c]]
               /\ Mapped(owner[c])' \/ owner'[c] \in disconnected'
    <3>1. /\ owner'[c] = owner[c] /\ owner[c] \in Sess /\ owner[c] \in alive /\ Owner[c] = acct[owner[c]]
          /\ Mapped(owner[c]) \/ owner[c] \in disconnected
      BY <1>a, <1>6, <2>1 DEF OwnInv, Ousted, TypeOK
    <3>2. CASE owner'[c] = old
      BY <1>5, <1>6, <2>1, <3>1, <3>2 DEF Ousted
    <3>3. CASE owner'[c] # old
      <4>1. PICK o \in Sess : o = owner[c]
        BY <3>1
      <4>2. Mapped(o)' \/ o \in disconnected'
        BY <1>6, <1>9, <3>1, <3>3, <4>1 DEF Ousted
      <4> QED BY <1>5, <1>6, <3>1, <3>3, <4>1, <4>2 DEF Ousted
    <3> QED BY <3>2, <3>3
  <2>2. \A x \in Sess, c \in Chars : player'[x] = c <=> owner'[c] = x
    BY <1>6 DEF Ousted
  <2> QED BY <2>1, <2>2 DEF OwnInv
<1>14. QueueInv'
  <2>1. ASSUME NEW x \in Sess, InSeq(x, queued)' PROVE inQueue'[x] /\ Mapped(x)'
    <3>0. InSeq(x, queued')
      BY <2>1 DEF InSeq
    <3>1. CASE x = s
      BY <1>7, <1>9, <3>0, <3>1 DEF Requeued
    <3>2. CASE x # s
      <4>1. InSeq(x, queued) /\ x # old
        BY <1>7, <3>0, <3>2 DEF Requeued
      <4>2. inQueue[x] /\ Mapped(x)
        BY <1>a, <4>1 DEF QueueInv
      <4> QED BY <1>7, <1>9, <3>0, <3>2, <4>1, <4>2 DEF Requeued
    <3> QED BY <3>1, <3>2
  <2>2. ASSUME NEW x \in Sess, Mapped(x)', inQueue'[x], open'[x] PROVE InSeq(x, queued)'
    <3>1. CASE x = s
      BY <1>7, <2>2, <3>1 DEF Requeued, InSeq
    <3>2. CASE x # s
      <4>1. Mapped(x) /\ open[x]
        BY <1>6, <1>9, <2>2, <3>2 DEF Ousted
      <4>2. inQueue[x] /\ (InSeq(x, queued') \/ ~InSeq(x, queued))
        BY <1>7, <2>2, <3>2 DEF Requeued
      <4>3. InSeq(x, queued')
        BY <1>a, <4>1, <4>2 DEF QueueInv
      <4> QED BY <4>3 DEF InSeq
    <3> QED BY <3>1, <3>2
  <2>3. ASSUME NEW x \in Sess, inQueue'[x] PROVE player'[x] = NoChar /\ ~loading'[x]
    <3>1. player[x] = NoChar /\ ~loading[x]
      BY <1>a, <1>2, <1>7, <2>3 DEF QueueInv, Requeued
    <3> QED BY <1>5, <1>6, <3>1 DEF Ousted
  <2> QED BY <1>7, <2>1, <2>2, <2>3 DEF QueueInv, Requeued
<1>15. LoopInv'
  BY <1>a, <1>5 DEF LoopInv, loopVars
<1>16. StopInv'
  <2>1. ASSUME NEW c \in Chars, stopped = "last", owner'[c] \notin disconnected' \cup {0}
        PROVE  ~open'[owner'[c]]
    <3>1. owner'[c] = owner[c] /\ owner[c] \in Sess /\ owner[c] \notin disconnected \cup {0}
      BY <1>a, <1>6, <2>1 DEF Ousted, TypeOK
    <3> QED BY <1>a, <1>6, <2>1, <3>1 DEF Ousted, StopInv
  <2> QED BY <1>5, <2>1, <1>a DEF StopInv, loopVars
<1> QED BY <1>10, <1>11, <1>12, <1>13, <1>14, <1>15, <1>16 DEF IInv

-----------------------------------------------------------------------------
(* The theorems. *)

LEMMA Start == Init => IInv
<1> SUFFICES ASSUME Init PROVE IInv
  OBVIOUS
<1>0. 0 \notin Sess /\ NoChar \notin Chars
  BY SessionsAssumption DEF Sess, SessionsAssumption
<1>1. TypeOK
  <2>1. acct \in Seq(Accounts) /\ Len(acct) <= MaxSessions
    BY SessionsAssumption DEF Init, SessionsAssumption
  <2>2. timer \in [Sess -> 0 .. DelayTicks]
    BY SessionsAssumption DEF Init, SessionsAssumption
  <2>3. queued \in Seq(Sess) /\ addSessQueue \in Seq(Sess)
    BY DEF Init
  <2>4. holders \in Seq([acct : Accounts, char : Chars])
    BY DEF Init
  <2>5. limit \in Int
    BY SessionsAssumption DEF Init, SessionsAssumption
  <2> QED BY <2>1, <2>2, <2>3, <2>4, <2>5 DEF Init, TypeOK
<1>2. /\ NoRepeat(queued) /\ NoRepeat(addSessQueue)
      /\ \A x : ~InSeq(x, queued) /\ ~InSeq(x, addSessQueue)
  BY DEF Init, NoRepeat, InSeq
<1>3. MapInv /\ NewInv
  BY <1>2 DEF Init, MapInv, NewInv
<1>4. OwnInv
  BY <1>0 DEF Init, OwnInv
<1>5. QueueInv /\ LoopInv /\ StopInv
  BY <1>2 DEF Init, QueueInv, LoopInv, StopInv
<1> QED BY <1>1, <1>3, <1>4, <1>5 DEF IInv

\* Nothing happens.
LEMMA Stutters == ASSUME IInv, UNCHANGED vars PROVE IInv'
<1>1. UNCHANGED <<acct, alive, inQueue, loading, player, sessions, disconnected, addSessQueue, owner,
                  queued, open, leaving, timer, lastLogout, limit, inWorld, holders, pc, left, turn, stopped>>
  BY DEF vars, sessVars, mapVars, charVars, loopVars
<1>2. MapInv' /\ NewInv' /\ OwnInv' /\ QueueInv' /\ \A x : Mapped(x)' <=> Mapped(x)
  BY <1>1, Quiet
<1>3. TypeOK'
  BY <1>1 DEF IInv, TypeOK
<1>4. LoopInv' /\ StopInv'
  BY <1>1, <1>2 DEF IInv, LoopInv, StopInv
<1> QED BY <1>2, <1>3, <1>4 DEF IInv

LEMMA InductiveStep == IInv /\ [Next]_vars => IInv'
<1> SUFFICES ASSUME IInv, [Next]_vars PROVE IInv'
  OBVIOUS
<1>1. CASE NetworkNext
  BY <1>1, AddSessionStep, QuietSteps DEF NetworkNext
<1>2. CASE WorldNext
  <2>1. CASE AcceptQueued \/ EndTick
    BY <2>1, AcceptStep, EndTickStep
  <2>2. CASE RefuseSession \/ AdmitSession(FALSE) \/ AdmitSession(TRUE)
    BY <2>2, RefuseStep, AdmitStep
  <2>3. CASE BeginUpdate \/ BeginDisconnected \/ EndSessions
    BY <2>3, QuietSteps
  <2>4. ASSUME NEW s \in Sess, BeginSession(s) \/ EndSession(s) \/ UpdateDisconnected(s) PROVE IInv'
    BY <2>4, QuietSteps, EndSessionStep, DisconnectedStep
  <2> QED BY <1>2, <2>1, <2>2, <2>3, <2>4 DEF WorldNext
<1>3. CASE LoginCallback
  BY <1>3, UnansweredStep, LoggedInStep DEF LoginCallback
<1>4. ASSUME NEW s \in Sess, PacketNext(s) PROVE IInv'
  BY <1>4, LoginStep, LogoutStep, QuietSteps DEF PacketNext
<1>5. CASE StopNow \/ \E c \in Chars : TeleportFar(c)
  BY <1>5, QuietSteps
<1>6. CASE UNCHANGED vars
  BY <1>6, Stutters
<1> QED BY <1>1, <1>2, <1>3, <1>4, <1>5, <1>6 DEF Next

\* Whatever the clients, the sockets and the order of the callbacks, every
\* reachable state satisfies the inductive invariant.
THEOREM Invariance == Spec => []IInv
<1>1. Init => IInv
  BY Start
<1>2. IInv /\ [Next]_vars => IInv'
  BY InductiveStep
<1> QED BY <1>1, <1>2, PTL DEF Spec

\* The session map, the queues and the sessions keep their types.
THEOREM TypeCorrect == Spec => []TypeOK
<1>1. IInv => TypeOK
  BY DEF IInv
<1> QED BY <1>1, Invariance, PTL

\* m_sessions, m_QueuedSessions, m_disconnectedSessions, addSessQueue, a Player's
\* m_session and the loops of UpdateSessions never point at a deleted session.
THEOREM OnlyLiveSessions == Spec => []NoDangling
<1>1. ASSUME IInv PROVE NoDangling
  <2>a. TypeOK /\ MapInv /\ NewInv /\ OwnInv /\ QueueInv /\ LoopInv
    BY <1>1 DEF IInv
  <2>1. \A s \in Sess : Mapped(s) => s \in alive
    BY <2>a DEF Mapped, MapInv, TypeOK, Sess
  <2>2. \A s \in Sess : s \in disconnected \/ InSeq(s, queued) \/ InSeq(s, addSessQueue) => s \in alive
    BY <2>a, <2>1 DEF MapInv, QueueInv, NewInv
  <2>3. pc \in {"update", "late"} => left \subseteq alive
    BY <2>a, <2>1 DEF LoopInv, MapInv, TypeOK
  <2>4. turn # 0 => turn \in alive
    BY <2>a, <2>3 DEF LoopInv
  <2> QED BY <2>a, <2>2, <2>3, <2>4 DEF NoDangling, MapInv, OwnInv
<1>2. IInv => NoDangling
  BY <1>1
<1> QED BY <1>2, Invariance, PTL

\* A loaded character and its session point at each other and belong to the
\* same account, through logins, takeovers, lost sockets and replaced sessions.
THEOREM OneSessionPerPlayer == Spec => []PlayerOwned
<1>1. ASSUME IInv PROVE PlayerOwned
  <2>a. TypeOK /\ OwnInv
    BY <1>1 DEF IInv
  <2>1. alive \subseteq Sess
    BY <2>a, SessionsAssumption DEF TypeOK, Sess, SessionsAssumption
  <2>2. ASSUME NEW s \in alive, player[s] # NoChar PROVE Owner[player[s]] = acct[s]
    <3>1. s \in Sess /\ s # 0 /\ player[s] \in Chars
      BY <2>a, <2>1, <2>2 DEF TypeOK, Sess
    <3> QED BY <2>a, <3>1 DEF OwnInv
  <2> QED BY <2>a, <2>1, <2>2 DEF PlayerOwned, OwnInv
<1>2. IInv => PlayerOwned
  BY <1>1
<1> QED BY <1>2, Invariance, PTL

\* m_QueuedSessions and the m_inQueue flags agree, and who waits has no
\* character and is not loading one.
THEOREM LoginQueueExact == Spec => []QueueExact
<1>1. ASSUME IInv PROVE QueueExact
  <2>a. TypeOK /\ MapInv /\ QueueInv
    BY <1>1 DEF IInv
  <2>1. InMap(sessions) \subseteq Sess /\ alive \subseteq Sess
    BY <2>a, SessionsAssumption DEF InMap, TypeOK, Sess, SessionsAssumption
  <2>2. \A s \in Sess : s \in InMap(sessions) <=> Mapped(s)
    BY <2>a, MapMembers
  <2>3. ASSUME NEW i \in 1 .. Len(queued) PROVE inQueue[queued[i]] /\ queued[i] \in InMap(sessions)
    <3>1. queued[i] \in Sess /\ InSeq(queued[i], queued)
      BY <2>a DEF TypeOK, InSeq
    <3> QED BY <2>a, <2>2, <3>1 DEF QueueInv
  <2>4. \A i, j \in 1 .. Len(queued) : queued[i] = queued[j] => i = j
    BY <2>a DEF QueueInv, NoRepeat
  <2>5. \A s \in InMap(sessions) : inQueue[s] /\ open[s] => InSeq(s, queued)
    BY <2>a, <2>1, <2>2 DEF QueueInv
  <2>6. \A s \in alive : inQueue[s] => player[s] = NoChar /\ ~loading[s]
    BY <2>a, <2>1 DEF QueueInv
  <2> QED BY <2>3, <2>4, <2>5, <2>6 DEF QueueExact
<1>2. IInv => QueueExact
  BY <1>1
<1> QED BY <1>2, Invariance, PTL

\* When the world has stopped, the only characters not logged out and saved are
\* those whose connection had been lost before.
THEOREM ShutdownSaves == Spec => []SavedUnlessLost
<1>1. IInv => SavedUnlessLost
  BY DEF IInv, StopInv, SavedUnlessLost
<1> QED BY <1>1, Invariance, PTL

=============================================================================
