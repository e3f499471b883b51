---------------------------- MODULE WorldSessions ----------------------------
(***************************************************************************)
(* The sessions of the world server: how an authenticated connection       *)
(* enters the session map or the login queue, logs a character in through  *)
(* an asynchronous query, loses its socket, is replaced by a newer         *)
(* connection of the same account, and is deleted (World.cpp,              *)
(* WorldSession.cpp, CharacterHandler.cpp).                                *)
(*                                                                         *)
(* Two threads act: the network threads create sessions and close sockets  *)
(* at any moment; the world thread runs UpdateSessions, then the rest of   *)
(* the tick with the query callbacks.  A session processes its packets     *)
(* while it is its turn in UpdateSessions.                                 *)
(***************************************************************************)
EXTENDS Integers, Sequences, FiniteSets

CONSTANTS
  Accounts, Chars,
  Owner,         \* the account of each character
  GameMasters,   \* accounts of a security level above SEC_PLAYER
  NoChar,        \* a null Player pointer
  PlayerLimit,   \* configuration: PlayerLimit, PlayerHardLimit, LoginPerTick,
  HardLimit,
  LoginPerTick,
  LogoutDelay,   \* PlayerBot.ForceLogoutDelay, on by default
  Grace,         \* LoginQueue.GracePeriodSecs is not 0
  IdleKick,      \* CharacterScreenMaxIdleTime is not 0
  MaxSessions,   \* bound: sessions created in a behaviour
  DelayTicks     \* bound: ticks a disconnected character stays in the world

ASSUME SessionsAssumption ==
  /\ Owner \in [Chars -> Accounts] /\ NoChar \notin Chars /\ GameMasters \subseteq Accounts
  /\ PlayerLimit \in Nat /\ HardLimit \in Nat /\ LoginPerTick \in Nat
  /\ LogoutDelay \in BOOLEAN /\ Grace \in BOOLEAN /\ IdleKick \in BOOLEAN
  /\ MaxSessions \in Nat /\ DelayTicks \in Nat

Sess == 1 .. MaxSessions     \* WorldSession objects; 0 is a null pointer

VARIABLES
  alive,        \* the sessions not deleted
  acct,         \* GetAccountId() of the sessions created so far
  open,         \* m_Socket is not closed
  inQueue, loading, leaving,   \* m_inQueue, m_playerLoading, _logoutTime # 0
  player,       \* _player
  timer,        \* m_disconnectTimer, in ticks
  sessions,     \* m_sessions
  queued,       \* m_QueuedSessions
  disconnected, \* m_disconnectedSessions
  addSessQueue,
  lastLogout,   \* accounts in m_accountsLastLogout
  limit,        \* m_playerLimit
  owner,        \* Player::GetSession() of each loaded character, 0 if not loaded
  inWorld,      \* Player::IsInWorld()
  holders,      \* LoginQueryHolders whose callback has not run yet
  pc,           \* the world thread: accept, add, update, late, rest, down
  left,         \* sessions the loop of UpdateSessions has still to visit
  turn,         \* the session whose packets are processed, or 0
  stopped       \* no, asked (m_stopEvent), last (in World::Shutdown)

sessVars  == <<acct, open, inQueue, loading, leaving, player, timer>>
mapVars   == <<alive, sessions, queued, disconnected, lastLogout>>
charVars  == <<owner, inWorld>>
loopVars  == <<pc, left, turn, stopped>>
vars == <<sessVars, mapVars, addSessQueue, limit, charVars, holders, loopVars>>

Init ==
  /\ acct = <<>> /\ alive = {}
  /\ open = [s \in Sess |-> FALSE] /\ inQueue = [s \in Sess |-> FALSE]
  /\ loading = [s \in Sess |-> FALSE] /\ leaving = [s \in Sess |-> FALSE]
  /\ player = [s \in Sess |-> NoChar]
  /\ timer = [s \in Sess |-> 0]
  /\ sessions = [a \in Accounts |-> 0]
  /\ queued = <<>> /\ disconnected = {} /\ addSessQueue = <<>> /\ lastLogout = {}
  /\ limit = PlayerLimit
  /\ owner = [c \in Chars |-> 0] /\ inWorld = [c \in Chars |-> FALSE]
  /\ holders = <<>>
  /\ pc = "accept" /\ left = {} /\ turn = 0 /\ stopped = "no"

-----------------------------------------------------------------------------
(* Counting and queueing. *)

InSeq(s, seq) == \E i \in 1 .. Len(seq) : seq[i] = s
Min2(a, b) == IF a < b THEN a ELSE b

\* The entry of s is searched for and erased.
Without(seq, s) ==
  IF InSeq(s, seq)
    THEN LET k == CHOOSE k \in 1 .. Len(seq) : seq[k] = s
         IN  [i \in 1 .. Len(seq) - 1 |-> IF i < k THEN seq[i] ELSE seq[i + 1]]
    ELSE seq

InMap(map)   == {map[a] : a \in Accounts} \ {0}
SessionCount == Cardinality(InMap(sessions))           \* active and queued
Active       == SessionCount - Len(queued)

\* What is left of m_QueuedSessions after RemoveQueuedSession(s): s is taken
\* out, or else leaves the world; the first in the queue may take the slot.
QueueAfter(s) ==
  LET rest  == Without(queued, s)
      n     == IF InSeq(s, queued) \/ Active = 0 THEN Active ELSE Active - 1
      admit == /\ SessionCount - Len(rest) < HardLimit
               /\ limit = 0 \/ n < limit
               /\ rest # <<>>
  IN  IF admit THEN Tail(rest) ELSE rest

\* SetInQueue(false) for the sessions that left the queue.
FlagsAfter(flags, q) == [s \in Sess |-> flags[s] /\ (InSeq(s, q) \/ ~InSeq(s, queued))]

\* The Player of session s, if any, is saved and unloaded.
LogoutPlayer(s) ==
  /\ owner' = [c \in Chars |-> IF player[s] = c THEN 0 ELSE owner[c]]
  /\ inWorld' = [c \in Chars |-> inWorld[c] /\ player[s] # c]
  /\ player' = [player EXCEPT ![s] = NoChar]
  /\ leaving' = [leaving EXCEPT ![s] = FALSE]

\* Faulty variant: the destructor forgets the player.
DeleteKeepsPlayer(s) ==
  /\ alive' = alive \ {s}
  /\ open' = [open EXCEPT ![s] = FALSE]
  /\ UNCHANGED <<charVars, player, leaving>>

\* The destructor of WorldSession.
DeleteSession(s) ==
  /\ alive' = alive \ {s}
  /\ open' = [open EXCEPT ![s] = FALSE]
  /\ LogoutPlayer(s)

\* The session has a player and the player is on a map.
InGame(s) == player[s] # NoChar /\ inWorld[player[s]]

\* The condition of ForcePlayerLogoutDelay.
StaysInWorld(s) == stopped = "no" /\ LogoutDelay /\ InGame(s)

\* SetSessionDisconnected, and the two minutes the character stays.
SetDisconnectedSession(s) ==
  /\ disconnected' = disconnected \cup {s}
  /\ lastLogout' = lastLogout \cup {acct[s]}
  /\ timer' = [timer EXCEPT ![s] = DelayTicks]

-----------------------------------------------------------------------------
(* The network threads. *)

\* WorldSocket::HandleAuthSession ends with sWorld.AddSession.
AddSession(a) ==
  /\ Len(acct) < MaxSessions /\ pc # "down"
  /\ acct' = Append(acct, a)
  /\ alive' = alive \cup {Len(acct')}
  /\ open' = [open EXCEPT ![Len(acct')] = TRUE]
  /\ addSessQueue' = Append(addSessQueue, Len(acct'))
  /\ UNCHANGED <<inQueue, loading, leaving, player, timer, sessions, queued,
                 disconnected, lastLogout, limit, charVars, holders, loopVars>>

\* The client goes away, or the server kicks it (KickPlayer, KickAllLess).
CloseSocket(s) ==
  /\ s \in alive /\ open[s]
  /\ open' = [open EXCEPT ![s] = FALSE]
  /\ UNCHANGED <<acct, inQueue, loading, leaving, player, timer, mapVars,
                 addSessQueue, limit, charVars, holders, loopVars>>

-----------------------------------------------------------------------------
(* World::UpdateSessions. *)

\* Faulty variant: reaching the hard limit counts as exceeding it.
AcceptOneShort ==
  /\ pc = "accept" /\ pc' = "add"
  /\ LET low  == IF HardLimit > 0 THEN Min2(HardLimit, limit) ELSE limit
         up   == Min2(low, Active) + LoginPerTick
         n    == IF up >= HardLimit THEN 0 ELSE Min2(LoginPerTick, Len(queued))
     IN  IF low >= 0 /\ Active < HardLimit /\ LoginPerTick > 0
           THEN /\ limit' = Min2(HardLimit, up)
                /\ queued' = SubSeq(queued, n + 1, Len(queued))
           ELSE limit' = low /\ UNCHANGED queued
  /\ inQueue' = FlagsAfter(inQueue, queued')
  /\ UNCHANGED <<alive, acct, open, loading, leaving, player, timer,
                 sessions, disconnected, lastLogout, addSessQueue, charVars,
                 holders, left, turn, stopped>>

\* LoginPerTick sessions are let in, unless that would exceed the hard limit.
AcceptQueued ==
  /\ pc = "accept" /\ pc' = "add"
  /\ LET low  == IF HardLimit > 0 THEN Min2(HardLimit, limit) ELSE limit
         up   == Min2(low, Active) + LoginPerTick
         over == up > HardLimit
         n    == IF over THEN 0 ELSE Min2(LoginPerTick, Len(queued))
     IN  IF low >= 0 /\ Active < HardLimit /\ LoginPerTick > 0
           THEN /\ limit' = IF over THEN HardLimit ELSE up
                /\ queued' = SubSeq(queued, n + 1, Len(queued))
           ELSE limit' = low /\ UNCHANGED queued
  /\ inQueue' = FlagsAfter(inQueue, queued')
  /\ UNCHANGED <<alive, acct, open, loading, leaving, player, timer,
                 sessions, disconnected, lastLogout, addSessQueue, charVars,
                 holders, left, turn, stopped>>

\* A game master, or an account that logged out within the grace period: the
\* clock decides, so an account in lastLogout may or may not skip the queue.
CanSkipQueue(s) ==
  {b \in BOOLEAN : IF acct[s] \in GameMasters THEN b
                   ELSE b => Grace /\ acct[s] \in lastLogout}

\* AddSession_ when the session of the account is loading a character: the
\* new one is kicked and deleted.
RefuseSession ==
  /\ pc = "add" /\ addSessQueue # <<>>
  /\ LET s == Head(addSessQueue)
         old == sessions[acct[s]]
     IN  /\ old # 0 /\ loading[old]
         /\ DeleteSession(s)
  /\ addSessQueue' = Tail(addSessQueue)
  /\ UNCHANGED <<acct, inQueue, loading, timer, sessions, queued,
                 disconnected, lastLogout, limit, holders, loopVars>>

\* pLimit is reached by the sessions that are not queued.
Full(count) == limit > 0 /\ count >= limit

\* AddSession_: the old session of the account is kicked and leaves the queue
\* or its slot; it stays with its character (ForcePlayerLogoutDelay) or is
\* deleted; the new one takes the map entry, in the queue if the realm is full.
AdmitSession(skip) ==
  /\ pc = "add" /\ addSessQueue # <<>>
  /\ LET s     == Head(addSessQueue)
         a     == acct[s]
         old   == sessions[a]
         wasQ  == old # 0 /\ InSeq(old, queued)
         keep  == old # 0 /\ StaysInWorld(old)
         q     == IF old = 0 THEN queued ELSE QueueAfter(old)
         count == Cardinality(InMap([sessions EXCEPT ![a] = s])) - (IF wasQ THEN 0 ELSE 1)
         full  == Full(count) /\ ~skip
     IN  /\ ~(old # 0 /\ loading[old])
         /\ skip \in CanSkipQueue(s)
         /\ sessions' = [sessions EXCEPT ![a] = s]
         /\ queued' = IF full THEN Append(q, s) ELSE q
         /\ inQueue' = [FlagsAfter(inQueue, q) EXCEPT ![s] = full]
         /\ IF old = 0
              THEN UNCHANGED <<open, alive, disconnected, lastLogout, timer, charVars,
                               player, leaving>>
              ELSE IF keep
                THEN /\ SetDisconnectedSession(old)
                     /\ open' = [open EXCEPT ![old] = FALSE]
                     /\ UNCHANGED <<alive, charVars, player, leaving>>
                ELSE DeleteSession(old) /\ UNCHANGED <<disconnected, lastLogout, timer>>
  /\ addSessQueue' = Tail(addSessQueue)
  /\ UNCHANGED <<acct, loading, limit, holders, loopVars>>

BeginUpdate ==
  /\ pc = "add" /\ addSessQueue = <<>>
  /\ pc' = "update" /\ left' = InMap(sessions)
  /\ UNCHANGED <<sessVars, mapVars, addSessQueue, limit, charVars, holders,
                 turn, stopped>>

\* pSession->Update(updater) is called for the next session of the map.
BeginSession(s) ==
  /\ pc = "update" /\ turn = 0 /\ s \in left
  /\ turn' = s
  /\ UNCHANGED <<sessVars, mapVars, addSessQueue, limit, charVars, holders,
                 pc, left, stopped>>

-----------------------------------------------------------------------------
(* WorldSession::ProcessPackets, while it is the session's turn. *)

Processes(s) == pc = "update" /\ turn = s /\ open[s]

\* HandlePlayerLoginOpcode, STATUS_AUTHED: not while in the queue.
HandlePlayerLoginOpcode(s, c) ==
  /\ Processes(s) /\ ~inQueue[s] /\ ~loading[s] /\ player[s] = NoChar
  /\ loading' = [loading EXCEPT ![s] = TRUE]
  /\ holders' = Append(holders, [acct |-> acct[s], char |-> c])
  /\ UNCHANGED <<acct, open, inQueue, leaving, player, timer, mapVars,
                 addSessQueue, limit, charVars, loopVars>>

\* CMSG_LOGOUT_REQUEST, STATUS_LOGGEDIN: at once in a city, in 20 seconds
\* elsewhere, refused in combat; CMSG_LOGOUT_CANCEL.
InstantLogout(s) ==
  /\ Processes(s) /\ InGame(s)
  /\ LogoutPlayer(s)
  /\ UNCHANGED <<acct, open, inQueue, loading, timer, mapVars,
                 addSessQueue, limit, holders, loopVars>>

LogoutRequest(s) ==
  /\ Processes(s) /\ InGame(s)
  /\ \E b \in BOOLEAN : leaving' = [leaving EXCEPT ![s] = b]
  /\ UNCHANGED <<acct, open, inQueue, loading, player, timer, mapVars,
                 addSessQueue, limit, charVars, holders, loopVars>>

\* MSG_MOVE_WORLDPORT_ACK, STATUS_TRANSFER: the far teleport is over (or is
\* started again towards another place, which changes nothing here).
HandleMoveWorldportAckOpcode(s) ==
  /\ Processes(s) /\ player[s] # NoChar /\ ~inWorld[player[s]]
  /\ inWorld' = [inWorld EXCEPT ![player[s]] = TRUE]
  /\ UNCHANGED <<sessVars, mapVars, addSessQueue, limit, owner, holders, loopVars>>

-----------------------------------------------------------------------------
(* The end of a session's turn. *)

Turn(s) == pc = "update" /\ turn = s /\ turn' = 0 /\ left' = left \ {s}

\* Faulty variant: a session leaves the map but stays in the queue.
DropSessionOnly(s) ==
  /\ lastLogout' = lastLogout \cup {acct[s]}
  /\ sessions' = [sessions EXCEPT ![acct[s]] = 0]
  /\ DeleteSession(s)
  /\ UNCHANGED <<queued, inQueue>>

\* Update returned false: RemoveQueuedSession, erase, delete.
DropSession(s) ==
  /\ queued' = QueueAfter(s)
  /\ inQueue' = FlagsAfter(inQueue, queued')
  /\ lastLogout' = IF InSeq(s, queued) THEN lastLogout ELSE lastLogout \cup {acct[s]}
  /\ sessions' = [sessions EXCEPT ![acct[s]] = 0]
  /\ DeleteSession(s)

\* The socket is closed: the character stays for a while, or goes at once.
LostSocket(s) ==
  /\ Turn(s) /\ ~open[s]
  /\ IF StaysInWorld(s)
       THEN /\ SetDisconnectedSession(s)
            /\ sessions' = [sessions EXCEPT ![acct[s]] = 0]
            /\ UNCHANGED <<queued, inQueue, alive, open, charVars, player, leaving>>
       ELSE DropSession(s) /\ UNCHANGED <<disconnected, timer>>
  /\ UNCHANGED <<acct, loading, addSessQueue, limit, holders, pc, stopped>>

\* CharacterScreenIdleKick.
IdleTooLong(s) ==
  /\ Turn(s) /\ IdleKick /\ player[s] = NoChar /\ ~inQueue[s] /\ ~loading[s]
  /\ DropSession(s)
  /\ UNCHANGED <<acct, loading, timer, disconnected, addSessQueue, limit,
                 holders, pc, stopped>>

\* The logout the player asked for is due.
LogoutDue(s) ==
  /\ Turn(s) /\ open[s] /\ leaving[s] /\ ~loading[s]
  /\ LogoutPlayer(s)
  /\ UNCHANGED <<acct, open, inQueue, loading, timer, mapVars,
                 addSessQueue, limit, holders, pc, stopped>>

KeepSession(s) ==
  /\ Turn(s) /\ open[s]
  /\ UNCHANGED <<sessVars, mapVars, addSessQueue, limit, charVars, holders,
                 pc, stopped>>

EndSession(s) == LostSocket(s) \/ IdleTooLong(s) \/ LogoutDue(s) \/ KeepSession(s)

-----------------------------------------------------------------------------
(* Disconnected sessions, and the rest of the tick. *)

BeginDisconnected ==
  /\ pc = "update" /\ turn = 0 /\ left = {}
  /\ pc' = "late" /\ left' = disconnected
  /\ UNCHANGED <<sessVars, mapVars, addSessQueue, limit, charVars, holders,
                 turn, stopped>>

\* Faulty variant: the timer is not counted down.
UpdateDisconnectedForever(s) ==
  /\ pc = "late" /\ s \in left /\ left' = left \ {s}
  /\ IF ~InGame(s)
       THEN disconnected' = disconnected \ {s} /\ DeleteSession(s)
       ELSE UNCHANGED <<disconnected, alive, open, charVars, player, leaving>>
  /\ UNCHANGED <<acct, inQueue, loading, timer, sessions,
                 queued, lastLogout, addSessQueue, limit, holders, pc, turn, stopped>>

\* Faulty variant: time is taken off the timer without looking what is left.
UpdateDisconnectedUnchecked(s) ==
  /\ pc = "late" /\ s \in left /\ left' = left \ {s}
  /\ IF ~InGame(s)
       THEN disconnected' = disconnected \ {s} /\ DeleteSession(s) /\ UNCHANGED timer
       ELSE /\ timer' = [timer EXCEPT ![s] = @ - 1]
            /\ UNCHANGED <<disconnected, alive, open, charVars, player, leaving>>
  /\ UNCHANGED <<acct, inQueue, loading, sessions,
                 queued, lastLogout, addSessQueue, limit, holders, pc, turn, stopped>>

\* The session is deleted once its player is gone or its time is up.  The pass
\* of World::Shutdown takes 1 ms off the timer: it may find the last tick's
\* rest of it not used up, and never uses up a whole tick.
UpdateDisconnected(s) ==
  /\ pc = "late" /\ s \in left /\ left' = left \ {s}
  /\ \/ /\ ~InGame(s) \/ timer[s] = 0
        /\ disconnected' = disconnected \ {s}
        /\ DeleteSession(s)
        /\ UNCHANGED timer
     \/ /\ InGame(s)
        /\ IF stopped = "last" THEN UNCHANGED timer
           ELSE timer[s] > 0 /\ timer' = [timer EXCEPT ![s] = @ - 1]
        /\ UNCHANGED <<disconnected, alive, open, charVars, player, leaving>>
  /\ UNCHANGED <<acct, inQueue, loading, sessions,
                 queued, lastLogout, addSessQueue, limit, holders, pc, turn, stopped>>

EndSessions ==
  /\ pc = "late" /\ left = {}
  /\ pc' = IF stopped = "last" THEN "down" ELSE "rest"
  /\ UNCHANGED <<sessVars, mapVars, addSessQueue, limit, charVars, holders,
                 left, turn, stopped>>

\* A far teleport takes the Player out of the world until the client's ack.
TeleportFar(c) ==
  /\ pc \in {"update", "rest"} /\ owner[c] # 0 /\ inWorld[c]
  /\ inWorld' = [inWorld EXCEPT ![c] = FALSE]
  /\ UNCHANGED <<sessVars, mapVars, addSessQueue, limit, owner, holders, loopVars>>

\* World::StopNow, from a command or a signal.
StopNow ==
  /\ stopped = "no" /\ pc # "down"
  /\ stopped' = "asked"
  /\ UNCHANGED <<sessVars, mapVars, addSessQueue, limit, charVars, holders,
                 pc, left, turn>>

\* Faulty variant: World::Shutdown updates the sessions without KickAll.
EndTickNoKick ==
  /\ pc = "rest" /\ pc' = "accept"
  /\ stopped' = IF stopped = "asked" THEN "last" ELSE stopped
  /\ UNCHANGED <<sessVars, mapVars, addSessQueue, limit, charVars, holders,
                 left, turn>>

\* The tick ends; World::Shutdown kicks everyone and updates once more.
EndTick ==
  /\ pc = "rest" /\ pc' = "accept"
  /\ IF stopped = "asked"
       THEN /\ queued' = <<>>
            /\ open' = [s \in Sess |-> open[s] /\ s \notin InMap(sessions) \cup disconnected]
            /\ stopped' = "last"
       ELSE UNCHANGED <<queued, open, stopped>>
  /\ UNCHANGED <<acct, inQueue, loading, leaving, player, timer, alive,
                 sessions, disconnected, lastLogout, addSessQueue, limit, charVars,
                 holders, left, turn>>

-----------------------------------------------------------------------------
(* CharacterHandler::HandlePlayerLoginCallback, from UpdateResultQueue. *)

Callback(s, c) ==
  /\ pc = "rest" /\ holders # <<>> /\ holders' = Tail(holders)
  /\ c = Head(holders).char /\ s = sessions[Head(holders).acct]
  /\ UNCHANGED <<acct, inQueue, leaving, timer, mapVars, addSessQueue,
                 limit, loopVars>>

Wanted(s) == s # 0 /\ player[s] = NoChar /\ loading[s]

\* The session has gone, or another holder has already been used.
CallbackDropped(s, c) ==
  /\ Callback(s, c) /\ ~Wanted(s)
  /\ loading' = IF s = 0 THEN loading ELSE [loading EXCEPT ![s] = FALSE]
  /\ UNCHANGED <<open, player, charVars>>

\* The character is another account's, is online outside the world, or
\* LoadFromDB fails.
CallbackRefused(s, c) ==
  /\ Callback(s, c) /\ Wanted(s)
  /\ owner[c] # 0 => ~inWorld[c] \/ acct[owner[c]] # acct[s]
  /\ loading' = [loading EXCEPT ![s] = FALSE]
  /\ open' = [open EXCEPT ![s] = FALSE]
  /\ UNCHANGED <<player, charVars>>

\* Faulty variant: the session that had the character keeps its pointer.
TakeOverShared(s, c) ==
  /\ Callback(s, c) /\ Wanted(s)
  /\ owner[c] # 0 /\ inWorld[c] /\ acct[owner[c]] = acct[s]
  /\ player' = [player EXCEPT ![s] = c]
  /\ owner' = [owner EXCEPT ![c] = s]
  /\ loading' = [loading EXCEPT ![s] = FALSE]
  /\ UNCHANGED <<open, inWorld>>

\* The character is still in the world after a lost connection.
CallbackTakesOver(s, c) ==
  /\ Callback(s, c) /\ Wanted(s)
  /\ owner[c] # 0 /\ inWorld[c] /\ acct[owner[c]] = acct[s]
  /\ player' = [player EXCEPT ![owner[c]] = NoChar, ![s] = c]
  /\ owner' = [owner EXCEPT ![c] = s]
  /\ loading' = [loading EXCEPT ![s] = FALSE]
  /\ UNCHANGED <<open, inWorld>>

\* Faulty variant: m_playerLoading is not reset after a successful login.
LoadsWithoutReset(s, c) ==
  /\ Callback(s, c) /\ Wanted(s)
  /\ owner[c] = 0 /\ Owner[c] = acct[s]
  /\ player' = [player EXCEPT ![s] = c]
  /\ owner' = [owner EXCEPT ![c] = s]
  /\ \E b \in BOOLEAN : inWorld' = [inWorld EXCEPT ![c] = b]
  /\ UNCHANGED <<open, loading>>

\* LoadFromDB succeeds; Map::Add may send the player elsewhere instead.
CallbackLoads(s, c) ==
  /\ Callback(s, c) /\ Wanted(s)
  /\ owner[c] = 0 /\ Owner[c] = acct[s]
  /\ player' = [player EXCEPT ![s] = c]
  /\ owner' = [owner EXCEPT ![c] = s]
  /\ \E b \in BOOLEAN : inWorld' = [inWorld EXCEPT ![c] = b]
  /\ loading' = [loading EXCEPT ![s] = FALSE]
  /\ UNCHANGED open

LoginCallback ==
  \E s \in {0} \cup Sess, c \in Chars :
    CallbackDropped(s, c) \/ CallbackRefused(s, c) \/ CallbackTakesOver(s, c)
    \/ CallbackLoads(s, c)

-----------------------------------------------------------------------------
NetworkNext ==
  \/ \E a \in Accounts : AddSession(a)
  \/ \E s \in Sess : CloseSocket(s)

PacketNext(s) ==
  \/ \E c \in Chars : HandlePlayerLoginOpcode(s, c)
  \/ InstantLogout(s) \/ LogoutRequest(s) \/ HandleMoveWorldportAckOpcode(s)

\* What the world thread does whatever the clients do.
WorldNext ==
  \/ AcceptQueued \/ RefuseSession \/ AdmitSession(FALSE) \/ AdmitSession(TRUE)
  \/ BeginUpdate \/ BeginDisconnected \/ EndSessions \/ EndTick
  \/ \E s \in Sess : BeginSession(s) \/ EndSession(s) \/ UpdateDisconnected(s)

Next ==
  \/ NetworkNext \/ WorldNext \/ LoginCallback \/ StopNow
  \/ \E s \in Sess : PacketNext(s)
  \/ \E c \in Chars : TeleportFar(c)

Spec == Init /\ [][Next]_vars

\* The world thread keeps ticking and finishes each session's turn; that the
\* callback of a query is eventually run is what SqlResultQueue shows.
FairSpec == Spec /\ WF_vars(WorldNext) /\ SF_vars(LoginCallback)

-----------------------------------------------------------------------------
(* Properties. *)

TypeOK ==
  /\ acct \in Seq(Accounts) /\ Len(acct) <= MaxSessions
  /\ alive \subseteq 1 .. Len(acct) /\ open \in [Sess -> BOOLEAN]
  /\ inQueue \in [Sess -> BOOLEAN] /\ loading \in [Sess -> BOOLEAN]
  /\ leaving \in [Sess -> BOOLEAN]
  /\ player \in [Sess -> Chars \cup {NoChar}]
  /\ timer \in [Sess -> 0 .. DelayTicks]
  /\ sessions \in [Accounts -> {0} \cup Sess]
  /\ queued \in Seq(Sess) /\ addSessQueue \in Seq(Sess)
  /\ disconnected \subseteq Sess /\ lastLogout \subseteq Accounts
  /\ limit \in Int
  /\ owner \in [Chars -> {0} \cup Sess] /\ inWorld \in [Chars -> BOOLEAN]
  /\ holders \in Seq([acct : Accounts, char : Chars])
  /\ pc \in {"accept", "add", "update", "late", "rest", "down"}
  /\ left \subseteq Sess /\ turn \in {0} \cup Sess
  /\ stopped \in {"no", "asked", "last"}

\* Every pointer to a session is to one that exists: in m_sessions, under its
\* own account, in m_QueuedSessions, m_disconnectedSessions, addSessQueue and
\* the Player's own m_session; and UpdateSessions never visits a deleted one.
NoDangling ==
  /\ \A a \in Accounts : sessions[a] # 0 => sessions[a] \in alive /\ acct[sessions[a]] = a
  /\ \A s \in Sess : s \in disconnected \/ InSeq(s, queued) \/ InSeq(s, addSessQueue)
                       => s \in alive
  /\ \A c \in Chars : owner[c] # 0 => owner[c] \in alive
  /\ pc \in {"update", "late"} => left \subseteq alive
  /\ turn # 0 => turn \in alive

\* A character has one session and the session knows it, also while a new
\* connection takes the character over from the disconnected one: otherwise
\* the destructor of the old session would log out the player of the new one.
\* It is a session of the character's account, although any guid may be asked
\* for, the character may already be online, and a holder of a deleted session
\* may be answered to the account's next session.
PlayerOwned ==
  /\ \A s \in alive, c \in Chars : (player[s] = c) <=> (owner[c] = s)
  /\ \A s \in alive : player[s] # NoChar => Owner[player[s]] = acct[s]

\* The login queue and the flag agree: who is in m_QueuedSessions has
\* m_inQueue set, is in m_sessions, once; who has the flag waits in the queue
\* or has been kicked (KickAll empties the queue and keeps the flags), and has
\* no character and is not loading one, even if a login callback of an earlier
\* session of the account arrives ("prevent cheating with skip queue wait").
QueueExact ==
  /\ \A i, j \in 1 .. Len(queued) : queued[i] = queued[j] => i = j
  /\ \A i \in 1 .. Len(queued) : inQueue[queued[i]] /\ queued[i] \in InMap(sessions)
  /\ \A s \in InMap(sessions) : inQueue[s] /\ open[s] => InSeq(s, queued)
  /\ \A s \in alive : inQueue[s] => player[s] = NoChar /\ ~loading[s]

\* What World::Shutdown does achieve: everyone whose connection was not lost
\* before it is logged out and saved, in whatever state the session was.
SavedUnlessLost == pc = "down" => \A c \in Chars : owner[c] \in disconnected \cup {0}

\* Players wait in the queue only while the realm is full.
Capacity == IF HardLimit > 0 THEN HardLimit ELSE PlayerLimit
SlotsFilled == []<>(queued = <<>> \/ Active >= Capacity \/ stopped # "no")

\* A login is answered: m_playerLoading does not stay set, which would lock
\* the account out, since AddSession_ refuses a session while it is set.
LoadingEnds ==
  \A s \in Sess : (s \in alive /\ loading[s]) ~>
                    (s \notin alive \/ ~loading[s] \/ stopped # "no")

\* A character without a connection leaves the world or is taken over.
DisconnectedEnds == \A s \in Sess : (s \in disconnected) ~> (s \notin disconnected \/ stopped # "no")
=============================================================================
