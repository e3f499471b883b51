-------------------------- MODULE BattleGroundQueue --------------------------
(***************************************************************************)
(* The queue of one battleground type and bracket, the invitations and the *)
(* battlegrounds they lead to (Battlegrounds/BattleGroundMgr.cpp,          *)
(* BattleGround.cpp, Handlers/BattleGroundHandler.cpp).                    *)
(*                                                                         *)
(* Configuration: Battleground.InvitationType 0 and no premade groups      *)
(* (PremadeGroupWaitForMatch 0, parties below PremadeQueue.MinGroupSize).  *)
(* Times are left out: an invitation carries a stamp instead of its        *)
(* RemoveInviteTime and may expire at any moment.  Level and deserter      *)
(* checks only turn an accept into a refusal, and a debuff may have run    *)
(* out before the player joins again.  The locks of the queue are          *)
(* commented out in the source; every operation is taken as atomic.        *)
(***************************************************************************)
EXTENDS Integers, Sequences, FiniteSets, FiniteSetsExt, SequencesExt

CONSTANTS Players, Teams,
          Team,             \* Team[p]
          Parties,          \* the sets of players that queue together
          Restless,         \* bound: the players who log out and travel
          Watched,          \* the players whose invitations are followed
          QueueType,        \* BattleGroundQueueTypeId: 1 AV, 2 WS, 3 AB
          MinPerTeam, MaxPerTeam,
          MaxGroups,        \* bound: GroupQueueInfos of a party at a time
          MaxBgs,           \* bound: battlegrounds at a time
          MaxStamps         \* bound: invitation times in use

ASSUME QueueAssumption ==
    /\ Team \in [Players -> Teams] /\ Cardinality(Teams) = 2
    /\ Parties \subseteq SUBSET Players /\ {} \notin Parties
    /\ Restless \subseteq Players /\ Watched \subseteq Players
    /\ QueueType \in 1 .. 3
    /\ MinPerTeam \in Nat \ {0} /\ MaxPerTeam \in Nat /\ MinPerTeam <= MaxPerTeam
    /\ MaxGroups \in Nat \ {0} /\ MaxBgs \in Nat \ {0} /\ MaxStamps \in Nat \ {0}

VARIABLES
    info,       \* m_QueuedPlayers: the group of a queued player, or NotListed
    present,    \* PlayerQueueInfo::online
    group,      \* the GroupQueueInfos
    queue,      \* m_QueuedGroups[BG_QUEUE_NORMAL_*]
    scheduled,  \* m_QueueUpdateScheduler
    bg,         \* the battlegrounds
    free,       \* BGFreeSlotQueue
    player,     \* the Player objects
    notice,     \* history: how a player's invitation has reached him
    wiped,      \* history: players who lost their queue slot while queued,
                \* until they are out of the queue or its entry is restored
    leaked,     \* history: slots whose holders arrived without joining
    latest      \* history: the running battleground made by the last update,
                \* or 0, also when another update is to come

vars == <<info, present, group, queue, scheduled, bg, free, player,
          notice, wiped, leaked, latest>>

Groups == Parties \X (1 .. MaxGroups)
NotListed == <<{}, 0>>
Bgs    == 1 .. MaxBgs
Stamps == 1 .. MaxStamps
PLAYER_MAX_BATTLEGROUND_QUEUES == 3
NotQueued == -1

NoGroup == [players |-> {}, bg |-> 0, stamp |-> 0]
NoBg    == [status |-> "none", invited |-> [t \in Teams |-> 0], players |-> {}]

Away == -1

\* slot: invitedToInstance of the player's entry for this queue; bg: his
\* bgInstanceID; at: the battleground map he is on, 0 elsewhere, Away between
\* two maps; events: his BGQueueRemoveEvents.
OffLine == [on |-> FALSE, slot |-> NotQueued, bg |-> 0, at |-> 0, events |-> {}]

Init ==
    /\ info = [p \in Players |-> NotListed]
    /\ present = [p \in Players |-> FALSE]
    /\ group = [g \in Groups |-> NoGroup]
    /\ queue = [t \in Teams |-> <<>>]
    /\ scheduled = FALSE
    /\ bg = [b \in Bgs |-> NoBg]
    /\ free = <<>>
    /\ player = [p \in Players |-> [OffLine EXCEPT !.on = TRUE]]
    /\ notice = [p \in Players |-> "none"]
    /\ wiped = {}
    /\ leaked = [b \in Bgs |-> [t \in Teams |-> 0]]
    /\ latest = 0

\* ObjectAccessor::FindPlayer and FindPlayerNotInWorld return nobody else.
InWorld(s, p) == s.player[p].on /\ s.player[p].at # Away

Exists(s, b)  == b # 0 /\ s.bg[b].status # "none"
Running(s, b) == s.bg[b].status \in {"wait_join", "in_progress"}
TeamOf(G)     == Team[CHOOSE p \in G.players : TRUE]

\* Faulty variant: added again although it is there.
PushAgain(s, b) == <<b>> \o s

\* BattleGround::AddToBGFreeSlotQueue.
Push(s, b) == IF b \in Range(s) THEN s ELSE <<b>> \o s

Smallest(S) == CHOOSE x \in S : \A y \in S : x <= y

\* The state the operations work on; most of them are steps of a larger one.
Now == [info |-> info, present |-> present, group |-> group, queue |-> queue,
        scheduled |-> scheduled, bg |-> bg, free |-> free, player |-> player,
        notice |-> notice, wiped |-> wiped, leaked |-> leaked, latest |-> latest]

Becomes(s) ==
    /\ info' = s.info /\ present' = s.present /\ group' = s.group /\ queue' = s.queue
    /\ scheduled' = s.scheduled /\ bg' = s.bg /\ free' = s.free /\ player' = s.player
    /\ notice' = s.notice /\ wiped' = s.wiped /\ leaked' = s.leaked
    /\ latest' = IF s.scheduled \/ ~\E b \in Bgs : b = s.latest /\ Running(s, b) THEN 0 ELSE s.latest

-----------------------------------------------------------------------------
(* Operations of BattleGroundQueue. *)

\* The groups that list a player; more than one if he has joined twice.
Listed(s, p) == {g \in Groups : p \in s.group[g].players}

\* BattleGroundQueue::RemovePlayer.  The counter is unsigned: -1 stands for
\* its wrapping around.
RemovePlayer(s, p, decrease) ==
    LET g == s.info[p]
        G == s.group[g]
        left == G.players \ {p}
    IN  [s EXCEPT !.info[p] = NotListed, !.present[p] = FALSE,
                  !.group[g] = IF left = {} THEN NoGroup ELSE [@ EXCEPT !.players = left],
                  !.queue[Team[p]] = IF left = {} THEN SelectSeq(@, LAMBDA x : x # g) ELSE @,
                  !.bg = IF decrease /\ Exists(s, G.bg)
                         THEN [@ EXCEPT ![G.bg].invited[Team[p]] = @ - 1] ELSE @,
                  !.notice[p] = "none",
                  !.wiped = IF Listed(s, p) = {g} THEN @ \ {p} ELSE @]

\* BattleGroundQueue::IsPlayerInvited.
IsPlayerInvited(p, e) ==
    info[p] # NotListed /\ group[info[p]].bg = e[1] /\ group[info[p]].stamp = e[2]

\* BattleGroundQueue::InviteGroupToBG for each group of gs: everybody takes a
\* slot, but only those who are in the world are told of it and get the event
\* that ends it; whoever is between two maps is skipped like one who is offline.
InviteGroupToBG(s, gs, b, stamp) ==
    LET asked == {<<g, p>> \in gs \X Players : p \in s.group[g].players}
        guests == {x[2] : x \in asked}
    IN  [s EXCEPT
           !.group = [g \in Groups |-> IF g \in gs THEN [s.group[g] EXCEPT !.bg = b, !.stamp = stamp]
                                       ELSE s.group[g]],
           !.bg[b].invited = [t \in Teams |-> @[t] + Cardinality({x \in asked : Team[x[2]] = t})],
           !.player = [p \in Players |->
               IF p \in guests /\ InWorld(s, p)
               THEN [s.player[p] EXCEPT !.slot = IF @ = NotQueued THEN @ ELSE b,
                                        !.events = @ \cup {<<b, stamp>>}]
               ELSE s.player[p]],
           !.notice = [p \in Players |-> IF p \notin guests THEN s.notice[p]
                                         ELSE IF InWorld(s, p) THEN "event" ELSE "missed"]]

\* BattleGroundQueue::SelectionPool::AddGroup.
AddGroup(s, pool, g, desired) ==
    LET n == Cardinality(s.group[g].players)
    IN  IF s.group[g].bg = 0 /\ pool.count + n <= desired
        THEN [groups |-> pool.groups \cup {g}, count |-> pool.count + n]
        ELSE pool

\* The groups of a team taken in their order, as long as fewer than `enough`
\* players are selected.
Selection(s, t, desired, enough) ==
    FoldLeft(LAMBDA pool, g : IF pool.count < enough THEN AddGroup(s, pool, g, desired) ELSE pool,
             [groups |-> {}, count |-> 0], s.queue[t])

\* BattleGround::GetFreeSlotsForTeam.
GetFreeSlotsForTeam(s, b, t) ==
    IF Running(s, b) /\ s.bg[b].invited[t] < MaxPerTeam
    THEN MaxPerTeam - s.bg[b].invited[t] ELSE 0

\* FillPlayersToBG and the invitations that follow it in Update.
FillPlayersToBG(s, b, stamp) ==
    LET chosen == UNION {LET n == GetFreeSlotsForTeam(s, b, t)
                         IN  Selection(s, t, n, n).groups : t \in Teams}
        filled == InviteGroupToBG(s, chosen, b, stamp)
    IN  IF ~Running(s, b) THEN s
        ELSE IF Cardinality(s.bg[b].players) < 2 * MaxPerTeam THEN filled
        ELSE [filled EXCEPT !.free = SelectSeq(@, LAMBDA x : x # b)]

\* CheckNormalMatch, CreateNewBattleGround and StartBattleGround.
NormalMatch(s, stamp) ==
    LET pool == [t \in Teams |-> Selection(s, t, MaxPerTeam, MinPerTeam)]
        ids  == {b \in Bgs : s.bg[b].status = "none"}
        b    == Smallest(ids)
        made == [s EXCEPT !.bg[b].status = "wait_join", !.free = Push(@, b), !.latest = b]
    IN  IF (\A t \in Teams : pool[t].count >= MinPerTeam) /\ ids # {}
        THEN InviteGroupToBG(made, UNION {pool[t].groups : t \in Teams}, b, stamp)
        ELSE s

\* A time at which no invitation was made that is still of interest.
FreshStamps ==
    Stamps \ ({group[g].stamp : g \in Groups}
              \cup UNION {{e[2] : e \in player[p].events} : p \in Players})

\* BattleGroundMgr::Update runs BattleGroundQueue::Update: first players who
\* have been offline for a minute are removed, then the running battlegrounds
\* are filled, then a new one is made.
Update ==
    /\ scheduled /\ FreshStamps # {}
    /\ \E gone \in SUBSET {p \in Players : info[p] # NotListed /\ ~present[p]} :
         LET stamp == Smallest(FreshStamps)
             s0 == [Now EXCEPT !.scheduled = FALSE, !.latest = 0]
             s1 == FoldSet(LAMBDA p, s : RemovePlayer(s, p, TRUE), s0, gone)
             s2 == FoldLeft(LAMBDA s, b : FillPlayersToBG(s, b, stamp), s1, s1.free)
         IN  Becomes(NormalMatch(s2, stamp))

-----------------------------------------------------------------------------
(* Packets of the clients. *)

\* HandleBattlemasterJoinOpcode, alone or as a group (CanJoinBattleGroundQueue),
\* and BattleGroundQueue::AddGroup: the entry of a player who is already in
\* m_QueuedPlayers is overwritten.
Join(S) ==
    LET N == {n \in 1 .. MaxGroups : group[<<S, n>>].players = {}}
        g == <<S, Smallest(N)>>
        t == Team[CHOOSE p \in S : TRUE]
    IN  /\ S \in Parties /\ N # {}
        /\ Cardinality(S) <= MaxPerTeam
        /\ \A p \in S : /\ Team[p] = t
                        /\ InWorld(Now, p) /\ player[p].slot = NotQueued /\ player[p].bg = 0
        /\ Becomes([Now EXCEPT
             !.info = [p \in Players |-> IF p \in S THEN g ELSE info[p]],
             !.present = [p \in Players |-> p \in S \/ present[p]],
             !.notice = [p \in Players |-> IF p \in S THEN "none" ELSE notice[p]],
             !.group[g] = [NoGroup EXCEPT !.players = S],
             !.queue[t] = Append(@, g),
             !.player = [p \in Players |->
                           IF p \in S THEN [player[p] EXCEPT !.slot = 0] ELSE player[p]],
             !.scheduled = TRUE])

InQueue(p) == InWorld(Now, p) /\ player[p].slot # NotQueued /\ info[p] # NotListed

\* HandleBattleFieldPortOpcode, action 1: the slot goes with the player.
EnterBattle(p) ==
    LET b == group[info[p]].bg
    IN  /\ InQueue(p) /\ b # 0 /\ Exists(Now, b) /\ player[p].slot # 0
        /\ Becomes([RemovePlayer(Now, p, FALSE) EXCEPT !.player[p] = [@ EXCEPT !.bg = b, !.at = Away]])

\* Faulty variant: nobody is told of the free slot.
LeaveQueueQuietly(p) ==
    /\ InQueue(p)
    /\ Becomes([RemovePlayer(Now, p, TRUE) EXCEPT !.player[p] = [@ EXCEPT !.slot = NotQueued]])

\* HandleBattleFieldPortOpcode, action 0, or an accept that is refused.
LeaveQueue(p) ==
    /\ InQueue(p)
    /\ Becomes([RemovePlayer(Now, p, TRUE) EXCEPT !.player[p] = [@ EXCEPT !.slot = NotQueued],
                                                  !.scheduled = TRUE])

\* HandleMoveWorldportAckOpcode and BattleGround::AddPlayer.  A player who is
\* invited becomes a participant; the slot of one who is not, or who is still
\* counted as a participant from an earlier visit, is nobody's from now on.
EnterMap(s, p) ==
    LET b == s.player[p].bg
        invited == s.player[p].slot = b
        there == [s EXCEPT !.player[p] = [@ EXCEPT !.at = b]]
    IN  IF b = 0 THEN there
        ELSE [there EXCEPT
                !.bg[b].players = IF invited THEN @ \cup {p} ELSE @,
                !.leaked[b][Team[p]] = IF invited /\ p \notin s.bg[b].players THEN @ ELSE @ + 1]

Arrive(p) ==
    /\ player[p].at = Away
    /\ Becomes(EnterMap(Now, p))

\* BattleGround::RemovePlayerAtLeave: only a participant gives his slot back,
\* and only of a player in the world is the Player object changed: his entry
\* for the queue, whatever it stands for by now, and his battleground id.
RemovePlayerAtLeave(s, p, b) ==
    LET plr == InWorld(s, p)
        participant == p \in s.bg[b].players
        out == [s EXCEPT !.player[p] =
                  IF ~plr THEN @
                  ELSE [@ EXCEPT !.bg = 0,
                                 !.slot = IF participant THEN NotQueued ELSE @,
                                 !.at = IF @ = b THEN Away ELSE @]]
        removed == [out EXCEPT
                      !.bg[b] = [@ EXCEPT !.players = @ \ {p}, !.invited[Team[p]] = @ - 1],
                      !.wiped = IF plr /\ s.info[p] # NotListed THEN @ \cup {p} ELSE @]
    IN  IF ~participant THEN out
        ELSE IF ~Running(s, b) THEN removed
        ELSE [removed EXCEPT !.free = Push(@, b), !.scheduled = TRUE]

\* HandleLeaveBattlefieldOpcode, Player::LeaveBattleground; a teleport to
\* another map does the same.
LeaveBattleground(p) ==
    /\ InWorld(Now, p) /\ player[p].bg # 0
    /\ Becomes(RemovePlayerAtLeave(Now, p, player[p].bg))

\* Player::TeleportTo another map by one who is in no battleground.
TeleportTo(p) ==
    /\ p \in Restless /\ InWorld(Now, p) /\ player[p].bg = 0
    /\ Becomes([Now EXCEPT !.player[p] = [@ EXCEPT !.at = Away]])

\* WorldSession::LogoutPlayer: LeaveBattleground, the pending teleport, which
\* leads a player on his way on into the battleground, and BattleGroundMgr::
\* PlayerLoggedOut; the events die with the Player object.
LogoutPlayer(p) ==
    LET b == player[p].bg
        left == IF b = 0 THEN Now ELSE RemovePlayerAtLeave(Now, p, b)
        s == IF left.player[p].at = Away THEN EnterMap(left, p) ELSE left
    IN  /\ p \in Restless /\ player[p].on
        /\ Becomes([s EXCEPT !.player[p] = OffLine,
                             !.present[p] = @ /\ s.player[p].slot = NotQueued,
                             !.notice[p] = IF @ = "none" THEN @ ELSE "missed"])

\* BattleGroundQueue::PlayerLoggedIn: BattleGroundMgr looks into the first
\* PLAYER_MAX_BATTLEGROUND_QUEUES queues, which leaves out the last type.
Found(p) == info[p] # NotListed /\ QueueType < PLAYER_MAX_BATTLEGROUND_QUEUES

\* Faulty variant: the invitation is not restored.
PlayerLoggedInPlain(p) ==
    /\ ~player[p].on
    /\ Becomes([Now EXCEPT
         !.player[p] = [@ EXCEPT !.on = TRUE, !.slot = IF Found(p) THEN 0 ELSE @],
         !.present[p] = @ \/ Found(p),
         !.notice[p] = IF @ = "none" \/ ~Found(p) THEN @ ELSE "login",
         !.wiped = IF Found(p) /\ Listed(Now, p) = {info[p]} THEN @ \ {p} ELSE @])

\* BattleGroundMgr::PlayerLoggedIn: the invitation is restored, its event not.
\* A player saved on a battleground map is loaded outside, with no battleground.
PlayerLoggedIn(p) ==
    /\ ~player[p].on
    /\ Becomes([Now EXCEPT
         !.player[p] = [@ EXCEPT !.on = TRUE, !.slot = IF Found(p) THEN group[info[p]].bg ELSE @],
         !.present[p] = @ \/ Found(p),
         !.notice[p] = IF @ = "none" \/ ~Found(p) THEN @ ELSE "login",
         !.wiped = IF Found(p) /\ Listed(Now, p) = {info[p]} THEN @ \ {p} ELSE @])

-----------------------------------------------------------------------------
(* Events and battlegrounds. *)

\* Faulty variant: the slot of the expired invitation is kept.
RemoveEventKeeps(p, e) ==
    LET rest == [Now EXCEPT !.player[p] = [@ EXCEPT !.events = @ \ {e}]]
        gone == [RemovePlayer(rest, p, FALSE) EXCEPT
                   !.player[p] = [@ EXCEPT !.slot = NotQueued],
                   !.scheduled = @ \/ (Exists(Now, e[1]) /\ Running(Now, e[1]))]
    IN  /\ InWorld(Now, p) /\ e \in player[p].events
        /\ Becomes(IF player[p].slot # NotQueued /\ IsPlayerInvited(p, e) THEN gone ELSE rest)

\* Faulty variant: a battleground that has ended is left alone.
RemoveEventRunning(p, e) ==
    LET rest == [Now EXCEPT !.player[p] = [@ EXCEPT !.events = @ \ {e}]]
        gone == [RemovePlayer(rest, p, TRUE) EXCEPT
                   !.player[p] = [@ EXCEPT !.slot = NotQueued], !.scheduled = TRUE]
    IN  /\ InWorld(Now, p) /\ e \in player[p].events
        /\ Becomes(IF /\ player[p].slot # NotQueued /\ IsPlayerInvited(p, e)
                      /\ Running(Now, e[1]) THEN gone ELSE rest)

\* BGQueueRemoveEvent::Execute, in an update of the player, who is on a map.
RemoveEvent(p, e) ==
    LET rest == [Now EXCEPT !.player[p] = [@ EXCEPT !.events = @ \ {e}]]
        gone == [RemovePlayer(rest, p, TRUE) EXCEPT
                   !.player[p] = [@ EXCEPT !.slot = NotQueued],
                   !.scheduled = @ \/ (Exists(Now, e[1]) /\ Running(Now, e[1]))]
    IN  /\ InWorld(Now, p) /\ e \in player[p].events
        /\ Becomes(IF player[p].slot # NotQueued /\ IsPlayerInvited(p, e) THEN gone ELSE rest)

\* BattleGround::Update at the end of the starting delay.
Begin(b) ==
    /\ bg[b].status = "wait_join" /\ bg[b].players # {}
    /\ Becomes([Now EXCEPT !.bg[b].status = "in_progress"])

\* EndBattleGround: by the score, or because a team is too small for long.
EndBattleGround(b) ==
    /\ bg[b].status = "in_progress" /\ bg[b].players # {}
    /\ Becomes([Now EXCEPT !.bg[b].status = "wait_leave",
                           !.free = SelectSeq(@, LAMBDA x : x # b)])

\* BattleGround::Update two minutes after the end; who is offline goes too.
Expel(b) ==
    /\ bg[b].status = "wait_leave" /\ bg[b].players # {}
    /\ Becomes(FoldSet(LAMBDA p, s : RemovePlayerAtLeave(s, p, b), Now, bg[b].players))

\* BattleGround::Update of an empty battleground nobody is invited to, and the
\* destructor.
Delete(b) ==
    /\ bg[b].status # "none" /\ bg[b].players = {}
    /\ \A t \in Teams : bg[b].invited[t] = 0
    /\ Becomes([Now EXCEPT !.bg[b] = NoBg, !.free = SelectSeq(@, LAMBDA x : x # b)])

Expire(p) == \E e \in player[p].events : RemoveEvent(p, e)

Next ==
    \/ Update
    \/ \E S \in Parties : Join(S)
    \/ \E p \in Players : \/ EnterBattle(p) \/ LeaveQueue(p) \/ Arrive(p)
                          \/ LeaveBattleground(p) \/ TeleportTo(p)
                          \/ LogoutPlayer(p) \/ PlayerLoggedIn(p) \/ Expire(p)
    \/ \E b \in Bgs : Begin(b) \/ EndBattleGround(b) \/ Expel(b) \/ Delete(b)

\* The events of a player run in every update of his map, which a teleport only
\* puts off until he arrives: after each arrival his map updates him before he
\* can leave it again.  A client finishes its loading screens.
Spec == /\ Init /\ [][Next]_vars
        /\ \A p \in Watched : SF_vars(Expire(p)) /\ WF_vars(Arrive(p))

-----------------------------------------------------------------------------
(* Properties. *)

\* Types; a battleground is at most once in the list of free slots.
TypeOK ==
    /\ info \in [Players -> Groups \cup {NotListed}]
    /\ present \in [Players -> BOOLEAN] /\ scheduled \in BOOLEAN
    /\ group \in [Groups -> [players : SUBSET Players, bg : 0 .. MaxBgs, stamp : 0 .. MaxStamps]]
    /\ DOMAIN queue = Teams
    /\ \A t \in Teams : Range(queue[t]) \subseteq Groups /\ IsInjective(queue[t])
    /\ Range(free) \subseteq Bgs /\ IsInjective(free)
    /\ DOMAIN bg = Bgs
    /\ \A b \in Bgs : /\ bg[b].status \in {"none", "wait_join", "in_progress", "wait_leave"}
                      /\ \A t \in Teams : bg[b].invited[t] \in Nat /\ leaked[b][t] \in Nat
                      /\ bg[b].players \subseteq Players
    /\ player \in [Players -> [on : BOOLEAN, slot : NotQueued .. MaxBgs, bg : 0 .. MaxBgs,
                               at : Away .. MaxBgs, events : SUBSET (Bgs \X Stamps)]]
    /\ notice \in [Players -> {"none", "event", "missed", "login"}]
    /\ wiped \subseteq Players /\ latest \in 0 .. MaxBgs

Invited(p)   == info[p] # NotListed /\ group[info[p]].bg # 0
OnTheWay(b)  == {p \in Players : player[p].at = Away /\ player[p].bg = b}
InvitedTo(b) == {<<g, p>> \in Groups \X Players : group[g].bg = b /\ p \in group[g].players}

\* The four records of who is queued agree: a queued player is in exactly one
\* group, the one his entry points to; the lists hold exactly the groups that
\* have players; and what the Player object says of the queue is what the
\* queue says of him, otherwise he cannot accept.  One who was between two
\* maps when he was invited never learns of it until he logs in again.
\* Nothing is claimed any more of a player whose queue slot was taken by a
\* battleground he had left by a log-out on his way in: he is queued without
\* knowing it, and may join a second time.
QueueAgrees ==
    /\ \A p \in Players \ wiped, g \in Groups : p \in group[g].players <=> info[p] = g
    /\ \A t \in Teams : Range(queue[t]) =
           {g \in Groups : group[g].players # {} /\ TeamOf(group[g]) = t}
    /\ \A p \in Players \ wiped : player[p].on =>
           IF info[p] # NotListed
           THEN player[p].slot = IF notice[p] = "missed" THEN 0 ELSE group[info[p]].bg
           ELSE player[p].slot # NotQueued => player[p].bg = player[p].slot

\* The invited count of a battleground is the number of slots really held: by
\* queued players who may still accept, players on their way, and participants,
\* to whom those belong who logged out on their way in and are offline or
\* elsewhere by now; in any order of accepts, refusals, expiries, departures,
\* teleports and log-outs it is given back exactly once.  Only who comes back
\* to a battleground that still counts him takes a second slot that nobody
\* gives back.  No more slots are held than the team has places, and none in a
\* battleground that was deleted.
InvitedExact ==
    \A b \in Bgs, t \in Teams :
        /\ bg[b].invited[t] = leaked[b][t]
              + Cardinality({x \in InvitedTo(b) : Team[x[2]] = t})
              + Cardinality({p \in OnTheWay(b) : Team[p] = t})
              + Cardinality({p \in bg[b].players : Team[p] = t})
        /\ bg[b].invited[t] <= MaxPerTeam

\* No group waits, with no update of the queue to come, while a running
\* battleground has room for it.  (When MinPerTeam < MaxPerTeam a battleground
\* starts with room that is offered at the next update only.)
RoomOffered ==
    ~scheduled =>
        \A b \in Bgs \ {latest}, g \in Groups :
            Running(Now, b) /\ group[g].players # {} /\ group[g].bg = 0
                => bg[b].invited[TeamOf(group[g])] + Cardinality(group[g].players) > MaxPerTeam

\* Invited by the book: he was in the world, has the event, and is still there.
Told(p) == Invited(p) /\ notice[p] = "event" /\ p \notin wiped

\* An invitation ends, by an accept, a refusal or its time-out, for everyone
\* who was in the world when he was invited and does not log out: the slot he
\* holds is not held for ever, wherever he travels meanwhile.  One who was
\* between two maps, or has logged out, has no event that would end it; that of
\* one whose queue slot was taken away passes him over.
InvitationEnds == \A p \in Watched : Told(p) ~> ~Told(p)
=============================================================================
