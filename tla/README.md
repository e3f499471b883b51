# A TLA+ verification project for the banilla world server

The repository is a C++ server for a massively multiplayer game (MaNGOS lineage):
`realmd` authenticates accounts, `mangosd` runs the world. The code of its own is
`src/src/{game,shared,framework,mangosd,realmd,scripts}`; `dep/` is vendored,
`contrib/` are map extractors, `sql/` is content. Most of `game` and all of
`scripts` are game rules executed sequentially by one thread. What is hard to get
right, and hard to test, is where threads, connections and asynchronous results
meet, and where several players and timers act on one object. The project is about
those places.

## 1. Inventory

| Part | State | Operations | Interacts with | Hard because | Correct when |
|---|---|---|---|---|---|
| Asynchronous database layer (`shared/Database`) | per-thread open transaction, delay queue, workers and their connections, result queue | Execute, Begin/Commit/Rollback, Direct*, AsyncQuery, DelayQueryHolder, StopServer | every handler; MySQL | several workers, reconnection inside transactions, shutdown | every accepted operation is executed once, transactions are all or nothing, a thread's writes keep their order, callbacks run once and in order |
| World sessions (`World.cpp`, `WorldSession.cpp`) | `m_sessions`, `m_QueuedSessions`, `m_disconnectedSessions`, `addSessQueue`, per session player, socket, flags, timers | AddSession, UpdateSessions, RemoveQueuedSession, KickAll, LogoutPlayer | sockets (network threads), login callback, shutdown | sessions are replaced, queued, disconnected and deleted while queries of theirs are under way | no dangling session, a character has one session, limits hold, queue moves, everybody is saved |
| Character login (`CharacterHandler.cpp`) | `m_playerLoading`, LoginQueryHolder | HandlePlayerLoginOpcode, HandlePlayerLogin | database results, sessions | the answer finds the session by account, not by request | as above, and a login always ends |
| World loop (`WorldRunnable.cpp`, `Master.cpp`) | stop event, tick | Update, Shutdown | all of the above | the order at shutdown | nothing accepted is lost |
| Sockets (`MangosSocketImpl.h`, `WorldSocket.cpp`) | out buffer, packet queue, closing flag, session pointer | SendPacket, handle_output, CloseSocket, HandleAuthSession | reactor threads, sessions | two locks, partial sends | packets leave complete and in order |
| Mail, auctions (`Mail/`, `AuctionHouse/`) | mails, auctions, escrowed items and money | send, take, return, bid, expire | database, players on- or offline | asynchronous count query, stale Player pointers | money and items are conserved |
| Trade, groups and rolls, battleground queue, instance binds | offers and accepts; votes; invitations; binds | handlers and timers | players leaving at any moment | two-sided protocols, time-outs | both or neither side; every roll ends once; counters are exact |
| Map threads, broadcasters | per-map update, listeners | MapManager::Update, MovementBroadcaster | world thread | barrier, registration | no update outside the barrier |
| realmd | logon state | challenge, proof, realm list | account table | state machine | no realm list without proof |
| Units, spells, movement, AI, scripts, events | game rules | - | - | data and geometry | out of scope |

`PROJECT.json` lists all components, and under `hazards` each place where the code
is exposed to something a test hardly reaches.

## 2. Modules

| Module | Models |
|---|---|
| `SqlDelayThread` | the write path: what a game thread may call, the delay queue, the workers, the connections to MySQL with drops and reconnection, StopServer |
| `TransactionLog` | the promise of the write path: a log to which whole transactions are appended at once, or dropped |
| `SqlDelayThreadProofs` | theorems about `SqlDelayThread`: types, owners of operations, shutdown |
| `TransactionLogProofs` | theorems about what becomes durable, and the refinement of `TransactionLog`; extends `SqlDelayThreadProofs` |
| `SqlResultQueue` | asynchronous queries: workers executing them, `SqlResultQueue::Update` with its caller threads and time-out, CancelAll |
| `WorldSessions` | sessions, login queue, login callback, disconnected characters, shutdown |
| `Mail` | mail between characters, mailboxes, the return of old mail, deletion of characters, on top of asynchronous queries and queued writes |
| `AuctionHouse` | one auction house; extends `Mail`, through which it settles every auction |
| `Trade` | the trade of two players, with what their clients show |
| `GroupLoot` | the loot rolls of a group over one corpse |
| `AuctionHouseProofs` | theorems about `Mail` and `AuctionHouse`: types, and what each statement and handler does to the tables |
| `AuctionHouseItemProofs` | that an item is in one place and every auction settled; extends `AuctionHouseProofs` |
| `SqlResultQueueProofs`, `WorldSessionsProofs`, `TradeProofs`, `GroupLootProofs` | theorems about the module each is named after |
| `BattleGroundQueue` | the queue of one battleground type and bracket, invitations, the battlegrounds |
| `MC*` | model values, functions and symmetry for TLC |

**SqlDelayThread.** `trans[t]` is the thread-local transaction of `m_TransStorage`,
`delayQueue` is `m_delayQueue`, connection 0 is `m_pAsyncConn` (used under its lock
by the Direct* calls), connection w belongs to worker w. An operation is executed
statement by statement: `at` is the position (0 before START TRANSACTION), `pending`
what the server holds uncommitted, `db` what is durable. A connection is up,
dead, or null (reconnection failed). `Drop`, `LostReply` and `LostCommitReply` are
the environment: MySQL drops a connection before or after executing what it was
sent. A plain statement on a dead link reconnects (`Reconnect`) and is sent
again; a prepared one fails (`FailOnDeadLink`); a transaction command on a null
connection crashes the process. Halting is worker by worker as in
`HaltDelayThread`, and the destructor of a worker drains the queue again.

**SqlResultQueue.** Queries are numbered in the order they were issued; `safe` says
which callbacks are thread safe. `Update` sorts the results, spawns callers,
runs the unsafe callbacks until the time-out, and joins the callers.

**WorldSessions.** Sessions are numbered as they are created; `open[s]` is the
socket, which network threads may close between any two steps of the world
thread. The world thread goes through `accept` (LoginPerTick), `add` (AddSession_),
`update` (one turn per session: packets, then lost socket, idle kick, due logout or
nothing), `late` (disconnected sessions) and `rest` (maps, result queue), and ends
with the extra pass of `World::Shutdown`. `holders` are the login queries under
way, answered in order (that order, and that they are answered, is what
`SqlResultQueue` checks). `AddSession_` is one step: the world thread does nothing
else meanwhile and the network threads only append to `addSessQueue`.

**Mail.** `disk` is the character database: gold and items of the characters,
`item_instance` owners (`inst`), `mail`, `mail_items`, auctions. A handler changes the
memory of the server (`purse`, `bag`, `box`) in one step and queues its writes:
`pend` holds the contents of the database after each queued transaction, which are
the states a crash could leave behind. `queries` are the asynchronous queries under
way (login, the count query of SendMail, the two queries of the old-mail returner),
answered in order. The model relies on two results about the layers below: writes
are executed in order (`SessionOrder`, one worker, which is the default) and
callbacks run in order (`UnsafeOrder`). Handlers start with the queue drained: a
query reads what was queued before it, so this changes nothing that is read.
`SlowLookup` says whether the item lookup of the old-mail returner may be overtaken:
by a login, logout or deletion of the receiver, or by the next search, which finds
the same mail again (a thread started by `World.cpp` searches once a second while
the database has no asynchronous query waiting, and the rows stay until the lookup is answered). With FALSE the window of
the finding `mail_lookup` is closed (`LookedUp`, `Found`).

**AuctionHouse.** `auctions` is the AuctionsMap together with the items in escrow. A
mailing (`Start`, `Post`, `Write`, `Commit`) accumulates the mails and writes of one
handler in the order in which the code sends them. `Restart` is an orderly stop and
`LoadAuctions`.

**Trade.** `trade[p]` is `Player::m_trade`. What a client shows lags behind: `down[p]`
are the updates on their way, `view[p]` the offer of the other side that is shown,
`pressed[p]` an accept on its way together with the view it was pressed for. The
three-second delay of the accept handler is `recent`. It can only do its work if an
update is shown, and an earlier accept arrives, within three seconds; `DelayOver`
assumes that of the network.

**GroupLoot.** `roll[s]` is the entry of RollId for slot s, with its uint8 counters
(`Less` wraps). `window` are the roll windows open at the clients, each answered
once. Who is near, has room, or draws the highest number is chosen where the code
asks. `given`, `won` and `absent` are history.

**BattleGroundQueue.** `info` is m_QueuedPlayers, `group` the GroupQueueInfos, `queue`
the two normal lists, `bg` the battlegrounds with their invited counters, `free` the
BGFreeSlotQueue, `scheduled` the update scheduler, `player` what the Player object
knows: his entry for this queue, his battleground id, where he is (on a battleground
map, elsewhere, or between two maps) and his remove events. The code reaches a Player
object through `ObjectAccessor::FindPlayer`, which returns only players in the world:
`InWorld`. A player between two maps is therefore passed over by an invitation
(`InviteGroupToBG`) and by `RemovePlayerAtLeave`, and one who logs out there still
runs `HandleMoveWorldportAckOpcode` (`EnterMap`) before his Player object goes. The
time of an invitation is a stamp, reused when nothing refers to it any more. Four
variables are history: `notice` (how a player's invitation reached him), `wiped`
(players whose queue slot an old battleground took away), `leaked` (slots nobody will
give back) and `latest` (the battleground made by the last update). Operators on a
state record (`RemovePlayer`, `InviteGroupToBG`, ...) are the functions several
handlers call; `Becomes` makes the result the next state. The locks of the queue are
commented out in the source; the model takes each operation as atomic.

Operators whose comment begins with *Faulty variant* are plausible mistakes; each
replaces the operator defined after it to show that a property notices the mistake.

## 3. Runs

| Run | Bounds | Shows |
|---|---|---|
| `delay_workers` | 1 thread, 2 workers, plain and prepared statements, 2 operations of at most 2, 1 drop | types; `OwnedOnce`, `NothingLeftBehind` at shutdown, `OnceAndWhole`: nothing executed twice and no torn transaction, while connected for plain statements, always for prepared ones |
| `delay_writes` | 2 threads, 1 worker, 3 statements, 2 operations, no drop; fairness | `SessionOrder`; `ImplementsLog`: the write path implements `TransactionLog`; `EventuallyExecuted`, `StopTerminates` |
| `delay_reconnect` (violation) | 1 drop, 1 transaction of 2 statements | `TransactionAtomic` fails: see findings |
| `results_order` | 1 worker, 2 callers, 4 queries, time-out; fairness | unsafe callbacks in order, the counter exact, each callback once and inside Update, each eventually run |
| `sessions_owner` | 2 accounts (one game master), 3 connections, 2 characters, limit 1, hard limit 2, queue and grace period | `QueueExact`, `NoDangling`, `PlayerOwned` (one session, of the right account), `SavedUnlessLost` |
| `sessions_live` | 2 accounts, 3 connections, hard limit 1, LoginPerTick 1; fairness | `SlotsFilled`, `LoadingEnds`, `DisconnectedEnds` |
| `sessions_default_queue` (violation) | as above with the default hard limit 0 and LoginPerTick 0 | `SlotsFilled` fails: see findings |
| `auction_mail` | 3 characters (one sells, writes, logs out and may be deleted; the other two are symmetric), 1 item, 3 mails, 1 auction, 1 expired mail | `ItemOnce` (in memory, and in every prefix of the queued writes), `NoGoldCreated`, `AuctionSettled` |
| `mail_lookup` (violation) | as above with `SlowLookup` | `ItemOnce` fails: see findings |
| `loot_rolls` | 3 players, 2 of whom come and go, 2 items, one of them for one player only | `GivenOnce`, `CountersExact`, `BestVoteWins`, `BlockedByRoll`, `RollEnds` |
| `trade_terms` | 2 players with 1 gold each, 1 item, 2 updates under way, 1 crash | `ItemOnce`, `TermsShown`, `NoGoldCreated` |
| `bg_queue` | 2 against 1 player, one of whom travels and logs out, parties of one, 2 places per team (1 to start), 1 battleground, 2 stamps | `QueueAgrees`, `InvitedExact`, `RoomOffered`, `InvitationEnds` |

Every passing run but `delay_writes` and `sessions_live`, which share a module with
one that does, also checks the type invariant.

The bounds are the smallest at which the cases of interest occur: a transaction
needs two statements to be torn; order needs two operations of a thread; two workers
race with two operations; a takeover needs a second session of the account, a
stale login holder a third; a refund needs two bidders besides the seller; a mail
that is returned and returned again needs three mails; a wrapping counter a roll with
one player, a missing vote a roll with three; crossing accepts need two updates
under way; a team that is full after it has waited needs two players and two places, and a battleground
that starts with room fewer places to start than to fill; a player who is queued twice
needs two GroupQueueInfos of his party (`MaxGroups`). `BattleGroundQueue` was also
checked once with a party of two added (all properties, 1.0 million states), and its
invariants with two battlegrounds and one place per team (2.5 million states). Every bound is a constant that appears in a
guard (`MaxStmts`, `MaxOps`, `MaxDrops`, `MaxQueries`, `MaxSessions`, `DelayTicks`,
`MaxMails`, `MaxOld`, `MaxAuctions`, `Writers`, `Restless`, `Doomed`, `MaxUpdates`,
`MaxCrashes`, `MaxGroups`, `MaxBgs`, `MaxStamps`). Deadlock is not checked where a
model ends in a stopped server or at a bound (database, sessions, auctions, and
battlegrounds when the stamps are used up).

### Fairness

`SqlDelayThread`: weak fairness of each worker, of each connection's progress, and
of the main thread in StopServer: operating system threads, and a server that
answers or breaks the connection. Game threads need not call anything.
`SqlResultQueue`: workers, callers and the world loop run; nobody must issue
queries. `WorldSessions`: weak fairness of the world thread's own steps; strong
fairness of the login callback, which is possible in every tick but not
continuously, justified by `CallbackRuns`. `GroupLoot`: weak fairness of the
creature's timer, which its map updates in every tick. `BattleGroundQueue`: strong
fairness of the remove events of the watched player, which run in every update of
his map: he may travel, which puts them off, but his map updates him after each
arrival; and weak fairness of his arrival, a client finishing a loading screen.
Players need not answer, nor the queue be updated. Clients and network threads have
no other fairness anywhere.

### Findings

* `delay_reconnect`: a lost connection inside a transaction is replaced by a new
  one in autocommit mode; the statements before are gone, those after stay.
* `sessions_default_queue`: PlayerHardLimit 0 means "disabled", but
  `RemoveQueuedSession` compares with it, so the queue of a default configuration
  never moves again. With a hard limit equal to PlayerLimit and LoginPerTick 0 the
  same happens, because the leaving session is still counted.
* `mail_lookup`: the old-mail returner takes a receiver whose login query is under
  way for offline; his mailbox is loaded with a mail that was given back. The
  same lookup is overtaken in two more ways, met in the proof of `ItemOnce` and confirmed
  by TLC on instances made for them: a second search finds the mail while the first
  lookup is unanswered, so that it is returned and then returned again or deleted by
  what the second one has read; and the deletion of the receiver sends a mail with cash
  on delivery back to its sender before the returner does.

Met while modelling, and described by the properties as what the code does rather than by a
run of their own (each is a hazard in `PROJECT.json`):

* callbacks postponed by `AsyncQueriesTickTimeout` are forgotten by StopServer;
* characters whose connection was lost within the grace period are not saved by a
  shutdown (`SavedUnlessLost` says who is);
* the deletion of a seller deletes the item he is auctioning (`AuctionSettled` is
  stated for items that exist);
* when a group is disbanded during a roll, or the winner is offline, the item stays
  blocked (`BlockedByRoll` names the two exceptions); an item won by greed is not kept
  for its winner (`BestVoteWins` says this of need only);
* a player who logs out on his way into a battleground becomes a participant while he
  logs out (WorldSession.cpp:683) and stays one, offline or elsewhere, until the
  battleground expels him. If he comes back to the same battleground before, he takes a
  second slot that nobody gives back (`leaked` in `InvitedExact`). If he is queued again
  by then, the end of the old battleground takes the queue slot of his Player object
  away: he stays queued without knowing it, cannot accept, and may join twice (`wiped` in
  `QueueAgrees` and `InvitationEnds`);
* a queued player who is between two maps when his group is invited takes a slot without
  being told and without a remove event (BattleGroundMgr.cpp:419-422): unless he logs in
  again he cannot accept, and the invitation never runs out (`"missed"` in `QueueAgrees`
  and `InvitationEnds`). An invited player who logs in again can accept, but his
  invitation never runs out either (`"login"`);
* when fewer players start a battleground than it has places for, those who wait are
  offered the rest at the next update of the queue, which nothing schedules (`latest`
  in `RoomOffered`);
* `BattleGroundMgr::PlayerLoggedIn` leaves out the queue of Arathi Basin: with
  `QueueType = 3` `QueueAgrees` does not hold.

## 4. Proofs

The theorems hold for every value of the constants that satisfies the named `ASSUME`
of the component's module: types of the constants; for `Trade`, that the starting bags
are disjoint and that `None` is neither a trade nor an offer (`NoneAssumption`); for
`GroupLoot`, that there are fewer than 256 players and slots, since the counters are
uint8 (a raid has 40 members, a corpse at most 16 + 32 items). `TypeCorrect` is
`Spec => []TypeOK` in each module. Each inductive invariant was model-checked on the
component's run before it was proved.

**SqlDelayThreadProofs** - `SingleOwner`, `Drained`. `IInv` adds to the types that an
operation is owned once (`OwnedOnce`), that every operation created is in the queue,
on a connection or finished (`Accounted`), and the order in which workers halt
(`HaltOrder`: the workers before the one being halted are deleted, only that one
drains, and once all are deleted only what a cancelled callback wrote is queued).
`OwnedOnce` alone is not inductive: a pop could take an operation another worker
already has unless queue and connections are known to be disjoint and the queue free
of repetitions; `NothingLeftBehind` needs `Accounted` and `HaltOrder`. The step sorts
the actions into four kinds (`FourKinds`): the owners stay the same, an operation is
created, ends, or is popped.

**TransactionLogProofs** - `EffectOnceAndWhole`, `RefinesLog`, `WritesInOrder`.
`Effects` establishes `EffectInv`, with any number of workers and lost connections:

* `IdInv`: statement numbers are unique and ascending in every open transaction and
  every operation, and the queued operations of a thread ascend. Without it, "the
  statement is already durable" could be true of another operation's statement.
* `ConnInv`: the transaction open on a connection has executed exactly the
  statements before `at`, none of the operation is durable before its COMMIT, and a
  connection that is up within a transaction of which atomicity is promised is in
  that transaction on the server's side too. This last part is what the finding
  `delay_reconnect` breaks for plain statements, and why the promise after a loss is
  made for prepared statements only.
* `DbInv`, `WholeInv`: what is durable has been passed by the connection that
  executes it, so that it is not executed again; a finished transaction is all there
  or not at all.

`RefinesLog` assumes `MaxDrops = 0`: with a lost connection the refinement is false
(the same finding). Creating an operation is `Submit`, its end is `Settle`, whatever
else the write path does is a stutter, shutdown included. `WritesInOrder` assumes one
worker as well, the default of `*Database.WorkerThreads`: two workers pop in order
and finish in any order. It rests on `QueueInv`: operations leave the queue in the
order of their numbers, and what is finished is older than what is queued.

**SqlResultQueueProofs** - `NothingBetweenTicks`, `ExecutedOnce`, `InIssueOrder`.
`InPlace` says that some function `at` tells for every query the one place it is in;
`Distinct`, that it is there once; `Barrier`, how far `Update` has come. Every action
moves one query from one place to another (`Shifts`), and one lemma (`Move`) shows
that a move keeps `InPlace`. The order (one worker) is that no thread-unsafe query
overtakes an earlier one on the way from the delay queue to its callback; CancelAll
may pass over callbacks postponed by the tick timeout, which never run.

**WorldSessionsProofs** - `OnlyLiveSessions`, `OneSessionPerPlayer`, `LoginQueueExact`,
`ShutdownSaves`. One invariant for all four: `MapInv` (who is in `m_sessions` and
`m_disconnectedSessions`), `NewInv` (a session in `addSessQueue` is known to nobody
else), `OwnInv` (player and session point at each other), `QueueInv`, `LoopInv` (the
loops of UpdateSessions visit what their container holds) and `StopInv` (in the last
pass every character still loaded has a kicked session whose turn comes yet). None is
inductive alone: deleting a session is safe because of `NewInv` and `QueueInv`, a login
callback finds the right session because of `MapInv` and `OwnInv`.

**TradeProofs** - `OneOwner`, `OnShownTerms`, `GoldConserved`. `Paired`: two players
trade with each other or not at all. `Separate`: an item of one player is not in
another's bag nor in what was last saved of him, in either direction, which a crash
between two saves needs. `Terms`: the last update on its way to a client is the other
side's offer, and a player who is not held back by the delay has no older one left, not
even under an accept on its way. `NoGoldCreated` is an action property: a step changes
at most two purses, together they do not gain, and no third one does.

**GroupLootProofs** - `ItemsGivenOnce`, `VotesCounted`, `NeedBeforeGreed`,
`BlockedForAReason`. `SlotInv` relates roll, item, winner and receiver of a slot;
`Counted` is `unlootedCount`; `WindowInv` says that a roll window which is still open
belongs to an announced roll in which its player has not voted, so no answer is counted
twice. `CountersExact` is not inductive for all rolls: one that was never announced
(a single candidate) holds a vote and counts nothing, and taking that vote back makes a
counter 255; `Idle` says that nobody is left in such a roll.

**AuctionHouseProofs** - `TypeCorrect`. Gold is the interesting part of the types: it
stays within 0 and MAX_MONEY_AMOUNT in memory and in every queued write. The module also states what every statement, handler and mailing does to the tables
(`...Fields`, `...Is`), which the next one uses.

**AuctionHouseItemProofs** - `ItemNeverTwice`, `EveryAuctionSettled`, both under the
hypothesis `~SlowLookup`: without it `ItemOnce` is false (the finding `mail_lookup`), and
an item that exists twice may be deleted under an auction that is then not loaded
again. Nothing else is assumed: any number of characters, items, mails, queries, expired
mails and auctions. `ItemOnce` alone is not inductive, for four reasons, and `IInv` has
a part for each:

* what is queued will be written: `World` speaks of `Last`, the tables after the last
  queued write, and `TablesInv` of every prefix (`Apart`: an item has one row in
  `mail_items` and then none in an inventory);
* memory and tables must agree: the bag of a character who is online is his inventory
  in the tables, an item in his mailbox has its row there, addressed to him (`Memory`,
  `Boxed`), row and item of a mail have the same receiver and numbers from `nextMail` on
  are free (`Rows`), and the item of an auction is in neither (`Away`);
* a query has read the tables before its answer: `Loads`, `Finds` and `LooksUp` say
  that what it read is still so. A login query relies on nobody touching the rows of a
  character who is being loaded; the lookup of an old mail's item, on nobody touching
  the receiver's unless he is online, and then its answer does nothing;
* queries must not get in each other's way: `InOrder` allows one login of a character
  and one search of a mail at a time, and no login behind the lookup for the same character.
  These last two parts are where `~SlowLookup` is used.

One lemma per action (`...Keeps`) shows that it leads from one `World` to the next.
They rest on frame lemmas: tables that are `Alike` (same items, gold or mails changed),
a mail that arrives with an item that was nowhere (`ArriveWorld`), an item taken from
an inventory (`TakeAwayWorld`), a mail returned in place (`ReturnOldWorld`). The handlers of the
house are compositions of mailings; `Sound` is `World` for a mailing under way.
`EveryAuctionSettled` adds that whoever is not offline exists (`Present`), which a buyer
must, and that a mailing only ever adds mails (`Grown`), so that what it sent first is
still there when it is committed, under a number that is new.

Only model-checked:

* liveness under fairness, which this prover does not do: `EventuallyExecuted`,
  `StopTerminates`, `CallbackRuns`, `SlotsFilled`, `LoadingEnds`, `DisconnectedEnds`,
  `RollEnds`, `InvitationEnds`;
* everything about `BattleGroundQueue`, where an update folds over the players gone,
  the list of free slots and the waiting groups, and `NoGoldCreated` of
  `AuctionHouse`, a sum over characters, mails and auctions: what a fold computes
  needs induction over its argument, which is out of the prover's reach;
* `ItemOnce` and `AuctionSettled` with `SlowLookup`: the first is refuted by
  `mail_lookup`, the second is not claimed.

## 5. What is not modelled

Contents of statements and results; the pool of synchronous query connections;
PostgreSQL; bots, node sessions; character creation; SetPlayerLimit at run time;
packet contents; texts of mails, mass mail, the auction bot, several auction houses;
the spell cast by a trade; invitations, subgroups and the other loot methods of
groups; premade groups, balancing and waiting times of the battleground queue, and
the rules of each battleground. The value a statement writes is its identity. Time is
nondeterministic except for `timer`, counted in ticks.

Transactions of the character database are atomic in the models above
`SqlDelayThread`; the shipped schema declares some of its tables MyISAM, for which
they are not.

The remaining components of the inventory are listed in `PROJECT.json` with reasons:
game rules, scripts, movement and visibility are data and geometry; the
authentication server is arithmetic around a request and its answer; map and
broadcasting threads work behind the barrier that makes the modelled handlers atomic.

## 6. Plan

If the project is continued: the output side of the sockets, instance binds, the map
update barrier.
