# Specifications of game-lobby

This directory models the servers of `game-lobby` in TLA+: a gate, a lobby and a game
server for the card game niuniu. TLC checks the models on small instances and TLAPS proves
part of what TLC checks for every size of the system.

File and line numbers below are those of the repository's `src/`.

## 1. Inventory

```
 clients --tcp--> gate-server --tcp--> lobby-server (login, choice of a room)
                      \------tcp-----> niuniu-server (rooms)          mysql, redis
```

| component | state it keeps | operations | it works with |
|---|---|---|---|
| **niuniu room** (`niuniu-server/roomPkg`) | status and its time stamp, seats, bystanders, players of the round, banker, bids, bets, shown cards, results, heap; two bounded channels | enter, leave, disconnect, sit down, get ready, bid, bet, show cards; one tick per second with one case per status | player objects (by pointer), redis, the database |
| **niuniu player object** (`playerPkg`) | room, room id, seat index, readiness, online flag, hand, inbox, `isClosed` | `c2sEnterNiuniuRoom`, `c2sLeaveNiuniuRoom`, `gate2NiuniuClientDisconnect`, `C2SSelfBuildRoom`; `Timer`, `Close` | rooms (calls `IsPlaying`, queues messages) |
| **niuniu dispatcher** (`niuniuApp`) | the player registry | makes and finds player objects, routes messages to a player's inbox or to the player's room, drives the rooms' ticks | gate connections, registry |
| **seat keys** (`redisOpt`) | three keys per seat: room and seat to user, user to room, user to seat | set, delete, extend | written by rooms, extended by players, read by the lobby |
| **settlement** (`roomPkg/settlement.go`) | wins and losses, gold | `calcWinOrLose`, `updatePlayerGold` | redis, then mysql, then redis |
| **cards** (`niuniuAlgorithm`) | none | card types, kan and shun, comparison | used by show and settlement |
| **self-built rooms** (`roomPkg/selfBuildRoom.go`, `selfBuildRoom/`) | set of rooms, number of rounds, totals | create, delete, game over | rooms, redis |
| **player registry** (`baseServer`) | `mapPlayer`, `mapConnid`, `mapWxidConnid`, slots of the time wheel, `mapGate` | `StorePlayer`, `FindPlayer…`, `timer`, gate registration | both back-end servers |
| **login** (`lobby-server/login`) | login queue, a lock in redis, accounts | login, creation of an account | registry, redis, mysql |
| **lobby player** (`lobby-server/player`, `logic`) | inbox, `isClosed` | requests of a logged-in user, `Close` | registry, gate |
| **connection** (`base_net`) | socket, send and receive channels, `isClosed`, exit signal | `Send`, `recvLoop`, `sendLoop`, `Close` | every server |
| **gate session** (`gateApp`, `client`) | map of clients, game server bound to each | forward, bind (enter, build), unbind, kick, notify a disconnect | lobby, niuniu |
| **gate link** (`backEndServer`, `gateServer`) | map of back-end connections, map of gates | register, ping, reconnect, remove | both ends of one connection |

What is hard in it:

* **Three kinds of goroutine share a player object.** The dispatcher puts it online, the
  player's goroutine asks the room whether the user is playing, and the room's goroutine
  acts on the message later. Between the question and the act the room may have started a
  round, ended one, or removed the user.
* **Queues are bounded and lossy.** Room, player, connection and ticker channels drop what
  does not fit. Some state has been changed by then (the online flag, the room pointer).
* **Clients stop talking.** A round must end with players who are silent, have dropped out
  or were removed, with no banker, and with redis failing.
* **Several copies of one fact.** The seat is stored in the room, in the player object and
  three times in redis; a user is a bystander, or seated, or seated and playing.
* **Messages are accepted in the wrong status.** Bids, bets and shown cards are recorded
  whenever they come and are counted by the size of a map.
* **Reconnection and double login** change the connection of an object that others hold.
* **Several processes hold one session.** The binding at the gate, the connection in the lobby
  and the connection in the niuniu server are changed by messages that cross.
* **Processes and networks fail.** Links are noticed to be dead late and by one end first; an
  account is written to mysql and then, in two calls, to redis.
* **Rooms share accounts.** A user may play in two rooms (`dispatchMsg.go:114` makes a player
  object for every room built), each room settles in a goroutine of its own, and none locks an
  account.

What makes each part correct, in one line: the room's copies of a seat agree, a round has
the players it started with or fewer, is settled once and always ends; the registry's maps
are inverse to each other and hold no closed object; at most one session acts for a user; a
connection delivers in order a part of what was sent and stops when closed; gold is neither
made nor lost but for the fee, in as many rooms as settle at once; the comparison of hands is a
total order.

## 2. Modules

| module | what it is |
|---|---|
| `NiuniuRoom` | one public room, its player objects, the dispatcher and the queues between them |
| `NiuniuRound` | abstract specification of one round, implemented by `NiuniuRoom` |
| `Settlement` | the gold over the settlements of all rooms, call by call |
| `NiuniuCards` | the types of a hand and the comparison of two, as operators |
| `NiuniuHands` | the cards of one round: dealt, shown from three places, compared anew by the settlement |
| `SelfBuildRoom` | the rooms users build, with several player objects per user |
| `PlayerRegistry` | the maps and the time wheel of `baseServer`, one action per operation |
| `LobbyLogin` | the login workers over `PlayerRegistry` (extends it) |
| `Accounts` | how a login finds or creates an account: `LobbyLogin`'s steps "lock" to "unlock" in detail, with mysql and redis |
| `Connection` | one connection of `base_net`: `Send`, `Close`, the two loops, the channels, the peer |
| `MessagePipe` | abstract specification of its sending side, implemented by `Connection` |
| `GateSession` | a user's connections through gate, lobby and niuniu server |
| `GateLink` | the connection between a gate and a back-end server |
| `MC...` | values of the constants for TLC |
| `...Proofs` | the theorems and their proofs, one module per component |

Definitions that end in `_Something` after the name of another (`StandUp_Forgotten`) are
mutants: plausible mistakes in the code, kept to show that a property notices them.
No behaviour of `Spec` uses them.

How they fit together. `GateLink` and `Connection` are what `GateSession` takes for granted: links
that are registered and FIFO. `LobbyLogin` and the dispatcher's part of `GateSession` are two
users of one registry. `GateSession` keeps of the lobby's registry only which connections have
logged in, and nothing of the room, which may answer or not; `NiuniuRoom` in turn lets any client
send any message and uses nothing the gate guarantees. `Settlement` and `NiuniuHands` look inside
`NiuniuRoom`'s step `SettleRound`, `Accounts` inside `LobbyLogin`'s steps between "lock" and
"unlock". These are connections by reading, not by refinement: only `NiuniuRound` and
`MessagePipe` are implemented in the formal sense.

### How `NiuniuRoom` corresponds to the code

State. Variables have the names of the Go fields. `waited` is
`timestamp - room.roomStatusTimestamp` at the last tick, `mapRobZhuang[u] = 0` and
`mapBet[u] = 0` stand for a missing map entry, `mapWinOrLose` and `mapShowCard` keep the
users and not the values, `handCards` and `cardHeap` count cards, `inRoom` is `roomId` and
`room` of the player object, `redisSeat` and `redisRoomId` are the keys that say who sits on a seat
and who is in the room. `connected` says whether the user has a connection that the dispatcher
would find. `staleSeat` and `staleRoomId` are history: the keys whose last call was lost and left
something else than it should.

Actions, each a whole handler:

* `Dispatch*`: the cases of `dispathMsgToPlayer`. An enter makes the object online before
  it is queued; a message other than enter, leave and disconnect goes straight to the room.
  Any client may send any message at any time; what the gate guarantees of their order is
  not used.
* `PlayerEnter`, `PlayerLeave`, `PlayerDisconnect`: the three handlers in `playerLogic.go`.
* `RoomEnter`, `RoomLeave`, `RoomHaveASeat`, `RoomReady`, `RoomRobZhuang`, `RoomBet`,
  `RoomShowCard`: the handlers in `roomLogic.go` and `enterRoom.go`. Map iteration order
  and the random choice of the banker are nondeterministic.
* `Tick` with `KeepWaiting`, `StartCountDown`, `StartRound`, `ConfirmBanker`, `CloseBets`,
  `ShowCards`, `SettleRound`, `FinishRound`: one call of `Room.running`. `FinishRound` is
  `reReady` and `clearOfflineClient` together, as in `settle`.

What is abstracted, and what that costs:

* A user has one player object throughout; its expiry after 7200 s without a heartbeat
  (`niuniu.go`, `baseServer.go:109`) does not occur.
* There is one room. Self-built options (`Faster`, number of rounds, `GameOver`) do not occur
  in a public room; `SelfBuildRoom` has them, for any number of rooms.
* The calls on the keys of a seat (`redisOpt.go:31-71`) are made one by one and their errors are
  dropped: each may be lost, whatever becomes of the others (`RedisCalls`). A lost call is not
  carried out later. That another goroutine reads between two of them is not in the model: it sees
  what it would see if the later one had been lost, and then less long.
* The third key, `niuniu_seat_index:<uid>`, is read only by the player's goroutine when it
  prolongs the keys (`player.go:111`), and is left out with that. The keys live for a minute,
  and a room the user enters later overwrites those of the user; either only makes a key say less
  of this room, which `NoGhostSeats` allows at any time.
* `IsPlaying`, the change of the online flag and the queuing of the message are one step, as
  are the two writes of `SetRoomId`. The interleaving that matters, between the question and
  the room's handling of the message, is there because the message waits in the queue. The
  data race of `IsPlaying` (`room.go:614`) and the torn write of `SetRoomId` are not.
* Ticks are taken in order, `gap` seconds apart; that ticks are dropped when the ticker's
  channel is full is a larger gap.
* The configuration, read again from redis after each round, stays the same.
* Broadcasts and replies to clients are left out: nothing reads them back.

### How `Settlement` corresponds to the code

`NiuniuRoom` settles a round in one step and keeps only who has a result. `Settlement` looks
inside that step, where redis and mysql are called one after another, and follows the gold
over any number of rounds in any number of rooms at once; who plays, who is the banker and who
wins are nondeterministic (`NiuniuHands` has the comparison), and a user may be in several rooms.

State. `redisGold` and `dbGold` are the two copies of a user's gold, the rest are the variables
of the two functions under their names, by room, with 0 for a missing map entry; `phase` says which
calls of a room come next and `left` for which users, `paid` are the keys of `mapPlayerGold`.
`apart` is history: whose last settlement lost one of its writes, or was committed while another
room had still to write the same user's gold to redis. `exposed` is history, too: who was ever
in two settlements at once, or in one whose banker was in debt, or in debt from the start.

Actions. `Settle` is the start; `ReadCap` is one turn of the first reading of redis
(`GetSomePlayersGold`), and when it fails there are no results and the settlement goes on
without any, as in the code. `CalcWinOrLose` is the rest of that function, which touches nothing
that is shared: the loop over the players (`Compared`), the division of a ruined banker's gold
(`Shared`) and the banker's own result. `ReadGold` is one turn of the second reading, which
leaves an empty map when it fails; it adds the result at once, as the code's next loops do.
`CommitGold` is the transaction: an update fails and the settlement is void, or all succeed and
then the commit succeeds or fails; `b` is true in both cases. `WriteRedis` is one
`SetOnePlayerGold`, whose error is dropped. Between any two of these calls any other room may make
its own. `Crash` is the death of the process at any point.

Abstractions. A stake is one number, the product of its four factors, and below 2^31. A
float32 quotient times a float32 is the exact value within one part in `Precision`; three
conversions, one division and one product round by 2^-24 each, so 2^21 is safe. The fee,
`int32(float64(w) * 0.95)`, is `95 * w \div 100`. The updates of a transaction are one step.
Outside the settlements nobody writes gold: an account gets its first gold when it is created.

### How `NiuniuCards` and `NiuniuHands` correspond to the code

A hand is a function of 1..5 in the order it was dealt. Each `...CardType` operator is the
Boolean function of that name; `SpecialCardType` is the chain of seven tests,
`NormalTypes` what the ten triples write into `mapCardTypes`, `KanType`, `ShunType`,
`KanShunType` and `PlainType` the types that the four comparisons of `kanShun.go` and
`niuniuAlgorithm.go` start from, and `Wins` their common end. The combination of cards that
every function returns beside the type, which is only drawn on the screen, is left out.

`NiuniuHands` sees the room from the banker and one other player, since every comparison is
between these two. `c2sShowCard`, `ShowTimeout` and `BankerShowCard` are the three places
that compute a type to show (`ShownType`); `Settle` chooses among the four comparisons by the
room's two options and computes the types again.

A client may ask to show in any status (`roomLogic.go:226` tests none): before the last deal,
when the hand has no cards or four and the type shown is 0, and also after the settlement. The
timeout passes over a player who has shown, even so (`showCard.go:16`); the banker is shown once
more in any case. `mapShowCard` therefore keeps with the type whether there were five cards.
What is left of such a show in the table's eyes is a type of 0 while the settlement counts the
complete hand; see section 5.

### How `SelfBuildRoom` corresponds to the code

Every request to build a room makes a new player object (`dispatchMsg.go:114`), whatever the
user has; objects are numbered per user and a room is named after the object that built it.
`PlayerCreate` and `PlayerEnterOwn` are `C2SSelfBuildRoom` in two steps, since the second half
runs in the player's goroutine while the room's is already running. `RoomLeave` is
`removePlayer` and `deleteSelfBuildRoom`; `ReReady` is `reReady`, which in the fast mode keeps
the players and makes them ready, and `clearOfflineClient`; `RoomEnds` is the goroutine that
finds the game over.

Abstractions: bids, bets, cards and settlement move nobody and are one step (`PlayRound`); a
tick is one at which the status's wait is over, the others change nothing; a user has one
connection at a time (`GateSession` has two); the redis keys of seats are those of
`NiuniuRoom`; ids are unique.

What the model shows to be so, without a comment that says otherwise: the owner sits in seat 0
with a seat index of -1, so the leave of an owner who never sat down by himself empties no
seat; users still point at a room whose game is over; in the fast mode `mapPlayers` is not empty
while the room is ready; the test for late entry is made by the player's goroutine and the
entry by the room's, so a round may start in between; a room all of whose users were cleared
at the end of a round is never deleted.

### How `PlayerRegistry` and `LobbyLogin` correspond to the code

Every operation of `baseServer` holds `lockPlayer` and is one action; `StorePlayer` and `Tick`
are `StorePlayer` and one turn of `timer`. `silent` is the time since `lastAliveTimestamp`,
counted in ticks and up to `playerExpires`. The signal that `Close` leaves for the goroutine of
the object is taken at once. `timer` calls `player.Timer`, which only queues a signal.

A worker of `LobbyLogin` goes through `login` one call at a time: `Find`, then `Kick` and
`StoreOld` for an object on another connection, or `Lock`, `FindAccount`, `StoreNew`, `Unlock`.
Each reads what it reads at that moment, and the others, the wheel and the pings come in between.
The lock may be refused, fail or expire, and is deleted on every way out, also by a worker that
does not hold it (`login.go:98`).

Abstractions: memory is a set of objects that can be used again when nothing refers to them. Any
connection may log in as any user, also as a second one (`login.go:59-93` asks nobody); `cameOver`
is history, the users who have logged in over each connection.

### How `Accounts` corresponds to the code

A worker goes through `login` from the lock on and `createAccount`: `GetUidByWxid`,
`LoadPlayerBaseInfo`, or two `digitalId.Get`, the transaction, `SavePlayerBaseInfo`,
`SaveWxidAndUid`. Readings may fail; the commit may fail after `b` is set (`login.go:176`); each
of the two writes may be lost; the lobby may restart, upon which `digitalId.Gen` fills the set
of numbers if it is empty, with all of them. `apart` is history: the users hit by a fault
between the transaction and the second write. mysql's unique columns are those of
`sql/games.sql`. `SavePlayerBaseInfo`'s fields other than the user's name are left out.

### How `Connection` corresponds to the code

`SendLock` and `SendPut` are the two halves of `Send` under the read lock, `CloseLock` and
`CloseUnlock` those of `Close` under the lock. `TakeSend`, `Write` and `SendLoopEnd` are
`sendLoop`; `ReadOne` and `ReadFails` are `recvLoop`, which calls `Close` when a read fails,
that is when the socket is closed on this side, the peer is gone, or nothing came for a minute.
The peer reads, writes and leaves. `out` is what the socket has taken and the peer has not read.
A packet is a number in the order of `Send`; its layout and its limit of length
(`socket.go:73`) are left out.

### How `GateSession` corresponds to the code

`Forward` and `Exit` are the two branches of the select in `Client.forwardLoop`, which takes
either when both are ready; so messages may be lost. `GateFromLobby` and `GateFromNiuniu` are
`BackEndServer.handleBinData`, each in the goroutine of its link; the binding and the forwarding
of an enter or a build are two steps, since they are two locks and the client's goroutine may come
between. `NiuniuDispatch` is `dispathMsgToPlayer`: `MovePlayer` for an enter of a user who
has an object, `DispatchBuild` for a build, which makes another object whatever there is, stores
it over the old one and kicks nobody (`dispatchMsg.go:101-118`). `NiuniuExpire` is the time wheel's
end of the object. An object that is registered no longer goes on with its inbox (`orphaned`).
`PlayerHandle` is the object's goroutine with the room's answer.

`admitted` is history: the connection of the last enter or build that the lobby let through.
`abandoned` is history: the connections that an object was left on without a kick, by a build, by
its expiry, or by an enter that found it and lost it.

The lobby is a superset of `LobbyLogin`: its ten workers, the timer between two of their calls
and objects that were closed and are registered again all come to one of the things that
`LobbyLogin` and `LobbyPassOn` of this module may do, namely log the connection in or not, kick a
connection that had logged in or none, and pass a request on or lose it. The room is a superset
as well: it answers a leave or does not, whichever room it is and whether it still runs.

Abstractions: links are FIFO and stay up (`GateLink`), no channel is full (`Connection`). A room
answers a leave at once or never (`NiuniuRoom` has the delay), so that a late answer does not undo
a newer binding of the same connection (section 5). Builds come through the lobby; a client that is
bound could send message 5002 straight to the niuniu server, which the model leaves out. A packet
of exactly the greatest length passes `socket.go:73` and fails `client.go:74`: `forwardLoop` then
closes the connection and returns without telling the game server. This does not occur.

That an enter is answered is not a property, because the code does not see to it: the room that
the object points at may be over (`settlement.go:56`), the pointer may be nil between the test and
the use (`playerLogic.go:71`), the room's channel may be full (`room.go:218`), and the lobby's
object may be closed although it is registered (`login.go:79-85`).

### How `GateLink` corresponds to the code

`KeepAlive` and `Run` are `keepAliveForBackEndSrv` and `BackEndServer.Run`, `HandleBinData` the
answers to a registration, `ForwardLoopExit` the exit branch of `forwardLoop`; `Accept`,
`HandleRegister` and `HandleLoopExit` are `ListenTcpGate`, `handleMsg` and the exit branch of
`handleLoop`. Both sides delete by server id, as the code does, not by connection.

Abstractions: one gate and one back-end server (the maps are by server id and the entries of
others are independent); pings are not messages of the model, but a link that is registered and
not cut hears one every twenty seconds, so only a cut, a close or a crash ends a read; a process
that crashes is back at once; a connection attempt that fails is one that is not made. Client
traffic over the link is left out, also what overtakes the registration, since
`mapBackEndServer` is set before `Run` (`gateApp.go:208`).

## 3. Runs

| run | instance | checks |
|---|---|---|
| `room_round` | 2 users, 2 seats, all messages of the game, four cards and then one | `TypeOK`, `EnoughCards`, `BetsComplete` |
| `room_membership` | 2 users, 2 seats, two messages under way and room for one, all that moves people, one redis key out of date at a time | `SeatsAgree`, `NoGhostSeats`, `PreparedAreSeated`, `SeatKept`, `PointerKept` |
| `room_live` | 2 users, fair goroutines, no symmetry | `RefinesRound`, `RoundEnds`, `DropoutCleared` |
| `gold_books` | 3 users with 4 gold or a debt of 1, 2 rooms that settle at once, a stake of 3, 2 settlements, 1 fault | `TypeOK`, `Solvent`, `NoGoldMade`, `BooksAgree` |
| `cards` | all pairs of hands of five heaps of ten cards, all options, shows at any time | `ShownIsSettled`, `OrderDecides`, `SpecialIsBest`, `TriplesAgree` |
| `self_build` | 2 users with 2 objects each, one room of 2 seats and 2 rounds, all modes | `TypeOK`, `OnePlace`, `AllRoundsPlayed` |
| `bad_deleted` | the same | violates `DeletedIsEmpty` |
| `lobby_login` | 1 user, 2 connections, 2 workers, 2 objects, a wheel of 2 slots | `TypeOK`, `SlotsInSync`, `RouteLive`, `SilentRemoved` |
| `accounts` | 2 users, 2 workers, 4 numbers, 2 faults | `OneUidEach`, `AccountFound` |
| `connection` | 2 senders, 1 closer, channels of 2 and 1, 5 messages out and 2 in | `NoPanic`, `ImplementsPipe`, `TakenArrives`, `CloseEndsLoops`, `LoopsEndTogether` |
| `gate` | 2 connections of one user, 5 requests, 2 messages under way | `AdmissionOrder`, `BoundIsKnown`, `GoneIsHeard` |
| `links` | 3 links, 3 faults | `EntriesLive`, `PingedIsRegistered`, `LinkRestored` |

**Bounds.** In the room, `MaxInFlight` limits the messages under way at once and is the only limit
on what clients do. With one message under way the message still waits twice, for the player and
for the room, and ticks pass meanwhile: this is where the races of the first item of section 1
are. Two under way (`room_membership`) add a message queued behind another of the same user; two
users for two seats still take each other's seats, since a seat is lost at the start of a round
and taken again. `MaxWait` is the longest wait of the instance: more waiting changes no test,
since each compares with at most that. The waits of the code (3, 1, 5, 6, 7 and 1 seconds) become
1 or 2 ticks: 1 where the code waits for time only, 2 where it may also go on early, and `MaxGap =
1` then reaches both. `MaxHand = 6` means more than five cards; `room_membership`, which says
nothing of cards, stops counting at five, as a user who leaves in mid-round keeps his hand and the
counts would only multiply the states. `HeapSize` is `5 * SeatNum`, tighter than the code's 52 for
10 seats. `RobRates` and `BetRates` have one member: the runs' properties do not depend on the
amount, and the choice among equal bids, or among those who did not bid, stays. All the queues
have capacity 1. With one message under way none is full when a message is posted; in
`room_membership` they are, and an enter is dropped after the object was made to point at the room
(`room.go:218`). What two messages in the room's channel at once would add, the theorems cover,
which hold for any capacity. `MaxStale` bounds the redis keys that are out of date at the same
time: 1 in `room_membership`, where a key out of date takes the place of one message under way,
and 0 in the two other runs, whose properties are not about redis.

In `gold_books` users start with 4 gold or with a debt of 1. Players who cannot pay the stake,
bankers ruined by one or two winners, with equal and unequal wins, and bankers whose debt is
shared out all occur in one settlement. `MaxRounds` bounds the settlements: two are what it takes
to overlap, and one after another they let the second start from what the first has left, faults
included. `Precision = 8` lets the shares be rounded up as well as down, which with the gold of
this instance the code's precision would not. `MaxFaults` bounds crashes, failed commits and failed
writes together, since each may leave gold in one book that the other no longer has; failed
readings and void transactions are not bounded. More settlements, rooms, gold and faults are the
theorems' part.

The five heaps of `cards` hold bombs and the five small cards; hulus; sequences, straight flushes
and pictures, the highest sequence against itself and against the one below; points with and
without a triple. Every type and every tie of two types that a pair of hands can have is dealt
from one of them. `self_build` has one room because two rooms, with their queues, are out of reach;
what a second room does to the first, an object with the seat index of another room, is in the
theorems, which hold for any number of rooms. The wheel of `lobby_login` has two slots so that the
slot just passed and the next differ, and a user is silent after two ticks, one turn of it. Its one
user logs in over both connections, so nobody else comes over one; a second user is in the
theorems. Four numbers in `accounts` are two accounts, so that the set is empty at a restart and
filled with numbers in use; two faults are a crash or lost write at the first user and at the
second. In `connection` a channel of 2 is full, drained and overtaken by `Close` with 5 messages.
In `gate` two connections are what a double login needs. Five requests are two logins, two enters
or builds and one more of any kind, which is enough for a kick, a build without one and a leave on
top of either; `MaxInFlight = 2` limits only when a client may ask, what the servers send to one
another then is not limited, and it takes two requests under way for them to overtake each other.
In `links` three faults break a link, and its replacement, and the replacement of that; a link
is used again when both ends have forgotten it, so their number limits only how many exist at once.

`self_build` and `connection` do not check for deadlock: when all bounds are used up, or the
connection is closed and drained, the system may stop; likewise `gold_books` after its last
settlement, `gate` when both connections are gone, and `links` when gate and server are linked and
no fault is left.

**Fairness.** `NiuniuRoom`: weak, to the ticks and, user by user, to the player's goroutine and
to the room's handling of messages; Go's `select` chooses at random among channels that are
ready, so neither the ticker's channel nor the message channel is passed over for ever. Nothing
is assumed of clients, of the dispatcher or of the outcome of `SettleRound`. `LobbyLogin`: weak,
to the ticker alone; workers and clients may stop. `Connection`: weak to `sendLoop`, to those in
`Send` and to giving the lock back; strong to `recvLoop`, whose `Close` waits for a lock that
readers take again and again, since Go's `RWMutex` lets no new reader in once a writer waits.
`ReadingSpec` adds a peer that reads. `GateSession`: weak to each goroutine of gate, lobby and
niuniu server; none to clients, to expiry or to objects that are registered no longer, which may
have been closed. `GateLink`: weak to each end
of each link (a read does time out) and to `keepAliveForBackEndSrv`, which tries every ten
seconds; faults are bounded, so after the last the system is left alone.

What the passing runs show.

* *Room.* `SeatsAgree` is the comment at `room.go:71` made precise: a user is removed in four
  places and from every status, and every copy of the seat follows. `SeatKept` is what a player
  can count on: a seat is lost for a reason the player gave. `EnoughCards` and `BetsComplete` are
  what settlement needs. `NoGhostSeats`: a seat that the lobby is shown as taken by somebody who
  is not on it is one whose key's last call was lost; none of the five places that empty seats
  forgets a key or deletes that of another seat, although the seat is read from the player object.
  `PointerKept` bounds what a re-entry can break: the object may be without a room that still
  holds the user; the other way round, a pointer at a room that does not have the user takes the
  drop of the user's own enter. `RoundEnds` and `DropoutCleared` hold without any message from a
  client. `RefinesRound` adds that no one joins a round that has started and that it is settled
  exactly once.
* *Gold.* `Solvent` is rule 2.1 of `settlement.go` over any number of rounds, in which rooms
  write between the two readings of each other and faults lose writes. It excepts users who were
  in two settlements at once and those who settled with a banker in debt: there the code does run
  into debt (section 5). `NoGoldMade` holds for the float32 division as long as the banker has
  less than `Precision`; beyond, the shares may be rounded up to more than there is. It is about
  the gold that one settlement adds to what it has read, since what another room wrote in between
  is overwritten by it. `BooksAgree` says what faults and overlaps cost: only users of a lost
  write, or of a commit that came between another room's commit and its write, have two different
  amounts, and their next settlement that has them to itself and gets through ends it; the amount
  that survives is redis's.
* *Cards.* The comparison agrees with the order the comments state (`OrderDecides`): no two
  hands both win and none tie. The first of the seven special tests that succeeds is also the
  highest type (`SpecialIsBest`), and the choice of the triple does not matter
  (`TriplesAgree`). `ShownIsSettled`: gold moves by the types the table has seen, except
  that of a player who asks to show before the last deal and not again; the banker's hand is
  shown complete whenever the banker asks.
* *Self-built rooms.* `OnePlace` holds although users have objects in rooms they have left;
  `AllRoundsPlayed` whoever comes and goes, in the fast mode too.
* *Login.* Wheel and maps agree (`SlotsInSync`) and a registered user can be reached
  (`RouteLive`), though workers rebind the same object at once and closed objects may be
  registered again; the exception, a connection over which another user has logged in too, is one
  the code lets happen (section 5). The wheel removes a silent user unless logins keep moving the
  user to the slot that has just passed (`SilentRemoved`). What does not hold is that the three
  maps have one size (section 5).
* *Accounts.* Not the lock, which any worker may delete, but mysql's unique columns keep two
  workers from creating an account twice (`OneUidEach`, and its mutant). `AccountFound`: only a
  fault between commit and second write leaves an account that the next login does not find.
* *Connection.* `ImplementsPipe`: in order, without gaps, emptied after `Close`. The liveness
  properties are the comments at `connection.go:105` and `:203`, for a peer that reads.
* *Gate.* `AdmissionOrder`: with two connections of one user that enter or build, the one the
  lobby admitted last plays. `BoundIsKnown`: another one stays bound only if an object was left
  on it without a kick, which an enter that takes an object over never does. Two bound
  connections do occur that way (section 5). `GoneIsHeard` is limited to a quiet moment on
  purpose: a client that goes away before it is bound is not heard of, and only the registered
  one of two objects is put offline.
* *Links.* Deleting by server id is harmless because `storeGate` refuses and
  `keepAliveForBackEndSrv` waits until the old entry is gone (`EntriesLive`); and a gate whose old
  link the server has not noticed to be dead is refused, tries again and gets in (`LinkRestored`).

`bad_deleted`: the comment at `roomLogic.go:66` says that a self-built room is deleted after all
its players and onlookers have left. The test looks at the players of a round and the
bystanders. Between rounds the seated are neither, so the room is deleted when the only
bystander leaves: the owner sits in a room that gets no ticks.

## 4. Proofs

Every theorem is proved from the module's named assumptions on the constants alone, so for any
numbers of users, connections, seats, workers, rooms and any capacities. The assumptions say
of what kind each constant is, that the values that stand for "nobody" are no users or connections,
that a deal has ten different cards, and that the heap has five cards for each seat (52 for 10
seats in the code); none says what a client may do or how much fits where. With these theorems
every invariant that a passing run checks is proved.

| module | theorem | states |
|---|---|---|
| `NiuniuRoomProofs` | `TypeCorrect` | `Spec => []TypeOK` |
| | `SeatsAlwaysAgree`, `GhostsAreStale`, `PreparedAlwaysSeated` | `SeatsAgree`, `NoGhostSeats`, `PreparedAreSeated` always |
| | `SeatAlwaysKept` | `Spec => SeatKept` |
| | `BetsAlwaysComplete` | `Spec => []BetsComplete` |
| | `AlwaysEnoughCards` | `Spec => []EnoughCards` |
| | `RoomImplementsRound` | `Spec => RoundSafety`, the safety part of `RefinesRound` |
| | `PointerAlwaysKept` | `Spec => PointerKept`, for channels of any size |
| `SettlementProofs` | `TypesHold`, `AlwaysSolvent`, `BooksAlwaysAgree` | `TypeOK`, `Solvent`, `BooksAgree` always |
| | `GoldNeverMade` | `Spec => []NoGoldMade` |
| `NiuniuHandsProofs` | `TriplesAlwaysAgree`, `SpecialAlwaysBest`, `ShownAlwaysSettled` | `TriplesAgree`, `SpecialIsBest`, `ShownIsSettled` always, for all deals |
| | `OrderAlwaysDecides` | `OrderDecides` always, for all deals |
| `SelfBuildRoomProofs` | `TypeCorrect`, `RoundsCounted`, `OnePlaceOnly` | `TypeOK`, `AllRoundsPlayed`, `OnePlace` always |
| `LobbyLoginProofs` | `TypeCorrect`, `WheelInSync`, `RoutesLive` | `TypeOK`, `SlotsInSync`, `RouteLive` always |
| `AccountsProofs` | `TypeCorrect`, `OneUid`, `AccountIsFound` | `TypeOK`, `OneUidEach`, `AccountFound` always |
| `ConnectionProofs` | `NeverPanics` | `Spec => []NoPanic` |
| | `Implements` | `Spec => ImplementsPipe`, the whole of it |
| | `EntriesStayLive`, `PingsAreRegistered` | `EntriesLive`, `PingedIsRegistered` of `GateLink` always |
| `GateSessionProofs` | `AdmissionKept` | `Spec => []AdmissionOrder` |
| | `BoundAlwaysKnown` | `Spec => []BoundIsKnown` |

*Room.* The three facts about the table are proved together as `TableInv`, with `RedisAsSeated` for
redis: the keys hold what the room has, but where the last call was lost. None is inductive
alone: `ForgetRedisSeats` deletes the key of the seat the object remembers, which is the seat the
room empties only by `SeatsAgree`; and a prepared user is in a seat after `VacateSeats` only
if no other user remembered that seat. All the steps that unseat users (leave, start of a
round, end of a round) go through one lemma, `UnseatingKeepsTable`. `SeatKept` and
`RoundSafety` are then step by step facts; the latter needs `RoundInv`, that outside a round
no one plays, nothing is settled, and there are no results before the settlement. `EnoughCards`
needs `CardsInv`, what the heap and the hands hold between the two deals of a round, and that
seats, hence users dealt to, are no more than `SeatNum` (`SeatedAreFew`, from `SeatsAgree`: the
seat index is an injection).

`PointerStep` shows of each step that an honest pointer stays honest unless the user's own enter
is dropped. It needs `TableInv`: the room's answer to an enter makes the user a member before the
message is gone, and whatever removes a member from the room clears the pointer with it.

*Settlement.* `Solvent` is carried through a settlement by `SolventInv`, which speaks of the users
who are not `exposed`: no other room settles such a user, so the first reading is still what redis
holds, the result is no loss of more than that, and no entry to be committed is negative. It does
not depend on how the shares are rounded, only on the banker having no debt. `BooksInv` adds that
what is unwritten is what the database holds, and that one room only has it to write, unless a
write was lost or overtaken; a commit that would make it two puts the user into `apart`.

`NoGoldMade` needs `GoldInv`: once `calcWinOrLose` is through, the sum of all results is not
positive, whether the banker paid in full, the banker's result cancelling the others', or the
winners shared what the banker had. The shares are each rounded up by less than one part in
`Precision`, so together they exceed the banker's gold by less than one, which as whole numbers
they then do not (`SharesFit`, `SharesPaid`); this is where the banker's gold being less than
`Precision` is used. The fee only takes (`FeeTakes`), and what other rooms do in between touches
no result. The laws of `SumOver` come first: the sum does not depend on the order in which
`CHOOSE` takes the elements, is additive, monotone, and splits over a part and the rest. They are
shown by induction over the parts of a finite set in first-order form (`SubsetInduction`: a
counterexample of least cardinality, from `WFMin`), which avoids the library's rules with an
operator parameter.

*Hands.* Taking off a sum that is a multiple of ten leaves the last digit, so every triple gives
the points of all five cards (`TriplesAgree`). `SpecialIsBest` goes through the seven tests one by
one. `ShownIsSettled` is inductive with `TypesShown`: whichever of the three places shows a
complete hand computes its type from the same five cards and the same options, nothing shown before
the last deal counts as complete, and the banker is shown after it before the settlement is
reached. `OrderDecides` needs that the ten
cards dealt are different (`Apart`) and nothing else of the deck. With types that differ the
higher wins. With equal types up to niu the highest cards decide, and they differ (`CompareTops`).
Types above niu come from the special tests only, as the comparisons by points never exceed niu
(`NormalRange`, `ShunRange`, `KanRange`). Two bombs of one number, or two hulus of three aces,
would need more cards of one number than the four there are (`NotBothThree`). The highest sequence
has one ace, so the first ace, whose colour `compareSeq` takes, is also the highest (`OneAce`);
other sequences and hulus go by their tops.

*Self-built rooms.* `CountInv` is the types, that a connected user has an object, and
`AllRoundsPlayed`; a count within its bound and the count's meaning in each status depend on each
other. `OnePlace` is inductive with the types, by users instead of objects: a seat is given
only to a user who is a bystander, and whoever sits down stops being one under every object.

*Login.* `IInv` adds `Owned`: where a user meets a connection (in the map, in the object he
is registered with, in a worker that serves him), he has logged in over it; and `ObjectsApart`: a
player object is one user's. `RouteLive` is not inductive without them: the entry a worker deletes
belongs to the connection it read some steps ago, which by then could be another user's. If it
is, that other user has come over the same connection, which is the exception.

*Accounts.* `IInv` follows a login through its calls. `DrawnOnce`: what workers have drawn from the
set is no longer in it, and no two have drawn the same, which a crash does not disturb because it
ends all logins of the process. `OneUserPerUid` is mysql's unique column, extended to the workers
that are still to write redis. `HeldIsStored` and `FoundAgain` say, of the users no fault has
touched (`apart`), that every copy of the uid is mysql's and that redis has the account under it;
they hold between the two writes only for the worker that is there, hence by program counter.

*Connection.* `IInv` is `NoPanic`, the types and the bound on messages. The implementation is by
cases on the steps; the abstract queue is `out`, the message in `sendLoop`'s hands and the channel,
so taking and writing are stutters.

*Gate.* `AdmissionOrder` is inductive with the types and the fact that a message in the inbox has
an object; the work is in lemmas on the newest enter or build of a queue to which a message is
added or from which one is taken. `BoundIsKnown` speaks of quiet links; `BoundIsHeard` says what
is true when they are not: for a connection that the gate has bound, an enter or build is in the
gate's hands or in the link, or the player object is on it, or one was left there, or its kick is
on the way.

*Links.* `LinkInv` adds `ToldIsRegistered`: a link with a success under way or handled is the
registered one until the server's loop on it ends. `PingedIsRegistered` alone does not survive the
answer's way back.

Only model-checked: everything about liveness, which is out of the prover's reach, and nothing
else. These are `RoundEnds`, `DropoutCleared`, `SilentRemoved`, `TakenArrives`, `CloseEndsLoops`,
`LoopsEndTogether`, `GoneIsHeard`, `LinkRestored` and, of `RefinesRound`, the
fairness of `NiuniuRound`; its initial states and steps are `RoomImplementsRound`.

## 5. Where code and comments differ, what is not modelled, and what is left

Met while modelling and read from the code; but for `bad_deleted` no run of the project shows
them, and a passing property is stated so that it holds in spite of them:

* `running.go:101`: the test for too few players asks for a length that is 1 and 0, so a
  round starts with one player or none.
* `roomLogic.go:100`: a disconnect that was legal when the player's goroutine looked is handled
  when the user plays; the comment says it never is.
* `playerLogic.go:127`: disconnect, enter and disconnect while idle leave a bystander whom no
  message will remove: the re-enter is queued behind the first disconnect, and the object has
  no room when the second comes.
* `running.go:185`: "all have bet" counts map entries, and a bet of the later banker, or of a
  seated user who is not in the round, is one.
* `settlement.go:21`: rule 1 caps wins by the gold one has; the code caps losses only.
* `settlement.go:22`: rule 2.1, nobody loses more than he has, holds for one settlement. Two rooms
  that settle the same user at once both cap his loss by the 4 gold they have read; one takes 3
  and writes 1, the other reads that 1 at line 91, takes its 3 as well and writes -2. A banker
  with a debt who is ruined shares it out among the winners as losses. Without the exception of
  `exposed` TLC finds the first in 16 steps.
* `settlement.go:119`: two rooms that commit one after the other and write redis in the other order
  leave the older gold in redis, with no call failing. Without that part of `apart` TLC finds it in
  15 steps.
* `settlement.go:82`: a failed second reading (line 91) leaves nothing to pay, and nothing to pay
  is reported as success.
* `settlement.go:84`: "all or nothing", but `b` is set before the commit (line 128), whose error
  is dropped (line 119).
* `roomLogic.go:226`: a show is accepted in any status. A player who asks before the last deal is
  shown with no cards or four and a type of 0, the timeout passes him over (`showCard.go:16`), and
  the settlement counts his five cards.
* `kanShun.go:54`: without three of a kind `Kan` returns niu together with false, and the
  callers look at the type: with this option every such hand counts as niu at least.
* `baseServer.go:129`: the sizes of the three maps differ whenever a user was stored over two
  connections without the older being named, as two logins that both create an object do.
* `login.go:59`: nothing keeps a connection from logging in as a second user. `StorePlayer`
  overwrites its entry in `mapConnid`, and what comes over it is the second user's from then on,
  or nobody's once either of them has expired or moved. With two users and without the exception
  of `RouteLive` TLC finds it in 12 steps.
* `dispatchMsg.go:114`: a build registers another object and kicks nobody, and an object that
  expires is not kicked either: two connections of one user may be bound to the niuniu server at
  once. Without the exception of `abandoned` TLC finds it in 21 steps.
* `settlement.go:56`: a room whose game is over takes no message any more, while objects still
  point at it: who enters again gets no answer.
* `connection.go:203`: `Close` ends both loops, except when the peer reads nothing: the write in
  `socket.go:99` has no deadline, and `sendLoop` waits in it.
* `client.go:41`: `Kick` closes the connection only if `kick` is set, and nothing else sets it: a
  kicked client stays connected and is out of the map.
* `backEndServer.go:133`: a leave that is answered late clears the binding that a newer enter on
  the same connection has made.
* `client.go:19`: `gameServerId` is 0 when the user is not playing; a user whom the end of a
  round removes, offline, stays bound, and so does one whose room is gone.
* `client.go:117`: a client that goes away before it is bound is reported to no game server, and
  the user it was about to enter as stays online there.
* `login.go:95`: the lock that protects a login is deleted by whoever was refused it.
* `lobby-server/logic/Init.go:17` registers the handler of another message for an invite code,
  so `playerInputInvitecode.go` is never called.

Not modelled:

* *Generated code.* The protocol definitions (`*.pb.go`, 24008 of the 32120 lines of Go) have no
  behaviour of their own; they are mapped only where a definition lists their values. The
  hand-written code is about a quarter of the lines, so a share of all lines stays small however
  much of it is modelled.
* *The lobby's requests* that read redis and reply (lists of rooms, configuration, gold, who sits
  where): they change nothing that another part reads. Invite codes: not reachable (above).
* *The second time wheel* that a niuniu server gets with every room built (`playerLogic.go:156`),
  on the counter of the first (`baseServer.go:25`).
* *The inbox of the lobby's player object*, whose `Handle` keeps its read lock when the object is
  closed (`lobby-server/player/player.go:109`).
* *Data races* (`IsPlaying`, `room.go:614`; the two writes of `SetRoomId`, `player.go:297`).
* Logging, configuration files, the layout of packets, the robot, helpers without state.

Left, the most useful first: registry and room in one model, so that an object expires while
its user sits in a room; two self-built rooms in one run; client traffic over a link that is not
registered yet; liveness of self-built rooms.
