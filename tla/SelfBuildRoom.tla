----------------------------- MODULE SelfBuildRoom -----------------------------
(***************************************************************************)
(* The rooms users build for themselves, and who is in them: creation, the *)
(* seat the owner is given, the count of rounds, the fast mode, deletion   *)
(* by the last to leave and the end of the game.                           *)
(*                                                                         *)
(* Each request to build a room makes a new player object, whatever the    *)
(* user has already, and a room is built by such an object: objects are    *)
(* numbered per user, the newest is the one the dispatcher finds, and a    *)
(* room is named after the object that built it.                           *)
(*                                                                         *)
(* The bids, bets and cards of a round are those of NiuniuRoom; here they  *)
(* are one step, PlayRound, and a tick is one at which the wait of the     *)
(* room's status is over (those that come earlier change nothing).         *)
(***************************************************************************)
EXTENDS Integers, Sequences, FiniteSets

CONSTANTS
  Uids,               \* the users
  None,               \* nil: no room, no client
  SeatNum,            \* req.PlayerNumber; 4 to 10 in the code
  TotalNumberOfGame,  \* rounds of a game; 2 in the code
  Modes,              \* what may be asked for: [faster, joinLate : BOOLEAN]
  RoomCap,            \* capacity of room.chanClientAndMsg; 100 in the code
  PlayerCap,          \* capacity of player.chanConnData; 200 in the code
  TimerCap,           \* capacity of room.chanTimer; 10 in the code
  MaxObjects,         \* bound: player objects made for one user
  MaxRooms,           \* bound: rooms built; beyond it building fails
  MaxInFlight         \* bound: messages queued when a client sends another

ASSUME SelfBuildAssumption ==
  /\ IsFiniteSet(Uids)
  /\ SeatNum \in Nat \ {0} /\ TotalNumberOfGame \in Nat \ {0}
  /\ Modes \subseteq [faster : BOOLEAN, joinLate : BOOLEAN] /\ Modes # {}
  /\ RoomCap \in Nat \ {0} /\ PlayerCap \in Nat \ {0} /\ TimerCap \in Nat \ {0}
  /\ MaxObjects \in Nat \ {0} /\ MaxRooms \in Nat /\ MaxInFlight \in Nat
  /\ None \notin Uids \X (1 .. MaxObjects)

Objects == Uids \X (1 .. MaxObjects)
Rooms   == Objects
SeatIdx == 0 .. SeatNum - 1
Uid(o)  == o[1]
UidsOf(S) == {Uid(o) : o \in S}

Statuses == {"Unbuilt", "Ready", "CountDown", "Game", "Settle", "GameOver"}
RoomMsgIds == {"Create", "Enter", "Leave", "Disconnect", "HaveASeat", "Ready"}
RoomMsg   == [from : Objects, id : RoomMsgIds]
PlayerMsg == [id : {"Create", "EnterOwn", "Enter", "Leave", "Disconnect"},
              room : Rooms \cup {None}]

VARIABLES
  made, connected,                          \* the dispatcher
  room, seatIndex, prepare, offline,        \* the player objects
  chanConnData,
  mapRoom,                                  \* the rooms that are found and get ticks
  mode, roomStatus, numberOfGame, seat, mapBystanders, mapPlayers,
  chanClientAndMsg, chanTimer

dispatchVars == <<made, connected>>
playerVars   == <<room, seatIndex, prepare, offline>>
tableVars    == <<seat, mapBystanders, mapPlayers>>
gameVars     == <<mode, roomStatus, numberOfGame>>
roomVars     == <<mapRoom, gameVars, tableVars>>
chanVars     == <<chanConnData, chanClientAndMsg, chanTimer>>
vars == <<dispatchVars, playerVars, roomVars, chanVars>>

\* FindPlayer: the object stored last for the user.
Player(u) == <<u, made[u]>>
Built == {r \in Rooms : roomStatus[r] # "Unbuilt"}

Seated(r)  == {o \in Objects : \E i \in SeatIdx : seat[r][i] = o}
Members(r) == Seated(r) \cup mapBystanders[r]
Preppers(r) == {o \in Seated(r) : prepare[o]}

InFlight ==
  Cardinality({p \in Objects \X (1 .. PlayerCap) : p[2] <= Len(chanConnData[p[1]])})
  + Cardinality({p \in Rooms \X (1 .. RoomCap) : p[2] <= Len(chanClientAndMsg[p[1]])})

Init ==
  /\ made = [u \in Uids |-> 0] /\ connected = [u \in Uids |-> FALSE]
  /\ room = [o \in Objects |-> None] /\ seatIndex = [o \in Objects |-> -1]
  /\ prepare = [o \in Objects |-> FALSE] /\ offline = [o \in Objects |-> FALSE]
  /\ mapRoom = {} /\ mode = [r \in Rooms |-> None]
  /\ roomStatus = [r \in Rooms |-> "Unbuilt"] /\ numberOfGame = [r \in Rooms |-> 0]
  /\ seat = [r \in Rooms |-> [i \in SeatIdx |-> None]]
  /\ mapBystanders = [r \in Rooms |-> {}] /\ mapPlayers = [r \in Rooms |-> {}]
  /\ chanConnData = [o \in Objects |-> <<>>]
  /\ chanClientAndMsg = [r \in Rooms |-> <<>>] /\ chanTimer = [r \in Rooms |-> 0]

-----------------------------------------------------------------------------
(* Channels: a message that does not fit is dropped.                        *)

PlayerHandle(o, id, r) ==
  chanConnData' = IF Len(chanConnData[o]) < PlayerCap
                  THEN [chanConnData EXCEPT ![o] = Append(@, [id |-> id, room |-> r])]
                  ELSE chanConnData

RoomHandle(r, o, id) ==
  chanClientAndMsg' = IF Len(chanClientAndMsg[r]) < RoomCap
                      THEN [chanClientAndMsg EXCEPT ![r] = Append(@, [from |-> o, id |-> id])]
                      ELSE chanClientAndMsg

-----------------------------------------------------------------------------
(* The dispatcher. A user has one connection at a time.                     *)

\* Always a new object, without looking for the one the user has.
DispatchCreate(u) ==
  /\ InFlight < MaxInFlight /\ made[u] < MaxObjects
  /\ made' = [made EXCEPT ![u] = @ + 1]
  /\ connected' = [connected EXCEPT ![u] = TRUE]
  /\ PlayerHandle(<<u, made[u] + 1>>, "Create", None)
  /\ UNCHANGED <<playerVars, roomVars, chanClientAndMsg, chanTimer>>

DispatchEnter(u, r) ==
  /\ InFlight < MaxInFlight
  /\ connected' = [connected EXCEPT ![u] = TRUE]
  /\ made' = [made EXCEPT ![u] = IF @ = 0 THEN 1 ELSE @]
  /\ offline' = [offline EXCEPT ![<<u, made'[u]>>] = FALSE]
  /\ PlayerHandle(<<u, made'[u]>>, "Enter", r)
  /\ UNCHANGED <<room, seatIndex, prepare, roomVars, chanClientAndMsg, chanTimer>>

DispatchLeave(u) ==
  /\ InFlight < MaxInFlight /\ connected[u]
  /\ PlayerHandle(Player(u), "Leave", None)
  /\ UNCHANGED <<dispatchVars, playerVars, roomVars, chanClientAndMsg, chanTimer>>

DispatchDisconnect(u) ==
  /\ InFlight < MaxInFlight /\ connected[u]
  /\ connected' = [connected EXCEPT ![u] = FALSE]
  /\ PlayerHandle(Player(u), "Disconnect", None)
  /\ UNCHANGED <<made, playerVars, roomVars, chanClientAndMsg, chanTimer>>

DispatchToRoom(u, id) ==
  /\ InFlight < MaxInFlight /\ connected[u] /\ room[Player(u)] # None
  /\ RoomHandle(room[Player(u)], Player(u), id)
  /\ UNCHANGED <<dispatchVars, playerVars, roomVars, chanConnData, chanTimer>>

Dispatch(u) ==
  \/ DispatchCreate(u)
  \/ \E r \in Built : DispatchEnter(u, r)
  \/ DispatchLeave(u)
  \/ DispatchDisconnect(u)
  \/ \E id \in {"HaveASeat", "Ready"} : DispatchToRoom(u, id)

-----------------------------------------------------------------------------
(* What moves people at a table.                                            *)

\* Mutant of Joined: playerInRoom compares the clients and not their uids.
Joined_SameClient(r, o) ==
  IF o \in Members(r) THEN mapBystanders[r] ELSE mapBystanders[r] \cup {o}

\* c2sEnterNiuniuRoom: a bystander, unless there is one of that uid in the room.
Joined(r, o) ==
  IF Uid(o) \in UidsOf(Members(r)) THEN mapBystanders[r] ELSE mapBystanders[r] \cup {o}

\* c2sNiuniuHaveASeat with the given bystanders: the first seat that is free.
FreeSeats(r) == {i \in SeatIdx : seat[r][i] = None}
SitDown(r, o, bystanders) ==
  IF Uid(o) \in UidsOf(bystanders) /\ seatIndex[o] = -1 /\ FreeSeats(r) # {}
  THEN \E i \in FreeSeats(r) :
         /\ \A j \in FreeSeats(r) : i <= j
         /\ seat' = [seat EXCEPT ![r][i] = o]
         /\ seatIndex' = [seatIndex EXCEPT ![o] = i]
         /\ mapBystanders' =
              [mapBystanders EXCEPT ![r] = {b \in bystanders : Uid(b) # Uid(o)}]
  ELSE /\ mapBystanders' = [mapBystanders EXCEPT ![r] = bystanders]
       /\ UNCHANGED <<seat, seatIndex>>

\* removePlayer for the clients S: the seat is the one the object remembers, which
\* may be that of another room, or none.
SeatsWithout(r, S) ==
  [i \in SeatIdx |-> IF \E o \in S : seatIndex[o] = i THEN None ELSE seat[r][i]]
Without(clients, S) == {c \in clients : Uid(c) \notin UidsOf(S)}
ForgetRoom(S) == /\ room' = [o \in Objects |-> IF o \in S THEN None ELSE room[o]]
                 /\ seatIndex' = [o \in Objects |-> IF o \in S THEN -1 ELSE seatIndex[o]]

-----------------------------------------------------------------------------
(* The goroutine of a player object.                                        *)

TakeFromPlayer(o, id) == chanConnData[o] # <<>> /\ Head(chanConnData[o]).id = id
TakenFromPlayer(o) == chanConnData' = [chanConnData EXCEPT ![o] = Tail(@)]

\* C2SSelfBuildRoom up to room.Handle: the owner is put into seat 0 without being
\* told its index, and the room runs. The request is queued for the room as well,
\* which has no handler for it. Building fails with any of redis's four answers.
PlayerCreate(o) ==
  /\ TakeFromPlayer(o, "Create")
  /\ \/ /\ room[o] = None /\ Cardinality(Built) < MaxRooms
        /\ \E m \in Modes : mode' = [mode EXCEPT ![o] = m]
        /\ roomStatus' = [roomStatus EXCEPT ![o] = "Ready"]
        /\ numberOfGame' = [numberOfGame EXCEPT ![o] = 0]
        /\ seat' = [seat EXCEPT ![o] = [i \in SeatIdx |-> IF i = 0 THEN o ELSE None]]
        /\ mapBystanders' = [mapBystanders EXCEPT ![o] = {}]
        /\ mapPlayers' = [mapPlayers EXCEPT ![o] = {}]
        /\ mapRoom' = mapRoom \cup {o}
        /\ room' = [room EXCEPT ![o] = o]
        /\ chanConnData' =
             [chanConnData EXCEPT ![o] = <<[id |-> "EnterOwn", room |-> o]>> \o Tail(@)]
        /\ RoomHandle(o, o, "Create")
     \/ /\ TakenFromPlayer(o)
        /\ UNCHANGED <<room, roomVars, chanClientAndMsg>>
  /\ UNCHANGED <<dispatchVars, seatIndex, prepare, offline, chanTimer>>

\* The rest of it, SelfBuildRoomEnterRoom: two of the room's own handlers, here in
\* the goroutine of the player while the room is running.
PlayerEnterOwn(o) ==
  /\ TakeFromPlayer(o, "EnterOwn") /\ TakenFromPlayer(o)
  /\ SitDown(o, o, Joined(o, o))
  /\ UNCHANGED <<dispatchVars, room, prepare, offline, mapRoom, gameVars, mapPlayers,
                 chanClientAndMsg, chanTimer>>

\* AllowEnterSelfBuildRoomAfterBegin
MayEnter(r) == mode[r].joinLate \/ numberOfGame[r] = 0

PlayerEnter(o) ==
  /\ TakeFromPlayer(o, "Enter") /\ TakenFromPlayer(o)
  /\ LET r == Head(chanConnData[o]).room
     IN IF room[o] = r \/ (room[o] = None /\ r \in mapRoom /\ MayEnter(r))
        THEN room' = [room EXCEPT ![o] = r] /\ RoomHandle(r, o, "Enter")
        ELSE UNCHANGED <<room, chanClientAndMsg>>
  /\ UNCHANGED <<dispatchVars, seatIndex, prepare, offline, roomVars, chanTimer>>

IsPlaying(r, u) == u \in UidsOf(mapPlayers[r])

PlayerLeave(o) ==
  /\ TakeFromPlayer(o, "Leave") /\ TakenFromPlayer(o)
  /\ IF ~offline[o] /\ room[o] # None /\ ~IsPlaying(room[o], Uid(o))
     THEN offline' = [offline EXCEPT ![o] = TRUE] /\ RoomHandle(room[o], o, "Leave")
     ELSE UNCHANGED <<offline, chanClientAndMsg>>
  /\ UNCHANGED <<dispatchVars, room, seatIndex, prepare, roomVars, chanTimer>>

PlayerDisconnect(o) ==
  /\ TakeFromPlayer(o, "Disconnect") /\ TakenFromPlayer(o)
  /\ offline' = [offline EXCEPT ![o] = TRUE]
  /\ IF ~offline[o] /\ room[o] # None /\ ~IsPlaying(room[o], Uid(o))
     THEN RoomHandle(room[o], o, "Disconnect")
     ELSE UNCHANGED chanClientAndMsg
  /\ UNCHANGED <<dispatchVars, room, seatIndex, prepare, roomVars, chanTimer>>

PlayerRun(o) ==
  \/ PlayerCreate(o)
  \/ PlayerEnterOwn(o)
  \/ PlayerEnter(o)
  \/ PlayerLeave(o)
  \/ PlayerDisconnect(o)

-----------------------------------------------------------------------------
(* The goroutine of a room: it runs until the game is over, in mapRoom or   *)
(* not, and looks at the status before each message and each tick.          *)

Runs(r) == roomStatus[r] \notin {"Unbuilt", "GameOver"}

TakeFromRoom(r, o, id) ==
  /\ Runs(r) /\ chanClientAndMsg[r] # <<>>
  /\ Head(chanClientAndMsg[r]) = [from |-> o, id |-> id]
  /\ chanClientAndMsg' = [chanClientAndMsg EXCEPT ![r] = Tail(@)]

RoomIgnores(r, o) ==
  /\ TakeFromRoom(r, o, "Create")
  /\ UNCHANGED <<dispatchVars, playerVars, roomVars, chanConnData, chanTimer>>

RoomEnter(r, o) ==
  /\ TakeFromRoom(r, o, "Enter")
  /\ mapBystanders' = [mapBystanders EXCEPT ![r] = Joined(r, o)]
  /\ UNCHANGED <<dispatchVars, playerVars, mapRoom, gameVars, seat, mapPlayers,
                 chanConnData, chanTimer>>

\* removePlayer, then deleteSelfBuildRoom: without players of a round and without
\* bystanders the room is taken out of mapRoom, whoever is seated.
RoomLeave(r, o) ==
  /\ TakeFromRoom(r, o, "Leave") \/ TakeFromRoom(r, o, "Disconnect")
  /\ seat' = [seat EXCEPT ![r] = SeatsWithout(r, {o})]
  /\ mapPlayers' = [mapPlayers EXCEPT ![r] = Without(@, {o})]
  /\ mapBystanders' = [mapBystanders EXCEPT ![r] = Without(@, {o})]
  /\ ForgetRoom({o})
  /\ prepare' = [prepare EXCEPT ![o] = FALSE]
  /\ mapRoom' = IF mapPlayers'[r] = {} /\ mapBystanders'[r] = {}
                THEN mapRoom \ {r} ELSE mapRoom
  /\ UNCHANGED <<dispatchVars, offline, gameVars, chanConnData, chanTimer>>

RoomHaveASeat(r, o) ==
  /\ TakeFromRoom(r, o, "HaveASeat")
  /\ SitDown(r, o, mapBystanders[r])
  /\ UNCHANGED <<dispatchVars, room, prepare, offline, mapRoom, gameVars, mapPlayers,
                 chanConnData, chanTimer>>

RoomReady(r, o) ==
  /\ TakeFromRoom(r, o, "Ready")
  /\ prepare' = IF roomStatus[r] \in {"Ready", "CountDown"}
                     /\ Uid(o) \in UidsOf(Seated(r))
                THEN [prepare EXCEPT ![o] = TRUE] ELSE prepare
  /\ UNCHANGED <<dispatchVars, room, seatIndex, offline, roomVars, chanConnData, chanTimer>>

RoomTakesMessage(r) ==
  \E o \in Objects :
    \/ RoomIgnores(r, o)
    \/ RoomEnter(r, o)
    \/ RoomLeave(r, o)
    \/ RoomHaveASeat(r, o)
    \/ RoomReady(r, o)

-----------------------------------------------------------------------------
(* The ticks. The timer serves every room in mapRoom; a tick already queued *)
(* is still taken after the room is deleted.                                *)

Timer ==
  /\ \E r \in mapRoom : chanTimer[r] < TimerCap
  /\ chanTimer' = [r \in Rooms |-> IF r \in mapRoom /\ chanTimer[r] < TimerCap
                                   THEN chanTimer[r] + 1 ELSE chanTimer[r]]
  /\ UNCHANGED <<dispatchVars, playerVars, roomVars, chanConnData, chanClientAndMsg>>

ChangeRoomStatus(r, s) == roomStatus' = [roomStatus EXCEPT ![r] = s]

KeepWaiting(r) ==
  /\ roomStatus[r] = "Ready" /\ Cardinality(Preppers(r)) < 2
  /\ UNCHANGED <<playerVars, roomVars>>

StartCountDown(r) ==
  /\ roomStatus[r] = "Ready" /\ Cardinality(Preppers(r)) > 1
  /\ ChangeRoomStatus(r, "CountDown")
  /\ numberOfGame' = [numberOfGame EXCEPT ![r] = @ + 1]
  /\ UNCHANGED <<playerVars, mapRoom, mode, tableVars>>

\* The round starts with whoever is left: the test for too few is never true (see
\* NiuniuRoom). The seated who take no part become bystanders.
StartRound(r) ==
  /\ roomStatus[r] = "CountDown"
  /\ LET starters == Without(mapPlayers[r], Preppers(r)) \cup Preppers(r)
         idle     == Without(Seated(r), starters)
     IN /\ mapPlayers' = [mapPlayers EXCEPT ![r] = starters]
        /\ mapBystanders' = [mapBystanders EXCEPT ![r] = Without(@, idle) \cup idle]
        /\ seat' = [seat EXCEPT ![r] = [i \in SeatIdx |-> IF seat[r][i] \in idle
                                                          THEN None ELSE seat[r][i]]]
        /\ seatIndex' = [o \in Objects |-> IF o \in idle THEN -1 ELSE seatIndex[o]]
  /\ ChangeRoomStatus(r, "Game")
  /\ UNCHANGED <<room, prepare, offline, mapRoom, mode, numberOfGame>>

\* Bids, bets, cards and the settlement, which move nobody.
PlayRound(r) ==
  /\ roomStatus[r] = "Game"
  /\ ChangeRoomStatus(r, "Settle")
  /\ UNCHANGED <<playerVars, mapRoom, mode, numberOfGame, tableVars>>

\* Mutant of HaveNext: the last round is not noticed.
HaveNext_OneMore(r) == numberOfGame[r] <= TotalNumberOfGame

\* Mutant of HaveNext: one round too few.
HaveNext_OneLess(r) == numberOfGame[r] + 1 < TotalNumberOfGame

HaveNext(r) == numberOfGame[r] # TotalNumberOfGame

GameOver(r) ==
  /\ roomStatus[r] = "Settle" /\ ~HaveNext(r)
  /\ ChangeRoomStatus(r, "GameOver")
  /\ mapPlayers' = [mapPlayers EXCEPT ![r] = {}]
  /\ UNCHANGED <<playerVars, mapRoom, mode, numberOfGame, seat, mapBystanders>>

\* The seats clearOfflineClient empties, in order: those of offline clients, unless
\* a client before them has had the seat cleared by remembering its index.
ClearedSeats(r, G) ==
  \A i \in SeatIdx :
    i \in G <=> /\ seat[r][i] # None /\ offline[seat[r][i]]
                /\ \A j \in G : j < i => seatIndex[seat[r][j]] # i

\* reReady, which in the fast mode keeps the players and makes them ready, and then
\* clearOfflineClient. No room is deleted here.
ReReady(r) ==
  /\ roomStatus[r] = "Settle" /\ HaveNext(r)
  /\ ChangeRoomStatus(r, "Ready")
  /\ \E G \in SUBSET SeatIdx :
       /\ ClearedSeats(r, G)
       /\ LET kept == IF mode[r].faster THEN mapPlayers[r] ELSE {}
              gone == {seat[r][i] : i \in G} \cup {b \in mapBystanders[r] : offline[b]}
          IN /\ mapPlayers' = [mapPlayers EXCEPT ![r] = Without(kept, gone)]
             /\ mapBystanders' = [mapBystanders EXCEPT ![r] = Without(@, gone)]
             /\ seat' = [seat EXCEPT ![r] = SeatsWithout(r, gone)]
             /\ ForgetRoom(gone)
             /\ prepare' = [o \in Objects |->
                  /\ o \notin gone
                  /\ o \in kept \/ (prepare[o] /\ o \notin mapPlayers[r])]
  /\ UNCHANGED <<offline, mapRoom, mode, numberOfGame>>

RoomTick(r) ==
  /\ Runs(r) /\ chanTimer[r] > 0
  /\ chanTimer' = [chanTimer EXCEPT ![r] = @ - 1]
  /\ \/ KeepWaiting(r)
     \/ StartCountDown(r)
     \/ StartRound(r)
     \/ PlayRound(r)
     \/ GameOver(r)
     \/ ReReady(r)
  /\ UNCHANGED <<dispatchVars, chanConnData, chanClientAndMsg>>

\* The goroutine finds the game over: it deletes the room and ends.
RoomEnds(r) ==
  /\ roomStatus[r] = "GameOver" /\ r \in mapRoom
  /\ mapRoom' = mapRoom \ {r}
  /\ UNCHANGED <<dispatchVars, playerVars, gameVars, tableVars, chanVars>>

-----------------------------------------------------------------------------
Next ==
  \/ \E u \in Uids : Dispatch(u)
  \/ \E o \in Objects : PlayerRun(o)
  \/ \E r \in Rooms : RoomTakesMessage(r) \/ RoomTick(r) \/ RoomEnds(r)
  \/ Timer

Spec == Init /\ [][Next]_vars

-----------------------------------------------------------------------------
(* Properties.                                                              *)

TypeOK ==
  /\ made \in [Uids -> 0 .. MaxObjects] /\ connected \in [Uids -> BOOLEAN]
  /\ room \in [Objects -> Rooms \cup {None}]
  /\ seatIndex \in [Objects -> {-1} \cup SeatIdx]
  /\ prepare \in [Objects -> BOOLEAN] /\ offline \in [Objects -> BOOLEAN]
  /\ chanConnData \in [Objects -> Seq(PlayerMsg)]
  /\ mapRoom \subseteq Rooms /\ mode \in [Rooms -> Modes \cup {None}]
  /\ roomStatus \in [Rooms -> Statuses]
  /\ numberOfGame \in [Rooms -> 0 .. TotalNumberOfGame]
  /\ seat \in [Rooms -> [SeatIdx -> Objects \cup {None}]]
  /\ mapBystanders \in [Rooms -> SUBSET Objects]
  /\ mapPlayers \in [Rooms -> SUBSET Objects]
  /\ chanClientAndMsg \in [Rooms -> Seq(RoomMsg)]
  /\ chanTimer \in [Rooms -> 0 .. TimerCap]

\* room.go:71: although a user may have several player objects, some of them in
\* rooms they have left, a room has a user on one seat or among the bystanders, once.
OnePlace ==
  \A r \in Rooms :
    /\ \A i, j \in SeatIdx :
         seat[r][i] # None /\ seat[r][j] # None /\ Uid(seat[r][i]) = Uid(seat[r][j])
           => i = j
    /\ \A b \in mapBystanders[r] : Uid(b) \notin UidsOf(Seated(r))
    /\ \A b, c \in mapBystanders[r] : Uid(b) = Uid(c) => b = c

\* A game has exactly the rounds agreed on, whoever leaves or comes in between: it is
\* over with the last and not before, and none is counted that has not begun.
AllRoundsPlayed ==
  \A r \in Rooms :
    /\ roomStatus[r] = "GameOver" => numberOfGame[r] = TotalNumberOfGame
    /\ roomStatus[r] = "Ready" => numberOfGame[r] < TotalNumberOfGame
    /\ roomStatus[r] \in {"CountDown", "Game", "Settle"} => numberOfGame[r] > 0

-----------------------------------------------------------------------------
(* What comments in the code say and the code does not do.                  *)

\* roomLogic.go:66: a room is deleted when everyone, players and bystanders, has left.
DeletedIsEmpty ==
  \A r \in Built \ mapRoom : \A o \in Objects : room[o] # r
=============================================================================
