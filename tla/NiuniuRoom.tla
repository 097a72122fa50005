------------------------------ MODULE NiuniuRoom ------------------------------
(***************************************************************************)
(* One public room of niuniu-server, with the player objects that enter it *)
(* and the goroutines that work on them:                                   *)
(*                                                                         *)
(*   dispatcher   one goroutine per gate connection; it looks the player   *)
(*                up and queues the message (dispatchMsg.go)               *)
(*   player       one goroutine per player object; it takes enter, leave   *)
(*                and disconnect out of the player's inbox and, when they  *)
(*                are legal, queues them for the room (playerLogic.go)     *)
(*   room         one goroutine per room; it takes client messages and     *)
(*                timer ticks in any order (running.go, roomLogic.go)      *)
(*                                                                         *)
(* Both kinds of queue are bounded channels: a message that finds its      *)
(* channel full is dropped.                                                *)
(***************************************************************************)
EXTENDS Integers, Sequences, FiniteSets

CONSTANTS
  Uids,          \* the users; each has one player object for its whole life here
  Nobody,        \* the nil client of an empty seat, and banker id 0
  SeatNum,       \* len(room.seat); 10 in every public room
  RoomCap,       \* capacity of room.chanClientAndMsg; 100 in the code
  PlayerCap,     \* capacity of player.chanConnData; 200 in the code
  HeapSize,      \* cards in a fresh heap; 52 in the code
  KnownCard,     \* cfg.KnownCard: four cards before the bids, or five after the bets
  RobRates,      \* keys of cfg.MapRobZhuangRate; {1, 2, 4, 8} in a public room
  BetRates,      \* keys of cfg.MapBetRate
  Bet1,          \* the bet placed for a player who places none
  MapWaitTime,   \* seconds each room status lasts
  MaxWait,       \* bound: waited saturates here
  MaxGap,        \* bound: seconds between two ticks the room takes
  MaxHand,       \* bound: a hand saturates here; above 5, "more than five cards"
  MaxStale,      \* bound: redis keys that are out of date at once
  MaxInFlight,   \* bound: messages queued at once, and keys out of date, together
  Requests       \* the message ids the clients of this instance send

Statuses == {"Ready", "CountDown", "RobZhuang", "Bet", "Play", "Settle"}
InRound  == {"RobZhuang", "Bet", "Play", "Settle"}

\* Messages the dispatcher routes through the player's inbox, and those it
\* hands to the room at once.
PlayerMsgs == {"Enter", "Leave", "Disconnect"}
TableMsgs  == {"HaveASeat", "Ready", "RobZhuang", "Bet", "ShowCard"}

ASSUME RoomAssumption ==
  /\ IsFiniteSet(Uids) /\ Nobody \notin Uids
  /\ SeatNum \in Nat \ {0}
  /\ RoomCap \in Nat \ {0} /\ PlayerCap \in Nat \ {0} /\ MaxInFlight \in Nat \ {0}
  /\ MaxStale \in Nat
  /\ HeapSize \in Nat /\ HeapSize >= 5 * SeatNum
  /\ KnownCard \in BOOLEAN
  /\ RobRates \subseteq Nat \ {0} /\ BetRates \subseteq Nat \ {0} /\ Bet1 \in BetRates
  /\ MapWaitTime \in [Statuses -> Nat]
  /\ MaxWait \in Nat /\ \A s \in Statuses : MapWaitTime[s] <= MaxWait
  /\ MaxGap \in Nat \ {0}
  /\ MaxHand \in Nat /\ MaxHand >= 5
  /\ Requests \subseteq PlayerMsgs \cup TableMsgs

SeatIdx == 0 .. SeatNum - 1
RoomMsg == [from : Uids, id : PlayerMsgs \cup TableMsgs, rate : Nat]

VARIABLES
  \* the room
  roomStatus, waited,        \* waited = timestamp - roomStatusTimestamp
  seat, mapBystanders, mapPlayers,
  bankerId, mapRobZhuang, mapBet, mapShowCard,   \* rate 0: no entry in the map
  settled, broadcastBankerCards, mapWinOrLose,   \* mapWinOrLose: the uids it has
  cardHeap,                  \* number of cards left
  \* the player objects
  seatIndex, prepare, offline, inRoom, handCards,
  \* the channels, and which users have a live connection at the dispatcher
  connected, chanConnData, chanClientAndMsg,
  \* redis: niuniu_player_in_room:<room>:niuniu_seat_index:<seat> and the users
  \* whose niuniu_player_room_id:<uid> is this room, which the lobby reads
  redisSeat, redisRoomId,
  \* history: the keys on which the last call was lost and left something else
  staleSeat, staleRoomId

clockVars == <<roomStatus, waited>>
redisVars == <<redisSeat, redisRoomId, staleSeat, staleRoomId>>
tableVars == <<seat, mapBystanders, mapPlayers, redisVars>>
roundVars == <<bankerId, mapRobZhuang, mapBet, mapShowCard, settled,
               broadcastBankerCards, mapWinOrLose, cardHeap>>
playerVars == <<seatIndex, prepare, offline, inRoom, handCards>>
chanVars == <<connected, chanConnData, chanClientAndMsg>>
vars == <<clockVars, tableVars, roundVars, playerVars, chanVars>>

Least(a, b) == IF a <= b THEN a ELSE b

Seated  == {u \in Uids : \E i \in SeatIdx : seat[i] = u}
Members == Seated \cup mapBystanders
Preppers == {u \in Seated : prepare[u]}
Bidders == {u \in Uids : mapRobZhuang[u] # 0}
Bettors == {u \in Uids : mapBet[u] # 0}

Init ==
  /\ roomStatus = "Ready" /\ waited = MaxWait    \* roomStatusTimestamp starts at 0
  /\ seat = [i \in SeatIdx |-> Nobody] /\ mapBystanders = {} /\ mapPlayers = {}
  /\ bankerId = Nobody
  /\ mapRobZhuang = [u \in Uids |-> 0] /\ mapBet = [u \in Uids |-> 0]
  /\ mapShowCard = {} /\ mapWinOrLose = {}
  /\ settled = FALSE /\ broadcastBankerCards = FALSE
  /\ cardHeap = HeapSize
  /\ seatIndex = [u \in Uids |-> -1] /\ handCards = [u \in Uids |-> 0]
  /\ prepare = [u \in Uids |-> FALSE] /\ offline = [u \in Uids |-> FALSE]
  /\ inRoom = [u \in Uids |-> FALSE]
  /\ connected = [u \in Uids |-> FALSE]
  /\ chanConnData = [u \in Uids |-> <<>>] /\ chanClientAndMsg = <<>>
  /\ redisSeat = [i \in SeatIdx |-> Nobody] /\ redisRoomId = {}
  /\ staleSeat = {} /\ staleRoomId = {}

-----------------------------------------------------------------------------
(* Channels. Room.Handle and Player.Handle drop what does not fit.          *)

\* Mutant of RoomHandle: the oldest message makes room for the new one.
RoomHandle_DropOldest(u, id, rate) ==
  LET new == Append(chanClientAndMsg, [from |-> u, id |-> id, rate |-> rate])
  IN  chanClientAndMsg' = IF Len(chanClientAndMsg) < RoomCap THEN new ELSE Tail(new)

RoomHandle(u, id, rate) ==
  chanClientAndMsg' = IF Len(chanClientAndMsg) < RoomCap
                      THEN Append(chanClientAndMsg, [from |-> u, id |-> id, rate |-> rate])
                      ELSE chanClientAndMsg

PlayerHandle(u, id) ==
  chanConnData' = IF Len(chanConnData[u]) < PlayerCap
                  THEN [chanConnData EXCEPT ![u] = Append(@, id)]
                  ELSE chanConnData

InFlight ==
  Len(chanClientAndMsg)
    + Cardinality({p \in Uids \X (1 .. PlayerCap) : p[2] <= Len(chanConnData[p[1]])})

Stale == Cardinality(staleSeat) + Cardinality(staleRoomId)

-----------------------------------------------------------------------------
(* The dispatcher, niuniuApp.dispathMsgToPlayer, fed by any client.         *)

\* A first enter makes the player object; a later one, on the same or on a new
\* connection, finds it and puts it online before the message is queued.
DispatchEnter(u) ==
  /\ "Enter" \in Requests /\ InFlight + Stale < MaxInFlight
  /\ connected' = [connected EXCEPT ![u] = TRUE]
  /\ offline' = [offline EXCEPT ![u] = FALSE]
  /\ PlayerHandle(u, "Enter")
  /\ UNCHANGED <<clockVars, tableVars, roundVars, seatIndex, prepare, inRoom,
                 handCards, chanClientAndMsg>>

DispatchLeave(u) ==
  /\ "Leave" \in Requests /\ InFlight + Stale < MaxInFlight
  /\ connected[u]
  /\ PlayerHandle(u, "Leave")
  /\ UNCHANGED <<clockVars, tableVars, roundVars, playerVars, connected, chanClientAndMsg>>

\* The gate's last message for a connection.
DispatchDisconnect(u) ==
  /\ "Disconnect" \in Requests /\ InFlight + Stale < MaxInFlight
  /\ connected[u]
  /\ connected' = [connected EXCEPT ![u] = FALSE]
  /\ PlayerHandle(u, "Disconnect")
  /\ UNCHANGED <<clockVars, tableVars, roundVars, playerVars, chanClientAndMsg>>

\* Every other message goes to the room the player object points at.
DispatchToRoom(u, id, rate) ==
  /\ id \in Requests /\ InFlight + Stale < MaxInFlight
  /\ connected[u] /\ inRoom[u]
  /\ RoomHandle(u, id, rate)
  /\ UNCHANGED <<clockVars, tableVars, roundVars, playerVars, connected, chanConnData>>

Dispatch(u) ==
  \/ DispatchEnter(u)
  \/ DispatchLeave(u)
  \/ DispatchDisconnect(u)
  \/ \E id \in {"HaveASeat", "Ready", "ShowCard"} : DispatchToRoom(u, id, 0)
  \/ \E r \in RobRates : DispatchToRoom(u, "RobZhuang", r)
  \/ \E b \in BetRates : DispatchToRoom(u, "Bet", b)

-----------------------------------------------------------------------------
(* A player's goroutine takes one message out of its inbox. IsPlaying reads *)
(* the room's map while the room goroutine may be writing it.               *)

IsPlaying(u) == u \in mapPlayers

TakeFromPlayer(u, id) ==
  /\ chanConnData[u] # <<>> /\ Head(chanConnData[u]) = id
  /\ chanConnData' = [chanConnData EXCEPT ![u] = Tail(@)]

\* Out of the room: point at it and queue. In it already: a reconnection, queue.
PlayerEnter(u) ==
  /\ TakeFromPlayer(u, "Enter")
  /\ inRoom' = [inRoom EXCEPT ![u] = TRUE]
  /\ RoomHandle(u, "Enter", 0)
  /\ UNCHANGED <<clockVars, tableVars, roundVars, seatIndex, prepare, offline,
                 handCards, connected>>

PlayerLeave(u) ==
  /\ TakeFromPlayer(u, "Leave")
  /\ IF ~offline[u] /\ inRoom[u] /\ ~IsPlaying(u)
     THEN /\ offline' = [offline EXCEPT ![u] = TRUE]
          /\ RoomHandle(u, "Leave", 0)
     ELSE UNCHANGED <<offline, chanClientAndMsg>>
  /\ UNCHANGED <<clockVars, tableVars, roundVars, seatIndex, prepare, inRoom,
                 handCards, connected>>

PlayerDisconnect(u) ==
  /\ TakeFromPlayer(u, "Disconnect")
  /\ offline' = [offline EXCEPT ![u] = TRUE]
  /\ IF ~offline[u] /\ inRoom[u] /\ ~IsPlaying(u)
     THEN RoomHandle(u, "Disconnect", 0)
     ELSE UNCHANGED chanClientAndMsg
  /\ UNCHANGED <<clockVars, tableVars, roundVars, seatIndex, prepare, inRoom,
                 handCards, connected>>

PlayerRun(u) == PlayerEnter(u) \/ PlayerLeave(u) \/ PlayerDisconnect(u)

-----------------------------------------------------------------------------
(* The room's goroutine takes one client message.                           *)

TakeFromRoom(u, id) ==
  /\ chanClientAndMsg # <<>>
  /\ Head(chanClientAndMsg).from = u /\ Head(chanClientAndMsg).id = id
  /\ chanClientAndMsg' = Tail(chanClientAndMsg)

(* The seat in redis. The calls are made one by one and their errors dropped: *)
(* any of them may be lost, whatever becomes of the others. The third key of  *)
(* a seat, niuniu_seat_index:<uid>, is read only by the player object when it *)
(* renews the keys, and is left out with the renewal: a key that expires, or  *)
(* that another room overwrites, no longer says anything of this room.        *)

\* Calls on the keys of the seats at and of the users who. Some do not get through,
\* and the key keeps what it should not.
RedisCalls(at, occupant, who, here) ==
  \E lost \in SUBSET {i \in at : redisSeat[i] # occupant},
     lostIds \in SUBSET {u \in who : (u \in redisRoomId) # here} :
    /\ staleSeat' = (staleSeat \ at) \cup lost
    /\ staleRoomId' = (staleRoomId \ who) \cup lostIds
    /\ Stale' <= MaxStale
    /\ Stale' = 0 \/ InFlight + Stale' <= MaxInFlight
    /\ redisSeat' = [i \in SeatIdx |-> IF i \in at \ lost THEN occupant ELSE redisSeat[i]]
    /\ redisRoomId' = IF here THEN redisRoomId \cup (who \ lostIds)
                              ELSE redisRoomId \ (who \ lostIds)

\* redisOpt.SetNiuniuPlayerRoomIdAndSeatIdx: the key of the seat and that of the user.
RememberRedisSeat(u, i) == RedisCalls({i}, u, {u}, TRUE)

\* A user comes in as a bystander, or is back and found on the seat.
RoomEnter(u) ==
  /\ TakeFromRoom(u, "Enter")
  /\ mapBystanders' = IF u \in Members THEN mapBystanders ELSE mapBystanders \cup {u}
  /\ IF seatIndex[u] > -1
     THEN RememberRedisSeat(u, seatIndex[u])
     ELSE UNCHANGED redisVars
  /\ UNCHANGED <<clockVars, seat, mapPlayers, roundVars, playerVars, connected, chanConnData>>

\* removePlayer for every member of S: the seat cleared is the one the player
\* object remembers, and the hand is not touched.
VacateSeats(S) ==
  seat' = [i \in SeatIdx |-> IF \E u \in S : seatIndex[u] = i THEN Nobody ELSE seat[i]]
\* Mutant of ForgetRedisSeats: the seat index is read when removePlayer has reset it.
ForgetRedisSeats_AfterRemoval(S) == RedisCalls({}, Nobody, S, FALSE)

\* redisOpt.DelNiuniuPlayerRoomIdAndSeatIdx for every member of S: the seat is again
\* the one the player object remembers. A bystander has none (the key of seat
\* uint32(-1) is deleted) but its room id is deleted all the same.
ForgetRedisSeats(S) == RedisCalls({i \in SeatIdx : \E u \in S : seatIndex[u] = i}, Nobody, S, FALSE)

\* Mutant of StandUp: the seat index is set to one past the table, not to -1.
StandUp_PastTable(S) == seatIndex' = [u \in Uids |-> IF u \in S THEN SeatNum ELSE seatIndex[u]]

\* Mutant of StandUp: the player object keeps its old seat index.
StandUp_Forgotten(S) == seatIndex' = seatIndex

StandUp(S) == seatIndex' = [u \in Uids |-> IF u \in S THEN -1 ELSE seatIndex[u]]

\* Mutant of UnPrepare: only those who leave unseated are reset.
UnPrepare_Unseated(S) ==
  prepare' = [u \in Uids |-> prepare[u] /\ ~(u \in S /\ seatIndex[u] = -1)]

UnPrepare(S) == prepare' = [u \in Uids |-> prepare[u] /\ u \notin S]

\* Mutant of LeaveRoom: SetRoomId(0, nil) is forgotten.
LeaveRoom_Forgotten(S) == inRoom' = inRoom

LeaveRoom(S) == inRoom' = [u \in Uids |-> inRoom[u] /\ u \notin S]

\* Leave and disconnect: removed whatever the status, wherever the player is.
RoomLeave(u) ==
  /\ TakeFromRoom(u, "Leave") \/ TakeFromRoom(u, "Disconnect")
  /\ VacateSeats({u}) /\ ForgetRedisSeats({u})
  /\ StandUp({u}) /\ UnPrepare({u}) /\ LeaveRoom({u})
  /\ mapPlayers' = mapPlayers \ {u} /\ mapBystanders' = mapBystanders \ {u}
  /\ UNCHANGED <<clockVars, roundVars, offline, handCards, connected, chanConnData>>

\* Mutant of FreeSeats: the test of the seat for nil is missing.
FreeSeats_Any == SeatIdx

FreeSeats == {i \in SeatIdx : seat[i] = Nobody}

\* A bystander takes the first free seat, at any time.
RoomHaveASeat(u) ==
  /\ TakeFromRoom(u, "HaveASeat")
  /\ IF u \in mapBystanders /\ seatIndex[u] = -1 /\ FreeSeats # {}
     THEN \E i \in FreeSeats :
            /\ \A j \in FreeSeats : i <= j
            /\ seat' = [seat EXCEPT ![i] = u]
            /\ seatIndex' = [seatIndex EXCEPT ![u] = i]
            /\ mapBystanders' = mapBystanders \ {u}
            /\ RememberRedisSeat(u, i)
     ELSE UNCHANGED <<seat, seatIndex, mapBystanders, redisVars>>
  /\ UNCHANGED <<clockVars, mapPlayers, roundVars, prepare, offline, inRoom, handCards,
                 connected, chanConnData>>

RoomReady(u) ==
  /\ TakeFromRoom(u, "Ready")
  /\ prepare' = IF roomStatus \in {"Ready", "CountDown"} /\ u \in Seated
                THEN [prepare EXCEPT ![u] = TRUE] ELSE prepare
  /\ UNCHANGED <<clockVars, tableVars, roundVars, seatIndex, offline, inRoom, handCards,
                 connected, chanConnData>>

\* Whoever sends it and whatever the status: only the first bid of a uid counts.
RoomRobZhuang(u) ==
  /\ TakeFromRoom(u, "RobZhuang")
  /\ mapRobZhuang' = IF mapRobZhuang[u] = 0
                     THEN [mapRobZhuang EXCEPT ![u] = Head(chanClientAndMsg).rate]
                     ELSE mapRobZhuang
  /\ UNCHANGED <<clockVars, tableVars, bankerId, mapBet, mapShowCard, settled,
                 broadcastBankerCards, mapWinOrLose, cardHeap, playerVars,
                 connected, chanConnData>>

\* Any seated user but the banker, whatever the status.
RoomBet(u) ==
  /\ TakeFromRoom(u, "Bet")
  /\ mapBet' = IF seatIndex[u] > -1 /\ mapBet[u] = 0 /\ u # bankerId
               THEN [mapBet EXCEPT ![u] = Head(chanClientAndMsg).rate]
               ELSE mapBet
  /\ UNCHANGED <<clockVars, tableVars, bankerId, mapRobZhuang, mapShowCard, settled,
                 broadcastBankerCards, mapWinOrLose, cardHeap, playerVars,
                 connected, chanConnData>>

RoomShowCard(u) ==
  /\ TakeFromRoom(u, "ShowCard")
  /\ mapShowCard' = IF u \in mapPlayers \/ u = bankerId
                    THEN mapShowCard \cup {u} ELSE mapShowCard
  /\ UNCHANGED <<clockVars, tableVars, bankerId, mapRobZhuang, mapBet, settled,
                 broadcastBankerCards, mapWinOrLose, cardHeap, playerVars,
                 connected, chanConnData>>

RoomTakesMessage(u) ==
  \/ RoomEnter(u)
  \/ RoomLeave(u)
  \/ RoomHaveASeat(u)
  \/ RoomReady(u)
  \/ RoomRobZhuang(u)
  \/ RoomBet(u)
  \/ RoomShowCard(u)

-----------------------------------------------------------------------------
(* The room's goroutine takes a tick: Room.running, one case per status.    *)
(* elapsed is timestamp - roomStatusTimestamp at that tick.                 *)

TimeUp(elapsed) == elapsed >= MapWaitTime[roomStatus]

PhaseOver(elapsed) ==
  CASE roomStatus = "Ready"     -> Cardinality(Preppers) > 1 /\ TimeUp(elapsed)
    [] roomStatus = "CountDown" -> TimeUp(elapsed)
    [] roomStatus = "RobZhuang" -> TimeUp(elapsed)
                                     \/ Cardinality(Bidders) = Cardinality(mapPlayers)
    [] roomStatus = "Bet"       -> TimeUp(elapsed)
                                     \/ Cardinality(Bettors) + 1 = Cardinality(mapPlayers)
    [] roomStatus = "Play"      -> TimeUp(elapsed)
                                     \/ Cardinality(mapShowCard) = Cardinality(mapPlayers)
    [] roomStatus = "Settle"    -> ~settled \/ TimeUp(elapsed)

ChangeRoomStatus(s) == roomStatus' = s /\ waited' = 0
StayInStatus(elapsed) == roomStatus' = roomStatus /\ waited' = elapsed

KeepWaiting(elapsed) ==
  /\ ~PhaseOver(elapsed)
  /\ StayInStatus(elapsed)
  /\ UNCHANGED <<tableVars, roundVars, playerVars>>

StartCountDown(elapsed) ==
  /\ roomStatus = "Ready" /\ PhaseOver(elapsed)
  /\ ChangeRoomStatus("CountDown")
  /\ UNCHANGED <<tableVars, roundVars, playerVars>>

\* Mutant of Deal: one card too many has to be left in the heap.
Deal_OffByOne(P, cnt, least) ==
  \E S \in SUBSET P :
    /\ \A k \in 0 .. Cardinality(S) - 1 : cardHeap - k * cnt > least
    /\ S # P => cardHeap - Cardinality(S) * cnt <= least
    /\ cardHeap' = cardHeap - Cardinality(S) * cnt
    /\ handCards' = [u \in Uids |-> IF u \in S THEN Least(handCards[u] + cnt, MaxHand)
                                    ELSE handCards[u]]

\* cnt cards to each player of P in map order, as long as the heap holds least.
Deal(P, cnt, least) ==
  \E S \in SUBSET P :
    /\ \A k \in 0 .. Cardinality(S) - 1 : cardHeap - k * cnt >= least
    /\ S # P => cardHeap - Cardinality(S) * cnt < least
    /\ cardHeap' = cardHeap - Cardinality(S) * cnt
    /\ handCards' = [u \in Uids |-> IF u \in S THEN Least(handCards[u] + cnt, MaxHand)
                                    ELSE handCards[u]]

\* The test that should send the room back to Ready asks for a number that is
\* 1 and 0 at once, so a round always starts.
TooFewToStart(P) == Cardinality(P) = 1 /\ Cardinality(P) = 0

StartRound(elapsed) ==
  /\ roomStatus = "CountDown" /\ PhaseOver(elapsed)
  /\ LET starters == mapPlayers \cup Preppers
         idle     == Seated \ starters
     IN /\ ~TooFewToStart(starters)
        /\ mapPlayers' = starters
        /\ mapBystanders' = mapBystanders \cup idle
        /\ seat' = [i \in SeatIdx |-> IF seat[i] \in idle THEN Nobody ELSE seat[i]]
        /\ ForgetRedisSeats(idle) /\ StandUp(idle)
        /\ IF KnownCard THEN Deal(starters, 4, 5) ELSE UNCHANGED <<cardHeap, handCards>>
  /\ ChangeRoomStatus("RobZhuang")
  /\ UNCHANGED <<bankerId, mapRobZhuang, mapBet, mapShowCard, settled,
                 broadcastBankerCards, mapWinOrLose, prepare, offline, inRoom>>

\* confirmBanker: the highest of the bids 8, 4, 2, 1; without any, the players
\* that did not bid, at rate 1; without any of those either, nobody at rate 0.
BidsOf(r) == {u \in Uids : mapRobZhuang[u] = r}
NoBid == mapPlayers \ Bidders
ConfirmedBanker(u, rate) ==
  LET bids == {r \in {1, 2, 4, 8} : BidsOf(r) # {}}
  IN IF bids # {}
     THEN rate \in bids /\ (\A r \in bids : r <= rate) /\ u \in BidsOf(rate)
     ELSE IF NoBid # {} THEN u \in NoBid /\ rate = 1
                        ELSE u = Nobody /\ rate = 0

ConfirmBanker(elapsed) ==
  /\ roomStatus = "RobZhuang" /\ PhaseOver(elapsed)
  /\ \E u \in Uids \cup {Nobody}, rate \in {0, 1, 2, 4, 8} :
       /\ ConfirmedBanker(u, rate)
       /\ bankerId' = u
       /\ mapRobZhuang' = [v \in Uids |-> IF v = u THEN rate ELSE mapRobZhuang[v]]
  /\ ChangeRoomStatus("Bet")
  /\ UNCHANGED <<tableVars, mapBet, mapShowCard, settled, broadcastBankerCards,
                 mapWinOrLose, cardHeap, playerVars>>

\* Mutant of UnbetPlayers: the comparison with the banker is the wrong way round.
UnbetPlayers_BankerOnly == {u \in mapPlayers : mapBet[u] = 0 /\ u = bankerId}

\* checkBet, then the fifth card or all five.
UnbetPlayers == {u \in mapPlayers : mapBet[u] = 0 /\ u # bankerId}

CloseBets(elapsed) ==
  /\ roomStatus = "Bet" /\ PhaseOver(elapsed)
  /\ mapBet' = [u \in Uids |-> IF u \in UnbetPlayers THEN Bet1 ELSE mapBet[u]]
  /\ IF KnownCard THEN Deal(mapPlayers, 1, 1) ELSE Deal(mapPlayers, 5, 5)
  /\ ChangeRoomStatus("Play")
  /\ UNCHANGED <<tableVars, bankerId, mapRobZhuang, mapShowCard, settled,
                 broadcastBankerCards, mapWinOrLose, seatIndex, prepare, offline, inRoom>>

\* Out of time: every hand is shown, the banker's last. Everyone has shown in
\* time: the banker's hand at one tick, the change of status at the next.
BankerShows == IF bankerId \in mapPlayers THEN {bankerId} ELSE {}

ShowCards(elapsed) ==
  /\ roomStatus = "Play" /\ PhaseOver(elapsed)
  /\ broadcastBankerCards' = TRUE
  /\ mapShowCard' =
       mapShowCard
         \cup (IF TimeUp(elapsed) /\ Cardinality(mapShowCard) # Cardinality(mapPlayers)
               THEN mapPlayers \ {bankerId} ELSE {})
         \cup (IF broadcastBankerCards THEN {} ELSE BankerShows)
  /\ IF TimeUp(elapsed) \/ broadcastBankerCards
     THEN ChangeRoomStatus("Settle") ELSE StayInStatus(elapsed)
  /\ UNCHANGED <<tableVars, bankerId, mapRobZhuang, mapBet, settled, mapWinOrLose,
                 cardHeap, playerVars>>

\* Mutant of SettleRound: settled is set but never tested.
SettleRound_Again(elapsed) ==
  /\ roomStatus = "Settle"
  /\ settled' = TRUE
  /\ \/ mapWinOrLose' = mapWinOrLose
     \/ bankerId \in mapPlayers /\ mapWinOrLose' = mapWinOrLose \cup mapPlayers
  /\ StayInStatus(elapsed)
  /\ UNCHANGED <<tableVars, bankerId, mapRobZhuang, mapBet, mapShowCard,
                 broadcastBankerCards, cardHeap, playerVars>>

\* Mutant of SettleRound: without a banker it returns before settled is set.
SettleRound_LateFlag(elapsed) ==
  /\ roomStatus = "Settle" /\ ~settled
  /\ settled' = (bankerId \in mapPlayers)
  /\ \/ mapWinOrLose' = mapWinOrLose
     \/ bankerId \in mapPlayers /\ mapWinOrLose' = mapWinOrLose \cup mapPlayers
  /\ StayInStatus(elapsed)
  /\ UNCHANGED <<tableVars, bankerId, mapRobZhuang, mapBet, mapShowCard,
                 broadcastBankerCards, cardHeap, playerVars>>

\* settle, first time: no result without a banker in the round, and none when
\* redis fails to give every player's gold.
SettleRound(elapsed) ==
  /\ roomStatus = "Settle" /\ ~settled
  /\ settled' = TRUE
  /\ \/ mapWinOrLose' = mapWinOrLose
     \/ bankerId \in mapPlayers /\ mapWinOrLose' = mapWinOrLose \cup mapPlayers
  /\ StayInStatus(elapsed)
  /\ UNCHANGED <<tableVars, bankerId, mapRobZhuang, mapBet, mapShowCard,
                 broadcastBankerCards, cardHeap, playerVars>>

\* Mutant of Gone: only the bystanders are looked through.
Gone_Bystanders == {u \in mapBystanders : offline[u]}

\* reReady: the next round starts from nothing.
ReReady ==
  /\ handCards' = [u \in Uids |-> IF u \in mapPlayers THEN 0 ELSE handCards[u]]
  /\ mapPlayers' = {}
  /\ bankerId' = Nobody /\ settled' = FALSE /\ broadcastBankerCards' = FALSE
  /\ cardHeap' = HeapSize
  /\ mapRobZhuang' = [u \in Uids |-> 0] /\ mapBet' = [u \in Uids |-> 0]
  /\ mapWinOrLose' = {} /\ mapShowCard' = {}
  /\ ChangeRoomStatus("Ready")

\* Who clearOfflineClient removes, from a seat or from among the bystanders.
Gone == {u \in Members : offline[u]}

\* settle, after the wait: reReady, then clearOfflineClient. (The configuration
\* is read again from redis here; it is taken to be the same.)
FinishRound(elapsed) ==
  /\ roomStatus = "Settle" /\ settled /\ TimeUp(elapsed)
  /\ ReReady
  /\ VacateSeats(Gone) /\ ForgetRedisSeats(Gone \cap Seated)
  /\ StandUp(Gone) /\ LeaveRoom(Gone)
  /\ UnPrepare(Gone \cup mapPlayers)
  /\ mapBystanders' = mapBystanders \ Gone
  /\ UNCHANGED offline

\* One second passes, or more when chanTimer overflowed meanwhile.
Tick ==
  /\ \E gap \in 1 .. MaxGap :
       LET elapsed == Least(waited + gap, MaxWait)
       IN \/ KeepWaiting(elapsed)
          \/ StartCountDown(elapsed)
          \/ StartRound(elapsed)
          \/ ConfirmBanker(elapsed)
          \/ CloseBets(elapsed)
          \/ ShowCards(elapsed)
          \/ SettleRound(elapsed)
          \/ FinishRound(elapsed)
  /\ UNCHANGED chanVars

-----------------------------------------------------------------------------
Next ==
  \/ \E u \in Uids : Dispatch(u) \/ PlayerRun(u) \/ RoomTakesMessage(u)
  \/ Tick

Spec == Init /\ [][Next]_vars

\* The goroutines run forever and Go's select picks at random among the ready
\* channels, so neither a queued message nor the ticker is passed over for ever.
\* Clients owe nothing.
Fairness ==
  /\ WF_vars(Tick)
  /\ \A u \in Uids : WF_vars(PlayerRun(u)) /\ WF_vars(RoomTakesMessage(u))

FairSpec == Spec /\ Fairness

-----------------------------------------------------------------------------
(* Properties.                                                              *)

TypeOK ==
  /\ roomStatus \in Statuses /\ waited \in 0 .. MaxWait
  /\ seat \in [SeatIdx -> Uids \cup {Nobody}]
  /\ mapBystanders \subseteq Uids /\ mapPlayers \subseteq Uids
  /\ bankerId \in Uids \cup {Nobody}
  /\ mapRobZhuang \in [Uids -> Nat] /\ mapBet \in [Uids -> Nat]
  /\ mapShowCard \subseteq Uids /\ mapWinOrLose \subseteq Uids
  /\ settled \in BOOLEAN /\ broadcastBankerCards \in BOOLEAN
  /\ cardHeap \in Int
  /\ seatIndex \in [Uids -> {-1} \cup SeatIdx] /\ handCards \in [Uids -> 0 .. MaxHand]
  /\ prepare \in [Uids -> BOOLEAN] /\ offline \in [Uids -> BOOLEAN]
  /\ inRoom \in [Uids -> BOOLEAN] /\ connected \in [Uids -> BOOLEAN]
  /\ chanConnData \in [Uids -> Seq(PlayerMsgs)]
  /\ chanClientAndMsg \in Seq(RoomMsg)
  /\ redisSeat \in [SeatIdx -> Uids \cup {Nobody}] /\ redisRoomId \subseteq Uids
  /\ staleSeat \subseteq SeatIdx /\ staleRoomId \subseteq Uids

\* room.go:71: a user is never on a seat and among the bystanders at once, sits on
\* one seat at most, and the player object and the room agree about which one.
\* Whoever plays the round is seated: nothing that empties a seat, in whatever
\* order the goroutines run, leaves its player in the round.
SeatsAgree ==
  /\ \A i \in SeatIdx : seat[i] # Nobody => seatIndex[seat[i]] = i
  /\ \A u \in Uids : seatIndex[u] # -1 => seat[seatIndex[u]] = u
  /\ \A u \in mapBystanders : seatIndex[u] = -1
  /\ \A u \in mapPlayers : seatIndex[u] # -1

\* Redis never shows the lobby a user on a seat of the room, or in the room, that the
\* room has not seated there, unless the last call on that very key was lost: what
\* any of the five places forgets, or deletes for the wrong seat, would stay, as long
\* as the player object renews its keys.
NoGhostSeats ==
  /\ \A i \in SeatIdx : redisSeat[i] \in {Nobody, seat[i]} \/ i \in staleSeat
  /\ redisRoomId \subseteq Seated \cup staleRoomId

\* Readiness belongs to a seat (getPrepperNum counts seats): a user who lost the
\* seat, however, is no longer prepared and cannot be drawn into the next round.
PreparedAreSeated == \A u \in Uids : prepare[u] => u \in Seated

\* A player keeps the seat until the room handles that player's own leave or
\* disconnect, until the end of a round finds the player offline, or until a round
\* starts without the player being prepared; and it is empty before it is another's.
LeavesNow(u) ==
  /\ chanClientAndMsg # <<>>
  /\ Head(chanClientAndMsg).from = u
  /\ Head(chanClientAndMsg).id \in {"Leave", "Disconnect"}

SeatKept ==
  [][\A i \in SeatIdx :
       seat[i] # Nobody /\ seat'[i] # seat[i] =>
         /\ seat'[i] = Nobody
         /\ \/ LeavesNow(seat[i])
            \/ roomStatus = "Settle" /\ roomStatus' = "Ready" /\ offline[seat[i]]
            \/ roomStatus = "CountDown" /\ roomStatus' = "RobZhuang" /\ ~prepare[seat[i]]]_vars

\* The heap of 52 lasts for a full table: once the hands are dealt, whoever is
\* still in the round holds at least the five cards that are compared.
EnoughCards ==
  roomStatus \in {"Play", "Settle"} => \A u \in mapPlayers : handCards[u] >= 5

\* When the cards are compared every player but the banker has a bet, placed by
\* the player or by checkBet, whoever left in between.
BetsComplete ==
  roomStatus \in {"Play", "Settle"} => \A u \in mapPlayers : u # bankerId => mapBet[u] # 0

\* A player object that points at the room is held by the room, or its enter message
\* is still on its way there.
EnterUnderWay(u) ==
  \E k \in 1 .. Len(chanClientAndMsg) :
    chanClientAndMsg[k].from = u /\ chanClientAndMsg[k].id = "Enter"

HonestPointer(u) == inRoom[u] => u \in Members \/ EnterUnderWay(u)

\* Whatever is dropped, a pointer stops being honest in one way only: the user's own
\* enter finds the room's channel full, after the object was made to point at the room.
EnterDropped(u) == TakeFromPlayer(u, "Enter") /\ Len(chanClientAndMsg) >= RoomCap

PointerKept ==
  [][\A u \in Uids : HonestPointer(u) => HonestPointer(u)' \/ EnterDropped(u)]_vars

-----------------------------------------------------------------------------
(* The room implements the abstract round, liveness included.               *)

Round == INSTANCE NiuniuRound
  WITH phase <- CASE roomStatus \in {"Ready", "CountDown"} -> "open"
                  [] settled                               -> "settled"
                  [] OTHER                                 -> "playing",
       players <- mapPlayers,
       results <- mapWinOrLose

RefinesRound == Round!Spec

\* Silent and disconnected players do not hold the table up: a round that has
\* started comes to its end and the room is ready for the next one.
RoundEnds == roomStatus \in InRound ~> roomStatus = "Ready"

\* Who drops out while playing keeps the seat for the rest of the round, and is
\* then cleared from the room unless back by then.
DropoutCleared ==
  \A u \in Uids : (u \in mapPlayers /\ offline[u]) ~> (u \notin Members \/ ~offline[u])
=============================================================================
