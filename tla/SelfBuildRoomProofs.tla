-------------------------- MODULE SelfBuildRoomProofs --------------------------
(***************************************************************************)
(* For every number of users, player objects, rooms, seats and rounds: the *)
(* types hold, a user has one place in a room, and a game has its rounds.  *)
(***************************************************************************)
EXTENDS SelfBuildRoom, TLAPS

\* A connected user has a player object.
KnownUsers == \A u \in Uids : connected[u] => made[u] > 0

\* The inductive invariant of the types and of the count of rounds.
CountInv == TypeOK /\ KnownUsers /\ AllRoundsPlayed

-----------------------------------------------------------------------------
LEMMA Put ==
  ASSUME NEW S, NEW q \in Seq(S), NEW m \in S
  PROVE  Append(q, m) \in Seq(S)
  OBVIOUS

LEMMA Taken ==
  ASSUME NEW S, NEW q \in Seq(S), q # <<>>
  PROVE  Head(q) \in S /\ Tail(q) \in Seq(S)
  OBVIOUS

LEMMA Replaced ==
  ASSUME NEW S, NEW q \in Seq(S), q # <<>>, NEW m \in S
  PROVE  <<m>> \o Tail(q) \in Seq(S)
<1>1. Tail(q) \in Seq(S) /\ <<m>> \in Seq(S)
  OBVIOUS
<1> QED
  BY <1>1

LEMMA ObjectsOfUsers ==
  ASSUME NEW u \in Uids, NEW k \in 1 .. MaxObjects
  PROVE  <<u, k>> \in Objects
  BY DEF Objects

LEMMA NoneIsNoObject == None \notin Objects
  BY SelfBuildAssumption DEF Objects

\* Player.Handle and Room.Handle queue messages of the right form.
LEMMA PlayerHandleTyped ==
  ASSUME TypeOK, NEW o, NEW id, NEW r, PlayerHandle(o, id, r),
         id \in {"Create", "EnterOwn", "Enter", "Leave", "Disconnect"},
         r \in Rooms \cup {None}
  PROVE  chanConnData' \in [Objects -> Seq(PlayerMsg)]
<1>1. chanConnData \in [Objects -> Seq(PlayerMsg)]
  BY DEF TypeOK
<1>2. [id |-> id, room |-> r] \in PlayerMsg
  BY DEF PlayerMsg
<1>3. \A p \in Objects : Append(chanConnData[p], [id |-> id, room |-> r]) \in Seq(PlayerMsg)
  BY <1>1, <1>2, Put
<1>4. [chanConnData EXCEPT ![o] = Append(@, [id |-> id, room |-> r])]
        \in [Objects -> Seq(PlayerMsg)]
  BY <1>1, <1>3
<1> QED
  BY <1>1, <1>4 DEF PlayerHandle

LEMMA RoomHandleTyped ==
  ASSUME TypeOK, NEW r \in Rooms, NEW o \in Objects, NEW id \in RoomMsgIds,
         RoomHandle(r, o, id)
  PROVE  chanClientAndMsg' \in [Rooms -> Seq(RoomMsg)]
<1>1. chanClientAndMsg \in [Rooms -> Seq(RoomMsg)]
  BY DEF TypeOK
<1>2. [from |-> o, id |-> id] \in RoomMsg
  BY DEF RoomMsg
<1>3. Append(chanClientAndMsg[r], [from |-> o, id |-> id]) \in Seq(RoomMsg)
  BY <1>1, <1>2, Put
<1>4. [chanClientAndMsg EXCEPT ![r] = Append(@, [from |-> o, id |-> id])]
        \in [Rooms -> Seq(RoomMsg)]
  BY <1>1, <1>3
<1> QED
  BY <1>1, <1>4 DEF RoomHandle

LEMMA PlayerTakeTyped ==
  ASSUME TypeOK, NEW o \in Objects, chanConnData[o] # <<>>, TakenFromPlayer(o)
  PROVE  chanConnData' \in [Objects -> Seq(PlayerMsg)]
<1>1. chanConnData \in [Objects -> Seq(PlayerMsg)]
  BY DEF TypeOK
<1>2. Tail(chanConnData[o]) \in Seq(PlayerMsg)
  BY <1>1, Taken
<1>3. [chanConnData EXCEPT ![o] = Tail(@)] \in [Objects -> Seq(PlayerMsg)]
  BY <1>1, <1>2
<1> QED
  BY <1>3 DEF TakenFromPlayer

LEMMA RoomTakeTyped ==
  ASSUME TypeOK, NEW r \in Rooms, NEW o, NEW id, TakeFromRoom(r, o, id)
  PROVE  chanClientAndMsg' \in [Rooms -> Seq(RoomMsg)]
<1>1. chanClientAndMsg \in [Rooms -> Seq(RoomMsg)] /\ chanClientAndMsg[r] # <<>>
  BY DEF TypeOK, TakeFromRoom
<1>2. Tail(chanClientAndMsg[r]) \in Seq(RoomMsg)
  BY <1>1, Taken
<1>3. [chanClientAndMsg EXCEPT ![r] = Tail(@)] \in [Rooms -> Seq(RoomMsg)]
  BY <1>1, <1>2
<1> QED
  BY <1>3 DEF TakeFromRoom

\* Sitting down keeps seats, indices and bystanders what they are.
LEMMA SitDownTyped ==
  ASSUME TypeOK, NEW r \in Rooms, NEW o \in Objects, NEW B \in SUBSET Objects,
         SitDown(r, o, B)
  PROVE  /\ seat' \in [Rooms -> [SeatIdx -> Objects \cup {None}]]
         /\ seatIndex' \in [Objects -> {-1} \cup SeatIdx]
         /\ mapBystanders' \in [Rooms -> SUBSET Objects]
<1>1. /\ seat \in [Rooms -> [SeatIdx -> Objects \cup {None}]]
      /\ seatIndex \in [Objects -> {-1} \cup SeatIdx]
      /\ mapBystanders \in [Rooms -> SUBSET Objects]
  BY DEF TypeOK
<1>2. CASE Uid(o) \in UidsOf(B) /\ seatIndex[o] = -1 /\ FreeSeats(r) # {}
  <2>1. PICK i \in FreeSeats(r) :
          /\ seat' = [seat EXCEPT ![r][i] = o]
          /\ seatIndex' = [seatIndex EXCEPT ![o] = i]
          /\ mapBystanders' = [mapBystanders EXCEPT ![r] = {b \in B : Uid(b) # Uid(o)}]
    BY <1>2 DEF SitDown
  <2>2. i \in SeatIdx
    BY DEF FreeSeats
  <2>3. [seat[r] EXCEPT ![i] = o] \in [SeatIdx -> Objects \cup {None}]
    BY <1>1, <2>2
  <2>4. seat' \in [Rooms -> [SeatIdx -> Objects \cup {None}]]
    BY <1>1, <2>1, <2>3
  <2>5. seatIndex' \in [Objects -> {-1} \cup SeatIdx]
    BY <1>1, <2>1, <2>2
  <2>6. mapBystanders' \in [Rooms -> SUBSET Objects]
    BY <1>1, <2>1
  <2> QED
    BY <2>4, <2>5, <2>6
<1>3. CASE ~(Uid(o) \in UidsOf(B) /\ seatIndex[o] = -1 /\ FreeSeats(r) # {})
  <2>1. /\ mapBystanders' = [mapBystanders EXCEPT ![r] = B]
        /\ UNCHANGED <<seat, seatIndex>>
    BY <1>3 DEF SitDown
  <2> QED
    BY <1>1, <2>1
<1> QED
  BY <1>2, <1>3

LEMMA JoinedTyped ==
  ASSUME TypeOK, NEW r \in Rooms, NEW o \in Objects
  PROVE  Joined(r, o) \in SUBSET Objects
  BY DEF TypeOK, Joined

LEMMA SeatsWithoutTyped ==
  ASSUME TypeOK, NEW r \in Rooms, NEW S
  PROVE  SeatsWithout(r, S) \in [SeatIdx -> Objects \cup {None}]
  BY DEF TypeOK, SeatsWithout

LEMMA ForgetRoomTyped ==
  ASSUME TypeOK, NEW S, ForgetRoom(S)
  PROVE  /\ room' \in [Objects -> Rooms \cup {None}]
         /\ seatIndex' \in [Objects -> {-1} \cup SeatIdx]
<1>1. /\ room \in [Objects -> Rooms \cup {None}]
      /\ seatIndex \in [Objects -> {-1} \cup SeatIdx]
  BY DEF TypeOK
<1>2. room' \in [Objects -> Rooms \cup {None}]
  BY <1>1 DEF ForgetRoom
<1>3. seatIndex' \in [Objects -> {-1} \cup SeatIdx]
  BY <1>1 DEF ForgetRoom
<1> QED
  BY <1>2, <1>3

-----------------------------------------------------------------------------
(* Types and the count of rounds.                                           *)

THEOREM CountInit == Init => CountInv
<1> SUFFICES ASSUME Init PROVE CountInv
  OBVIOUS
<1>1. TypeOK
  BY SelfBuildAssumption DEF Init, TypeOK, Statuses
<1>2. KnownUsers /\ AllRoundsPlayed
  BY DEF Init, KnownUsers, AllRoundsPlayed
<1> QED
  BY <1>1, <1>2 DEF CountInv

LEMMA DispatchCounts ==
  ASSUME CountInv, NEW u \in Uids, Dispatch(u)
  PROVE  CountInv'
<1>0. TypeOK /\ KnownUsers /\ AllRoundsPlayed /\ Rooms = Objects
  BY DEF CountInv, Rooms
<1>1. CASE DispatchCreate(u)
  <2>1. /\ made' \in [Uids -> 0 .. MaxObjects] /\ connected' \in [Uids -> BOOLEAN]
    BY <1>0, <1>1, SelfBuildAssumption DEF TypeOK, DispatchCreate
  <2>2. chanConnData' \in [Objects -> Seq(PlayerMsg)]
    BY <1>0, <1>1, PlayerHandleTyped DEF DispatchCreate
  <2>3. KnownUsers'
    BY <1>0, <1>1, SelfBuildAssumption DEF TypeOK, DispatchCreate, KnownUsers
  <2> QED
    BY <1>0, <1>1, <2>1, <2>2, <2>3
    DEF CountInv, TypeOK, AllRoundsPlayed, DispatchCreate, playerVars, roomVars, gameVars, tableVars
<1>2. CASE \E r \in Built : DispatchEnter(u, r)
  <2>1. PICK r \in Built : DispatchEnter(u, r)
    BY <1>2
  <2>2. r \in Rooms
    BY DEF Built
  <2>3. /\ made' \in [Uids -> 0 .. MaxObjects] /\ connected' \in [Uids -> BOOLEAN]
    BY <1>0, <2>1, SelfBuildAssumption DEF TypeOK, DispatchEnter
  <2>4. offline' \in [Objects -> BOOLEAN]
    BY <1>0, <2>1 DEF TypeOK, DispatchEnter
  <2>5. chanConnData' \in [Objects -> Seq(PlayerMsg)]
    BY <1>0, <2>1, <2>2, PlayerHandleTyped DEF DispatchEnter
  <2>6. KnownUsers'
    BY <1>0, <2>1, SelfBuildAssumption DEF TypeOK, DispatchEnter, KnownUsers
  <2> QED
    BY <1>0, <2>1, <2>3, <2>4, <2>5, <2>6
    DEF CountInv, TypeOK, AllRoundsPlayed, DispatchEnter, roomVars, gameVars, tableVars
<1>3. CASE DispatchLeave(u)
  <2>1. chanConnData' \in [Objects -> Seq(PlayerMsg)]
    BY <1>0, <1>3, PlayerHandleTyped DEF DispatchLeave
  <2> QED
    BY <1>0, <1>3, <2>1
    DEF CountInv, TypeOK, KnownUsers, AllRoundsPlayed, DispatchLeave, dispatchVars, playerVars,
        roomVars, gameVars, tableVars
<1>4. CASE DispatchDisconnect(u)
  <2>1. chanConnData' \in [Objects -> Seq(PlayerMsg)]
    BY <1>0, <1>4, PlayerHandleTyped DEF DispatchDisconnect
  <2>2. connected' \in [Uids -> BOOLEAN] /\ KnownUsers'
    BY <1>0, <1>4 DEF TypeOK, KnownUsers, DispatchDisconnect
  <2> QED
    BY <1>0, <1>4, <2>1, <2>2
    DEF CountInv, TypeOK, AllRoundsPlayed, DispatchDisconnect, playerVars,
        roomVars, gameVars, tableVars
<1>5. CASE \E id \in {"HaveASeat", "Ready"} : DispatchToRoom(u, id)
  <2>1. PICK id \in {"HaveASeat", "Ready"} : DispatchToRoom(u, id)
    BY <1>5
  <2>2. made[u] \in 1 .. MaxObjects
    BY <1>0, <2>1, SelfBuildAssumption DEF TypeOK, KnownUsers, DispatchToRoom
  <2>3. Player(u) \in Objects
    BY <2>2, ObjectsOfUsers DEF Player
  <2>4. room[Player(u)] \in Rooms
    BY <1>0, <2>1, <2>3 DEF TypeOK, DispatchToRoom
  <2>5. chanClientAndMsg' \in [Rooms -> Seq(RoomMsg)]
    BY <1>0, <2>1, <2>3, <2>4, RoomHandleTyped DEF DispatchToRoom, RoomMsgIds
  <2> QED
    BY <1>0, <2>1, <2>5
    DEF CountInv, TypeOK, KnownUsers, AllRoundsPlayed, DispatchToRoom, dispatchVars, playerVars,
        roomVars, gameVars, tableVars
<1> QED
  BY <1>1, <1>2, <1>3, <1>4, <1>5 DEF Dispatch

LEMMA PlayerCounts ==
  ASSUME CountInv, NEW o \in Objects, PlayerRun(o)
  PROVE  CountInv'
<1>0. TypeOK /\ KnownUsers /\ AllRoundsPlayed /\ Rooms = Objects
  BY DEF CountInv, Rooms
<1>1. CASE PlayerCreate(o)
  <2>0. chanConnData[o] # <<>> /\ chanConnData \in [Objects -> Seq(PlayerMsg)]
    BY <1>0, <1>1 DEF PlayerCreate, TakeFromPlayer, TypeOK
  <2>1. CASE UNCHANGED room
    <3>1. CASE TakenFromPlayer(o) /\ UNCHANGED <<room, roomVars, chanClientAndMsg>>
      <4>1. chanConnData' \in [Objects -> Seq(PlayerMsg)]
        BY <1>0, <2>0, <3>1, PlayerTakeTyped
      <4> QED
        BY <1>0, <1>1, <3>1, <4>1
        DEF CountInv, TypeOK, KnownUsers, AllRoundsPlayed, PlayerCreate, dispatchVars,
            roomVars, gameVars, tableVars
    <3>2. CASE room[o] = None
      <4>1. room[o] = None /\ o # None
        BY <3>2, NoneIsNoObject
      <4>2. ~(room' = [room EXCEPT ![o] = o])
        BY <1>0, <2>1, <4>1 DEF TypeOK
      <4>3. TakenFromPlayer(o) /\ UNCHANGED <<room, roomVars, chanClientAndMsg>>
        BY <1>1, <4>2 DEF PlayerCreate
      <4> QED
        BY <3>1, <4>3
    <3> QED
      BY <1>1, <3>1, <3>2 DEF PlayerCreate
  <2>2. CASE room' # room
    <3>1. /\ \E m \in Modes : mode' = [mode EXCEPT ![o] = m]
          /\ roomStatus' = [roomStatus EXCEPT ![o] = "Ready"]
          /\ numberOfGame' = [numberOfGame EXCEPT ![o] = 0]
          /\ seat' = [seat EXCEPT ![o] = [i \in SeatIdx |-> IF i = 0 THEN o ELSE None]]
          /\ mapBystanders' = [mapBystanders EXCEPT ![o] = {}]
          /\ mapPlayers' = [mapPlayers EXCEPT ![o] = {}]
          /\ mapRoom' = mapRoom \cup {o}
          /\ room' = [room EXCEPT ![o] = o]
          /\ chanConnData' =
               [chanConnData EXCEPT ![o] = <<[id |-> "EnterOwn", room |-> o]>> \o Tail(@)]
          /\ RoomHandle(o, o, "Create")
      BY <1>1, <2>2 DEF PlayerCreate
    <3>2. [id |-> "EnterOwn", room |-> o] \in PlayerMsg
      BY <1>0 DEF PlayerMsg
    <3>3. <<[id |-> "EnterOwn", room |-> o]>> \o Tail(chanConnData[o]) \in Seq(PlayerMsg)
      BY <2>0, <3>2, Replaced
    <3>4. chanConnData' \in [Objects -> Seq(PlayerMsg)]
      BY <2>0, <3>1, <3>3
    <3>5. chanClientAndMsg' \in [Rooms -> Seq(RoomMsg)]
      BY <1>0, <3>1, RoomHandleTyped DEF RoomMsgIds
    <3>6. mode' \in [Rooms -> Modes \cup {None}] /\ roomStatus' \in [Rooms -> Statuses]
      BY <1>0, <3>1 DEF TypeOK, Statuses
    <3>7. numberOfGame' \in [Rooms -> 0 .. TotalNumberOfGame]
      BY <1>0, <3>1, SelfBuildAssumption DEF TypeOK
    <3>8. [i \in SeatIdx |-> IF i = 0 THEN o ELSE None] \in [SeatIdx -> Objects \cup {None}]
      OBVIOUS
    <3>9. /\ seat' \in [Rooms -> [SeatIdx -> Objects \cup {None}]]
          /\ mapBystanders' \in [Rooms -> SUBSET Objects]
          /\ mapPlayers' \in [Rooms -> SUBSET Objects]
      BY <1>0, <3>1, <3>8 DEF TypeOK
    <3>10. mapRoom' \subseteq Rooms /\ room' \in [Objects -> Rooms \cup {None}]
      BY <1>0, <3>1 DEF TypeOK
    <3>11. TypeOK'
      BY <1>0, <1>1, <3>4, <3>5, <3>6, <3>7, <3>9, <3>10
      DEF TypeOK, PlayerCreate, dispatchVars
    <3>12. AllRoundsPlayed'
      BY <1>0, <3>1, SelfBuildAssumption DEF TypeOK, AllRoundsPlayed
    <3>13. KnownUsers'
      BY <1>0, <1>1 DEF KnownUsers, PlayerCreate, dispatchVars
    <3> QED
      BY <3>11, <3>12, <3>13 DEF CountInv
  <2> QED
    BY <2>1, <2>2
<1>2. CASE PlayerEnterOwn(o)
  <2>1. chanConnData' \in [Objects -> Seq(PlayerMsg)]
    BY <1>0, <1>2, PlayerTakeTyped DEF PlayerEnterOwn, TakeFromPlayer
  <2>2. /\ seat' \in [Rooms -> [SeatIdx -> Objects \cup {None}]]
        /\ seatIndex' \in [Objects -> {-1} \cup SeatIdx]
        /\ mapBystanders' \in [Rooms -> SUBSET Objects]
    BY <1>0, <1>2, JoinedTyped, SitDownTyped DEF PlayerEnterOwn
  <2> QED
    BY <1>0, <1>2, <2>1, <2>2
    DEF CountInv, TypeOK, KnownUsers, AllRoundsPlayed, PlayerEnterOwn, dispatchVars, gameVars
<1>3. CASE PlayerEnter(o)
  <2>0. chanConnData[o] # <<>> /\ chanConnData \in [Objects -> Seq(PlayerMsg)]
    BY <1>0, <1>3 DEF PlayerEnter, TakeFromPlayer, TypeOK
  <2>1. chanConnData' \in [Objects -> Seq(PlayerMsg)]
    BY <1>0, <2>0, <1>3, PlayerTakeTyped DEF PlayerEnter
  <2>2. PICK r : r = Head(chanConnData[o]).room
    OBVIOUS
  <2>3. Head(chanConnData[o]) \in PlayerMsg
    BY <2>0, Taken
  <2>4. r \in Rooms \cup {None}
    BY <2>2, <2>3 DEF PlayerMsg
  <2>5. \/ /\ room[o] = r \/ (room[o] = None /\ r \in mapRoom /\ MayEnter(r))
           /\ room' = [room EXCEPT ![o] = r] /\ RoomHandle(r, o, "Enter")
        \/ UNCHANGED <<room, chanClientAndMsg>>
    BY <1>3, <2>2 DEF PlayerEnter
  <2>6. /\ room' \in [Objects -> Rooms \cup {None}]
        /\ chanClientAndMsg' \in [Rooms -> Seq(RoomMsg)]
    <3>1. CASE UNCHANGED <<room, chanClientAndMsg>>
      BY <1>0, <3>1 DEF TypeOK
    <3>2. CASE room' = [room EXCEPT ![o] = r] /\ RoomHandle(r, o, "Enter")
      <4>1. room' \in [Objects -> Rooms \cup {None}]
        BY <1>0, <2>4, <3>2 DEF TypeOK
      <4>2. CASE r \in Rooms
        BY <1>0, <3>2, <4>1, <4>2, RoomHandleTyped DEF RoomMsgIds
      <4>3. CASE r = None
        <5>1. None \notin Rooms
          BY <1>0, NoneIsNoObject
        <5>2. chanClientAndMsg' \in [Rooms -> Seq(RoomMsg)]
          BY <1>0, <3>2, <4>3, <5>1 DEF TypeOK, RoomHandle
        <5> QED
          BY <4>1, <5>2
      <4> QED
        BY <2>4, <4>2, <4>3
    <3> QED
      BY <2>5, <3>1, <3>2
  <2> QED
    BY <1>0, <1>3, <2>1, <2>6
    DEF CountInv, TypeOK, KnownUsers, AllRoundsPlayed, PlayerEnter, dispatchVars,
        roomVars, gameVars, tableVars
<1>4. CASE PlayerLeave(o)
  <2>1. chanConnData' \in [Objects -> Seq(PlayerMsg)]
    BY <1>0, <1>4, PlayerTakeTyped DEF PlayerLeave, TakeFromPlayer
  <2>2. offline' \in [Objects -> BOOLEAN] /\ chanClientAndMsg' \in [Rooms -> Seq(RoomMsg)]
    <3>1. CASE ~offline[o] /\ room[o] # None /\ ~IsPlaying(room[o], Uid(o))
      <4>1. room[o] \in Rooms
        BY <1>0, <3>1 DEF TypeOK
      <4>2. chanClientAndMsg' \in [Rooms -> Seq(RoomMsg)]
        BY <1>0, <1>4, <3>1, <4>1, RoomHandleTyped DEF PlayerLeave, RoomMsgIds
      <4>3. offline' \in [Objects -> BOOLEAN]
        BY <1>0, <1>4, <3>1 DEF PlayerLeave, TypeOK
      <4> QED
        BY <4>2, <4>3
    <3>2. CASE ~(~offline[o] /\ room[o] # None /\ ~IsPlaying(room[o], Uid(o)))
      BY <1>0, <1>4, <3>2 DEF PlayerLeave, TypeOK
    <3> QED
      BY <3>1, <3>2
  <2> QED
    BY <1>0, <1>4, <2>1, <2>2
    DEF CountInv, TypeOK, KnownUsers, AllRoundsPlayed, PlayerLeave, dispatchVars,
        roomVars, gameVars, tableVars
<1>5. CASE PlayerDisconnect(o)
  <2>1. chanConnData' \in [Objects -> Seq(PlayerMsg)]
    BY <1>0, <1>5, PlayerTakeTyped DEF PlayerDisconnect, TakeFromPlayer
  <2>2. offline' \in [Objects -> BOOLEAN]
    BY <1>0, <1>5 DEF PlayerDisconnect, TypeOK
  <2>3. chanClientAndMsg' \in [Rooms -> Seq(RoomMsg)]
    <3>1. CASE ~offline[o] /\ room[o] # None /\ ~IsPlaying(room[o], Uid(o))
      <4>1. room[o] \in Rooms
        BY <1>0, <3>1 DEF TypeOK
      <4> QED
        BY <1>0, <1>5, <3>1, <4>1, RoomHandleTyped DEF PlayerDisconnect, RoomMsgIds
    <3>2. CASE ~(~offline[o] /\ room[o] # None /\ ~IsPlaying(room[o], Uid(o)))
      BY <1>0, <1>5, <3>2 DEF PlayerDisconnect, TypeOK
    <3> QED
      BY <3>1, <3>2
  <2> QED
    BY <1>0, <1>5, <2>1, <2>2, <2>3
    DEF CountInv, TypeOK, KnownUsers, AllRoundsPlayed, PlayerDisconnect, dispatchVars,
        roomVars, gameVars, tableVars
<1> QED
  BY <1>1, <1>2, <1>3, <1>4, <1>5 DEF PlayerRun

LEMMA MessageCounts ==
  ASSUME CountInv, NEW r \in Rooms, RoomTakesMessage(r)
  PROVE  CountInv'
<1>0. TypeOK /\ KnownUsers /\ AllRoundsPlayed /\ Rooms = Objects
  BY DEF CountInv, Rooms
<1>p. PICK o \in Objects : \/ RoomIgnores(r, o)
                           \/ RoomEnter(r, o)
                           \/ RoomLeave(r, o)
                           \/ RoomHaveASeat(r, o)
                           \/ RoomReady(r, o)
  BY DEF RoomTakesMessage
<1>1. chanClientAndMsg' \in [Rooms -> Seq(RoomMsg)]
  BY <1>0, <1>p, RoomTakeTyped DEF RoomIgnores, RoomEnter, RoomLeave, RoomHaveASeat, RoomReady
<1>2. CASE RoomIgnores(r, o)
  BY <1>0, <1>1, <1>2
  DEF CountInv, TypeOK, KnownUsers, AllRoundsPlayed, RoomIgnores, dispatchVars, playerVars,
      roomVars, gameVars, tableVars
<1>3. CASE RoomEnter(r, o)
  <2>1. Joined(r, o) \in SUBSET Objects
    BY <1>0, JoinedTyped
  <2>2. mapBystanders' \in [Rooms -> SUBSET Objects]
    BY <1>0, <1>3, <2>1 DEF RoomEnter, TypeOK
  <2> QED
    BY <1>0, <1>1, <1>3, <2>2
    DEF CountInv, TypeOK, KnownUsers, AllRoundsPlayed, RoomEnter, dispatchVars, playerVars, gameVars
<1>4. CASE RoomLeave(r, o)
  <2>1. SeatsWithout(r, {o}) \in [SeatIdx -> Objects \cup {None}]
    BY <1>0, SeatsWithoutTyped
  <2>2. seat' \in [Rooms -> [SeatIdx -> Objects \cup {None}]]
    BY <1>0, <1>4, <2>1 DEF RoomLeave, TypeOK
  <2>3. mapPlayers' \in [Rooms -> SUBSET Objects] /\ mapBystanders' \in [Rooms -> SUBSET Objects]
    BY <1>0, <1>4 DEF RoomLeave, TypeOK, Without
  <2>4. /\ room' \in [Objects -> Rooms \cup {None}]
        /\ seatIndex' \in [Objects -> {-1} \cup SeatIdx]
    BY <1>0, <1>4, ForgetRoomTyped DEF RoomLeave
  <2>5. prepare' \in [Objects -> BOOLEAN] /\ mapRoom' \subseteq Rooms
    BY <1>0, <1>4 DEF RoomLeave, TypeOK
  <2> QED
    BY <1>0, <1>1, <1>4, <2>2, <2>3, <2>4, <2>5
    DEF CountInv, TypeOK, KnownUsers, AllRoundsPlayed, RoomLeave, dispatchVars, gameVars
<1>5. CASE RoomHaveASeat(r, o)
  <2>1. mapBystanders[r] \in SUBSET Objects
    BY <1>0 DEF TypeOK
  <2>2. /\ seat' \in [Rooms -> [SeatIdx -> Objects \cup {None}]]
        /\ seatIndex' \in [Objects -> {-1} \cup SeatIdx]
        /\ mapBystanders' \in [Rooms -> SUBSET Objects]
    BY <1>0, <1>5, <2>1, SitDownTyped DEF RoomHaveASeat
  <2> QED
    BY <1>0, <1>1, <1>5, <2>2
    DEF CountInv, TypeOK, KnownUsers, AllRoundsPlayed, RoomHaveASeat, dispatchVars, gameVars
<1>6. CASE RoomReady(r, o)
  <2>1. prepare' \in [Objects -> BOOLEAN]
    BY <1>0, <1>6 DEF RoomReady, TypeOK
  <2> QED
    BY <1>0, <1>1, <1>6, <2>1
    DEF CountInv, TypeOK, KnownUsers, AllRoundsPlayed, RoomReady, dispatchVars,
        roomVars, gameVars, tableVars
<1> QED
  BY <1>p, <1>2, <1>3, <1>4, <1>5, <1>6

\* Starting, finishing and ending rounds: a game that has rounds left is not over.
LEMMA TickCounts ==
  ASSUME CountInv, NEW r \in Rooms, RoomTick(r)
  PROVE  CountInv'
<1>0. TypeOK /\ KnownUsers /\ AllRoundsPlayed /\ Rooms = Objects
  BY DEF CountInv, Rooms
<1>1. /\ chanTimer' \in [Rooms -> 0 .. TimerCap]
      /\ UNCHANGED <<dispatchVars, chanConnData, chanClientAndMsg>>
  <2>1. chanTimer[r] \in 0 .. TimerCap /\ chanTimer[r] > 0 /\ TimerCap \in Nat
    BY <1>0, SelfBuildAssumption DEF RoomTick, TypeOK
  <2>2. chanTimer[r] - 1 \in 0 .. TimerCap
    BY <2>1
  <2> QED
    BY <1>0, <2>2 DEF RoomTick, TypeOK
<1>n. /\ numberOfGame \in [Rooms -> 0 .. TotalNumberOfGame]
      /\ TotalNumberOfGame \in Nat \ {0}
  BY <1>0, SelfBuildAssumption DEF TypeOK
<1>2. CASE KeepWaiting(r)
  BY <1>0, <1>1, <1>2
  DEF CountInv, TypeOK, KnownUsers, AllRoundsPlayed, KeepWaiting, dispatchVars, playerVars,
      roomVars, gameVars, tableVars
<1>3. CASE StartCountDown(r)
  <2>1. numberOfGame[r] < TotalNumberOfGame /\ numberOfGame[r] \in Nat
    BY <1>0, <1>3, <1>n DEF StartCountDown, AllRoundsPlayed
  <2>2. numberOfGame[r] + 1 \in 0 .. TotalNumberOfGame /\ numberOfGame[r] + 1 > 0
    BY <1>n, <2>1
  <2>3. numberOfGame' \in [Rooms -> 0 .. TotalNumberOfGame]
    BY <1>n, <1>3, <2>2 DEF StartCountDown
  <2>4. roomStatus' \in [Rooms -> Statuses]
    BY <1>0, <1>3 DEF StartCountDown, ChangeRoomStatus, TypeOK, Statuses
  <2>5. AllRoundsPlayed'
    BY <1>0, <1>3, <1>n, <2>2 DEF AllRoundsPlayed, StartCountDown, ChangeRoomStatus, TypeOK
  <2> QED
    BY <1>0, <1>1, <1>3, <2>3, <2>4, <2>5
    DEF CountInv, TypeOK, KnownUsers, StartCountDown, dispatchVars, playerVars, tableVars
<1>4. CASE StartRound(r)
  <2>1. PICK starters, idle :
          /\ starters = Without(mapPlayers[r], Preppers(r)) \cup Preppers(r)
          /\ idle = Without(Seated(r), starters)
          /\ mapPlayers' = [mapPlayers EXCEPT ![r] = starters]
          /\ mapBystanders' = [mapBystanders EXCEPT ![r] = Without(@, idle) \cup idle]
          /\ seat' = [seat EXCEPT ![r] = [i \in SeatIdx |-> IF seat[r][i] \in idle
                                                            THEN None ELSE seat[r][i]]]
          /\ seatIndex' = [p \in Objects |-> IF p \in idle THEN -1 ELSE seatIndex[p]]
    BY <1>4 DEF StartRound
  <2>2. starters \subseteq Objects /\ idle \subseteq Objects
    BY <1>0, <2>1 DEF Without, Preppers, Seated, TypeOK
  <2>3. mapPlayers' \in [Rooms -> SUBSET Objects] /\ mapBystanders' \in [Rooms -> SUBSET Objects]
    BY <1>0, <2>1, <2>2 DEF TypeOK, Without
  <2>4. [i \in SeatIdx |-> IF seat[r][i] \in idle THEN None ELSE seat[r][i]]
          \in [SeatIdx -> Objects \cup {None}]
    BY <1>0 DEF TypeOK
  <2>5. seat' \in [Rooms -> [SeatIdx -> Objects \cup {None}]]
    BY <1>0, <2>1, <2>4 DEF TypeOK
  <2>6. seatIndex' \in [Objects -> {-1} \cup SeatIdx]
    BY <1>0, <2>1 DEF TypeOK
  <2>7. roomStatus' \in [Rooms -> Statuses]
    BY <1>0, <1>4 DEF StartRound, ChangeRoomStatus, TypeOK, Statuses
  <2>8. AllRoundsPlayed'
    BY <1>0, <1>4 DEF AllRoundsPlayed, StartRound, ChangeRoomStatus, TypeOK
  <2> QED
    BY <1>0, <1>1, <1>4, <2>3, <2>5, <2>6, <2>7, <2>8
    DEF CountInv, TypeOK, KnownUsers, StartRound, dispatchVars
<1>5. CASE PlayRound(r)
  <2>1. roomStatus' \in [Rooms -> Statuses]
    BY <1>0, <1>5 DEF PlayRound, ChangeRoomStatus, TypeOK, Statuses
  <2>2. AllRoundsPlayed'
    BY <1>0, <1>5 DEF AllRoundsPlayed, PlayRound, ChangeRoomStatus, TypeOK
  <2> QED
    BY <1>0, <1>1, <1>5, <2>1, <2>2
    DEF CountInv, TypeOK, KnownUsers, PlayRound, dispatchVars, playerVars, tableVars
<1>6. CASE GameOver(r)
  <2>1. roomStatus' \in [Rooms -> Statuses] /\ mapPlayers' \in [Rooms -> SUBSET Objects]
    BY <1>0, <1>6 DEF GameOver, ChangeRoomStatus, TypeOK, Statuses
  <2>2. AllRoundsPlayed'
    BY <1>0, <1>6 DEF AllRoundsPlayed, GameOver, HaveNext, ChangeRoomStatus, TypeOK
  <2> QED
    BY <1>0, <1>1, <1>6, <2>1, <2>2
    DEF CountInv, TypeOK, KnownUsers, GameOver, dispatchVars, playerVars
<1>7. CASE ReReady(r)
  <2>k. PICK kept : kept = IF mode[r].faster THEN mapPlayers[r] ELSE {}
    OBVIOUS
  <2>0. PICK G \in SUBSET SeatIdx :
          LET gone == {seat[r][i] : i \in G} \cup {b \in mapBystanders[r] : offline[b]}
          IN /\ mapPlayers' = [mapPlayers EXCEPT ![r] = Without(kept, gone)]
             /\ mapBystanders' = [mapBystanders EXCEPT ![r] = Without(@, gone)]
             /\ seat' = [seat EXCEPT ![r] = SeatsWithout(r, gone)]
             /\ ForgetRoom(gone)
             /\ prepare' = [o \in Objects |->
                  /\ o \notin gone
                  /\ o \in kept \/ (prepare[o] /\ o \notin mapPlayers[r])]
    BY <1>7, <2>k DEF ReReady
  <2>1. PICK gone :
          /\ mapPlayers' = [mapPlayers EXCEPT ![r] = Without(kept, gone)]
          /\ mapBystanders' = [mapBystanders EXCEPT ![r] = Without(@, gone)]
          /\ seat' = [seat EXCEPT ![r] = SeatsWithout(r, gone)]
          /\ ForgetRoom(gone)
          /\ prepare' = [o \in Objects |->
               /\ o \notin gone
               /\ o \in kept \/ (prepare[o] /\ o \notin mapPlayers[r])]
    BY <2>0
  <2>2. kept \subseteq Objects
    BY <1>0, <2>k DEF TypeOK
  <2>3. mapPlayers' \in [Rooms -> SUBSET Objects] /\ mapBystanders' \in [Rooms -> SUBSET Objects]
    BY <1>0, <2>1, <2>2 DEF TypeOK, Without
  <2>4. SeatsWithout(r, gone) \in [SeatIdx -> Objects \cup {None}]
    BY <1>0, SeatsWithoutTyped
  <2>5. seat' \in [Rooms -> [SeatIdx -> Objects \cup {None}]]
    BY <1>0, <2>1, <2>4 DEF TypeOK
  <2>6. /\ room' \in [Objects -> Rooms \cup {None}]
        /\ seatIndex' \in [Objects -> {-1} \cup SeatIdx]
    BY <1>0, <2>1, ForgetRoomTyped
  <2>7. prepare' \in [Objects -> BOOLEAN]
    BY <2>1
  <2>8. roomStatus' \in [Rooms -> Statuses]
    BY <1>0, <1>7 DEF ReReady, ChangeRoomStatus, TypeOK, Statuses
  <2>9. numberOfGame[r] < TotalNumberOfGame
    BY <1>n, <1>7 DEF ReReady, HaveNext
  <2>10. AllRoundsPlayed'
    BY <1>0, <1>7, <2>9 DEF AllRoundsPlayed, ReReady, ChangeRoomStatus, TypeOK
  <2> QED
    BY <1>0, <1>1, <1>7, <2>3, <2>5, <2>6, <2>7, <2>8, <2>10
    DEF CountInv, TypeOK, KnownUsers, ReReady, dispatchVars
<1> QED
  BY <1>2, <1>3, <1>4, <1>5, <1>6, <1>7 DEF RoomTick

THEOREM CountStep == CountInv /\ [Next]_vars => CountInv'
<1> SUFFICES ASSUME CountInv, [Next]_vars PROVE CountInv'
  OBVIOUS
<1>0. TypeOK /\ KnownUsers /\ AllRoundsPlayed
  BY DEF CountInv
<1>1. CASE Timer
  <2>1. chanTimer' \in [Rooms -> 0 .. TimerCap]
    BY <1>0, <1>1, SelfBuildAssumption DEF Timer, TypeOK
  <2> QED
    BY <1>0, <1>1, <2>1
    DEF CountInv, TypeOK, KnownUsers, AllRoundsPlayed, Timer, dispatchVars, playerVars,
        roomVars, gameVars, tableVars
<1>2. CASE \E r \in Rooms : RoomEnds(r)
  BY <1>0, <1>2
  DEF CountInv, TypeOK, KnownUsers, AllRoundsPlayed, RoomEnds, dispatchVars, playerVars,
      gameVars, tableVars, chanVars
<1>3. CASE UNCHANGED vars
  BY <1>0, <1>3
  DEF CountInv, TypeOK, KnownUsers, AllRoundsPlayed, vars, dispatchVars, playerVars,
      roomVars, gameVars, tableVars, chanVars
<1> QED
  BY <1>1, <1>2, <1>3, DispatchCounts, PlayerCounts, MessageCounts, TickCounts DEF Next

\* Every variable keeps its type, and no game counts more rounds than were agreed on.
THEOREM TypeCorrect == Spec => []TypeOK
<1>1. CountInv => TypeOK
  BY DEF CountInv
<1> QED
  BY CountInit, CountStep, <1>1, PTL DEF Spec

\* A game is over after exactly the rounds agreed on.
THEOREM RoundsCounted == Spec => []AllRoundsPlayed
<1>1. CountInv => AllRoundsPlayed
  BY DEF CountInv
<1> QED
  BY CountInit, CountStep, <1>1, PTL DEF Spec

-----------------------------------------------------------------------------
(* A user has one place in a room.                                          *)

\* What OnePlace says of one room with the seats s and the bystanders B.
Placed(s, B) ==
  /\ \A i, j \in SeatIdx :
       s[i] # None /\ s[j] # None /\ Uid(s[i]) = Uid(s[j]) => i = j
  /\ \A b \in B : \A i \in SeatIdx : s[i] # None => Uid(b) # Uid(s[i])
  /\ \A b, c \in B : Uid(b) = Uid(c) => b = c

AllPlaced == \A r \in Rooms : Placed(seat[r], mapBystanders[r])

LEMMA PlacedMeansOnePlace == TypeOK /\ AllPlaced => OnePlace
<1> SUFFICES ASSUME TypeOK, AllPlaced, NEW r \in Rooms
             PROVE  /\ \A i, j \in SeatIdx :
                         seat[r][i] # None /\ seat[r][j] # None
                           /\ Uid(seat[r][i]) = Uid(seat[r][j]) => i = j
                    /\ \A b \in mapBystanders[r] : Uid(b) \notin UidsOf(Seated(r))
                    /\ \A b, c \in mapBystanders[r] : Uid(b) = Uid(c) => b = c
  BY DEF OnePlace
<1>1. Placed(seat[r], mapBystanders[r])
  BY DEF AllPlaced
<1>2. ASSUME NEW b \in mapBystanders[r] PROVE Uid(b) \notin UidsOf(Seated(r))
  <2> SUFFICES ASSUME NEW o \in Seated(r), Uid(b) = Uid(o) PROVE FALSE
    BY DEF UidsOf
  <2>1. PICK i \in SeatIdx : seat[r][i] = o /\ o \in Objects
    BY DEF Seated
  <2>2. seat[r][i] # None
    BY <2>1, NoneIsNoObject
  <2> QED
    BY <1>1, <2>1, <2>2 DEF Placed
<1> QED
  BY <1>1, <1>2 DEF Placed

\* Fewer clients, at the same places or at none.
LEMMA FewerPlaced ==
  ASSUME NEW s, NEW B, Placed(s, B), NEW t, NEW C \in SUBSET B,
         \A i \in SeatIdx : t[i] = None \/ t[i] = s[i]
  PROVE  Placed(t, C)
  BY DEF Placed

LEMMA JoinedPlaced ==
  ASSUME TypeOK, NEW r \in Rooms, NEW o \in Objects, Placed(seat[r], mapBystanders[r])
  PROVE  Placed(seat[r], Joined(r, o))
<1>1. CASE Uid(o) \in UidsOf(Members(r))
  BY <1>1 DEF Joined
<1>2. CASE Uid(o) \notin UidsOf(Members(r))
  <2>1. Joined(r, o) = mapBystanders[r] \cup {o}
    BY <1>2 DEF Joined
  <2>2. \A b \in mapBystanders[r] : Uid(b) # Uid(o)
    BY <1>2 DEF UidsOf, Members
  <2>3. ASSUME NEW i \in SeatIdx, seat[r][i] # None PROVE Uid(seat[r][i]) # Uid(o)
    <3>1. seat[r][i] \in Seated(r)
      BY <2>3 DEF Seated, TypeOK
    <3> QED
      BY <1>2, <3>1 DEF UidsOf, Members
  <2> QED
    BY <2>1, <2>2, <2>3 DEF Placed
<1> QED
  BY <1>1, <1>2

\* Whoever sits down was a bystander of that uid and is one no longer.
LEMMA SitDownPlaced ==
  ASSUME TypeOK, AllPlaced, NEW r \in Rooms, NEW o \in Objects, NEW B \in SUBSET Objects,
         Placed(seat[r], B), SitDown(r, o, B)
  PROVE  AllPlaced'
<1>0. /\ seat \in [Rooms -> [SeatIdx -> Objects \cup {None}]]
      /\ mapBystanders \in [Rooms -> SUBSET Objects]
  BY DEF TypeOK
<1>1. CASE Uid(o) \in UidsOf(B) /\ seatIndex[o] = -1 /\ FreeSeats(r) # {}
  <2>1. PICK i \in FreeSeats(r) :
          /\ seat' = [seat EXCEPT ![r][i] = o]
          /\ mapBystanders' = [mapBystanders EXCEPT ![r] = {b \in B : Uid(b) # Uid(o)}]
    BY <1>1 DEF SitDown
  <2>2. PICK b \in B : Uid(b) = Uid(o)
    BY <1>1 DEF UidsOf
  <2>3. i \in SeatIdx
    BY DEF FreeSeats
  <2>4. /\ seat'[r] = [seat[r] EXCEPT ![i] = o]
        /\ mapBystanders'[r] = {c \in B : Uid(c) # Uid(o)}
        /\ \A q \in Rooms : q # r => seat'[q] = seat[q] /\ mapBystanders'[q] = mapBystanders[q]
    BY <1>0, <2>1
  <2>5. /\ seat'[r][i] = o
        /\ \A j \in SeatIdx : j # i => seat'[r][j] = seat[r][j]
    BY <1>0, <2>3, <2>4
  <2>6. \A j \in SeatIdx : seat[r][j] # None => Uid(seat[r][j]) # Uid(o)
    BY <2>2 DEF Placed
  <2>7. Placed(seat'[r], mapBystanders'[r])
    <3>1. ASSUME NEW j \in SeatIdx, NEW k \in SeatIdx, seat'[r][j] # None,
                 seat'[r][k] # None, Uid(seat'[r][j]) = Uid(seat'[r][k])
          PROVE  j = k
      BY <2>5, <2>6, <3>1 DEF Placed
    <3>2. ASSUME NEW c \in mapBystanders'[r], NEW j \in SeatIdx, seat'[r][j] # None
          PROVE  Uid(c) # Uid(seat'[r][j])
      BY <2>4, <2>5, <3>2 DEF Placed
    <3>3. \A c, d \in mapBystanders'[r] : Uid(c) = Uid(d) => c = d
      BY <2>4 DEF Placed
    <3> QED
      BY <3>1, <3>2, <3>3 DEF Placed
  <2> QED
    BY <2>4, <2>7 DEF AllPlaced
<1>2. CASE ~(Uid(o) \in UidsOf(B) /\ seatIndex[o] = -1 /\ FreeSeats(r) # {})
  <2>1. seat' = seat /\ mapBystanders' = [mapBystanders EXCEPT ![r] = B]
    BY <1>2 DEF SitDown
  <2>2. \A q \in Rooms : mapBystanders'[q] = IF q = r THEN B ELSE mapBystanders[q]
    BY <1>0, <2>1
  <2> QED
    BY <2>1, <2>2 DEF AllPlaced
<1> QED
  BY <1>1, <1>2

LEMMA WithoutFewer ==
  ASSUME TypeOK, AllPlaced, NEW r \in Rooms, NEW S,
         seat' = [seat EXCEPT ![r] = SeatsWithout(r, S)],
         mapBystanders' = [mapBystanders EXCEPT ![r] = Without(@, S)]
  PROVE  AllPlaced'
<1>0. /\ seat \in [Rooms -> [SeatIdx -> Objects \cup {None}]]
      /\ mapBystanders \in [Rooms -> SUBSET Objects]
  BY DEF TypeOK
<1>1. /\ seat'[r] = SeatsWithout(r, S) /\ mapBystanders'[r] = Without(mapBystanders[r], S)
      /\ \A q \in Rooms : q # r => seat'[q] = seat[q] /\ mapBystanders'[q] = mapBystanders[q]
  BY <1>0
<1>2. Placed(seat'[r], mapBystanders'[r])
  <2>1. \A i \in SeatIdx : seat'[r][i] = None \/ seat'[r][i] = seat[r][i]
    BY <1>1 DEF SeatsWithout
  <2>2. mapBystanders'[r] \in SUBSET mapBystanders[r]
    BY <1>1 DEF Without
  <2>3. Placed(seat[r], mapBystanders[r])
    BY DEF AllPlaced
  <2> QED
    BY <2>1, <2>2, <2>3, FewerPlaced
<1> QED
  BY <1>1, <1>2 DEF AllPlaced

LEMMA SamePlaces ==
  ASSUME AllPlaced, UNCHANGED <<seat, mapBystanders>>
  PROVE  AllPlaced'
  BY DEF AllPlaced

LEMMA StartRoundPlaced ==
  ASSUME TypeOK, AllPlaced, NEW r \in Rooms, StartRound(r)
  PROVE  AllPlaced'
<1>0. /\ seat \in [Rooms -> [SeatIdx -> Objects \cup {None}]]
      /\ mapBystanders \in [Rooms -> SUBSET Objects]
  BY DEF TypeOK
<1>1. PICK starters, idle :
        /\ idle = Without(Seated(r), starters)
        /\ mapBystanders' = [mapBystanders EXCEPT ![r] = Without(@, idle) \cup idle]
        /\ seat' = [seat EXCEPT ![r] = [i \in SeatIdx |-> IF seat[r][i] \in idle
                                                          THEN None ELSE seat[r][i]]]
  BY DEF StartRound
<1>2. /\ mapBystanders'[r] = Without(mapBystanders[r], idle) \cup idle
      /\ seat'[r] = [i \in SeatIdx |-> IF seat[r][i] \in idle THEN None ELSE seat[r][i]]
      /\ \A q \in Rooms : q # r => seat'[q] = seat[q] /\ mapBystanders'[q] = mapBystanders[q]
  BY <1>0, <1>1
<1>3. Placed(seat[r], mapBystanders[r])
  BY DEF AllPlaced
<1>4. \A c \in idle : \E i \in SeatIdx : seat[r][i] = c /\ seat[r][i] # None
  BY <1>1, NoneIsNoObject DEF Without, Seated
<1>5. \A b \in Without(mapBystanders[r], idle) :
        b \in mapBystanders[r] /\ \A c \in idle : Uid(b) # Uid(c)
  BY DEF Without, UidsOf
<1>6. Placed(seat'[r], mapBystanders'[r])
  <2>1. \A i \in SeatIdx : seat'[r][i] # None => seat'[r][i] = seat[r][i] /\ seat[r][i] \notin idle
    BY <1>2
  <2>2. \A i, j \in SeatIdx :
          seat'[r][i] # None /\ seat'[r][j] # None /\ Uid(seat'[r][i]) = Uid(seat'[r][j]) => i = j
    BY <1>3, <2>1 DEF Placed
  <2>3. ASSUME NEW b \in mapBystanders'[r], NEW i \in SeatIdx, seat'[r][i] # None
        PROVE  Uid(b) # Uid(seat'[r][i])
    <3>1. CASE b \in idle
      <4>1. PICK j \in SeatIdx : seat[r][j] = b /\ seat[r][j] # None
        BY <1>4, <3>1
      <4>2. seat'[r][i] = seat[r][i] /\ seat[r][i] # None /\ i # j
        BY <2>1, <2>3, <3>1, <4>1
      <4> QED
        BY <1>3, <4>1, <4>2 DEF Placed
    <3>2. CASE b \in Without(mapBystanders[r], idle)
      BY <1>3, <1>5, <2>1, <2>3, <3>2 DEF Placed
    <3> QED
      BY <1>2, <3>1, <3>2
  <2>4. ASSUME NEW b \in mapBystanders'[r], NEW c \in mapBystanders'[r], Uid(b) = Uid(c)
        PROVE  b = c
    <3>1. CASE b \in idle /\ c \in idle
      BY <1>3, <1>4, <2>4, <3>1 DEF Placed
    <3>2. CASE b \in Without(mapBystanders[r], idle) /\ c \in Without(mapBystanders[r], idle)
      BY <1>3, <1>5, <2>4, <3>2 DEF Placed
    <3> QED
      BY <1>2, <1>5, <2>4, <3>1, <3>2
  <2> QED
    BY <2>2, <2>3, <2>4 DEF Placed
<1> QED
  BY <1>2, <1>6 DEF AllPlaced

THEOREM PlacesInit == Init => AllPlaced
  BY DEF Init, AllPlaced, Placed, Rooms

THEOREM PlacesStep == TypeOK /\ AllPlaced /\ [Next]_vars => AllPlaced'
<1> SUFFICES ASSUME TypeOK, AllPlaced, [Next]_vars PROVE AllPlaced'
  OBVIOUS
<1>1. ASSUME NEW u \in Uids, Dispatch(u) PROVE AllPlaced'
  BY <1>1, SamePlaces
  DEF Dispatch, DispatchCreate, DispatchEnter, DispatchLeave, DispatchDisconnect,
      DispatchToRoom, roomVars, tableVars
<1>2. ASSUME NEW o \in Objects, PlayerRun(o) PROVE AllPlaced'
  <2>1. CASE PlayerCreate(o)
    <3>1. CASE UNCHANGED <<seat, mapBystanders>>
      BY <3>1, SamePlaces
    <3>2. CASE /\ seat' = [seat EXCEPT ![o] = [i \in SeatIdx |-> IF i = 0 THEN o ELSE None]]
               /\ mapBystanders' = [mapBystanders EXCEPT ![o] = {}]
      <4>1. /\ seat'[o] = [i \in SeatIdx |-> IF i = 0 THEN o ELSE None]
            /\ mapBystanders'[o] = {}
            /\ \A q \in Rooms : q # o => seat'[q] = seat[q] /\ mapBystanders'[q] = mapBystanders[q]
        BY <3>2 DEF TypeOK, Rooms
      <4>2. Placed(seat'[o], mapBystanders'[o])
        BY <4>1 DEF Placed
      <4> QED
        BY <4>1, <4>2 DEF AllPlaced
    <3> QED
      BY <2>1, <3>1, <3>2 DEF PlayerCreate, roomVars, tableVars
  <2>2. CASE PlayerEnterOwn(o)
    <3>1. o \in Rooms
      BY DEF Rooms
    <3>2. Joined(o, o) \in SUBSET Objects
      BY <3>1, JoinedTyped
    <3>3. Placed(seat[o], mapBystanders[o])
      BY <3>1 DEF AllPlaced
    <3>4. Placed(seat[o], Joined(o, o))
      BY <3>1, <3>3, JoinedPlaced
    <3> QED
      BY <2>2, <3>1, <3>2, <3>4, SitDownPlaced DEF PlayerEnterOwn
  <2> QED
    BY <1>2, <2>1, <2>2, SamePlaces
    DEF PlayerRun, PlayerEnter, PlayerLeave, PlayerDisconnect, roomVars, tableVars
<1>3. ASSUME NEW r \in Rooms, RoomTakesMessage(r) PROVE AllPlaced'
  <2>p. PICK o \in Objects : \/ RoomIgnores(r, o)
                             \/ RoomEnter(r, o)
                             \/ RoomLeave(r, o)
                             \/ RoomHaveASeat(r, o)
                             \/ RoomReady(r, o)
    BY <1>3 DEF RoomTakesMessage
  <2>0. Placed(seat[r], mapBystanders[r]) /\ mapBystanders[r] \in SUBSET Objects
    BY DEF AllPlaced, TypeOK
  <2>1. CASE RoomEnter(r, o)
    <3>1. Placed(seat[r], Joined(r, o))
      BY <2>0, JoinedPlaced
    <3>2. seat' = seat /\ mapBystanders' = [mapBystanders EXCEPT ![r] = Joined(r, o)]
      BY <2>1 DEF RoomEnter
    <3>3. \A q \in Rooms : mapBystanders'[q] = IF q = r THEN Joined(r, o) ELSE mapBystanders[q]
      BY <3>2 DEF TypeOK
    <3> QED
      BY <3>1, <3>2, <3>3 DEF AllPlaced
  <2>2. CASE RoomLeave(r, o)
    BY <2>2, WithoutFewer DEF RoomLeave
  <2>3. CASE RoomHaveASeat(r, o)
    BY <2>0, <2>3, SitDownPlaced DEF RoomHaveASeat
  <2> QED
    BY <2>p, <2>1, <2>2, <2>3, SamePlaces DEF RoomIgnores, RoomReady, roomVars, tableVars
<1>4. ASSUME NEW r \in Rooms, RoomTick(r) PROVE AllPlaced'
  <2>1. CASE ReReady(r)
    <3>1. PICK S : /\ seat' = [seat EXCEPT ![r] = SeatsWithout(r, S)]
                   /\ mapBystanders' = [mapBystanders EXCEPT ![r] = Without(@, S)]
      BY <2>1 DEF ReReady
    <3> QED
      BY <3>1, WithoutFewer
  <2>2. CASE StartRound(r)
    BY <2>2, StartRoundPlaced
  <2> QED
    BY <1>4, <2>1, <2>2, SamePlaces
    DEF RoomTick, KeepWaiting, StartCountDown, PlayRound, GameOver, roomVars, tableVars
<1>5. CASE Timer \/ (\E r \in Rooms : RoomEnds(r)) \/ UNCHANGED vars
  BY <1>5, SamePlaces DEF Timer, RoomEnds, vars, roomVars, tableVars
<1> QED
  BY <1>1, <1>2, <1>3, <1>4, <1>5 DEF Next

\* Whatever objects a user has, and whichever of them a room holds, the user is on
\* one seat of it or once among its bystanders.
THEOREM OnePlaceOnly == Spec => []OnePlace
  BY CountInit, CountStep, PlacesInit, PlacesStep, PlacedMeansOnePlace, TypeCorrect, PTL
  DEF Spec
=============================================================================
