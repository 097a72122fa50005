--------------------------- MODULE NiuniuRoomProofs ---------------------------
(***************************************************************************)
(* The safety of NiuniuRoom, for every set of users, table size, capacity, *)
(* configuration and mix of requests that RoomAssumption allows: its types,*)
(* who sits where, what redis says of it, who is prepared, who may lose a  *)
(* seat, the round the room implements, and whom a player object points at.*)
(***************************************************************************)
EXTENDS NiuniuRoom, FiniteSetTheorems, SequenceTheorems, TLAPS

-----------------------------------------------------------------------------
(* What the queues hold.                                                    *)

\* Room.Handle keeps the room's channel a sequence of room messages.
LEMMA RoomHandleType ==
  ASSUME TypeOK, NEW u \in Uids, NEW id \in PlayerMsgs \cup TableMsgs, NEW rate \in Nat,
         RoomHandle(u, id, rate)
  PROVE  chanClientAndMsg' \in Seq(RoomMsg)
<1>1. [from |-> u, id |-> id, rate |-> rate] \in RoomMsg
  BY DEF RoomMsg
<1>2. QED
  BY <1>1 DEF RoomHandle, TypeOK

\* Player.Handle keeps every player's inbox a sequence of player messages.
LEMMA PlayerHandleType ==
  ASSUME TypeOK, NEW u \in Uids, NEW id \in PlayerMsgs, PlayerHandle(u, id)
  PROVE  chanConnData' \in [Uids -> Seq(PlayerMsgs)]
BY DEF PlayerHandle, TypeOK

\* A goroutine that takes a message leaves its channel well typed.
LEMMA TakeTypes ==
  ASSUME TypeOK, NEW u \in Uids, NEW id
  PROVE  /\ TakeFromPlayer(u, id) => chanConnData' \in [Uids -> Seq(PlayerMsgs)]
         /\ TakeFromRoom(u, id) => /\ chanClientAndMsg' \in Seq(RoomMsg)
                                   /\ Head(chanClientAndMsg).rate \in Nat
<1>1. TakeFromPlayer(u, id) => chanConnData' \in [Uids -> Seq(PlayerMsgs)]
  BY DEF TakeFromPlayer, TypeOK
<1>2. ASSUME TakeFromRoom(u, id)
      PROVE  /\ chanClientAndMsg' \in Seq(RoomMsg) /\ Head(chanClientAndMsg).rate \in Nat
  <2>1. chanClientAndMsg \in Seq(RoomMsg) /\ chanClientAndMsg # <<>>
    BY <1>2 DEF TakeFromRoom, TypeOK
  <2>2. Head(chanClientAndMsg) \in RoomMsg /\ Tail(chanClientAndMsg) \in Seq(RoomMsg)
    BY <2>1
  <2>3. QED
    BY <1>2, <2>2 DEF TakeFromRoom, RoomMsg
<1>3. QED
  BY <1>1, <1>2

\* Dealing leaves a number of cards in the heap and hands of at most MaxHand cards.
LEMMA DealType ==
  ASSUME TypeOK, NEW P \in SUBSET Uids, NEW cnt \in Nat, NEW least, Deal(P, cnt, least)
  PROVE  cardHeap' \in Int /\ handCards' \in [Uids -> 0 .. MaxHand]
<1>1. PICK S \in SUBSET P :
        /\ cardHeap' = cardHeap - Cardinality(S) * cnt
        /\ handCards' = [u \in Uids |-> IF u \in S THEN Least(handCards[u] + cnt, MaxHand)
                                        ELSE handCards[u]]
  BY DEF Deal
<1>2. Cardinality(S) \in Nat
  BY RoomAssumption, FS_Subset, FS_CardinalityType DEF RoomAssumption
<1>3. \A u \in Uids : Least(handCards[u] + cnt, MaxHand) \in 0 .. MaxHand
  BY RoomAssumption DEF RoomAssumption, TypeOK, Least
<1>4. cardHeap' \in Int
  BY <1>1, <1>2 DEF TypeOK
<1>5. handCards' \in [Uids -> 0 .. MaxHand]
  BY <1>1, <1>3 DEF TypeOK
<1>6. QED
  BY <1>4, <1>5

-----------------------------------------------------------------------------
(* Type correctness.                                                        *)

\* The types of the redis keys and of what is known of the calls on them.
RedisTypes ==
  /\ redisSeat \in [SeatIdx -> Uids \cup {Nobody}] /\ redisRoomId \subseteq Uids
  /\ staleSeat \subseteq SeatIdx /\ staleRoomId \subseteq Uids

LEMMA RedisCallsType ==
  ASSUME TypeOK, NEW at \in SUBSET SeatIdx, NEW occupant \in Uids \cup {Nobody},
         NEW who \in SUBSET Uids, NEW here, RedisCalls(at, occupant, who, here)
  PROVE  RedisTypes'
BY DEF TypeOK, RedisTypes, RedisCalls

\* Removing users leaves the table, the redis keys and the player objects well typed.
LEMMA RemovalTypes ==
  ASSUME TypeOK, NEW S \in SUBSET Uids
  PROVE  /\ VacateSeats(S) => seat' \in [SeatIdx -> Uids \cup {Nobody}]
         /\ ForgetRedisSeats(S) => RedisTypes'
         /\ StandUp(S) => seatIndex' \in [Uids -> {-1} \cup SeatIdx]
         /\ UnPrepare(S) => prepare' \in [Uids -> BOOLEAN]
         /\ LeaveRoom(S) => inRoom' \in [Uids -> BOOLEAN]
<1>1. VacateSeats(S) => seat' \in [SeatIdx -> Uids \cup {Nobody}]
  BY DEF TypeOK, VacateSeats
<1>2. ForgetRedisSeats(S) => RedisTypes'
  BY RedisCallsType DEF ForgetRedisSeats
<1>3. StandUp(S) => seatIndex' \in [Uids -> {-1} \cup SeatIdx]
  BY DEF TypeOK, StandUp
<1>4. UnPrepare(S) => prepare' \in [Uids -> BOOLEAN]
  BY Zenon DEF TypeOK, UnPrepare
<1>5. LeaveRoom(S) => inRoom' \in [Uids -> BOOLEAN]
  BY Zenon DEF TypeOK, LeaveRoom
<1>6. QED
  BY <1>1, <1>2, <1>3, <1>4, <1>5

\* Whatever the dispatcher does with a message of u, the types hold.
LEMMA DispatchType ==
  ASSUME TypeOK, NEW u \in Uids, Dispatch(u)
  PROVE  TypeOK'
<1>1. CASE DispatchEnter(u)
  <2>1. chanConnData' \in [Uids -> Seq(PlayerMsgs)]
    BY <1>1, PlayerHandleType DEF DispatchEnter, PlayerMsgs
  <2>2. QED
    BY <1>1, <2>1 DEF TypeOK, DispatchEnter, clockVars, tableVars, redisVars, roundVars
<1>2. CASE DispatchLeave(u)
  <2>1. chanConnData' \in [Uids -> Seq(PlayerMsgs)]
    BY <1>2, PlayerHandleType DEF DispatchLeave, PlayerMsgs
  <2>2. QED
    BY <1>2, <2>1 DEF TypeOK, DispatchLeave, clockVars, tableVars, redisVars,
               roundVars, playerVars
<1>3. CASE DispatchDisconnect(u)
  <2>1. chanConnData' \in [Uids -> Seq(PlayerMsgs)]
    BY <1>3, PlayerHandleType DEF DispatchDisconnect, PlayerMsgs
  <2>2. QED
    BY <1>3, <2>1 DEF TypeOK, DispatchDisconnect, clockVars, tableVars, redisVars,
               roundVars, playerVars
<1>4. ASSUME NEW id \in TableMsgs, NEW rate \in Nat, DispatchToRoom(u, id, rate)
      PROVE  TypeOK'
  <2>1. chanClientAndMsg' \in Seq(RoomMsg)
    BY <1>4, RoomHandleType DEF DispatchToRoom
  <2>2. QED
    BY <1>4, <2>1 DEF TypeOK, DispatchToRoom, clockVars, tableVars, redisVars,
               roundVars, playerVars
<1>5. QED
  BY <1>1, <1>2, <1>3, <1>4, RoomAssumption DEF Dispatch, RoomAssumption, TableMsgs

\* A step of u's own goroutine preserves the types.
LEMMA PlayerRunType ==
  ASSUME TypeOK, NEW u \in Uids, PlayerRun(u)
  PROVE  TypeOK'
<1>1. chanConnData' \in [Uids -> Seq(PlayerMsgs)]
  BY TakeTypes DEF PlayerRun, PlayerEnter, PlayerLeave, PlayerDisconnect
<1>2. CASE PlayerEnter(u)
  <2>1. chanClientAndMsg' \in Seq(RoomMsg)
    BY <1>2, RoomHandleType DEF PlayerEnter, PlayerMsgs
  <2>2. QED
    BY <1>1, <1>2, <2>1 DEF TypeOK, PlayerEnter, clockVars, tableVars, redisVars, roundVars
<1>3. CASE PlayerLeave(u)
  <2>1. chanClientAndMsg' \in Seq(RoomMsg)
    BY <1>3, RoomHandleType DEF PlayerLeave, PlayerMsgs, TypeOK
  <2>2. QED
    BY <1>1, <1>3, <2>1 DEF TypeOK, PlayerLeave, clockVars, tableVars, redisVars, roundVars
<1>4. CASE PlayerDisconnect(u)
  <2>1. chanClientAndMsg' \in Seq(RoomMsg)
    BY <1>4, RoomHandleType DEF PlayerDisconnect, PlayerMsgs, TypeOK
  <2>2. QED
    BY <1>1, <1>4, <2>1 DEF TypeOK, PlayerDisconnect, clockVars, tableVars, redisVars, roundVars
<1>5. QED
  BY <1>2, <1>3, <1>4 DEF PlayerRun

\* The room's handling of a message of u preserves the types.
LEMMA RoomMessageType ==
  ASSUME TypeOK, NEW u \in Uids, RoomTakesMessage(u)
  PROVE  TypeOK'
<1>1. chanClientAndMsg' \in Seq(RoomMsg)
  BY TakeTypes DEF RoomTakesMessage, RoomEnter, RoomLeave, RoomHaveASeat, RoomReady,
                   RoomRobZhuang, RoomBet, RoomShowCard
<1>2. CASE RoomEnter(u)
  <2>1. mapBystanders' \subseteq Uids
    BY <1>2 DEF TypeOK, RoomEnter
  <2>2. RedisTypes'
    <3>1. CASE seatIndex[u] > -1
      <4>1. RedisCalls({seatIndex[u]}, u, {u}, TRUE)
        BY <1>2, <3>1 DEF RoomEnter, RememberRedisSeat
      <4>2. seatIndex[u] \in {-1} \cup SeatIdx /\ seatIndex[u] # -1
        BY <3>1 DEF TypeOK
      <4>3. QED
        BY <4>1, <4>2, RedisCallsType
    <3>2. CASE ~(seatIndex[u] > -1)
      BY <1>2, <3>2 DEF TypeOK, RoomEnter, redisVars, RedisTypes
    <3>3. QED
      BY <3>1, <3>2
  <2>3. /\ UNCHANGED <<clockVars, seat, mapPlayers, roundVars, playerVars>>
        /\ UNCHANGED <<connected, chanConnData>>
    BY <1>2 DEF RoomEnter
  <2>4. QED
    BY <1>1, <2>1, <2>2, <2>3 DEF TypeOK, RedisTypes, clockVars, roundVars, playerVars
<1>3. CASE RoomLeave(u)
  BY <1>1, <1>3, RemovalTypes DEF TypeOK, RedisTypes, RoomLeave, clockVars, roundVars
<1>4. CASE RoomHaveASeat(u)
  <2>1. CASE u \in mapBystanders /\ seatIndex[u] = -1 /\ FreeSeats # {}
    <3>1. PICK i \in SeatIdx :
            /\ seat' = [seat EXCEPT ![i] = u]
            /\ seatIndex' = [seatIndex EXCEPT ![u] = i]
            /\ mapBystanders' = mapBystanders \ {u}
            /\ RedisCalls({i}, u, {u}, TRUE)
      BY <1>4, <2>1 DEF RoomHaveASeat, RememberRedisSeat, FreeSeats
    <3>2. seat' \in [SeatIdx -> Uids \cup {Nobody}] /\ RedisTypes'
      BY <3>1, RedisCallsType DEF TypeOK
    <3>3. seatIndex' \in [Uids -> {-1} \cup SeatIdx] /\ mapBystanders' \subseteq Uids
      BY <3>1 DEF TypeOK
    <3>4. QED
      BY <1>1, <1>4, <3>2, <3>3 DEF TypeOK, RedisTypes, RoomHaveASeat, clockVars, roundVars
  <2>2. CASE ~(u \in mapBystanders /\ seatIndex[u] = -1 /\ FreeSeats # {})
    BY <1>1, <1>4, <2>2 DEF TypeOK, RoomHaveASeat, redisVars, clockVars, roundVars
  <2>3. QED
    BY <2>1, <2>2
<1>5. CASE RoomReady(u)
  BY <1>1, <1>5 DEF TypeOK, RoomReady, clockVars, tableVars, redisVars, roundVars
<1>6. CASE RoomRobZhuang(u)
  <2>1. Head(chanClientAndMsg).rate \in Nat
    BY <1>6, TakeTypes DEF RoomRobZhuang
  <2>2. QED
    BY <1>1, <1>6, <2>1 DEF TypeOK, RoomRobZhuang, clockVars, tableVars, redisVars, playerVars
<1>7. CASE RoomBet(u)
  <2>1. Head(chanClientAndMsg).rate \in Nat
    BY <1>7, TakeTypes DEF RoomBet
  <2>2. QED
    BY <1>1, <1>7, <2>1 DEF TypeOK, RoomBet, clockVars, tableVars, redisVars, playerVars
<1>8. CASE RoomShowCard(u)
  BY <1>1, <1>8 DEF TypeOK, RoomShowCard, clockVars, tableVars, redisVars, playerVars
<1>9. QED
  BY <1>2, <1>3, <1>4, <1>5, <1>6, <1>7, <1>8 DEF RoomTakesMessage

\* One tick preserves the types, whatever the status.
LEMMA TickType ==
  ASSUME TypeOK, Tick
  PROVE  TypeOK'
<1> DEFINE elapsed(gap) == Least(waited + gap, MaxWait)
<1>1. PICK gap \in 1 .. MaxGap :
        \/ KeepWaiting(elapsed(gap))
        \/ StartCountDown(elapsed(gap))
        \/ StartRound(elapsed(gap))
        \/ ConfirmBanker(elapsed(gap))
        \/ CloseBets(elapsed(gap))
        \/ ShowCards(elapsed(gap))
        \/ SettleRound(elapsed(gap))
        \/ FinishRound(elapsed(gap))
  BY DEF Tick
<1>2. elapsed(gap) \in 0 .. MaxWait
  BY RoomAssumption DEF RoomAssumption, TypeOK, Least
<1>3. UNCHANGED chanVars
  BY DEF Tick
<1>4. \A s \in Statuses : ChangeRoomStatus(s) => roomStatus' \in Statuses /\ waited' \in 0 .. MaxWait
  BY RoomAssumption DEF RoomAssumption, ChangeRoomStatus
<1>5. StayInStatus(elapsed(gap)) => roomStatus' \in Statuses /\ waited' \in 0 .. MaxWait
  BY <1>2 DEF StayInStatus, TypeOK
<1> HIDE DEF elapsed
<1>6. CASE KeepWaiting(elapsed(gap))
  BY <1>3, <1>5, <1>6 DEF TypeOK, KeepWaiting, tableVars, redisVars, roundVars, playerVars,
                          chanVars
<1>7. CASE StartCountDown(elapsed(gap))
  BY <1>3, <1>4, <1>7 DEF TypeOK, StartCountDown, Statuses, tableVars, redisVars, roundVars,
                          playerVars, chanVars
<1>8. CASE StartRound(elapsed(gap))
  <2> DEFINE starters == mapPlayers \cup Preppers
             idle     == Seated \ starters
  <2>1. starters \in SUBSET Uids /\ idle \in SUBSET Uids
    BY DEF TypeOK, Preppers, Seated
  <2>2. cardHeap' \in Int /\ handCards' \in [Uids -> 0 .. MaxHand]
    <3>1. CASE KnownCard
      BY <1>8, <2>1, <3>1, DealType DEF StartRound
    <3>2. CASE ~KnownCard
      BY <1>8, <3>2 DEF StartRound, TypeOK
    <3>3. QED
      BY <3>1, <3>2
  <2>3. /\ seat' \in [SeatIdx -> Uids \cup {Nobody}]
        /\ mapPlayers' \subseteq Uids /\ mapBystanders' \subseteq Uids
    BY <1>8, <2>1 DEF StartRound, TypeOK
  <2>4. RedisTypes' /\ seatIndex' \in [Uids -> {-1} \cup SeatIdx]
    BY <1>8, <2>1, RemovalTypes DEF StartRound
  <2>5. roomStatus' \in Statuses /\ waited' \in 0 .. MaxWait
    BY <1>4, <1>8 DEF StartRound, Statuses
  <2>6. QED
    BY <1>3, <1>8, <2>2, <2>3, <2>4, <2>5 DEF TypeOK, RedisTypes, StartRound, chanVars
<1>9. CASE ConfirmBanker(elapsed(gap))
  <2>1. bankerId' \in Uids \cup {Nobody} /\ mapRobZhuang' \in [Uids -> Nat]
    BY <1>9 DEF TypeOK, ConfirmBanker
  <2>2. roomStatus' \in Statuses /\ waited' \in 0 .. MaxWait
    BY <1>4, <1>9 DEF ConfirmBanker, Statuses
  <2>3. QED
    BY <1>3, <1>9, <2>1, <2>2 DEF TypeOK, ConfirmBanker, tableVars, redisVars, playerVars, chanVars
<1>10. CASE CloseBets(elapsed(gap))
  <2>1. mapBet' \in [Uids -> Nat]
    BY <1>10, RoomAssumption DEF RoomAssumption, TypeOK, CloseBets
  <2>2. cardHeap' \in Int /\ handCards' \in [Uids -> 0 .. MaxHand]
    <3>1. mapPlayers \in SUBSET Uids
      BY DEF TypeOK
    <3>2. Deal(mapPlayers, 1, 1) \/ Deal(mapPlayers, 5, 5)
      BY <1>10 DEF CloseBets
    <3>3. QED
      BY <3>1, <3>2, DealType
  <2>3. roomStatus' \in Statuses /\ waited' \in 0 .. MaxWait
    BY <1>4, <1>10 DEF CloseBets, Statuses
  <2>4. QED
    BY <1>3, <1>10, <2>1, <2>2, <2>3 DEF TypeOK, CloseBets, tableVars, redisVars, chanVars
<1>11. CASE ShowCards(elapsed(gap))
  <2>1. mapShowCard' \subseteq Uids
    BY <1>11 DEF TypeOK, ShowCards, BankerShows
  <2>2. roomStatus' \in Statuses /\ waited' \in 0 .. MaxWait
    BY <1>4, <1>5, <1>11 DEF ShowCards, Statuses
  <2>3. QED
    BY <1>3, <1>11, <2>1, <2>2 DEF TypeOK, ShowCards, tableVars, redisVars, playerVars, chanVars
<1>12. CASE SettleRound(elapsed(gap))
  <2>1. mapWinOrLose' \subseteq Uids
    BY <1>12 DEF TypeOK, SettleRound
  <2>2. roomStatus' \in Statuses /\ waited' \in 0 .. MaxWait
    BY <1>5, <1>12 DEF SettleRound
  <2>3. QED
    BY <1>3, <1>12, <2>1, <2>2 DEF TypeOK, SettleRound, tableVars, redisVars, playerVars, chanVars
<1>13. CASE FinishRound(elapsed(gap))
  <2>0. Gone \in SUBSET Uids /\ Gone \cap Seated \in SUBSET Uids
        /\ Gone \cup mapPlayers \in SUBSET Uids
    BY DEF TypeOK, Gone, Members, Seated
  <2>1. /\ seat' \in [SeatIdx -> Uids \cup {Nobody}] /\ RedisTypes'
        /\ seatIndex' \in [Uids -> {-1} \cup SeatIdx]
        /\ prepare' \in [Uids -> BOOLEAN] /\ inRoom' \in [Uids -> BOOLEAN]
    BY <1>13, <2>0, RemovalTypes DEF FinishRound
  <2>2. /\ mapRobZhuang' \in [Uids -> Nat] /\ mapBet' \in [Uids -> Nat]
        /\ handCards' \in [Uids -> 0 .. MaxHand] /\ cardHeap' \in Int
    BY <1>13, RoomAssumption DEF RoomAssumption, TypeOK, FinishRound, ReReady
  <2>3. roomStatus' \in Statuses /\ waited' \in 0 .. MaxWait
    BY <1>4, <1>13 DEF FinishRound, ReReady, Statuses
  <2>4. QED
    BY <1>3, <1>13, <2>1, <2>2, <2>3 DEF TypeOK, RedisTypes, FinishRound, ReReady, chanVars
<1>14. QED
  BY <1>1, <1>6, <1>7, <1>8, <1>9, <1>10, <1>11, <1>12, <1>13

\* Every variable keeps the type of the Go field it stands for.
THEOREM TypeCorrect == Spec => []TypeOK
<1>1. Init => TypeOK
  <2> SUFFICES ASSUME Init
               PROVE  TypeOK
    OBVIOUS
  <2>1. roomStatus \in Statuses /\ waited \in 0 .. MaxWait
    BY RoomAssumption DEF RoomAssumption, Init, Statuses
  <2>2. cardHeap \in Int /\ handCards \in [Uids -> 0 .. MaxHand]
    BY RoomAssumption DEF RoomAssumption, Init
  <2>3. chanConnData \in [Uids -> Seq(PlayerMsgs)] /\ chanClientAndMsg \in Seq(RoomMsg)
    BY DEF Init
  <2>4. /\ seatIndex \in [Uids -> {-1} \cup SeatIdx]
        /\ mapRobZhuang \in [Uids -> Nat] /\ mapBet \in [Uids -> Nat]
    BY DEF Init
  <2>5. QED
    BY <2>1, <2>2, <2>3, <2>4 DEF Init, TypeOK
<1>2. TypeOK /\ [Next]_vars => TypeOK'
  <2> SUFFICES ASSUME TypeOK, [Next]_vars
               PROVE  TypeOK'
    OBVIOUS
  <2>1. CASE Next
    BY <2>1, DispatchType, PlayerRunType, RoomMessageType, TickType DEF Next
  <2>2. CASE UNCHANGED vars
    BY <2>2 DEF TypeOK, vars, clockVars, tableVars, redisVars, roundVars, playerVars, chanVars
  <2>3. QED
    BY <2>1, <2>2
<1>3. QED
  BY <1>1, <1>2, PTL DEF Spec


-----------------------------------------------------------------------------
(* The table. The three properties of the seats hold each other up: a      *)
(* prepared user is seated only because seat and player object agree, and  *)
(* the keys removed from redis are right only because they agree too.      *)

\* What NoGhostSeats needs to be inductive: as long as no key expires, redis holds what
\* the room has, key by key, but where the last call was lost.
RedisAsSeated ==
  /\ \A i \in SeatIdx : redisSeat[i] = seat[i] \/ i \in staleSeat
  /\ \A u \in Uids : (u \in redisRoomId <=> u \in Seated) \/ u \in staleRoomId

TableInv == SeatsAgree /\ RedisAsSeated /\ PreparedAreSeated

\* What n calls on redis leave: the keys called hold what was asked for, or are stale,
\* and the others are as they were.
LEMMA RedisCallsEffect ==
  ASSUME TypeOK, NEW at \in SUBSET SeatIdx, NEW occupant, NEW who \in SUBSET Uids,
         NEW here \in BOOLEAN, RedisCalls(at, occupant, who, here)
  PROVE  /\ \A i \in at : redisSeat'[i] = occupant \/ i \in staleSeat'
         /\ \A i \in SeatIdx \ at : /\ redisSeat'[i] = redisSeat[i]
                                    /\ i \in staleSeat' <=> i \in staleSeat
         /\ \A u \in who : (u \in redisRoomId' <=> here) \/ u \in staleRoomId'
         /\ \A u \in Uids \ who : /\ u \in redisRoomId' <=> u \in redisRoomId
                                  /\ u \in staleRoomId' <=> u \in staleRoomId
BY DEF TypeOK, RedisCalls

\* A user's two keys set: redis has the user where the room has.
LEMMA RememberedSeat ==
  ASSUME TypeOK, RedisAsSeated, NEW i \in SeatIdx, NEW u \in Uids, RedisCalls({i}, u, {u}, TRUE),
         seat'[i] = u, \A j \in SeatIdx \ {i} : seat'[j] = seat[j],
         \A v \in Uids : v \in Seated' <=> v \in Seated \/ v = u
  PROVE  RedisAsSeated'
<1>1. /\ redisSeat'[i] = u \/ i \in staleSeat'
      /\ \A j \in SeatIdx \ {i} : redisSeat'[j] = redisSeat[j] /\ (j \in staleSeat' <=> j \in staleSeat)
      /\ u \in redisRoomId' \/ u \in staleRoomId'
      /\ \A v \in Uids \ {u} : /\ v \in redisRoomId' <=> v \in redisRoomId
                               /\ v \in staleRoomId' <=> v \in staleRoomId
  <2>1. {i} \in SUBSET SeatIdx /\ {u} \in SUBSET Uids /\ TRUE \in BOOLEAN
    OBVIOUS
  <2>2. QED
    BY <2>1, RedisCallsEffect
<1>2. ASSUME NEW j \in SeatIdx PROVE redisSeat'[j] = seat'[j] \/ j \in staleSeat'
  BY <1>1 DEF RedisAsSeated
<1>3. ASSUME NEW v \in Uids PROVE (v \in redisRoomId' <=> v \in Seated') \/ v \in staleRoomId'
  BY <1>1 DEF RedisAsSeated
<1>4. QED
  BY <1>2, <1>3 DEF RedisAsSeated

\* The variables the table is made of, those of the player objects included.
seatingVars == <<tableVars, seatIndex, prepare>>

\* The player object knows whether its user is seated.
LEMMA SeatedByIndex ==
  ASSUME TypeOK, SeatsAgree
  PROVE  /\ \A u \in Uids : u \in Seated <=> seatIndex[u] # -1
         /\ mapPlayers \subseteq Seated
<1>1. ASSUME NEW u \in Uids, u \in Seated
      PROVE  seatIndex[u] # -1
  <2>1. PICK i \in SeatIdx : seat[i] = u
    BY <1>1 DEF Seated
  <2>2. seatIndex[u] = i
    BY <2>1, RoomAssumption DEF RoomAssumption, SeatsAgree
  <2>3. QED
    BY <2>2 DEF SeatIdx
<1>2. ASSUME NEW u \in Uids, seatIndex[u] # -1
      PROVE  u \in Seated
  <2>1. seatIndex[u] \in SeatIdx
    BY <1>2 DEF TypeOK
  <2>2. seat[seatIndex[u]] = u
    BY <1>2 DEF SeatsAgree
  <2>3. QED
    BY <2>1, <2>2 DEF Seated
<1>3. QED
  BY <1>1, <1>2 DEF TypeOK, SeatsAgree

\* Clearing the seats that the players of S remember clears the seats they are on.
LEMMA VacatedSeats ==
  ASSUME TypeOK, SeatsAgree, NEW S \in SUBSET Uids, VacateSeats(S)
  PROVE  seat' = [i \in SeatIdx |-> IF seat[i] \in S THEN Nobody ELSE seat[i]]
<1>1. \A i \in SeatIdx : (\E u \in S : seatIndex[u] = i) <=> seat[i] \in S
  <2>1. ASSUME NEW i \in SeatIdx, NEW u \in S, seatIndex[u] = i
        PROVE  seat[i] \in S
    BY <2>1 DEF SeatsAgree, SeatIdx
  <2>2. ASSUME NEW i \in SeatIdx, seat[i] \in S
        PROVE  seatIndex[seat[i]] = i
    BY <2>2, RoomAssumption DEF RoomAssumption, SeatsAgree
  <2>3. QED
    BY <2>1, <2>2
<1>2. QED
  BY <1>1 DEF VacateSeats

\* Any set S of users may lose seat, readiness and redis keys (R: those of S who
\* have keys), and go or stay as bystanders, if none of them is left in the round.
LEMMA UnseatingKeepsTable ==
  ASSUME TypeOK, TableInv, NEW S \in SUBSET Uids, NEW R \in SUBSET S,
         S \cap Seated \subseteq R,
         seat' = [i \in SeatIdx |-> IF seat[i] \in S THEN Nobody ELSE seat[i]],
         StandUp(S), ForgetRedisSeats(R),
         mapPlayers' \subseteq Seated \ S,
         mapBystanders' \subseteq mapBystanders \cup S,
         \A u \in Uids : prepare'[u] => prepare[u] /\ u \notin S
  PROVE  TableInv'
<1>1. seatIndex' = [u \in Uids |-> IF u \in S THEN -1 ELSE seatIndex[u]]
  BY DEF StandUp
<1>2. ASSUME NEW i \in SeatIdx, seat'[i] # Nobody
      PROVE  seat'[i] = seat[i] /\ seat[i] \in Uids \ S
  BY <1>2 DEF TypeOK
<1>3. ASSUME NEW u \in Uids, seatIndex'[u] # -1
      PROVE  u \notin S /\ seatIndex'[u] = seatIndex[u] /\ seatIndex[u] \in SeatIdx
  BY <1>1, <1>3 DEF TypeOK
<1>4. SeatsAgree'
  <2>1. ASSUME NEW i \in SeatIdx, seat'[i] # Nobody
        PROVE  seatIndex'[seat'[i]] = i
    BY <1>1, <1>2, <2>1 DEF TableInv, SeatsAgree
  <2>2. ASSUME NEW u \in Uids, seatIndex'[u] # -1
        PROVE  seat'[seatIndex'[u]] = u
    BY <1>3, <2>2 DEF TableInv, SeatsAgree
  <2>3. ASSUME NEW u \in mapBystanders'
        PROVE  seatIndex'[u] = -1
    BY <1>1, <2>3 DEF TypeOK, TableInv, SeatsAgree
  <2>4. ASSUME NEW u \in mapPlayers'
        PROVE  seatIndex'[u] # -1
    BY <1>1, <2>4, SeatedByIndex DEF TableInv, Seated
  <2>5. QED
    BY <2>1, <2>2, <2>3, <2>4 DEF SeatsAgree
<1>5. RedisAsSeated'
  <2> DEFINE at == {i \in SeatIdx : \E u \in R : seatIndex[u] = i}
  <2>1. RedisCalls(at, Nobody, R, FALSE) /\ at \in SUBSET SeatIdx /\ R \in SUBSET Uids
    BY DEF ForgetRedisSeats
  <2>2. \A i \in SeatIdx : i \in at <=> seat[i] \in S
    <3>1. ASSUME NEW i \in SeatIdx, seat[i] \in S
          PROVE  seat[i] \in R /\ seatIndex[seat[i]] = i
      BY <3>1, RoomAssumption DEF RoomAssumption, TableInv, SeatsAgree, Seated
    <3>2. ASSUME NEW i \in SeatIdx, NEW u \in R, seatIndex[u] = i
          PROVE  seat[i] \in S
      BY <3>2 DEF TableInv, SeatsAgree, SeatIdx
    <3>3. QED
      BY <3>1, <3>2
  <2> HIDE DEF at
  <2>3. \A u \in Uids : u \in Seated' <=> u \in Seated /\ u \notin S
    BY RoomAssumption DEF RoomAssumption, Seated
  <2>4. ASSUME NEW i \in SeatIdx PROVE redisSeat'[i] = seat'[i] \/ i \in staleSeat'
    BY <2>1, <2>2, RedisCallsEffect DEF TableInv, RedisAsSeated
  <2>5. ASSUME NEW u \in Uids PROVE (u \in redisRoomId' <=> u \in Seated') \/ u \in staleRoomId'
    BY <2>1, <2>3, RedisCallsEffect DEF TableInv, RedisAsSeated
  <2>6. QED
    BY <2>4, <2>5 DEF RedisAsSeated
<1>6. PreparedAreSeated'
  <2>1. ASSUME NEW u \in Uids, prepare'[u]
        PROVE  \E i \in SeatIdx : seat'[i] = u
    BY <2>1 DEF TableInv, PreparedAreSeated, Seated
  <2>2. QED
    BY <2>1 DEF PreparedAreSeated, Seated
<1>7. QED
  BY <1>4, <1>5, <1>6 DEF TableInv

\* What changes neither the table nor the player objects' part in it keeps TableInv.
LEMMA SameSeating ==
  ASSUME TableInv, UNCHANGED seatingVars
  PROVE  TableInv'
BY DEF TableInv, SeatsAgree, RedisAsSeated, PreparedAreSeated, Seated, seatingVars, tableVars,
       redisVars

\* Nothing a dispatcher or a player's goroutine does touches the table.
LEMMA QueuesLeaveTable ==
  ASSUME NEW u \in Uids, Dispatch(u) \/ PlayerRun(u)
  PROVE  UNCHANGED seatingVars
BY DEF Dispatch, DispatchEnter, DispatchLeave, DispatchDisconnect, DispatchToRoom,
       PlayerRun, PlayerEnter, PlayerLeave, PlayerDisconnect,
       seatingVars, tableVars, playerVars

\* A user enters: as a bystander, or back on the seat that redis knows.
LEMMA EnterKeepsTable ==
  ASSUME TypeOK, TableInv, NEW u \in Uids, RoomEnter(u)
  PROVE  TableInv'
<1>1. UNCHANGED <<seat, mapPlayers, seatIndex, prepare>> /\ Seated' = Seated
  BY DEF RoomEnter, playerVars, Seated
<1>2. \A v \in mapBystanders' : seatIndex[v] = -1
  BY SeatedByIndex DEF RoomEnter, Members, TableInv, SeatsAgree, TypeOK
<1>3. RedisAsSeated'
  <2>1. CASE seatIndex[u] > -1
    <3>0. seatIndex[u] \in {-1} \cup SeatIdx /\ seatIndex[u] # -1
      BY <2>1 DEF TypeOK
    <3>1. seatIndex[u] \in SeatIdx /\ seat[seatIndex[u]] = u /\ u \in Seated
      BY <3>0, SeatedByIndex DEF TableInv, SeatsAgree
    <3>2. RedisCalls({seatIndex[u]}, u, {u}, TRUE)
      BY <2>1 DEF RoomEnter, RememberRedisSeat
    <3>3. QED
      BY <1>1, <3>1, <3>2, RememberedSeat DEF TableInv
  <2>2. CASE ~(seatIndex[u] > -1)
    BY <1>1, <2>2 DEF RoomEnter, redisVars, TableInv, RedisAsSeated
  <2>3. QED
    BY <2>1, <2>2
<1>4. QED
  BY <1>1, <1>2, <1>3 DEF TableInv, SeatsAgree, PreparedAreSeated

\* A user leaves or is disconnected.
LEMMA LeaveKeepsTable ==
  ASSUME TypeOK, TableInv, NEW u \in Uids, RoomLeave(u)
  PROVE  TableInv'
<1>1. seat' = [i \in SeatIdx |-> IF seat[i] \in {u} THEN Nobody ELSE seat[i]]
  BY VacatedSeats DEF RoomLeave, TableInv
<1>2. StandUp({u}) /\ ForgetRedisSeats({u})
  BY DEF RoomLeave
<1>3. mapPlayers' \subseteq Seated \ {u} /\ mapBystanders' \subseteq mapBystanders \cup {u}
  BY SeatedByIndex DEF RoomLeave, TableInv
<1>4. \A v \in Uids : prepare'[v] => prepare[v] /\ v \notin {u}
  BY DEF RoomLeave, UnPrepare
<1>5. QED
  BY <1>1, <1>2, <1>3, <1>4, UnseatingKeepsTable

\* A bystander takes a free seat.
LEMMA SitDownKeepsTable ==
  ASSUME TypeOK, TableInv, NEW u \in Uids, RoomHaveASeat(u)
  PROVE  TableInv'
<1>1. CASE u \in mapBystanders /\ seatIndex[u] = -1 /\ FreeSeats # {}
  <2>1. PICK i \in SeatIdx :
          /\ seat[i] = Nobody
          /\ seat' = [seat EXCEPT ![i] = u]
          /\ seatIndex' = [seatIndex EXCEPT ![u] = i]
          /\ mapBystanders' = mapBystanders \ {u}
          /\ RedisCalls({i}, u, {u}, TRUE)
    BY <1>1 DEF RoomHaveASeat, RememberRedisSeat, FreeSeats
  <2>2. UNCHANGED <<mapPlayers, prepare>>
    BY DEF RoomHaveASeat
  <2>3. \A j \in SeatIdx : seat[j] # u
    BY <1>1, SeatedByIndex DEF TableInv, Seated
  <2>4. SeatsAgree'
    <3>1. ASSUME NEW j \in SeatIdx, seat'[j] # Nobody
          PROVE  seatIndex'[seat'[j]] = j
      BY <2>1, <2>3, <3>1 DEF TableInv, SeatsAgree, TypeOK
    <3>2. ASSUME NEW v \in Uids, seatIndex'[v] # -1
          PROVE  seat'[seatIndex'[v]] = v
      <4>1. CASE v = u
        BY <2>1, <4>1 DEF TypeOK
      <4>2. CASE v # u
        <5>1. seatIndex'[v] = seatIndex[v] /\ seat[seatIndex[v]] = v /\ seatIndex[v] \in SeatIdx
          BY <2>1, <3>2, <4>2 DEF TableInv, SeatsAgree, TypeOK
        <5>2. seatIndex[v] # i
          BY <2>1, <5>1, RoomAssumption DEF RoomAssumption
        <5>3. QED
          BY <2>1, <5>1, <5>2 DEF TypeOK
      <4>3. QED
        BY <4>1, <4>2
    <3>3. \A v \in mapBystanders' : seatIndex'[v] = -1
      BY <2>1 DEF TableInv, SeatsAgree, TypeOK
    <3>4. \A v \in mapPlayers' : seatIndex'[v] # -1
      BY <1>1, <2>1, <2>2 DEF TableInv, SeatsAgree, TypeOK
    <3>5. QED
      BY <3>1, <3>2, <3>3, <3>4 DEF SeatsAgree
  <2>5. RedisAsSeated'
    <3>1. \A v \in Uids : v \in Seated' <=> v \in Seated \/ v = u
      BY <2>1, RoomAssumption DEF RoomAssumption, Seated, TypeOK
    <3>2. \A j \in SeatIdx : seat'[j] = IF j = i THEN u ELSE seat[j]
      BY <2>1 DEF TypeOK
    <3>3. QED
      BY <2>1, <3>1, <3>2, RememberedSeat DEF TableInv
  <2>6. PreparedAreSeated'
    <3>1. Seated \subseteq Seated'
      BY <2>1, RoomAssumption DEF RoomAssumption, Seated, TypeOK
    <3>2. QED
      BY <2>2, <3>1 DEF TableInv, PreparedAreSeated
  <2>7. QED
    BY <2>4, <2>5, <2>6 DEF TableInv
<1>2. CASE ~(u \in mapBystanders /\ seatIndex[u] = -1 /\ FreeSeats # {})
  <2>1. UNCHANGED seatingVars
    BY <1>2 DEF RoomHaveASeat, seatingVars, tableVars
  <2>2. QED
    BY <2>1, SameSeating
<1>3. QED
  BY <1>1, <1>2

\* A seated user gets ready.
LEMMA ReadyKeepsTable ==
  ASSUME TypeOK, TableInv, NEW u \in Uids, RoomReady(u)
  PROVE  TableInv'
<1>1. UNCHANGED <<tableVars, seatIndex>>
  BY DEF RoomReady
<1>2. \A v \in Uids : prepare'[v] => prepare[v] \/ v \in Seated
  BY DEF RoomReady, TypeOK
<1>3. PreparedAreSeated'
  BY <1>1, <1>2 DEF TableInv, PreparedAreSeated, Seated, tableVars
<1>4. QED
  BY <1>1, <1>3 DEF TableInv, SeatsAgree, RedisAsSeated, Seated, tableVars, redisVars

\* A round starts, and who is not prepared loses the seat.
LEMMA StartKeepsTable ==
  ASSUME TypeOK, TableInv, NEW elapsed, StartRound(elapsed)
  PROVE  TableInv'
<1> DEFINE starters == mapPlayers \cup Preppers
           idle     == Seated \ starters
<1>1. seat' = [i \in SeatIdx |-> IF seat[i] \in idle THEN Nobody ELSE seat[i]]
  BY DEF StartRound
<1>2. idle \in SUBSET Uids
  BY DEF Seated
<1>3. StandUp(idle) /\ ForgetRedisSeats(idle)
  BY DEF StartRound
<1>4. mapPlayers' \subseteq Seated \ idle /\ mapBystanders' \subseteq mapBystanders \cup idle
  BY SeatedByIndex DEF StartRound, TableInv, Preppers
<1>5. \A v \in Uids : prepare'[v] => prepare[v] /\ v \notin idle
  BY DEF StartRound, TableInv, PreparedAreSeated, Preppers
<1> HIDE DEF starters, idle
<1>6. QED
  BY <1>1, <1>2, <1>3, <1>4, <1>5, UnseatingKeepsTable

\* A round ends, and who is offline is cleared from the room.
LEMMA FinishKeepsTable ==
  ASSUME TypeOK, TableInv, NEW elapsed, FinishRound(elapsed)
  PROVE  TableInv'
<1>1. Gone \in SUBSET Uids
  BY DEF Gone, Members, Seated, TypeOK
<1>2. seat' = [i \in SeatIdx |-> IF seat[i] \in Gone THEN Nobody ELSE seat[i]]
  BY <1>1, VacatedSeats DEF FinishRound, ReReady, TableInv
<1>3. StandUp(Gone) /\ ForgetRedisSeats(Gone \cap Seated)
  BY DEF FinishRound, ReReady
<1>4. mapPlayers' \subseteq Seated \ Gone /\ mapBystanders' \subseteq mapBystanders \cup Gone
  BY DEF FinishRound, ReReady
<1>5. \A v \in Uids : prepare'[v] => prepare[v] /\ v \notin Gone
  BY DEF FinishRound, ReReady, UnPrepare
<1>6. QED
  BY <1>1, <1>2, <1>3, <1>4, <1>5, UnseatingKeepsTable

\* A tick is one of the eight steps of Room.running.
LEMMA TickSteps ==
  ASSUME Tick
  PROVE  \E elapsed :
           \/ KeepWaiting(elapsed) \/ StartCountDown(elapsed)
           \/ StartRound(elapsed)  \/ ConfirmBanker(elapsed)
           \/ CloseBets(elapsed)   \/ ShowCards(elapsed)
           \/ SettleRound(elapsed) \/ FinishRound(elapsed)
BY DEF Tick

\* Between the start and the end of a round no tick touches the table.
LEMMA TicksThatLeaveTable ==
  ASSUME NEW elapsed,
         \/ KeepWaiting(elapsed) \/ StartCountDown(elapsed) \/ ConfirmBanker(elapsed)
         \/ CloseBets(elapsed)   \/ ShowCards(elapsed)      \/ SettleRound(elapsed)
  PROVE  UNCHANGED seatingVars
BY DEF KeepWaiting, StartCountDown, ConfirmBanker, CloseBets, ShowCards, SettleRound,
       seatingVars, tableVars, playerVars

\* Every step of the system preserves the table's invariant.
LEMMA TableStep ==
  ASSUME TypeOK, TableInv, [Next]_vars
  PROVE  TableInv'
<1>1. ASSUME NEW u \in Uids, Dispatch(u) \/ PlayerRun(u)
      PROVE  TableInv'
  BY <1>1, QueuesLeaveTable, SameSeating
<1>2. ASSUME NEW u \in Uids, RoomTakesMessage(u)
      PROVE  TableInv'
  <2>1. CASE RoomEnter(u)
    BY <2>1, EnterKeepsTable
  <2>2. CASE RoomLeave(u)
    BY <2>2, LeaveKeepsTable
  <2>3. CASE RoomHaveASeat(u)
    BY <2>3, SitDownKeepsTable
  <2>4. CASE RoomReady(u)
    BY <2>4, ReadyKeepsTable
  <2>5. CASE RoomRobZhuang(u) \/ RoomBet(u) \/ RoomShowCard(u)
    <3>1. UNCHANGED seatingVars
      BY <2>5 DEF RoomRobZhuang, RoomBet, RoomShowCard, seatingVars, playerVars
    <3>2. QED
      BY <3>1, SameSeating
  <2>6. QED
    BY <1>2, <2>1, <2>2, <2>3, <2>4, <2>5 DEF RoomTakesMessage
<1>3. CASE Tick
  BY <1>3, TickSteps, TicksThatLeaveTable, SameSeating, StartKeepsTable, FinishKeepsTable
<1>4. CASE UNCHANGED vars
  BY <1>4, SameSeating DEF vars, seatingVars, tableVars, playerVars
<1>5. QED
  BY <1>1, <1>2, <1>3, <1>4 DEF Next

\* Seats, redis keys and readiness agree in every state: the three facts together,
\* since none of them is inductive by itself.
THEOREM TableInvariant == Spec => []TableInv
<1>1. Init => TableInv
  BY RoomAssumption DEF RoomAssumption, Init, TableInv, SeatsAgree, RedisAsSeated,
                        PreparedAreSeated, SeatIdx, Seated
<1>2. TypeOK /\ TableInv /\ [Next]_vars => TableInv'
  BY TableStep
<1>3. QED
  BY <1>1, <1>2, TypeCorrect, PTL DEF Spec

\* Seats, bystanders and player objects agree at every moment, in whatever order the
\* goroutines run and whatever they drop.
THEOREM SeatsAlwaysAgree == Spec => []SeatsAgree
BY TableInvariant, PTL DEF TableInv

\* Whichever of the calls on redis are lost, and however many: redis never names a user
\* on a seat, or in the room, that the room has not seated there, unless the last call on
\* that very key was lost.
THEOREM GhostsAreStale == Spec => []NoGhostSeats
<1>1. TypeOK /\ TableInv => NoGhostSeats
  BY DEF TypeOK, TableInv, RedisAsSeated, NoGhostSeats
<1>2. QED
  BY <1>1, TypeCorrect, TableInvariant, PTL

\* Nobody is prepared without a seat.
THEOREM PreparedAlwaysSeated == Spec => []PreparedAreSeated
BY TableInvariant, PTL DEF TableInv

-----------------------------------------------------------------------------
(* Who may lose a seat.                                                     *)

\* What SeatKept says of one step.
SeatsKeptByStep ==
  \A i \in SeatIdx :
    seat[i] # Nobody /\ seat'[i] # seat[i] =>
      /\ seat'[i] = Nobody
      /\ \/ LeavesNow(seat[i])
         \/ roomStatus = "Settle" /\ roomStatus' = "Ready" /\ offline[seat[i]]
         \/ roomStatus = "CountDown" /\ roomStatus' = "RobZhuang" /\ ~prepare[seat[i]]

\* No step takes a seat from its user but for one of the three reasons of SeatKept.
LEMMA SeatKeptStep ==
  ASSUME TypeOK, TableInv, [Next]_vars
  PROVE  SeatsKeptByStep
<1>1. ASSUME UNCHANGED seat
      PROVE  SeatsKeptByStep
  BY <1>1 DEF SeatsKeptByStep
<1>2. ASSUME NEW u \in Uids, Dispatch(u) \/ PlayerRun(u)
      PROVE  UNCHANGED seat
  BY <1>2, QueuesLeaveTable DEF seatingVars, tableVars
<1>3. ASSUME NEW u \in Uids, RoomTakesMessage(u)
      PROVE  SeatsKeptByStep
  <2>1. CASE RoomLeave(u)
    <3>1. seat' = [i \in SeatIdx |-> IF seat[i] \in {u} THEN Nobody ELSE seat[i]]
      BY <2>1, VacatedSeats DEF RoomLeave, TableInv
    <3>2. LeavesNow(u)
      BY <2>1 DEF RoomLeave, TakeFromRoom, LeavesNow
    <3>3. QED
      BY <3>1, <3>2 DEF SeatsKeptByStep
  <2>2. CASE RoomHaveASeat(u)
    <3>1. \A i \in SeatIdx : seat[i] # Nobody => seat'[i] = seat[i]
      BY <2>2 DEF RoomHaveASeat, RememberRedisSeat, FreeSeats, TypeOK
    <3>2. QED
      BY <3>1 DEF SeatsKeptByStep
  <2>3. CASE ~RoomLeave(u) /\ ~RoomHaveASeat(u)
    <3>1. UNCHANGED seat
      BY <1>3, <2>3 DEF RoomTakesMessage, RoomEnter, RememberRedisSeat, RoomReady, RoomRobZhuang, RoomBet,
                        RoomShowCard, tableVars
    <3>2. QED
      BY <1>1, <3>1
  <2>4. QED
    BY <2>1, <2>2, <2>3
<1>4. ASSUME NEW elapsed, StartRound(elapsed)
      PROVE  SeatsKeptByStep
  <2>1. seat' = [i \in SeatIdx |-> IF seat[i] \in Seated \ (mapPlayers \cup Preppers)
                                   THEN Nobody ELSE seat[i]]
    BY <1>4 DEF StartRound
  <2>2. \A u \in Seated \ (mapPlayers \cup Preppers) : ~prepare[u]
    BY DEF Preppers
  <2>3. roomStatus = "CountDown" /\ roomStatus' = "RobZhuang"
    BY <1>4 DEF StartRound, ChangeRoomStatus
  <2>4. QED
    BY <2>1, <2>2, <2>3 DEF SeatsKeptByStep
<1>5. ASSUME NEW elapsed, FinishRound(elapsed)
      PROVE  SeatsKeptByStep
  <2>1. Gone \in SUBSET Uids /\ \A u \in Gone : offline[u]
    BY DEF Gone, Members, Seated, TypeOK
  <2>2. seat' = [i \in SeatIdx |-> IF seat[i] \in Gone THEN Nobody ELSE seat[i]]
    BY <1>5, <2>1, VacatedSeats DEF FinishRound, ReReady, TableInv
  <2>3. roomStatus = "Settle" /\ roomStatus' = "Ready"
    BY <1>5 DEF FinishRound, ReReady, ChangeRoomStatus
  <2>4. QED
    BY <2>1, <2>2, <2>3 DEF SeatsKeptByStep
<1>6. CASE Tick
  <2>1. PICK elapsed :
           \/ KeepWaiting(elapsed) \/ StartCountDown(elapsed)
           \/ StartRound(elapsed)  \/ ConfirmBanker(elapsed)
           \/ CloseBets(elapsed)   \/ ShowCards(elapsed)
           \/ SettleRound(elapsed) \/ FinishRound(elapsed)
    BY <1>6, TickSteps
  <2>2. CASE StartRound(elapsed) \/ FinishRound(elapsed)
    BY <1>4, <1>5, <2>2
  <2>3. CASE ~StartRound(elapsed) /\ ~FinishRound(elapsed)
    <3>1. UNCHANGED seat
      BY <2>1, <2>3, TicksThatLeaveTable DEF seatingVars, tableVars
    <3>2. QED
      BY <1>1, <3>1
  <2>4. QED
    BY <2>2, <2>3
<1>7. CASE UNCHANGED vars
  BY <1>1, <1>7 DEF vars, tableVars
<1>8. QED
  BY <1>1, <1>2, <1>3, <1>6, <1>7 DEF Next

\* Nobody loses a seat except through an own leave or disconnect, by being offline
\* when a round ends, or by not being prepared when one starts; and no seat goes
\* from one user straight to another.
THEOREM SeatAlwaysKept == Spec => SeatKept
<1>1. TypeOK /\ TableInv /\ [Next]_vars => [SeatsKeptByStep]_vars
  BY SeatKeptStep
<1>2. Spec => [][SeatsKeptByStep]_vars
  BY <1>1, TypeCorrect, TableInvariant, PTL DEF Spec
<1>3. QED
  BY <1>2 DEF SeatKept, SeatsKeptByStep

-----------------------------------------------------------------------------
(* The bets.                                                                *)

\* Every step keeps the bets of a closed betting phase complete.
LEMMA BetsStep ==
  ASSUME TypeOK, BetsComplete, [Next]_vars
  PROVE  BetsComplete'
<1>1. ASSUME UNCHANGED <<roomStatus, bankerId, mapBet>>, mapPlayers' \subseteq mapPlayers
      PROVE  BetsComplete'
  BY <1>1 DEF BetsComplete
<1>2. ASSUME NEW u \in Uids, Dispatch(u) \/ PlayerRun(u)
      PROVE  BetsComplete'
  BY <1>1, <1>2 DEF Dispatch, DispatchEnter, DispatchLeave, DispatchDisconnect,
                    DispatchToRoom, PlayerRun, PlayerEnter, PlayerLeave,
                    PlayerDisconnect, clockVars, tableVars, roundVars
<1>3. ASSUME NEW u \in Uids, RoomTakesMessage(u)
      PROVE  BetsComplete'
  <2>1. CASE RoomBet(u)
    <3>1. UNCHANGED <<roomStatus, bankerId, mapPlayers>>
      BY <2>1 DEF RoomBet, clockVars, tableVars
    <3>2. \A v \in Uids : mapBet[v] # 0 => mapBet'[v] # 0
      BY <2>1 DEF RoomBet, TypeOK
    <3>3. QED
      BY <3>1, <3>2 DEF BetsComplete, TypeOK
  <2>2. CASE ~RoomBet(u)
    BY <1>1, <1>3, <2>2 DEF RoomTakesMessage, RoomEnter, RoomLeave, RoomHaveASeat, RoomReady,
                        RoomRobZhuang, RoomShowCard, clockVars, tableVars, roundVars
  <2>3. QED
    BY <2>1, <2>2
<1>4. ASSUME NEW elapsed, CloseBets(elapsed)
      PROVE  BetsComplete'
  <2>1. UNCHANGED <<mapPlayers, bankerId>>
    BY <1>4 DEF CloseBets, tableVars
  <2>2. mapBet' = [u \in Uids |-> IF u \in UnbetPlayers THEN Bet1 ELSE mapBet[u]]
    BY <1>4 DEF CloseBets
  <2>3. Bet1 # 0
    BY RoomAssumption DEF RoomAssumption
  <2>4. \A u \in mapPlayers : u # bankerId => mapBet'[u] # 0
    BY <2>2, <2>3 DEF TypeOK, UnbetPlayers
  <2>5. QED
    BY <2>1, <2>4 DEF BetsComplete
<1>5. CASE Tick
  <2>1. PICK elapsed :
           \/ KeepWaiting(elapsed) \/ StartCountDown(elapsed)
           \/ StartRound(elapsed)  \/ ConfirmBanker(elapsed)
           \/ CloseBets(elapsed)   \/ ShowCards(elapsed)
           \/ SettleRound(elapsed) \/ FinishRound(elapsed)
    BY <1>5, TickSteps
  <2>2. CASE StartCountDown(elapsed) \/ StartRound(elapsed) \/ ConfirmBanker(elapsed)
               \/ FinishRound(elapsed)
    <3>1. roomStatus' \in {"CountDown", "RobZhuang", "Bet", "Ready"}
      BY <2>2 DEF StartCountDown, StartRound, ConfirmBanker, FinishRound, ReReady, ChangeRoomStatus
    <3>2. QED
      BY <3>1 DEF BetsComplete
  <2>3. CASE CloseBets(elapsed)
    BY <1>4, <2>3
  <2>4. CASE ShowCards(elapsed)
    <3>1. UNCHANGED <<bankerId, mapBet, mapPlayers>> /\ roomStatus = "Play"
      BY <2>4 DEF ShowCards, tableVars
    <3>2. QED
      BY <3>1 DEF BetsComplete
  <2>5. CASE KeepWaiting(elapsed) \/ SettleRound(elapsed)
    BY <1>1, <2>5 DEF KeepWaiting, SettleRound, StayInStatus, tableVars, roundVars
  <2>6. QED
    BY <2>1, <2>2, <2>3, <2>4, <2>5
<1>6. CASE UNCHANGED vars
  BY <1>1, <1>6 DEF vars, clockVars, tableVars, roundVars
<1>7. QED
  BY <1>2, <1>3, <1>5, <1>6 DEF Next

\* When cards are compared every player but the banker has a bet.
THEOREM BetsAlwaysComplete == Spec => []BetsComplete
<1>1. Init => BetsComplete
  BY DEF Init, BetsComplete
<1>2. TypeOK /\ BetsComplete /\ [Next]_vars => BetsComplete'
  BY BetsStep
<1>3. QED
  BY <1>1, <1>2, TypeCorrect, PTL DEF Spec

-----------------------------------------------------------------------------
(* The abstract round. Outside a round nobody plays and nothing is settled, *)
(* and there is no result before the settlement: without this a step of the *)
(* room could look like a second settlement, or like a round that starts    *)
(* with a result.                                                           *)

RoundInv ==
  /\ roomStatus \in {"Ready", "CountDown"} => mapPlayers = {}
  /\ settled => roomStatus = "Settle"
  /\ ~settled => mapWinOrLose = {}

RoundSafety == Round!Init /\ [][Round!Next]_(Round!vars)

\* A step that changes none of what the abstract round sees.
LEMMA RoundStutters ==
  ASSUME RoundInv, UNCHANGED <<roomStatus, mapPlayers, settled, mapWinOrLose>>
  PROVE  RoundInv' /\ UNCHANGED Round!vars
BY DEF RoundInv, Round!vars

\* Every step of the room is a step of the abstract round, or changes nothing it sees.
LEMMA RoundStep ==
  ASSUME TypeOK, RoundInv, [Next]_vars
  PROVE  RoundInv' /\ [Round!Next]_(Round!vars)
<1>1. ASSUME NEW u \in Uids, Dispatch(u) \/ PlayerRun(u)
      PROVE  RoundInv' /\ [Round!Next]_(Round!vars)
  <2>1. UNCHANGED <<roomStatus, mapPlayers, settled, mapWinOrLose>>
    BY <1>1 DEF Dispatch, DispatchEnter, DispatchLeave, DispatchDisconnect, DispatchToRoom,
                PlayerRun, PlayerEnter, PlayerLeave, PlayerDisconnect,
                clockVars, tableVars, roundVars
  <2>2. QED
    BY <2>1, RoundStutters
<1>2. ASSUME NEW u \in Uids, RoomTakesMessage(u)
      PROVE  RoundInv' /\ [Round!Next]_(Round!vars)
  <2>1. CASE RoomLeave(u) /\ u \in mapPlayers
    <3>1. UNCHANGED <<roomStatus, settled, mapWinOrLose>> /\ mapPlayers' = mapPlayers \ {u}
      BY <2>1 DEF RoomLeave, clockVars, roundVars
    <3>2. RoundInv'
      BY <3>1 DEF RoundInv
    <3>3. roomStatus \notin {"Ready", "CountDown"}
      BY <2>1 DEF RoundInv
    <3>4. Round!Drop(u)
      BY <2>1, <3>1, <3>3 DEF Round!Drop
    <3>5. QED
      BY <3>2, <3>4 DEF Round!Next
  <2>2. CASE ~(RoomLeave(u) /\ u \in mapPlayers)
    <3>1. UNCHANGED <<roomStatus, mapPlayers, settled, mapWinOrLose>>
      BY <1>2, <2>2 DEF RoomTakesMessage, RoomEnter, RoomLeave, RoomHaveASeat, RoomReady,
                        RoomRobZhuang, RoomBet, RoomShowCard, clockVars, tableVars, roundVars
    <3>2. QED
      BY <3>1, RoundStutters
  <2>3. QED
    BY <2>1, <2>2
<1>3. CASE Tick
  <2>1. PICK elapsed :
           \/ KeepWaiting(elapsed) \/ StartCountDown(elapsed)
           \/ StartRound(elapsed)  \/ ConfirmBanker(elapsed)
           \/ CloseBets(elapsed)   \/ ShowCards(elapsed)
           \/ SettleRound(elapsed) \/ FinishRound(elapsed)
    BY <1>3, TickSteps
  <2>2. CASE KeepWaiting(elapsed)
    BY <2>2, RoundStutters DEF KeepWaiting, StayInStatus, tableVars, roundVars
  <2>3. CASE StartCountDown(elapsed)
    <3>1. /\ roomStatus = "Ready" /\ roomStatus' = "CountDown"
          /\ UNCHANGED <<mapPlayers, settled, mapWinOrLose>>
      BY <2>3 DEF StartCountDown, ChangeRoomStatus, tableVars, roundVars
    <3>2. QED
      BY <3>1 DEF RoundInv, Round!vars
  <2>4. CASE StartRound(elapsed)
    <3>1. /\ roomStatus = "CountDown" /\ roomStatus' = "RobZhuang"
          /\ UNCHANGED <<settled, mapWinOrLose>>
          /\ mapPlayers' = mapPlayers \cup Preppers
      BY <2>4 DEF StartRound, ChangeRoomStatus
    <3>2. mapPlayers' \in SUBSET Uids
      BY <3>1 DEF TypeOK, Preppers, Seated
    <3>3. RoundInv'
      BY <3>1 DEF RoundInv
    <3>4. Round!Start
      BY <3>1, <3>2 DEF RoundInv, Round!Start
    <3>5. QED
      BY <3>3, <3>4 DEF Round!Next
  <2>5. CASE ConfirmBanker(elapsed) \/ CloseBets(elapsed) \/ ShowCards(elapsed)
    <3>1. /\ roomStatus \in {"RobZhuang", "Bet", "Play"}
          /\ roomStatus' \in {"Bet", "Play", "Settle"}
          /\ UNCHANGED <<mapPlayers, settled, mapWinOrLose>>
      BY <2>5 DEF ConfirmBanker, CloseBets, ShowCards, ChangeRoomStatus, StayInStatus, tableVars
    <3>2. QED
      BY <3>1 DEF RoundInv, Round!vars
  <2>6. CASE SettleRound(elapsed)
    <3>1. /\ roomStatus = "Settle" /\ roomStatus' = "Settle" /\ ~settled /\ settled'
          /\ UNCHANGED mapPlayers
          /\ mapWinOrLose' \in {mapWinOrLose, mapWinOrLose \cup mapPlayers}
      BY <2>6 DEF SettleRound, StayInStatus, tableVars
    <3>2. mapWinOrLose' \in {{}, mapPlayers}
      BY <3>1 DEF RoundInv
    <3>3. RoundInv'
      BY <3>1 DEF RoundInv
    <3>4. Round!Settle
      BY <3>1, <3>2 DEF Round!Settle
    <3>5. QED
      BY <3>3, <3>4 DEF Round!Next
  <2>7. CASE FinishRound(elapsed)
    <3>1. /\ roomStatus = "Settle" /\ roomStatus' = "Ready" /\ settled /\ ~settled'
          /\ mapPlayers' = {} /\ mapWinOrLose' = {}
      BY <2>7 DEF FinishRound, ReReady, ChangeRoomStatus
    <3>2. RoundInv'
      BY <3>1 DEF RoundInv
    <3>3. Round!Finish
      BY <3>1 DEF Round!Finish
    <3>4. QED
      BY <3>2, <3>3 DEF Round!Next
  <2>8. QED
    BY <2>1, <2>2, <2>3, <2>4, <2>5, <2>6, <2>7
<1>4. CASE UNCHANGED vars
  BY <1>4, RoundStutters DEF vars, clockVars, tableVars, roundVars
<1>5. QED
  BY <1>1, <1>2, <1>3, <1>4 DEF Next

\* The room plays one round after the other as NiuniuRound says, its fairness apart:
\* nobody joins late, and one settlement for those who are still there.
THEOREM RoomImplementsRound == Spec => RoundSafety
<1>1. Init => RoundInv /\ Round!Init
  BY DEF Init, RoundInv, Round!Init
<1>2. TypeOK /\ RoundInv /\ [Next]_vars => RoundInv' /\ [Round!Next]_(Round!vars)
  BY RoundStep
<1>3. QED
  BY <1>1, <1>2, TypeCorrect, PTL DEF Spec, RoundSafety
-----------------------------------------------------------------------------
(* The cards. A heap of five cards for each seat lasts for two deals.        *)

\* What is left in the heap, and in the hands, between the deals of a round.
CardsInv ==
  /\ roomStatus \in {"Ready", "CountDown"} => cardHeap = HeapSize
  /\ roomStatus \in {"RobZhuang", "Bet"} =>
       IF KnownCard THEN cardHeap >= SeatNum /\ \A u \in mapPlayers : handCards[u] >= 4
                    ELSE cardHeap = HeapSize
  /\ EnoughCards

\* Seated users are no more than there are seats.
LEMMA SeatedAreFew ==
  ASSUME TypeOK, SeatsAgree, NEW P \in SUBSET Uids, \A u \in P : seatIndex[u] # -1
  PROVE  IsFiniteSet(P) /\ Cardinality(P) \in Nat /\ Cardinality(P) <= SeatNum
<1> DEFINE f == [u \in P |-> seatIndex[u]]
<1>1. f \in Injection(P, SeatIdx)
  <2>1. f \in [P -> SeatIdx]
    BY DEF TypeOK
  <2>2. \A u \in P : seat[f[u]] = u
    BY DEF SeatsAgree
  <2>3. \A u, v \in P : f[u] = f[v] => u = v
    BY <2>2
  <2> HIDE DEF f
  <2>4. QED
    BY <2>1, <2>3 DEF Injection, IsInjective
<1>2. IsFiniteSet(SeatIdx) /\ Cardinality(SeatIdx) = SeatNum
  <2>1. SeatNum - 1 \in Int /\ SeatNum > 0
    BY RoomAssumption
  <2>2. IsFiniteSet(0 .. SeatNum - 1) /\ Cardinality(0 .. SeatNum - 1) = IF 0 > SeatNum - 1 THEN 0 ELSE SeatNum - 1 - 0 + 1
    BY <2>1, FS_Interval
  <2>3. ~(0 > SeatNum - 1) /\ SeatNum - 1 - 0 + 1 = SeatNum
    BY <2>1, RoomAssumption
  <2>4. Cardinality(0 .. SeatNum - 1) = SeatNum
    BY <2>2, <2>3, Zenon
  <2>5. QED
    BY <2>2, <2>4 DEF SeatIdx
<1>3. IsFiniteSet(P) /\ Cardinality(P) <= SeatNum
  BY <1>1, <1>2, FS_Injection
<1>4. QED
  BY <1>3, FS_CardinalityType

\* Where the heap has enough for all players but one and least beyond, all are dealt.
LEMMA AllAreDealt ==
  ASSUME TypeOK, NEW P \in SUBSET Uids, IsFiniteSet(P), NEW cnt \in Nat, NEW least \in Nat,
         \A k \in 0 .. Cardinality(P) - 1 : cardHeap - k * cnt >= least,
         Deal(P, cnt, least)
  PROVE  /\ cardHeap' = cardHeap - Cardinality(P) * cnt
         /\ \A u \in P : handCards'[u] = Least(handCards[u] + cnt, MaxHand)
<1>1. PICK S \in SUBSET P :
        /\ S # P => cardHeap - Cardinality(S) * cnt < least
        /\ cardHeap' = cardHeap - Cardinality(S) * cnt
        /\ handCards' = [u \in Uids |-> IF u \in S THEN Least(handCards[u] + cnt, MaxHand)
                                        ELSE handCards[u]]
  BY DEF Deal
<1>2. S = P
  <2>1. SUFFICES ASSUME S # P PROVE FALSE
    OBVIOUS
  <2>2. IsFiniteSet(S) /\ Cardinality(S) <= Cardinality(P) /\ Cardinality(S) # Cardinality(P)
    BY <2>1, FS_Subset
  <2>3. Cardinality(S) \in Nat /\ Cardinality(P) \in Nat
    BY <2>2, FS_CardinalityType
  <2>4. Cardinality(S) \in 0 .. Cardinality(P) - 1
    BY <2>2, <2>3
  <2>5. cardHeap - Cardinality(S) * cnt >= least
    BY <2>4
  <2>6. cardHeap \in Int /\ Cardinality(S) * cnt \in Int
    BY <2>3 DEF TypeOK
  <2>7. QED
    BY <1>1, <2>1, <2>5, <2>6
<1>3. QED
  BY <1>1, <1>2

\* A hand holds what it is dealt, up to a bound of five cards or more.
LEMMA HandAfterDeal ==
  ASSUME TypeOK
  PROVE  \A u \in Uids :
           /\ handCards[u] \in Nat
           /\ Least(handCards[u] + 4, MaxHand) >= 4
           /\ Least(handCards[u] + 5, MaxHand) >= 5
           /\ handCards[u] >= 4 => Least(handCards[u] + 1, MaxHand) >= 5
<1>1. \A u \in Uids : handCards[u] \in 0 .. MaxHand
  BY DEF TypeOK
<1>2. QED
  BY <1>1, RoomAssumption DEF Least

\* The players of a round, and those it starts with, all have seats.
LEMMA StartersAreSeated ==
  ASSUME TypeOK, TableInv
  PROVE  /\ mapPlayers \cup Preppers \in SUBSET Uids
         /\ \A u \in mapPlayers \cup Preppers : seatIndex[u] # -1
<1>1. \A u \in Preppers : u \in Uids /\ \E i \in SeatIdx : seat[i] = u
  BY DEF TypeOK, Preppers, Seated
<1>2. \A u \in Preppers : seatIndex[u] # -1
  BY <1>1, RoomAssumption DEF TableInv, SeatsAgree, SeatIdx
<1>3. QED
  BY <1>1, <1>2 DEF TypeOK, TableInv, SeatsAgree

\* Each deal reaches everyone in it.
LEMMA StartDeals ==
  ASSUME TypeOK, TableInv, CardsInv, NEW elapsed, StartRound(elapsed)
  PROVE  CardsInv'
<1> DEFINE starters == mapPlayers \cup Preppers
<1>1. /\ IsFiniteSet(starters) /\ Cardinality(starters) \in Nat
      /\ Cardinality(starters) <= SeatNum /\ starters \in SUBSET Uids
  BY StartersAreSeated, SeatedAreFew DEF TableInv
<1>2. /\ roomStatus' = "RobZhuang" /\ mapPlayers' = starters /\ cardHeap = HeapSize
      /\ IF KnownCard THEN Deal(starters, 4, 5) ELSE UNCHANGED <<cardHeap, handCards>>
  BY DEF StartRound, ChangeRoomStatus, CardsInv
<1> HIDE DEF starters
<1>3. CASE KnownCard
  <2>1. \A k \in 0 .. Cardinality(starters) - 1 : cardHeap - k * 4 >= 5
    BY <1>1, <1>2, RoomAssumption
  <2>2. /\ cardHeap' = cardHeap - Cardinality(starters) * 4
        /\ \A u \in starters : handCards'[u] = Least(handCards[u] + 4, MaxHand)
    BY <1>1, <1>2, <1>3, <2>1, AllAreDealt
  <2>3. cardHeap' >= SeatNum
    BY <1>1, <1>2, <2>2, RoomAssumption
  <2>4. \A u \in starters : handCards'[u] >= 4
    BY <1>1, <2>2, HandAfterDeal
  <2>5. QED
    BY <1>2, <1>3, <2>3, <2>4 DEF CardsInv, EnoughCards
<1>4. CASE ~KnownCard
  BY <1>2, <1>4 DEF CardsInv, EnoughCards
<1>5. QED
  BY <1>3, <1>4

LEMMA BetsDeal ==
  ASSUME TypeOK, TableInv, CardsInv, NEW elapsed, CloseBets(elapsed)
  PROVE  CardsInv'
<1>1. /\ IsFiniteSet(mapPlayers) /\ Cardinality(mapPlayers) \in Nat
      /\ Cardinality(mapPlayers) <= SeatNum /\ mapPlayers \in SUBSET Uids
  <2>1. mapPlayers \in SUBSET Uids /\ \A u \in mapPlayers : seatIndex[u] # -1
    BY DEF TypeOK, TableInv, SeatsAgree
  <2>2. QED
    BY <2>1, SeatedAreFew DEF TableInv
<1>2. /\ roomStatus = "Bet" /\ roomStatus' = "Play" /\ mapPlayers' = mapPlayers
      /\ IF KnownCard THEN Deal(mapPlayers, 1, 1) ELSE Deal(mapPlayers, 5, 5)
  BY DEF CloseBets, ChangeRoomStatus, tableVars
<1>3. cardHeap \in Int
  BY DEF TypeOK
<1>4. \A u \in mapPlayers : handCards'[u] >= 5
  <2>1. CASE KnownCard
    <3>1. cardHeap >= SeatNum /\ \A u \in mapPlayers : handCards[u] >= 4
      BY <1>2, <2>1 DEF CardsInv
    <3>2. \A k \in 0 .. Cardinality(mapPlayers) - 1 : cardHeap - k * 1 >= 1
      BY <1>1, <1>3, <3>1, RoomAssumption
    <3>3. \A u \in mapPlayers : handCards'[u] = Least(handCards[u] + 1, MaxHand)
      BY <1>1, <1>2, <2>1, <3>2, AllAreDealt
    <3>4. QED
      BY <1>1, <3>1, <3>3, HandAfterDeal
  <2>2. CASE ~KnownCard
    <3>1. cardHeap = HeapSize
      BY <1>2, <2>2 DEF CardsInv
    <3>2. \A k \in 0 .. Cardinality(mapPlayers) - 1 : cardHeap - k * 5 >= 5
      BY <1>1, <3>1, RoomAssumption
    <3>3. \A u \in mapPlayers : handCards'[u] = Least(handCards[u] + 5, MaxHand)
      BY <1>1, <1>2, <2>2, <3>2, AllAreDealt
    <3>4. QED
      BY <1>1, <3>3, HandAfterDeal
  <2>3. QED
    BY <2>1, <2>2
<1>5. QED
  BY <1>2, <1>4 DEF CardsInv, EnoughCards

\* Every step keeps the cards enough; between the deals players only leave.
LEMMA CardsStep ==
  ASSUME TypeOK, TableInv, CardsInv, [Next]_vars
  PROVE  CardsInv'
<1>1. ASSUME UNCHANGED <<roomStatus, cardHeap, handCards>>, mapPlayers' \subseteq mapPlayers
      PROVE  CardsInv'
  BY <1>1 DEF CardsInv, EnoughCards
<1>2. ASSUME NEW u \in Uids, Dispatch(u) \/ PlayerRun(u)
      PROVE  CardsInv'
  BY <1>1, <1>2 DEF Dispatch, DispatchEnter, DispatchLeave, DispatchDisconnect,
                    DispatchToRoom, PlayerRun, PlayerEnter, PlayerLeave,
                    PlayerDisconnect, clockVars, tableVars, roundVars, playerVars
<1>3. ASSUME NEW u \in Uids, RoomTakesMessage(u)
      PROVE  CardsInv'
  BY <1>1, <1>3 DEF RoomTakesMessage, RoomEnter, RoomLeave, RoomHaveASeat, RoomReady, RoomBet,
                    RoomRobZhuang, RoomShowCard, clockVars, tableVars, roundVars, playerVars
<1>4. CASE Tick
  <2>1. PICK elapsed :
           \/ KeepWaiting(elapsed) \/ StartCountDown(elapsed)
           \/ StartRound(elapsed)  \/ ConfirmBanker(elapsed)
           \/ CloseBets(elapsed)   \/ ShowCards(elapsed)
           \/ SettleRound(elapsed) \/ FinishRound(elapsed)
    BY <1>4, TickSteps
  <2>2. CASE StartRound(elapsed)
    BY <2>2, StartDeals
  <2>3. CASE CloseBets(elapsed)
    BY <2>3, BetsDeal
  <2>4. CASE KeepWaiting(elapsed) \/ SettleRound(elapsed)
    BY <1>1, <2>4 DEF KeepWaiting, SettleRound, StayInStatus, tableVars, roundVars, playerVars
  <2>5. CASE StartCountDown(elapsed) \/ ConfirmBanker(elapsed) \/ ShowCards(elapsed)
    <3>1. UNCHANGED <<cardHeap, handCards, mapPlayers>>
      BY <2>5 DEF StartCountDown, ConfirmBanker, ShowCards, tableVars, roundVars, playerVars
    <3>2. \/ roomStatus = "Ready" /\ roomStatus' = "CountDown"
          \/ roomStatus = "RobZhuang" /\ roomStatus' = "Bet"
          \/ roomStatus = "Play" /\ roomStatus' \in {"Play", "Settle"}
      BY <2>5 DEF StartCountDown, ConfirmBanker, ShowCards, ChangeRoomStatus, StayInStatus
    <3>3. QED
      BY <3>1, <3>2 DEF CardsInv, EnoughCards
  <2>6. CASE FinishRound(elapsed)
    <3>1. roomStatus' = "Ready" /\ cardHeap' = HeapSize
      BY <2>6 DEF FinishRound, ReReady, ChangeRoomStatus
    <3>2. QED
      BY <3>1 DEF CardsInv, EnoughCards
  <2>7. QED
    BY <2>1, <2>2, <2>3, <2>4, <2>5, <2>6
<1>5. CASE UNCHANGED vars
  BY <1>1, <1>5 DEF vars, clockVars, tableVars, roundVars, playerVars
<1>6. QED
  BY <1>2, <1>3, <1>4, <1>5 DEF Next

\* A heap of five cards a seat is enough: whoever is in a round when hands are
\* compared holds at least five cards.
THEOREM AlwaysEnoughCards == Spec => []EnoughCards
<1>1. Init => CardsInv
  BY DEF Init, CardsInv, EnoughCards
<1>2. TypeOK /\ TableInv /\ CardsInv /\ [Next]_vars => CardsInv'
  BY CardsStep
<1>3. CardsInv => EnoughCards
  BY DEF CardsInv
<1>4. QED
  BY <1>1, <1>2, <1>3, TypeCorrect, TableInvariant, PTL DEF Spec

-----------------------------------------------------------------------------
(* The pointer of a player object: only a dropped enter makes it dishonest. *)

LEMMA RoomHandleLength ==
  ASSUME TypeOK, NEW u \in Uids, NEW id \in PlayerMsgs \cup TableMsgs, NEW rate \in Nat,
         RoomHandle(u, id, rate)
  PROVE  /\ Len(chanClientAndMsg') \in Nat
         /\ Len(chanClientAndMsg') <= Len(chanClientAndMsg) + 1
         /\ \A k \in 1 .. Len(chanClientAndMsg) :
              k \in 1 .. Len(chanClientAndMsg') /\ chanClientAndMsg'[k] = chanClientAndMsg[k]
         /\ Len(chanClientAndMsg) < RoomCap =>
              /\ Len(chanClientAndMsg') = Len(chanClientAndMsg) + 1
              /\ chanClientAndMsg'[Len(chanClientAndMsg')] = [from |-> u, id |-> id, rate |-> rate]
<1>1. [from |-> u, id |-> id, rate |-> rate] \in RoomMsg /\ chanClientAndMsg \in Seq(RoomMsg)
  BY DEF RoomMsg, TypeOK
<1>2. CASE Len(chanClientAndMsg) < RoomCap
  <2>1. chanClientAndMsg' = Append(chanClientAndMsg, [from |-> u, id |-> id, rate |-> rate])
    BY <1>2 DEF RoomHandle
  <2> QED
    BY <1>1, <2>1, AppendProperties
<1>3. CASE ~(Len(chanClientAndMsg) < RoomCap)
  BY <1>1, <1>3 DEF RoomHandle
<1> QED
  BY <1>2, <1>3

LEMMA RoomTakesOne ==
  ASSUME TypeOK, NEW u \in Uids, NEW id, TakeFromRoom(u, id)
  PROVE  /\ Len(chanClientAndMsg') = Len(chanClientAndMsg) - 1
         /\ \A k \in 1 .. Len(chanClientAndMsg) :
              k # 1 => k - 1 \in 1 .. Len(chanClientAndMsg') /\ chanClientAndMsg'[k - 1] = chanClientAndMsg[k]
         /\ chanClientAndMsg[1].from = u /\ chanClientAndMsg[1].id = id
BY DEF TakeFromRoom, TypeOK

LEMMA SameMembers ==
  ASSUME UNCHANGED <<seat, mapBystanders>>
  PROVE  Members' = Members
BY DEF Members, Seated

LEMMA PointerDispatch ==
  ASSUME TypeOK, NEW u \in Uids, Dispatch(u)
  PROVE  \A v \in Uids : HonestPointer(v) => HonestPointer(v)'
<1>1. UNCHANGED <<seat, mapBystanders, inRoom>>
  BY DEF Dispatch, DispatchEnter, DispatchLeave, DispatchDisconnect, DispatchToRoom,
         tableVars, playerVars
<1>2. \/ UNCHANGED chanClientAndMsg
      \/ \E id \in TableMsgs, rate \in Nat : RoomHandle(u, id, rate)
  BY RoomAssumption DEF Dispatch, DispatchEnter, DispatchLeave, DispatchDisconnect,
                        DispatchToRoom, TableMsgs
<1>3. \A v \in Uids : EnterUnderWay(v) => EnterUnderWay(v)'
  BY <1>2, RoomHandleLength DEF EnterUnderWay
<1>4. Members' = Members
  BY <1>1, SameMembers
<1> QED
  BY <1>1, <1>3, <1>4 DEF HonestPointer

LEMMA PointerPlayer ==
  ASSUME TypeOK, NEW u \in Uids, PlayerRun(u)
  PROVE  \A v \in Uids : HonestPointer(v) => HonestPointer(v)' \/ EnterDropped(v)
<1>1. UNCHANGED <<seat, mapBystanders>>
  BY DEF PlayerRun, PlayerEnter, PlayerLeave, PlayerDisconnect, tableVars
<1>2. Members' = Members
  BY <1>1, SameMembers
<1>3. \/ UNCHANGED chanClientAndMsg
      \/ \E id \in PlayerMsgs : RoomHandle(u, id, 0)
  BY DEF PlayerRun, PlayerEnter, PlayerLeave, PlayerDisconnect, PlayerMsgs
<1>4. \A v \in Uids : EnterUnderWay(v) => EnterUnderWay(v)'
  BY <1>3, RoomHandleLength DEF EnterUnderWay
<1>5. CASE PlayerEnter(u)
  <2>1. \A v \in Uids : inRoom'[v] => v \in {u} \/ inRoom[v]
    BY <1>5 DEF PlayerEnter, TypeOK
  <2>2. Len(chanClientAndMsg) < RoomCap \/ EnterDropped(u)
    BY <1>5, RoomAssumption DEF PlayerEnter, EnterDropped, TypeOK
  <2>3. ASSUME Len(chanClientAndMsg) < RoomCap
        PROVE  EnterUnderWay(u)'
    <3>1. RoomHandle(u, "Enter", 0) /\ "Enter" \in PlayerMsgs
      BY <1>5 DEF PlayerEnter, PlayerMsgs
    <3>2. /\ Len(chanClientAndMsg') \in 1 .. Len(chanClientAndMsg')
          /\ chanClientAndMsg'[Len(chanClientAndMsg')] = [from |-> u, id |-> "Enter", rate |-> 0]
      BY <2>3, <3>1, RoomHandleLength DEF TypeOK
    <3> QED
      BY <3>2 DEF EnterUnderWay
  <2> QED
    BY <1>2, <1>4, <2>1, <2>2, <2>3 DEF HonestPointer
<1>6. CASE PlayerLeave(u) \/ PlayerDisconnect(u)
  <2>1. inRoom' = inRoom
    BY <1>6 DEF PlayerLeave, PlayerDisconnect
  <2> QED
    BY <1>2, <1>4, <2>1 DEF HonestPointer
<1> QED
  BY <1>5, <1>6 DEF PlayerRun

\* Whoever is not removed keeps the place in the room.
LEMMA RemovalKeepsOthers ==
  ASSUME TypeOK, SeatsAgree, NEW S \in SUBSET Uids,
         VacateSeats(S), LeaveRoom(S), mapBystanders' = mapBystanders \ S
  PROVE  \A u \in Uids : /\ inRoom'[u] => inRoom[u]
                         /\ u \in Members /\ inRoom'[u] => u \in Members'
<1>1. \A u \in Uids : inRoom'[u] => inRoom[u] /\ u \notin S
  BY DEF LeaveRoom
<1>2. seat' = [i \in SeatIdx |-> IF seat[i] \in S THEN Nobody ELSE seat[i]]
  BY VacatedSeats
<1> QED
  BY <1>1, <1>2 DEF Members, Seated

LEMMA PointerRoom ==
  ASSUME TypeOK, TableInv, NEW u \in Uids, RoomTakesMessage(u)
  PROVE  \A v \in Uids : HonestPointer(v) => HonestPointer(v)'
<1>1. ASSUME NEW id, TakeFromRoom(u, id)
      PROVE  \A v \in Uids : v # u \/ id # "Enter" => (EnterUnderWay(v) => EnterUnderWay(v)')
  BY <1>1, RoomTakesOne DEF EnterUnderWay
<1>2. CASE RoomEnter(u)
  <2>1. UNCHANGED <<seat, inRoom>> /\ mapBystanders \subseteq mapBystanders'
        /\ u \in Members'
    BY <1>2 DEF RoomEnter, playerVars, Members, Seated
  <2>2. Members \subseteq Members'
    BY <2>1 DEF Members, Seated
  <2>3. \A v \in Uids \ {u} : EnterUnderWay(v) => EnterUnderWay(v)'
    BY <1>1, <1>2 DEF RoomEnter
  <2> QED
    BY <2>1, <2>2, <2>3 DEF HonestPointer
<1>3. CASE RoomLeave(u)
  <2>1. VacateSeats({u}) /\ LeaveRoom({u}) /\ mapBystanders' = mapBystanders \ {u}
    BY <1>3 DEF RoomLeave
  <2>2. \A v \in Uids : EnterUnderWay(v) => EnterUnderWay(v)'
    <3>1. TakeFromRoom(u, "Leave") \/ TakeFromRoom(u, "Disconnect")
      BY <1>3 DEF RoomLeave
    <3> QED
      BY <1>1, <3>1
  <2>3. \A v \in Uids : /\ inRoom'[v] => inRoom[v]
                        /\ v \in Members /\ inRoom'[v] => v \in Members'
    BY <2>1, RemovalKeepsOthers DEF TableInv
  <2> QED
    BY <2>2, <2>3 DEF HonestPointer
<1>4. CASE RoomHaveASeat(u)
  <2>1. Members \subseteq Members' /\ inRoom' = inRoom
    BY <1>4, RoomAssumption DEF RoomHaveASeat, Members, Seated, FreeSeats, TypeOK
  <2>2. \A v \in Uids : EnterUnderWay(v) => EnterUnderWay(v)'
    BY <1>1, <1>4 DEF RoomHaveASeat
  <2> QED
    BY <2>1, <2>2 DEF HonestPointer
<1>5. CASE RoomReady(u) \/ RoomRobZhuang(u) \/ RoomBet(u) \/ RoomShowCard(u)
  <2>1. UNCHANGED <<seat, mapBystanders, inRoom>>
    BY <1>5 DEF RoomReady, RoomRobZhuang, RoomBet, RoomShowCard, tableVars, playerVars
  <2>2. \A v \in Uids : EnterUnderWay(v) => EnterUnderWay(v)'
    BY <1>1, <1>5 DEF RoomReady, RoomRobZhuang, RoomBet, RoomShowCard
  <2> QED
    BY <2>1, <2>2, SameMembers DEF HonestPointer
<1> QED
  BY <1>2, <1>3, <1>4, <1>5 DEF RoomTakesMessage

LEMMA PointerTick ==
  ASSUME TypeOK, TableInv, Tick
  PROVE  \A v \in Uids : HonestPointer(v) => HonestPointer(v)'
<1>1. \A v \in Uids : EnterUnderWay(v) => EnterUnderWay(v)'
  BY DEF Tick, chanVars, EnterUnderWay
<1>2. PICK elapsed :
        \/ KeepWaiting(elapsed) \/ StartCountDown(elapsed)
        \/ StartRound(elapsed)  \/ ConfirmBanker(elapsed)
        \/ CloseBets(elapsed)   \/ ShowCards(elapsed)
        \/ SettleRound(elapsed) \/ FinishRound(elapsed)
  BY TickSteps
<1>3. CASE StartRound(elapsed)
  <2>1. Members \subseteq Members' /\ inRoom' = inRoom
    BY <1>3 DEF StartRound, Members, Seated
  <2> QED
    BY <1>1, <2>1 DEF HonestPointer
<1>4. CASE FinishRound(elapsed)
  <2>1. /\ VacateSeats(Gone) /\ LeaveRoom(Gone) /\ mapBystanders' = mapBystanders \ Gone
        /\ Gone \in SUBSET Uids
    BY <1>4 DEF FinishRound, Gone, Members, Seated, TypeOK
  <2>2. \A v \in Uids : /\ inRoom'[v] => inRoom[v]
                        /\ v \in Members /\ inRoom'[v] => v \in Members'
    BY <2>1, RemovalKeepsOthers DEF TableInv
  <2> QED
    BY <1>1, <2>2 DEF HonestPointer
<1>5. CASE ~StartRound(elapsed) /\ ~FinishRound(elapsed)
  <2>1. UNCHANGED <<seat, mapBystanders, inRoom>>
    BY <1>2, <1>5 DEF KeepWaiting, StartCountDown, ConfirmBanker, CloseBets, ShowCards,
                      SettleRound, tableVars, playerVars
  <2> QED
    BY <1>1, <2>1, SameMembers DEF HonestPointer
<1> QED
  BY <1>3, <1>4, <1>5

\* Every step keeps every honest pointer but that of a user whose enter it drops.
LEMMA PointerStep ==
  ASSUME TypeOK, TableInv, [Next]_vars
  PROVE  \A u \in Uids : HonestPointer(u) => HonestPointer(u)' \/ EnterDropped(u)
<1>1. CASE UNCHANGED vars
  BY <1>1 DEF vars, tableVars, playerVars, chanVars, HonestPointer, EnterUnderWay, Members, Seated
<1> QED
  BY <1>1, PointerDispatch, PointerPlayer, PointerRoom, PointerTick DEF Next

\* For queues of any size and however many messages are under way: only the drop of
\* the user's own enter makes a player object point at a room that does not have the
\* user and is not about to.
THEOREM PointerAlwaysKept == Spec => PointerKept
<1>1. TypeOK /\ TableInv /\ [Next]_vars
        => [\A u \in Uids : HonestPointer(u) => HonestPointer(u)' \/ EnterDropped(u)]_vars
  BY PointerStep
<1> QED
  BY <1>1, TypeCorrect, TableInvariant, PTL DEF Spec, PointerKept
=============================================================================
