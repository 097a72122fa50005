--------------------------- MODULE GateSessionProofs ---------------------------
(***************************************************************************)
(* For every number of connections: the session keeps its types, the       *)
(* niuniu server follows the lobby's order of admission, and a connection  *)
(* that is left bound is the object's, or one an object was left on.       *)
(***************************************************************************)
EXTENDS GateSession, SequenceTheorems, TLAPS

\* The inductive invariant: a message in the inbox has a player object behind it.
IInv == TypeOK /\ AdmissionOrder /\ (chanConnData # <<>> => playerConn # None)

-----------------------------------------------------------------------------
(* The links as sequences.                                                  *)

LEMMA Taken ==
  ASSUME NEW S, NEW q \in Seq(S), q # <<>>
  PROVE  Head(q) \in S /\ Tail(q) \in Seq(S)
  OBVIOUS

LEMMA Put ==
  ASSUME NEW S, NEW q \in Seq(S), NEW m \in S
  PROVE  Append(q, m) \in Seq(S)
  OBVIOUS

EntryIds == EnterIds \cup PassedOnIds

LEMMA EnterPut ==
  ASSUME NEW S, NEW q \in Seq(S), NEW m \in S, m.id \in EntryIds
  PROVE  /\ EntersIn(Append(q, m)) # {}
         /\ NewestIs(Append(q, m), m.connId)
<1>1. /\ DOMAIN Append(q, m) = 1 .. Len(q) + 1 /\ Append(q, m)[Len(q) + 1] = m
      /\ Len(q) + 1 \in DOMAIN Append(q, m) /\ Len(q) \in Nat
  OBVIOUS
<1>2. Len(q) + 1 \in EntersIn(Append(q, m))
  BY <1>1 DEF EntersIn, EntryIds
<1>3. \A j \in EntersIn(Append(q, m)) : j <= Len(q) + 1
  BY <1>1 DEF EntersIn
<1> QED
  BY <1>1, <1>2, <1>3 DEF NewestIs

LEMMA OtherPut ==
  ASSUME NEW S, NEW q \in Seq(S), NEW m \in S, m.id \notin EntryIds, NEW c
  PROVE  /\ EntersIn(Append(q, m)) = EntersIn(q)
         /\ NewestIs(q, c) => NewestIs(Append(q, m), c)
<1>1. /\ DOMAIN Append(q, m) = 1 .. Len(q) + 1 /\ Append(q, m)[Len(q) + 1] = m
      /\ DOMAIN q = 1 .. Len(q) /\ Len(q) \in Nat
  OBVIOUS
<1>2. \A i \in DOMAIN q : Append(q, m)[i] = q[i]
  OBVIOUS
<1>3. EntersIn(Append(q, m)) = EntersIn(q)
  <2>1. \A i \in DOMAIN Append(q, m) : i \in DOMAIN q \/ i = Len(q) + 1
    BY <1>1
  <2>2. DOMAIN q \subseteq DOMAIN Append(q, m)
    BY <1>1
  <2> QED
    BY <1>1, <1>2, <2>1, <2>2 DEF EntersIn, EntryIds
<1>4. ASSUME NewestIs(q, c) PROVE NewestIs(Append(q, m), c)
  <2>1. PICK i \in EntersIn(q) : q[i].connId = c /\ \A j \in EntersIn(q) : j <= i
    BY <1>4 DEF NewestIs
  <2>2. Append(q, m)[i] = q[i]
    BY <1>2 DEF EntersIn
  <2> QED
    BY <1>3, <2>1, <2>2 DEF NewestIs
<1> QED
  BY <1>3, <1>4

\* Taking the head moves every other message down by one.
LEMMA Shift ==
  ASSUME NEW S, NEW q \in Seq(S), q # <<>>
  PROVE  /\ \A i \in EntersIn(Tail(q)) : i + 1 \in EntersIn(q) /\ q[i + 1] = Tail(q)[i]
         /\ \A i \in EntersIn(q) : i = 1 \/ (i - 1 \in EntersIn(Tail(q)) /\ q[i] = Tail(q)[i - 1])
         /\ EntersIn(Tail(q)) \subseteq Nat /\ EntersIn(q) \subseteq Nat
<1>1. /\ DOMAIN q = 1 .. Len(q) /\ Len(q) \in Nat \ {0}
      /\ DOMAIN Tail(q) = 1 .. Len(q) - 1
      /\ \A i \in 1 .. Len(q) - 1 : Tail(q)[i] = q[i + 1]
  OBVIOUS
<1>2. \A i \in 1 .. Len(q) - 1 : i + 1 \in 1 .. Len(q)
  BY <1>1
<1>3. \A i \in 1 .. Len(q) : i = 1 \/ (i - 1 \in 1 .. Len(q) - 1 /\ (i - 1) + 1 = i)
  BY <1>1
<1>4. \A i \in EntersIn(Tail(q)) : i + 1 \in EntersIn(q) /\ q[i + 1] = Tail(q)[i]
  BY <1>1, <1>2 DEF EntersIn
<1>5. \A i \in EntersIn(q) : i = 1 \/ (i - 1 \in EntersIn(Tail(q)) /\ q[i] = Tail(q)[i - 1])
  BY <1>1, <1>3 DEF EntersIn
<1>6. EntersIn(Tail(q)) \subseteq Nat /\ EntersIn(q) \subseteq Nat
  BY <1>1 DEF EntersIn
<1> QED
  BY <1>4, <1>5, <1>6

\* If there is an enter left behind the head, the newest stays the newest.
LEMMA NewestStays ==
  ASSUME NEW S, NEW q \in Seq(S), q # <<>>, NEW c, NewestIs(q, c), EntersIn(Tail(q)) # {}
  PROVE  NewestIs(Tail(q), c)
<1>1. PICK i \in EntersIn(q) : q[i].connId = c /\ \A j \in EntersIn(q) : j <= i
  BY DEF NewestIs
<1>2. PICK k \in EntersIn(Tail(q)) : TRUE
  OBVIOUS
<1>3. /\ k + 1 \in EntersIn(q) /\ k \in Nat /\ i \in Nat /\ k >= 1
  <2>1. k >= 1
    BY DEF EntersIn
  <2> QED
    BY <2>1, <1>1, <1>2, Shift
<1>4. i # 1
  <2>1. k + 1 <= i
    BY <1>1, <1>3
  <2> QED
    BY <2>1, <1>3
<1>5. i - 1 \in EntersIn(Tail(q)) /\ Tail(q)[i - 1] = q[i]
  BY <1>1, <1>4, Shift
<1>6. \A j \in EntersIn(Tail(q)) : j <= i - 1
  <2> TAKE j \in EntersIn(Tail(q))
  <2>1. j + 1 \in EntersIn(q) /\ j \in Nat
    BY Shift
  <2>2. j + 1 <= i
    BY <2>1, <1>1
  <2> QED
    BY <2>1, <2>2, <1>3
<1> QED
  BY <1>1, <1>5, <1>6 DEF NewestIs

LEMMA EnterTaken ==
  ASSUME NEW S, NEW q \in Seq(S), q # <<>>, Head(q).id \in EntryIds, NEW c
  PROVE  /\ EntersIn(q) # {}
         /\ NewestIs(q, c) /\ EntersIn(Tail(q)) = {} => Head(q).connId = c
<1>1. Head(q) = q[1] /\ 1 \in DOMAIN q
  OBVIOUS
<1>2. 1 \in EntersIn(q)
  BY <1>1 DEF EntersIn, EntryIds
<1>3. ASSUME NewestIs(q, c), EntersIn(Tail(q)) = {} PROVE Head(q).connId = c
  <2>1. PICK i \in EntersIn(q) : q[i].connId = c
    BY <1>3 DEF NewestIs
  <2>2. i = 1
    BY <2>1, <1>3, Shift
  <2> QED
    BY <1>1, <2>1, <2>2
<1> QED
  BY <1>2, <1>3

LEMMA OtherTaken ==
  ASSUME NEW S, NEW q \in Seq(S), q # <<>>, Head(q).id \notin EntryIds
  PROVE  EntersIn(Tail(q)) = {} <=> EntersIn(q) = {}
<1>1. Head(q) = q[1]
  OBVIOUS
<1>2. 1 \notin EntersIn(q)
  BY <1>1 DEF EntersIn, EntryIds
<1>3. ASSUME EntersIn(q) # {} PROVE EntersIn(Tail(q)) # {}
  <2>1. PICK i \in EntersIn(q) : TRUE
    BY <1>3
  <2>2. i - 1 \in EntersIn(Tail(q))
    BY <2>1, <1>2, Shift
  <2> QED
    BY <2>2
<1>4. ASSUME EntersIn(Tail(q)) # {} PROVE EntersIn(q) # {}
  <2>1. PICK i \in EntersIn(Tail(q)) : TRUE
    BY <1>4
  <2>2. i + 1 \in EntersIn(q)
    BY <2>1, Shift
  <2> QED
    BY <2>2
<1> QED
  BY <1>3, <1>4

-----------------------------------------------------------------------------
(* The types, and the inbox that has an object, action by action.           *)

Owned == chanConnData # <<>> => playerConn # None

LEMMA Heads ==
  ASSUME NEW ids, NEW q \in Seq(Msgs(ids)), q # <<>>
  PROVE  /\ Head(q).id \in ids /\ Head(q).connId \in Conns
         /\ Tail(q) \in Seq(Msgs(ids))
<1>1. Head(q) \in Msgs(ids) /\ Tail(q) \in Seq(Msgs(ids))
  BY Taken
<1> QED
  BY <1>1 DEF Msgs

LEMMA Puts ==
  ASSUME NEW ids, NEW q \in Seq(Msgs(ids)), NEW id \in ids, NEW c \in Conns
  PROVE  Append(q, M(id, c)) \in Seq(Msgs(ids))
<1>1. M(id, c) \in Msgs(ids)
  BY DEF Msgs, M
<1> QED
  BY <1>1, Put

LEMMA ClientTypes ==
  ASSUME TypeOK, Owned, ClientAct
  PROVE  TypeOK' /\ Owned'
<1>1. ASSUME NEW c \in Conns, Connect(c) PROVE TypeOK' /\ Owned'
  BY <1>1 DEF Connect, TypeOK, Owned, linkVars, lobbyVars, playerVars
<1>2. ASSUME NEW c \in Conns, Close(c) PROVE TypeOK' /\ Owned'
  BY <1>2 DEF Close, TypeOK, Owned, gateVars, linkVars, lobbyVars, playerVars
<1>3. ASSUME NEW c \in Conns, NEW id \in Requests, Request(c, id) PROVE TypeOK' /\ Owned'
  <2>1. chanRecvMsg[c] \in Seq(Requests)
    BY DEF TypeOK
  <2>2. Append(chanRecvMsg[c], id) \in Seq(Requests)
    BY <2>1, Put
  <2>3. chanRecvMsg' \in [Conns -> Seq(Requests)]
    BY <1>3, <2>2 DEF Request, TypeOK
  <2>4. asked' \in Nat
    BY <1>3 DEF Request, TypeOK
  <2> QED
    BY <1>3, <2>3, <2>4 DEF Request, TypeOK, Owned, linkVars, lobbyVars, playerVars
<1> QED
  BY <1>1, <1>2, <1>3 DEF ClientAct

LEMMA BindTypes ==
  ASSUME TypeOK, NEW c, NEW id \in {0, NiuniuId}, SetClientGameSrvId(c, id)
  PROVE  gameServerId' \in [Conns -> {0, NiuniuId}]
  BY DEF SetClientGameSrvId, TypeOK

LEMMA GateTypes ==
  ASSUME TypeOK, Owned, GateAct
  PROVE  TypeOK' /\ Owned'
<1>1. ASSUME NEW c \in Conns, Forward(c) PROVE TypeOK' /\ Owned'
  <2> PICK id : id = Head(chanRecvMsg[c])
    OBVIOUS
  <2>1. chanRecvMsg[c] \in Seq(Requests) /\ chanRecvMsg[c] # <<>>
    BY <1>1 DEF Forward, TypeOK
  <2>2. id \in Requests /\ Tail(chanRecvMsg[c]) \in Seq(Requests)
    BY <2>1, Taken
  <2>3. chanRecvMsg' \in [Conns -> Seq(Requests)]
    BY <1>1, <2>2 DEF Forward, TypeOK
  <2>4. toLobby' \in Seq(Msgs(LobbyIds))
    <3>1. toLobby' = toLobby \/ (id \in LobbyIds /\ toLobby' = Append(toLobby, M(id, c)))
      BY <1>1 DEF Forward
    <3>2. toLobby \in Seq(Msgs(LobbyIds))
      BY DEF TypeOK
    <3>3. id \in LobbyIds => Append(toLobby, M(id, c)) \in Seq(Msgs(LobbyIds))
      BY <3>2, Puts
    <3> QED
      BY <3>1, <3>2, <3>3
  <2>5. toNiuniu' \in Seq(Msgs(PlayerIds))
    <3>1. toNiuniu' = toNiuniu \/ (id \notin LobbyIds /\ toNiuniu' = Append(toNiuniu, M(id, c)))
      BY <1>1 DEF Forward
    <3>2. id \notin LobbyIds => id \in PlayerIds
      BY <2>2 DEF Requests, PlayerIds, LeaveIds
    <3>3. toNiuniu \in Seq(Msgs(PlayerIds))
      BY DEF TypeOK
    <3>4. id \in PlayerIds => Append(toNiuniu, M(id, c)) \in Seq(Msgs(PlayerIds))
      BY <3>3, Puts
    <3> QED
      BY <3>1, <3>2, <3>3, <3>4
  <2> QED
    BY <1>1, <2>3, <2>4, <2>5 DEF Forward, TypeOK, Owned, clientVars, lobbyVars, playerVars
<1>2. ASSUME NEW c \in Conns, Exit(c) PROVE TypeOK' /\ Owned'
  <2>1. toNiuniu' \in Seq(Msgs(PlayerIds))
    <3>1. "gate2NiuniuClientDisconnect" \in PlayerIds
      BY DEF PlayerIds, LeaveIds
    <3>2. toNiuniu' = toNiuniu \/ toNiuniu' = Append(toNiuniu, M("gate2NiuniuClientDisconnect", c))
      BY <1>2 DEF Exit
    <3>3. toNiuniu \in Seq(Msgs(PlayerIds))
      BY DEF TypeOK
    <3>4. Append(toNiuniu, M("gate2NiuniuClientDisconnect", c)) \in Seq(Msgs(PlayerIds))
      BY <3>1, <3>3, Puts
    <3> QED
      BY <3>2, <3>3, <3>4
  <2>2. mapClient' \subseteq Conns /\ status' \in [Conns -> {"new", "open", "closed", "gone"}]
    BY <1>2 DEF Exit, TypeOK
  <2>3. chanRecvMsg' \in [Conns -> Seq(Requests)]
    <3>1. <<>> \in Seq(Requests)
      OBVIOUS
    <3> QED
      BY <1>2, <3>1 DEF Exit, TypeOK
  <2> QED
    BY <1>2, <2>1, <2>2, <2>3 DEF Exit, TypeOK, Owned, lobbyVars, playerVars
<1>3. ASSUME GateFromLobby PROVE TypeOK' /\ Owned'
  <2> PICK m : m = Head(fromLobby)
    OBVIOUS
  <2>1. m.connId \in Conns /\ fromLobby' \in Seq(Msgs(FromLobbyIds))
    BY <1>3, Heads DEF GateFromLobby, TypeOK
  <2>2. gameServerId' \in [Conns -> {0, NiuniuId}]
    BY <1>3, BindTypes DEF GateFromLobby, TypeOK
  <2>3. mapClient' \subseteq Conns
    BY <1>3 DEF GateFromLobby, KickClient, TypeOK
  <2>4. entering' \in Seq(Msgs(EnterIds))
    <3>1. \A id \in EnterIds : <<M(id, m.connId)>> \in Seq(Msgs(EnterIds))
      <4> TAKE id \in EnterIds
      <4>1. M(id, m.connId) \in Msgs(EnterIds)
        BY <2>1 DEF M, Msgs
      <4> QED
        BY <4>1
    <3>2. {"c2sEnterNiuniuRoom", "c2sCreateNiuniuRoom"} \subseteq EnterIds
      BY DEF EnterIds
    <3>3. \/ entering' = entering
          \/ entering' = <<M("c2sEnterNiuniuRoom", m.connId)>>
          \/ entering' = <<M("c2sCreateNiuniuRoom", m.connId)>>
      BY <1>3 DEF GateFromLobby
    <3>4. entering \in Seq(Msgs(EnterIds))
      BY DEF TypeOK
    <3> QED
      BY <3>1, <3>2, <3>3, <3>4
  <2> QED
    BY <1>3, <2>1, <2>2, <2>3, <2>4
       DEF GateFromLobby, TypeOK, Owned, clientVars, lobbyVars, playerVars
<1>4. ASSUME SendToBackEndServer PROVE TypeOK' /\ Owned'
  <2>1. Head(entering) \in Msgs(PlayerIds)
    <3>1. Head(entering) \in Msgs(EnterIds)
      BY <1>4, Taken DEF SendToBackEndServer, TypeOK
    <3> QED
      BY <3>1 DEF Msgs, PlayerIds
  <2>2. toNiuniu' \in Seq(Msgs(PlayerIds))
    <3>1. toNiuniu \in Seq(Msgs(PlayerIds))
      BY DEF TypeOK
    <3>2. Append(toNiuniu, Head(entering)) \in Seq(Msgs(PlayerIds))
      BY <2>1, <3>1, Put
    <3> QED
      BY <1>4, <3>2 DEF SendToBackEndServer
  <2>3. entering' \in Seq(Msgs(EnterIds))
    <3>1. <<>> \in Seq(Msgs(EnterIds))
      OBVIOUS
    <3> QED
      BY <1>4, <3>1 DEF SendToBackEndServer
  <2> QED
    BY <1>4, <2>2, <2>3
       DEF SendToBackEndServer, TypeOK, Owned, clientVars, lobbyVars, playerVars
<1>5. ASSUME GateFromNiuniu PROVE TypeOK' /\ Owned'
  <2>1. fromNiuniu' \in Seq(Msgs(FromNiuniuIds))
    BY <1>5, Heads DEF GateFromNiuniu, TypeOK
  <2>2. gameServerId' \in [Conns -> {0, NiuniuId}]
    BY <1>5, BindTypes DEF GateFromNiuniu, TypeOK
  <2>3. mapClient' \subseteq Conns
    BY <1>5 DEF GateFromNiuniu, KickClient, TypeOK
  <2> QED
    BY <1>5, <2>1, <2>2, <2>3
       DEF GateFromNiuniu, TypeOK, Owned, clientVars, lobbyVars, playerVars
<1> QED
  BY <1>1, <1>2, <1>3, <1>4, <1>5 DEF GateAct

LEMMA LobbyTypes ==
  ASSUME TypeOK, Owned, LobbyHandle
  PROVE  TypeOK' /\ Owned'
<1> PICK m : m = Head(toLobby)
  OBVIOUS
<1>1. m.connId \in Conns /\ toLobby' \in Seq(Msgs(LobbyIds))
  BY Heads DEF LobbyHandle, TypeOK
<1>2. fromLobby \in Seq(Msgs(FromLobbyIds)) /\ logged \subseteq Conns
  BY DEF TypeOK
<1>3. /\ logged' \subseteq Conns /\ admitted' \in Conns \cup {None}
      /\ fromLobby' \in Seq(Msgs(FromLobbyIds))
  <2>1. ASSUME LobbyLogin(m.connId)
        PROVE  logged' \subseteq Conns /\ fromLobby' \in Seq(Msgs(FromLobbyIds))
    <3>1. "s2cKick" \in FromLobbyIds
      BY DEF FromLobbyIds
    <3>2. \A old \in logged : Append(fromLobby, M("s2cKick", old)) \in Seq(Msgs(FromLobbyIds))
      BY <1>2, <3>1, Puts
    <3>3. /\ logged' = logged \/ logged' = logged \cup {m.connId}
          /\ \/ fromLobby' = fromLobby
             \/ \E old \in logged : fromLobby' = Append(fromLobby, M("s2cKick", old))
      BY <2>1 DEF LobbyLogin
    <3> QED
      BY <1>1, <1>2, <3>2, <3>3
  <2>2. ASSUME NEW id \in PassedOnIds, LobbyPassOn(m.connId, id)
        PROVE  admitted' \in Conns \cup {None} /\ fromLobby' \in Seq(Msgs(FromLobbyIds))
    <3>1. id \in FromLobbyIds
      BY DEF FromLobbyIds
    <3>2. Append(fromLobby, M(id, m.connId)) \in Seq(Msgs(FromLobbyIds))
      BY <1>1, <1>2, <3>1, Puts
    <3> QED
      BY <1>1, <1>2, <2>2, <3>2 DEF LobbyPassOn, TypeOK
  <2>3. \/ LobbyLogin(m.connId)
        \/ \E id \in PassedOnIds : LobbyPassOn(m.connId, id)
    BY DEF LobbyHandle, PassedOnIds
  <2>4. LobbyLogin(m.connId) => admitted' = admitted
    BY DEF LobbyLogin
  <2>5. \A id : LobbyPassOn(m.connId, id) => logged' = logged
    BY DEF LobbyPassOn
  <2> QED
    BY <1>2, <2>1, <2>2, <2>3, <2>4, <2>5 DEF TypeOK
<1> QED
  BY <1>1, <1>3 DEF LobbyHandle, TypeOK, Owned, clientVars, gateVars, playerVars

LEMMA OrphanTypes ==
  ASSUME TypeOK, Orphan
  PROVE  orphaned' \in [Conns -> Nat]
<1>1. orphaned \in [Conns -> Nat] /\ playerConn \in Conns \cup {None}
  BY DEF TypeOK
<1>2. PICK n : n = orphaned[playerConn] + 1
  OBVIOUS
<1>3. orphaned' = orphaned \/ orphaned' = [orphaned EXCEPT ![playerConn] = n]
  BY <1>2 DEF Orphan
<1>4. playerConn \in Conns => n \in Nat
  BY <1>1, <1>2
<1>5. playerConn \notin Conns => [orphaned EXCEPT ![playerConn] = n] = orphaned
  BY <1>1
<1> QED
  BY <1>1, <1>3, <1>4, <1>5

LEMMA HandleTypes ==
  ASSUME NEW isOpen, NEW inbox \in Seq(PlayerIds), NEW id \in PlayerIds,
         Handle(isOpen, inbox, id)
  PROVE  chanConnData' \in Seq(PlayerIds)
<1>1. Append(inbox, id) \in Seq(PlayerIds)
  BY Put
<1> QED
  BY <1>1 DEF Handle

\* What a dispatched message may change, well-typed.
Dispatched ==
  /\ playerConn' \in Conns \cup {None} /\ mapConnid' \subseteq Conns
  /\ open' \in BOOLEAN /\ online' \in BOOLEAN
  /\ chanConnData' \in Seq(PlayerIds) /\ fromNiuniu' \in Seq(Msgs(FromNiuniuIds))
  /\ orphaned' \in [Conns -> Nat] /\ abandoned' \subseteq Conns
  /\ Owned'

LEMMA NewPlayerTypes ==
  ASSUME TypeOK, NEW c \in Conns, NEW id \in EnterIds, NewPlayer(c, id),
         abandoned' \subseteq Conns
  PROVE  Dispatched
<1>1. <<id>> \in Seq(PlayerIds)
  <2>1. id \in PlayerIds
    BY DEF PlayerIds
  <2> QED
    BY <2>1
<1>2. orphaned' \in [Conns -> Nat]
  BY OrphanTypes DEF NewPlayer
<1>3. c # None
  BY SessionAssumption
<1> QED
  BY <1>1, <1>2, <1>3 DEF NewPlayer, Dispatched, Owned, TypeOK

LEMMA MovePlayerTypes ==
  ASSUME TypeOK, NEW c \in Conns, playerConn # None, MovePlayer(c)
  PROVE  Dispatched
<1>1. fromNiuniu' \in Seq(Msgs(FromNiuniuIds))
  <2>1. playerConn \in Conns /\ "s2cKick" \in FromNiuniuIds
    BY DEF TypeOK, FromNiuniuIds
  <2>2. Append(fromNiuniu, M("s2cKick", playerConn)) \in Seq(Msgs(FromNiuniuIds))
    BY <2>1, Puts DEF TypeOK
  <2> QED
    BY <2>2 DEF MovePlayer, TypeOK
<1>2. chanConnData' \in Seq(PlayerIds)
  <2>1. "c2sEnterNiuniuRoom" \in PlayerIds /\ chanConnData \in Seq(PlayerIds)
    BY DEF PlayerIds, EnterIds, TypeOK
  <2>2. Handle(open', chanConnData, "c2sEnterNiuniuRoom")
    BY DEF MovePlayer
  <2> QED
    BY <2>1, <2>2, HandleTypes
<1>3. open' \in BOOLEAN
  BY DEF MovePlayer, MayClose, TypeOK
<1>4. playerConn' = c /\ c # None
  BY SessionAssumption DEF MovePlayer
<1>5. /\ mapConnid' \subseteq Conns /\ abandoned' \subseteq Conns
      /\ orphaned' \in [Conns -> Nat] /\ online' \in BOOLEAN
  BY DEF MovePlayer, TypeOK
<1> QED
  BY <1>1, <1>2, <1>3, <1>4, <1>5 DEF Dispatched, Owned

\* The object is given up, on connection c.
LEMMA GivenUpTypes ==
  ASSUME TypeOK, NEW c \in Conns,
         playerConn' = None, mapConnid' = mapConnid \ {c}, open' = FALSE, online' = FALSE,
         chanConnData' = <<>>, Orphan, abandoned' = abandoned \cup {c}, UNCHANGED fromNiuniu
  PROVE  Dispatched
<1>1. <<>> \in Seq(PlayerIds)
  OBVIOUS
<1>2. orphaned' \in [Conns -> Nat]
  BY OrphanTypes
<1> QED
  BY <1>1, <1>2 DEF Dispatched, Owned, TypeOK

LEMMA DispatchTypes ==
  ASSUME TypeOK, Owned, NEW c \in Conns, NEW id \in PlayerIds,
         \/ id = "c2sEnterNiuniuRoom" /\ DispatchEnter(c)
         \/ id = "c2sCreateNiuniuRoom" /\ DispatchBuild(c)
         \/ id \in LeaveIds /\ DispatchOther(c, id)
  PROVE  Dispatched
<1>1. CASE DispatchEnter(c)
  <2>1. CASE playerConn = None
    <3>1. "c2sEnterNiuniuRoom" \in EnterIds
      BY DEF EnterIds
    <3>2. NewPlayer(c, "c2sEnterNiuniuRoom") /\ abandoned' \subseteq Conns
      BY <1>1, <2>1 DEF DispatchEnter, TypeOK
    <3> QED
      BY <3>1, <3>2, NewPlayerTypes
  <2>2. CASE playerConn # None /\ MovePlayer(c)
    BY <2>2, MovePlayerTypes
  <2>3. CASE EnterLost(c)
    BY <2>3, GivenUpTypes DEF EnterLost
  <2> QED
    BY <1>1, <2>1, <2>2, <2>3 DEF DispatchEnter
<1>2. CASE DispatchBuild(c)
  <2>1. "c2sCreateNiuniuRoom" \in EnterIds
    BY DEF EnterIds
  <2>2. NewPlayer(c, "c2sCreateNiuniuRoom") /\ abandoned' \subseteq Conns
    BY <1>2 DEF DispatchBuild, TypeOK
  <2> QED
    BY <2>1, <2>2, NewPlayerTypes
<1>3. CASE DispatchOther(c, id)
  <2>1. chanConnData \in Seq(PlayerIds)
    BY DEF TypeOK
  <2>2. chanConnData' \in Seq(PlayerIds)
    BY <1>3, <2>1, HandleTypes DEF DispatchOther
  <2>3. chanConnData' = chanConnData \/ playerConn # None
    BY <1>3 DEF DispatchOther
  <2> QED
    BY <1>3, <2>2, <2>3 DEF DispatchOther, Dispatched, Owned, TypeOK
<1> QED
  BY <1>1, <1>2, <1>3

LEMMA AnswerTypes ==
  ASSUME TypeOK, NEW c \in Conns, MayAnswer(c)
  PROVE  fromNiuniu' \in Seq(Msgs(FromNiuniuIds))
<1>1. "s2cLeaveNiuniuRoom" \in FromNiuniuIds /\ fromNiuniu \in Seq(Msgs(FromNiuniuIds))
  BY DEF FromNiuniuIds, TypeOK
<1>2. Append(fromNiuniu, M("s2cLeaveNiuniuRoom", c)) \in Seq(Msgs(FromNiuniuIds))
  BY <1>1, Puts
<1> QED
  BY <1>1, <1>2 DEF MayAnswer

LEMMA NiuniuTypes ==
  ASSUME TypeOK, Owned, NiuniuDispatch \/ NiuniuExpire \/ PlayerHandle \/ OrphanHandle
  PROVE  TypeOK' /\ Owned'
<1>1. ASSUME NiuniuDispatch PROVE TypeOK' /\ Owned'
  <2> PICK m : m = Head(toNiuniu)
    OBVIOUS
  <2>1. m.id \in PlayerIds /\ m.connId \in Conns /\ toNiuniu' \in Seq(Msgs(PlayerIds))
    BY <1>1, Heads DEF NiuniuDispatch, TypeOK
  <2>2. Dispatched
    BY <1>1, <2>1, DispatchTypes DEF NiuniuDispatch
  <2> QED
    BY <1>1, <2>1, <2>2
       DEF NiuniuDispatch, Dispatched, TypeOK, clientVars, gateVars, lobbyVars
<1>2. ASSUME NiuniuExpire PROVE TypeOK' /\ Owned'
  <2>1. playerConn \in Conns /\ UNCHANGED fromNiuniu
    BY <1>2 DEF NiuniuExpire, TypeOK, linkVars
  <2>2. Dispatched
    BY <1>2, <2>1, GivenUpTypes DEF NiuniuExpire
  <2> QED
    BY <1>2, <2>2 DEF NiuniuExpire, Dispatched, TypeOK, clientVars, gateVars, linkVars, lobbyVars
<1>3. ASSUME PlayerHandle PROVE TypeOK' /\ Owned'
  <2>1. playerConn \in Conns
    BY <1>3 DEF PlayerHandle, TypeOK, Owned
  <2>2. fromNiuniu' \in Seq(Msgs(FromNiuniuIds)) /\ online' \in BOOLEAN
    <3>1. \/ UNCHANGED <<online, fromNiuniu>>
          \/ online' = FALSE /\ MayAnswer(playerConn)
      BY <1>3 DEF PlayerHandle
    <3>2. fromNiuniu \in Seq(Msgs(FromNiuniuIds)) /\ online \in BOOLEAN
      BY DEF TypeOK
    <3> QED
      BY <2>1, <3>1, <3>2, AnswerTypes
  <2>3. chanConnData' \in Seq(PlayerIds)
    BY <1>3, Taken DEF PlayerHandle, TypeOK
  <2> QED
    BY <1>3, <2>1, <2>2, <2>3, SessionAssumption
       DEF PlayerHandle, TypeOK, Owned, clientVars, gateVars, lobbyVars
<1>4. ASSUME OrphanHandle PROVE TypeOK' /\ Owned'
  <2>1. PICK c \in Conns : /\ orphaned[c] > 0
                           /\ orphaned' = [orphaned EXCEPT ![c] = @ - 1] /\ MayAnswer(c)
    BY <1>4 DEF OrphanHandle
  <2>2. fromNiuniu' \in Seq(Msgs(FromNiuniuIds))
    BY <2>1, AnswerTypes
  <2>3. orphaned' \in [Conns -> Nat]
    <3>1. orphaned \in [Conns -> Nat] /\ orphaned[c] - 1 \in Nat
      BY <2>1 DEF TypeOK
    <3> QED
      BY <2>1, <3>1
  <2> QED
    BY <1>4, <2>2, <2>3 DEF OrphanHandle, TypeOK, Owned, clientVars, gateVars, lobbyVars
<1> QED
  BY <1>1, <1>2, <1>3, <1>4

-----------------------------------------------------------------------------
(* The order of admission, for each action that touches an enter or a build. *)

orderVars == <<fromLobby, entering, toNiuniu, playerConn, admitted>>

LEMMA OrderKept ==
  ASSUME AdmissionOrder, UNCHANGED orderVars
  PROVE  AdmissionOrder'
  BY DEF AdmissionOrder, orderVars, EntersIn, NewestIs

\* Other messages, put behind in either link, change nothing, and so does the object's
\* being given up.
LEMMA OrderPadded ==
  ASSUME AdmissionOrder,
         UNCHANGED <<entering, playerConn, admitted>>,
         EntersIn(fromLobby') = EntersIn(fromLobby),
         \A c : NewestIs(fromLobby, c) => NewestIs(fromLobby', c),
         EntersIn(toNiuniu') = EntersIn(toNiuniu),
         \A c : NewestIs(toNiuniu, c) => NewestIs(toNiuniu', c)
  PROVE  AdmissionOrder'
<1>1. EntersIn(fromLobby)' = EntersIn(fromLobby') /\ EntersIn(toNiuniu)' = EntersIn(toNiuniu')
  BY DEF EntersIn
<1>2. /\ NewestIs(fromLobby, admitted)' = NewestIs(fromLobby', admitted')
      /\ NewestIs(toNiuniu, admitted)' = NewestIs(toNiuniu', admitted')
  BY DEF NewestIs, EntersIn
<1> QED
  BY <1>1, <1>2 DEF AdmissionOrder

LEMMA OrderGivenUp ==
  ASSUME AdmissionOrder, UNCHANGED <<fromLobby, entering, toNiuniu, admitted>>,
         playerConn' = None
  PROVE  AdmissionOrder'
  BY DEF AdmissionOrder, EntersIn, NewestIs

LEMMA GateOrder ==
  ASSUME TypeOK, AdmissionOrder, GateAct
  PROVE  AdmissionOrder'
<1>1. ASSUME NEW c \in Conns, NEW id, id \notin EntryIds,
             toNiuniu' = toNiuniu \/ toNiuniu' = Append(toNiuniu, M(id, c)),
             UNCHANGED <<fromLobby, entering, playerConn, admitted>>
      PROVE  AdmissionOrder'
  <2>1. M(id, c).id \notin EntryIds /\ toNiuniu \in Seq(Msgs(PlayerIds) \cup {M(id, c)})
    BY <1>1 DEF M, TypeOK
  <2>2. /\ EntersIn(Append(toNiuniu, M(id, c))) = EntersIn(toNiuniu)
        /\ \A d : NewestIs(toNiuniu, d) => NewestIs(Append(toNiuniu, M(id, c)), d)
    BY <2>1, OtherPut
  <2> QED
    BY <1>1, <2>2, OrderPadded
<1>2. ASSUME NEW c \in Conns, Forward(c) PROVE AdmissionOrder'
  <2> PICK id : id = Head(chanRecvMsg[c])
    OBVIOUS
  <2>1. id \in Requests
    <3>1. chanRecvMsg[c] \in Seq(Requests) /\ chanRecvMsg[c] # <<>>
      BY <1>2 DEF Forward, TypeOK
    <3> QED
      BY <3>1, Taken
  <2>2. CASE id \in LobbyIds
    <3>1. UNCHANGED orderVars
      BY <1>2, <2>2 DEF Forward, orderVars, lobbyVars, playerVars
    <3> QED
      BY <3>1, OrderKept
  <2>3. CASE id \notin LobbyIds
    <3>1. id \notin EntryIds
      BY <2>1, <2>3 DEF Requests, LobbyIds, EntryIds, EnterIds, PassedOnIds
    <3>2. toNiuniu' = toNiuniu \/ toNiuniu' = Append(toNiuniu, M(id, c))
      BY <1>2 DEF Forward
    <3> QED
      BY <1>1, <1>2, <3>1, <3>2 DEF Forward, lobbyVars, playerVars
  <2> QED
    BY <2>2, <2>3
<1>3. ASSUME NEW c \in Conns, Exit(c) PROVE AdmissionOrder'
  <2>1. "gate2NiuniuClientDisconnect" \notin EntryIds
    BY DEF EntryIds, EnterIds, PassedOnIds
  <2>2. \/ toNiuniu' = toNiuniu
        \/ toNiuniu' = Append(toNiuniu, M("gate2NiuniuClientDisconnect", c))
    BY <1>3 DEF Exit
  <2> QED
    BY <1>1, <1>3, <2>1, <2>2 DEF Exit, lobbyVars, playerVars
<1>4. ASSUME GateFromLobby PROVE AdmissionOrder'
  <2> PICK m : m = Head(fromLobby)
    OBVIOUS
  <2>1. /\ fromLobby \in Seq(Msgs(FromLobbyIds)) /\ fromLobby # <<>> /\ fromLobby' = Tail(fromLobby)
        /\ entering = <<>> /\ m.connId \in Conns /\ m.id \in FromLobbyIds
        /\ toNiuniu' = toNiuniu /\ playerConn' = playerConn /\ admitted' = admitted
    BY <1>4, Heads DEF GateFromLobby, TypeOK, lobbyVars, playerVars
  <2>2. /\ EntersIn(fromLobby)' = EntersIn(Tail(fromLobby))
        /\ EntersIn(toNiuniu)' = EntersIn(toNiuniu)
        /\ NewestIs(fromLobby, admitted)' = NewestIs(Tail(fromLobby), admitted)
        /\ NewestIs(toNiuniu, admitted)' = NewestIs(toNiuniu, admitted)
    BY <2>1 DEF NewestIs, EntersIn
  <2>3. CASE m.id \in PassedOnIds
    <3>1. entering' # <<>> /\ Head(entering').connId = m.connId
      <4>1. PICK id : entering' = <<M(id, m.connId)>>
        BY <1>4, <2>3 DEF GateFromLobby, PassedOnIds
      <4> QED
        BY <4>1 DEF M
    <3>2. m.id \in EntryIds
      BY <2>3 DEF EntryIds
    <3>3. EntersIn(fromLobby) # {}
      BY <2>1, <3>2, EnterTaken
    <3>4. NewestIs(fromLobby, admitted)
      BY <3>3 DEF AdmissionOrder
    <3>5. EntersIn(Tail(fromLobby)) = {} => m.connId = admitted
      BY <2>1, <3>2, <3>4, EnterTaken
    <3>6. EntersIn(Tail(fromLobby)) # {} => NewestIs(Tail(fromLobby), admitted)
      BY <2>1, <3>4, NewestStays
    <3> QED
      BY <2>1, <2>2, <3>1, <3>5, <3>6 DEF AdmissionOrder
  <2>4. CASE m.id \notin PassedOnIds
    <3>1. entering' = <<>>
      BY <1>4, <2>1, <2>4 DEF GateFromLobby, PassedOnIds
    <3>2. m.id \notin EntryIds
      BY <2>1, <2>4 DEF EntryIds, EnterIds, FromLobbyIds
    <3>3. EntersIn(Tail(fromLobby)) = {} <=> EntersIn(fromLobby) = {}
      BY <2>1, <3>2, OtherTaken
    <3>4. NewestIs(fromLobby, admitted) /\ EntersIn(Tail(fromLobby)) # {}
            => NewestIs(Tail(fromLobby), admitted)
      BY <2>1, NewestStays
    <3> QED
      BY <2>1, <2>2, <3>1, <3>3, <3>4 DEF AdmissionOrder
  <2> QED
    BY <2>3, <2>4
<1>5. ASSUME SendToBackEndServer PROVE AdmissionOrder'
  <2> PICK e : e = Head(entering)
    OBVIOUS
  <2>1. /\ e \in Msgs(EnterIds) /\ entering' = <<>> /\ entering # <<>>
        /\ fromLobby' = fromLobby /\ playerConn' = playerConn /\ admitted' = admitted
        /\ toNiuniu' = Append(toNiuniu, e)
    BY <1>5, Taken DEF SendToBackEndServer, TypeOK, lobbyVars, playerVars
  <2>2. e.id \in EntryIds /\ e \in Msgs(PlayerIds) /\ toNiuniu \in Seq(Msgs(PlayerIds))
    BY <2>1 DEF EntryIds, TypeOK, Msgs, PlayerIds
  <2>3. EntersIn(toNiuniu') # {} /\ NewestIs(toNiuniu', e.connId)
    BY <2>1, <2>2, EnterPut
  <2>4. /\ EntersIn(fromLobby)' = EntersIn(fromLobby)
        /\ EntersIn(toNiuniu)' = EntersIn(toNiuniu')
        /\ NewestIs(fromLobby, admitted)' = NewestIs(fromLobby, admitted)
        /\ NewestIs(toNiuniu, admitted)' = NewestIs(toNiuniu', admitted)
    BY <2>1 DEF NewestIs, EntersIn
  <2> QED
    BY <2>1, <2>3, <2>4 DEF AdmissionOrder
<1>6. ASSUME GateFromNiuniu PROVE AdmissionOrder'
  BY <1>6, OrderKept DEF GateFromNiuniu, orderVars, lobbyVars, playerVars
<1> QED
  BY <1>2, <1>3, <1>4, <1>5, <1>6 DEF GateAct

LEMMA LobbyOrder ==
  ASSUME TypeOK, AdmissionOrder, LobbyHandle
  PROVE  AdmissionOrder'
<1> PICK m : m = Head(toLobby)
  OBVIOUS
<1>1. /\ m.connId \in Conns
      /\ toNiuniu' = toNiuniu /\ playerConn' = playerConn /\ entering' = entering
      /\ \/ LobbyLogin(m.connId)
         \/ \E id \in PassedOnIds : LobbyPassOn(m.connId, id)
  BY Heads DEF LobbyHandle, TypeOK, gateVars, playerVars, PassedOnIds
<1>2. fromLobby \in Seq(Msgs(FromLobbyIds))
  BY DEF TypeOK
<1>3. CASE LobbyLogin(m.connId)
  <2>1. admitted' = admitted
    BY <1>3 DEF LobbyLogin
  <2>2. CASE fromLobby' = fromLobby
    BY <1>1, <2>1, <2>2, OrderKept DEF orderVars
  <2>3. ASSUME NEW old \in logged, fromLobby' = Append(fromLobby, M("s2cKick", old))
        PROVE  AdmissionOrder'
    <3>1. M("s2cKick", old).id \notin EntryIds
      BY DEF M, EntryIds, EnterIds, PassedOnIds
    <3>2. fromLobby \in Seq(Msgs(FromLobbyIds) \cup {M("s2cKick", old)})
      BY <1>2
    <3>3. /\ EntersIn(fromLobby') = EntersIn(fromLobby)
          /\ \A c : NewestIs(fromLobby, c) => NewestIs(fromLobby', c)
      BY <2>3, <3>1, <3>2, OtherPut
    <3>4. /\ EntersIn(toNiuniu') = EntersIn(toNiuniu)
          /\ \A c : NewestIs(toNiuniu, c) => NewestIs(toNiuniu', c)
      BY <1>1
    <3> QED
      BY <1>1, <2>1, <3>3, <3>4, OrderPadded
  <2> QED
    BY <1>3, <2>2, <2>3 DEF LobbyLogin
<1>4. ASSUME NEW id \in PassedOnIds, LobbyPassOn(m.connId, id)
      PROVE  AdmissionOrder'
  <2>1. CASE UNCHANGED <<fromLobby, admitted>>
    BY <1>1, <2>1, OrderKept DEF orderVars
  <2>2. CASE fromLobby' = Append(fromLobby, M(id, m.connId)) /\ admitted' = m.connId
    <3> PICK e : e = M(id, m.connId)
      OBVIOUS
    <3>1. e.id \in EntryIds /\ e.connId = m.connId /\ e \in Msgs(FromLobbyIds)
      BY <1>1, <1>4 DEF M, EntryIds, FromLobbyIds, Msgs
    <3>2. EntersIn(Append(fromLobby, e)) # {} /\ NewestIs(Append(fromLobby, e), m.connId)
      BY <1>2, <3>1, EnterPut
    <3>3. /\ EntersIn(fromLobby)' = EntersIn(fromLobby')
          /\ NewestIs(fromLobby, admitted)' = NewestIs(fromLobby', admitted')
      BY DEF NewestIs, EntersIn
    <3> QED
      BY <2>2, <3>2, <3>3 DEF AdmissionOrder
  <2> QED
    BY <1>4, <2>1, <2>2 DEF LobbyPassOn
<1> QED
  BY <1>1, <1>3, <1>4

LEMMA NiuniuOrder ==
  ASSUME TypeOK, AdmissionOrder,
         NiuniuDispatch \/ NiuniuExpire \/ PlayerHandle \/ OrphanHandle
  PROVE  AdmissionOrder'
<1>1. ASSUME NiuniuDispatch PROVE AdmissionOrder'
  <2> PICK m : m = Head(toNiuniu)
    OBVIOUS
  <2>1. /\ toNiuniu \in Seq(Msgs(PlayerIds)) /\ toNiuniu # <<>> /\ toNiuniu' = Tail(toNiuniu)
        /\ m.id \in PlayerIds
        /\ fromLobby' = fromLobby /\ entering' = entering /\ admitted' = admitted
    BY <1>1, Heads DEF NiuniuDispatch, TypeOK, gateVars, lobbyVars
  <2>2. /\ EntersIn(fromLobby)' = EntersIn(fromLobby)
        /\ EntersIn(toNiuniu)' = EntersIn(Tail(toNiuniu))
        /\ NewestIs(fromLobby, admitted)' = NewestIs(fromLobby, admitted)
        /\ NewestIs(toNiuniu, admitted)' = NewestIs(Tail(toNiuniu), admitted)
    BY <2>1 DEF NewestIs, EntersIn
  <2>3. NewestIs(toNiuniu, admitted) /\ EntersIn(Tail(toNiuniu)) # {}
          => NewestIs(Tail(toNiuniu), admitted)
    BY <2>1, NewestStays
  <2>4. CASE m.id \in EnterIds
    <3>1. playerConn' \in {m.connId, None}
      BY <1>1, <2>4 DEF NiuniuDispatch, DispatchEnter, DispatchBuild, NewPlayer, MovePlayer,
                        EnterLost, EnterIds, LeaveIds
    <3>2. m.id \in EntryIds
      BY <2>4 DEF EntryIds
    <3>3. /\ EntersIn(toNiuniu) # {}
          /\ NewestIs(toNiuniu, admitted) /\ EntersIn(Tail(toNiuniu)) = {} => m.connId = admitted
      BY <2>1, <3>2, EnterTaken
    <3> QED
      BY <2>1, <2>2, <2>3, <3>1, <3>3 DEF AdmissionOrder
  <2>5. CASE m.id \notin EnterIds
    <3>1. playerConn' = playerConn
      BY <1>1, <2>5 DEF NiuniuDispatch, DispatchOther, EnterIds
    <3>2. m.id \notin EntryIds
      BY <2>1, <2>5 DEF EntryIds, PassedOnIds, PlayerIds, LeaveIds
    <3>3. EntersIn(Tail(toNiuniu)) = {} <=> EntersIn(toNiuniu) = {}
      BY <2>1, <3>2, OtherTaken
    <3> QED
      BY <2>1, <2>2, <2>3, <3>1, <3>3 DEF AdmissionOrder
  <2> QED
    BY <2>4, <2>5
<1>2. ASSUME PlayerHandle \/ OrphanHandle PROVE AdmissionOrder'
  BY <1>2, OrderKept DEF PlayerHandle, OrphanHandle, orderVars, gateVars, linkVars, lobbyVars
<1>3. ASSUME NiuniuExpire PROVE AdmissionOrder'
  BY <1>3, OrderGivenUp DEF NiuniuExpire, gateVars, linkVars, lobbyVars
<1> QED
  BY <1>1, <1>2, <1>3

-----------------------------------------------------------------------------

\* Everything the session relies on holds in every reachable state.
THEOREM Invariance == Spec => []IInv
<1>1. Init => IInv
  <2> SUFFICES ASSUME Init PROVE IInv
    OBVIOUS
  <2>1. EntersIn(<<>>) = {}
    BY DEF EntersIn
  <2>2. AdmissionOrder
    BY <2>1 DEF Init, AdmissionOrder
  <2>3. TypeOK
    <3>1. \A S : <<>> \in Seq(S)
      OBVIOUS
    <3>2. /\ chanRecvMsg \in [Conns -> Seq(Requests)] /\ chanConnData \in Seq(PlayerIds)
          /\ entering \in Seq(Msgs(EnterIds))
          /\ toLobby \in Seq(Msgs(LobbyIds)) /\ toNiuniu \in Seq(Msgs(PlayerIds))
          /\ fromLobby \in Seq(Msgs(FromLobbyIds)) /\ fromNiuniu \in Seq(Msgs(FromNiuniuIds))
      BY <3>1 DEF Init
    <3> QED
      BY <3>2 DEF Init, TypeOK
  <2> QED
    BY <2>2, <2>3 DEF Init, IInv
<1>2. IInv /\ [Next]_vars => IInv'
  <2> SUFFICES ASSUME IInv, [Next]_vars PROVE IInv'
    OBVIOUS
  <2>1. TypeOK /\ AdmissionOrder /\ Owned
    BY DEF IInv, Owned
  <2>2. CASE ClientAct
    <3>1. UNCHANGED orderVars
      BY <2>2 DEF ClientAct, Connect, Close, Request, orderVars, gateVars, linkVars,
                  lobbyVars, playerVars
    <3> QED
      BY <2>1, <2>2, <3>1, ClientTypes, OrderKept DEF IInv, Owned
  <2>3. CASE GateAct
    BY <2>1, <2>3, GateTypes, GateOrder DEF IInv, Owned
  <2>4. CASE LobbyHandle
    BY <2>1, <2>4, LobbyTypes, LobbyOrder DEF IInv, Owned
  <2>5. CASE NiuniuDispatch \/ NiuniuExpire \/ PlayerHandle \/ OrphanHandle
    BY <2>1, <2>5, NiuniuTypes, NiuniuOrder DEF IInv, Owned
  <2>6. CASE UNCHANGED vars
    <3>1. UNCHANGED orderVars
      BY <2>6 DEF vars, orderVars, gateVars, linkVars, lobbyVars, playerVars
    <3>2. TypeOK' /\ Owned'
      BY <2>1, <2>6 DEF vars, TypeOK, Owned, clientVars, gateVars, linkVars, lobbyVars, playerVars
    <3> QED
      BY <2>1, <3>1, <3>2, OrderKept DEF IInv, Owned
  <2> QED
    BY <2>2, <2>3, <2>4, <2>5, <2>6 DEF Next, BackEndAct
<1> QED
  BY <1>1, <1>2, PTL DEF Spec

\* The type invariant of the session.
THEOREM TypeCorrect == Spec => []TypeOK
<1>1. IInv => TypeOK
  BY DEF IInv
<1> QED
  BY <1>1, Invariance, PTL

\* However many connections of a user enter or build at once, the niuniu server ends up
\* with the one the lobby let through last (backEndServer.go, handleBinData;
\* dispatchMsg.go).
THEOREM AdmissionKept == Spec => []AdmissionOrder
<1>1. IInv => AdmissionOrder
  BY DEF IInv
<1> QED
  BY <1>1, Invariance, PTL

-----------------------------------------------------------------------------
(* Who is bound.                                                            *)

Holds(q, m) == \E i \in 1 .. Len(q) : q[i] = m

\* A message put behind is in the link with those that were there.
LEMMA HeldPut ==
  ASSUME NEW S, NEW q \in Seq(S), NEW m
  PROVE  /\ Holds(Append(q, m), m)
         /\ \A x : Holds(q, x) => Holds(Append(q, m), x)
<1>1. /\ Len(Append(q, m)) = Len(q) + 1 /\ Append(q, m)[Len(q) + 1] = m
      /\ \A i \in 1 .. Len(q) : Append(q, m)[i] = q[i]
      /\ Len(q) \in Nat
  OBVIOUS
<1> QED
  BY <1>1 DEF Holds

\* Taking the head loses nothing else.
LEMMA HeldTaken ==
  ASSUME NEW S, NEW q \in Seq(S), q # <<>>, NEW x, Holds(q, x), x # Head(q)
  PROVE  Holds(Tail(q), x)
<1>1. PICK i \in 1 .. Len(q) : q[i] = x
  BY DEF Holds
<1>2. /\ Head(q) = q[1] /\ Len(q) \in Nat \ {0}
      /\ Len(Tail(q)) = Len(q) - 1
      /\ \A k \in 1 .. Len(q) - 1 : Tail(q)[k] = q[k + 1]
  OBVIOUS
<1>3. i # 1
  BY <1>1, <1>2
<1>4. i - 1 \in 1 .. Len(q) - 1 /\ (i - 1) + 1 = i
  BY <1>1, <1>2, <1>3
<1> QED
  BY <1>1, <1>2, <1>4 DEF Holds

\* The gate holds the enter or the build of connection c, or it is in the link, or the
\* object is on c, or one was left there, or c is about to be kicked.
Heard(c) ==
  \/ entering # <<>> /\ Head(entering).connId = c
  \/ playerConn = c \/ c \in abandoned
  \/ \E id \in EnterIds : Holds(toNiuniu, M(id, c))
  \/ Holds(fromNiuniu, M("s2cKick", c))

\* The niuniu server hears of every connection that the gate binds to it, and the
\* gate binds no connection it does not have.
BoundIsHeard ==
  /\ \A c \in Conns : status[c] = "new" => gameServerId[c] = 0 /\ c \notin mapClient
  /\ \A c \in mapClient : gameServerId[c] = NiuniuId => Heard(c)

boundVars == <<mapClient, gameServerId, entering, toNiuniu, fromNiuniu, playerConn, abandoned>>

LEMMA ClientBound ==
  ASSUME TypeOK, BoundIsHeard, ClientAct
  PROVE  BoundIsHeard'
<1>1. ASSUME NEW c \in Conns, Connect(c) PROVE BoundIsHeard'
  <2>1. gameServerId[c] = 0 /\ 0 # NiuniuId
    BY <1>1, SessionAssumption DEF Connect, BoundIsHeard
  <2> QED
    BY <1>1, <2>1 DEF Connect, BoundIsHeard, Heard, Holds, TypeOK, linkVars, playerVars
<1>2. ASSUME UNCHANGED boundVars, \A c \in Conns : status'[c] = "new" => status[c] = "new"
      PROVE  BoundIsHeard'
  BY <1>2 DEF BoundIsHeard, Heard, Holds, boundVars
<1>3. ASSUME NEW c \in Conns, Close(c) PROVE BoundIsHeard'
  BY <1>2, <1>3 DEF Close, TypeOK, boundVars, gateVars, linkVars, playerVars
<1>4. ASSUME NEW c \in Conns, NEW id \in Requests, Request(c, id) PROVE BoundIsHeard'
  BY <1>2, <1>4 DEF Request, boundVars, linkVars, playerVars
<1> QED
  BY <1>1, <1>3, <1>4 DEF ClientAct

LEMMA GateBound ==
  ASSUME TypeOK, BoundIsHeard, GateAct
  PROVE  BoundIsHeard'
<1>1. toNiuniu \in Seq(Msgs(PlayerIds)) /\ fromNiuniu \in Seq(Msgs(FromNiuniuIds))
  BY DEF TypeOK
<1>2. ASSUME NEW c \in Conns, Forward(c) PROVE BoundIsHeard'
  <2>1. \A x : Holds(toNiuniu, x) => Holds(toNiuniu', x)
    BY <1>1, <1>2, HeldPut DEF Forward
  <2> QED
    BY <1>2, <2>1 DEF Forward, BoundIsHeard, Heard, Holds, clientVars, playerVars
<1>3. ASSUME NEW c \in Conns, Exit(c) PROVE BoundIsHeard'
  <2>1. \A x : Holds(toNiuniu, x) => Holds(toNiuniu', x)
    <3>1. \/ toNiuniu' = toNiuniu
          \/ toNiuniu' = Append(toNiuniu, M("gate2NiuniuClientDisconnect", c))
      BY <1>3 DEF Exit
    <3>2. \A m, x : Holds(toNiuniu, x) => Holds(Append(toNiuniu, m), x)
      BY <1>1, HeldPut
    <3> QED
      BY <3>1, <3>2
  <2>2. mapClient' \subseteq mapClient /\ \A d \in Conns : status'[d] = "new" => status[d] = "new"
    BY <1>3 DEF Exit, TypeOK
  <2> QED
    BY <1>3, <2>1, <2>2 DEF Exit, BoundIsHeard, Heard, playerVars
<1>4. ASSUME GateFromLobby PROVE BoundIsHeard'
  <2> PICK m : m = Head(fromLobby)
    OBVIOUS
  <2>1. /\ entering = <<>> /\ mapClient' \subseteq mapClient /\ mapClient \subseteq Conns
        /\ UNCHANGED <<status, toNiuniu, fromNiuniu, playerConn, abandoned>>
    BY <1>4 DEF GateFromLobby, KickClient, TypeOK, clientVars, playerVars
  <2>2. CASE m.id \in PassedOnIds
    <3>1. /\ SetClientGameSrvId(m.connId, NiuniuId)
          /\ entering' # <<>> /\ Head(entering').connId = m.connId
      <4>1. PICK id : entering' = <<M(id, m.connId)>> /\ SetClientGameSrvId(m.connId, NiuniuId)
        BY <1>4, <2>2 DEF GateFromLobby, PassedOnIds
      <4> QED
        BY <4>1 DEF M
    <3>2. \A d \in Conns : gameServerId'[d] = gameServerId[d] \/ (d \in mapClient /\ d = m.connId)
      BY <3>1 DEF SetClientGameSrvId, TypeOK
    <3> QED
      BY <2>1, <3>1, <3>2 DEF BoundIsHeard, Heard, Holds
  <2>3. CASE m.id \notin PassedOnIds
    <3>1. UNCHANGED <<gameServerId, entering>>
      BY <1>4, <2>3 DEF GateFromLobby, PassedOnIds
    <3> QED
      BY <2>1, <3>1 DEF BoundIsHeard, Heard, Holds
  <2> QED
    BY <2>2, <2>3
<1>5. ASSUME SendToBackEndServer PROVE BoundIsHeard'
  <2> PICK e : e = Head(entering)
    OBVIOUS
  <2>1. /\ \A x : Holds(toNiuniu, x) => Holds(toNiuniu', x)
        /\ Holds(toNiuniu', e)
    BY <1>1, <1>5, HeldPut DEF SendToBackEndServer
  <2>2. e.id \in EnterIds /\ e = M(e.id, e.connId)
    <3>1. e \in Msgs(EnterIds)
      BY <1>5, Taken DEF SendToBackEndServer, TypeOK
    <3> QED
      BY <3>1 DEF Msgs, M
  <2> QED
    BY <1>5, <2>1, <2>2 DEF SendToBackEndServer, BoundIsHeard, Heard, clientVars, playerVars
<1>6. ASSUME GateFromNiuniu PROVE BoundIsHeard'
  <2> PICK m : m = Head(fromNiuniu)
    OBVIOUS
  <2>1. m \in Msgs(FromNiuniuIds) /\ fromNiuniu # <<>> /\ fromNiuniu' = Tail(fromNiuniu)
    BY <1>1, <1>6, Taken DEF GateFromNiuniu
  <2>2. \A x : Holds(fromNiuniu, x) /\ x # m => Holds(fromNiuniu', x)
    BY <1>1, <2>1, HeldTaken
  <2>3. /\ mapClient' \subseteq mapClient
        /\ UNCHANGED <<status, toNiuniu, entering, playerConn, abandoned>>
        /\ \A d \in Conns : gameServerId'[d] = gameServerId[d] \/ gameServerId'[d] = 0
    BY <1>6 DEF GateFromNiuniu, KickClient, SetClientGameSrvId, TypeOK, clientVars, playerVars
  <2>4. \A d \in mapClient' : m # M("s2cKick", d)
    <3>1. m.id = "s2cKick" => mapClient' = mapClient \ {m.connId}
      BY <1>6 DEF GateFromNiuniu, KickClient
    <3> QED
      BY <3>1 DEF M
  <2>5. 0 # NiuniuId /\ mapClient \subseteq Conns
    BY SessionAssumption DEF TypeOK
  <2> QED
    BY <2>2, <2>3, <2>4, <2>5 DEF BoundIsHeard, Heard
<1> QED
  BY <1>2, <1>3, <1>4, <1>5, <1>6 DEF GateAct

\* What becomes of the object when a message from connection c is taken: it stays, moves
\* to c with its old connection kicked, or is lost or left there.
LEMMA Moved ==
  ASSUME TypeOK, NEW c \in Conns, DispatchEnter(c) \/ DispatchBuild(c)
  PROVE  /\ playerConn' = c \/ c \in abandoned'
         /\ \A d \in Conns : \/ playerConn # d /\ d \notin abandoned
                             \/ d = c \/ d \in abandoned'
                             \/ Holds(fromNiuniu', M("s2cKick", d))
         /\ \A x : Holds(fromNiuniu, x) => Holds(fromNiuniu', x)
<1>1. fromNiuniu \in Seq(Msgs(FromNiuniuIds))
  BY DEF TypeOK
<1>2. CASE MovePlayer(c)
  <2>1. /\ playerConn' = c /\ abandoned' = abandoned \ {c}
        /\ fromNiuniu' = IF c = playerConn THEN fromNiuniu
                         ELSE Append(fromNiuniu, M("s2cKick", playerConn))
    BY <1>2 DEF MovePlayer
  <2>2. /\ Holds(Append(fromNiuniu, M("s2cKick", playerConn)), M("s2cKick", playerConn))
        /\ \A x : Holds(fromNiuniu, x) => Holds(Append(fromNiuniu, M("s2cKick", playerConn)), x)
    BY <1>1, HeldPut
  <2> QED
    BY <2>1, <2>2
<1>3. CASE EnterLost(c)
  BY <1>3 DEF EnterLost
<1>4. CASE playerConn = None /\ DispatchEnter(c)
  BY <1>4, SessionAssumption DEF DispatchEnter, NewPlayer
<1>5. CASE DispatchBuild(c)
  BY <1>5, SessionAssumption DEF DispatchBuild, NewPlayer
<1> QED
  BY <1>2, <1>3, <1>4, <1>5 DEF DispatchEnter

LEMMA BackEndBound ==
  ASSUME TypeOK, BoundIsHeard, BackEndAct
  PROVE  BoundIsHeard'
<1>1. toNiuniu \in Seq(Msgs(PlayerIds)) /\ fromNiuniu \in Seq(Msgs(FromNiuniuIds))
  BY DEF TypeOK
<1>2. ASSUME LobbyHandle PROVE BoundIsHeard'
  BY <1>2 DEF LobbyHandle, BoundIsHeard, Heard, Holds, clientVars, gateVars, playerVars
<1>3. ASSUME PlayerHandle \/ OrphanHandle PROVE BoundIsHeard'
  <2>1. \A x : Holds(fromNiuniu, x) => Holds(fromNiuniu', x)
    <3>1. fromNiuniu' = fromNiuniu \/ \E m : fromNiuniu' = Append(fromNiuniu, m)
      BY <1>3 DEF PlayerHandle, OrphanHandle, MayAnswer
    <3>2. \A m, x : Holds(fromNiuniu, x) => Holds(Append(fromNiuniu, m), x)
      BY <1>1, HeldPut
    <3> QED
      BY <3>1, <3>2
  <2>2. UNCHANGED <<status, mapClient, gameServerId, entering, toNiuniu, playerConn, abandoned>>
    BY <1>3 DEF PlayerHandle, OrphanHandle, clientVars, gateVars
  <2> QED
    BY <2>1, <2>2 DEF BoundIsHeard, Heard, Holds
<1>4. ASSUME NiuniuExpire PROVE BoundIsHeard'
  <2>1. /\ abandoned' = abandoned \cup {playerConn}
        /\ UNCHANGED <<status, mapClient, gameServerId, entering, toNiuniu, fromNiuniu>>
    BY <1>4 DEF NiuniuExpire, clientVars, gateVars, linkVars
  <2> QED
    BY <2>1 DEF BoundIsHeard, Heard, Holds
<1>5. ASSUME NiuniuDispatch PROVE BoundIsHeard'
  <2> PICK m : m = Head(toNiuniu)
    OBVIOUS
  <2>1. /\ m \in Msgs(PlayerIds) /\ m.connId \in Conns
        /\ toNiuniu # <<>> /\ toNiuniu' = Tail(toNiuniu)
        /\ UNCHANGED <<status, mapClient, gameServerId, entering>>
    BY <1>1, <1>5, Taken, Heads DEF NiuniuDispatch, clientVars, gateVars
  <2>2. \A x : Holds(toNiuniu, x) /\ x # m => Holds(toNiuniu', x)
    BY <1>1, <2>1, HeldTaken
  <2>3. mapClient \subseteq Conns
    BY DEF TypeOK
  <2>4. CASE m.id \in EnterIds
    <3>1. DispatchEnter(m.connId) \/ DispatchBuild(m.connId)
      BY <1>5, <2>4 DEF NiuniuDispatch, EnterIds, LeaveIds
    <3>2. /\ playerConn' = m.connId \/ m.connId \in abandoned'
          /\ \A d \in Conns : \/ playerConn # d /\ d \notin abandoned
                              \/ d = m.connId \/ d \in abandoned'
                              \/ Holds(fromNiuniu', M("s2cKick", d))
          /\ \A x : Holds(fromNiuniu, x) => Holds(fromNiuniu', x)
      BY <2>1, <3>1, Moved
    <3>3. \A d, id : m = M(id, d) => d = m.connId
      BY DEF M
    <3>4. ASSUME NEW d \in mapClient, Heard(d) PROVE Heard(d)'
      <4>1. CASE d = m.connId
        BY <3>2, <4>1 DEF Heard
      <4>2. CASE d # m.connId
        <5>1. \A id \in EnterIds : Holds(toNiuniu, M(id, d)) => Holds(toNiuniu', M(id, d))
          BY <2>2, <3>3, <4>2
        <5>2. /\ playerConn = d \/ d \in abandoned
                   => d \in abandoned' \/ Holds(fromNiuniu', M("s2cKick", d))
              /\ Holds(fromNiuniu, M("s2cKick", d)) => Holds(fromNiuniu', M("s2cKick", d))
          BY <2>3, <3>2, <4>2
        <5> QED
          BY <2>1, <3>4, <5>1, <5>2 DEF Heard, Holds
      <4> QED
        BY <4>1, <4>2
    <3> QED
      BY <2>1, <3>4 DEF BoundIsHeard
  <2>5. CASE m.id \notin EnterIds
    <3>1. UNCHANGED <<fromNiuniu, playerConn, abandoned>>
      BY <1>5, <2>5 DEF NiuniuDispatch, DispatchOther, EnterIds
    <3>2. \A d : \A id \in EnterIds : m # M(id, d)
      BY <2>5 DEF M
    <3> QED
      BY <2>1, <2>2, <3>1, <3>2 DEF BoundIsHeard, Heard, Holds
  <2> QED
    BY <2>4, <2>5
<1> QED
  BY <1>2, <1>3, <1>4, <1>5 DEF BackEndAct

\* With nothing under way, a bound connection the gate delivers to is the one of the
\* user's registered object, or an object was left on it without a kick, by a build or
\* at its expiry (dispatchMsg.go, dispathMsgToPlayer; backEndServer.go, handleBinData).
THEOREM BoundAlwaysKnown == Spec => []BoundIsKnown
<1>1. Init => BoundIsHeard
  BY DEF Init, BoundIsHeard
<1>2. TypeOK /\ BoundIsHeard /\ [Next]_vars => BoundIsHeard'
  <2>1. BoundIsHeard /\ UNCHANGED vars => BoundIsHeard'
    BY DEF BoundIsHeard, Heard, Holds, vars, clientVars, gateVars, linkVars, playerVars
  <2> QED
    BY <2>1, ClientBound, GateBound, BackEndBound DEF Next
<1>3. TypeOK /\ BoundIsHeard => BoundIsKnown
  <2> SUFFICES ASSUME TypeOK, BoundIsHeard, LinksQuiet, NEW c \in mapClient,
                      gameServerId[c] = NiuniuId
               PROVE  c = playerConn \/ c \in abandoned
    BY DEF BoundIsKnown
  <2>1. \A m : ~Holds(toNiuniu, m) /\ ~Holds(fromNiuniu, m)
    BY DEF LinksQuiet, Holds
  <2> QED
    BY <2>1 DEF BoundIsHeard, Heard, LinksQuiet
<1> QED
  BY <1>1, <1>2, <1>3, TypeCorrect, PTL DEF Spec
=============================================================================
