----------------------------- MODULE GateSession -----------------------------
(***************************************************************************)
(* The session of one user across three servers: the clients of the gate,  *)
(* the binding of a client to the niuniu server, and what the lobby and    *)
(* the niuniu server know of the user's connection.                        *)
(*                                                                         *)
(*   gate     one goroutine per client (Client.forwardLoop), one per       *)
(*            back-end server (BackEndServer.forwardLoop)                  *)
(*   lobby    passes enters and builds on for connections that logged in   *)
(*   niuniu   the dispatcher moves the user's player object to the         *)
(*            connection that entered last, or makes another object for a  *)
(*            build; the object's goroutine does the rest                  *)
(*                                                                         *)
(* A client reaches the niuniu server for the first time through the       *)
(* lobby, which tells the gate where to bind it. Each link is a FIFO that  *)
(* stays up, and no channel is full (Connection has that). What is sent to *)
(* a client is left out, but for the answer to a leave, which unbinds it.  *)
(***************************************************************************)
EXTENDS Naturals, Sequences, FiniteSets, FiniteSetsExt

CONSTANTS
  Conns,        \* connections of the user to the gate, each with its own connId
  None,         \* no connection
  NiuniuId,     \* id of the niuniu server; 401 in the code, and 0 is "not bound"
  MaxRequests,  \* bound: requests the clients make in all
  MaxInFlight   \* bound: messages under way when a client makes a request

ASSUME SessionAssumption == None \notin Conns /\ NiuniuId \in Nat \ {0}

\* s2cSelfBuildRoom is what the lobby takes for a request to build a room.
LobbyIds == {"c2sWxLogin", "c2sEnterNiuniuRoom", "s2cSelfBuildRoom"}   \* < lobbyEndId
Requests == LobbyIds \cup {"c2sLeaveNiuniuRoom"}
PassedOnIds == {"lobby2GateEnterNiuniuRoom", "lobby2GateCreateNiuNiuRoom"}
FromLobbyIds == PassedOnIds \cup {"s2cKick"}
EnterIds == {"c2sEnterNiuniuRoom", "c2sCreateNiuniuRoom"}
LeaveIds == {"c2sLeaveNiuniuRoom", "gate2NiuniuClientDisconnect"}
PlayerIds == EnterIds \cup LeaveIds
FromNiuniuIds == {"s2cKick", "s2cLeaveNiuniuRoom"}
Msgs(ids) == [id : ids, connId : Conns]

VARIABLES
  status,          \* of each connection: new, open, closed, or gone once forwardLoop ended
  asked,           \* requests made so far, for the bound
  mapClient,       \* the connections the gate delivers to
  gameServerId,    \* Client.gameServerId: NiuniuId, or 0
  chanRecvMsg,     \* of each client: requests the gate has read and not forwarded
  toLobby, fromLobby, toNiuniu, fromNiuniu,
  entering,        \* the enter or build whose client is bound, not yet sent on; a sequence
  logged,          \* lobby: connections that logged in, any of which an object may be on
  admitted,        \* lobby: the connection of the last enter or build it passed on
  playerConn,      \* niuniu: connId of the registered player object; None without one
  mapConnid,       \* niuniu: the connections that lead to the registered object
  open, online,    \* of that object
  chanConnData,    \* its inbox
  orphaned,        \* of each connection: objects on it that are registered no more and
                   \* have a leave or a disconnect in their inbox
  abandoned        \* history: connections an object was lost with, or left on, unkicked

clientVars == <<status, asked>>
gateVars == <<mapClient, gameServerId, chanRecvMsg, entering>>
linkVars == <<toLobby, fromLobby, toNiuniu, fromNiuniu>>
lobbyVars == <<logged, admitted>>
playerVars == <<playerConn, mapConnid, open, online, chanConnData, orphaned, abandoned>>
vars == <<clientVars, gateVars, linkVars, lobbyVars, playerVars>>

M(id, c) == [id |-> id, connId |-> c]

Init ==
  /\ status = [c \in Conns |-> "new"] /\ asked = 0
  /\ mapClient = {} /\ gameServerId = [c \in Conns |-> 0]
  /\ chanRecvMsg = [c \in Conns |-> <<>>] /\ entering = <<>>
  /\ toLobby = <<>> /\ fromLobby = <<>> /\ toNiuniu = <<>> /\ fromNiuniu = <<>>
  /\ logged = {} /\ admitted = None
  /\ playerConn = None /\ mapConnid = {} /\ open = FALSE /\ online = FALSE
  /\ chanConnData = <<>> /\ orphaned = [c \in Conns |-> 0] /\ abandoned = {}

InFlight ==
  MapThenSumSet(LAMBDA c : Len(chanRecvMsg[c]) + orphaned[c], Conns)
    + Len(toLobby) + Len(fromLobby) + Len(entering)
    + Len(toNiuniu) + Len(chanConnData) + Len(fromNiuniu)

-----------------------------------------------------------------------------
(* The clients, which need not wait for an answer before they ask again.    *)

Connect(c) ==
  /\ status[c] = "new"
  /\ status' = [status EXCEPT ![c] = "open"]
  /\ mapClient' = mapClient \cup {c}
  /\ UNCHANGED <<asked, gameServerId, chanRecvMsg, entering, linkVars, lobbyVars, playerVars>>

Request(c, id) ==
  /\ status[c] = "open" /\ asked < MaxRequests /\ InFlight < MaxInFlight
  /\ asked' = asked + 1
  /\ chanRecvMsg' = [chanRecvMsg EXCEPT ![c] = Append(@, id)]
  /\ UNCHANGED <<status, mapClient, gameServerId, entering, linkVars, lobbyVars, playerVars>>

\* The client goes away, or the gate's read of its socket fails.
Close(c) ==
  /\ status[c] = "open"
  /\ status' = [status EXCEPT ![c] = "closed"]
  /\ UNCHANGED <<asked, gateVars, linkVars, lobbyVars, playerVars>>

-----------------------------------------------------------------------------
(* The gate, a client's goroutine: a message, or the exit signal once there *)
(* is one; the select takes either.                                         *)

\* The message goes to the lobby, or to the server the client is bound to; without
\* a binding it goes nowhere.
Forward(c) ==
  /\ status[c] \in {"open", "closed"} /\ chanRecvMsg[c] # <<>>
  /\ LET id == Head(chanRecvMsg[c])
     IN  /\ toLobby' = IF id \in LobbyIds THEN Append(toLobby, M(id, c)) ELSE toLobby
         /\ toNiuniu' = IF id \notin LobbyIds /\ gameServerId[c] = NiuniuId
                        THEN Append(toNiuniu, M(id, c)) ELSE toNiuniu
  /\ chanRecvMsg' = [chanRecvMsg EXCEPT ![c] = Tail(@)]
  /\ UNCHANGED <<clientVars, mapClient, gameServerId, entering, fromLobby, fromNiuniu,
                 lobbyVars, playerVars>>

\* Mutant of Exit: the client is forgotten, and its server not told.
Exit_Silent(c) ==
  /\ status[c] = "closed"
  /\ status' = [status EXCEPT ![c] = "gone"] /\ chanRecvMsg' = [chanRecvMsg EXCEPT ![c] = <<>>]
  /\ mapClient' = IF gameServerId[c] = NiuniuId THEN mapClient \ {c} ELSE mapClient
  /\ UNCHANGED <<asked, gameServerId, entering, linkVars, lobbyVars, playerVars>>

\* Only a bound client is forgotten, and only its server is told. What the client has sent
\* and the loop has not taken is lost.
Exit(c) ==
  /\ status[c] = "closed"
  /\ status' = [status EXCEPT ![c] = "gone"] /\ chanRecvMsg' = [chanRecvMsg EXCEPT ![c] = <<>>]
  /\ IF gameServerId[c] = NiuniuId
     THEN /\ mapClient' = mapClient \ {c}
          /\ toNiuniu' = Append(toNiuniu, M("gate2NiuniuClientDisconnect", c))
     ELSE UNCHANGED <<mapClient, toNiuniu>>
  /\ UNCHANGED <<asked, gameServerId, entering, toLobby, fromLobby, fromNiuniu, lobbyVars,
                 playerVars>>

-----------------------------------------------------------------------------
(* The gate, a back-end server's goroutine: handleBinData.                  *)

SetClientGameSrvId(c, id) ==
  gameServerId' = IF c \in mapClient THEN [gameServerId EXCEPT ![c] = id] ELSE gameServerId

\* kickClient: Client.Kick is called on the client removed, and does nothing, since
\* the flag it tests is set nowhere else.
KickClient(c) == mapClient' = mapClient \ {c}

\* From the lobby: an enter or a build binds the client first and is sent on by a later
\* call.
GateFromLobby ==
  /\ entering = <<>> /\ fromLobby # <<>>
  /\ fromLobby' = Tail(fromLobby)
  /\ LET m == Head(fromLobby)
     IN  \/ /\ m.id = "s2cKick" /\ KickClient(m.connId)
            /\ UNCHANGED <<gameServerId, entering>>
         \/ /\ m.id = "lobby2GateEnterNiuniuRoom" /\ SetClientGameSrvId(m.connId, NiuniuId)
            /\ entering' = <<M("c2sEnterNiuniuRoom", m.connId)>>
            /\ UNCHANGED mapClient
         \/ /\ m.id = "lobby2GateCreateNiuNiuRoom" /\ SetClientGameSrvId(m.connId, NiuniuId)
            /\ entering' = <<M("c2sCreateNiuniuRoom", m.connId)>>
            /\ UNCHANGED mapClient
  /\ UNCHANGED <<clientVars, chanRecvMsg, toLobby, toNiuniu, fromNiuniu, lobbyVars, playerVars>>

\* What the lobby has let through goes to the niuniu server, the user bound.
SendToBackEndServer ==
  /\ entering # <<>>
  /\ toNiuniu' = Append(toNiuniu, Head(entering))
  /\ entering' = <<>>
  /\ UNCHANGED <<clientVars, mapClient, gameServerId, chanRecvMsg, toLobby, fromLobby,
                 fromNiuniu, lobbyVars, playerVars>>

GateFromNiuniu ==
  /\ fromNiuniu # <<>>
  /\ fromNiuniu' = Tail(fromNiuniu)
  /\ LET m == Head(fromNiuniu)
     IN  \/ m.id = "s2cKick" /\ KickClient(m.connId) /\ UNCHANGED gameServerId
         \/ /\ m.id = "s2cLeaveNiuniuRoom" /\ SetClientGameSrvId(m.connId, 0)
            /\ UNCHANGED mapClient
  /\ UNCHANGED <<clientVars, chanRecvMsg, entering, toLobby, fromLobby, toNiuniu, lobbyVars,
                 playerVars>>

-----------------------------------------------------------------------------
(* The lobby. Its registry, its objects and its ten login workers, with the *)
(* timer between any two of their calls, are the business of LobbyLogin;    *)
(* here each step may do whatever those may come to.                        *)

\* login: a user without an object, or with one on this connection, gets a new one, or
\* an error; an object on another connection, one that has logged in before, moves to
\* this one, and that connection is kicked.
LobbyLogin(c) ==
  /\ \/ logged' \in {logged, logged \cup {c}} /\ UNCHANGED fromLobby
     \/ \E old \in logged \ {c} :
          logged' = logged \cup {c} /\ fromLobby' = Append(fromLobby, M("s2cKick", old))
  /\ UNCHANGED admitted

\* c2sEnterNiuniuRoom and c2sSelfBuildNiuNiuRoom, passed on to the gate as id for a
\* connection that leads to an object; one without an object, or with one that has been
\* closed and registered again, is heard of no more.
LobbyPassOn(c, id) ==
  /\ \/ /\ c \in logged
        /\ fromLobby' = Append(fromLobby, M(id, c)) /\ admitted' = c
     \/ UNCHANGED <<fromLobby, admitted>>
  /\ UNCHANGED logged

LobbyHandle ==
  /\ toLobby # <<>>
  /\ toLobby' = Tail(toLobby)
  /\ LET m == Head(toLobby)
     IN  \/ m.id = "c2sWxLogin" /\ LobbyLogin(m.connId)
         \/ /\ m.id = "c2sEnterNiuniuRoom"
            /\ LobbyPassOn(m.connId, "lobby2GateEnterNiuniuRoom")
         \/ /\ m.id = "s2cSelfBuildRoom"
            /\ LobbyPassOn(m.connId, "lobby2GateCreateNiuNiuRoom")
  /\ UNCHANGED <<clientVars, gateVars, toNiuniu, fromNiuniu, playerVars>>

-----------------------------------------------------------------------------
(* The niuniu server's dispatcher and registry.                             *)

\* Player.Handle: an object that has been closed takes no message; it is closed some
\* time after the registry has asked it to.
Handle(isOpen, inbox, id) ==
  \/ chanConnData' = Append(inbox, id)
  \/ ~isOpen /\ chanConnData' = inbox

\* The object is registered no longer: its goroutine goes on with what is in its inbox.
Orphan ==
  orphaned' = IF \E i \in DOMAIN chanConnData : chanConnData[i] \in LeaveIds
              THEN [orphaned EXCEPT ![playerConn] = @ + 1] ELSE orphaned

\* NewPlayer and StorePlayer: a new object, which no connection is taken from.
NewPlayer(c, id) ==
  /\ playerConn' = c /\ mapConnid' = mapConnid \cup {c}
  /\ open' = TRUE /\ online' = TRUE
  /\ chanConnData' = <<id>> /\ Orphan
  /\ UNCHANGED fromNiuniu

\* A build makes a new object, whether there is one or not, and kicks nobody.
DispatchBuild(c) ==
  /\ NewPlayer(c, "c2sCreateNiuniuRoom")
  /\ abandoned' = (abandoned \cup ({playerConn} \ {None})) \ {c}

\* An object on another connection may expire once it has been found, and is registered
\* again all the same.
MayClose(c) == \/ open' = open
               \/ c # playerConn /\ open' = FALSE

\* Mutant of MovePlayer: the object is found, and left on its old connection.
MovePlayer_Stays(c) ==
  /\ fromNiuniu' = IF c = playerConn THEN fromNiuniu
                   ELSE Append(fromNiuniu, M("s2cKick", playerConn))
  /\ online' = TRUE
  /\ MayClose(c)
  /\ Handle(open', chanConnData, "c2sEnterNiuniuRoom")
  /\ abandoned' = abandoned \ {c}
  /\ UNCHANGED <<playerConn, mapConnid, orphaned>>

\* Mutant of MovePlayer: the connection the object was on is not kicked.
MovePlayer_NoKick(c) ==
  /\ playerConn' = c /\ mapConnid' = (mapConnid \ {playerConn}) \cup {c}
  /\ online' = TRUE
  /\ MayClose(c)
  /\ Handle(open', chanConnData, "c2sEnterNiuniuRoom")
  /\ abandoned' = abandoned \ {c}
  /\ UNCHANGED <<orphaned, fromNiuniu>>

\* An enter on another connection moves the object there, and kicks the old one.
MovePlayer(c) ==
  /\ fromNiuniu' = IF c = playerConn THEN fromNiuniu
                   ELSE Append(fromNiuniu, M("s2cKick", playerConn))
  /\ playerConn' = c /\ mapConnid' = (mapConnid \ {playerConn}) \cup {c}
  /\ online' = TRUE
  /\ MayClose(c)
  /\ Handle(open', chanConnData, "c2sEnterNiuniuRoom")
  /\ abandoned' = abandoned \ {c}
  /\ UNCHANGED orphaned

\* An enter on the connection the object is on, which expires when it has been found:
\* nothing is stored, and the object may still take the message.
EnterLost(c) ==
  /\ c = playerConn
  /\ playerConn' = None /\ mapConnid' = mapConnid \ {c}
  /\ open' = FALSE /\ online' = FALSE
  /\ chanConnData' = <<>> /\ Orphan
  /\ abandoned' = abandoned \cup {c}
  /\ UNCHANGED fromNiuniu

DispatchEnter(c) ==
  IF playerConn = None
  THEN NewPlayer(c, "c2sEnterNiuniuRoom") /\ abandoned' = abandoned \ {c}
  ELSE MovePlayer(c) \/ EnterLost(c)

\* Leave and disconnect go to the object the connection leads to, if any, whatever
\* connection that object is on.
DispatchOther(c, id) ==
  /\ IF playerConn # None /\ c \in mapConnid THEN Handle(open, chanConnData, id)
                                             ELSE UNCHANGED chanConnData
  /\ UNCHANGED <<fromNiuniu, playerConn, mapConnid, open, online, orphaned, abandoned>>

NiuniuDispatch ==
  /\ toNiuniu # <<>>
  /\ toNiuniu' = Tail(toNiuniu)
  /\ LET m == Head(toNiuniu)
     IN  \/ m.id = "c2sEnterNiuniuRoom" /\ DispatchEnter(m.connId)
         \/ m.id = "c2sCreateNiuniuRoom" /\ DispatchBuild(m.connId)
         \/ m.id \in LeaveIds /\ DispatchOther(m.connId, m.id)
  /\ UNCHANGED <<clientVars, gateVars, toLobby, fromLobby, lobbyVars>>

\* BaseServer.timer: an object not heard of for half an hour is forgotten.
NiuniuExpire ==
  /\ playerConn # None
  /\ playerConn' = None /\ mapConnid' = mapConnid \ {playerConn}
  /\ open' = FALSE /\ online' = FALSE
  /\ chanConnData' = <<>> /\ Orphan
  /\ abandoned' = abandoned \cup {playerConn}
  /\ UNCHANGED <<clientVars, gateVars, linkVars, lobbyVars>>

\* The player's goroutine, or its room's, answers a leave on the object's connection, or
\* does not: the room is over, its channel is full, or a round is on.
MayAnswer(c) == fromNiuniu' \in {fromNiuniu, Append(fromNiuniu, M("s2cLeaveNiuniuRoom", c))}

\* An enter or a build does nothing for the gate, and so does all that an offline object
\* takes, or one that has been closed and need not take anything any more. A leave may be
\* refused; a disconnect may not.
PlayerHandle ==
  /\ chanConnData # <<>>
  /\ chanConnData' = Tail(chanConnData)
  /\ \/ /\ Head(chanConnData) \in EnterIds \/ ~online \/ ~open
        /\ UNCHANGED <<online, fromNiuniu>>
     \/ /\ Head(chanConnData) = "c2sLeaveNiuniuRoom" /\ online
        /\ UNCHANGED <<online, fromNiuniu>>
     \/ /\ Head(chanConnData) \in LeaveIds /\ online
        /\ online' = FALSE /\ MayAnswer(playerConn)
  /\ UNCHANGED <<clientVars, gateVars, toLobby, fromLobby, toNiuniu, lobbyVars, playerConn,
                 mapConnid, open, orphaned, abandoned>>

\* The same in an object that is registered no more, which answers one leave at most.
OrphanHandle ==
  /\ \E c \in Conns : /\ orphaned[c] > 0
                      /\ orphaned' = [orphaned EXCEPT ![c] = @ - 1] /\ MayAnswer(c)
  /\ UNCHANGED <<clientVars, gateVars, toLobby, fromLobby, toNiuniu, lobbyVars, playerConn,
                 mapConnid, open, online, chanConnData, abandoned>>

-----------------------------------------------------------------------------

ClientAct == \E c \in Conns : Connect(c) \/ Close(c) \/ \E id \in Requests : Request(c, id)
GateAct == (\E c \in Conns : Forward(c) \/ Exit(c))
             \/ GateFromLobby \/ SendToBackEndServer \/ GateFromNiuniu
BackEndAct == LobbyHandle \/ NiuniuDispatch \/ NiuniuExpire \/ PlayerHandle \/ OrphanHandle
Next == ClientAct \/ GateAct \/ BackEndAct

Spec == Init /\ [][Next]_vars

\* Every goroutine keeps running while it has something to do: a client's takes a
\* message or exits, the one for the lobby takes a message or sends the enter it holds.
\* A client owes nothing, nothing has to expire, and an object that is registered no more
\* may have been closed.
Fairness ==
  /\ \A c \in Conns : WF_vars(Forward(c) \/ Exit(c))
  /\ WF_vars(GateFromLobby \/ SendToBackEndServer) /\ WF_vars(GateFromNiuniu)
  /\ WF_vars(LobbyHandle) /\ WF_vars(NiuniuDispatch) /\ WF_vars(PlayerHandle)
FairSpec == Spec /\ Fairness

-----------------------------------------------------------------------------

TypeOK ==
  /\ status \in [Conns -> {"new", "open", "closed", "gone"}] /\ asked \in Nat
  /\ mapClient \subseteq Conns
  /\ gameServerId \in [Conns -> {0, NiuniuId}]
  /\ chanRecvMsg \in [Conns -> Seq(Requests)]
  /\ entering \in Seq(Msgs(EnterIds))
  /\ toLobby \in Seq(Msgs(LobbyIds)) /\ fromLobby \in Seq(Msgs(FromLobbyIds))
  /\ toNiuniu \in Seq(Msgs(PlayerIds))
  /\ fromNiuniu \in Seq(Msgs(FromNiuniuIds))
  /\ logged \subseteq Conns /\ admitted \in Conns \cup {None}
  /\ playerConn \in Conns \cup {None} /\ mapConnid \subseteq Conns
  /\ open \in BOOLEAN /\ online \in BOOLEAN
  /\ chanConnData \in Seq(PlayerIds)
  /\ orphaned \in [Conns -> Nat] /\ abandoned \subseteq Conns

LinksQuiet ==
  /\ toLobby = <<>> /\ fromLobby = <<>> /\ toNiuniu = <<>> /\ fromNiuniu = <<>>
  /\ entering = <<>>
Quiet == /\ LinksQuiet /\ chanConnData = <<>>
         /\ \A c \in Conns : chanRecvMsg[c] = <<>> /\ orphaned[c] = 0

\* The enters and builds in a link, and whether the newest of them is connection c's.
EntersIn(q) == {i \in DOMAIN q : q[i].id \in EnterIds \cup PassedOnIds}
NewestIs(q, c) ==
  \E i \in EntersIn(q) : q[i].connId = c /\ \A j \in EntersIn(q) : j <= i

\* Two connections of one user may enter or build at once; the niuniu server ends up with
\* the one the lobby let through last. The newest enter or build on its way, or else the
\* connection of the object registered, is the last admitted, because the gate binds and
\* sends on one before it takes the next (BackEndServer.handleBinData).
AdmissionOrder ==
  IF EntersIn(fromLobby) # {} THEN NewestIs(fromLobby, admitted)
  ELSE IF entering # <<>> THEN Head(entering).connId = admitted
  ELSE IF EntersIn(toNiuniu) # {} THEN NewestIs(toNiuniu, admitted)
  ELSE playerConn # None => playerConn = admitted

\* With nothing under way, a connection the gate delivers to and that is bound to the
\* niuniu server is the one of the user's registered object, or one that an object has
\* been left on without a kick, by a build or at its expiry (dispatchMsg.go:101-118,
\* baseServer.go:103): every enter that took an object over has got the old one kicked.
BoundIsKnown ==
  LinksQuiet => \A c \in mapClient :
                  gameServerId[c] = NiuniuId => c = playerConn \/ c \in abandoned

\* A client that goes away in a quiet moment, bound and with the user's object on it, is
\* put offline by the niuniu server, or another connection has taken over, or the object
\* has been given up by then (Client.forwardLoop).
GoneIsHeard ==
  \A c \in Conns :
    (Quiet /\ status[c] = "closed" /\ gameServerId[c] = NiuniuId /\ playerConn = c)
      ~> (~online \/ playerConn # c \/ ~open)
=============================================================================
