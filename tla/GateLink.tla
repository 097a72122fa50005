------------------------------- MODULE GateLink -------------------------------
(***************************************************************************)
(* The connection between a gate and one back-end server (gateApp,         *)
(* backEndServer, gateServer, baseServer): the gate connects, registers    *)
(* under its server id, is accepted or refused, keeps the connection alive *)
(* with pings, and connects anew when it ends. Either process may crash    *)
(* and start again, and the network may go silent, which an end notices    *)
(* only when its read times out.                                           *)
(***************************************************************************)
EXTENDS Naturals, Sequences

CONSTANTS
  Links,       \* tcp connections; used again when both ends have forgotten them
  None,
  MaxFaults    \* bound on crashes and silent cuts together

ASSUME LinkAssumption == None \notin Links /\ MaxFaults \in Nat

VARIABLES
  gate,               \* of each link: the gate's object is stored, running or over
  gateOpen,           \* its Connection has not been closed
  pinging,            \* its handlePing goroutine runs
  mapBackEndServer,   \* the gate's entry for the back-end server
  server,             \* of each link: waiting to be accepted, handleLoop running, or over
  serverOpen, mapGate,
  remoteGateServerId, \* of each link: whether the GateServer has noted the gate's id
  toServer, toGate,   \* what is under way, up to the loops that handle it
  cut,                \* the network has gone silent on the link
  faults

gateVars == <<gate, gateOpen, pinging, mapBackEndServer>>
serverVars == <<server, serverOpen, mapGate, remoteGateServerId>>
netVars == <<toServer, toGate, cut, faults>>
linkVars == <<gateVars, serverVars, netVars>>

LinkTypeOK ==
  /\ gate \in [Links -> {"stored", "running", "over"}]
  /\ server \in [Links -> {"backlog", "running", "over"}]
  /\ gateOpen \in [Links -> BOOLEAN] /\ serverOpen \in [Links -> BOOLEAN]
  /\ pinging \in [Links -> BOOLEAN] /\ remoteGateServerId \in [Links -> BOOLEAN]
  /\ mapBackEndServer \in Links \cup {None} /\ mapGate \in Links \cup {None}
  /\ toServer \in [Links -> Seq({"gate2LobbyRegister"})]
  /\ toGate \in [Links -> Seq({"lobby2GateRegisterSucc", "lobby2GateRegisterFail"})]
  /\ cut \in [Links -> BOOLEAN] /\ faults \in 0 .. MaxFaults

LinkInit ==
  /\ gate = [l \in Links |-> "over"] /\ server = [l \in Links |-> "over"]
  /\ gateOpen = [l \in Links |-> FALSE] /\ serverOpen = [l \in Links |-> FALSE]
  /\ pinging = [l \in Links |-> FALSE] /\ remoteGateServerId = [l \in Links |-> FALSE]
  /\ mapBackEndServer = None /\ mapGate = None
  /\ toServer = [l \in Links |-> <<>>] /\ toGate = [l \in Links |-> <<>>]
  /\ cut = [l \in Links |-> FALSE] /\ faults = 0

\* What is sent while the other end listens and the network works gets there.
Sent(queue, l, m, heard) == IF heard /\ ~cut[l] THEN [queue EXCEPT ![l] = Append(@, m)] ELSE queue

-----------------------------------------------------------------------------
(* The gate.                                                                *)

\* keepAliveForBackEndSrv finds no entry, connects and stores the new connection.
KeepAlive(l) ==
  /\ mapBackEndServer = None
  /\ gate[l] = "over" /\ server[l] = "over"
  /\ gate' = [gate EXCEPT ![l] = "stored"] /\ gateOpen' = [gateOpen EXCEPT ![l] = TRUE]
  /\ mapBackEndServer' = l
  /\ server' = [server EXCEPT ![l] = "backlog"]
  /\ toServer' = [toServer EXCEPT ![l] = <<>>] /\ toGate' = [toGate EXCEPT ![l] = <<>>]
  /\ cut' = [cut EXCEPT ![l] = FALSE]
  /\ UNCHANGED <<pinging, serverOpen, mapGate, remoteGateServerId, faults>>

\* BackEndServer.Run: the loops start and the registration is sent.
Run(l) ==
  /\ gate[l] = "stored"
  /\ gate' = [gate EXCEPT ![l] = "running"]
  /\ toServer' = Sent(toServer, l, "gate2LobbyRegister", server[l] # "over")
  /\ UNCHANGED <<gateOpen, pinging, mapBackEndServer, serverVars, toGate, cut, faults>>

\* The gate's reading ends: the server has closed, or nothing came for a minute.
GateReadFails(l) ==
  /\ gate[l] = "running" /\ gateOpen[l]
  /\ cut[l] \/ server[l] = "over" \/ (server[l] = "running" /\ ~serverOpen[l])
  /\ gateOpen' = [gateOpen EXCEPT ![l] = FALSE]
  /\ UNCHANGED <<gate, pinging, mapBackEndServer, serverVars, netVars>>

\* handleBinData: registered, the gate starts to ping; refused, it closes.
HandleBinData(l) ==
  /\ gate[l] = "running" /\ toGate[l] # <<>>
  /\ \/ /\ Head(toGate[l]) = "lobby2GateRegisterSucc"
        /\ pinging' = [pinging EXCEPT ![l] = gateOpen[l]]
        /\ UNCHANGED gateOpen
     \/ /\ Head(toGate[l]) = "lobby2GateRegisterFail"
        /\ gateOpen' = [gateOpen EXCEPT ![l] = FALSE]
        /\ UNCHANGED pinging
  /\ toGate' = [toGate EXCEPT ![l] = Tail(@)]
  /\ UNCHANGED <<gate, mapBackEndServer, serverVars, toServer, cut, faults>>

\* Mutant of ForwardLoopExit: the entry stays when the loop ends.
ForwardLoopExit_KeepEntry(l) ==
  /\ gate[l] = "running" /\ ~gateOpen[l]
  /\ gate' = [gate EXCEPT ![l] = "over"]
  /\ pinging' = [pinging EXCEPT ![l] = FALSE]
  /\ UNCHANGED <<gateOpen, mapBackEndServer, serverVars, netVars>>

\* forwardLoop takes the exit signal, whatever is still to be handled, and has the
\* entry of the back-end server deleted, by its id; handlePing ends by the same signal.
ForwardLoopExit(l) ==
  /\ gate[l] = "running" /\ ~gateOpen[l]
  /\ gate' = [gate EXCEPT ![l] = "over"]
  /\ pinging' = [pinging EXCEPT ![l] = FALSE]
  /\ mapBackEndServer' = None
  /\ UNCHANGED <<gateOpen, serverVars, netVars>>

-----------------------------------------------------------------------------
(* The back-end server.                                                     *)

\* ListenTcpGate accepts the connection and starts its handleLoop.
Accept(l) ==
  /\ server[l] = "backlog"
  /\ server' = [server EXCEPT ![l] = "running"]
  /\ serverOpen' = [serverOpen EXCEPT ![l] = TRUE]
  /\ UNCHANGED <<gateVars, mapGate, remoteGateServerId, netVars>>

\* The server's reading ends: the gate has closed, or nothing came for a minute. A
\* registered gate pings every twenty seconds, so only a cut makes it silent.
ServerReadFails(l) ==
  /\ server[l] = "running" /\ serverOpen[l]
  /\ cut[l] \/ ~gateOpen[l]
  /\ serverOpen' = [serverOpen EXCEPT ![l] = FALSE]
  /\ UNCHANGED <<gateVars, server, mapGate, remoteGateServerId, netVars>>

Answer(l, m) == toGate' = Sent(toGate, l, m, serverOpen[l] /\ gateOpen[l])

\* Mutant of HandleRegister: the id is noted before storeGate is asked.
HandleRegister_NoteFirst(l) ==
  /\ server[l] = "running" /\ toServer[l] # <<>>
  /\ toServer' = [toServer EXCEPT ![l] = Tail(@)]
  /\ remoteGateServerId' = [remoteGateServerId EXCEPT ![l] = TRUE]
  /\ \/ /\ mapGate = None
        /\ mapGate' = l
        /\ Answer(l, "lobby2GateRegisterSucc")
        /\ UNCHANGED serverOpen
     \/ /\ mapGate # None
        /\ Answer(l, "lobby2GateRegisterFail")
        /\ serverOpen' = [serverOpen EXCEPT ![l] = FALSE]
        /\ UNCHANGED mapGate
  /\ UNCHANGED <<gateVars, server, cut, faults>>

\* handleMsg: storeGate takes the gate unless one of its id is there, noticed to be
\* gone or not; a refused connection is answered and closed.
HandleRegister(l) ==
  /\ server[l] = "running" /\ toServer[l] # <<>>
  /\ toServer' = [toServer EXCEPT ![l] = Tail(@)]
  /\ \/ /\ mapGate = None
        /\ mapGate' = l
        /\ remoteGateServerId' = [remoteGateServerId EXCEPT ![l] = TRUE]
        /\ Answer(l, "lobby2GateRegisterSucc")
        /\ UNCHANGED serverOpen
     \/ /\ mapGate # None
        /\ Answer(l, "lobby2GateRegisterFail")
        /\ serverOpen' = [serverOpen EXCEPT ![l] = FALSE]
        /\ UNCHANGED <<mapGate, remoteGateServerId>>
  /\ UNCHANGED <<gateVars, server, cut, faults>>

\* handleLoop takes the exit signal, whatever is still to be handled, and removes the
\* gate of the id it has noted.
HandleLoopExit(l) ==
  /\ server[l] = "running" /\ ~serverOpen[l]
  /\ server' = [server EXCEPT ![l] = "over"]
  /\ remoteGateServerId' = [remoteGateServerId EXCEPT ![l] = FALSE]
  /\ mapGate' = IF remoteGateServerId[l] THEN None ELSE mapGate
  /\ UNCHANGED <<gateVars, serverOpen, netVars>>

-----------------------------------------------------------------------------
(* The environment.                                                         *)

Fault == faults < MaxFaults /\ faults' = faults + 1

\* The network goes silent on a link: what is under way may be lost, and all that
\* is sent later.
Cut(l) ==
  /\ Fault
  /\ ~cut[l] /\ (gate[l] # "over" \/ server[l] # "over")
  /\ cut' = [cut EXCEPT ![l] = TRUE]
  /\ toServer' \in {toServer, [toServer EXCEPT ![l] = <<>>]}
  /\ toGate' \in {toGate, [toGate EXCEPT ![l] = <<>>]}
  /\ UNCHANGED <<gateVars, serverVars>>

\* The gate's process ends and starts again.
GateCrash ==
  /\ Fault
  /\ gate' = [l \in Links |-> "over"] /\ gateOpen' = [l \in Links |-> FALSE]
  /\ pinging' = [l \in Links |-> FALSE]
  /\ mapBackEndServer' = None
  /\ UNCHANGED <<serverVars, toServer, toGate, cut>>

\* The back-end server's process ends and starts again.
ServerCrash ==
  /\ Fault
  /\ server' = [l \in Links |-> "over"] /\ serverOpen' = [l \in Links |-> FALSE]
  /\ remoteGateServerId' = [l \in Links |-> FALSE]
  /\ mapGate' = None
  /\ UNCHANGED <<gateVars, toServer, toGate, cut>>

GateStep(l) == Run(l) \/ GateReadFails(l) \/ HandleBinData(l) \/ ForwardLoopExit(l)

ServerStep(l) == Accept(l) \/ ServerReadFails(l) \/ HandleRegister(l) \/ HandleLoopExit(l)

LinkNext ==
  \/ \E l \in Links : KeepAlive(l) \/ GateStep(l) \/ ServerStep(l) \/ Cut(l)
  \/ GateCrash \/ ServerCrash

LinkSpec == LinkInit /\ [][LinkNext]_linkVars

\* The goroutines of both processes run and reads time out; faults need not happen.
LinkFairSpec ==
  /\ LinkSpec
  /\ WF_linkVars(\E l \in Links : KeepAlive(l))
  /\ \A l \in Links : WF_linkVars(GateStep(l)) /\ WF_linkVars(ServerStep(l))

-----------------------------------------------------------------------------
(* Properties.                                                              *)

\* Each side's entry is a connection whose loop still runs, and so will be removed by
\* it; the gate runs no connection beside the one it has an entry for. Both sides
\* delete by server id, not by connection (disconnectBackEndSrv, removeGate), so a
\* late end could as well delete the entry of a newer connection, or leave one that
\* keeps the gate out for ever.
EntriesLive ==
  /\ \A l \in Links : gate[l] # "over" <=> mapBackEndServer = l
  /\ \A l \in Links : remoteGateServerId[l] <=> mapGate = l
  /\ \A l \in Links : mapGate = l => server[l] = "running"

\* While both ends of a link are open and the gate pings over it, the server has that
\* very link registered: the two sides agree on who talks to whom, also with a
\* registration refused because an older link has not been noticed to be gone.
PingedIsRegistered ==
  \A l \in Links : pinging[l] /\ gateOpen[l] /\ server[l] = "running" /\ serverOpen[l] => mapGate = l

Linked ==
  \E l \in Links :
    /\ mapBackEndServer = l /\ mapGate = l
    /\ gateOpen[l] /\ serverOpen[l] /\ pinging[l] /\ ~cut[l]

\* After any crashes and cuts, gate and server end up registered with each other and
\* stay so (keepAliveForBackEndSrv: "reconnect after a disconnection").
LinkRestored == <>[]Linked
=============================================================================
