------------------------------ MODULE LobbyLogin ------------------------------
(***************************************************************************)
(* The login workers of the lobby (lobby-server/login) over the registry.  *)
(* A login looks for the user's player object; if there is one on another  *)
(* connection it kicks that connection and rebinds the object, else it     *)
(* takes a lock in redis, finds or creates the account and stores a new    *)
(* object. Workers, the time wheel and the players' goroutines interleave  *)
(* between any two of those calls.                                         *)
(***************************************************************************)
EXTENDS PlayerRegistry, FiniteSets

CONSTANTS
  Workers     \* goroutines that serve the login queue; 10

ASSUME LoginAssumption == Nobody \notin Workers

Steps == {"idle", "find", "kick", "store", "lock", "account", "new", "unlock"}

VARIABLES
  pc, wxid, conn,       \* of each worker: its next call and the login it serves
  oldPlayer, oldConn,   \* what it read from the registry and from the object
  locked,               \* users whose login lock is set in redis
  cameOver              \* history, of each connection: who has logged in over it

workerVars == <<pc, wxid, conn, oldPlayer, oldConn>>
vars == <<registryVars, workerVars, locked, cameOver>>

TypeOK ==
  /\ RegistryTypeOK
  /\ pc \in [Workers -> Steps]
  /\ wxid \in [Workers -> Wxids \cup {Nobody}] /\ conn \in [Workers -> Conns \cup {Nobody}]
  /\ \A w \in Workers : pc[w] # "idle" => wxid[w] \in Wxids /\ conn[w] \in Conns
  /\ oldPlayer \in [Workers -> Objects \cup {Nobody}]
  /\ \A w \in Workers : pc[w] \in {"kick", "store"} => oldPlayer[w] \in Objects
  /\ oldConn \in [Workers -> Conns \cup {Nobody}]
  /\ locked \subseteq Wxids /\ cameOver \in [Conns -> SUBSET Wxids]

Init ==
  /\ RegistryInit
  /\ pc = [w \in Workers |-> "idle"]
  /\ wxid = [w \in Workers |-> Nobody] /\ conn = [w \in Workers |-> Nobody]
  /\ oldPlayer = [w \in Workers |-> Nobody] /\ oldConn = [w \in Workers |-> Nobody]
  /\ locked = {} /\ cameOver = [c \in Conns |-> {}]

-----------------------------------------------------------------------------
(* The calls of login, in order.                                            *)

Goto(w, step) == pc' = [pc EXCEPT ![w] = step]

\* A worker takes a login from the queue: connection c logs in as user x. Nobody asks
\* whether another user has logged in over c before.
Take(w, c, x) ==
  /\ pc[w] = "idle"
  /\ wxid' = [wxid EXCEPT ![w] = x] /\ conn' = [conn EXCEPT ![w] = c]
  /\ Goto(w, "find") /\ cameOver' = [cameOver EXCEPT ![c] = @ \cup {x}]
  /\ UNCHANGED <<registryVars, oldPlayer, oldConn, locked>>

\* findPlayer, and the question whether the object found is on another connection.
Find(w) ==
  /\ pc[w] = "find"
  /\ LET old == FindPlayer(wxid[w])
         onAnother == old # Nobody /\ connOf[old] # conn[w]
     IN  /\ oldPlayer' = [oldPlayer EXCEPT ![w] = IF onAnother THEN old ELSE Nobody]
         /\ Goto(w, IF onAnother THEN "kick" ELSE "lock")
  /\ UNCHANGED <<registryVars, wxid, conn, oldConn, locked, cameOver>>

\* The connection the object is on by now is sent a kick, and the object gets the new one.
Kick(w) ==
  /\ pc[w] = "kick"
  /\ oldConn' = [oldConn EXCEPT ![w] = connOf[oldPlayer[w]]]
  /\ connOf' = [connOf EXCEPT ![oldPlayer[w]] = conn[w]]
  /\ Goto(w, "store")
  /\ UNCHANGED <<maps, wheel, status, silent, wxid, conn, oldPlayer, locked, cameOver>>

\* Nothing of a login is left in the worker.
Done(w) ==
  /\ Goto(w, "idle")
  /\ wxid' = [wxid EXCEPT ![w] = Nobody] /\ conn' = [conn EXCEPT ![w] = Nobody]
  /\ oldPlayer' = [oldPlayer EXCEPT ![w] = Nobody] /\ oldConn' = [oldConn EXCEPT ![w] = Nobody]

StoreOld(w) ==
  /\ pc[w] = "store"
  /\ StorePlayer(wxid[w], oldPlayer[w], conn[w], oldConn[w])
  /\ Done(w)
  /\ UNCHANGED <<objects, locked, cameOver>>

\* SETNX on the login lock: taken, refused or failed.
Lock(w) ==
  /\ pc[w] = "lock"
  /\ \/ wxid[w] \notin locked /\ locked' = locked \cup {wxid[w]} /\ Goto(w, "account")
     \/ Goto(w, "unlock") /\ UNCHANGED locked
  /\ UNCHANGED <<registryVars, wxid, conn, oldPlayer, oldConn, cameOver>>

\* The account is read from redis, or created in the database; either may fail.
FindAccount(w) ==
  /\ pc[w] = "account"
  /\ Goto(w, "new") \/ Goto(w, "unlock")
  /\ UNCHANGED <<registryVars, wxid, conn, oldPlayer, oldConn, locked, cameOver>>

\* Memory that nothing refers to any more, or that was never used.
Unused(o) ==
  /\ status[o] \in {"free", "closed"}
  /\ \A x \in Wxids : mapPlayer[x] # o
  /\ \A w \in Workers : oldPlayer[w] # o

\* NewPlayer, storePlayer and Run: the new object is not shared before it is stored.
StoreNew(w) ==
  /\ pc[w] = "new"
  /\ \E o \in Objects :
       /\ Unused(o)
       /\ connOf' = [connOf EXCEPT ![o] = conn[w]]
       /\ status' = [status EXCEPT ![o] = "open"]
       /\ silent' = [silent EXCEPT ![o] = 0]
       /\ StorePlayer(wxid[w], o, conn[w], Nobody)
  /\ Goto(w, "unlock")
  /\ UNCHANGED <<wxid, conn, oldPlayer, oldConn, locked, cameOver>>

\* The deferred Del of the lock, on every way out.
Unlock(w) ==
  /\ pc[w] = "unlock"
  /\ locked' = locked \ {wxid[w]}
  /\ Done(w)
  /\ UNCHANGED <<registryVars, cameOver>>

\* The lock was set for ten seconds.
LockExpires(x) ==
  /\ x \in locked
  /\ locked' = locked \ {x}
  /\ UNCHANGED <<registryVars, workerVars, cameOver>>

Serve(w) ==
  \/ Find(w) \/ Kick(w) \/ StoreOld(w)
  \/ Lock(w) \/ FindAccount(w) \/ StoreNew(w) \/ Unlock(w)

Registry ==
  \/ Tick
  \/ \E c \in Conns : Ping(c)

Next ==
  \/ \E w \in Workers : Serve(w) \/ \E c \in Conns, x \in Wxids : Take(w, c, x)
  \/ Registry /\ UNCHANGED <<workerVars, locked, cameOver>>
  \/ \E x \in Wxids : LockExpires(x)

Spec == Init /\ [][Next]_vars

\* The ticker goes on; workers, players and clients may stop.
FairSpec == Spec /\ WF_vars(Tick /\ UNCHANGED <<workerVars, locked, cameOver>>)

-----------------------------------------------------------------------------
(* Properties.                                                              *)

\* A user is registered exactly while one slot of the wheel holds him, and the
\* indicator names that slot: the wheel misses nobody and meets nobody it does
\* not know (baseServer.go:125 logs that as an error), whatever logins and
\* expiries interleave.
SlotsInSync ==
  \A x \in Wxids :
    /\ Registered(x) <=> mapIndicator[x] # Nobody
    /\ Registered(x) <=> mapWxidConnid[x] # Nobody
    /\ \A s \in Slots : x \in slots[s] <=> mapIndicator[x] = s

\* The connection under which a user is registered routes to that user, though
\* two workers may rebind one object at a time and each deletes the entry of the
\* connection it has read before (login.go:81-85), unless another user has logged
\* in over that connection, which nothing prevents (login.go:59-93).
RouteLive ==
  \A x \in Wxids :
    Registered(x) => \/ mapConnid[mapWxidConnid[x]] = x
                     \/ \E y \in cameOver[mapWxidConnid[x]] : y # x

\* A user whose object stays silent does not stay registered: the wheel reaches
\* it, unless logins of that user keep moving it to the slot that has just passed.
SilentRemoved ==
  \A x \in Wxids :
    <>[](Registered(x) /\ silent[mapPlayer[x]] = Expires) => []<>(\E w \in Workers : pc[w] # "idle" /\ wxid[w] = x)
=============================================================================
