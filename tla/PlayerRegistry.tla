--------------------------- MODULE PlayerRegistry ---------------------------
(***************************************************************************)
(* The registry of player objects that every back-end server embeds        *)
(* (common-library/baseServer): who is registered, under which connection, *)
(* and the time wheel that closes and removes the silent ones. Every       *)
(* operation holds lockPlayer, so each is one action; what its callers do  *)
(* between two operations is the business of the modules that extend this. *)
(***************************************************************************)
EXTENDS Integers

CONSTANTS
  Wxids,      \* the users
  Conns,      \* connection ids, unique over the life of the gates
  Objects,    \* the player objects that memory holds
  Nobody,     \* no user, no connection, no object, no slot
  Circle,     \* slots of the wheel; 30
  Expires     \* playerExpires in turns of the ticker; 1800 in the lobby

Slots == 0 .. Circle - 1

ASSUME RegistryAssumption ==
  /\ Circle \in Nat \ {0} /\ Expires \in Nat \ {0}
  /\ Nobody \notin Wxids \cup Conns \cup Objects \cup Slots

VARIABLES
  mapPlayer, mapConnid, mapWxidConnid,
  slots, mapIndicator, runingTime,
  connOf,      \* a player object's connId
  status,      \* of a player object: free, open or closed
  silent       \* seconds since its lastAliveTimestamp, up to Expires

maps == <<mapPlayer, mapConnid, mapWxidConnid>>
wheel == <<slots, mapIndicator, runingTime>>
objects == <<connOf, status, silent>>
registryVars == <<maps, wheel, objects>>

RegistryTypeOK ==
  /\ mapPlayer \in [Wxids -> Objects \cup {Nobody}]
  /\ mapConnid \in [Conns -> Wxids \cup {Nobody}]
  /\ mapWxidConnid \in [Wxids -> Conns \cup {Nobody}]
  /\ slots \in [Slots -> SUBSET Wxids]
  /\ mapIndicator \in [Wxids -> Slots \cup {Nobody}]
  /\ runingTime \in Slots
  /\ connOf \in [Objects -> Conns \cup {Nobody}]
  /\ status \in [Objects -> {"free", "open", "closed"}]
  /\ silent \in [Objects -> 0 .. Expires]

RegistryInit ==
  /\ mapPlayer = [x \in Wxids |-> Nobody]
  /\ mapConnid = [c \in Conns |-> Nobody]
  /\ mapWxidConnid = [x \in Wxids |-> Nobody]
  /\ slots = [s \in Slots |-> {}]
  /\ mapIndicator = [x \in Wxids |-> Nobody]
  /\ runingTime = 0
  /\ connOf = [o \in Objects |-> Nobody]
  /\ status = [o \in Objects |-> "free"]
  /\ silent = [o \in Objects |-> 0]

-----------------------------------------------------------------------------
Registered(x) == mapPlayer[x] # Nobody

FindPlayer(x) == mapPlayer[x]

FindPlayerByConnId(c) == IF mapConnid[c] = Nobody THEN Nobody ELSE mapPlayer[mapConnid[c]]

\* The slot whose turn is farthest away.
JustPassed == (runingTime - 1) % Circle

\* Mutant of StorePlayer: the old connection is forgotten last.
StorePlayer_DeleteLast(x, o, newConn, oldConn) ==
  /\ mapConnid' = [c \in Conns |-> IF c = oldConn THEN Nobody ELSE IF c = newConn THEN x ELSE mapConnid[c]]
  /\ mapPlayer' = [mapPlayer EXCEPT ![x] = o]
  /\ mapWxidConnid' = [mapWxidConnid EXCEPT ![x] = newConn]
  /\ slots' = [s \in Slots |-> IF s = JustPassed THEN slots[s] \cup {x}
                             ELSE IF s = mapIndicator[x] THEN slots[s] \ {x} ELSE slots[s]]
  /\ mapIndicator' = [mapIndicator EXCEPT ![x] = JustPassed]
  /\ UNCHANGED runingTime

\* The entry of the old connection goes, the new one routes to the user, and the
\* user moves to the slot that has just had its turn.
StorePlayer(x, o, newConn, oldConn) ==
  /\ mapConnid' = [c \in Conns |-> IF c = newConn THEN x ELSE IF c = oldConn THEN Nobody ELSE mapConnid[c]]
  /\ mapPlayer' = [mapPlayer EXCEPT ![x] = o]
  /\ mapWxidConnid' = [mapWxidConnid EXCEPT ![x] = newConn]
  /\ slots' = [s \in Slots |-> IF s = JustPassed THEN slots[s] \cup {x}
                             ELSE IF s = mapIndicator[x] THEN slots[s] \ {x} ELSE slots[s]]
  /\ mapIndicator' = [mapIndicator EXCEPT ![x] = JustPassed]
  /\ UNCHANGED runingTime

\* A user whose object has sent no ping for too long.
Expired(x) == Registered(x) /\ silent'[mapPlayer[x]] >= Expires

\* Mutant of Advance: the counter is not taken modulo the circle.
Advance_NoWrap == runingTime' = runingTime + 1

\* Mutant of Advance: the counter moves two slots at a time.
Advance_Two == runingTime' = (runingTime + 2) % Circle

Advance == runingTime' = (runingTime + 1) % Circle

\* Mutant of Tick: the closed player stays in the slot.
Tick_KeepSlot ==
  /\ silent' = [o \in Objects |-> IF silent[o] < Expires THEN silent[o] + 1 ELSE Expires]
  /\ LET gone == {x \in slots[runingTime] : Expired(x)}
     IN  /\ status' = [o \in Objects |->
                         IF status[o] = "open" /\ \E x \in gone : mapPlayer[x] = o THEN "closed" ELSE status[o]]
         /\ mapConnid' = [c \in Conns |-> IF \E x \in gone : mapWxidConnid[x] = c THEN Nobody ELSE mapConnid[c]]
         /\ mapPlayer' = [x \in Wxids |-> IF x \in gone THEN Nobody ELSE mapPlayer[x]]
         /\ mapWxidConnid' = [x \in Wxids |-> IF x \in gone THEN Nobody ELSE mapWxidConnid[x]]
         /\ mapIndicator' = [x \in Wxids |-> IF x \in gone THEN Nobody ELSE mapIndicator[x]]
         /\ UNCHANGED slots
  /\ Advance
  /\ UNCHANGED connOf

\* One second passes and the ticker fires: in the slot whose turn it is the
\* players that have been silent too long are closed and forgotten. Close leaves
\* a signal that the goroutine of the player takes next; here it takes it at once.
Tick ==
  /\ silent' = [o \in Objects |-> IF silent[o] < Expires THEN silent[o] + 1 ELSE Expires]
  /\ LET gone == {x \in slots[runingTime] : Expired(x)}
     IN  /\ status' = [o \in Objects |->
                         IF status[o] = "open" /\ \E x \in gone : mapPlayer[x] = o THEN "closed" ELSE status[o]]
         /\ mapConnid' = [c \in Conns |-> IF \E x \in gone : mapWxidConnid[x] = c THEN Nobody ELSE mapConnid[c]]
         /\ mapPlayer' = [x \in Wxids |-> IF x \in gone THEN Nobody ELSE mapPlayer[x]]
         /\ mapWxidConnid' = [x \in Wxids |-> IF x \in gone THEN Nobody ELSE mapWxidConnid[x]]
         /\ mapIndicator' = [x \in Wxids |-> IF x \in gone THEN Nobody ELSE mapIndicator[x]]
         /\ slots' = [slots EXCEPT ![runingTime] = @ \ gone]
  /\ Advance
  /\ UNCHANGED connOf

-----------------------------------------------------------------------------
(* The player object, as far as both servers have it.                       *)

\* A ping that its connection still routes to an object that is open: it handles it
\* as a sign of life. A closed object drops every message.
Ping(c) ==
  /\ FindPlayerByConnId(c) # Nobody
  /\ status[FindPlayerByConnId(c)] = "open"
  /\ silent' = [silent EXCEPT ![FindPlayerByConnId(c)] = 0]
  /\ UNCHANGED <<maps, wheel, connOf, status>>
=============================================================================
