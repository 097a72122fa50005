--------------------------- MODULE LobbyLoginProofs ---------------------------
(***************************************************************************)
(* What holds of the registry for any users, connections, workers and any  *)
(* size of the wheel: the types, that wheel and maps agree, and that every *)
(* registered user can be reached over the connection on record.           *)
(***************************************************************************)
EXTENDS LobbyLogin, TLAPS

\* Where a user meets a connection he has come over it: in the maps, in an object
\* he is registered with, and in a worker that serves him.
Owned ==
  /\ \A c \in Conns : mapConnid[c] # Nobody => mapConnid[c] \in cameOver[c]
  /\ \A x \in Wxids : Registered(x) =>
       /\ x \in cameOver[mapWxidConnid[x]]
       /\ connOf[mapPlayer[x]] \in Conns /\ x \in cameOver[connOf[mapPlayer[x]]]
  /\ \A w \in Workers :
       /\ pc[w] # "idle" => wxid[w] \in cameOver[conn[w]]
       /\ oldPlayer[w] # Nobody =>
            /\ pc[w] \in {"kick", "store"}
            /\ connOf[oldPlayer[w]] \in Conns /\ wxid[w] \in cameOver[connOf[oldPlayer[w]]]
       /\ pc[w] = "store" => oldConn[w] \in Conns /\ wxid[w] \in cameOver[oldConn[w]]

\* A player object is one user's, in the map and in the workers.
ObjectsApart ==
  /\ \A x, y \in Wxids : Registered(x) /\ mapPlayer[x] = mapPlayer[y] => x = y
  /\ \A w \in Workers : oldPlayer[w] # Nobody =>
       /\ \A x \in Wxids : mapPlayer[x] = oldPlayer[w] => x = wxid[w]
       /\ \A v \in Workers : oldPlayer[v] = oldPlayer[w] => wxid[v] = wxid[w]

IInv == TypeOK /\ SlotsInSync /\ RouteLive /\ Owned /\ ObjectsApart

-----------------------------------------------------------------------------
(* The operations of the registry.                                          *)

\* The slot that has passed is a slot, and so is the next one.
LEMMA SlotFact == runingTime \in Slots => JustPassed \in Slots /\ (runingTime + 1) % Circle \in Slots
BY RegistryAssumption DEF JustPassed, Slots

\* No user, connection, object or slot is Nobody.
LEMMA NobodyFact == Nobody \notin Wxids /\ Nobody \notin Conns /\ Nobody \notin Objects /\ Nobody \notin Slots
BY RegistryAssumption

\* Storing a player keeps maps and wheel well typed and in agreement.
LEMMA StoreKeeps ==
  ASSUME RegistryTypeOK, SlotsInSync,
         NEW x \in Wxids, NEW o \in Objects, NEW new \in Conns, NEW old,
         StorePlayer(x, o, new, old)
  PROVE  /\ mapPlayer' \in [Wxids -> Objects \cup {Nobody}]
         /\ mapConnid' \in [Conns -> Wxids \cup {Nobody}]
         /\ mapWxidConnid' \in [Wxids -> Conns \cup {Nobody}]
         /\ slots' \in [Slots -> SUBSET Wxids]
         /\ mapIndicator' \in [Wxids -> Slots \cup {Nobody}]
         /\ runingTime' \in Slots
         /\ SlotsInSync'
<1>1. JustPassed \in Slots
  BY SlotFact DEF RegistryTypeOK
<1>2. /\ mapPlayer' = [mapPlayer EXCEPT ![x] = o]
      /\ mapConnid' = [c \in Conns |-> IF c = new THEN x ELSE IF c = old THEN Nobody ELSE mapConnid[c]]
      /\ mapWxidConnid' = [mapWxidConnid EXCEPT ![x] = new]
      /\ mapIndicator' = [mapIndicator EXCEPT ![x] = JustPassed]
      /\ slots' = [s \in Slots |-> IF s = JustPassed THEN slots[s] \cup {x}
                                  ELSE IF s = mapIndicator[x] THEN slots[s] \ {x} ELSE slots[s]]
      /\ UNCHANGED runingTime
  BY DEF StorePlayer
<1>3. slots' \in [Slots -> SUBSET Wxids]
  BY <1>2 DEF RegistryTypeOK
<1>4. SlotsInSync'
  <2> SUFFICES ASSUME NEW y \in Wxids
               PROVE  /\ mapPlayer'[y] # Nobody <=> mapIndicator'[y] # Nobody
                      /\ mapPlayer'[y] # Nobody <=> mapWxidConnid'[y] # Nobody
                      /\ \A s \in Slots : y \in slots'[s] <=> mapIndicator'[y] = s
    BY DEF SlotsInSync, Registered
  <2>1. CASE y = x
    <3>1. /\ mapPlayer'[x] = o /\ mapWxidConnid'[x] = new /\ mapIndicator'[x] = JustPassed
      BY <1>2 DEF RegistryTypeOK
    <3>2. \A s \in Slots : x \in slots'[s] <=> s = JustPassed
      BY <1>2 DEF SlotsInSync
    <3>3. QED
      BY <2>1, <3>1, <3>2, <1>1, NobodyFact
  <2>2. CASE y # x
    <3>1. /\ mapPlayer'[y] = mapPlayer[y] /\ mapWxidConnid'[y] = mapWxidConnid[y]
          /\ mapIndicator'[y] = mapIndicator[y]
      BY <2>2, <1>2 DEF RegistryTypeOK
    <3>2. \A s \in Slots : y \in slots'[s] <=> y \in slots[s]
      BY <2>2, <1>2
    <3>3. QED
      BY <3>1, <3>2 DEF SlotsInSync, Registered
  <2>3. QED
    BY <2>1, <2>2
<1>5. QED
  BY <1>1, <1>2, <1>3, <1>4 DEF RegistryTypeOK

\* A turn of the wheel keeps the registry well typed and in agreement.
LEMMA TickKeeps ==
  ASSUME RegistryTypeOK, SlotsInSync, Tick
  PROVE  RegistryTypeOK' /\ SlotsInSync'
<1> DEFINE gone == {x \in slots[runingTime] : Expired(x)}
<1>1. /\ status' = [o \in Objects |->
                      IF status[o] = "open" /\ \E x \in gone : mapPlayer[x] = o THEN "closed" ELSE status[o]]
      /\ mapConnid' = [c \in Conns |-> IF \E x \in gone : mapWxidConnid[x] = c THEN Nobody ELSE mapConnid[c]]
      /\ mapPlayer' = [x \in Wxids |-> IF x \in gone THEN Nobody ELSE mapPlayer[x]]
      /\ mapWxidConnid' = [x \in Wxids |-> IF x \in gone THEN Nobody ELSE mapWxidConnid[x]]
      /\ mapIndicator' = [x \in Wxids |-> IF x \in gone THEN Nobody ELSE mapIndicator[x]]
      /\ slots' = [slots EXCEPT ![runingTime] = @ \ gone]
      /\ silent' = [o \in Objects |-> IF silent[o] < Expires THEN silent[o] + 1 ELSE Expires]
      /\ runingTime' = (runingTime + 1) % Circle
      /\ UNCHANGED connOf
  BY DEF Tick, Advance
<1>2. gone \subseteq slots[runingTime]
  OBVIOUS
<1>3. silent' \in [Objects -> 0 .. Expires]
  BY <1>1, RegistryAssumption DEF RegistryTypeOK
<1>4. runingTime' \in Slots
  BY <1>1, SlotFact DEF RegistryTypeOK
<1>5. status' \in [Objects -> {"free", "open", "closed"}]
  BY <1>1 DEF RegistryTypeOK
<1>6. slots' \in [Slots -> SUBSET Wxids]
  BY <1>1 DEF RegistryTypeOK
<1>7. RegistryTypeOK'
  BY <1>1, <1>3, <1>4, <1>5, <1>6 DEF RegistryTypeOK
<1>8. SlotsInSync'
  <2> SUFFICES ASSUME NEW y \in Wxids
               PROVE  /\ mapPlayer'[y] # Nobody <=> mapIndicator'[y] # Nobody
                      /\ mapPlayer'[y] # Nobody <=> mapWxidConnid'[y] # Nobody
                      /\ \A s \in Slots : y \in slots'[s] <=> mapIndicator'[y] = s
    BY DEF SlotsInSync, Registered
  <2>1. CASE y \in gone
    <3>1. runingTime \in Slots /\ mapIndicator[y] = runingTime
      BY <2>1, <1>2 DEF RegistryTypeOK, SlotsInSync
    <3>2. \A s \in Slots : y \notin slots'[s]
      BY <2>1, <3>1, <1>1 DEF RegistryTypeOK, SlotsInSync
    <3>3. QED
      BY <2>1, <3>2, <1>1, NobodyFact
  <2>2. CASE y \notin gone
    BY <2>2, <1>1 DEF RegistryTypeOK, SlotsInSync, Registered
  <2>3. QED
    BY <2>1, <2>2
<1>9. QED
  BY <1>7, <1>8

-----------------------------------------------------------------------------
(* The steps of the lobby.                                                  *)

\* A step of a worker that leaves the registry alone keeps the types of the registry.
LEMMA RegistrySame == RegistryTypeOK /\ UNCHANGED registryVars => RegistryTypeOK'
BY DEF RegistryTypeOK, registryVars, maps, wheel, objects

\* Every step keeps the types, and wheel and maps in agreement.
LEMMA TypeStep == TypeOK /\ SlotsInSync /\ [Next]_vars => TypeOK' /\ SlotsInSync'
<1> SUFFICES ASSUME TypeOK, SlotsInSync, [Next]_vars
             PROVE  TypeOK' /\ SlotsInSync'
  OBVIOUS
<1> USE DEF registryVars, maps, wheel, objects, workerVars, Steps
<1>1. ASSUME NEW w \in Workers, NEW c \in Conns, NEW x \in Wxids, Take(w, c, x)
      PROVE  TypeOK' /\ SlotsInSync'
  <2>1. RegistryTypeOK' /\ SlotsInSync'
    BY <1>1, RegistrySame DEF Take, TypeOK, SlotsInSync, Registered
  <2>2. QED
    BY <1>1, <2>1 DEF Take, Goto, TypeOK
<1>2. ASSUME NEW w \in Workers, Find(w)
      PROVE  TypeOK' /\ SlotsInSync'
  <2>1. RegistryTypeOK' /\ SlotsInSync'
    BY <1>2, RegistrySame DEF Find, TypeOK, SlotsInSync, Registered
  <2>2. mapPlayer[wxid[w]] \in Objects \cup {Nobody}
    BY <1>2 DEF Find, TypeOK, RegistryTypeOK
  <2>3. QED
    BY <1>2, <2>1, <2>2 DEF Find, FindPlayer, Goto, TypeOK
<1>3. ASSUME NEW w \in Workers, Kick(w)
      PROVE  TypeOK' /\ SlotsInSync'
  <2>1. oldPlayer[w] \in Objects /\ conn[w] \in Conns /\ connOf[oldPlayer[w]] \in Conns \cup {Nobody}
    BY <1>3 DEF Kick, TypeOK, RegistryTypeOK
  <2>2. RegistryTypeOK' /\ SlotsInSync'
    BY <1>3, <2>1 DEF Kick, TypeOK, RegistryTypeOK, SlotsInSync, Registered
  <2>3. QED
    BY <1>3, <2>1, <2>2 DEF Kick, Goto, TypeOK
<1>4. ASSUME NEW w \in Workers, StoreOld(w)
      PROVE  TypeOK' /\ SlotsInSync'
  <2>1. wxid[w] \in Wxids /\ conn[w] \in Conns /\ oldPlayer[w] \in Objects
    BY <1>4 DEF StoreOld, TypeOK
  <2>2. RegistryTypeOK' /\ SlotsInSync'
    BY <1>4, <2>1, StoreKeeps DEF StoreOld, TypeOK, RegistryTypeOK
  <2>3. QED
    BY <1>4, <2>2 DEF StoreOld, Done, Goto, TypeOK
<1>5. ASSUME NEW w \in Workers, Lock(w) \/ FindAccount(w) \/ Unlock(w)
      PROVE  TypeOK' /\ SlotsInSync'
  <2>1. RegistryTypeOK' /\ SlotsInSync'
    BY <1>5, RegistrySame DEF Lock, FindAccount, Unlock, TypeOK, SlotsInSync, Registered
  <2>2. CASE Lock(w)
    BY <2>1, <2>2 DEF Lock, Goto, TypeOK
  <2>3. CASE FindAccount(w)
    BY <2>1, <2>3 DEF FindAccount, Goto, TypeOK
  <2>4. CASE Unlock(w)
    BY <2>1, <2>4 DEF Unlock, Done, Goto, TypeOK
  <2>5. QED
    BY <1>5, <2>2, <2>3, <2>4
<1>6. ASSUME NEW w \in Workers, StoreNew(w)
      PROVE  TypeOK' /\ SlotsInSync'
  <2>1. wxid[w] \in Wxids /\ conn[w] \in Conns
    BY <1>6 DEF StoreNew, TypeOK
  <2>2. PICK o \in Objects :
          /\ connOf' = [connOf EXCEPT ![o] = conn[w]]
          /\ status' = [status EXCEPT ![o] = "open"]
          /\ silent' = [silent EXCEPT ![o] = 0]
          /\ StorePlayer(wxid[w], o, conn[w], Nobody)
    BY <1>6 DEF StoreNew
  <2>3. silent' \in [Objects -> 0 .. Expires]
    BY <2>2, RegistryAssumption DEF TypeOK, RegistryTypeOK
  <2>4. RegistryTypeOK' /\ SlotsInSync'
    BY <2>1, <2>2, <2>3, StoreKeeps DEF TypeOK, RegistryTypeOK
  <2>5. QED
    BY <1>6, <2>4 DEF StoreNew, Goto, TypeOK
<1>7. ASSUME Registry, UNCHANGED <<workerVars, locked, cameOver>>
      PROVE  TypeOK' /\ SlotsInSync'
  <2>1. CASE Tick
    BY <1>7, <2>1, TickKeeps DEF TypeOK
  <2>2. ASSUME NEW c \in Conns, Ping(c)
        PROVE  TypeOK' /\ SlotsInSync'
    <3>1. silent' \in [Objects -> 0 .. Expires]
      <4>1. 0 \in 0 .. Expires
        BY RegistryAssumption
      <4>2. \E o : silent' = [silent EXCEPT ![o] = 0]
        BY <2>2 DEF Ping
      <4>3. QED
        BY <4>1, <4>2 DEF TypeOK, RegistryTypeOK
    <3>2. RegistryTypeOK'
      BY <2>2, <3>1 DEF Ping, TypeOK, RegistryTypeOK
    <3>3. QED
      BY <1>7, <2>2, <3>2 DEF Ping, TypeOK, SlotsInSync, Registered
  <2>3. QED
    BY <1>7, <2>1, <2>2 DEF Registry
<1>8. ASSUME NEW x \in Wxids, LockExpires(x)
      PROVE  TypeOK' /\ SlotsInSync'
  BY <1>8, RegistrySame DEF LockExpires, TypeOK, SlotsInSync, Registered
<1>9. CASE UNCHANGED vars
  BY <1>9, RegistrySame DEF vars, TypeOK, SlotsInSync, Registered
<1>10. QED
  BY <1>1, <1>2, <1>3, <1>4, <1>5, <1>6, <1>7, <1>8, <1>9 DEF Next, Serve

\* Storing a player leaves the routes of the other users alone, but over a connection
\* that the stored user has come over too; his own goes to the new connection.
LEMMA StoreRoutes ==
  ASSUME IInv, NEW x \in Wxids, NEW o \in Objects, NEW new \in Conns, NEW old,
         StorePlayer(x, o, new, old), x \in cameOver[new], UNCHANGED cameOver,
         old = Nobody \/ (old \in Conns /\ x \in cameOver[old])
  PROVE  /\ RouteLive'
         /\ \A c \in Conns : mapConnid'[c] # Nobody => mapConnid'[c] \in cameOver[c]
         /\ \A y \in Wxids : mapPlayer'[y] = IF y = x THEN o ELSE mapPlayer[y]
         /\ \A y \in Wxids : mapWxidConnid'[y] = IF y = x THEN new ELSE mapWxidConnid[y]
<1>1. /\ mapPlayer' = [mapPlayer EXCEPT ![x] = o]
      /\ mapConnid' = [c \in Conns |-> IF c = new THEN x ELSE IF c = old THEN Nobody ELSE mapConnid[c]]
      /\ mapWxidConnid' = [mapWxidConnid EXCEPT ![x] = new]
  BY DEF StorePlayer
<1>2. mapPlayer \in [Wxids -> Objects \cup {Nobody}] /\ mapWxidConnid \in [Wxids -> Conns \cup {Nobody}]
  BY DEF IInv, TypeOK, RegistryTypeOK
<1>3. /\ \A y \in Wxids : mapPlayer'[y] = IF y = x THEN o ELSE mapPlayer[y]
      /\ \A y \in Wxids : mapWxidConnid'[y] = IF y = x THEN new ELSE mapWxidConnid[y]
  BY <1>1, <1>2
<1>4. \A c \in Conns : mapConnid'[c] # Nobody => mapConnid'[c] \in cameOver[c]
  BY <1>1 DEF IInv, Owned
<1>5. ASSUME NEW y \in Wxids, mapPlayer'[y] # Nobody
      PROVE  \/ mapConnid'[mapWxidConnid'[y]] = y
             \/ \E z \in cameOver[mapWxidConnid'[y]] : z # y
  <2>1. CASE y = x
    BY <2>1, <1>1, <1>2
  <2>2. CASE y # x
    <3>1. mapWxidConnid'[y] = mapWxidConnid[y] /\ Registered(y)
      BY <2>2, <1>3, <1>5 DEF Registered
    <3>2. mapWxidConnid[y] \in Conns
      BY <3>1, <1>2 DEF IInv, SlotsInSync
    <3>3. CASE mapWxidConnid[y] = new \/ mapWxidConnid[y] = old
      <4>1. x \in cameOver[mapWxidConnid[y]]
        BY <3>2, <3>3, NobodyFact
      <4> QED
        BY <2>2, <3>1, <4>1
    <3>4. CASE mapWxidConnid[y] # new /\ mapWxidConnid[y] # old
      <4>1. mapConnid'[mapWxidConnid[y]] = mapConnid[mapWxidConnid[y]]
        BY <1>1, <3>2, <3>4
      <4>2. \/ mapConnid[mapWxidConnid[y]] = y
            \/ \E z \in cameOver[mapWxidConnid[y]] : z # y
        BY <3>1 DEF IInv, RouteLive
      <4> QED
        BY <3>1, <4>1, <4>2
    <3>5. QED
      BY <3>3, <3>4
  <2>3. QED
    BY <2>1, <2>2
<1>6. QED
  BY <1>3, <1>4, <1>5 DEF RouteLive, Registered

\* A worker's call that leaves maps, objects and history alone keeps all that is said of
\* them.
LEMMA RestKept ==
  ASSUME IInv, UNCHANGED <<maps, connOf, cameOver, wxid, conn>>,
         \A w \in Workers : pc'[w] # "idle" => pc[w] # "idle",
         \A w \in Workers : pc'[w] = "store" => pc[w] = "store",
         oldPlayer' = oldPlayer /\ oldConn' = oldConn,
         \A w \in Workers : oldPlayer[w] # Nobody => pc'[w] = pc[w]
  PROVE  RouteLive' /\ Owned' /\ ObjectsApart'
  BY DEF IInv, RouteLive, Owned, ObjectsApart, Registered, maps

\* A worker that has come to its end, and holds nothing.
LEMMA DoneApart ==
  ASSUME NEW w \in Workers, TypeOK, Done(w)
  PROVE  \A v \in Workers :
           /\ oldPlayer'[v] = IF v = w THEN Nobody ELSE oldPlayer[v]
           /\ wxid'[v] = IF v = w THEN Nobody ELSE wxid[v]
           /\ conn'[v] = IF v = w THEN Nobody ELSE conn[v]
           /\ oldConn'[v] = IF v = w THEN Nobody ELSE oldConn[v]
           /\ pc'[v] = IF v = w THEN "idle" ELSE pc[v]
  BY DEF Done, Goto, TypeOK

\* Every step keeps the routes, and meets users only over connections they came over.
LEMMA RouteStep ==
  ASSUME IInv, [Next]_vars
  PROVE  RouteLive' /\ Owned' /\ ObjectsApart'
<1> USE DEF registryVars, maps, wheel, objects, workerVars
<1>0. RegistryTypeOK /\ TypeOK /\ SlotsInSync /\ RouteLive /\ Owned /\ ObjectsApart
  BY DEF IInv, TypeOK
<1>1. ASSUME NEW w \in Workers, NEW c \in Conns, NEW x \in Wxids, Take(w, c, x)
      PROVE  RouteLive' /\ Owned' /\ ObjectsApart'
  <2>1. /\ cameOver' \in [Conns -> SUBSET Wxids] /\ x \in cameOver'[c]
        /\ \A d \in Conns : cameOver[d] \subseteq cameOver'[d]
    BY <1>0, <1>1 DEF Take, TypeOK
  <2>2. UNCHANGED <<mapPlayer, mapConnid, mapWxidConnid, connOf, oldPlayer, oldConn>>
    BY <1>1 DEF Take
  <2>3. \A y \in Wxids : Registered(y) => mapWxidConnid[y] \in Conns
    BY <1>0 DEF RegistryTypeOK, SlotsInSync
  <2>4. RouteLive'
    BY <1>0, <2>1, <2>2, <2>3 DEF RouteLive, Registered
  <2>5. /\ pc[w] = "idle" /\ oldPlayer[w] = Nobody
        /\ wxid' = [wxid EXCEPT ![w] = x] /\ conn' = [conn EXCEPT ![w] = c]
        /\ pc' = [pc EXCEPT ![w] = "find"]
    BY <1>0, <1>1 DEF Take, Goto, Owned
  <2>6. \A v \in Workers : /\ wxid'[v] = IF v = w THEN x ELSE wxid[v]
                           /\ conn'[v] = IF v = w THEN c ELSE conn[v]
                           /\ pc'[v] = IF v = w THEN "find" ELSE pc[v]
                           /\ pc[v] # "idle" => conn[v] \in Conns
    BY <1>0, <2>5 DEF TypeOK
  <2>7. Owned'
    BY <1>0, <2>1, <2>2, <2>3, <2>5, <2>6 DEF Owned, Registered
  <2>8. ObjectsApart'
    BY <1>0, <2>2, <2>5, <2>6 DEF ObjectsApart, Registered
  <2>9. QED
    BY <2>4, <2>7, <2>8
<1>2. ASSUME NEW w \in Workers, Find(w)
      PROVE  RouteLive' /\ Owned' /\ ObjectsApart'
  <2>1. /\ wxid[w] \in Wxids /\ conn[w] \in Conns /\ pc[w] = "find" /\ oldPlayer[w] = Nobody
        /\ UNCHANGED <<mapPlayer, mapConnid, mapWxidConnid, connOf, wxid, conn, oldConn, cameOver>>
    BY <1>0, <1>2 DEF Find, TypeOK, Owned
  <2>2. PICK old : /\ old = Nobody \/ (old = mapPlayer[wxid[w]] /\ Registered(wxid[w]))
                   /\ oldPlayer' = [oldPlayer EXCEPT ![w] = old]
                   /\ pc' = [pc EXCEPT ![w] = IF old # Nobody THEN "kick" ELSE "lock"]
    BY <1>2 DEF Find, FindPlayer, Goto, Registered
  <2>3. \A v \in Workers :
          /\ oldPlayer'[v] = IF v = w THEN old ELSE oldPlayer[v]
          /\ pc'[v] = IF v = w THEN IF old # Nobody THEN "kick" ELSE "lock" ELSE pc[v]
    BY <1>0, <2>2 DEF TypeOK
  <2>4. RouteLive'
    BY <1>0, <2>1 DEF RouteLive, Registered
  <2>5. Owned'
    BY <1>0, <2>1, <2>2, <2>3 DEF Owned, Registered
  <2>6. ObjectsApart'
    BY <1>0, <2>1, <2>2, <2>3 DEF ObjectsApart, Registered
  <2>7. QED
    BY <2>4, <2>5, <2>6
<1>3. ASSUME NEW w \in Workers, Kick(w)
      PROVE  RouteLive' /\ Owned' /\ ObjectsApart'
  <2>1. /\ oldPlayer[w] \in Objects /\ conn[w] \in Conns /\ wxid[w] \in cameOver[conn[w]]
        /\ connOf[oldPlayer[w]] \in Conns /\ wxid[w] \in cameOver[connOf[oldPlayer[w]]]
    BY <1>0, <1>3, NobodyFact DEF Kick, TypeOK, Owned
  <2>2. /\ connOf' = [connOf EXCEPT ![oldPlayer[w]] = conn[w]]
        /\ oldConn' = [oldConn EXCEPT ![w] = connOf[oldPlayer[w]]]
        /\ pc' = [pc EXCEPT ![w] = "store"] /\ pc[w] = "kick"
        /\ UNCHANGED <<mapPlayer, mapConnid, mapWxidConnid, wxid, conn, oldPlayer, cameOver>>
    BY <1>3 DEF Kick, Goto
  <2>3. \A o \in Objects : connOf'[o] = IF o = oldPlayer[w] THEN conn[w] ELSE connOf[o]
    BY <1>0, <2>2 DEF RegistryTypeOK
  <2>4. \A v \in Workers :
          /\ pc'[v] = IF v = w THEN "store" ELSE pc[v]
          /\ oldConn'[v] = IF v = w THEN connOf[oldPlayer[w]] ELSE oldConn[v]
    BY <1>0, <2>2 DEF TypeOK
  <2>5. \A x \in Wxids : Registered(x) =>
          connOf'[mapPlayer[x]] \in Conns /\ x \in cameOver[connOf'[mapPlayer[x]]]
    <3> TAKE x \in Wxids
    <3>1. CASE mapPlayer[x] = oldPlayer[w]
      <4>1. x = wxid[w]
        BY <1>0, <2>1, <3>1, NobodyFact DEF ObjectsApart
      <4>2. connOf'[mapPlayer[x]] = conn[w]
        BY <2>1, <2>3, <3>1
      <4> QED
        BY <2>1, <4>1, <4>2
    <3>2. CASE mapPlayer[x] # oldPlayer[w]
      <4>1. Registered(x) => mapPlayer[x] \in Objects
        BY <1>0 DEF RegistryTypeOK, Registered
      <4> QED
        BY <1>0, <2>3, <3>2, <4>1 DEF Owned
    <3> QED
      BY <3>1, <3>2
  <2>6. \A v \in Workers : oldPlayer[v] # Nobody =>
          connOf'[oldPlayer[v]] \in Conns /\ wxid[v] \in cameOver[connOf'[oldPlayer[v]]]
    <3> TAKE v \in Workers
    <3>1. CASE oldPlayer[v] = oldPlayer[w]
      <4>1. wxid[v] = wxid[w]
        BY <1>0, <2>1, <3>1, NobodyFact DEF ObjectsApart
      <4>2. connOf'[oldPlayer[v]] = conn[w]
        BY <2>1, <2>3, <3>1
      <4> QED
        BY <2>1, <4>1, <4>2
    <3>2. CASE oldPlayer[v] # oldPlayer[w]
      <4>1. oldPlayer[v] # Nobody => oldPlayer[v] \in Objects
        BY <1>0 DEF TypeOK
      <4> QED
        BY <1>0, <2>3, <3>2, <4>1 DEF Owned
    <3> QED
      BY <3>1, <3>2
  <2>7. RouteLive' /\ ObjectsApart'
    BY <1>0, <2>2 DEF RouteLive, ObjectsApart, Registered
  <2>8. Owned'
    BY <1>0, <2>1, <2>2, <2>4, <2>5, <2>6 DEF Owned, Registered
  <2>9. QED
    BY <2>7, <2>8
<1>4. ASSUME NEW w \in Workers, StoreOld(w)
      PROVE  RouteLive' /\ Owned' /\ ObjectsApart'
  <2>1. /\ wxid[w] \in Wxids /\ conn[w] \in Conns /\ oldPlayer[w] \in Objects
        /\ wxid[w] \in cameOver[conn[w]]
        /\ oldConn[w] \in Conns /\ wxid[w] \in cameOver[oldConn[w]]
        /\ connOf[oldPlayer[w]] \in Conns /\ wxid[w] \in cameOver[connOf[oldPlayer[w]]]
        /\ connOf' = connOf /\ cameOver' = cameOver
    BY <1>0, <1>4, NobodyFact DEF StoreOld, TypeOK, Owned
  <2>2. /\ RouteLive'
        /\ \A c \in Conns : mapConnid'[c] # Nobody => mapConnid'[c] \in cameOver[c]
        /\ \A y \in Wxids : mapPlayer'[y] = IF y = wxid[w] THEN oldPlayer[w] ELSE mapPlayer[y]
        /\ \A y \in Wxids : mapWxidConnid'[y] = IF y = wxid[w] THEN conn[w] ELSE mapWxidConnid[y]
    BY <1>4, <2>1, StoreRoutes DEF StoreOld
  <2>3. \A v \in Workers :
          /\ oldPlayer'[v] = IF v = w THEN Nobody ELSE oldPlayer[v]
          /\ wxid'[v] = IF v = w THEN Nobody ELSE wxid[v]
          /\ conn'[v] = IF v = w THEN Nobody ELSE conn[v]
          /\ oldConn'[v] = IF v = w THEN Nobody ELSE oldConn[v]
          /\ pc'[v] = IF v = w THEN "idle" ELSE pc[v]
    BY <1>0, <1>4, DoneApart DEF StoreOld
  <2>4. Owned'
    BY <1>0, <2>1, <2>2, <2>3 DEF Owned, Registered
  <2>5. ObjectsApart'
    <3>1. ASSUME NEW x \in Wxids, NEW y \in Wxids, mapPlayer'[x] # Nobody, mapPlayer'[x] = mapPlayer'[y]
          PROVE  x = y
      BY <1>0, <2>1, <2>2, <3>1, NobodyFact DEF ObjectsApart, Registered
    <3>2. ASSUME NEW v \in Workers, oldPlayer'[v] # Nobody, NEW x \in Wxids,
                 mapPlayer'[x] = oldPlayer'[v]
          PROVE  x = wxid'[v]
      BY <1>0, <2>1, <2>2, <2>3, <3>2, NobodyFact DEF ObjectsApart
    <3>3. ASSUME NEW v \in Workers, oldPlayer'[v] # Nobody, NEW u \in Workers,
                 oldPlayer'[u] = oldPlayer'[v]
          PROVE  wxid'[u] = wxid'[v]
      BY <1>0, <2>3, <3>3 DEF ObjectsApart
    <3> QED
      BY <3>1, <3>2, <3>3 DEF ObjectsApart, Registered
  <2>6. QED
    BY <2>2, <2>4, <2>5
<1>5. ASSUME NEW w \in Workers, Lock(w) \/ FindAccount(w)
      PROVE  RouteLive' /\ Owned' /\ ObjectsApart'
  <2>1. /\ pc[w] \in {"lock", "account"} /\ oldPlayer[w] = Nobody
        /\ \E s \in {"account", "new", "unlock"} : pc' = [pc EXCEPT ![w] = s]
        /\ UNCHANGED <<maps, connOf, cameOver, wxid, conn, oldPlayer, oldConn>>
    BY <1>0, <1>5 DEF Lock, FindAccount, Goto, Owned
  <2>2. \A v \in Workers : v # w => pc'[v] = pc[v]
    BY <1>0, <2>1 DEF TypeOK
  <2>3. pc'[w] \in {"account", "new", "unlock"}
    BY <1>0, <2>1 DEF TypeOK
  <2>4. QED
    BY <2>1, <2>2, <2>3, RestKept
<1>6. ASSUME NEW w \in Workers, Unlock(w)
      PROVE  RouteLive' /\ Owned' /\ ObjectsApart'
  <2>1. UNCHANGED <<mapPlayer, mapConnid, mapWxidConnid, connOf, cameOver>>
    BY <1>6 DEF Unlock
  <2>2. \A v \in Workers :
          /\ oldPlayer'[v] = IF v = w THEN Nobody ELSE oldPlayer[v]
          /\ wxid'[v] = IF v = w THEN Nobody ELSE wxid[v]
          /\ conn'[v] = IF v = w THEN Nobody ELSE conn[v]
          /\ oldConn'[v] = IF v = w THEN Nobody ELSE oldConn[v]
          /\ pc'[v] = IF v = w THEN "idle" ELSE pc[v]
    BY <1>0, <1>6, DoneApart DEF Unlock
  <2>3. QED
    BY <1>0, <2>1, <2>2 DEF RouteLive, Owned, ObjectsApart, Registered
<1>7. ASSUME NEW w \in Workers, StoreNew(w)
      PROVE  RouteLive' /\ Owned' /\ ObjectsApart'
  <2>1. /\ wxid[w] \in Wxids /\ conn[w] \in Conns /\ wxid[w] \in cameOver[conn[w]]
        /\ pc[w] = "new" /\ oldPlayer[w] = Nobody
        /\ UNCHANGED <<wxid, conn, oldPlayer, oldConn, cameOver>>
        /\ pc' = [pc EXCEPT ![w] = "unlock"]
    BY <1>0, <1>7 DEF StoreNew, TypeOK, Owned, Goto
  <2>2. PICK o \in Objects :
          /\ Unused(o)
          /\ connOf' = [connOf EXCEPT ![o] = conn[w]]
          /\ StorePlayer(wxid[w], o, conn[w], Nobody)
    BY <1>7 DEF StoreNew
  <2>3. /\ RouteLive'
        /\ \A c \in Conns : mapConnid'[c] # Nobody => mapConnid'[c] \in cameOver[c]
        /\ \A y \in Wxids : mapPlayer'[y] = IF y = wxid[w] THEN o ELSE mapPlayer[y]
        /\ \A y \in Wxids : mapWxidConnid'[y] = IF y = wxid[w] THEN conn[w] ELSE mapWxidConnid[y]
    BY <2>1, <2>2, StoreRoutes
  <2>4. \A p \in Objects : connOf'[p] = IF p = o THEN conn[w] ELSE connOf[p]
    BY <1>0, <2>2 DEF RegistryTypeOK
  <2>5. \A x \in Wxids : mapPlayer'[x] # Nobody =>
          /\ x \in cameOver[mapWxidConnid'[x]]
          /\ connOf'[mapPlayer'[x]] \in Conns /\ x \in cameOver[connOf'[mapPlayer'[x]]]
    BY <1>0, <2>1, <2>2, <2>3, <2>4 DEF Unused, RegistryTypeOK, Owned, Registered
  <2>6. \A v \in Workers : oldPlayer[v] # Nobody => connOf'[oldPlayer[v]] = connOf[oldPlayer[v]]
    BY <1>0, <2>2, <2>4 DEF Unused, TypeOK
  <2>7. \A v \in Workers : pc'[v] = IF v = w THEN "unlock" ELSE pc[v]
    BY <1>0, <2>1 DEF TypeOK
  <2>8. Owned'
    BY <1>0, <2>1, <2>3, <2>5, <2>6, <2>7 DEF Owned, Registered
  <2>9. ObjectsApart'
    <3>1. /\ \A x \in Wxids : mapPlayer[x] # o
          /\ \A v \in Workers : oldPlayer[v] # o
          /\ o # Nobody
      BY <2>2, NobodyFact DEF Unused
    <3> QED
      BY <1>0, <2>1, <2>3, <3>1 DEF ObjectsApart, Registered
  <2>10. QED
    BY <2>3, <2>8, <2>9
<1>8. ASSUME Registry, UNCHANGED <<workerVars, locked, cameOver>>
      PROVE  RouteLive' /\ Owned' /\ ObjectsApart'
  <2>1. CASE Tick
    <3> DEFINE gone == {x \in slots[runingTime] : Expired(x)}
    <3>1. /\ mapConnid' = [c \in Conns |-> IF \E x \in gone : mapWxidConnid[x] = c THEN Nobody ELSE mapConnid[c]]
          /\ mapPlayer' = [x \in Wxids |-> IF x \in gone THEN Nobody ELSE mapPlayer[x]]
          /\ mapWxidConnid' = [x \in Wxids |-> IF x \in gone THEN Nobody ELSE mapWxidConnid[x]]
          /\ UNCHANGED connOf
      BY <2>1 DEF Tick
    <3>2. gone \subseteq Wxids /\ \A x \in gone : Registered(x)
      BY <1>0 DEF RegistryTypeOK, Expired
    <3> HIDE DEF gone
    <3>3. ASSUME NEW y \in Wxids, mapPlayer'[y] # Nobody
          PROVE  \/ mapConnid'[mapWxidConnid'[y]] = y
                 \/ \E z \in cameOver[mapWxidConnid'[y]] : z # y
      <4>1. y \notin gone /\ Registered(y) /\ mapWxidConnid'[y] = mapWxidConnid[y]
        BY <3>1, <3>3 DEF Registered
      <4>2. /\ mapWxidConnid[y] \in Conns
            /\ \/ mapConnid[mapWxidConnid[y]] = y
               \/ \E z \in cameOver[mapWxidConnid[y]] : z # y
        BY <1>0, <4>1 DEF RegistryTypeOK, SlotsInSync, RouteLive
      <4>3. ASSUME NEW x \in gone, mapWxidConnid[x] = mapWxidConnid[y]
            PROVE  x \in cameOver[mapWxidConnid[y]] /\ x # y
        BY <1>0, <3>2, <4>1, <4>3 DEF Owned
      <4>4. QED
        BY <3>1, <4>1, <4>2, <4>3
    <3>4. RouteLive'
      BY <1>8, <3>3 DEF RouteLive, Registered
    <3>5. Owned'
      BY <1>0, <1>8, <3>1 DEF Owned, Registered
    <3>6. ObjectsApart'
      BY <1>0, <1>8, <3>1 DEF ObjectsApart, Registered
    <3>7. QED
      BY <3>4, <3>5, <3>6
  <2>2. ASSUME NEW c \in Conns, Ping(c)
        PROVE  RouteLive' /\ Owned' /\ ObjectsApart'
    BY <1>0, <1>8, <2>2 DEF Ping, RouteLive, Owned, ObjectsApart, Registered
  <2>3. QED
    BY <1>8, <2>1, <2>2 DEF Registry
<1>9. ASSUME NEW x \in Wxids, LockExpires(x)
      PROVE  RouteLive' /\ Owned' /\ ObjectsApart'
  BY <1>0, <1>9 DEF LockExpires, RouteLive, Owned, ObjectsApart, Registered
<1>10. CASE UNCHANGED vars
  BY <1>0, <1>10 DEF vars, RouteLive, Owned, ObjectsApart, Registered
<1>11. QED
  BY <1>1, <1>2, <1>3, <1>4, <1>5, <1>6, <1>7, <1>8, <1>9, <1>10 DEF Next, Serve

\* At the start nobody is registered and no worker has anything to do.
LEMMA InitOK == Init => IInv
BY RegistryAssumption, LoginAssumption DEF Init, RegistryInit, IInv, TypeOK, RegistryTypeOK, SlotsInSync, Registered, RouteLive, Owned,
   ObjectsApart, Slots, Steps

\* The variables of the lobby have their types in every reachable state.
THEOREM TypeCorrect == Spec => []TypeOK
<1>1. Init => TypeOK /\ SlotsInSync
  BY InitOK DEF IInv
<1>2. TypeOK /\ SlotsInSync /\ [Next]_vars => (TypeOK /\ SlotsInSync)'
  BY TypeStep
<1>3. QED
  BY <1>1, <1>2, PTL DEF Spec

\* The wheel holds every registered user in exactly the slot the indicator names,
\* and nobody else, for any number of users and workers and any wheel.
THEOREM WheelInSync == Spec => []SlotsInSync
<1>1. Init => TypeOK /\ SlotsInSync
  BY InitOK DEF IInv
<1>2. TypeOK /\ SlotsInSync /\ [Next]_vars => (TypeOK /\ SlotsInSync)'
  BY TypeStep
<1>3. QED
  BY <1>1, <1>2, PTL DEF Spec

\* A registered user is reached over the connection on record, for any number of
\* workers that rebind objects at once, unless another user has logged in over that
\* connection (login.go, login; baseServer.go, StorePlayer and timer).
THEOREM RoutesLive == Spec => []RouteLive
<1>1. Init => IInv
  BY InitOK
<1>2. IInv /\ [Next]_vars => IInv'
  BY TypeStep, RouteStep DEF IInv
<1>3. IInv => RouteLive
  BY DEF IInv
<1>4. QED
  BY <1>1, <1>2, <1>3, PTL DEF Spec
=============================================================================
