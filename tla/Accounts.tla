------------------------------- MODULE Accounts -------------------------------
(***************************************************************************)
(* How a login finds the account of a user or creates it (lobby-server/    *)
(* login, digitalId): LobbyLogin's steps "lock", "account" and "unlock" in *)
(* detail, with the copies of an account in mysql and in redis. Numbers    *)
(* are drawn from a set in redis that the lobby fills at its start, the    *)
(* account is a transaction, and redis is written after it. Workers        *)
(* interleave between any two calls, and the lobby may crash between them. *)
(***************************************************************************)
EXTENDS FiniteSets, Naturals

CONSTANTS
  Wxids,       \* users
  Ids,         \* the numbers for uids and invite codes; 100000 .. 999999
  Workers,     \* goroutines that serve logins; 10
  None,        \* no user, no number
  MaxFaults    \* bound on crashes, lost commits and lost writes

ASSUME AccountsAssumption == None \notin Wxids \cup Ids /\ MaxFaults \in Nat

VARIABLES
  id,                           \* redis: the set of numbers to draw from
  uidInUse, inviteCodeInUse,    \* mysql: unique columns
  baseInfo,                     \* mysql: of each user the uid in player_base_info; wxid is unique
  redisInfo,                    \* redis: of each uid the wxid in the hash of the account
  redisUid,                     \* redis: of each wxid the uid
  locked,                       \* redis: users whose login lock is set
  pc, wxid, uid, inviteCode,    \* of each worker
  playerUid,                    \* of each user: the uids of the player objects made
  apart,                        \* history: users hit by a fault in the middle of a creation
  faults

dbVars == <<uidInUse, inviteCodeInUse, baseInfo>>
redisVars == <<id, redisInfo, redisUid, locked>>
workerVars == <<pc, wxid, uid, inviteCode>>
vars == <<dbVars, redisVars, workerVars, playerUid, apart, faults>>

Steps == {"idle", "lock", "getUid", "load", "drawUid", "drawCode", "create", "saveInfo", "saveUid", "unlock"}

TypeOK ==
  /\ id \subseteq Ids /\ uidInUse \subseteq Ids /\ inviteCodeInUse \subseteq Ids
  /\ baseInfo \in [Wxids -> Ids \cup {None}]
  /\ redisInfo \in [Ids -> Wxids \cup {None}] /\ redisUid \in [Wxids -> Ids \cup {None}]
  /\ locked \subseteq Wxids
  /\ pc \in [Workers -> Steps] /\ wxid \in [Workers -> Wxids \cup {None}]
  /\ uid \in [Workers -> Ids \cup {None}] /\ inviteCode \in [Workers -> Ids \cup {None}]
  /\ playerUid \in [Wxids -> SUBSET Ids]
  /\ apart \subseteq Wxids /\ faults \in 0 .. MaxFaults

\* The lobby has just started: digitalId.Gen has filled the set.
Init ==
  /\ id = Ids /\ uidInUse = {} /\ inviteCodeInUse = {}
  /\ baseInfo = [x \in Wxids |-> None]
  /\ redisInfo = [i \in Ids |-> None] /\ redisUid = [x \in Wxids |-> None]
  /\ locked = {}
  /\ pc = [w \in Workers |-> "idle"] /\ wxid = [w \in Workers |-> None]
  /\ uid = [w \in Workers |-> None] /\ inviteCode = [w \in Workers |-> None]
  /\ playerUid = [x \in Wxids |-> {}]
  /\ apart = {} /\ faults = 0

-----------------------------------------------------------------------------
(* The calls of one login.                                                  *)

Goto(w, step) == pc' = [pc EXCEPT ![w] = step]

\* A login of a user who has no player object.
Begin(w, x) ==
  /\ pc[w] = "idle"
  /\ Goto(w, "lock") /\ wxid' = [wxid EXCEPT ![w] = x]
  /\ UNCHANGED <<dbVars, redisVars, uid, inviteCode, playerUid, apart, faults>>

\* SetExNx: taken, refused or failed.
Lock(w) ==
  /\ pc[w] = "lock"
  /\ \/ wxid[w] \notin locked /\ locked' = locked \cup {wxid[w]} /\ Goto(w, "getUid")
     \/ Goto(w, "unlock") /\ UNCHANGED locked
  /\ UNCHANGED <<dbVars, id, redisInfo, redisUid, wxid, uid, inviteCode, playerUid, apart, faults>>

\* GetUidByWxid: a uid, none, or an error.
GetUidByWxid(w) ==
  /\ pc[w] = "getUid"
  /\ \/ /\ uid' = [uid EXCEPT ![w] = redisUid[wxid[w]]]
        /\ Goto(w, IF redisUid[wxid[w]] = None THEN "drawUid" ELSE "load")
     \/ Goto(w, "unlock") /\ UNCHANGED uid
  /\ UNCHANGED <<dbVars, redisVars, wxid, inviteCode, playerUid, apart, faults>>

MakePlayer(w) == playerUid' = [playerUid EXCEPT ![wxid[w]] = @ \cup {uid[w]}]

\* LoadPlayerBaseInfo fails without an account under that uid, or with redis.
LoadPlayerBaseInfo(w) ==
  /\ pc[w] = "load"
  /\ \/ redisInfo[uid[w]] # None /\ MakePlayer(w)
     \/ UNCHANGED playerUid
  /\ Goto(w, "unlock")
  /\ UNCHANGED <<dbVars, redisVars, wxid, uid, inviteCode, apart, faults>>

\* digitalId.Get takes some number out of the set; there may be none left.
Get(w, i) == i \in id /\ id' = id \ {i}

DrawUid(w) ==
  /\ pc[w] = "drawUid"
  /\ \/ \E i \in Ids : Get(w, i) /\ uid' = [uid EXCEPT ![w] = i] /\ Goto(w, "drawCode")
     \/ Goto(w, "unlock") /\ UNCHANGED <<id, uid>>
  /\ UNCHANGED <<dbVars, redisInfo, redisUid, locked, wxid, inviteCode, playerUid, apart, faults>>

DrawInviteCode(w) ==
  /\ pc[w] = "drawCode"
  /\ \/ \E i \in Ids : Get(w, i) /\ inviteCode' = [inviteCode EXCEPT ![w] = i] /\ Goto(w, "create")
     \/ Goto(w, "unlock") /\ UNCHANGED <<id, inviteCode>>
  /\ UNCHANGED <<dbVars, redisInfo, redisUid, locked, wxid, uid, playerUid, apart, faults>>

\* Mutant of Insertable: the uid is not entered in uid_in_use.
Insertable_AnyUid(w) ==
  /\ inviteCode[w] \notin inviteCodeInUse
  /\ baseInfo[wxid[w]] = None

\* Mutant of Insertable: the user may have an account.
Insertable_AnyWxid(w) ==
  /\ uid[w] \notin uidInUse
  /\ inviteCode[w] \notin inviteCodeInUse

\* The three inserts of the transaction meet no duplicate.
Insertable(w) ==
  /\ uid[w] \notin uidInUse
  /\ inviteCode[w] \notin inviteCodeInUse
  /\ baseInfo[wxid[w]] = None

Fault == faults < MaxFaults /\ faults' = faults + 1

\* The transaction: an insert fails; or all succeed, which sets b, and then the
\* commit succeeds or fails, which nobody looks at.
CreateAccount(w) ==
  /\ pc[w] = "create"
  /\ \/ Goto(w, "unlock") /\ UNCHANGED <<dbVars, apart, faults>>
     \/ /\ Insertable(w)
        /\ uidInUse' = uidInUse \cup {uid[w]}
        /\ inviteCodeInUse' = inviteCodeInUse \cup {inviteCode[w]}
        /\ baseInfo' = [baseInfo EXCEPT ![wxid[w]] = uid[w]]
        /\ Goto(w, "saveInfo")
        /\ UNCHANGED <<apart, faults>>
     \/ /\ Insertable(w) /\ Fault
        /\ apart' = apart \cup {wxid[w]}
        /\ Goto(w, "saveInfo")
        /\ UNCHANGED dbVars
  /\ UNCHANGED <<redisVars, wxid, uid, inviteCode, playerUid>>

\* A write to redis whose error is dropped.
WriteLost(w) == Fault /\ apart' = apart \cup {wxid[w]}

SavePlayerBaseInfo(w) ==
  /\ pc[w] = "saveInfo"
  /\ \/ redisInfo' = [redisInfo EXCEPT ![uid[w]] = wxid[w]] /\ UNCHANGED <<apart, faults>>
     \/ WriteLost(w) /\ UNCHANGED redisInfo
  /\ Goto(w, "saveUid")
  /\ UNCHANGED <<dbVars, id, redisUid, locked, wxid, uid, inviteCode, playerUid>>

\* SaveWxidAndUid, and the player object that follows whatever redis says.
SaveWxidAndUid(w) ==
  /\ pc[w] = "saveUid"
  /\ \/ redisUid' = [redisUid EXCEPT ![wxid[w]] = uid[w]] /\ UNCHANGED <<apart, faults>>
     \/ WriteLost(w) /\ UNCHANGED redisUid
  /\ MakePlayer(w)
  /\ Goto(w, "unlock")
  /\ UNCHANGED <<dbVars, id, redisInfo, locked, wxid, uid, inviteCode>>

\* The deferred Del, on every way out, also of a worker that did not get the lock.
Unlock(w) ==
  /\ pc[w] = "unlock"
  /\ locked' = locked \ {wxid[w]}
  /\ Goto(w, "idle")
  /\ wxid' = [wxid EXCEPT ![w] = None]
  /\ uid' = [uid EXCEPT ![w] = None] /\ inviteCode' = [inviteCode EXCEPT ![w] = None]
  /\ UNCHANGED <<dbVars, id, redisInfo, redisUid, playerUid, apart, faults>>

\* The lock was set for ten seconds.
LockExpires(x) ==
  /\ x \in locked
  /\ locked' = locked \ {x}
  /\ UNCHANGED <<dbVars, id, redisInfo, redisUid, workerVars, playerUid, apart, faults>>

\* Users whose account is in mysql and not yet in redis under their name.
Half == {wxid[w] : w \in {v \in Workers : pc[v] \in {"saveInfo", "saveUid"}}}

\* The lobby ends and starts again: digitalId.Gen fills the set if it is empty, with
\* all the numbers, those in use as well.
Restart ==
  /\ Fault
  /\ pc' = [w \in Workers |-> "idle"] /\ wxid' = [w \in Workers |-> None]
  /\ uid' = [w \in Workers |-> None] /\ inviteCode' = [w \in Workers |-> None]
  /\ playerUid' = [x \in Wxids |-> {}]
  /\ apart' = apart \cup Half
  /\ id' = IF id = {} THEN Ids ELSE id
  /\ UNCHANGED <<dbVars, redisInfo, redisUid, locked>>

Serve(w) ==
  \/ Lock(w) \/ GetUidByWxid(w) \/ LoadPlayerBaseInfo(w)
  \/ DrawUid(w) \/ DrawInviteCode(w) \/ CreateAccount(w)
  \/ SavePlayerBaseInfo(w) \/ SaveWxidAndUid(w) \/ Unlock(w)

Next ==
  \/ \E w \in Workers : Serve(w) \/ \E x \in Wxids : Begin(w, x)
  \/ \E x \in Wxids : LockExpires(x)
  \/ Restart

Spec == Init /\ [][Next]_vars
-----------------------------------------------------------------------------
(* Properties.                                                              *)

\* Whoever logs in plays as the user the database knows: every player object has the
\* uid of its user's account, though the lock lets two workers create it at a time,
\* and no uid is handed to two users, though a set filled again holds numbers in use.
\* Only users hit by a fault in the middle of their creation are excepted.
OneUidEach ==
  /\ \A x \in Wxids \ apart : playerUid[x] \subseteq {baseInfo[x]}
  /\ \A x, y \in Wxids \ apart : x # y => playerUid[x] \cap playerUid[y] = {}

\* An account is found again at the next login: mysql and redis have the same uid of
\* every user but those whose creation is under way or was hit by a fault, and under
\* that uid redis has the account of that user.
AccountFound ==
  \A x \in Wxids \ (apart \cup Half) :
    /\ redisUid[x] = baseInfo[x]
    /\ redisUid[x] # None => redisInfo[redisUid[x]] = x
=============================================================================
