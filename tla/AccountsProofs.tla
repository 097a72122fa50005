---------------------------- MODULE AccountsProofs ----------------------------
(***************************************************************************)
(* What holds of the accounts that logins find or make, for any number of  *)
(* users, workers, numbers and faults: the types, that a uid is one user's *)
(* and the one in mysql, and that the next login finds the account.        *)
(***************************************************************************)
EXTENDS Accounts, TLAPS

\* A worker that holds a number it has drawn as the uid of an account it makes.
Drew(w) == pc[w] \in {"drawCode", "create", "saveInfo", "saveUid"}

\* A worker that has sent the commit of an account.
Created(w) == pc[w] \in {"saveInfo", "saveUid"}

\* What a worker holds at each of its calls.
WorkerTypes ==
  /\ \A w \in Workers : pc[w] # "idle" => wxid[w] \in Wxids
  /\ \A w \in Workers : Drew(w) \/ pc[w] = "load" => uid[w] \in Ids
  /\ \A w \in Workers : pc[w] = "create" => inviteCode[w] \in Ids

\* No two workers of one process draw the same number. The set is only filled
\* again at a start, when no worker holds any.
DrawnOnce ==
  /\ \A w \in Workers : Drew(w) => uid[w] \notin id
  /\ \A v, w \in Workers : v # w /\ Drew(v) /\ Drew(w) => uid[v] # uid[w]

\* No two users have one uid in mysql, nor will a worker that has created an account
\* write one to redis under a uid that another user has.
OneUserPerUid ==
  /\ \A x \in Wxids : baseInfo[x] # None => baseInfo[x] \in uidInUse
  /\ \A x, y \in Wxids : baseInfo[x] = baseInfo[y] /\ baseInfo[x] # None => x = y
  /\ \A w \in Workers : \A y \in Wxids : Created(w) /\ baseInfo[y] = uid[w] => y = wxid[w]

\* Without a fault, a uid that a worker, a player object or redis has for a user is
\* the one in mysql.
HeldIsStored ==
  /\ \A w \in Workers : (Created(w) \/ pc[w] = "load") /\ wxid[w] \notin apart
                          => uid[w] = baseInfo[wxid[w]]
  /\ \A x \in Wxids \ apart : playerUid[x] \subseteq {baseInfo[x]}
  /\ \A x \in Wxids \ apart : redisUid[x] # None => redisUid[x] = baseInfo[x]

\* Without a fault, redis has the account under every uid it gives, or is about to give.
FoundAgain ==
  /\ \A x \in Wxids \ (apart \cup Half) : redisUid[x] = baseInfo[x]
  /\ \A x \in Wxids \ apart : redisUid[x] # None => redisInfo[redisUid[x]] = x
  /\ \A w \in Workers : pc[w] = "saveUid" /\ wxid[w] \notin apart => redisInfo[uid[w]] = wxid[w]

IInv == TypeOK /\ WorkerTypes /\ DrawnOnce /\ OneUserPerUid /\ HeldIsStored /\ FoundAgain

\* Every step of the accounts keeps their types.
LEMMA TypeStep ==
  ASSUME TypeOK, WorkerTypes, [Next]_vars
  PROVE  TypeOK'
<1> USE AccountsAssumption DEF dbVars, redisVars, workerVars,
            TypeOK, WorkerTypes, Drew, Steps
<1>1. ASSUME NEW w \in Workers, Lock(w) PROVE TypeOK'
  BY <1>1 DEF Lock, Goto
<1>2. ASSUME NEW w \in Workers, GetUidByWxid(w) PROVE TypeOK'
  BY <1>2 DEF GetUidByWxid, Goto
<1>3. ASSUME NEW w \in Workers, LoadPlayerBaseInfo(w) PROVE TypeOK'
  BY <1>3 DEF LoadPlayerBaseInfo, MakePlayer, Goto
<1>4. ASSUME NEW w \in Workers, DrawUid(w) PROVE TypeOK'
  BY <1>4 DEF DrawUid, Get, Goto
<1>5. ASSUME NEW w \in Workers, DrawInviteCode(w) PROVE TypeOK'
  BY <1>5 DEF DrawInviteCode, Get, Goto
<1>6. ASSUME NEW w \in Workers, CreateAccount(w) PROVE TypeOK'
  BY <1>6 DEF CreateAccount, Insertable, Fault, Goto
<1>7. ASSUME NEW w \in Workers, SavePlayerBaseInfo(w) PROVE TypeOK'
  BY <1>7 DEF SavePlayerBaseInfo, WriteLost, Fault, Goto
<1>8. ASSUME NEW w \in Workers, SaveWxidAndUid(w) PROVE TypeOK'
  BY <1>8 DEF SaveWxidAndUid, WriteLost, Fault, MakePlayer, Goto
<1>9. ASSUME NEW w \in Workers, Unlock(w) PROVE TypeOK'
  BY <1>9 DEF Unlock, Goto
<1>10. ASSUME NEW w \in Workers, NEW x \in Wxids, Begin(w, x) PROVE TypeOK'
  BY <1>10 DEF Begin, Goto
<1>11. ASSUME NEW x \in Wxids, LockExpires(x) PROVE TypeOK'
  BY <1>11 DEF LockExpires
<1>12. ASSUME Restart PROVE TypeOK'
  BY <1>12 DEF Restart, Fault, Half
<1>13. ASSUME UNCHANGED vars PROVE TypeOK'
  BY <1>13 DEF vars
<1>14. QED
  BY <1>1, <1>2, <1>3, <1>4, <1>5, <1>6, <1>7, <1>8, <1>9, <1>10, <1>11, <1>12, <1>13
     DEF Next, Serve

\* What the workers hold stays what their calls need.
LEMMA WorkerStep ==
  ASSUME TypeOK, WorkerTypes, [Next]_vars
  PROVE  WorkerTypes'
<1> USE AccountsAssumption DEF dbVars, redisVars, workerVars,
            TypeOK, WorkerTypes, Drew
<1>1. ASSUME NEW w \in Workers, Lock(w) PROVE WorkerTypes'
  BY <1>1 DEF Lock, Goto
<1>2. ASSUME NEW w \in Workers, GetUidByWxid(w) PROVE WorkerTypes'
  BY <1>2 DEF GetUidByWxid, Goto
<1>3. ASSUME NEW w \in Workers, LoadPlayerBaseInfo(w) PROVE WorkerTypes'
  BY <1>3 DEF LoadPlayerBaseInfo, MakePlayer, Goto
<1>4. ASSUME NEW w \in Workers, DrawUid(w) PROVE WorkerTypes'
  BY <1>4 DEF DrawUid, Get, Goto
<1>5. ASSUME NEW w \in Workers, DrawInviteCode(w) PROVE WorkerTypes'
  BY <1>5 DEF DrawInviteCode, Get, Goto
<1>6. ASSUME NEW w \in Workers, CreateAccount(w) PROVE WorkerTypes'
  BY <1>6 DEF CreateAccount, Insertable, Fault, Goto
<1>7. ASSUME NEW w \in Workers, SavePlayerBaseInfo(w) PROVE WorkerTypes'
  BY <1>7 DEF SavePlayerBaseInfo, WriteLost, Fault, Goto
<1>8. ASSUME NEW w \in Workers, SaveWxidAndUid(w) PROVE WorkerTypes'
  BY <1>8 DEF SaveWxidAndUid, WriteLost, Fault, MakePlayer, Goto
<1>9. ASSUME NEW w \in Workers, Unlock(w) PROVE WorkerTypes'
  BY <1>9 DEF Unlock, Goto
<1>10. ASSUME NEW w \in Workers, NEW x \in Wxids, Begin(w, x) PROVE WorkerTypes'
  BY <1>10 DEF Begin, Goto
<1>11. ASSUME NEW x \in Wxids, LockExpires(x) PROVE WorkerTypes'
  BY <1>11 DEF LockExpires
<1>12. ASSUME Restart PROVE WorkerTypes'
  BY <1>12 DEF Restart, Fault, Half
<1>13. ASSUME UNCHANGED vars PROVE WorkerTypes'
  BY <1>13 DEF vars
<1>14. QED
  BY <1>1, <1>2, <1>3, <1>4, <1>5, <1>6, <1>7, <1>8, <1>9, <1>10, <1>11, <1>12, <1>13
     DEF Next, Serve

\* Numbers are drawn one by one: only a start fills the set, and then nobody holds one.
LEMMA DrawnStep ==
  ASSUME TypeOK, WorkerTypes, DrawnOnce, [Next]_vars
  PROVE  DrawnOnce'
<1> USE AccountsAssumption DEF dbVars, redisVars, workerVars,
            TypeOK, WorkerTypes, DrawnOnce, Drew
<1>1. ASSUME NEW w \in Workers, Lock(w) PROVE DrawnOnce'
  BY <1>1 DEF Lock, Goto
<1>2. ASSUME NEW w \in Workers, GetUidByWxid(w) PROVE DrawnOnce'
  BY <1>2 DEF GetUidByWxid, Goto
<1>3. ASSUME NEW w \in Workers, LoadPlayerBaseInfo(w) PROVE DrawnOnce'
  BY <1>3 DEF LoadPlayerBaseInfo, MakePlayer, Goto
<1>4. ASSUME NEW w \in Workers, DrawUid(w) PROVE DrawnOnce'
  BY <1>4 DEF DrawUid, Get, Goto
<1>5. ASSUME NEW w \in Workers, DrawInviteCode(w) PROVE DrawnOnce'
  BY <1>5 DEF DrawInviteCode, Get, Goto
<1>6. ASSUME NEW w \in Workers, CreateAccount(w) PROVE DrawnOnce'
  BY <1>6 DEF CreateAccount, Insertable, Fault, Goto
<1>7. ASSUME NEW w \in Workers, SavePlayerBaseInfo(w) PROVE DrawnOnce'
  BY <1>7 DEF SavePlayerBaseInfo, WriteLost, Fault, Goto
<1>8. ASSUME NEW w \in Workers, SaveWxidAndUid(w) PROVE DrawnOnce'
  BY <1>8 DEF SaveWxidAndUid, WriteLost, Fault, MakePlayer, Goto
<1>9. ASSUME NEW w \in Workers, Unlock(w) PROVE DrawnOnce'
  BY <1>9 DEF Unlock, Goto
<1>10. ASSUME NEW w \in Workers, NEW x \in Wxids, Begin(w, x) PROVE DrawnOnce'
  BY <1>10 DEF Begin, Goto
<1>11. ASSUME NEW x \in Wxids, LockExpires(x) PROVE DrawnOnce'
  BY <1>11 DEF LockExpires
<1>12. ASSUME Restart PROVE DrawnOnce'
  BY <1>12 DEF Restart, Fault, Half
<1>13. ASSUME UNCHANGED vars PROVE DrawnOnce'
  BY <1>13 DEF vars
<1>14. QED
  BY <1>1, <1>2, <1>3, <1>4, <1>5, <1>6, <1>7, <1>8, <1>9, <1>10, <1>11, <1>12, <1>13
     DEF Next, Serve

\* The transaction refuses a uid in use, and whoever else creates has another number.
LEMMA UidStep ==
  ASSUME TypeOK, WorkerTypes, DrawnOnce, OneUserPerUid, [Next]_vars
  PROVE  OneUserPerUid'
<1> USE AccountsAssumption DEF dbVars, redisVars, workerVars,
            TypeOK, WorkerTypes, DrawnOnce, OneUserPerUid, Drew, Created
<1>1. ASSUME NEW w \in Workers, Lock(w) PROVE OneUserPerUid'
  BY <1>1 DEF Lock, Goto
<1>2. ASSUME NEW w \in Workers, GetUidByWxid(w) PROVE OneUserPerUid'
  BY <1>2 DEF GetUidByWxid, Goto
<1>3. ASSUME NEW w \in Workers, LoadPlayerBaseInfo(w) PROVE OneUserPerUid'
  BY <1>3 DEF LoadPlayerBaseInfo, MakePlayer, Goto
<1>4. ASSUME NEW w \in Workers, DrawUid(w) PROVE OneUserPerUid'
  BY <1>4 DEF DrawUid, Get, Goto
<1>5. ASSUME NEW w \in Workers, DrawInviteCode(w) PROVE OneUserPerUid'
  BY <1>5 DEF DrawInviteCode, Get, Goto
<1>6. ASSUME NEW w \in Workers, CreateAccount(w) PROVE OneUserPerUid'
  BY <1>6 DEF CreateAccount, Insertable, Fault, Goto
<1>7. ASSUME NEW w \in Workers, SavePlayerBaseInfo(w) PROVE OneUserPerUid'
  BY <1>7 DEF SavePlayerBaseInfo, WriteLost, Fault, Goto
<1>8. ASSUME NEW w \in Workers, SaveWxidAndUid(w) PROVE OneUserPerUid'
  BY <1>8 DEF SaveWxidAndUid, WriteLost, Fault, MakePlayer, Goto
<1>9. ASSUME NEW w \in Workers, Unlock(w) PROVE OneUserPerUid'
  BY <1>9 DEF Unlock, Goto
<1>10. ASSUME NEW w \in Workers, NEW x \in Wxids, Begin(w, x) PROVE OneUserPerUid'
  BY <1>10 DEF Begin, Goto
<1>11. ASSUME NEW x \in Wxids, LockExpires(x) PROVE OneUserPerUid'
  BY <1>11 DEF LockExpires
<1>12. ASSUME Restart PROVE OneUserPerUid'
  BY <1>12 DEF Restart, Fault, Half
<1>13. ASSUME UNCHANGED vars PROVE OneUserPerUid'
  BY <1>13 DEF vars
<1>14. QED
  BY <1>1, <1>2, <1>3, <1>4, <1>5, <1>6, <1>7, <1>8, <1>9, <1>10, <1>11, <1>12, <1>13
     DEF Next, Serve

\* Only an account that is not in mysql yet is created, so nothing held for the user
\* is out of date afterwards.
LEMMA HeldStep ==
  ASSUME TypeOK, WorkerTypes, DrawnOnce, OneUserPerUid, HeldIsStored, [Next]_vars
  PROVE  HeldIsStored'
<1> USE AccountsAssumption DEF dbVars, redisVars, workerVars,
            TypeOK, WorkerTypes, HeldIsStored, Drew, Created
<1>1. ASSUME NEW w \in Workers, Lock(w) PROVE HeldIsStored'
  BY <1>1 DEF Lock, Goto
<1>2. ASSUME NEW w \in Workers, GetUidByWxid(w) PROVE HeldIsStored'
  BY <1>2 DEF GetUidByWxid, Goto
<1>3. ASSUME NEW w \in Workers, LoadPlayerBaseInfo(w) PROVE HeldIsStored'
  BY <1>3 DEF LoadPlayerBaseInfo, MakePlayer, Goto
<1>4. ASSUME NEW w \in Workers, DrawUid(w) PROVE HeldIsStored'
  BY <1>4 DEF DrawUid, Get, Goto
<1>5. ASSUME NEW w \in Workers, DrawInviteCode(w) PROVE HeldIsStored'
  BY <1>5 DEF DrawInviteCode, Get, Goto
<1>6. ASSUME NEW w \in Workers, CreateAccount(w) PROVE HeldIsStored'
  BY <1>6 DEF CreateAccount, Insertable, Fault, Goto
<1>7. ASSUME NEW w \in Workers, SavePlayerBaseInfo(w) PROVE HeldIsStored'
  BY <1>7 DEF SavePlayerBaseInfo, WriteLost, Fault, Goto
<1>8. ASSUME NEW w \in Workers, SaveWxidAndUid(w) PROVE HeldIsStored'
  BY <1>8 DEF SaveWxidAndUid, WriteLost, Fault, MakePlayer, Goto
<1>9. ASSUME NEW w \in Workers, Unlock(w) PROVE HeldIsStored'
  BY <1>9 DEF Unlock, Goto
<1>10. ASSUME NEW w \in Workers, NEW x \in Wxids, Begin(w, x) PROVE HeldIsStored'
  BY <1>10 DEF Begin, Goto
<1>11. ASSUME NEW x \in Wxids, LockExpires(x) PROVE HeldIsStored'
  BY <1>11 DEF LockExpires
<1>12. ASSUME Restart PROVE HeldIsStored'
  BY <1>12 DEF Restart, Fault, Half
<1>13. ASSUME UNCHANGED vars PROVE HeldIsStored'
  BY <1>13 DEF vars
<1>14. QED
  BY <1>1, <1>2, <1>3, <1>4, <1>5, <1>6, <1>7, <1>8, <1>9, <1>10, <1>11, <1>12, <1>13
     DEF Next, Serve

\* Redis gets the account before it gets the uid, and under no uid of another user.
LEMMA FoundStep ==
  ASSUME TypeOK, WorkerTypes, DrawnOnce, OneUserPerUid, HeldIsStored, FoundAgain, [Next]_vars
  PROVE  FoundAgain'
<1> USE AccountsAssumption DEF dbVars, redisVars, workerVars,
            TypeOK, WorkerTypes, DrawnOnce, OneUserPerUid, HeldIsStored,
            FoundAgain, Drew, Created, Half
<1>1. ASSUME NEW w \in Workers, Lock(w) PROVE FoundAgain'
  BY <1>1 DEF Lock, Goto
<1>2. ASSUME NEW w \in Workers, GetUidByWxid(w) PROVE FoundAgain'
  BY <1>2 DEF GetUidByWxid, Goto
<1>3. ASSUME NEW w \in Workers, LoadPlayerBaseInfo(w) PROVE FoundAgain'
  BY <1>3 DEF LoadPlayerBaseInfo, MakePlayer, Goto
<1>4. ASSUME NEW w \in Workers, DrawUid(w) PROVE FoundAgain'
  BY <1>4 DEF DrawUid, Get, Goto
<1>5. ASSUME NEW w \in Workers, DrawInviteCode(w) PROVE FoundAgain'
  BY <1>5 DEF DrawInviteCode, Get, Goto
<1>6. ASSUME NEW w \in Workers, CreateAccount(w) PROVE FoundAgain'
  BY <1>6 DEF CreateAccount, Insertable, Fault, Goto
<1>7. ASSUME NEW w \in Workers, SavePlayerBaseInfo(w) PROVE FoundAgain'
  BY <1>7 DEF SavePlayerBaseInfo, WriteLost, Fault, Goto
<1>8. ASSUME NEW w \in Workers, SaveWxidAndUid(w) PROVE FoundAgain'
  BY <1>8 DEF SaveWxidAndUid, WriteLost, Fault, MakePlayer, Goto
<1>9. ASSUME NEW w \in Workers, Unlock(w) PROVE FoundAgain'
  BY <1>9 DEF Unlock, Goto
<1>10. ASSUME NEW w \in Workers, NEW x \in Wxids, Begin(w, x) PROVE FoundAgain'
  BY <1>10 DEF Begin, Goto
<1>11. ASSUME NEW x \in Wxids, LockExpires(x) PROVE FoundAgain'
  BY <1>11 DEF LockExpires
<1>12. ASSUME Restart PROVE FoundAgain'
  BY <1>12 DEF Restart, Fault, Half
<1>13. ASSUME UNCHANGED vars PROVE FoundAgain'
  BY <1>13 DEF vars
<1>14. QED
  BY <1>1, <1>2, <1>3, <1>4, <1>5, <1>6, <1>7, <1>8, <1>9, <1>10, <1>11, <1>12, <1>13
     DEF Next, Serve

LEMMA InitOK == Init => IInv
BY AccountsAssumption DEF Init, IInv, TypeOK, WorkerTypes, DrawnOnce, OneUserPerUid,
       HeldIsStored, FoundAgain, Drew, Created, Half, Steps

LEMMA Step == IInv /\ [Next]_vars => IInv'
BY TypeStep, WorkerStep, DrawnStep, UidStep, HeldStep, FoundStep DEF IInv

\* The variables of the accounts have their types in every reachable state.
THEOREM TypeCorrect == Spec => []TypeOK
<1>1. Init => IInv
  BY InitOK
<1>2. IInv /\ [Next]_vars => IInv'
  BY Step
<1>3. IInv => TypeOK
  BY DEF IInv
<1>4. QED
  BY <1>1, <1>2, <1>3, PTL DEF Spec

\* Every player object has the uid of its user's account, and no uid is handed to two
\* users: for any number of workers, of users and of numbers, though the lock lets two
\* workers create one account and a set filled again holds numbers in use.
THEOREM OneUid == Spec => []OneUidEach
<1>1. Init => IInv
  BY InitOK
<1>2. IInv /\ [Next]_vars => IInv'
  BY Step
<1>3. IInv => OneUidEach
  BY AccountsAssumption DEF IInv, OneUidEach, TypeOK, OneUserPerUid, HeldIsStored
<1>4. QED
  BY <1>1, <1>2, <1>3, PTL DEF Spec

\* The next login finds the account under the uid that mysql has, for every user not hit
\* by a fault in the middle of the creation.
THEOREM AccountIsFound == Spec => []AccountFound
<1>1. Init => IInv
  BY InitOK
<1>2. IInv /\ [Next]_vars => IInv'
  BY Step
<1>3. IInv => AccountFound
  BY DEF IInv, AccountFound, FoundAgain
<1>4. QED
  BY <1>1, <1>2, <1>3, PTL DEF Spec
=============================================================================
