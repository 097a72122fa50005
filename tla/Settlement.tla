------------------------------ MODULE Settlement ------------------------------
(***************************************************************************)
(* The gold of the users over the settlements of all rooms: calcWinOrLose  *)
(* and updatePlayerGold in settlement.go, call by call. Gold is stored     *)
(* twice, in redis (read by every settlement) and in mysql (written only); *)
(* a settlement reads redis twice, user by user, commits one transaction   *)
(* and then writes redis user by user. Each room settles in a goroutine of *)
(* its own and takes no lock on an account; a user may sit in two rooms.   *)
(* Each call may fail, and the process may die between any two. NiuniuRoom *)
(* says when a room settles; here the rounds of a room follow one another  *)
(* with any players, any banker and any hands.                             *)
(***************************************************************************)
EXTENDS Integers, FiniteSets, FiniteSetsExt

CONSTANTS
  Uids,        \* the users
  Rooms,       \* the rooms of the process
  Nobody,      \* the banker id while nothing is settled
  Stakes,      \* baseScore * robZhuangRate * betRate * cardTypeRate, below 2^31
  InitGold,    \* what an account may hold at the start, debts of earlier rounds included
  Precision,   \* a float32 result is off by at most 1 part in Precision; 2^21
  MaxFaults,   \* bound: crashes, failed commits and failed redis writes
  MaxRounds    \* bound: settlements

ASSUME SettlementAssumption ==
  /\ IsFiniteSet(Uids) /\ Nobody \notin Uids
  /\ Stakes \subseteq Nat /\ InitGold \subseteq Int
  /\ Precision \in Nat \ {0} /\ MaxFaults \in Nat /\ MaxRounds \in Nat

Phases == {"idle", "caps", "read", "commit", "write"}

VARIABLES
  redisGold, dbGold,   \* player_base_info.gold in redis and in mysql
  apart,               \* history: users of whom a write was lost or overtaken
  exposed,             \* history: users settled twice at once, or by a banker in debt,
                       \* and those who start in debt
  faults,              \* crashes, failed commits and failed redis writes so far
  rounds,              \* settlements so far
  phase,               \* which calls of a room's settlement come next
  left,                \* the users for whom they are still to be made
  mapPlayers, bankerId,
  mapUidGold,          \* calcWinOrLose's reading of redis
  mapWinOrLose,        \* 0 for a user without an entry
  paid, mapPlayerGold  \* the keys and values of updatePlayerGold's map; 0 for no entry

books == <<redisGold, dbGold, apart>>
round == <<mapPlayers, bankerId>>
update == <<paid, mapPlayerGold>>
vars == <<books, exposed, faults, rounds, phase, left, round, mapUidGold, mapWinOrLose, update>>

None == [u \in Uids |-> 0]

TypeOK ==
  /\ redisGold \in [Uids -> Int] /\ dbGold \in [Uids -> Int]
  /\ apart \subseteq Uids /\ exposed \subseteq Uids /\ faults \in 0 .. MaxFaults
  /\ rounds \in 0 .. MaxRounds
  /\ phase \in [Rooms -> Phases]
  /\ mapPlayers \in [Rooms -> SUBSET Uids] /\ bankerId \in [Rooms -> Uids \cup {Nobody}]
  /\ left \in [Rooms -> SUBSET Uids] /\ paid \in [Rooms -> SUBSET Uids]
  /\ mapUidGold \in [Rooms -> [Uids -> Int]]
  /\ mapWinOrLose \in [Rooms -> [Uids -> Int]]
  /\ mapPlayerGold \in [Rooms -> [Uids -> Int]]
  /\ \A r \in Rooms :
       /\ IF phase[r] = "idle" THEN mapPlayers[r] = {} ELSE bankerId[r] \in mapPlayers[r]
       /\ left[r] \subseteq mapPlayers[r] /\ paid[r] \subseteq mapPlayers[r]
       /\ phase[r] = "write" => left[r] \subseteq paid[r]
       /\ paid[r] # {} => phase[r] \in {"read", "commit", "write"}

Init ==
  /\ redisGold \in [Uids -> InitGold] /\ dbGold = redisGold
  /\ apart = {} /\ exposed = {u \in Uids : redisGold[u] < 0} /\ faults = 0 /\ rounds = 0
  /\ phase = [r \in Rooms |-> "idle"] /\ left = [r \in Rooms |-> {}]
  /\ mapPlayers = [r \in Rooms |-> {}] /\ bankerId = [r \in Rooms |-> Nobody]
  /\ mapUidGold = [r \in Rooms |-> None] /\ mapWinOrLose = [r \in Rooms |-> None]
  /\ paid = [r \in Rooms |-> {}] /\ mapPlayerGold = [r \in Rooms |-> None]

\* Room r has made the call of this phase for u; after the last one comes the next phase.
Done(r, u, next) ==
  /\ left' = [left EXCEPT ![r] = @ \ {u}]
  /\ phase' = [phase EXCEPT ![r] = IF left[r] = {u} THEN next ELSE @]

-----------------------------------------------------------------------------
(* calcWinOrLose.                                                           *)

Least(a, b) == IF a <= b THEN a ELSE b
Size(x) == IF x >= 0 THEN x ELSE -x
SumOver(f, S) == MapThenSumSet(LAMBDA u : f[u], S)

\* settle calls calcWinOrLose, which is to read the gold of all players.
Settle(r) ==
  /\ phase[r] = "idle" /\ rounds < MaxRounds /\ rounds' = rounds + 1
  /\ \E P \in SUBSET Uids : \E b \in P :
       /\ mapPlayers' = [mapPlayers EXCEPT ![r] = P]
       /\ bankerId' = [bankerId EXCEPT ![r] = b]
       /\ left' = [left EXCEPT ![r] = P]
       /\ exposed' = exposed \cup {u \in P : \E q \in Rooms : u \in mapPlayers[q]}
  /\ phase' = [phase EXCEPT ![r] = "caps"]
  /\ UNCHANGED <<books, faults, mapUidGold, mapWinOrLose, update>>

\* One turn of GetSomePlayersGold. When it fails calcWinOrLose returns at once, and
\* updatePlayerGold works on an empty map.
ReadCap(r, u) ==
  /\ phase[r] = "caps" /\ u \in left[r]
  /\ \/ /\ mapUidGold' = [mapUidGold EXCEPT ![r][u] = redisGold[u]]
        /\ left' = [left EXCEPT ![r] = @ \ {u}]
        /\ UNCHANGED phase
     \/ /\ left' = [left EXCEPT ![r] = {}] /\ phase' = [phase EXCEPT ![r] = "commit"]
        /\ UNCHANGED mapUidGold
  /\ UNCHANGED <<books, exposed, faults, rounds, round, mapWinOrLose, update>>

Others(r) == mapPlayers[r] \ {bankerId[r]}

\* Mutant of Compared: a player pays the whole stake.
Compared_NoCap(r) ==
  {[u \in Uids |-> IF u \notin Others(r) THEN 0
                   ELSE IF u \in losers THEN -stake[u] ELSE stake[u]] :
     stake \in [Others(r) -> Stakes], losers \in SUBSET Others(r)}

\* What the loop over the players may leave: a player who loses pays what is left to
\* pay with, a player who wins gets the whole stake.
Compared(r) ==
  {[u \in Uids |-> IF u \notin Others(r) THEN 0
                   ELSE IF u \in losers THEN -Least(stake[u], mapUidGold[r][u]) ELSE stake[u]] :
     stake \in [Others(r) -> Stakes], losers \in SUBSET Others(r)}

Winners(result) == {u \in Uids : result[u] > 0}

\* The size of int32(float32(gold) / float32(total) * float32(bankerGold)): the whole
\* part of a number within 1 part in Precision of gold * bankerGold / total.
IsShare(x, gold, total, bankerGold) ==
  /\ x * total * Precision <= gold * bankerGold * (Precision + 1)
  /\ (x + 1) * total * Precision > gold * bankerGold * (Precision - 1)

\* Mutant of Shared: the winners get their wins in full.
Shared_InFull(result, bankerGold) == {result}

\* The results when the banker cannot pay all: each winner gets a part of the banker's
\* gold, or of the banker's debt.
Shared(result, bankerGold) ==
  LET total == SumOver(result, Winners(result))
      sizes == {x \in [Winners(result) -> 0 .. 2 * Size(bankerGold)] :
                  \A u \in Winners(result) :
                    IsShare(x[u], result[u], total, Size(bankerGold))}
  IN  {[u \in Uids |-> IF u \notin Winners(result) THEN result[u]
                       ELSE IF bankerGold >= 0 THEN x[u] ELSE -x[u]] : x \in sizes}

\* The rest of calcWinOrLose, which touches variables of the room only.
CalcWinOrLose(r) ==
  /\ phase[r] = "caps" /\ left[r] = {}
  /\ LET banker == bankerId[r]
         bankerGold == mapUidGold[r][banker]
     IN  /\ \E result \in Compared(r) :
              LET bankerWinOrLose == -SumOver(result, Others(r))
              IN  IF bankerWinOrLose >= 0 \/ bankerGold + bankerWinOrLose >= 0
                  THEN mapWinOrLose' = [mapWinOrLose EXCEPT ![r] =
                                          [result EXCEPT ![banker] = bankerWinOrLose]]
                  ELSE \E shared \in Shared(result, bankerGold) :
                         mapWinOrLose' = [mapWinOrLose EXCEPT ![r] =
                                            [shared EXCEPT ![banker] = -bankerGold]]
         /\ exposed' = IF bankerGold < 0 THEN exposed \cup mapPlayers[r] ELSE exposed
  /\ left' = [left EXCEPT ![r] = mapPlayers[r]] /\ phase' = [phase EXCEPT ![r] = "read"]
  /\ UNCHANGED <<books, faults, rounds, round, mapUidGold, update>>

-----------------------------------------------------------------------------
(* updatePlayerGold.                                                        *)

\* What is left of a result after the room's fee: int32(float64(w) * 0.95) of a
\* win; a loss has no fee.
Final(w) == IF w > 0 THEN (95 * w) \div 100 ELSE w

\* The gold is read again, user by user, and an entry gets the user's final result. A
\* failed read is logged and leaves the map empty.
ReadGold(r, u) ==
  /\ phase[r] = "read" /\ u \in left[r]
  /\ \/ /\ paid' = [paid EXCEPT ![r] = @ \cup {u}]
        /\ mapPlayerGold' = [mapPlayerGold EXCEPT ![r][u] =
                               redisGold[u] + Final(mapWinOrLose[r][u])]
        /\ Done(r, u, "commit")
     \/ /\ paid' = [paid EXCEPT ![r] = {}] /\ mapPlayerGold' = [mapPlayerGold EXCEPT ![r] = None]
        /\ left' = [left EXCEPT ![r] = {}] /\ phase' = [phase EXCEPT ![r] = "commit"]
  /\ UNCHANGED <<books, exposed, faults, rounds, round, mapUidGold, mapWinOrLose>>

\* Mutant of Over: the results of the round stay for the next one.
Over_NotReset(r) ==
  /\ phase' = [phase EXCEPT ![r] = "idle"] /\ left' = [left EXCEPT ![r] = {}]
  /\ mapPlayers' = [mapPlayers EXCEPT ![r] = {}] /\ bankerId' = [bankerId EXCEPT ![r] = Nobody]
  /\ UNCHANGED <<mapUidGold, mapWinOrLose, update>>

\* The settlement of room r is over, by success or error, and its variables are gone.
Over(r) ==
  /\ phase' = [phase EXCEPT ![r] = "idle"] /\ left' = [left EXCEPT ![r] = {}]
  /\ mapPlayers' = [mapPlayers EXCEPT ![r] = {}] /\ bankerId' = [bankerId EXCEPT ![r] = Nobody]
  /\ mapUidGold' = [mapUidGold EXCEPT ![r] = None]
  /\ mapWinOrLose' = [mapWinOrLose EXCEPT ![r] = None]
  /\ paid' = [paid EXCEPT ![r] = {}] /\ mapPlayerGold' = [mapPlayerGold EXCEPT ![r] = None]

InDb(r) == [u \in Uids |-> IF u \in paid[r] THEN mapPlayerGold[r][u] ELSE dbGold[u]]

\* The users whose redis gold room r has committed and has still to write.
Unwritten(r) == IF phase[r] = "write" THEN left[r] ELSE {}

\* Those of them for whom another room's write is still to come as well.
Overtaken(r) == paid[r] \cap UNION {Unwritten(q) : q \in Rooms \ {r}}

\* Mutant of CommitGold: b is true from the start, and a failed update goes unnoticed.
CommitGold_BTrue(r) ==
  /\ phase[r] = "commit"
  /\ \/ dbGold' = InDb(r) /\ apart' = (apart \ paid[r]) \cup Overtaken(r)
     \/ UNCHANGED <<dbGold, apart>>
  /\ phase' = [phase EXCEPT ![r] = "write"] /\ left' = [left EXCEPT ![r] = paid[r]]
  /\ UNCHANGED <<redisGold, exposed, rounds, faults, round, mapUidGold, mapWinOrLose, update>>

\* The transaction. An update that fails makes the settlement void. Once all are
\* done b is true, and then the commit succeeds or, its error not looked at, fails.
CommitGold(r) ==
  /\ phase[r] = "commit"
  /\ \/ Over(r) /\ UNCHANGED <<books, exposed, faults, rounds>>
     \/ /\ \/ /\ dbGold' = InDb(r) /\ apart' = (apart \ paid[r]) \cup Overtaken(r)
              /\ UNCHANGED faults
           \/ /\ faults < MaxFaults /\ faults' = faults + 1
              /\ apart' = apart \cup paid[r] /\ UNCHANGED dbGold
        /\ phase' = [phase EXCEPT ![r] = "write"] /\ left' = [left EXCEPT ![r] = paid[r]]
        /\ UNCHANGED <<redisGold, exposed, rounds, round, mapUidGold, mapWinOrLose, update>>

\* SetOnePlayerGold, whose error nobody looks at.
WriteRedis(r, u) ==
  /\ phase[r] = "write" /\ u \in left[r]
  /\ \/ redisGold' = [redisGold EXCEPT ![u] = mapPlayerGold[r][u]] /\ UNCHANGED <<apart, faults>>
     \/ /\ faults < MaxFaults /\ faults' = faults + 1
        /\ apart' = apart \cup {u}
        /\ UNCHANGED redisGold
  /\ left' = [left EXCEPT ![r] = @ \ {u}]
  /\ UNCHANGED <<dbGold, exposed, rounds, phase, round, mapUidGold, mapWinOrLose, update>>

\* settle broadcasts the results.
Report(r) ==
  /\ phase[r] = "write" /\ left[r] = {}
  /\ Over(r) /\ UNCHANGED <<books, exposed, faults, rounds>>

\* The process dies and is started again: the settlements of all rooms are gone.
Crash ==
  /\ faults < MaxFaults /\ faults' = faults + 1
  /\ \E r \in Rooms : phase[r] # "idle"
  /\ apart' = apart \cup UNION {Unwritten(r) : r \in Rooms}
  /\ phase' = [r \in Rooms |-> "idle"] /\ left' = [r \in Rooms |-> {}]
  /\ mapPlayers' = [r \in Rooms |-> {}] /\ bankerId' = [r \in Rooms |-> Nobody]
  /\ mapUidGold' = [r \in Rooms |-> None] /\ mapWinOrLose' = [r \in Rooms |-> None]
  /\ paid' = [r \in Rooms |-> {}] /\ mapPlayerGold' = [r \in Rooms |-> None]
  /\ UNCHANGED <<redisGold, dbGold, exposed, rounds>>

Next ==
  \/ Crash
  \/ \E r \in Rooms :
       \/ Settle(r) \/ CalcWinOrLose(r) \/ CommitGold(r) \/ Report(r)
       \/ \E u \in Uids : ReadCap(r, u) \/ ReadGold(r, u) \/ WriteRedis(r, u)

Spec == Init /\ [][Next]_vars

-----------------------------------------------------------------------------
(* Properties.                                                              *)

\* Rule 2.1 of settlement.go:22, over any number of rounds in any number of rooms:
\* nobody has less than no gold, in redis or in the database, whom no two rooms ever
\* settled at once and whom no banker in debt ever settled with. calcWinOrLose caps
\* each loss by what it read; what is written is computed from a later reading, and
\* the banker's loss from the sum of the wins. Two settlements of a user that overlap
\* may each take all of the gold, as no lock is held between reading and writing.
Solvent == \A u \in Uids \ exposed : redisGold[u] >= 0 /\ dbGold[u] >= 0

\* Rule 2.2 of settlement.go:23 and the room's fee: a settlement never makes gold.
\* What it is about to add to the accounts it read is in all at most nothing, whether
\* the banker pays in full or is ruined and the winners' shares are rounded, and
\* whatever other rooms do to the same accounts. Beyond Precision a float32 may round
\* the shares up to more than there is; a banker's debt is shared out rounded down.
NoGoldMade ==
  \A r \in Rooms :
    phase[r] = "commit" /\ mapUidGold[r][bankerId[r]] \in 0 .. Precision - 1
      => SumOver([u \in Uids |-> Final(mapWinOrLose[r][u])], paid[r]) <= 0

\* The two books (settlement.go:119-135) differ at a user only if a settlement has
\* still to write the user's gold to redis, or the user's last settlement lost one of
\* its writes by a crash, a failed commit or a failed redis write, or was committed
\* before another room had written redis: the older gold may then come last. A void
\* settlement leaves no trace, and the next one that has the user to itself and gets
\* through brings the books together again.
BooksAgree ==
  \A u \in Uids \ (apart \cup UNION {Unwritten(r) : r \in Rooms}) : redisGold[u] = dbGold[u]
=============================================================================
