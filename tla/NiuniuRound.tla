------------------------------ MODULE NiuniuRound ------------------------------
(***************************************************************************)
(* What a room promises about one round of the game, whoever leaves, drops *)
(* out, reconnects or keeps silent: nobody joins a round that has started, *)
(* the round is settled once, its results are those of the players who are *)
(* still in it at that moment (or none at all), and the room then opens    *)
(* again with nothing left over. NiuniuRoom implements it.                 *)
(***************************************************************************)
CONSTANT Uids

VARIABLES
  phase,      \* "open", "playing" or "settled"
  players,    \* who is in the round
  results     \* who has a win or a loss on record

vars == <<phase, players, results>>

Init == phase = "open" /\ players = {} /\ results = {}

Start ==
  /\ phase = "open" /\ phase' = "playing"
  /\ players' \in SUBSET Uids
  /\ UNCHANGED results

\* A player may be lost in the middle of a round, never gained.
Drop(u) ==
  /\ phase # "open" /\ u \in players
  /\ players' = players \ {u}
  /\ UNCHANGED <<phase, results>>

Settle ==
  /\ phase = "playing" /\ phase' = "settled"
  /\ results' \in {{}, players}
  /\ UNCHANGED players

Finish ==
  /\ phase = "settled" /\ phase' = "open"
  /\ players' = {} /\ results' = {}

Next == Start \/ Settle \/ Finish \/ \E u \in Uids : Drop(u)

Fairness == WF_vars(Settle) /\ WF_vars(Finish)

Spec == Init /\ [][Next]_vars /\ Fairness
=============================================================================
