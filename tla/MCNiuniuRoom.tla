----------------------------- MODULE MCNiuniuRoom -----------------------------
(* Values for the constants of NiuniuRoom.                                   *)
EXTENDS NiuniuRoom, TLC

\* The waits keep the relations that matter: RobZhuang, Bet and Play last more
\* than one tick (5, 6 and 6 or 7 seconds in the code), so that they may also end
\* early; CountDown and Settle last one (1 second in the code); Ready is 3 seconds
\* in the code and matters only as "not yet".
MCWaitTime ==
  [s \in Statuses |-> IF s \in {"RobZhuang", "Bet", "Play"} THEN 2 ELSE 1]

MCOneTick == [s \in Statuses |-> 1]

MCSeatRequests == {"Enter", "Leave", "Disconnect", "HaveASeat", "Ready"}
MCRoundRequests == {"Enter", "Leave"} \cup TableMsgs
MCMemberRequests == {"Enter", "Disconnect", "HaveASeat", "Ready"}
MCLiveRequests == MCMemberRequests \cup {"ShowCard"}
MCLiveWait == [s \in Statuses |-> IF s = "Play" THEN 2 ELSE 1]

MCSymmetry == Permutations(Uids)
=============================================================================
