----------------------------- MODULE NiuniuHands -----------------------------
(***************************************************************************)
(* The cards of one round, seen from the banker and one other player: the  *)
(* hands are dealt, the types are shown, and the settlement compares the   *)
(* hands anew. The cards come in one deal or in two; until the last one    *)
(* either has no cards or four, and for fewer than five every function of  *)
(* NiuniuCards answers 0. The room's other state is the business of        *)
(* NiuniuRoom.                                                             *)
(***************************************************************************)
EXTENDS NiuniuCards

CONSTANTS
  Deals      \* the pairs of hands a shuffled heap may deal to the two

\* One heap has every card once.
ASSUME DealsAssumption ==
  /\ Deals \subseteq Hand \X Hand
  /\ \A d \in Deals : Cardinality({d[1][i] : i \in 1 .. 5} \cup {d[2][i] : i \in 1 .. 5}) = 10

Seats == {"banker", "player"}

VARIABLES
  kan, shun,              \* cfg.Kan, cfg.Shun
  hand,                   \* GetHandCard of the two, once it is complete
  mapShowCard,            \* what was shown, by seat: were there five cards, and the type
  broadcastBankerCards,
  status,                 \* deal: up to the last deal, at the end of Bet; play, settle, over
  settled                 \* what the settlement found: the two types and winOrLose

vars == <<kan, shun, hand, mapShowCard, broadcastBankerCards, status, settled>>

\* Before the last deal: any hand, as nothing looks at it.
NoHand == [i \in 1 .. 5 |-> [num |-> A, color |-> 1]]

TypeOK ==
  /\ kan \in BOOLEAN /\ shun \in BOOLEAN
  /\ hand \in [Seats -> Hand]
  /\ \E shown \in SUBSET Seats :
       mapShowCard \in [shown -> [complete : BOOLEAN, type : 0 .. straightFlush]]
  /\ broadcastBankerCards \in BOOLEAN
  /\ status \in {"deal", "play", "settle", "over"}
  /\ settled \in [banker : 0 .. straightFlush, player : 0 .. straightFlush, win : BOOLEAN]

Init ==
  /\ kan \in BOOLEAN /\ shun \in BOOLEAN
  /\ hand = [seat \in Seats |-> NoHand]
  /\ mapShowCard = <<>>
  /\ broadcastBankerCards = FALSE
  /\ status = "deal"
  /\ settled = [banker |-> 0, player |-> 0, win |-> FALSE]

Deal ==
  /\ status = "deal"
  /\ \E d \in Deals : hand' = [banker |-> d[1], player |-> d[2]]
  /\ status' = "play"
  /\ UNCHANGED <<kan, shun, mapShowCard, broadcastBankerCards, settled>>

-----------------------------------------------------------------------------
\* The type that is shown, computed where the cards are shown.
ShownType(cards) ==
  LET type == CalCardType(cards)
      kanned == IF kan /\ Kan(cards) > type THEN Kan(cards) ELSE type
  IN  IF shun /\ Shun(cards) > kanned THEN Shun(cards) ELSE kanned

\* The banker counts among those who have to show.
isAllPlayerShowCard == DOMAIN mapShowCard = Seats

ShowOf(seat) ==
  IF status = "deal" THEN [complete |-> FALSE, type |-> 0]
                     ELSE [complete |-> TRUE, type |-> ShownType(hand[seat])]

Show(seats) == [s \in DOMAIN mapShowCard \cup seats |->
                  IF s \in seats THEN ShowOf(s) ELSE mapShowCard[s]]

\* The request of a player or of the banker to show the cards, at any time: while bids
\* and bets are made, and when all is settled, too.
c2sShowCard(seat) ==
  /\ mapShowCard' = Show({seat})
  /\ UNCHANGED <<kan, shun, hand, broadcastBankerCards, status, settled>>

\* Mutant of ShowTimeout: it skips the banker who has shown, as it does the others.
ShowTimeout_BankerToo ==
  /\ status = "play"
  /\ mapShowCard' = Show(Seats \ DOMAIN mapShowCard)
  /\ broadcastBankerCards' = TRUE
  /\ status' = "settle"
  /\ UNCHANGED <<kan, shun, hand, settled>>

\* The time to show is over: those who did not are shown, the banker last and once
\* more; who has shown, even with four cards, is passed over.
ShowTimeout ==
  /\ status = "play"
  /\ mapShowCard' = Show((Seats \ DOMAIN mapShowCard)
                            \cup (IF broadcastBankerCards THEN {} ELSE {"banker"}))
  /\ broadcastBankerCards' = TRUE
  /\ status' = "settle"
  /\ UNCHANGED <<kan, shun, hand, settled>>

\* All have asked to show: one turn of the room shows the banker to the others, the
\* next goes on.
BankerShowCard ==
  /\ status = "play" /\ isAllPlayerShowCard
  /\ IF broadcastBankerCards
     THEN status' = "settle" /\ UNCHANGED <<mapShowCard, broadcastBankerCards>>
     ELSE /\ mapShowCard' = Show({"banker"})
          /\ broadcastBankerCards' = TRUE
          /\ UNCHANGED status
  /\ UNCHANGED <<kan, shun, hand, settled>>

\* Mutant of SettledType: a room with both variants is settled as one with Kan.
Settled_KanFirst(cards) ==
  IF kan THEN KanType(cards) ELSE IF shun THEN ShunType(cards) ELSE PlainType(cards)

\* Which of the four comparisons a room uses.
SettledType(cards) ==
  CASE kan /\ ~shun -> KanType(cards)
    [] ~kan /\ shun -> ShunType(cards)
    [] kan /\ shun -> KanShunType(cards)
    [] ~kan /\ ~shun -> PlainType(cards)

Settle ==
  /\ status = "settle"
  /\ LET b == SettledType(hand["banker"])
         p == SettledType(hand["player"])
     IN  settled' = [banker |-> b, player |-> p,
                     win |-> Wins(b, hand["banker"], p, hand["player"])]
  /\ status' = "over"
  /\ UNCHANGED <<kan, shun, hand, mapShowCard, broadcastBankerCards>>

Next ==
  \/ Deal
  \/ \E seat \in Seats : c2sShowCard(seat)
  \/ ShowTimeout
  \/ BankerShowCard
  \/ Settle

Spec == Init /\ [][Next]_vars

-----------------------------------------------------------------------------
(* Properties                                                              *)

\* The gold of a round is moved by the types the table has seen. What was shown of a
\* complete hand, from three places of the code, is what the settlement finds by its
\* four-way choice; and the banker's hand, which all the others are compared with, was
\* complete when it was last shown, whenever the banker asked to show it. A player
\* who asks before the last deal, and not again, is shown with a type of 0.
ShownIsSettled ==
  status = "over" =>
    /\ DOMAIN mapShowCard = Seats
    /\ \A s \in Seats : mapShowCard[s].complete => mapShowCard[s].type = settled[s]
    /\ mapShowCard["banker"].complete

\* The strength of a hand of a type, as the comments state it: the highest
\* card decides, an A being the highest of a bomb, of the three A of a hulu
\* and of 10-J-Q-K-A, and then the colour of that card.
Strength(type, cards) ==
  LET aces == \/ type \in {seq, straightFlush} /\ Nums(cards) = {A, 10, J, Q, K}
              \/ type = hulu /\ Count(cards, A) = 3
      top == IF aces THEN A ELSE Max(Nums(cards))
      color == Max({cards[i].color : i \in {j \in 1 .. 5 : cards[j].num = top}})
      four == {n \in Nums(cards) : Count(cards, n) = 4}
  IN  IF type = boom
      THEN IF four = {A} THEN 4 * (K + 1) ELSE 4 * Max(four)
      ELSE 4 * (IF aces THEN K + 1 ELSE top) + color

\* The comparison is an order of the hands: a banker wins if and only if the
\* hand has the higher type, or the same type and the greater strength. So
\* no two hands both win, or both lose, and no three beat each other in turn.
OrderDecides ==
  status = "over" =>
    LET b == Strength(settled.banker, hand["banker"])
        p == Strength(settled.player, hand["player"])
    IN  /\ settled.win <=> \/ settled.banker > settled.player
                           \/ settled.banker = settled.player /\ b > p
        /\ settled.banker = settled.player => b # p

HasType(type, cards) ==
  CASE type = straightFlush -> StraightFlushCardType(cards)
    [] type = five -> FiveCardType(cards)
    [] type = boom -> BoomCardType(cards)
    [] type = hulu -> HuluCardType(cards)
    [] type = sameFlower -> SameFlowerCardType(cards)
    [] type = fiveFlower -> FiveFlowerCardType(cards)
    [] type = seq -> SeqCardType(cards)
    [] OTHER -> type = 0

\* Of the special types that a hand has, it gets the highest, although the
\* code stops at the first of its seven tests that succeeds.
SpecialIsBest ==
  \A seat \in Seats :
    SpecialCardType(hand[seat]) = Max({t \in 0 .. straightFlush : HasType(t, hand[seat])})

\* What the points of a hand are is no choice: all the triples of a hand that
\* make tens leave the same rest, so the order in which the ten triples
\* overwrite one another is of no account.
TriplesAgree ==
  \A seat \in Seats :
    \A type \in NormalTypes(hand[seat]) : type = Points(Total(hand[seat]))
=============================================================================
