-------------------------- MODULE NiuniuHandsProofs --------------------------
(***************************************************************************)
(* What holds of the hands of a round for every heap: that the points of a *)
(* hand do not depend on the triple that is found, that its special type   *)
(* is the highest it has, that the types shown are the types settled, and  *)
(* that the comparison of two hands is an order.                           *)
(***************************************************************************)
EXTENDS NiuniuHands, FiniteSetTheorems, WellFoundedInduction, TLAPS

\* Tens that are taken off leave the last digit.
LEMMA TensOff ==
  ASSUME NEW total \in Nat, NEW sum \in Nat, sum % 10 = 0
  PROVE  (total - sum) % 10 = total % 10
  OBVIOUS

\* A card counts a whole number.
LEMMA ValueIsNat ==
  ASSUME NEW card \in Card
  PROVE  Value(card) \in Nat
  BY DEF Card, Value, A, K

\* Every triple that makes tens gives the type of the whole hand's points.
LEMMA TripleGivesTotal ==
  ASSUME NEW cards \in Hand, NEW type \in NormalTypes(cards)
  PROVE  type = Points(Total(cards))
<1>1. PICK t \in Triple : /\ Sum(cards, t) % 10 = 0
                          /\ type = Points(Total(cards) - Sum(cards, t))
  BY DEF NormalTypes
<1>2. \A i \in 1 .. 5 : Value(cards[i]) \in Nat
  BY ValueIsNat DEF Hand
<1>3. Total(cards) \in Nat
  BY <1>2 DEF Total
<1>4. t[1] \in 1 .. 5 /\ t[2] \in 1 .. 5 /\ t[3] \in 1 .. 5
  BY DEF Triple
<1>5. Sum(cards, t) \in Nat
  BY <1>2, <1>4 DEF Sum
<1>6. (Total(cards) - Sum(cards, t)) % 10 = Total(cards) % 10
  BY <1>1, <1>3, <1>5, TensOff
<1> QED
  BY <1>1, <1>6 DEF Points

\* The hands of the table are hands of cards.
HandsOK == hand \in [Seats -> Hand]

\* Before the last deal.
LEMMA InitHands == Init => HandsOK
<1>1. [num |-> A, color |-> 1] \in Card
  BY DEF Card, A, K
<1>2. NoHand \in Hand
  BY <1>1 DEF NoHand, Hand
<1> QED
  BY <1>2 DEF Init, HandsOK

\* A deal gives hands of cards.
LEMMA StepHands ==
  ASSUME HandsOK, [Next]_vars
  PROVE  HandsOK'
<1>1. CASE Deal
  <2>1. PICK d \in Deals : hand' = [banker |-> d[1], player |-> d[2]]
    BY <1>1 DEF Deal
  <2>2. d[1] \in Hand /\ d[2] \in Hand
    BY DealsAssumption
  <2>3. hand' = [s \in Seats |-> IF s = "banker" THEN d[1] ELSE d[2]]
    BY <2>1 DEF Seats
  <2> QED
    BY <2>2, <2>3 DEF HandsOK, Seats
<1>2. CASE UNCHANGED hand
  BY <1>2 DEF HandsOK
<1>3. Deal \/ UNCHANGED hand
  BY DEF Next, vars, c2sShowCard, ShowTimeout, BankerShowCard, Settle
<1> QED
  BY <1>1, <1>2, <1>3

\* NormalCardType: whichever triples a dealt hand has, they give one type.
THEOREM TriplesAlwaysAgree == Spec => []TriplesAgree
<1>1. HandsOK => TriplesAgree
  BY TripleGivesTotal DEF HandsOK, TriplesAgree
<1> QED
  BY <1>1, InitHands, StepHands, PTL DEF Spec

\* An upper bound that is a member is the maximum.
LEMMA MaxIs ==
  ASSUME NEW S \in SUBSET Int, NEW m \in S, \A y \in S : m >= y
  PROVE  Max(S) = m
<1>1. \E x \in S : \A y \in S : x >= y
  OBVIOUS
<1>2. Max(S) \in S /\ \A y \in S : Max(S) >= y
  BY <1>1, Zenon DEF Max
<1>3. Max(S) >= m /\ m >= Max(S) /\ Max(S) \in Int /\ m \in Int
  BY <1>2
<1> HIDE DEF Max
<1> QED
  BY <1>3

-----------------------------------------------------------------------------
(* The special types, and what is shown of them.                            *)

\* The seven tests are made from the highest type down.
LEMMA FirstIsHighest ==
  ASSUME NEW cards
  PROVE  SpecialCardType(cards) = Max({t \in 0 .. straightFlush : HasType(t, cards)})
<1> DEFINE types == {t \in 0 .. straightFlush : HasType(t, cards)}
           best == SpecialCardType(cards)
<1>1. best \in types
  BY DEF SpecialCardType, HasType, straightFlush, five, boom, hulu, sameFlower, fiveFlower, seq
<1>2. \A t \in types : best >= t
  BY DEF SpecialCardType, HasType, straightFlush, five, boom, hulu, sameFlower, fiveFlower, seq
<1> QED
  BY <1>1, <1>2, MaxIs

\* SpecialCardType: the first test that succeeds is the one for the highest special
\* type the hand has, whatever the hand.
THEOREM SpecialAlwaysBest == Spec => []SpecialIsBest
<1>1. SpecialIsBest
  BY FirstIsHighest DEF SpecialIsBest
<1> QED
  BY <1>1, PTL

\* What is shown of the hand that a seat has: nothing of an incomplete one.
Honest(s) ==
  /\ s \in Seats
  /\ mapShowCard[s].complete => mapShowCard[s].type = ShownType(hand[s])

\* What has been shown of complete hands is what the settlement finds.
TypesShown ==
  /\ status = "deal" => /\ \A s \in DOMAIN mapShowCard : ~mapShowCard[s].complete
                        /\ ~broadcastBankerCards
  /\ status \in {"settle", "over"} => DOMAIN mapShowCard = Seats /\ broadcastBankerCards
  /\ broadcastBankerCards =>
       "banker" \in DOMAIN mapShowCard /\ mapShowCard["banker"].complete
  /\ \A s \in DOMAIN mapShowCard : Honest(s)
  /\ status = "over" => \A s \in Seats : settled[s] = ShownType(hand[s])
  /\ ShownIsSettled
  /\ kan \in BOOLEAN /\ shun \in BOOLEAN

\* The type shown and the type settled are computed differently, and are the same.
LEMMA ShownTypeIsSettled ==
  ASSUME NEW cards, kan \in BOOLEAN, shun \in BOOLEAN
  PROVE  ShownType(cards) = SettledType(cards)
  BY DEF ShownType, SettledType, KanType, ShunType, KanShunType, PlainType, Larger

\* A show adds its seats to those that show, with the types of the hands they hold,
\* and leaves what the others have shown.
LEMMA ShowShows ==
  ASSUME TypesShown, NEW seats \in SUBSET Seats, mapShowCard' = Show(seats),
         UNCHANGED <<hand, kan, shun>>
  PROVE  /\ DOMAIN mapShowCard' = DOMAIN mapShowCard \cup seats
         /\ \A s \in DOMAIN mapShowCard' : Honest(s)'
         /\ \A s \in seats : mapShowCard'[s].complete <=> status # "deal"
         /\ \A s \in DOMAIN mapShowCard \ seats : mapShowCard'[s] = mapShowCard[s]
<1>1. \A s \in Seats : ShownType(hand[s])' = ShownType(hand[s])
  BY DEF ShownType
<1>2. /\ DOMAIN mapShowCard' = DOMAIN mapShowCard \cup seats
      /\ \A s \in seats : mapShowCard'[s] = ShowOf(s)
      /\ \A s \in DOMAIN mapShowCard \ seats : mapShowCard'[s] = mapShowCard[s]
  BY DEF Show
<1>3. \A s \in seats : /\ ShowOf(s).complete <=> status # "deal"
                       /\ ShowOf(s).complete => ShowOf(s).type = ShownType(hand[s])
  BY DEF ShowOf
<1>4. ASSUME NEW s \in DOMAIN mapShowCard' PROVE Honest(s)'
  <2>1. CASE s \in seats
    BY <1>1, <1>2, <1>3, <2>1 DEF Honest
  <2>2. CASE s \notin seats
    <3>1. s \in DOMAIN mapShowCard /\ mapShowCard'[s] = mapShowCard[s]
      BY <1>2, <2>2, <1>4
    <3> QED
      BY <1>1, <3>1 DEF Honest, TypesShown
  <2> QED
    BY <2>1, <2>2
<1> QED
  BY <1>2, <1>3, <1>4

\* No step shows a type that is not the one of a complete hand.
LEMMA StepShown ==
  ASSUME TypesShown, [Next]_vars
  PROVE  TypesShown'
<1>0. ASSUME UNCHANGED <<hand, kan, shun, mapShowCard>>
      PROVE  /\ \A s \in DOMAIN mapShowCard : Honest(s)'
             /\ \A s \in Seats : ShownType(hand[s])' = ShownType(hand[s])
  BY <1>0 DEF ShownType, Honest, TypesShown
<1>1. CASE Deal
  BY <1>1 DEF Deal, TypesShown, ShownIsSettled, Honest
<1>2. ASSUME NEW seat \in Seats, c2sShowCard(seat) PROVE TypesShown'
  <2>0. {seat} \in SUBSET Seats
    OBVIOUS
  <2>1. /\ DOMAIN mapShowCard' = DOMAIN mapShowCard \cup {seat}
        /\ \A s \in DOMAIN mapShowCard' : Honest(s)'
        /\ mapShowCard'[seat].complete <=> status # "deal"
        /\ \A s \in DOMAIN mapShowCard \ {seat} : mapShowCard'[s] = mapShowCard[s]
    BY <1>2, <2>0, ShowShows DEF c2sShowCard
  <2>2. UNCHANGED <<kan, shun, hand, broadcastBankerCards, status, settled>>
    BY <1>2 DEF c2sShowCard
  <2>3. status = "deal" => \A s \in DOMAIN mapShowCard' : ~mapShowCard'[s].complete
    BY <2>1 DEF TypesShown
  <2>4. broadcastBankerCards =>
          "banker" \in DOMAIN mapShowCard' /\ mapShowCard'["banker"].complete
    <3>1. CASE seat = "banker"
      BY <2>1, <3>1 DEF TypesShown
    <3>2. CASE seat # "banker"
      BY <2>1, <3>2 DEF TypesShown
    <3> QED
      BY <3>1, <3>2
  <2>5. ShownIsSettled'
    <3> SUFFICES ASSUME status = "over" PROVE ShownIsSettled'
      BY <2>2 DEF ShownIsSettled
    <3>1. DOMAIN mapShowCard' = Seats /\ mapShowCard'["banker"].complete
      BY <2>1, <2>4 DEF TypesShown
    <3>2. ASSUME NEW s \in Seats, mapShowCard'[s].complete
          PROVE  mapShowCard'[s].type = settled[s]
      <4>1. CASE s = seat
        <5>1. s \in DOMAIN mapShowCard
          BY DEF TypesShown
        <5>2. mapShowCard'[s].type = ShownType(hand[s])
          BY <2>1, <2>2, <3>1, <3>2 DEF Honest, ShownType
        <5>3. settled[s] = ShownType(hand[s])
          BY DEF TypesShown
        <5> QED
          BY <5>2, <5>3
      <4>2. CASE s # seat
        BY <2>1, <3>2, <4>2 DEF TypesShown, ShownIsSettled
      <4> QED
        BY <4>1, <4>2
    <3> QED
      BY <2>2, <3>1, <3>2 DEF ShownIsSettled
  <2>6. status = "over" => \A s \in Seats : settled'[s] = ShownType(hand[s])'
    BY <2>2 DEF TypesShown, ShownType
  <2> QED
    BY <2>1, <2>2, <2>3, <2>4, <2>5, <2>6 DEF TypesShown, Seats
<1>3. CASE ShowTimeout
  <2> DEFINE late == (Seats \ DOMAIN mapShowCard)
                       \cup (IF broadcastBankerCards THEN {} ELSE {"banker"})
  <2>1. late \in SUBSET Seats /\ mapShowCard' = Show(late)
    BY <1>3 DEF ShowTimeout, Seats
  <2>2. /\ DOMAIN mapShowCard' = DOMAIN mapShowCard \cup late
        /\ \A s \in DOMAIN mapShowCard' : Honest(s)'
        /\ \A s \in late : mapShowCard'[s].complete <=> status # "deal"
        /\ \A s \in DOMAIN mapShowCard \ late : mapShowCard'[s] = mapShowCard[s]
    <3> HIDE DEF late
    <3> QED
      BY <1>3, <2>1, ShowShows DEF ShowTimeout
  <2>3. DOMAIN mapShowCard' = Seats
    BY <2>1, <2>2 DEF TypesShown, Honest
  <2>4. mapShowCard'["banker"].complete
    BY <1>3, <2>2 DEF ShowTimeout, TypesShown, Seats
  <2> QED
    BY <1>3, <2>2, <2>3, <2>4 DEF ShowTimeout, TypesShown, ShownIsSettled, Seats
<1>4. CASE BankerShowCard
  <2>1. CASE broadcastBankerCards
    BY <1>0, <1>4, <2>1 DEF BankerShowCard, TypesShown, isAllPlayerShowCard, ShownIsSettled
  <2>2. CASE ~broadcastBankerCards
    <3>1. /\ DOMAIN mapShowCard' = DOMAIN mapShowCard \cup {"banker"}
          /\ \A s \in DOMAIN mapShowCard' : Honest(s)'
          /\ mapShowCard'["banker"].complete <=> status # "deal"
      BY <1>4, <2>2, ShowShows DEF BankerShowCard, Seats
    <3> QED
      BY <1>4, <2>2, <3>1 DEF BankerShowCard, TypesShown, ShownIsSettled
  <2> QED
    BY <2>1, <2>2
<1>5. CASE Settle
  <2>1. settled'.banker = SettledType(hand["banker"]) /\ settled'.player = SettledType(hand["player"])
    BY <1>5 DEF Settle
  <2>2. \A s \in Seats : mapShowCard[s].complete => mapShowCard[s].type = SettledType(hand[s])
    BY <1>5, ShownTypeIsSettled DEF Settle, TypesShown, Honest
  <2>3. ShownIsSettled'
    BY <1>5, <2>1, <2>2 DEF Settle, TypesShown, ShownIsSettled, Seats
  <2>4. \A s \in Seats : settled'[s] = ShownType(hand[s])'
    BY <1>5, <2>1, ShownTypeIsSettled DEF Settle, TypesShown, ShownType, Seats
  <2> QED
    BY <1>0, <1>5, <2>3, <2>4 DEF Settle, TypesShown
<1>6. CASE UNCHANGED vars
  BY <1>0, <1>6 DEF vars, TypesShown, ShownIsSettled
<1> QED
  BY <1>1, <1>2, <1>3, <1>4, <1>5, <1>6 DEF Next

\* The gold is moved by what the table has seen: the types a settlement finds are the
\* ones that were shown of complete hands, from whichever of the three places, whenever
\* players asked, in a room with either, both or no variant; and the banker's hand was
\* complete when it was last shown.
THEOREM ShownAlwaysSettled == Spec => []ShownIsSettled
<1>1. Init => TypesShown
  BY DEF Init, TypesShown, ShownIsSettled
<1>2. TypesShown => ShownIsSettled
  BY DEF TypesShown
<1> QED
  BY <1>1, <1>2, StepShown, PTL DEF Spec

-----------------------------------------------------------------------------
(* Counting among five cards.                                               *)

\* 1 for what is the case.
Is(b) == IF b THEN 1 ELSE 0

\* How many of five there are.
LEMMA CardinalityOfFive ==
  ASSUME NEW S \in SUBSET (1 .. 5)
  PROVE  Cardinality(S) = Is(1 \in S) + Is(2 \in S) + Is(3 \in S) + Is(4 \in S) + Is(5 \in S)
<1> DEFINE To(n) == {i \in S : i <= n}
<1>0. \A i \in S : i \in Int /\ 1 <= i /\ i <= 5
  OBVIOUS
<1>1. IsFiniteSet(To(0)) /\ Cardinality(To(0)) = 0
  <2>1. \A i \in S : ~ (i <= 0)
    BY <1>0
  <2>2. To(0) = {}
    BY <2>1
  <2>3. QED
    <3> HIDE DEF To
    <3> QED BY <2>2, FS_EmptySet
<1>2. ASSUME NEW n \in 0 .. 4, IsFiniteSet(To(n))
      PROVE  /\ IsFiniteSet(To(n + 1))
             /\ Cardinality(To(n + 1)) = Cardinality(To(n)) + Is(n + 1 \in S)
  <2>1. CASE n + 1 \in S
    <3>0. /\ \A i \in S : i <= n + 1 <=> i <= n \/ i = n + 1
          /\ ~ (n + 1 <= n)
      BY <1>0
    <3>1. To(n + 1) = To(n) \cup {n + 1} /\ n + 1 \notin To(n)
      BY <2>1, <3>0
    <3> HIDE DEF To
    <3>2. QED
      BY <1>2, <2>1, <3>1, FS_AddElement DEF Is
  <2>2. CASE n + 1 \notin S
    <3>0. \A i \in S : i <= n + 1 <=> i <= n
      BY <1>0, <2>2
    <3>1. To(n + 1) = To(n)
      BY <3>0
    <3>2. Cardinality(To(n)) \in Nat
      BY <1>2, FS_CardinalityType
    <3> HIDE DEF To
    <3>3. QED
      BY <1>2, <2>2, <3>1, <3>2 DEF Is
  <2>3. QED
    BY <2>1, <2>2
<1>3. To(5) = S
  BY <1>0
<1> HIDE DEF To
<1>4. IsFiniteSet(To(1)) /\ Cardinality(To(1)) = Is(1 \in S)
  BY <1>1, <1>2 DEF Is
<1>5. IsFiniteSet(To(2)) /\ Cardinality(To(2)) = Is(1 \in S) + Is(2 \in S)
  BY <1>2, <1>4
<1>6. IsFiniteSet(To(3)) /\ Cardinality(To(3)) = Is(1 \in S) + Is(2 \in S) + Is(3 \in S)
  BY <1>2, <1>5
<1>7. /\ IsFiniteSet(To(4))
      /\ Cardinality(To(4)) = Is(1 \in S) + Is(2 \in S) + Is(3 \in S) + Is(4 \in S)
  BY <1>2, <1>6
<1>8. QED
  BY <1>2, <1>3, <1>7

\* A set of numbers that is not empty and not without bounds has a greatest.
LEMMA MaxExists ==
  ASSUME NEW n \in Nat, NEW S \in SUBSET (0 .. n), S # {}
  PROVE  Max(S) \in S /\ \A y \in S : Max(S) >= y
<1> DEFINE T == {n - x : x \in S}
<1>1. T \subseteq Nat /\ T # {}
  OBVIOUS
<1>2. PICK k \in T : \A m \in T : ~ (<<m, k>> \in OpToRel(<, Nat))
  BY <1>1, NatLessThanWellFounded, WFMin
<1>3. \A m \in T : ~ (m < k)
  BY <1>1, <1>2 DEF OpToRel
<1>4. PICK x \in S : k = n - x
  BY <1>2
<1>5. \A y \in S : x >= y
  BY <1>3, <1>4
<1>6. Max(S) = x
  BY <1>5, MaxIs
<1>7. QED
  BY <1>5, <1>6

\* A set of numbers that is not empty has a least one.
LEMMA MinExists ==
  ASSUME NEW S \in SUBSET Nat, S # {}
  PROVE  Min(S) \in S /\ \A y \in S : Min(S) <= y
<1>1. PICK k \in S : \A m \in S : ~ (<<m, k>> \in OpToRel(<, Nat))
  BY NatLessThanWellFounded, WFMin
<1>2. \A m \in S : ~ (m < k)
  BY <1>1 DEF OpToRel
<1>3. \A m \in S : k <= m
  BY <1>2
<1>4. QED
  BY <1>3, Zenon DEF Min

\* The cards of one number, one by one.
LEMMA CountIs ==
  ASSUME NEW cards, NEW n
  PROVE  Count(cards, n) = Is(cards[1].num = n) + Is(cards[2].num = n) + Is(cards[3].num = n)
                             + Is(cards[4].num = n) + Is(cards[5].num = n)
<1> DEFINE S == {i \in 1 .. 5 : cards[i].num = n}
<1>1. Cardinality(S) = Is(1 \in S) + Is(2 \in S) + Is(3 \in S) + Is(4 \in S) + Is(5 \in S)
  BY CardinalityOfFive
<1>2. QED
  BY <1>1 DEF Count, Is

-----------------------------------------------------------------------------
(* Cards of two hands.                                                      *)

\* Two hands of ten different cards.
Apart(b, p) ==
  /\ b \in Hand /\ p \in Hand
  /\ \A i, j \in 1 .. 5 : b[i] # p[j] /\ (i # j => b[i] # b[j] /\ p[i] # p[j])

\* The hands of a deal are ten different cards.
LEMMA DealtApart ==
  ASSUME NEW d \in Deals
  PROVE  Apart(d[1], d[2])
<1> DEFINE card == [k \in 1 .. 10 |-> IF k <= 5 THEN d[1][k] ELSE d[2][k - 5]]
           U == {d[1][i] : i \in 1 .. 5} \cup {d[2][i] : i \in 1 .. 5}
<1>1. d[1] \in Hand /\ d[2] \in Hand /\ Cardinality(U) = 10
  BY DealsAssumption
<1>2. ASSUME NEW k \in 1 .. 10, NEW m \in 1 .. 10, k # m
      PROVE  card[k] # card[m]
  <2>1. SUFFICES ASSUME card[k] = card[m] PROVE FALSE
    OBVIOUS
  <2> DEFINE R == (1 .. 10) \ {m}
             f == [x \in R |-> card[x]]
  <2>2. IsFiniteSet(R) /\ Cardinality(R) = 9
    <3>1. IsFiniteSet(1 .. 10) /\ Cardinality(1 .. 10) = IF 1 > 10 THEN 0 ELSE 10 - 1 + 1
      <4>1. 1 \in Int /\ 10 \in Int
        OBVIOUS
      <4>2. QED
        BY <4>1, FS_Interval, Zenon
    <3>2. QED
      BY <3>1, FS_RemoveElement
  <2>3. U = {f[x] : x \in R}
    <3>1. ASSUME NEW u \in U PROVE \E x \in R : u = f[x]
      <4>1. PICK y \in 1 .. 10 : u = card[y]
        <5>1. CASE \E i \in 1 .. 5 : u = d[1][i]
          BY <5>1
        <5>2. CASE \E i \in 1 .. 5 : u = d[2][i]
          <6>1. PICK i \in 1 .. 5 : u = d[2][i]
            BY <5>2
          <6>2. i + 5 \in 1 .. 10 /\ card[i + 5] = u
            BY <6>1
          <6>3. QED
            BY <6>2
        <5>3. QED
          BY <5>1, <5>2
      <4>2. CASE y = m
        BY <1>2, <2>1, <4>1, <4>2
      <4>3. CASE y # m
        BY <4>1, <4>3
      <4>4. QED
        BY <4>2, <4>3
    <3>2. ASSUME NEW x \in R PROVE f[x] \in U
      BY <3>2
    <3>3. QED
      <4> HIDE DEF U, f
      <4> QED BY <3>1, <3>2
  <2>4. f \in Surjection(R, U)
    <3>1. f \in [R -> U]
      <4>1. \A x \in R : f[x] \in U
        <5> HIDE DEF f, U
        <5> QED BY <2>3
      <4>2. QED
        <5> HIDE DEF U
        <5> QED BY <4>1
    <3> HIDE DEF f, U, R
    <3>2. QED BY <2>3, <3>1 DEF Surjection
  <2>5. Cardinality(U) <= Cardinality(R)
    BY <2>2, <2>4, FS_Surjection
  <2>6. QED
    BY <1>1, <2>2, <2>5
<1>3. QED
  <2>1. ASSUME NEW i \in 1 .. 5, NEW j \in 1 .. 5 PROVE d[1][i] # d[2][j]
    BY <1>2 DEF card
  <2>2. QED
    BY <1>1, <1>2, <2>1 DEF Apart

\* The cards of a hand are cards.
LEMMA HandFacts ==
  ASSUME NEW cards \in Hand, NEW i \in 1 .. 5
  PROVE  cards[i].num \in 1 .. 13 /\ cards[i].color \in 1 .. 4 /\ cards[i] \in Card
BY DEF Hand, Card, A, K

\* The numbers of a hand.
LEMMA NumsOf ==
  ASSUME NEW cards \in Hand
  PROVE  /\ Nums(cards) \in SUBSET (1 .. 13) /\ cards[1].num \in Nums(cards)
         /\ Nums(cards) = {cards[1].num, cards[2].num, cards[3].num, cards[4].num, cards[5].num}
         /\ Nums(cards) # {}
<1>1. \A n \in Nums(cards) : n \in 1 .. 13
  BY HandFacts DEF Nums
<1>2. QED
  BY <1>1 DEF Nums

\* One card is known by its number and its colour.
LEMMA OneCard ==
  ASSUME NEW x \in Card, NEW y \in Card, x.num = y.num, x.color = y.color
  PROVE  x = y
BY DEF Card

\* Three cards of a number are three places of the hand.
LEMMA ThreeOf ==
  ASSUME NEW cards, NEW n, Count(cards, n) >= 3
  PROVE  \E i, j, k \in 1 .. 5 : /\ i # j /\ i # k /\ j # k
                                 /\ cards[i].num = n /\ cards[j].num = n /\ cards[k].num = n
<1> DEFINE S == {i \in 1 .. 5 : cards[i].num = n}
<1>1. Is(1 \in S) + Is(2 \in S) + Is(3 \in S) + Is(4 \in S) + Is(5 \in S) >= 3
  BY CountIs DEF Is
<1>2. \E i, j, k \in S : i # j /\ i # k /\ j # k
  <2> HIDE DEF S
  <2> QED BY <1>1 DEF Is
<1>3. QED
  BY <1>2

\* There are four colours, so no two hands have three cards of one number each.
LEMMA NotBothThree ==
  ASSUME NEW b, NEW p, Apart(b, p), NEW n
  PROVE  ~ (Count(b, n) >= 3 /\ Count(p, n) >= 3)
<1>1. SUFFICES ASSUME Count(b, n) >= 3, Count(p, n) >= 3 PROVE FALSE
  OBVIOUS
<1>2. PICK i, j, k \in 1 .. 5 : /\ i # j /\ i # k /\ j # k
                                /\ b[i].num = n /\ b[j].num = n /\ b[k].num = n
  BY <1>1, ThreeOf
<1>3. PICK x, y, z \in 1 .. 5 : /\ x # y /\ x # z /\ y # z
                                /\ p[x].num = n /\ p[y].num = n /\ p[z].num = n
  BY <1>1, ThreeOf
<1>4. /\ b \in Hand /\ p \in Hand
      /\ b[i] # b[j] /\ b[i] # b[k] /\ b[j] # b[k]
      /\ b[i] # p[x] /\ b[j] # p[x] /\ b[k] # p[x]
      /\ b[i] # p[y] /\ b[j] # p[y] /\ b[k] # p[y]
      /\ p[x] # p[y]
  BY <1>2, <1>3 DEF Apart
<1>5. /\ b[i].color \in 1 .. 4 /\ b[j].color \in 1 .. 4 /\ b[k].color \in 1 .. 4
      /\ p[x].color \in 1 .. 4 /\ p[y].color \in 1 .. 4
      /\ b[i] \in Card /\ b[j] \in Card /\ b[k] \in Card /\ p[x] \in Card /\ p[y] \in Card
  BY <1>4, HandFacts
<1>6. /\ b[i].color # b[j].color /\ b[i].color # b[k].color /\ b[j].color # b[k].color
      /\ b[i].color # p[x].color /\ b[j].color # p[x].color /\ b[k].color # p[x].color
      /\ b[i].color # p[y].color /\ b[j].color # p[y].color /\ b[k].color # p[y].color
      /\ p[x].color # p[y].color
  BY <1>2, <1>3, <1>4, <1>5, OneCard
<1>7. QED
  BY <1>5, <1>6

-----------------------------------------------------------------------------
(* Types up to niu.                                                         *)

\* Points give a type from 1 to niu.
LEMMA PointsRange ==
  ASSUME NEW n \in Int
  PROVE  Points(n) \in 1 .. 10
<1>1. n % 10 \in 0 .. 9
  OBVIOUS
<1>2. QED
  BY <1>1 DEF Points, niu

\* The value of a card is a number.
LEMMA ValueRange ==
  ASSUME NEW cards \in Hand, NEW i \in 1 .. 5
  PROVE  Value(cards[i]) \in Int
<1>1. cards[i].num \in Int
  BY HandFacts
<1>2. QED
  BY <1>1 DEF Value

\* NormalCardType gives no more than niu.
LEMMA NormalRange ==
  ASSUME NEW cards \in Hand
  PROVE  NormalCardType(cards) \in 0 .. 10
<1>1. \A i \in 1 .. 5 : Value(cards[i]) \in Int
  BY ValueRange
<1>2. Total(cards) \in Int
  BY <1>1 DEF Total
<1>3. ASSUME NEW t \in Triple PROVE Sum(cards, t) \in Int
  <2>1. t[1] \in 1 .. 5 /\ t[2] \in 1 .. 5 /\ t[3] \in 1 .. 5
    BY DEF Triple
  <2>2. QED
    BY <1>1, <2>1 DEF Sum
<1>4. ASSUME NEW type \in NormalTypes(cards) PROVE type \in 0 .. 10
  <2>1. PICK t \in Triple : type = Points(Total(cards) - Sum(cards, t))
    BY DEF NormalTypes
  <2>2. Total(cards) - Sum(cards, t) \in Int
    BY <1>2, <1>3
  <2>3. type \in 1 .. 10
    BY <2>1, <2>2, PointsRange
  <2>4. QED
    BY <2>3
<1>5. NormalTypes(cards) \in SUBSET (0 .. 10) /\ 10 \in Nat
  BY <1>4
<1>6. NormalTypes(cards) # {} => Max(NormalTypes(cards)) \in NormalTypes(cards)
  BY <1>5, MaxExists
<1>7. QED
  BY <1>5, <1>6 DEF NormalCardType

\* Each number of the sorted hand is one of the hand.
LEMMA StoredIn ==
  ASSUME NEW cards \in Hand, NEW i \in 1 .. 5
  PROVE  StoredNums(cards)[i] \in Nums(cards)
<1> DEFINE nums == Nums(cards)
           top == Max(nums)
           upTo == [n \in nums |-> Cardinality({j \in 1 .. 5 : cards[j].num <= n})]
<1>1. nums \in SUBSET (0 .. 13) /\ nums # {} /\ 13 \in Nat
  BY NumsOf
<1>2. top \in nums /\ \A n \in nums : top >= n
  BY <1>1, MaxExists
<1>3. {j \in 1 .. 5 : cards[j].num <= top} = 1 .. 5
  <2>1. \A j \in 1 .. 5 : cards[j].num \in nums /\ cards[j].num \in Int
    BY HandFacts DEF Nums
  <2>2. \A j \in 1 .. 5 : cards[j].num <= top
    BY <1>1, <1>2, <2>1
  <2>3. QED
    BY <2>2
<1>4. Cardinality(1 .. 5) = 5
  <2>1. 1 .. 5 \in SUBSET (1 .. 5)
    OBVIOUS
  <2>2. Cardinality(1 .. 5) = Is(1 \in 1 .. 5) + Is(2 \in 1 .. 5) + Is(3 \in 1 .. 5)
                                + Is(4 \in 1 .. 5) + Is(5 \in 1 .. 5)
    BY <2>1, CardinalityOfFive
  <2>3. QED
    BY <2>2 DEF Is
<1>5. upTo[top] = 5
  BY <1>2, <1>3, <1>4
<1> DEFINE reached == {n \in nums : upTo[n] >= i}
<1>6. top \in reached /\ reached \in SUBSET Nat
  <2>1. \A n \in nums : n \in Nat
    BY <1>1
  <2> HIDE DEF nums, top, upTo
  <2>2. QED
    BY <1>2, <1>5, <2>1
<1>7. Min(reached) \in reached
  <2> HIDE DEF reached
  <2> QED BY <1>6, MinExists
<1>8. StoredNums(cards)[i] = Min(reached)
  BY DEF StoredNums
<1>9. QED
  BY <1>7, <1>8

\* Shun gives no more than niu.
LEMMA ShunRange ==
  ASSUME NEW cards \in Hand
  PROVE  Shun(cards) \in 0 .. 10
<1> DEFINE s == StoredNums(cards)
           Small(i) == IF s[i] < 10 THEN s[i] ELSE 10
<1>1. \A i \in 1 .. 5 : Small(i) \in Int
  <2>1. \A i \in 1 .. 5 : s[i] \in Int
    BY StoredIn, NumsOf
  <2>2. QED
    BY <2>1
<1>2. ASSUME NEW t \in ShunSplits(cards) PROVE t[4] \in 1 .. 5 /\ t[5] \in 1 .. 5
  BY DEF ShunSplits
<1>3. ASSUME NEW type \in ShunTypes(cards) PROVE type \in 0 .. 10
  <2>1. PICK t \in ShunSplits(cards) : type = Points(Small(t[4]) + Small(t[5]))
    BY DEF ShunTypes
  <2> HIDE DEF Small
  <2>2. Small(t[4]) + Small(t[5]) \in Int
    BY <1>1, <1>2
  <2>3. type \in 1 .. 10
    BY <2>1, <2>2, PointsRange
  <2>4. QED
    BY <2>3
<1>4. ShunTypes(cards) \in SUBSET (0 .. 10) /\ 10 \in Nat
  BY <1>3
<1>5. ShunTypes(cards) # {} => Max(ShunTypes(cards)) \in ShunTypes(cards)
  BY <1>4, MaxExists
<1>6. QED
  BY <1>4, <1>5 DEF Shun

\* The number that a sum takes first.
Chosen(s) == CHOOSE x \in s : TRUE

\* g has the sums over the parts of S, taken element by element.
SumsUp(S, g) ==
  g = [s \in SUBSET S |-> IF s = {} THEN 0 ELSE Chosen(s) + g[s \ {Chosen(s)}]]

\* SumSet is the last of the sums of such a g.
LEMMA SumSetIs ==
  ASSUME NEW S
  PROVE  SumSet(S) = (CHOOSE g : SumsUp(S, g))[S]
BY DEF SumSet, FoldSet, MapThenFoldSet, SumsUp, Chosen

\* The sum of at most two numbers is a number.
LEMMA SumOfTwo ==
  ASSUME NEW a \in Int, NEW b \in Int, NEW S \in SUBSET {a, b}
  PROVE  SumSet(S) \in Int
<1> DEFINE Last(r) == IF r = {} THEN 0 ELSE Chosen(r) + 0
           g == [s \in SUBSET S |-> IF s = {} THEN 0 ELSE Chosen(s) + Last(s \ {Chosen(s)})]
           h == CHOOSE f : SumsUp(S, f)
<1>1. ASSUME NEW s \in SUBSET S, s # {}
      PROVE  /\ Chosen(s) \in s /\ Chosen(s) \in Int
             /\ s \ {Chosen(s)} \in SUBSET S
             /\ \A x, y \in s \ {Chosen(s)} : x = y
  BY <1>1 DEF Chosen
<1>2. SumsUp(S, g)
  <2>1. ASSUME NEW s \in SUBSET S
        PROVE  g[s] = IF s = {} THEN 0 ELSE Chosen(s) + g[s \ {Chosen(s)}]
    <3>1. CASE s = {}
      BY <3>1
    <3>2. CASE s # {}
      <4> DEFINE r == s \ {Chosen(s)}
      <4>1. r \in SUBSET S /\ (r # {} => r \ {Chosen(r)} = {})
        <5>1. r \in SUBSET S /\ \A x, y \in r : x = y
          BY <1>1, <3>2
        <5>2. r # {} => Chosen(r) \in r
          BY DEF Chosen
        <5> HIDE DEF r
        <5>3. QED
          BY <5>1, <5>2
      <4>2. g[r] = Last(r)
        <5>1. g[r] = IF r = {} THEN 0 ELSE Chosen(r) + Last(r \ {Chosen(r)})
          BY <4>1
        <5>2. r # {} => Last(r \ {Chosen(r)}) = 0
          BY <4>1
        <5> HIDE DEF g, r
        <5>3. QED
          BY <5>1, <5>2
      <4>3. g[s] = Chosen(s) + Last(r)
        BY <3>2
      <4>4. QED
        <5> HIDE DEF g, Last
        <5> QED
          BY <3>2, <4>2, <4>3
    <3>3. QED
      BY <3>1, <3>2
  <2>2. g = [s \in SUBSET S |-> g[s]]
    OBVIOUS
  <2>3. QED
    <3> HIDE DEF g
    <3> QED
      BY <2>1, <2>2 DEF SumsUp
<1>3. SumsUp(S, h)
  <2> HIDE DEF g
  <2> QED BY <1>2
<1>4. SumSet(S) = h[S]
  BY SumSetIs
<1> HIDE DEF g, h
<1>5. \A s \in SUBSET S : h[s] = IF s = {} THEN 0 ELSE Chosen(s) + h[s \ {Chosen(s)}]
  BY <1>3 DEF SumsUp
<1>6. CASE S = {}
  <2>1. h[{}] = 0
    BY <1>5
  <2>2. QED
    BY <1>4, <1>6, <2>1
<1>7. CASE S # {}
  <2> DEFINE r == S \ {Chosen(S)}
  <2>1. r \in SUBSET S /\ (r # {} => r \ {Chosen(r)} = {}) /\ Chosen(S) \in Int
    <3>1. r \in SUBSET S /\ \A x, y \in r : x = y
      BY <1>1, <1>7
    <3>2. r # {} => Chosen(r) \in r
      BY DEF Chosen
    <3>3. Chosen(S) \in Int
      BY <1>1, <1>7
    <3> HIDE DEF r
    <3>4. QED
      BY <3>1, <3>2, <3>3
  <2>2. h[S] = Chosen(S) + h[r]
    BY <1>5, <1>7
  <2>3. h[{}] = 0
    BY <1>5
  <2>4. h[r] \in Int
    <3>1. CASE r = {}
      BY <2>3, <3>1
    <3>2. CASE r # {}
      <4>1. h[r] = Chosen(r) + h[r \ {Chosen(r)}] /\ Chosen(r) \in Int
        BY <1>1, <1>5, <2>1, <3>2
      <4> HIDE DEF r
      <4>2. QED
        BY <2>1, <2>3, <3>2, <4>1
    <3>3. QED
      BY <3>1, <3>2
  <2>5. QED
    BY <1>4, <2>1, <2>2, <2>4
<1>8. QED
  BY <1>6, <1>7

\* Kan gives no more than niu. Two cards at most are left to add up, so it does not
\* matter in which order.
LEMMA KanRange ==
  ASSUME NEW cards \in Hand
  PROVE  Kan(cards) \in 0 .. 10
<1> DEFINE values == {Value(cards[i]) : i \in 1 .. 5}
           Of(v) == {i \in 1 .. 5 : Value(cards[i]) = v}
           threes == {v \in values : Cardinality(Of(v)) > 2}
<1>1. \A i \in 1 .. 5 : Value(cards[i]) \in Int
  BY ValueRange
<1>2. ASSUME threes # {}
      PROVE  SumSet(values \ threes) \in Int
  <2>1. PICK v \in threes : TRUE
    BY <1>2
  <2>2. Is(1 \in Of(v)) + Is(2 \in Of(v)) + Is(3 \in Of(v)) + Is(4 \in Of(v)) + Is(5 \in Of(v)) > 2
    <3>1. Of(v) \in SUBSET (1 .. 5) /\ Cardinality(Of(v)) > 2
      BY <2>1
    <3> HIDE DEF Of
    <3>2. QED
      BY <3>1, CardinalityOfFive
  <2>3. \E k, m \in 1 .. 5 : \A i \in 1 .. 5 : i = k \/ i = m \/ i \in Of(v)
    <3> HIDE DEF Of
    <3> QED BY <2>2 DEF Is
  <2>4. PICK k, m \in 1 .. 5 : \A i \in 1 .. 5 : i = k \/ i = m \/ Value(cards[i]) = v
    BY <2>3
  <2>5. values \ threes \in SUBSET {Value(cards[k]), Value(cards[m])}
    <3>1. ASSUME NEW x \in values, x \notin threes
          PROVE  x = Value(cards[k]) \/ x = Value(cards[m])
      <4>1. PICK i \in 1 .. 5 : x = Value(cards[i])
        BY <3>1
      <4>2. x # v
        BY <2>1, <3>1
      <4>3. QED
        BY <2>4, <4>1, <4>2
    <3>2. QED
      <4> HIDE DEF values, threes
      <4> QED BY <3>1
  <2> HIDE DEF values, threes
  <2>6. QED
    BY <1>1, <2>5, SumOfTwo
<1>3. Kan(cards) = IF threes = {} THEN niu ELSE Points(SumSet(values \ threes))
  BY DEF Kan
<1>4. \A n \in Int : Points(n) \in 0 .. 10
  <2>1. \A n \in Int : Points(n) \in 1 .. 10
    BY PointsRange
  <2>2. QED
    BY <2>1
<1> HIDE DEF values, threes
<1>5. QED
  BY <1>2, <1>3, <1>4 DEF niu

\* A hand has the numbers of the highest sequence exactly if its sorted numbers are it.
LEMMA MaxSeqIs ==
  ASSUME NEW cards \in Hand
  PROVE  isMaxSeq(cards) <=> Nums(cards) = {A, 10, J, Q, K}
<1> DEFINE n == [i \in 1 .. 5 |-> cards[i].num]
           s == StoredNums(cards)
<1>1. /\ n[1] \in 1 .. 13 /\ n[2] \in 1 .. 13 /\ n[3] \in 1 .. 13
      /\ n[4] \in 1 .. 13 /\ n[5] \in 1 .. 13
      /\ Nums(cards) = {n[1], n[2], n[3], n[4], n[5]}
  BY HandFacts, NumsOf
<1>2. ASSUME isMaxSeq(cards)
      PROVE  Nums(cards) = {1, 10, 11, 12, 13}
  <2>1. s = <<1, 10, 11, 12, 13>>
    BY <1>2 DEF isMaxSeq, A, J, Q, K
  <2>2. /\ s[1] \in Nums(cards) /\ s[2] \in Nums(cards) /\ s[3] \in Nums(cards)
        /\ s[4] \in Nums(cards) /\ s[5] \in Nums(cards)
    BY StoredIn
  <2>3. /\ 1 \in Nums(cards) /\ 10 \in Nums(cards) /\ 11 \in Nums(cards)
        /\ 12 \in Nums(cards) /\ 13 \in Nums(cards)
    <3> HIDE DEF s
    <3> QED BY <2>1, <2>2
  <2> HIDE DEF n
  <2>4. \A i \in 1 .. 5 : n[i] \in {1, 10, 11, 12, 13}
    BY <1>1, <2>3
  <2>5. QED
    BY <1>1, <2>3, <2>4
<1>3. ASSUME Nums(cards) = {1, 10, 11, 12, 13}
      PROVE  isMaxSeq(cards)
  <2> DEFINE upTo == [m \in Nums(cards) |-> Cardinality({j \in 1 .. 5 : cards[j].num <= m})]
  <2>1. \A m \in Nums(cards) :
          upTo[m] = Is(n[1] <= m) + Is(n[2] <= m) + Is(n[3] <= m) + Is(n[4] <= m) + Is(n[5] <= m)
    <3>1. ASSUME NEW m \in Nums(cards)
          PROVE  upTo[m] = Is(n[1] <= m) + Is(n[2] <= m) + Is(n[3] <= m) + Is(n[4] <= m) + Is(n[5] <= m)
      <4> DEFINE S == {j \in 1 .. 5 : cards[j].num <= m}
      <4>1. Cardinality(S) = Is(1 \in S) + Is(2 \in S) + Is(3 \in S) + Is(4 \in S) + Is(5 \in S)
        BY CardinalityOfFive
      <4>2. QED
        BY <4>1 DEF Is
    <3>2. QED
      BY <3>1
  <2>2. upTo[1] = 1 /\ upTo[10] = 2 /\ upTo[11] = 3 /\ upTo[12] = 4 /\ upTo[13] = 5
    <3> HIDE DEF n, upTo
    <3> QED BY <1>1, <1>3, <2>1 DEF Is
  <2> DEFINE reached(i) == {m \in Nums(cards) : upTo[m] >= i}
  <2>3. /\ reached(1) = {1, 10, 11, 12, 13} /\ reached(2) = {10, 11, 12, 13}
        /\ reached(3) = {11, 12, 13} /\ reached(4) = {12, 13} /\ reached(5) = {13}
    <3> HIDE DEF upTo
    <3> QED BY <1>3, <2>2
  <2>4. \A i \in 1 .. 5 : s[i] = Min(reached(i))
    BY DEF StoredNums
  <2>5. s = [i \in 1 .. 5 |-> Min(reached(i))]
    BY DEF StoredNums
  <2> HIDE DEF reached, s
  <2>6. s[1] = 1 /\ s[2] = 10 /\ s[3] = 11 /\ s[4] = 12 /\ s[5] = 13
    BY <2>3, <2>4, MinExists
  <2>7. s = <<1, 10, 11, 12, 13>>
    BY <2>5, <2>6
  <2>8. QED
    BY <2>7 DEF isMaxSeq, s, A, J, Q, K
<1>4. QED
  BY <1>2, <1>3 DEF A, J, Q, K

-----------------------------------------------------------------------------
(* The order of two hands of one type.                                      *)

\* The colours of a hand's cards of one number.
ColorsOf(cards, n) == {cards[i].color : i \in {j \in 1 .. 5 : cards[j].num = n}}

\* The highest of the hand's cards of one number is a card of it.
LEMMA TopColor ==
  ASSUME NEW cards \in Hand, NEW n \in Nums(cards)
  PROVE  /\ Max(ColorsOf(cards, n)) \in 1 .. 4
         /\ \E i \in 1 .. 5 : cards[i].num = n /\ cards[i].color = Max(ColorsOf(cards, n))
<1>1. ColorsOf(cards, n) \in SUBSET (0 .. 4) /\ 4 \in Nat
  <2>1. \A c \in ColorsOf(cards, n) : c \in 1 .. 4
    BY HandFacts DEF ColorsOf
  <2>2. QED
    BY <2>1
<1>2. ColorsOf(cards, n) # {}
  BY DEF ColorsOf, Nums
<1>3. Max(ColorsOf(cards, n)) \in ColorsOf(cards, n)
  BY <1>1, <1>2, MaxExists
<1>4. PICK i \in 1 .. 5 : cards[i].num = n /\ cards[i].color = Max(ColorsOf(cards, n))
  BY <1>3 DEF ColorsOf
<1>5. QED
  BY <1>4, HandFacts

\* A hand has a highest number.
LEMMA TopNum ==
  ASSUME NEW cards \in Hand
  PROVE  Max(Nums(cards)) \in Nums(cards) /\ Max(Nums(cards)) \in 1 .. 13
<1>1. Nums(cards) \in SUBSET (1 .. 13) /\ Nums(cards) # {}
  BY NumsOf
<1>2. Nums(cards) \in SUBSET (0 .. 13) /\ 13 \in Nat
  BY <1>1
<1>3. QED
  BY <1>1, <1>2, MaxExists

\* What the highest card of a hand counts.
Top(cards) == 4 * Max(Nums(cards)) + Max(ColorsOf(cards, Max(Nums(cards))))

\* The bounds of it.
LEMMA TopRange ==
  ASSUME NEW cards \in Hand
  PROVE  Top(cards) \in 5 .. 56
<1>1. Max(Nums(cards)) \in 1 .. 13 /\ Max(ColorsOf(cards, Max(Nums(cards)))) \in 1 .. 4
  BY TopNum, TopColor
<1>2. QED
  BY <1>1 DEF Top

\* Cards of two hands that are of one number differ in colour.
LEMMA ColorsDiffer ==
  ASSUME NEW b, NEW p, Apart(b, p), NEW i \in 1 .. 5, NEW j \in 1 .. 5, b[i].num = p[j].num
  PROVE  b[i].color # p[j].color
BY HandFacts, OneCard DEF Apart

\* The highest cards decide, and they differ.
LEMMA CompareTops ==
  ASSUME NEW b, NEW p, Apart(b, p)
  PROVE  /\ compare(getMaxCard(b), getMaxCard(p)) <=> Top(b) > Top(p)
         /\ Top(b) # Top(p)
<1> DEFINE m == Max(Nums(b))
           n == Max(Nums(p))
           c == Max(ColorsOf(b, m))
           d == Max(ColorsOf(p, n))
<1>0. b \in Hand /\ p \in Hand
  BY DEF Apart
<1>1. m \in Nums(b) /\ m \in 1 .. 13 /\ n \in Nums(p) /\ n \in 1 .. 13
  BY <1>0, TopNum
<1>2. /\ c \in 1 .. 4 /\ \E i \in 1 .. 5 : b[i].num = m /\ b[i].color = c
      /\ d \in 1 .. 4 /\ \E i \in 1 .. 5 : p[i].num = n /\ p[i].color = d
  <2> HIDE DEF m, n
  <2> QED BY <1>0, <1>1, TopColor
<1>3. m = n => c # d
  <2> HIDE DEF m, n, c, d
  <2> QED BY <1>2, ColorsDiffer
<1>4. Top(b) = 4 * m + c /\ Top(p) = 4 * n + d
  BY DEF Top
<1>5. getMaxCard(b) = [num |-> m, color |-> c] /\ getMaxCard(p) = [num |-> n, color |-> d]
  BY DEF getMaxCard, ColorsOf
<1>6. compare(getMaxCard(b), getMaxCard(p)) <=> m > n \/ (m = n /\ c > d)
  BY <1>5 DEF compare
<1> HIDE DEF m, n, c, d
<1>7. QED
  BY <1>1, <1>2, <1>3, <1>4, <1>6

\* What a hand counts among those of its type, when the aces do or do not come first.
Weight(first, cards) == IF first THEN 56 + Max(ColorsOf(cards, A)) ELSE Top(cards)

\* compareHulu and compareSeq put the hands in the order of their weights, if the
\* colour of the first ace is that of the highest one where that matters.
LEMMA MaxDecides ==
  ASSUME NEW b, NEW p, Apart(b, p), NEW bMax \in BOOLEAN, NEW pMax \in BOOLEAN,
         bMax => A \in Nums(b), pMax => A \in Nums(p),
         bMax /\ pMax => /\ AceColor(b) = Max(ColorsOf(b, A))
                         /\ AceColor(p) = Max(ColorsOf(p, A))
  PROVE  /\ CompareMax(bMax, pMax, b, p) <=> Weight(bMax, b) > Weight(pMax, p)
         /\ Weight(bMax, b) # Weight(pMax, p)
<1> DEFINE c == Max(ColorsOf(b, A))
           d == Max(ColorsOf(p, A))
<1>0. b \in Hand /\ p \in Hand
  BY DEF Apart
<1>1. /\ bMax => c \in 1 .. 4 /\ \E i \in 1 .. 5 : b[i].num = A /\ b[i].color = c
      /\ pMax => d \in 1 .. 4 /\ \E i \in 1 .. 5 : p[i].num = A /\ p[i].color = d
  BY <1>0, TopColor
<1>2. bMax /\ pMax => c # d
  <2> HIDE DEF c, d
  <2> QED BY <1>1, ColorsDiffer
<1>3. Top(b) \in 5 .. 56 /\ Top(p) \in 5 .. 56
  BY <1>0, TopRange
<1>4. /\ compare(getMaxCard(b), getMaxCard(p)) <=> Top(b) > Top(p)
      /\ Top(b) # Top(p)
  BY CompareTops
<1>5. CompareMax(bMax, pMax, b, p) <=>
        IF bMax /\ pMax THEN c > d ELSE bMax \/ (~pMax /\ Top(b) > Top(p))
  BY <1>4 DEF CompareMax
<1>6. /\ Weight(bMax, b) = IF bMax THEN 56 + c ELSE Top(b)
      /\ Weight(pMax, p) = IF pMax THEN 56 + d ELSE Top(p)
  BY DEF Weight
<1> HIDE DEF c, d
<1>7. CASE bMax /\ pMax
  <2>1. c \in 1 .. 4 /\ d \in 1 .. 4 /\ c # d
    BY <1>1, <1>2, <1>7
  <2>2. CompareMax(bMax, pMax, b, p) <=> c > d
    BY <1>5, <1>7
  <2>3. Weight(bMax, b) = 56 + c /\ Weight(pMax, p) = 56 + d
    BY <1>6, <1>7
  <2>4. QED
    BY <2>1, <2>2, <2>3
<1>8. CASE bMax /\ ~pMax
  <2>1. c \in 1 .. 4
    BY <1>1, <1>8
  <2>2. CompareMax(bMax, pMax, b, p)
    BY <1>5, <1>8
  <2>3. Weight(bMax, b) = 56 + c /\ Weight(pMax, p) = Top(p)
    BY <1>6, <1>8
  <2>4. QED
    BY <1>3, <2>1, <2>2, <2>3
<1>9. CASE ~bMax /\ pMax
  <2>1. d \in 1 .. 4
    BY <1>1, <1>9
  <2>2. ~CompareMax(bMax, pMax, b, p)
    BY <1>5, <1>9
  <2>3. Weight(bMax, b) = Top(b) /\ Weight(pMax, p) = 56 + d
    BY <1>6, <1>9
  <2>4. QED
    BY <1>3, <2>1, <2>2, <2>3
<1>10. CASE ~bMax /\ ~pMax
  BY <1>3, <1>4, <1>5, <1>6, <1>10
<1>11. QED
  BY <1>7, <1>8, <1>9, <1>10

\* The highest sequence has one ace.
LEMMA OneAce ==
  ASSUME NEW cards \in Hand, Nums(cards) = {A, 10, J, Q, K}
  PROVE  AceColor(cards) = Max(ColorsOf(cards, A))
<1> DEFINE n == [i \in 1 .. 5 |-> cards[i].num]
<1>1. {n[1], n[2], n[3], n[4], n[5]} = {1, 10, 11, 12, 13}
  BY NumsOf DEF A, J, Q, K
<1>2. PICK k \in 1 .. 5 : \A i \in 1 .. 5 : n[i] = 1 <=> i = k
  <2> HIDE DEF n
  <2> QED BY <1>1
<1>3. {i \in 1 .. 5 : cards[i].num = A} = {k}
  BY <1>2 DEF A
<1>4. Min({k}) = k
  BY DEF Min
<1>5. ColorsOf(cards, A) = {cards[k].color}
  BY <1>3 DEF ColorsOf
<1>6. Max({cards[k].color}) = cards[k].color
  BY DEF Max
<1>7. QED
  BY <1>3, <1>4, <1>5, <1>6 DEF AceColor

\* The sequences, of one colour or not.
LEMMA SeqDecides ==
  ASSUME NEW b, NEW p, Apart(b, p)
  PROVE  LET w(cards) == Weight(Nums(cards) = {A, 10, J, Q, K}, cards)
         IN  (compareSeq(b, p) <=> w(b) > w(p)) /\ w(b) # w(p)
<1> DEFINE bMax == Nums(b) = {A, 10, J, Q, K}
           pMax == Nums(p) = {A, 10, J, Q, K}
<1>0. b \in Hand /\ p \in Hand
  BY DEF Apart
<1>1. (isMaxSeq(b) <=> bMax) /\ (isMaxSeq(p) <=> pMax)
  BY <1>0, MaxSeqIs
<1>2. (bMax => A \in Nums(b)) /\ (pMax => A \in Nums(p))
  OBVIOUS
<1>3. bMax /\ pMax => /\ AceColor(b) = Max(ColorsOf(b, A))
                      /\ AceColor(p) = Max(ColorsOf(p, A))
  BY <1>0, OneAce
<1>4. compareSeq(b, p) <=> CompareMax(bMax, pMax, b, p)
  BY <1>1 DEF compareSeq, CompareMax
<1>5. bMax \in BOOLEAN /\ pMax \in BOOLEAN
  OBVIOUS
<1> HIDE DEF bMax, pMax
<1>6. /\ CompareMax(bMax, pMax, b, p) <=> Weight(bMax, b) > Weight(pMax, p)
      /\ Weight(bMax, b) # Weight(pMax, p)
  BY <1>2, <1>3, <1>5, MaxDecides
<1>7. QED
  BY <1>4, <1>6 DEF bMax, pMax

\* A hulu of three aces has one other number.
LEMMA MaxHuluIs ==
  ASSUME NEW cards \in Hand, HuluCardType(cards)
  PROVE  isMaxHulu(cards) <=> Count(cards, A) = 3
<1> DEFINE n == [i \in 1 .. 5 |-> cards[i].num]
<1>1. SUFFICES ASSUME Count(cards, A) = 3 PROVE Cardinality(Nums(cards)) = 2
  BY DEF isMaxHulu
<1>2. Nums(cards) = {n[1], n[2], n[3], n[4], n[5]}
  BY NumsOf
<1>3. \A v : Count(cards, v) = Is(n[1] = v) + Is(n[2] = v) + Is(n[3] = v) + Is(n[4] = v) + Is(n[5] = v)
  BY CountIs
<1>4. \A v \in Nums(cards) : Count(cards, v) # 1
  BY DEF HuluCardType
<1>5. \E k \in 1 .. 5 : n[k] # A /\ \A i \in 1 .. 5 : n[i] = A \/ n[i] = n[k]
  <2> HIDE DEF n
  <2> QED BY <1>1, <1>2, <1>3, <1>4 DEF Is
<1>6. \E i \in 1 .. 5 : n[i] = A
  <2> HIDE DEF n
  <2> QED BY <1>1, <1>3 DEF Is
<1>7. PICK m : m # A /\ Nums(cards) = {A} \cup {m}
  <2> HIDE DEF n
  <2> QED BY <1>2, <1>5, <1>6
<1>8. IsFiniteSet({A}) /\ Cardinality({A}) = 1
  BY FS_Singleton
<1>9. Cardinality({A} \cup {m}) = 2
  BY <1>7, <1>8, FS_AddElement
<1>10. QED
  BY <1>7, <1>9

\* Two hulus.
LEMMA HuluDecides ==
  ASSUME NEW b, NEW p, Apart(b, p), HuluCardType(b), HuluCardType(p)
  PROVE  LET w(cards) == Weight(Count(cards, A) = 3, cards)
         IN  (compareHulu(b, p) <=> w(b) > w(p)) /\ w(b) # w(p)
<1> DEFINE bMax == Count(b, A) = 3
           pMax == Count(p, A) = 3
<1>0. b \in Hand /\ p \in Hand
  BY DEF Apart
<1>1. (isMaxHulu(b) <=> bMax) /\ (isMaxHulu(p) <=> pMax)
  BY <1>0, MaxHuluIs
<1>2. (bMax => A \in Nums(b)) /\ (pMax => A \in Nums(p))
  <2>1. ASSUME NEW cards, Count(cards, A) = 3 PROVE A \in Nums(cards)
    <3>1. Count(cards, A) >= 3
      BY <2>1
    <3>2. QED
      BY <3>1, ThreeOf DEF Nums
  <2>2. QED
    BY <2>1
<1>3. ~ (bMax /\ pMax)
  BY NotBothThree
<1>4. compareHulu(b, p) <=> CompareMax(bMax, pMax, b, p)
  BY <1>1 DEF compareHulu, CompareMax
<1>5. bMax \in BOOLEAN /\ pMax \in BOOLEAN
  OBVIOUS
<1> HIDE DEF bMax, pMax
<1>6. /\ CompareMax(bMax, pMax, b, p) <=> Weight(bMax, b) > Weight(pMax, p)
      /\ Weight(bMax, b) # Weight(pMax, p)
  BY <1>2, <1>3, <1>5, MaxDecides
<1>7. QED
  BY <1>4, <1>6 DEF bMax, pMax

\* A bomb has four cards of one number only.
LEMMA BoomIs ==
  ASSUME NEW cards \in Hand, BoomCardType(cards)
  PROVE  /\ BoomNum(cards) \in 1 .. 13 /\ Count(cards, BoomNum(cards)) = 4
         /\ {n \in Nums(cards) : Count(cards, n) = 4} = {BoomNum(cards)}
<1>1. BoomNum(cards) \in Nums(cards) /\ Count(cards, BoomNum(cards)) = 4
  BY DEF BoomCardType, BoomNum
<1>2. ASSUME NEW m, NEW n, Count(cards, m) = 4, Count(cards, n) = 4
      PROVE  m = n
  BY <1>2, CountIs DEF Is
<1>3. BoomNum(cards) \in 1 .. 13
  BY <1>1, NumsOf
<1>4. QED
  BY <1>1, <1>2, <1>3

\* What a bomb counts.
BoomWeight(cards) == IF BoomNum(cards) = A THEN 4 * (K + 1) ELSE 4 * BoomNum(cards)

\* Two bombs.
LEMMA BoomDecides ==
  ASSUME NEW b, NEW p, Apart(b, p), BoomCardType(b), BoomCardType(p)
  PROVE  /\ compareBoom(b, p) <=> BoomWeight(b) > BoomWeight(p)
         /\ BoomWeight(b) # BoomWeight(p)
<1>1. /\ BoomNum(b) \in 1 .. 13 /\ Count(b, BoomNum(b)) = 4
      /\ BoomNum(p) \in 1 .. 13 /\ Count(p, BoomNum(p)) = 4
  BY BoomIs DEF Apart
<1>2. BoomNum(b) # BoomNum(p)
  <2>1. Count(b, BoomNum(b)) >= 3 /\ Count(p, BoomNum(p)) >= 3
    BY <1>1
  <2>2. QED
    BY <2>1, NotBothThree
<1>3. QED
  BY <1>1, <1>2 DEF compareBoom, BoomWeight, A, K

\* A special type is the one that SpecialCardType found; the other types are normal.
LEMMA TypeOfSettled ==
  ASSUME NEW cards \in Hand, kan \in BOOLEAN, shun \in BOOLEAN, SettledType(cards) > 10
  PROVE  SettledType(cards) = SpecialCardType(cards)
<1> DEFINE special == SpecialCardType(cards)
           normal == NormalCardType(cards)
           type == IF special # 0 THEN special ELSE normal
<1>1. special \in Int
  BY DEF SpecialCardType, straightFlush, five, boom, hulu, sameFlower, fiveFlower, seq
<1>2. normal \in 0 .. 10 /\ Kan(cards) \in 0 .. 10 /\ Shun(cards) \in 0 .. 10
  BY NormalRange, KanRange, ShunRange
<1>3. CalCardType(cards) = type
  BY DEF CalCardType
<1>4. SettledType(cards) \in {type, Larger(type, Kan(cards)), Larger(type, Shun(cards)),
                              Larger(Larger(type, Kan(cards)), Shun(cards))}
  BY <1>3 DEF SettledType, PlainType, KanType, ShunType, KanShunType
<1>5. SettledType(cards) \in {type, Kan(cards), Shun(cards)}
  <2> HIDE DEF type
  <2> QED BY <1>4 DEF Larger
<1>6. SettledType(cards) = type /\ special # 0
  <2>1. SettledType(cards) # Kan(cards) /\ SettledType(cards) # Shun(cards) /\ SettledType(cards) # normal
    BY <1>2
  <2>2. QED
    BY <1>5, <2>1
<1>7. QED
  BY <1>6

\* What a type above niu says of the hand.
LEMMA TypeSays ==
  ASSUME NEW cards
  PROVE  /\ SpecialCardType(cards) = boom => BoomCardType(cards)
         /\ SpecialCardType(cards) = hulu => HuluCardType(cards)
BY DEF SpecialCardType, straightFlush, five, boom, hulu, sameFlower, fiveFlower, seq

\* Strength is the weight of the hand among those of its type.
LEMMA StrengthIs ==
  ASSUME NEW type \in Int, NEW cards
  PROVE  /\ type \in {seq, straightFlush} =>
              Strength(type, cards) = Weight(Nums(cards) = {A, 10, J, Q, K}, cards)
         /\ type = hulu => Strength(type, cards) = Weight(Count(cards, A) = 3, cards)
         /\ type = boom /\ cards \in Hand /\ BoomCardType(cards) =>
              Strength(type, cards) = BoomWeight(cards)
         /\ type \notin {seq, straightFlush, hulu, boom} => Strength(type, cards) = Top(cards)
<1> USE DEF seq, straightFlush, hulu, boom
<1> DEFINE aces == \/ type \in {seq, straightFlush} /\ Nums(cards) = {A, 10, J, Q, K}
                   \/ type = hulu /\ Count(cards, A) = 3
           four == {n \in Nums(cards) : Count(cards, n) = 4}
<1>1. type # boom => Strength(type, cards) = Weight(aces, cards)
  <2>1. CASE aces
    BY <2>1 DEF Strength, Weight, ColorsOf, K
  <2>2. CASE ~aces
    BY <2>2 DEF Strength, Weight, ColorsOf, Top
  <2>3. QED
    BY <2>1, <2>2
<1>2. type = boom =>
        Strength(type, cards) = IF four = {A} THEN 4 * (K + 1) ELSE 4 * Max(four)
  BY DEF Strength
<1>3. ASSUME cards \in Hand, BoomCardType(cards)
      PROVE  (IF four = {A} THEN 4 * (K + 1) ELSE 4 * Max(four)) = BoomWeight(cards)
  <2>1. BoomNum(cards) \in 1 .. 13 /\ four = {BoomNum(cards)}
    BY <1>3, BoomIs
  <2>2. Max({BoomNum(cards)}) = BoomNum(cards)
    BY DEF Max
  <2>3. four = {A} <=> BoomNum(cards) = A
    BY <2>1
  <2> HIDE DEF four
  <2>4. QED
    BY <2>1, <2>2, <2>3 DEF BoomWeight
<1>4. type \in {seq, straightFlush} => Weight(aces, cards) = Weight(Nums(cards) = {A, 10, J, Q, K}, cards)
  BY DEF Weight
<1>5. type = hulu => Weight(aces, cards) = Weight(Count(cards, A) = 3, cards)
  BY DEF Weight
<1>6. type \notin {seq, straightFlush, hulu, boom} => Weight(aces, cards) = Top(cards)
  BY DEF Weight
<1> HIDE DEF aces, four
<1>7. QED
  BY <1>1, <1>2, <1>3, <1>4, <1>5, <1>6

\* Between two hands of one heap and of one type, the stronger wins.
LEMMA StrongerWins ==
  ASSUME NEW b, NEW p, Apart(b, p), kan \in BOOLEAN, shun \in BOOLEAN,
         NEW type \in Int, SettledType(b) = type, SettledType(p) = type
  PROVE  /\ Wins(type, b, type, p) <=> Strength(type, b) > Strength(type, p)
         /\ Strength(type, b) # Strength(type, p)
<1>1. b \in Hand /\ p \in Hand
  BY DEF Apart
<1>2. type > 10 => SpecialCardType(b) = type /\ SpecialCardType(p) = type
  BY <1>1, TypeOfSettled
<1>3. CASE type = hulu
  <2>1. HuluCardType(b) /\ HuluCardType(p)
    BY <1>2, <1>3, TypeSays DEF hulu
  <2>2. Wins(type, b, type, p) <=> compareHulu(b, p)
    BY <1>3 DEF Wins, boom, hulu, seq, straightFlush
  <2>3. QED
    BY <1>3, <2>1, <2>2, HuluDecides, StrengthIs
<1>4. CASE type = boom
  <2>1. BoomCardType(b) /\ BoomCardType(p)
    BY <1>2, <1>4, TypeSays DEF boom
  <2>2. Wins(type, b, type, p) <=> compareBoom(b, p)
    BY <1>4 DEF Wins, boom, hulu, seq, straightFlush
  <2>3. QED
    BY <1>1, <1>4, <2>1, <2>2, BoomDecides, StrengthIs
<1>5. CASE type \in {seq, straightFlush}
  <2>1. Wins(type, b, type, p) <=> compareSeq(b, p)
    BY <1>5 DEF Wins, boom, hulu, seq, straightFlush
  <2>2. QED
    BY <1>5, <2>1, SeqDecides, StrengthIs
<1>6. CASE type \notin {seq, straightFlush, hulu, boom}
  <2>1. Wins(type, b, type, p) <=> compare(getMaxCard(b), getMaxCard(p))
    BY <1>6 DEF Wins
  <2>2. QED
    BY <1>6, <2>1, CompareTops, StrengthIs
<1>7. QED
  BY <1>3, <1>4, <1>5, <1>6

-----------------------------------------------------------------------------
(* The settlement.                                                          *)

\* From the deal on the two hold hands of one heap, and what is settled is what the
\* comparison of these hands finds.
SettledInv ==
  /\ kan \in BOOLEAN /\ shun \in BOOLEAN
  /\ status # "deal" => Apart(hand["banker"], hand["player"])
  /\ status = "over" =>
       LET b == SettledType(hand["banker"])
           p == SettledType(hand["player"])
       IN  settled = [banker |-> b, player |-> p,
                      win |-> Wins(b, hand["banker"], p, hand["player"])]

\* Every type is a number.
LEMMA TypeIsInt ==
  ASSUME NEW cards \in Hand, kan \in BOOLEAN, shun \in BOOLEAN
  PROVE  SettledType(cards) \in Int
<1>1. NormalCardType(cards) \in Int /\ Kan(cards) \in Int /\ Shun(cards) \in Int
  <2>1. NormalCardType(cards) \in 0 .. 10 /\ Kan(cards) \in 0 .. 10 /\ Shun(cards) \in 0 .. 10
    BY NormalRange, KanRange, ShunRange
  <2>2. QED
    BY <2>1
<1>2. SpecialCardType(cards) \in Int
  BY DEF SpecialCardType, straightFlush, five, boom, hulu, sameFlower, fiveFlower, seq
<1>3. CalCardType(cards) \in Int
  BY <1>1, <1>2 DEF CalCardType
<1>4. QED
  BY <1>1, <1>3 DEF SettledType, PlainType, KanType, ShunType, KanShunType, Larger

\* No step after the deal changes the hands, and none after the settlement its result.
LEMMA SettledInvStep ==
  ASSUME SettledInv, [Next]_vars
  PROVE  SettledInv'
<1>0. ASSUME UNCHANGED <<hand, kan, shun>>
      PROVE  \A s \in Seats : SettledType(hand[s])' = SettledType(hand[s])
  BY <1>0 DEF SettledType
<1>1. CASE Deal
  <2>1. PICK d \in Deals : hand' = [banker |-> d[1], player |-> d[2]]
    BY <1>1 DEF Deal
  <2>2. Apart(hand'["banker"], hand'["player"])
    BY <2>1, DealtApart
  <2>3. QED
    BY <1>1, <2>2 DEF Deal, SettledInv
<1>2. CASE Settle
  BY <1>0, <1>2 DEF Settle, SettledInv, Seats
<1>3. ASSUME UNCHANGED <<hand, kan, shun, settled>>, status = "play", status' \in {"play", "settle"}
      PROVE  SettledInv'
  BY <1>3 DEF SettledInv
<1>4. CASE UNCHANGED vars
  BY <1>0, <1>4 DEF vars, SettledInv, Seats
<1>5. ASSUME NEW seat \in Seats, c2sShowCard(seat) PROVE SettledInv'
  BY <1>0, <1>5 DEF c2sShowCard, SettledInv, Seats
<1>6. CASE ShowTimeout \/ BankerShowCard
  BY <1>3, <1>6 DEF ShowTimeout, BankerShowCard
<1>7. QED
  BY <1>1, <1>2, <1>4, <1>5, <1>6 DEF Next

\* Compare and its three variants: for every heap and in every room, the comparison
\* of a settlement is the order of the hands by type and strength, in which no two
\* hands of one heap are equal.
THEOREM OrderAlwaysDecides == Spec => []OrderDecides
<1>1. Init => SettledInv
  BY DEF Init, SettledInv
<1>2. SettledInv => OrderDecides
  <2>1. SUFFICES ASSUME SettledInv, status = "over" PROVE OrderDecides
    BY DEF OrderDecides
  <2> DEFINE b == hand["banker"]
             p == hand["player"]
             bType == SettledType(b)
             pType == SettledType(p)
  <2>2. Apart(b, p) /\ kan \in BOOLEAN /\ shun \in BOOLEAN
    BY <2>1 DEF SettledInv
  <2>3. /\ settled.banker = bType /\ settled.player = pType
        /\ settled.win = Wins(bType, b, pType, p)
    BY <2>1 DEF SettledInv
  <2>4. bType \in Int /\ pType \in Int
    BY <2>2, TypeIsInt DEF Apart
  <2> HIDE DEF b, p
  <2>5. bType = pType => /\ Wins(bType, b, pType, p) <=> Strength(bType, b) > Strength(pType, p)
                         /\ Strength(bType, b) # Strength(pType, p)
    BY <2>2, <2>4, StrongerWins
  <2>6. bType # pType => (Wins(bType, b, pType, p) <=> bType > pType)
    BY DEF Wins
  <2>7. ~ (bType > bType)
    BY <2>4
  <2> HIDE DEF bType, pType
  <2>8. /\ settled.win <=> \/ bType > pType
                           \/ bType = pType /\ Strength(bType, b) > Strength(pType, p)
        /\ bType = pType => Strength(bType, b) # Strength(pType, p)
    BY <2>3, <2>5, <2>6, <2>7
  <2>9. QED
    BY <2>3, <2>8 DEF OrderDecides, b, p
<1>3. QED
  BY <1>1, <1>2, SettledInvStep, PTL DEF Spec
=============================================================================
