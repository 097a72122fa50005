----------------------------- MODULE NiuniuCards -----------------------------
(***************************************************************************)
(* The types of a hand of five cards and how two hands are compared        *)
(* (common-library/niuniuAlgorithm). A hand is a function of 1 .. 5, in    *)
(* the order it was dealt; the combination of cards that each function     *)
(* returns beside the type, which is only drawn on the screen, is left     *)
(* out.                                                                    *)
(***************************************************************************)
EXTENDS Integers, FiniteSetsExt

A == 1  J == 11  Q == 12  K == 13

Card == [num : A .. K, color : 1 .. 4]     \* colours: box < flower < heart < spades
Hand == [1 .. 5 -> Card]

\* NiuniuCardType: 0 without niu, 1 to 9, niu, and the special types
niu == 10  seq == 11  fiveFlower == 12  sameFlower == 13
hulu == 14  boom == 15  five == 16  straightFlush == 17

Nums(cards) == {cards[i].num : i \in 1 .. 5}
Count(cards, n) == Cardinality({i \in 1 .. 5 : cards[i].num = n})

Value(card) == IF card.num > 10 THEN 10 ELSE card.num

Total(cards) == Value(cards[1]) + Value(cards[2]) + Value(cards[3])
                  + Value(cards[4]) + Value(cards[5])

\* The type that a number of points stands for.
Points(n) == IF n % 10 = 0 THEN niu ELSE n % 10

-----------------------------------------------------------------------------
(* The special types.                                                      *)

\* The numbers in order: the i-th is the least one that i cards do not exceed.
StoredNums(cards) ==
  LET nums == Nums(cards)
      upTo == [n \in nums |-> Cardinality({j \in 1 .. 5 : cards[j].num <= n})]
  IN  [i \in 1 .. 5 |-> Min({n \in nums : upTo[n] >= i})]

isMaxSeq(cards) == StoredNums(cards) = <<A, 10, J, Q, K>>

SeqCardType(cards) ==
  \/ LET s == StoredNums(cards) IN \A i \in 1 .. 4 : s[i] + 1 = s[i + 1]
  \/ isMaxSeq(cards)

SameFlowerCardType(cards) == \A i \in 2 .. 5 : cards[i].color = cards[1].color

StraightFlushCardType(cards) == SameFlowerCardType(cards) /\ SeqCardType(cards)

FiveCardType(cards) == cards[1].num + cards[2].num + cards[3].num
                         + cards[4].num + cards[5].num < 10

BoomCardType(cards) == \E n \in Nums(cards) : Count(cards, n) = 4

HuluCardType(cards) == \A n \in Nums(cards) : Count(cards, n) \in {2, 3}

FiveFlowerCardType(cards) == \A n \in Nums(cards) : n >= 10

\* Mutant of SpecialCardType: a bomb is looked for before the five small cards.
Special_BoomFirst(cards) ==
  IF StraightFlushCardType(cards) THEN straightFlush ELSE
  IF BoomCardType(cards) THEN boom ELSE
  IF FiveCardType(cards) THEN five ELSE
  IF HuluCardType(cards) THEN hulu ELSE
  IF SameFlowerCardType(cards) THEN sameFlower ELSE
  IF FiveFlowerCardType(cards) THEN fiveFlower ELSE
  IF SeqCardType(cards) THEN seq ELSE 0

\* The first test that succeeds decides.
SpecialCardType(cards) ==
  IF StraightFlushCardType(cards) THEN straightFlush ELSE
  IF FiveCardType(cards) THEN five ELSE
  IF BoomCardType(cards) THEN boom ELSE
  IF HuluCardType(cards) THEN hulu ELSE
  IF SameFlowerCardType(cards) THEN sameFlower ELSE
  IF FiveFlowerCardType(cards) THEN fiveFlower ELSE
  IF SeqCardType(cards) THEN seq ELSE 0

-----------------------------------------------------------------------------
(* The normal types: three cards that add up to tens, and the rest.        *)

Triple == {t \in (1 .. 5) \X (1 .. 5) \X (1 .. 5) : t[1] < t[2] /\ t[2] < t[3]}

Sum(cards, t) == Value(cards[t[1]]) + Value(cards[t[2]]) + Value(cards[t[3]])

\* Mutant of NormalTypes: the points of the triple, not of the rest, decide.
Normal_OfTriple(cards) ==
  {Points(Sum(cards, t)) : t \in {u \in Triple : Sum(cards, u) % 10 = 0}}

\* mapCardTypes: the type that each of the ten triples gives.
NormalTypes(cards) ==
  {Points(Total(cards) - Sum(cards, t)) : t \in {u \in Triple : Sum(cards, u) % 10 = 0}}

NormalCardType(cards) ==
  IF NormalTypes(cards) = {} THEN 0 ELSE Max(NormalTypes(cards))

CalCardType(cards) ==
  IF SpecialCardType(cards) # 0 THEN SpecialCardType(cards) ELSE NormalCardType(cards)

-----------------------------------------------------------------------------
(* The two variants a room may be opened with.                             *)

\* Kan: three cards of one number are a triple too, J, Q and K being of one
\* number with 10. The other numbers are added up once each, a pair as well;
\* without three of a number the code answers niu and "no", and its callers
\* look at the type alone.
Kan(cards) ==
  LET values == {Value(cards[i]) : i \in 1 .. 5}
      threes == {v \in values : Cardinality({i \in 1 .. 5 : Value(cards[i]) = v}) > 2}
  IN  IF threes = {} THEN niu ELSE Points(SumSet(values \ threes))

\* Shun: three consecutive cards in the sorted hand, or Q, K and A. Each split names
\* the places of the three, then of the other two.
ShunSplits(cards) ==
  LET s == StoredNums(cards)
  IN  {t \in {<<1, 2, 3, 4, 5>>, <<2, 3, 4, 1, 5>>, <<3, 4, 5, 1, 2>>} :
         s[t[1]] + 1 = s[t[2]] /\ s[t[1]] + 2 = s[t[3]]}
      \cup {t \in {<<1, 4, 5, 2, 3>>} : s[1] = A /\ s[4] = Q /\ s[5] = K}

ShunTypes(cards) ==
  LET s == StoredNums(cards)
      Small(i) == IF s[i] < 10 THEN s[i] ELSE 10
  IN  {Points(Small(t[4]) + Small(t[5])) : t \in ShunSplits(cards)}

Shun(cards) == IF ShunTypes(cards) = {} THEN 0 ELSE Max(ShunTypes(cards))

-----------------------------------------------------------------------------
(* Two hands of one type.                                                  *)

getMaxCard(cards) ==
  LET num == Max(Nums(cards))
  IN  [num |-> num, color |-> Max({cards[i].color : i \in {j \in 1 .. 5 : cards[j].num = num}})]

compare(card1, card2) ==
  \/ card1.num > card2.num
  \/ card1.num = card2.num /\ card1.color > card2.color

isMaxHulu(cards) == Count(cards, A) = 3 /\ Cardinality(Nums(cards)) = 2

\* The colour of the first A of a hand.
AceColor(cards) == cards[Min({i \in 1 .. 5 : cards[i].num = A})].color

\* compareHulu and compareSeq: a hand that is the highest of its type beats any
\* other, and two such hands are told apart by their A.
CompareMax(max_1, max_2, cards_1, cards_2) ==
  IF max_1 /\ max_2
  THEN AceColor(cards_1) > AceColor(cards_2)
  ELSE max_1 \/ (~max_2 /\ compare(getMaxCard(cards_1), getMaxCard(cards_2)))

compareHulu(cards_1, cards_2) ==
  CompareMax(isMaxHulu(cards_1), isMaxHulu(cards_2), cards_1, cards_2)

\* Mutant of compareSeq: A is a low card in every sequence.
Seq_NoAce(cards_1, cards_2) == compare(getMaxCard(cards_1), getMaxCard(cards_2))

compareSeq(cards_1, cards_2) ==
  CompareMax(isMaxSeq(cards_1), isMaxSeq(cards_2), cards_1, cards_2)

BoomNum(cards) == CHOOSE n \in Nums(cards) : Count(cards, n) = 4

compareBoom(cards_1, cards_2) ==
  \/ BoomNum(cards_1) = A
  \/ BoomNum(cards_2) # A /\ BoomNum(cards_1) > BoomNum(cards_2)

\* The tail that Compare, KanCompare, ShunCompare and KanShunCompare share:
\* whether the first hand, of the first type, wins.
Wins(type1, cards_1, type2, cards_2) ==
  \/ type1 > type2
  \/ /\ type1 = type2
     /\ CASE type1 = hulu -> compareHulu(cards_1, cards_2)
          [] type1 = boom -> compareBoom(cards_1, cards_2)
          [] type1 \in {seq, straightFlush} -> compareSeq(cards_1, cards_2)
          [] OTHER -> compare(getMaxCard(cards_1), getMaxCard(cards_2))

Larger(m, n) == IF n > m THEN n ELSE m

\* The type each of the four gives a hand.
PlainType(cards) == CalCardType(cards)
KanType(cards) == Larger(CalCardType(cards), Kan(cards))
ShunType(cards) == Larger(CalCardType(cards), Shun(cards))
KanShunType(cards) == Larger(KanType(cards), Shun(cards))
=============================================================================
