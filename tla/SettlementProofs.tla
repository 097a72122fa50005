--------------------------- MODULE SettlementProofs ---------------------------
(***************************************************************************)
(* What holds of the gold for any number of users and rooms, any stakes    *)
(* and any number of faults: the types, who can be in debt, when the two   *)
(* books differ, and that no settlement makes gold. The sums of that last  *)
(* fact are folds over sets; what is needed of them is proved first.       *)
(***************************************************************************)
EXTENDS Settlement, FiniteSetTheorems, WellFoundedInduction, TLAPS

-----------------------------------------------------------------------------
(* Sums over finite sets. SumOver picks one element after the other with    *)
(* CHOOSE; that it does not matter which, and the laws that follow, are     *)
(* shown by induction over the parts of a set.                              *)

\* A set of numbers that is not empty has a least one.
LEMMA LeastNat ==
  ASSUME NEW T \in SUBSET Nat, T # {}
  PROVE  \E m \in T : \A k \in T : m <= k
<1>1. PICK m \in T : \A k \in T : ~ (<<k, m>> \in OpToRel(<, Nat))
  BY NatLessThanWellFounded, WFMin
<1>2. \A k \in T : ~ (k < m)
  BY <1>1 DEF OpToRel
<1>3. QED
  BY <1>2

\* What every part of a finite set inherits from its own parts, every part has.
LEMMA SubsetInduction ==
  ASSUME NEW S, IsFiniteSet(S), NEW F,
         \A B \in SUBSET S : (\A C \in SUBSET B : C # B => C \in F) => B \in F
  PROVE  \A B \in SUBSET S : B \in F
<1> DEFINE Sizes == {Cardinality(B) : B \in {C \in SUBSET S : C \notin F}}
<1>1. SUFFICES ASSUME NEW D \in SUBSET S, D \notin F
               PROVE  FALSE
  OBVIOUS
<1>2. \A B \in SUBSET S : IsFiniteSet(B) /\ Cardinality(B) \in Nat
  BY FS_Subset, FS_CardinalityType
<1>3. Sizes \in SUBSET Nat /\ Sizes # {}
  BY <1>1, <1>2
<1>4. PICK m \in Sizes : \A k \in Sizes : m <= k
  <2> HIDE DEF Sizes
  <2> QED
    BY <1>3, LeastNat
<1>5. PICK B \in SUBSET S : B \notin F /\ Cardinality(B) = m
  BY <1>4
<1>6. ASSUME NEW C \in SUBSET B, C # B
      PROVE  C \in F
  <2>1. Cardinality(C) < Cardinality(B)
    BY <1>2, <1>6, FS_Subset
  <2>2. Cardinality(C) \in Nat /\ Cardinality(B) \in Nat
    BY <1>2
  <2>3. C \notin F => Cardinality(C) \in Sizes
    OBVIOUS
  <2>4. QED
    <3> HIDE DEF Sizes
    <3> QED
      BY <1>4, <1>5, <2>1, <2>2, <2>3
<1>7. QED
  BY <1>5, <1>6

\* The element that a sum takes first.
One(s) == CHOOSE x \in s : TRUE

\* g has the sums of f over the parts of S, taken element by element.
Adds(f, S, g) ==
  g = [s \in SUBSET S |-> IF s = {} THEN 0 ELSE f[One(s)] + g[s \ {One(s)}]]

\* SumOver is the last of the sums of such a g.
LEMMA SumIs ==
  ASSUME NEW f, NEW S
  PROVE  SumOver(f, S) = (CHOOSE g : Adds(f, S, g))[S]
BY DEF SumOver, MapThenSumSet, MapThenFoldSet, Adds, One

\* It is in the set, which is smaller without it.
LEMMA OneIsIn ==
  ASSUME NEW s, s # {}
  PROVE  One(s) \in s /\ s \ {One(s)} # s
BY DEF One

\* The sums over a part are the same whichever set it is a part of.
LEMMA AddsSame ==
  ASSUME NEW f, NEW S, IsFiniteSet(S), NEW R \in SUBSET S, NEW g, NEW h,
         Adds(f, R, g), Adds(f, S, h)
  PROVE  \A B \in SUBSET R : g[B] = h[B]
<1> DEFINE F == {B \in SUBSET R : g[B] = h[B]}
<1>1. IsFiniteSet(R)
  BY FS_Subset
<1>2. ASSUME NEW B \in SUBSET R, \A C \in SUBSET B : C # B => C \in F
      PROVE  B \in F
  <2>1. CASE B = {}
    BY <2>1 DEF Adds
  <2>2. CASE B # {}
    <3>1. /\ g[B] = f[One(B)] + g[B \ {One(B)}]
          /\ h[B] = f[One(B)] + h[B \ {One(B)}]
      BY <2>2 DEF Adds
    <3>2. g[B \ {One(B)}] = h[B \ {One(B)}]
      BY <1>2, <2>2, OneIsIn
    <3>3. QED
      BY <3>1, <3>2
  <2>3. QED
    BY <2>1, <2>2
<1>3. \A B \in SUBSET R : B \in F
  <2> HIDE DEF F
  <2> QED
    BY <1>1, <1>2, SubsetInduction
<1>4. QED
  BY <1>3

\* A finite set has such a g.
LEMMA AddsExists ==
  ASSUME NEW f, NEW S, IsFiniteSet(S)
  PROVE  \E g : Adds(f, S, g)
<1> DEFINE F == {B \in SUBSET S : \E g : Adds(f, B, g)}
<1>1. ASSUME NEW B \in SUBSET S, \A C \in SUBSET B : C # B => C \in F
      PROVE  B \in F
  <2> DEFINE Of(C) == CHOOSE g : Adds(f, C, g)
             Last == f[One(B)] + Of(B \ {One(B)})[B \ {One(B)}]
             h == [s \in SUBSET B |-> IF s # B THEN Of(s)[s]
                                      ELSE IF B = {} THEN 0 ELSE Last]
  <2>1. \A C \in SUBSET B : C # B => Adds(f, C, Of(C))
    BY <1>1
  <2>2. \A s \in SUBSET B : IsFiniteSet(s)
    BY FS_Subset
  <2>3. ASSUME NEW s \in SUBSET B
        PROVE  h[s] = IF s = {} THEN 0 ELSE f[One(s)] + h[s \ {One(s)}]
    <3>1. CASE s = {}
      <4>1. s # B => Of(s)[s] = 0
        <5>1. s # B => Adds(f, s, Of(s))
          BY <2>1
        <5>2. QED
          <6> HIDE DEF Of
          <6> QED
            BY <3>1, <5>1 DEF Adds
      <4>2. QED
        BY <3>1, <4>1
    <3>2. CASE s # {}
      <4> DEFINE t == s \ {One(s)}
      <4>1. t \in SUBSET s /\ t # s /\ t \in SUBSET B /\ t # B /\ s \in SUBSET s
        BY <3>2, OneIsIn
      <4>2. h[t] = Of(t)[t]
        BY <4>1
      <4>3. CASE s = B
        BY <3>2, <4>1, <4>2, <4>3
      <4>4. CASE s # B
        <5>1. Adds(f, s, Of(s)) /\ Adds(f, t, Of(t)) /\ IsFiniteSet(s)
          BY <2>1, <2>2, <4>1, <4>4
        <5>2. h[s] = Of(s)[s]
          BY <4>4
        <5>3. Of(s)[s] = f[One(s)] + Of(s)[t]
          <6> HIDE DEF Of
          <6> QED
            BY <3>2, <4>1, <5>1 DEF Adds
        <5>4. Of(s)[t] = Of(t)[t]
          <6> HIDE DEF Of, t
          <6> QED
            BY <4>1, <5>1, AddsSame
        <5>5. QED
          <6> HIDE DEF Of, h
          <6> QED
            BY <3>2, <4>2, <5>2, <5>3, <5>4
      <4>5. QED
        BY <4>3, <4>4
    <3>3. QED
      BY <3>1, <3>2
  <2>4. Adds(f, B, h)
    <3>1. h = [s \in SUBSET B |-> h[s]]
      OBVIOUS
    <3>2. QED
      <4> HIDE DEF h
      <4> QED
        BY <2>3, <3>1 DEF Adds
  <2>5. QED
    BY <2>4
<1>2. \A B \in SUBSET S : B \in F
  <2> HIDE DEF F
  <2> QED
    BY <1>1, SubsetInduction
<1>3. QED
  BY <1>2

\* The sum over no element.
LEMMA SumEmpty ==
  ASSUME NEW f
  PROVE  SumOver(f, {}) = 0
<1>1. Adds(f, {}, CHOOSE g : Adds(f, {}, g))
  BY AddsExists, FS_EmptySet
<1>2. QED
  BY <1>1, SumIs DEF Adds

\* The sum over some elements: the one chosen first, and the rest.
LEMMA SumChosen ==
  ASSUME NEW f, NEW S, IsFiniteSet(S), S # {}
  PROVE  SumOver(f, S) = f[One(S)] + SumOver(f, S \ {One(S)})
<1> DEFINE g == CHOOSE h : Adds(f, S, h)
           R == S \ {One(S)}
           k == CHOOSE h : Adds(f, R, h)
<1>1. R \in SUBSET S /\ IsFiniteSet(R)
  BY FS_Subset
<1>2. Adds(f, S, g) /\ Adds(f, R, k)
  BY <1>1, AddsExists
<1>3. SumOver(f, S) = g[S] /\ SumOver(f, R) = k[R]
  BY SumIs
<1>4. k[R] = g[R]
  <2> HIDE DEF g, k, R
  <2> QED
    BY <1>1, <1>2, AddsSame
<1>5. g[S] = f[One(S)] + g[R]
  <2> HIDE DEF g, k
  <2> QED
    BY <1>2 DEF Adds
<1>6. QED
  <2> HIDE DEF g, k
  <2> QED
    BY <1>3, <1>4, <1>5

\* A sum of integers is one.
LEMMA SumType ==
  ASSUME NEW D, NEW f \in [D -> Int], NEW S \in SUBSET D, IsFiniteSet(S)
  PROVE  SumOver(f, S) \in Int
<1> DEFINE F == {B \in SUBSET S : SumOver(f, B) \in Int}
<1>1. ASSUME NEW B \in SUBSET S, \A C \in SUBSET B : C # B => C \in F
      PROVE  B \in F
  <2>1. CASE B = {}
    BY <2>1, SumEmpty
  <2>2. CASE B # {}
    <3>1. SumOver(f, B) = f[One(B)] + SumOver(f, B \ {One(B)})
      BY <2>2, SumChosen, FS_Subset
    <3>2. SumOver(f, B \ {One(B)}) \in Int /\ One(B) \in D
      BY <1>1, <2>2, OneIsIn
    <3>3. QED
      BY <3>1, <3>2
  <2>3. QED
    BY <2>1, <2>2
<1>2. \A B \in SUBSET S : B \in F
  <2> HIDE DEF F
  <2> QED
    BY <1>1, SubsetInduction
<1>3. QED
  BY <1>2

\* Any element of the set may come first.
LEMMA SumTake ==
  ASSUME NEW D, NEW f \in [D -> Int], NEW S \in SUBSET D, IsFiniteSet(S), NEW x \in S
  PROVE  SumOver(f, S) = f[x] + SumOver(f, S \ {x})
<1> DEFINE F == {B \in SUBSET S : \A y \in B : SumOver(f, B) = f[y] + SumOver(f, B \ {y})}
<1>1. ASSUME NEW B \in SUBSET S, \A C \in SUBSET B : C # B => C \in F, NEW y \in B
      PROVE  SumOver(f, B) = f[y] + SumOver(f, B \ {y})
  <2> DEFINE c == One(B)
             R == (B \ {c}) \ {y}
  <2>1. c \in B /\ SumOver(f, B) = f[c] + SumOver(f, B \ {c})
    BY SumChosen, FS_Subset, OneIsIn
  <2>2. CASE y = c
    BY <2>1, <2>2
  <2>3. CASE y # c
    <3>1. SumOver(f, B \ {c}) = f[y] + SumOver(f, R)
      BY <1>1, <2>1, <2>3
    <3>2. SumOver(f, B \ {y}) = f[c] + SumOver(f, R)
      <4>1. R = (B \ {y}) \ {c}
        OBVIOUS
      <4>2. B \ {y} \in F /\ c \in B \ {y}
        BY <1>1, <2>1, <2>3
      <4>3. SumOver(f, B \ {y}) = f[c] + SumOver(f, (B \ {y}) \ {c})
        BY <4>2
      <4>4. QED
        BY <4>1, <4>3
    <3>3. SumOver(f, R) \in Int /\ f[c] \in Int /\ f[y] \in Int
      <4>1. R \in SUBSET D /\ IsFiniteSet(R)
        BY FS_Subset
      <4>2. QED
        BY <2>1, <4>1, SumType
    <3>4. QED
      BY <2>1, <3>1, <3>2, <3>3
  <2>4. QED
    BY <2>2, <2>3
<1>2. \A B \in SUBSET S : B \in F
  <2>1. \A B \in SUBSET S : (\A C \in SUBSET B : C # B => C \in F) => B \in F
    BY <1>1
  <2> HIDE DEF F
  <2> QED
    BY <2>1, SubsetInduction
<1>3. S \in F
  BY <1>2
<1>4. QED
  BY <1>3

\* What holds term by term of two sums, up to factors, holds of the sums.
LEMMA SumAtMost ==
  ASSUME NEW D, NEW f \in [D -> Int], NEW g \in [D -> Int], NEW k \in Int, NEW m \in Int,
         NEW S \in SUBSET D, IsFiniteSet(S),
         \A u \in S : f[u] * k <= g[u] * m
  PROVE  SumOver(f, S) * k <= SumOver(g, S) * m
<1> DEFINE F == {B \in SUBSET S : SumOver(f, B) * k <= SumOver(g, B) * m}
<1>1. ASSUME NEW B \in SUBSET S, \A C \in SUBSET B : C # B => C \in F
      PROVE  B \in F
  <2>1. CASE B = {}
    BY <2>1, SumEmpty
  <2>2. CASE B # {}
    <3>1. PICK x \in B : TRUE
      BY <2>2
    <3> DEFINE R == B \ {x}
               a == SumOver(f, R)
               b == SumOver(g, R)
    <3>2. IsFiniteSet(B) /\ IsFiniteSet(R) /\ B \in SUBSET D /\ R \in SUBSET D
      BY FS_Subset
    <3>3. SumOver(f, B) = f[x] + a /\ SumOver(g, B) = g[x] + b
      BY <3>2, SumTake
    <3>4. a \in Int /\ b \in Int
      BY <3>2, SumType
    <3>5. a * k <= b * m
      BY <1>1
    <3>6. f[x] \in Int /\ g[x] \in Int /\ f[x] * k <= g[x] * m
      BY <3>2
    <3>7. \A p, q, r \in Int : (p + q) * r = p * r + q * r /\ p * r \in Int
      OBVIOUS
    <3>8. (f[x] + a) * k <= (g[x] + b) * m
      <4>1. (f[x] + a) * k = f[x] * k + a * k /\ (g[x] + b) * m = g[x] * m + b * m
        BY <3>4, <3>6, <3>7
      <4>2. f[x] * k \in Int /\ a * k \in Int /\ g[x] * m \in Int /\ b * m \in Int
        BY <3>4, <3>6, <3>7
      <4> HIDE DEF a, b
      <4>3. QED
        BY <3>5, <3>6, <4>1, <4>2
    <3>9. QED
      BY <3>3, <3>8
  <2>3. QED
    BY <2>1, <2>2
<1>2. \A B \in SUBSET S : B \in F
  <2> HIDE DEF F
  <2> QED
    BY <1>1, SubsetInduction
<1>3. S \in F
  BY <1>2
<1>4. QED
  BY <1>3

\* The same without factors.
LEMMA SumLess ==
  ASSUME NEW D, NEW f \in [D -> Int], NEW g \in [D -> Int],
         NEW S \in SUBSET D, IsFiniteSet(S),
         \A u \in S : f[u] <= g[u]
  PROVE  SumOver(f, S) <= SumOver(g, S)
<1>1. SumOver(f, S) * 1 <= SumOver(g, S) * 1
  <2>1. \A u \in S : f[u] * 1 <= g[u] * 1
    OBVIOUS
  <2>2. QED
    BY <2>1, SumAtMost, 1 \in Int
<1>2. SumOver(f, S) \in Int /\ SumOver(g, S) \in Int
  BY SumType
<1>3. QED
  BY <1>1, <1>2

\* Only the elements of the set matter.
LEMMA SumSame ==
  ASSUME NEW D, NEW f \in [D -> Int], NEW g \in [D -> Int],
         NEW S \in SUBSET D, IsFiniteSet(S),
         \A u \in S : f[u] = g[u]
  PROVE  SumOver(f, S) = SumOver(g, S)
<1>1. /\ \A u \in S : f[u] <= g[u]
      /\ \A u \in S : g[u] <= f[u]
  OBVIOUS
<1>2. SumOver(f, S) <= SumOver(g, S)
  BY <1>1, SumLess
<1>3. SumOver(g, S) <= SumOver(f, S)
  BY <1>1, SumLess
<1>4. SumOver(f, S) \in Int /\ SumOver(g, S) \in Int
  BY SumType
<1>5. QED
  BY <1>2, <1>3, <1>4

\* Sums may be added term by term.
LEMMA SumPlus ==
  ASSUME NEW D, NEW f \in [D -> Int], NEW g \in [D -> Int], NEW h \in [D -> Int],
         NEW S \in SUBSET D, IsFiniteSet(S),
         \A u \in S : h[u] = f[u] + g[u]
  PROVE  SumOver(h, S) = SumOver(f, S) + SumOver(g, S)
<1> DEFINE F == {B \in SUBSET S : SumOver(h, B) = SumOver(f, B) + SumOver(g, B)}
<1>1. ASSUME NEW B \in SUBSET S, \A C \in SUBSET B : C # B => C \in F
      PROVE  B \in F
  <2>1. CASE B = {}
    BY <2>1, SumEmpty
  <2>2. CASE B # {}
    <3>1. PICK x \in B : TRUE
      BY <2>2
    <3> DEFINE R == B \ {x}
    <3>2. IsFiniteSet(B) /\ IsFiniteSet(R) /\ B \in SUBSET D /\ R \in SUBSET D
      BY FS_Subset
    <3>3. \A e \in [D -> Int] : SumOver(e, B) = e[x] + SumOver(e, R)
      BY <3>2, SumTake
    <3>4. SumOver(f, R) \in Int /\ SumOver(g, R) \in Int
      BY <3>2, SumType
    <3>5. SumOver(h, R) = SumOver(f, R) + SumOver(g, R)
      BY <1>1
    <3>6. f[x] \in Int /\ g[x] \in Int /\ h[x] = f[x] + g[x]
      BY <3>2
    <3>7. QED
      BY <3>3, <3>4, <3>5, <3>6
  <2>3. QED
    BY <2>1, <2>2
<1>2. \A B \in SUBSET S : B \in F
  <2> HIDE DEF F
  <2> QED
    BY <1>1, SubsetInduction
<1>3. S \in F
  BY <1>2
<1>4. QED
  BY <1>3

\* A sum is that over a part and that over the others.
LEMMA SumSplit ==
  ASSUME NEW D, NEW f \in [D -> Int], NEW S \in SUBSET D, IsFiniteSet(S), NEW W \in SUBSET S
  PROVE  SumOver(f, S) = SumOver(f, W) + SumOver(f, S \ W)
<1> DEFINE F == {B \in SUBSET W : SumOver(f, S) = SumOver(f, B) + SumOver(f, S \ B)}
<1>0. \A B \in SUBSET S : IsFiniteSet(B) /\ B \in SUBSET D /\ SumOver(f, B) \in Int
  BY FS_Subset, SumType
<1>1. ASSUME NEW B \in SUBSET W, \A C \in SUBSET B : C # B => C \in F
      PROVE  B \in F
  <2>1. CASE B = {}
    <3>1. SumOver(f, B) = 0 /\ S \ B = S
      BY <2>1, SumEmpty
    <3>2. QED
      BY <1>0, <3>1
  <2>2. CASE B # {}
    <3>1. PICK x \in B : TRUE
      BY <2>2
    <3> DEFINE R == B \ {x}
    <3>2. SumOver(f, B) = f[x] + SumOver(f, R)
      BY <1>0, SumTake
    <3>3. SumOver(f, S \ R) = f[x] + SumOver(f, S \ B)
      <4>1. x \in S \ R /\ (S \ R) \ {x} = S \ B
        OBVIOUS
      <4>2. S \ R \in SUBSET D /\ IsFiniteSet(S \ R)
        BY <1>0
      <4>3. SumOver(f, S \ R) = f[x] + SumOver(f, (S \ R) \ {x})
        BY <4>1, <4>2, SumTake
      <4>4. QED
        BY <4>1, <4>3
    <3>4. SumOver(f, S) = SumOver(f, R) + SumOver(f, S \ R)
      BY <1>1
    <3>5. /\ SumOver(f, R) \in Int /\ SumOver(f, S \ B) \in Int /\ f[x] \in Int
      BY <1>0
    <3>6. QED
      BY <3>2, <3>3, <3>4, <3>5
  <2>3. QED
    BY <2>1, <2>2
<1>2. \A B \in SUBSET W : B \in F
  <2>1. IsFiniteSet(W)
    BY <1>0
  <2> HIDE DEF F
  <2> QED
    BY <1>1, <2>1, SubsetInduction
<1>3. W \in F
  BY <1>2
<1>4. QED
  BY <1>3

\* A sum of what is not above 0 is not.
LEMMA SumOfLosses ==
  ASSUME NEW D, NEW f \in [D -> Int], NEW S \in SUBSET D, IsFiniteSet(S),
         \A u \in S : f[u] <= 0
  PROVE  SumOver(f, S) <= 0
<1>1. \A u \in S : f[u] * 1 <= f[u] * 0
  OBVIOUS
<1>2. SumOver(f, S) * 1 <= SumOver(f, S) * 0
  BY <1>1, SumAtMost, 0 \in Int, 1 \in Int
<1>3. SumOver(f, S) \in Int
  BY SumType
<1>4. QED
  BY <1>2, <1>3

-----------------------------------------------------------------------------
(* What calcWinOrLose leaves in mapWinOrLose.                               *)

\* A round has finitely many players.
LEMMA PartsFinite == \A P \in SUBSET Uids : IsFiniteSet(P)
BY SettlementAssumption, FS_Subset DEF SettlementAssumption

\* The loop over the players leaves nobody a loss of more than what was read.
LEMMA ComparedFact ==
  ASSUME TypeOK, NEW r \in Rooms, NEW result \in Compared(r)
  PROVE  /\ result \in [Uids -> Int]
         /\ \A u \in Uids \ Others(r) : result[u] = 0
         /\ \A u \in Uids : mapUidGold[r][u] >= 0 => result[u] >= -mapUidGold[r][u]
<1>1. PICK stake \in [Others(r) -> Stakes], losers \in SUBSET Others(r) :
        result = [u \in Uids |-> IF u \notin Others(r) THEN 0
                                 ELSE IF u \in losers
                                 THEN -Least(stake[u], mapUidGold[r][u]) ELSE stake[u]]
  BY DEF Compared
<1>2. ASSUME NEW u \in Uids
      PROVE  /\ result[u] \in Int
             /\ u \notin Others(r) => result[u] = 0
             /\ mapUidGold[r][u] >= 0 => result[u] >= -mapUidGold[r][u]
  <2>1. mapUidGold[r][u] \in Int
    BY DEF TypeOK
  <2>2. CASE u \notin Others(r)
    BY <1>1, <2>1, <2>2
  <2>3. CASE u \in Others(r)
    <3>0. stake[u] \in Stakes
      BY <2>3
    <3>5. \A x \in Stakes : x \in Int /\ x >= 0
      BY SettlementAssumption DEF SettlementAssumption
    <3>1. stake[u] \in Int /\ stake[u] >= 0
      BY <3>0, <3>5
    <3>2. /\ Least(stake[u], mapUidGold[r][u]) \in Int
          /\ Least(stake[u], mapUidGold[r][u]) <= mapUidGold[r][u]
      BY <2>1, <3>1 DEF Least
    <3>3. \/ result[u] = -Least(stake[u], mapUidGold[r][u])
          \/ result[u] = stake[u]
      BY <1>1, <2>3
    <3>4. QED
      BY <2>1, <2>3, <3>1, <3>2, <3>3
  <2>4. QED
    BY <2>2, <2>3
<1>3. result = [u \in Uids |-> result[u]]
  BY <1>1
<1>4. QED
  BY <1>2, <1>3

\* The shares are whole numbers, shares of gold are not negative, and who has won
\* nothing keeps the result.
LEMMA SharedFact ==
  ASSUME NEW result \in [Uids -> Int], NEW gold \in Int, NEW shared \in Shared(result, gold)
  PROVE  /\ shared \in [Uids -> Int]
         /\ \A u \in Uids \ Winners(result) : shared[u] = result[u]
         /\ gold >= 0 => \A u \in Winners(result) :
              /\ shared[u] >= 0
              /\ IsShare(shared[u], result[u], SumOver(result, Winners(result)), gold)
<1> DEFINE W == Winners(result)
           total == SumOver(result, W)
<1>1. PICK x \in [W -> 0 .. 2 * Size(gold)] :
        /\ \A u \in W : IsShare(x[u], result[u], total, Size(gold))
        /\ shared = [u \in Uids |-> IF u \notin W THEN result[u]
                                    ELSE IF gold >= 0 THEN x[u] ELSE -x[u]]
  BY DEF Shared
<1>2. Size(gold) \in Int /\ (gold >= 0 => Size(gold) = gold)
  BY DEF Size
<1>3. W \subseteq Uids
  BY DEF Winners
<1> HIDE DEF W, total
<1>4. \A u \in W : x[u] \in Int /\ x[u] >= 0
  BY <1>1, <1>2
<1>5. \A u \in Uids : IF u \notin W THEN shared[u] = result[u]
                      ELSE shared[u] = IF gold >= 0 THEN x[u] ELSE -x[u]
  BY <1>1
<1>6. shared \in [Uids -> Int]
  BY <1>1, <1>4
<1>7. gold >= 0 => \A u \in W : shared[u] >= 0 /\ IsShare(shared[u], result[u], total, gold)
  BY <1>1, <1>2, <1>3, <1>4, <1>5
<1>8. QED
  BY <1>5, <1>6, <1>7 DEF W, total

\* Nobody outside the others has a result before the banker's is added.
LEMMA WinnersPlay ==
  ASSUME NEW r \in Rooms, NEW result \in [Uids -> Int],
         \A u \in Uids \ Others(r) : result[u] = 0
  PROVE  Winners(result) \in SUBSET Others(r)
BY DEF Winners

\* The whole part of a share is rounded up by a float32 at most, and less than 1 in
\* all while the banker's gold is below Precision.
LEMMA SharesFit ==
  ASSUME NEW shared \in Int, NEW total \in Int, NEW gold \in Int, total > 0,
         shared * (total * Precision) <= total * (gold * (Precision + 1)),
         gold < Precision
  PROVE  shared <= gold
<1>1. Precision \in Int /\ Precision > 0
  BY SettlementAssumption DEF SettlementAssumption
<1> DEFINE a == shared * Precision
           b == gold * (Precision + 1)
<1>2. a \in Int /\ b \in Int
  BY <1>1
<1>3. shared * (total * Precision) = total * a
  BY <1>1
<1>4. total * a <= total * b => a <= b
  <2> HIDE DEF a, b
  <2>1. ASSUME b < a PROVE total * b < total * a
    <3>1. total * (a - b) > 0
      BY <1>2, <2>1
    <3>2. total * (a - b) = total * a - total * b
      BY <1>2
    <3>3. total * a \in Int /\ total * b \in Int
      BY <1>2
    <3>4. QED
      BY <3>1, <3>2, <3>3
  <2>2. total * a \in Int /\ total * b \in Int
    BY <1>2
  <2>3. QED
    BY <1>2, <2>1, <2>2
<1>5. a <= b
  BY <1>3, <1>4
<1>6. b = gold * Precision + gold
  BY <1>1
<1>7. ASSUME shared >= gold + 1 PROVE FALSE
  <2>1. shared * Precision >= (gold + 1) * Precision
    BY <1>1, <1>7
  <2>2. (gold + 1) * Precision = gold * Precision + Precision
    BY <1>1
  <2>3. gold * Precision \in Int /\ shared * Precision \in Int
    BY <1>1
  <2>4. QED
    BY <1>1, <1>5, <1>6, <2>1, <2>2, <2>3
<1>8. QED
  BY <1>7

\* The shares of a ruined banker's gold are no more than that gold.
LEMMA SharesPaid ==
  ASSUME NEW result \in [Uids -> Int], NEW gold \in 0 .. Precision - 1,
         NEW shared \in Shared(result, gold),
         NEW S \in SUBSET Uids, Winners(result) \in SUBSET S, SumOver(result, S) > gold
  PROVE  SumOver(shared, S) <= gold
<1> DEFINE W == Winners(result)
           won == SumOver(result, W)
           part == SumOver(shared, W)
<1>0. Precision \in Int /\ Precision > 0 /\ gold \in Int /\ gold >= 0 /\ gold < Precision
  BY SettlementAssumption DEF SettlementAssumption
<1>1. /\ W \in SUBSET Uids /\ W \in SUBSET S /\ S \ W \in SUBSET Uids
      /\ IsFiniteSet(S) /\ IsFiniteSet(W) /\ IsFiniteSet(S \ W)
  BY PartsFinite DEF Winners
<1>2. /\ shared \in [Uids -> Int]
      /\ \A u \in Uids \ W : shared[u] = result[u]
      /\ \A u \in W : IsShare(shared[u], result[u], won, gold)
  BY <1>0, SharedFact
<1>3. \A u \in S \ W : result[u] <= 0 /\ shared[u] <= 0
  BY <1>2 DEF Winners
<1> HIDE DEF W
<1>4. won \in Int /\ part \in Int
  BY <1>1, <1>2, SumType
<1>5. SumOver(result, S \ W) <= 0 /\ SumOver(shared, S \ W) <= 0
  BY <1>1, <1>2, <1>3, SumOfLosses
<1>6. SumOver(result, S \ W) \in Int /\ SumOver(shared, S \ W) \in Int
  BY <1>1, <1>2, SumType
<1>7. /\ SumOver(result, S) = won + SumOver(result, S \ W)
      /\ SumOver(shared, S) = part + SumOver(shared, S \ W)
  BY <1>1, <1>2, SumSplit
<1>8. won > 0
  BY <1>0, <1>4, <1>5, <1>6, <1>7
<1>9. part <= gold
  <2> DEFINE k == won * Precision
             m == gold * (Precision + 1)
  <2>1. k \in Int /\ m \in Int
    BY <1>0, <1>4
  <2>2. ASSUME NEW u \in W
        PROVE  shared[u] * k <= result[u] * m
    <3>1. shared[u] \in Int /\ result[u] \in Int
      BY <1>1, <1>2
    <3>2. shared[u] * won * Precision <= result[u] * gold * (Precision + 1)
      BY <1>2 DEF IsShare
    <3>3. \A p, q, s \in Int : p * q * s = p * (q * s)
      OBVIOUS
    <3>4. shared[u] * won * Precision = shared[u] * k
      BY <1>0, <1>4, <3>1, <3>3
    <3>5. result[u] * gold * (Precision + 1) = result[u] * m
      BY <1>0, <3>1, <3>3
    <3>6. QED
      BY <3>2, <3>4, <3>5
  <2>3. part * k <= won * m
    <3> HIDE DEF k, m
    <3>1. QED
      BY <1>1, <1>2, <2>1, <2>2, SumAtMost
  <2>4. QED
    BY <1>0, <1>4, <1>8, <2>3, SharesFit
<1>10. QED
  BY <1>4, <1>5, <1>6, <1>7, <1>9

\* What calcWinOrLose leaves: whole numbers; from a banker who is not in debt, no loss
\* of more than what was read; and no gain in all, while the banker's gold is below
\* Precision.
LEMMA CalcFact ==
  ASSUME TypeOK, NEW r \in Rooms, CalcWinOrLose(r)
  PROVE  /\ mapWinOrLose' \in [Rooms -> [Uids -> Int]]
         /\ \A q \in Rooms \ {r} : mapWinOrLose'[q] = mapWinOrLose[q]
         /\ mapUidGold[r][bankerId[r]] >= 0 =>
              \A u \in mapPlayers[r] :
                mapUidGold[r][u] >= 0 => mapWinOrLose'[r][u] >= -mapUidGold[r][u]
         /\ mapUidGold[r][bankerId[r]] \in 0 .. Precision - 1 =>
              SumOver(mapWinOrLose'[r], mapPlayers[r]) <= 0
<1> DEFINE banker == bankerId[r]
           gold == mapUidGold[r][banker]
           P == mapPlayers[r]
<1>1. /\ banker \in P /\ P \in SUBSET Uids /\ gold \in Int /\ banker \in Uids
      /\ Others(r) = P \ {banker} /\ IsFiniteSet(P)
  BY PartsFinite DEF CalcWinOrLose, TypeOK, Others
<1>2. PICK result \in Compared(r) :
        LET sum == -SumOver(result, Others(r))
        IN  IF sum >= 0 \/ gold + sum >= 0
            THEN mapWinOrLose' = [mapWinOrLose EXCEPT ![r] = [result EXCEPT ![banker] = sum]]
            ELSE \E shared \in Shared(result, gold) :
                   mapWinOrLose' = [mapWinOrLose EXCEPT ![r] = [shared EXCEPT ![banker] = -gold]]
  BY DEF CalcWinOrLose
<1>3. /\ result \in [Uids -> Int] /\ \A u \in Uids \ Others(r) : result[u] = 0
      /\ \A u \in Uids : mapUidGold[r][u] >= 0 => result[u] >= -mapUidGold[r][u]
  BY <1>2, ComparedFact
<1>4. Others(r) \in SUBSET Uids /\ Winners(result) \in SUBSET Others(r) /\ IsFiniteSet(Others(r))
  BY <1>1, <1>3, WinnersPlay, PartsFinite
<1>5. SumOver(result, Others(r)) \in Int
  BY <1>3, <1>4, SumType
<1>6. PICK own \in Int, won \in [Uids -> Int] :
        /\ mapWinOrLose' = [mapWinOrLose EXCEPT ![r] = [won EXCEPT ![banker] = own]]
        /\ \/ own = -SumOver(result, Others(r)) /\ won = result /\ (own >= 0 \/ gold + own >= 0)
           \/ own = -gold /\ won \in Shared(result, gold) /\ SumOver(result, Others(r)) > gold
  <2>1. CASE -SumOver(result, Others(r)) >= 0 \/ gold + (-SumOver(result, Others(r))) >= 0
    BY <1>2, <1>3, <1>5, <2>1
  <2>2. CASE ~ (-SumOver(result, Others(r)) >= 0 \/ gold + (-SumOver(result, Others(r))) >= 0)
    <3>1. PICK shared \in Shared(result, gold) :
            mapWinOrLose' = [mapWinOrLose EXCEPT ![r] = [shared EXCEPT ![banker] = -gold]]
      BY <1>2, <2>2
    <3>2. shared \in [Uids -> Int] /\ -gold \in Int
      BY <1>1, <1>3, <3>1, SharedFact
    <3>3. SumOver(result, Others(r)) > gold
      BY <1>1, <1>5, <2>2
    <3>4. QED
      BY <3>1, <3>2, <3>3
  <2>3. QED
    BY <2>1, <2>2
<1> HIDE DEF gold, P, banker
<1>7. mapWinOrLose'[r] = [won EXCEPT ![banker] = own] /\ mapWinOrLose \in [Rooms -> [Uids -> Int]]
  BY <1>6 DEF TypeOK
<1>8. /\ mapWinOrLose'[r] \in [Uids -> Int] /\ mapWinOrLose'[r][banker] = own
      /\ \A u \in Uids \ {banker} : mapWinOrLose'[r][u] = won[u]
  BY <1>1, <1>6, <1>7
<1>9. /\ mapWinOrLose' \in [Rooms -> [Uids -> Int]]
      /\ \A q \in Rooms \ {r} : mapWinOrLose'[q] = mapWinOrLose[q]
  BY <1>6, <1>7, <1>8
<1>10. ASSUME gold >= 0, NEW u \in P, mapUidGold[r][u] >= 0
       PROVE  mapWinOrLose'[r][u] >= -mapUidGold[r][u]
  <2>0. u \in Uids /\ mapUidGold[r][u] \in Int
    BY <1>1, <1>10 DEF TypeOK
  <2>1. CASE u = banker
    <3>1. own >= -gold
      BY <1>1, <1>5, <1>6, <1>10
    <3>2. QED
      BY <1>8, <2>1, <3>1 DEF gold
  <2>2. CASE u # banker /\ won = result
    BY <1>3, <1>8, <1>10, <2>0, <2>2
  <2>3. CASE u # banker /\ won \in Shared(result, gold)
    <3>1. won[u] >= 0 \/ won[u] = result[u]
      BY <1>1, <1>3, <1>10, <2>0, <2>3, SharedFact
    <3>2. won[u] \in Int
      BY <1>6, <2>0
    <3>3. QED
      BY <1>3, <1>8, <1>10, <2>0, <2>3, <3>1, <3>2
  <2>4. QED
    BY <1>6, <2>1, <2>2, <2>3
<1>11. ASSUME gold \in 0 .. Precision - 1
       PROVE  SumOver(mapWinOrLose'[r], P) <= 0
  <2>1. SumOver(mapWinOrLose'[r], P) = own + SumOver(mapWinOrLose'[r], Others(r))
    BY <1>1, <1>8, SumTake
  <2>2. SumOver(mapWinOrLose'[r], Others(r)) = SumOver(won, Others(r))
    <3>1. \A u \in Others(r) : mapWinOrLose'[r][u] = won[u]
      BY <1>1, <1>8
    <3>2. mapWinOrLose'[r] \in [Uids -> Int] /\ won \in [Uids -> Int]
      BY <1>6, <1>8
    <3>3. QED
      BY <1>4, <3>1, <3>2, SumSame
  <2>3. SumOver(won, Others(r)) \in Int
    BY <1>4, <1>6, SumType
  <2>4. CASE own = -SumOver(result, Others(r)) /\ won = result
    BY <1>5, <2>1, <2>2, <2>4
  <2>5. CASE own = -gold /\ won \in Shared(result, gold) /\ SumOver(result, Others(r)) > gold
    <3>1. SumOver(won, Others(r)) <= gold
      BY <1>3, <1>4, <1>11, <2>5, SharesPaid
    <3>2. QED
      BY <1>1, <2>1, <2>2, <2>3, <2>5, <3>1
  <2>6. QED
    BY <1>6, <2>4, <2>5
<1>12. QED
  BY <1>9, <1>10, <1>11 DEF gold, P, banker

\* The fee leaves a whole number, and a loss within one's gold stays one.
LEMMA FinalFact ==
  ASSUME NEW w \in Int
  PROVE  /\ Final(w) \in Int
         /\ \A gold \in Int : gold >= 0 /\ w >= -gold => gold + Final(w) >= 0
<1>1. CASE w > 0
  <2>1. (95 * w) \div 100 \in Int /\ (95 * w) \div 100 >= 0
    BY <1>1
  <2>2. QED
    BY <1>1, <2>1 DEF Final
<1>2. CASE ~ (w > 0)
  BY <1>2 DEF Final
<1>3. QED
  BY <1>1, <1>2

\* A fee leaves at most the win it is taken from.
LEMMA FeeTakes ==
  ASSUME NEW w \in Int
  PROVE  Final(w) \in Int /\ Final(w) <= w
<1>1. w > 0 => (95 * w) \div 100 \in Int /\ (95 * w) \div 100 <= w
  OBVIOUS
<1>2. QED
  BY <1>1 DEF Final

-----------------------------------------------------------------------------
(* Types.                                                                   *)

\* The end of a settlement leaves its variables empty.
LEMMA OverType ==
  ASSUME TypeOK, NEW r \in Rooms, Over(r), UNCHANGED <<books, exposed, faults, rounds>>
  PROVE  TypeOK'
BY DEF TypeOK, Over, None, Phases, books

\* A number put into a table of whole numbers.
LEMMA PutFact ==
  ASSUME NEW f \in [Rooms -> [Uids -> Int]], NEW r \in Rooms, NEW u \in Uids, NEW x \in Int
  PROVE  [f EXCEPT ![r][u] = x] \in [Rooms -> [Uids -> Int]]
<1>1. [f[r] EXCEPT ![u] = x] \in [Uids -> Int]
  OBVIOUS
<1>2. QED
  BY <1>1

\* Every step keeps the types.
LEMMA TypeStep == TypeOK /\ [Next]_vars => TypeOK'
<1> SUFFICES ASSUME TypeOK, [Next]_vars
             PROVE  TypeOK'
  OBVIOUS
<1> USE DEF Phases, books, round, update
<1>1. ASSUME NEW r \in Rooms, Settle(r) PROVE TypeOK'
  <2>1. PICK P \in SUBSET Uids, b \in Uids :
          /\ b \in P
          /\ mapPlayers' = [mapPlayers EXCEPT ![r] = P]
          /\ bankerId' = [bankerId EXCEPT ![r] = b]
          /\ left' = [left EXCEPT ![r] = P]
          /\ exposed' = exposed \cup {u \in P : \E q \in Rooms : u \in mapPlayers[q]}
    BY <1>1 DEF Settle
  <2>2. rounds' \in 0 .. MaxRounds
    BY <1>1, SettlementAssumption DEF SettlementAssumption, Settle, TypeOK
  <2>3. paid[r] = {}
    BY <1>1 DEF Settle, TypeOK
  <2>4. QED
    BY <1>1, <2>1, <2>2, <2>3 DEF Settle, TypeOK
<1>2. ASSUME NEW r \in Rooms, NEW u \in Uids, ReadCap(r, u) PROVE TypeOK'
  <2>0. /\ redisGold[u] \in Int /\ mapUidGold \in [Rooms -> [Uids -> Int]]
        /\ phase \in [Rooms -> Phases] /\ left \in [Rooms -> SUBSET Uids]
    BY DEF TypeOK
  <2>1. mapUidGold' \in [Rooms -> [Uids -> Int]]
    <3>1. [mapUidGold EXCEPT ![r][u] = redisGold[u]] \in [Rooms -> [Uids -> Int]]
      BY <2>0, PutFact
    <3>2. QED
      BY <1>2, <2>0, <3>1 DEF ReadCap
  <2>2. /\ phase' \in [Rooms -> Phases] /\ left' \in [Rooms -> SUBSET Uids]
        /\ left'[r] \subseteq left[r] /\ phase'[r] \in {"caps", "commit"}
        /\ \A s \in Rooms \ {r} : left'[s] = left[s] /\ phase'[s] = phase[s]
    BY <1>2, <2>0 DEF ReadCap
  <2>3. phase[r] = "caps" /\ UNCHANGED <<books, exposed, faults, rounds, round, mapWinOrLose, update>>
    BY <1>2 DEF ReadCap
  <2>4. QED
    BY <2>1, <2>2, <2>3 DEF TypeOK
<1>3. ASSUME NEW r \in Rooms, CalcWinOrLose(r) PROVE TypeOK'
  <2>1. mapWinOrLose' \in [Rooms -> [Uids -> Int]]
    BY <1>3, CalcFact
  <2>2. exposed' \subseteq Uids
    BY <1>3 DEF CalcWinOrLose, TypeOK
  <2>3. QED
    BY <1>3, <2>1, <2>2 DEF CalcWinOrLose, TypeOK
<1>4. ASSUME NEW r \in Rooms, NEW u \in Uids, ReadGold(r, u) PROVE TypeOK'
  <2>1. redisGold[u] + Final(mapWinOrLose[r][u]) \in Int
    BY FeeTakes DEF TypeOK
  <2>2. mapPlayerGold' \in [Rooms -> [Uids -> Int]]
    <3>1. [mapPlayerGold EXCEPT ![r] = None] \in [Rooms -> [Uids -> Int]]
      BY DEF TypeOK, None
    <3>2. [mapPlayerGold EXCEPT ![r][u] = redisGold[u] + Final(mapWinOrLose[r][u])]
            \in [Rooms -> [Uids -> Int]]
      BY <2>1, PutFact DEF TypeOK
    <3>3. QED
      BY <1>4, <3>1, <3>2 DEF ReadGold
  <2>3. /\ phase' \in [Rooms -> Phases] /\ left' \in [Rooms -> SUBSET Uids]
        /\ paid' \in [Rooms -> SUBSET Uids]
        /\ left'[r] \subseteq left[r] /\ phase'[r] \in {"read", "commit"}
        /\ paid'[r] \subseteq paid[r] \cup left[r]
        /\ \A s \in Rooms \ {r} : left'[s] = left[s] /\ phase'[s] = phase[s] /\ paid'[s] = paid[s]
    <3>1. /\ phase \in [Rooms -> Phases] /\ left \in [Rooms -> SUBSET Uids]
          /\ paid \in [Rooms -> SUBSET Uids]
      BY DEF TypeOK
    <3>2. QED
      BY <1>4, <3>1 DEF ReadGold, Done
  <2>4. phase[r] = "read" /\ UNCHANGED <<books, exposed, faults, rounds, round, mapUidGold, mapWinOrLose>>
    BY <1>4 DEF ReadGold
  <2>5. QED
    BY <2>2, <2>3, <2>4 DEF TypeOK
<1>5. ASSUME NEW r \in Rooms, CommitGold(r) PROVE TypeOK'
  <2>1. CASE Over(r) /\ UNCHANGED <<books, exposed, faults, rounds>>
    BY <2>1, OverType
  <2>2. CASE ~ (Over(r) /\ UNCHANGED <<books, exposed, faults, rounds>>)
    <3>1. dbGold' \in [Uids -> Int]
      BY <1>5, <2>2 DEF CommitGold, InDb, TypeOK
    <3>2. faults' \in 0 .. MaxFaults /\ apart' \subseteq Uids
      BY <1>5, <2>2, SettlementAssumption DEF SettlementAssumption, CommitGold, Overtaken, TypeOK
    <3>3. /\ phase' \in [Rooms -> Phases] /\ left' \in [Rooms -> SUBSET Uids]
          /\ left'[r] = paid[r] /\ phase'[r] = "write" /\ phase[r] = "commit"
          /\ \A s \in Rooms \ {r} : left'[s] = left[s] /\ phase'[s] = phase[s]
      <4>1. /\ phase \in [Rooms -> Phases] /\ left \in [Rooms -> SUBSET Uids]
            /\ paid[r] \in SUBSET Uids
        BY DEF TypeOK
      <4>2. QED
        BY <1>5, <2>2, <4>1 DEF CommitGold
    <3>4. UNCHANGED <<redisGold, exposed, rounds, round, mapUidGold, mapWinOrLose, update>>
      BY <1>5, <2>2 DEF CommitGold
    <3>5. QED
      BY <3>1, <3>2, <3>3, <3>4 DEF TypeOK
  <2>3. QED
    BY <2>1, <2>2
<1>6. ASSUME NEW r \in Rooms, NEW u \in Uids, WriteRedis(r, u) PROVE TypeOK'
  <2>1. faults' \in 0 .. MaxFaults
    BY <1>6, SettlementAssumption DEF SettlementAssumption, WriteRedis, TypeOK
  <2>2. QED
    BY <1>6, <2>1 DEF WriteRedis, TypeOK
<1>7. ASSUME NEW r \in Rooms, Report(r) PROVE TypeOK'
  BY <1>7, OverType DEF Report
<1>8. CASE Crash
  <2>1. faults' \in 0 .. MaxFaults /\ apart' \subseteq Uids
    BY <1>8, SettlementAssumption DEF SettlementAssumption, Crash, Unwritten, TypeOK
  <2>2. QED
    BY <1>8, <2>1 DEF Crash, TypeOK, None
<1>9. CASE UNCHANGED vars
  BY <1>9 DEF vars, TypeOK
<1>10. QED
  BY <1>1, <1>2, <1>3, <1>4, <1>5, <1>6, <1>7, <1>8, <1>9 DEF Next

\* Type correctness of the settlements.
THEOREM TypesHold == Spec => []TypeOK
<1>1. ASSUME Init PROVE TypeOK
  <2>1. InitGold \subseteq Int /\ 0 \in 0 .. MaxFaults /\ 0 \in 0 .. MaxRounds
    BY SettlementAssumption DEF SettlementAssumption
  <2>2. redisGold \in [Uids -> Int]
    BY <1>1, <2>1 DEF Init
  <2>3. QED
    BY <1>1, <2>1, <2>2 DEF Init, TypeOK, Phases, None
<1>2. QED
  BY <1>1, TypeStep, PTL DEF Spec

-----------------------------------------------------------------------------
(* Who can be in debt. What carries the fact over the calls of one          *)
(* settlement, for a user no other room settles: calcWinOrLose's reading is *)
(* still what redis holds, the result is no loss of more than that, and the *)
(* entry that is to be committed is not negative.                           *)

SolventInv ==
  /\ Solvent
  /\ \A r \in Rooms : \A u \in mapPlayers[r] \ exposed :
       /\ \A q \in Rooms \ {r} : u \notin mapPlayers[q]
       /\ phase[r] = "caps" /\ u \notin left[r] => mapUidGold[r][u] = redisGold[u]
       /\ phase[r] = "read" => mapWinOrLose[r][u] >= -redisGold[u]
       /\ u \in paid[r] => mapPlayerGold[r][u] >= 0

\* The end of a settlement puts nobody in debt.
LEMMA OverSolvent ==
  ASSUME TypeOK, SolventInv, NEW r \in Rooms, Over(r), UNCHANGED <<books, exposed>>
  PROVE  SolventInv'
<1>1. mapPlayers'[r] = {}
  BY DEF TypeOK, Over
<1>2. \A q \in Rooms \ {r} :
        /\ mapPlayers'[q] = mapPlayers[q] /\ phase'[q] = phase[q] /\ left'[q] = left[q]
        /\ mapUidGold'[q] = mapUidGold[q] /\ mapWinOrLose'[q] = mapWinOrLose[q]
        /\ paid'[q] = paid[q] /\ mapPlayerGold'[q] = mapPlayerGold[q]
  BY DEF TypeOK, Over
<1>3. QED
  BY <1>1, <1>2 DEF SolventInv, Solvent, books

\* Every step puts nobody in debt whom no other room settles.
LEMMA SolventStep == TypeOK /\ SolventInv /\ [Next]_vars => SolventInv'
<1> SUFFICES ASSUME TypeOK, SolventInv, [Next]_vars
             PROVE  SolventInv'
  OBVIOUS
<1> USE DEF books, round, update
<1>1. ASSUME NEW r \in Rooms, Settle(r) PROVE SolventInv'
  <2>1. PICK P \in SUBSET Uids :
          /\ mapPlayers' = [mapPlayers EXCEPT ![r] = P]
          /\ left' = [left EXCEPT ![r] = P]
          /\ exposed' = exposed \cup {u \in P : \E q \in Rooms : u \in mapPlayers[q]}
    BY <1>1 DEF Settle
  <2>2. /\ mapPlayers'[r] = P /\ left'[r] = P /\ phase'[r] = "caps" /\ paid[r] = {}
        /\ \A q \in Rooms \ {r} : /\ mapPlayers'[q] = mapPlayers[q]
                                  /\ left'[q] = left[q] /\ phase'[q] = phase[q]
    BY <1>1, <2>1 DEF Settle, TypeOK
  <2>3. ASSUME NEW s \in Rooms, NEW u \in mapPlayers'[s] \ exposed'
        PROVE  /\ \A q \in Rooms \ {s} : u \notin mapPlayers'[q]
               /\ s # r => u \in mapPlayers[s] \ exposed
    BY <2>1, <2>2, <2>3 DEF SolventInv
  <2>4. QED
    BY <1>1, <2>1, <2>2, <2>3 DEF Settle, SolventInv, Solvent
<1>2. ASSUME NEW r \in Rooms, NEW u \in Uids, ReadCap(r, u) PROVE SolventInv'
  <2>1. CASE mapUidGold' = [mapUidGold EXCEPT ![r][u] = redisGold[u]] /\ UNCHANGED phase
    <3>1. left' = [left EXCEPT ![r] = @ \ {u}]
      BY <1>2, <2>1 DEF ReadCap, TypeOK
    <3>2. /\ mapUidGold'[r][u] = redisGold[u]
          /\ \A s \in Rooms : \A v \in Uids : s # r \/ v # u => mapUidGold'[s][v] = mapUidGold[s][v]
          /\ left'[r] = left[r] \ {u} /\ \A s \in Rooms \ {r} : left'[s] = left[s]
      BY <2>1, <3>1 DEF TypeOK
    <3>3. \A s \in Rooms : mapPlayers[s] \subseteq Uids
      BY DEF TypeOK
    <3>4. QED
      BY <1>2, <2>1, <3>2, <3>3 DEF ReadCap, SolventInv, Solvent
  <2>2. CASE phase' = [phase EXCEPT ![r] = "commit"] /\ UNCHANGED mapUidGold
    <3>1. phase'[r] = "commit" /\ \A s \in Rooms \ {r} : phase'[s] = phase[s] /\ left'[s] = left[s]
      BY <1>2, <2>2 DEF ReadCap, TypeOK
    <3>2. QED
      BY <1>2, <2>2, <3>1 DEF ReadCap, SolventInv, Solvent
  <2>3. QED
    BY <1>2, <2>1, <2>2 DEF ReadCap
<1>3. ASSUME NEW r \in Rooms, CalcWinOrLose(r) PROVE SolventInv'
  <2>1. /\ phase[r] = "caps" /\ left[r] = {} /\ phase'[r] = "read"
        /\ exposed \subseteq exposed'
        /\ UNCHANGED <<redisGold, dbGold, mapPlayers, mapUidGold, paid, mapPlayerGold>>
        /\ \A s \in Rooms \ {r} : /\ phase'[s] = phase[s] /\ left'[s] = left[s]
                                  /\ mapWinOrLose'[s] = mapWinOrLose[s]
    BY <1>3, CalcFact DEF CalcWinOrLose, TypeOK
  <2>2. mapUidGold[r][bankerId[r]] >= 0 \/ mapPlayers[r] \subseteq exposed'
    <3>1. mapUidGold[r][bankerId[r]] \in Int
      BY <1>3 DEF CalcWinOrLose, TypeOK
    <3>2. QED
      BY <1>3, <3>1 DEF CalcWinOrLose
  <2>3. ASSUME NEW u \in mapPlayers[r] \ exposed'
        PROVE  mapWinOrLose'[r][u] >= -redisGold[u]
    <3>1. u \in Uids /\ mapUidGold[r][u] = redisGold[u] /\ redisGold[u] >= 0
      BY <2>1 DEF SolventInv, Solvent, TypeOK
    <3>2. QED
      BY <1>3, <2>2, <3>1, CalcFact
  <2>4. QED
    BY <2>1, <2>3 DEF SolventInv, Solvent
<1>4. ASSUME NEW r \in Rooms, NEW u \in Uids, ReadGold(r, u) PROVE SolventInv'
  <2>1. /\ phase[r] = "read" /\ u \in left[r] /\ left[r] \subseteq mapPlayers[r]
        /\ phase'[r] \in {"read", "commit"}
        /\ UNCHANGED <<redisGold, dbGold, exposed, mapPlayers, mapUidGold, mapWinOrLose>>
        /\ \A s \in Rooms \ {r} :
             /\ phase'[s] = phase[s] /\ left'[s] = left[s] /\ paid'[s] = paid[s]
             /\ mapPlayerGold'[s] = mapPlayerGold[s]
    BY <1>4 DEF ReadGold, Done, TypeOK
  <2>2. ASSUME u \notin exposed
        PROVE  redisGold[u] + Final(mapWinOrLose[r][u]) >= 0
    <3>1. /\ redisGold[u] \in Int /\ redisGold[u] >= 0 /\ mapWinOrLose[r][u] \in Int
          /\ mapWinOrLose[r][u] >= -redisGold[u]
      BY <2>1, <2>2 DEF TypeOK, SolventInv, Solvent
    <3>2. QED
      BY <3>1, FinalFact
  <2>3. \/ paid'[r] = {}
        \/ /\ paid'[r] = paid[r] \cup {u}
           /\ mapPlayerGold'[r][u] = redisGold[u] + Final(mapWinOrLose[r][u])
           /\ \A v \in Uids \ {u} : mapPlayerGold'[r][v] = mapPlayerGold[r][v]
    BY <1>4 DEF ReadGold, TypeOK
  <2>4. ASSUME NEW v \in mapPlayers[r] \ exposed, v \in paid'[r]
        PROVE  mapPlayerGold'[r][v] >= 0
    <3>1. v \in Uids
      BY <2>4 DEF TypeOK
    <3>2. QED
      BY <2>2, <2>3, <2>4, <3>1 DEF SolventInv
  <2>5. QED
    BY <2>1, <2>4 DEF SolventInv, Solvent
<1>5. ASSUME NEW r \in Rooms, CommitGold(r) PROVE SolventInv'
  <2>1. CASE Over(r) /\ UNCHANGED <<books, exposed, faults, rounds>>
    BY <2>1, OverSolvent
  <2>2. CASE ~ (Over(r) /\ UNCHANGED <<books, exposed, faults, rounds>>)
    <3>1. /\ phase'[r] = "write"
          /\ UNCHANGED <<redisGold, exposed, mapPlayers, mapUidGold, mapWinOrLose, paid, mapPlayerGold>>
          /\ \A s \in Rooms \ {r} : phase'[s] = phase[s] /\ left'[s] = left[s]
          /\ dbGold' = InDb(r) \/ dbGold' = dbGold
      BY <1>5, <2>2 DEF CommitGold, TypeOK
    <3>2. ASSUME NEW u \in Uids \ exposed PROVE dbGold'[u] >= 0
      <4>1. dbGold'[u] = dbGold[u] \/ (u \in paid[r] /\ dbGold'[u] = mapPlayerGold[r][u])
        BY <3>1 DEF InDb
      <4>2. u \in paid[r] => u \in mapPlayers[r]
        BY DEF TypeOK
      <4>3. QED
        BY <4>1, <4>2 DEF SolventInv, Solvent
    <3>3. QED
      BY <3>1, <3>2 DEF SolventInv, Solvent
  <2>3. QED
    BY <2>1, <2>2
<1>6. ASSUME NEW r \in Rooms, NEW u \in Uids, WriteRedis(r, u) PROVE SolventInv'
  <2>1. /\ phase[r] = "write" /\ u \in left[r] /\ u \in mapPlayers[r]
        /\ UNCHANGED <<dbGold, exposed, phase, mapPlayers, mapUidGold, mapWinOrLose, paid, mapPlayerGold>>
        /\ \A s \in Rooms \ {r} : left'[s] = left[s]
    BY <1>6 DEF WriteRedis, TypeOK
  <2>2. CASE UNCHANGED redisGold
    BY <2>1, <2>2 DEF SolventInv, Solvent
  <2>3. CASE redisGold' = [redisGold EXCEPT ![u] = mapPlayerGold[r][u]]
    <3>1. redisGold'[u] = mapPlayerGold[r][u] /\ \A v \in Uids \ {u} : redisGold'[v] = redisGold[v]
      BY <2>3 DEF TypeOK
    <3>2. u \notin exposed => /\ \A s \in Rooms \ {r} : u \notin mapPlayers[s]
                              /\ u \in paid[r] => redisGold'[u] >= 0
      BY <2>1, <3>1 DEF SolventInv
    <3>3. \A s \in Rooms : mapPlayers[s] \subseteq Uids
      BY DEF TypeOK
    <3>4. u \in paid[r]
      BY <2>1 DEF TypeOK
    <3>5. QED
      BY <2>1, <3>1, <3>2, <3>3, <3>4 DEF SolventInv, Solvent
  <2>4. QED
    BY <1>6, <2>2, <2>3 DEF WriteRedis
<1>7. ASSUME NEW r \in Rooms, Report(r) PROVE SolventInv'
  BY <1>7, OverSolvent DEF Report
<1>8. CASE Crash
  BY <1>8 DEF Crash, SolventInv, Solvent
<1>9. CASE UNCHANGED vars
  BY <1>9 DEF vars, SolventInv, Solvent
<1>10. QED
  BY <1>1, <1>2, <1>3, <1>4, <1>5, <1>6, <1>7, <1>8, <1>9 DEF Next

\* SolventInv is inductive.
LEMMA SolventHolds == Spec => []SolventInv
<1>1. ASSUME Init PROVE SolventInv
  <2>1. \A u \in Uids : redisGold[u] \in Int /\ dbGold[u] = redisGold[u]
    BY <1>1, SettlementAssumption DEF SettlementAssumption, Init
  <2>2. Solvent
    BY <1>1, <2>1 DEF Init, Solvent
  <2>3. QED
    BY <1>1, <2>2 DEF Init, SolventInv
<1>2. QED
  BY <1>1, TypesHold, SolventStep, PTL DEF Spec

\* Rule 2.1 for every set of users and rooms, all stakes and any faults: the gold of a
\* user whom no two rooms settled at once, and no banker in debt settled with, is never
\* negative, in either book.
THEOREM AlwaysSolvent == Spec => []Solvent
<1>1. SolventInv => Solvent
  BY DEF SolventInv
<1>2. QED
  BY <1>1, SolventHolds, PTL

-----------------------------------------------------------------------------
(* The two books. What is still to be written to redis is what the database *)
(* holds, by one room only, unless a write was lost or overtaken.           *)

BooksInv ==
  /\ BooksAgree
  /\ \A r \in Rooms : \A u \in Unwritten(r) \ apart :
       /\ mapPlayerGold[r][u] = dbGold[u]
       /\ \A q \in Rooms \ {r} : u \notin Unwritten(q)

\* What a room has still to write does not depend on what the others do.
LEMMA UnwrittenKept ==
  ASSUME NEW r \in Rooms, phase'[r] = phase[r], left'[r] = left[r]
  PROVE  Unwritten(r)' = Unwritten(r)
BY DEF Unwritten

\* A step of one room before its commit, or after its last write, leaves the books alone.
LEMMA QuietStep ==
  ASSUME TypeOK, BooksInv, NEW r \in Rooms, Unwritten(r) = {}, Unwritten(r)' = {},
         \A q \in Rooms \ {r} :
           phase'[q] = phase[q] /\ left'[q] = left[q] /\ mapPlayerGold'[q] = mapPlayerGold[q],
         UNCHANGED books
  PROVE  BooksInv'
<1>1. \A q \in Rooms : Unwritten(q)' = Unwritten(q)
  BY UnwrittenKept
<1>2. UNION {Unwritten(q)' : q \in Rooms} = UNION {Unwritten(q) : q \in Rooms}
  BY <1>1
<1>3. BooksAgree'
  BY <1>2 DEF BooksInv, BooksAgree, books
<1>4. ASSUME NEW q \in Rooms, NEW u \in Unwritten(q)' \ apart'
      PROVE  /\ mapPlayerGold'[q][u] = dbGold'[u]
             /\ \A s \in Rooms \ {q} : u \notin Unwritten(s)'
  BY <1>1, <1>4 DEF BooksInv, books
<1>5. QED
  BY <1>3, <1>4 DEF BooksInv

\* Every step keeps the books in agreement but for lost, overtaken and coming writes.
LEMMA BooksStep == TypeOK /\ BooksInv /\ [Next]_vars => BooksInv'
<1> SUFFICES ASSUME TypeOK, BooksInv, [Next]_vars
             PROVE  BooksInv'
  OBVIOUS
<1> USE DEF round, update
<1>1. ASSUME NEW r \in Rooms, Settle(r) PROVE BooksInv'
  <2>1. phase[r] = "idle" /\ phase'[r] = "caps"
        /\ \A q \in Rooms \ {r} : phase'[q] = phase[q] /\ left'[q] = left[q]
    BY <1>1 DEF Settle, TypeOK
  <2>2. QED
    BY <1>1, <2>1, QuietStep DEF Settle, Unwritten
<1>2. ASSUME NEW r \in Rooms, NEW u \in Uids, ReadCap(r, u) PROVE BooksInv'
  <2>1. phase[r] = "caps" /\ phase'[r] \in {"caps", "commit"}
        /\ \A q \in Rooms \ {r} : phase'[q] = phase[q] /\ left'[q] = left[q]
    BY <1>2 DEF ReadCap, TypeOK
  <2>2. QED
    BY <1>2, <2>1, QuietStep DEF ReadCap, Unwritten
<1>3. ASSUME NEW r \in Rooms, CalcWinOrLose(r) PROVE BooksInv'
  <2>1. phase[r] = "caps" /\ phase'[r] = "read"
        /\ \A q \in Rooms \ {r} : phase'[q] = phase[q] /\ left'[q] = left[q]
    BY <1>3 DEF CalcWinOrLose, TypeOK
  <2>2. QED
    BY <1>3, <2>1, QuietStep DEF CalcWinOrLose, Unwritten
<1>4. ASSUME NEW r \in Rooms, NEW u \in Uids, ReadGold(r, u) PROVE BooksInv'
  <2>1. phase[r] = "read" /\ phase'[r] \in {"read", "commit"}
        /\ \A q \in Rooms \ {r} :
             phase'[q] = phase[q] /\ left'[q] = left[q] /\ mapPlayerGold'[q] = mapPlayerGold[q]
    BY <1>4 DEF ReadGold, Done, TypeOK
  <2>2. QED
    BY <1>4, <2>1, QuietStep DEF ReadGold, Unwritten
<1>5. ASSUME NEW r \in Rooms, CommitGold(r) PROVE BooksInv'
  <2>1. phase[r] = "commit" /\ Unwritten(r) = {} /\ paid[r] \subseteq Uids
    BY <1>5 DEF CommitGold, Unwritten, TypeOK
  <2>2. CASE Over(r) /\ UNCHANGED <<books, exposed, faults, rounds>>
    <3>1. phase'[r] = "idle"
          /\ \A q \in Rooms \ {r} :
               phase'[q] = phase[q] /\ left'[q] = left[q] /\ mapPlayerGold'[q] = mapPlayerGold[q]
      BY <2>2 DEF Over, TypeOK
    <3>2. QED
      BY <2>1, <2>2, <3>1, QuietStep DEF Unwritten
  <2>3. CASE ~ (Over(r) /\ UNCHANGED <<books, exposed, faults, rounds>>)
    <3>1. /\ phase'[r] = "write" /\ left'[r] = paid[r]
          /\ \A q \in Rooms \ {r} : phase'[q] = phase[q] /\ left'[q] = left[q]
          /\ UNCHANGED <<redisGold, mapPlayerGold, paid>>
      BY <1>5, <2>3 DEF CommitGold, TypeOK
    <3>2. Unwritten(r)' = paid[r] /\ \A q \in Rooms \ {r} : Unwritten(q)' = Unwritten(q)
      BY <3>1, UnwrittenKept DEF Unwritten
    <3>3. CASE dbGold' = InDb(r) /\ apart' = (apart \ paid[r]) \cup Overtaken(r)
      <4>1. \A u \in Uids : dbGold'[u] = IF u \in paid[r] THEN mapPlayerGold[r][u] ELSE dbGold[u]
        BY <3>3 DEF InDb
      <4>2. \A u \in paid[r] \ apart' : \A q \in Rooms \ {r} : u \notin Unwritten(q)
        BY <3>3 DEF Overtaken
      <4>3. \A u \in Uids : u \notin paid[r] /\ u \notin apart' => u \notin apart
        BY <3>3
      <4>4. BooksAgree'
        <5>1. ASSUME NEW u \in Uids, u \notin apart', \A q \in Rooms : u \notin Unwritten(q)'
              PROVE  redisGold'[u] = dbGold'[u]
          <6>1. u \notin paid[r] /\ \A q \in Rooms : u \notin Unwritten(q)
            BY <2>1, <3>2, <5>1
          <6>2. u \notin apart
            BY <4>3, <5>1, <6>1
          <6>3. QED
            BY <3>1, <4>1, <6>1, <6>2 DEF BooksInv, BooksAgree
        <5>2. QED
          BY <5>1 DEF BooksAgree
      <4>5. ASSUME NEW q \in Rooms, NEW u \in Unwritten(q)' \ apart'
            PROVE  /\ mapPlayerGold'[q][u] = dbGold'[u]
                   /\ \A s \in Rooms \ {q} : u \notin Unwritten(s)'
        <5>0. u \in Uids
          BY <2>1, <3>2, <4>5 DEF Unwritten, TypeOK
        <5>1. CASE q = r
          BY <3>1, <3>2, <4>1, <4>2, <4>5, <5>0, <5>1
        <5>2. CASE q # r
          <6>1. u \in Unwritten(q)
            BY <3>2, <4>5, <5>2
          <6>2. u \notin paid[r] /\ u \notin apart
            BY <4>2, <4>3, <4>5, <5>0, <5>2, <6>1
          <6>3. QED
            BY <3>1, <3>2, <4>1, <5>0, <6>1, <6>2 DEF BooksInv
        <5>3. QED
          BY <5>1, <5>2
      <4>6. QED
        BY <4>4, <4>5 DEF BooksInv
    <3>4. CASE apart' = apart \cup paid[r] /\ UNCHANGED dbGold
      <4>1. BooksAgree'
        <5>1. ASSUME NEW u \in Uids, u \notin apart', \A q \in Rooms : u \notin Unwritten(q)'
              PROVE  redisGold'[u] = dbGold'[u]
          <6>1. u \notin apart /\ \A q \in Rooms : u \notin Unwritten(q)
            BY <2>1, <3>2, <3>4, <5>1
          <6>2. QED
            BY <3>1, <3>4, <6>1 DEF BooksInv, BooksAgree
        <5>2. QED
          BY <5>1 DEF BooksAgree
      <4>2. ASSUME NEW q \in Rooms, NEW u \in Unwritten(q)' \ apart'
            PROVE  /\ mapPlayerGold'[q][u] = dbGold'[u]
                   /\ \A s \in Rooms \ {q} : u \notin Unwritten(s)'
        BY <3>1, <3>2, <3>4, <4>2 DEF BooksInv
      <4>3. QED
        BY <4>1, <4>2 DEF BooksInv
    <3>5. QED
      BY <1>5, <2>3, <3>3, <3>4 DEF CommitGold
  <2>4. QED
    BY <2>2, <2>3
<1>6. ASSUME NEW r \in Rooms, NEW u \in Uids, WriteRedis(r, u) PROVE BooksInv'
  <2>1. /\ phase[r] = "write" /\ u \in left[r] /\ left'[r] = left[r] \ {u}
        /\ \A q \in Rooms \ {r} : left'[q] = left[q]
        /\ UNCHANGED <<dbGold, phase, mapPlayerGold>>
    BY <1>6 DEF WriteRedis, TypeOK
  <2>2. /\ u \in Unwritten(r) /\ Unwritten(r)' = Unwritten(r) \ {u}
        /\ \A q \in Rooms \ {r} : Unwritten(q)' = Unwritten(q)
    BY <2>1, UnwrittenKept DEF Unwritten
  <2>3. /\ apart \subseteq apart'
        /\ \A v \in Uids \ {u} : redisGold'[v] = redisGold[v]
        /\ u \in apart' \/ redisGold'[u] = mapPlayerGold[r][u]
    BY <1>6 DEF WriteRedis, TypeOK
  <2>4. ASSUME NEW v \in Uids, v \notin apart', \A q \in Rooms : v \notin Unwritten(q)'
        PROVE  redisGold'[v] = dbGold'[v]
    <3>1. CASE v = u
      BY <2>1, <2>2, <2>3, <2>4, <3>1 DEF BooksInv
    <3>2. CASE v # u
      BY <2>1, <2>2, <2>3, <2>4, <3>2 DEF BooksInv, BooksAgree
    <3>3. QED
      BY <3>1, <3>2
  <2>5. ASSUME NEW q \in Rooms, NEW v \in Unwritten(q)' \ apart'
        PROVE  /\ mapPlayerGold'[q][v] = dbGold'[v]
               /\ \A s \in Rooms \ {q} : v \notin Unwritten(s)'
    BY <2>1, <2>2, <2>3, <2>5 DEF BooksInv
  <2>6. BooksAgree'
    BY <2>4 DEF BooksAgree
  <2>7. QED
    BY <2>5, <2>6 DEF BooksInv
<1>7. ASSUME NEW r \in Rooms, Report(r) PROVE BooksInv'
  <2>1. /\ phase[r] = "write" /\ left[r] = {} /\ phase'[r] = "idle" /\ UNCHANGED books
        /\ \A q \in Rooms \ {r} :
             phase'[q] = phase[q] /\ left'[q] = left[q] /\ mapPlayerGold'[q] = mapPlayerGold[q]
    BY <1>7 DEF Report, Over, TypeOK
  <2>2. QED
    BY <2>1, QuietStep DEF Unwritten
<1>8. CASE Crash
  <2>1. /\ \A r \in Rooms : Unwritten(r)' = {}
        /\ apart' = apart \cup UNION {Unwritten(r) : r \in Rooms}
        /\ UNCHANGED <<redisGold, dbGold>>
    BY <1>8 DEF Crash, Unwritten
  <2>2. QED
    BY <2>1 DEF BooksInv, BooksAgree
<1>9. CASE UNCHANGED vars
  <2>1. UNCHANGED <<phase, left, redisGold, dbGold, apart, mapPlayerGold>>
    BY <1>9 DEF vars, books
  <2>2. \A q \in Rooms : Unwritten(q)' = Unwritten(q)
    BY <2>1 DEF Unwritten
  <2>3. QED
    BY <2>1, <2>2 DEF BooksInv, BooksAgree
<1>10. QED
  BY <1>1, <1>2, <1>3, <1>4, <1>5, <1>6, <1>7, <1>8, <1>9 DEF Next

\* For every set of users and rooms and any faults, redis and the database differ at a
\* user only by a write that is to come, was lost, or was overtaken by another room's.
THEOREM BooksAlwaysAgree == Spec => []BooksAgree
<1>1. Init => BooksInv
  BY DEF Init, BooksInv, BooksAgree, Unwritten
<1>2. BooksInv => BooksAgree
  BY DEF BooksInv
<1>3. QED
  BY <1>1, <1>2, TypesHold, BooksStep, PTL DEF Spec

-----------------------------------------------------------------------------
(* No settlement makes gold. What calcWinOrLose leaves adds up to no gain,  *)
(* whether the banker paid in full or the winners shared the banker's gold; *)
(* the fee only takes from it, and what is committed are all the results or *)
(* none.                                                                    *)

Exact(r) == mapUidGold[r][bankerId[r]] \in 0 .. Precision - 1

GoldInv ==
  /\ \A r \in Rooms : phase[r] = "read" =>
       /\ paid[r] = mapPlayers[r] \ left[r]
       /\ Exact(r) => SumOver(mapWinOrLose[r], mapPlayers[r]) <= 0
  /\ NoGoldMade

\* The fee only takes from what adds up to no gain.
LEMMA NoneMade ==
  ASSUME NEW w \in [Uids -> Int], NEW P \in SUBSET Uids, SumOver(w, P) <= 0
  PROVE  SumOver([u \in Uids |-> Final(w[u])], P) <= 0
<1> DEFINE f == [u \in Uids |-> Final(w[u])]
<1>1. IsFiniteSet(P)
  BY PartsFinite
<1>2. f \in [Uids -> Int] /\ \A u \in P : f[u] <= w[u]
  BY FeeTakes
<1> HIDE DEF f
<1>3. SumOver(f, P) <= SumOver(w, P)
  BY <1>1, <1>2, SumLess
<1>4. SumOver(f, P) \in Int /\ SumOver(w, P) \in Int
  BY <1>1, <1>2, SumType
<1>5. SumOver(f, P) <= 0
  BY <1>3, <1>4
<1>6. QED
  BY <1>5 DEF f

\* A step of one room that neither ends its calculation nor its second reading makes
\* no gold.
LEMMA OtherStep ==
  ASSUME TypeOK, GoldInv, NEW r \in Rooms,
         phase'[r] \notin {"read", "commit"} \/ (phase'[r] = "commit" /\ paid'[r] = {}),
         \A q \in Rooms \ {r} :
           /\ phase'[q] = phase[q] /\ left'[q] = left[q] /\ mapPlayers'[q] = mapPlayers[q]
           /\ bankerId'[q] = bankerId[q] /\ mapUidGold'[q] = mapUidGold[q]
           /\ mapWinOrLose'[q] = mapWinOrLose[q] /\ paid'[q] = paid[q]
  PROVE  GoldInv'
<1>1. ASSUME NEW q \in Rooms, phase'[q] = "read"
      PROVE  /\ paid'[q] = mapPlayers'[q] \ left'[q]
             /\ Exact(q)' => SumOver(mapWinOrLose'[q], mapPlayers'[q]) <= 0
  BY <1>1 DEF GoldInv, Exact
<1>2. ASSUME NEW q \in Rooms, phase'[q] = "commit", Exact(q)'
      PROVE  SumOver([u \in Uids |-> Final(mapWinOrLose'[q][u])], paid'[q]) <= 0
  <2>1. CASE q = r
    <3>1. paid'[q] = {}
      BY <1>2, <2>1
    <3>2. SumOver([u \in Uids |-> Final(mapWinOrLose'[q][u])], {}) = 0
      BY SumEmpty
    <3>3. QED
      BY <3>1, <3>2
  <2>2. CASE q # r
    BY <1>2, <2>2 DEF GoldInv, NoGoldMade, Exact
  <2>3. QED
    BY <2>1, <2>2
<1>3. NoGoldMade'
  BY <1>2 DEF NoGoldMade, Exact
<1>4. QED
  BY <1>1, <1>3 DEF GoldInv

\* Every step keeps the account of what was won and lost.
LEMMA GoldStep == TypeOK /\ GoldInv /\ [Next]_vars => GoldInv'
<1> SUFFICES ASSUME TypeOK, GoldInv, [Next]_vars
             PROVE  GoldInv'
  OBVIOUS
<1> USE DEF books, round, update
<1>1. ASSUME NEW r \in Rooms, Settle(r) PROVE GoldInv'
  <2>1. /\ phase'[r] = "caps"
        /\ \A q \in Rooms \ {r} :
             /\ phase'[q] = phase[q] /\ left'[q] = left[q]
             /\ mapPlayers'[q] = mapPlayers[q] /\ bankerId'[q] = bankerId[q]
    BY <1>1 DEF Settle, TypeOK
  <2>2. QED
    BY <1>1, <2>1, OtherStep DEF Settle
<1>2. ASSUME NEW r \in Rooms, NEW u \in Uids, ReadCap(r, u) PROVE GoldInv'
  <2>1. /\ phase'[r] = "caps" \/ (phase'[r] = "commit" /\ paid'[r] = {})
        /\ \A q \in Rooms \ {r} :
             phase'[q] = phase[q] /\ left'[q] = left[q] /\ mapUidGold'[q] = mapUidGold[q]
    BY <1>2 DEF ReadCap, TypeOK
  <2>2. QED
    BY <1>2, <2>1, OtherStep DEF ReadCap
<1>3. ASSUME NEW r \in Rooms, CalcWinOrLose(r) PROVE GoldInv'
  <2>1. /\ phase'[r] = "read" /\ left'[r] = mapPlayers[r] /\ paid[r] = {}
        /\ UNCHANGED <<mapPlayers, bankerId, mapUidGold, paid>>
        /\ \A q \in Rooms \ {r} : phase'[q] = phase[q] /\ left'[q] = left[q]
    BY <1>3 DEF CalcWinOrLose, TypeOK
  <2>2. /\ \A q \in Rooms \ {r} : mapWinOrLose'[q] = mapWinOrLose[q]
        /\ Exact(r) => SumOver(mapWinOrLose'[r], mapPlayers[r]) <= 0
    BY <1>3, CalcFact DEF Exact
  <2>3. NoGoldMade'
    BY <2>1, <2>2 DEF GoldInv, NoGoldMade
  <2>4. QED
    BY <2>1, <2>2, <2>3 DEF GoldInv, Exact
<1>4. ASSUME NEW r \in Rooms, NEW u \in Uids, ReadGold(r, u) PROVE GoldInv'
  <2>1. /\ phase[r] = "read" /\ u \in left[r]
        /\ UNCHANGED <<mapPlayers, bankerId, mapUidGold, mapWinOrLose>>
        /\ \A q \in Rooms \ {r} : phase'[q] = phase[q] /\ left'[q] = left[q] /\ paid'[q] = paid[q]
    BY <1>4 DEF ReadGold, Done, TypeOK
  <2>2. CASE paid'[r] = {} /\ phase'[r] = "commit"
    BY <2>1, <2>2, OtherStep
  <2>3. CASE ~ (paid'[r] = {} /\ phase'[r] = "commit")
    <3>1. /\ paid'[r] = paid[r] \cup {u} /\ left'[r] = left[r] \ {u}
          /\ phase'[r] = IF left[r] = {u} THEN "commit" ELSE "read"
      BY <1>4, <2>1, <2>3 DEF ReadGold, Done, TypeOK
    <3>2. paid'[r] = mapPlayers[r] \ left'[r]
      BY <2>1, <3>1 DEF GoldInv, TypeOK
    <3>3. phase'[r] = "commit" /\ Exact(r)
            => SumOver([v \in Uids |-> Final(mapWinOrLose[r][v])], paid'[r]) <= 0
      <4>1. phase'[r] = "commit" => paid'[r] = mapPlayers[r]
        BY <3>1, <3>2
      <4>2. mapWinOrLose[r] \in [Uids -> Int] /\ mapPlayers[r] \in SUBSET Uids
        BY DEF TypeOK
      <4>3. Exact(r) => SumOver(mapWinOrLose[r], mapPlayers[r]) <= 0
        BY <2>1 DEF GoldInv
      <4>4. QED
        BY <4>1, <4>2, <4>3, NoneMade
    <3>4. NoGoldMade'
      <4>1. ASSUME NEW q \in Rooms, phase'[q] = "commit", Exact(q)'
            PROVE  SumOver([v \in Uids |-> Final(mapWinOrLose'[q][v])], paid'[q]) <= 0
        BY <2>1, <3>3, <4>1 DEF GoldInv, NoGoldMade, Exact
      <4>2. QED
        BY <4>1 DEF NoGoldMade, Exact
    <3>5. QED
      BY <2>1, <3>1, <3>2, <3>4 DEF GoldInv, Exact
  <2>4. QED
    BY <2>2, <2>3
<1>5. ASSUME NEW r \in Rooms, CommitGold(r) PROVE GoldInv'
  <2>1. /\ phase'[r] \in {"idle", "write"}
        /\ \A q \in Rooms \ {r} :
             /\ phase'[q] = phase[q] /\ left'[q] = left[q] /\ mapPlayers'[q] = mapPlayers[q]
             /\ bankerId'[q] = bankerId[q] /\ mapUidGold'[q] = mapUidGold[q]
             /\ mapWinOrLose'[q] = mapWinOrLose[q] /\ paid'[q] = paid[q]
    BY <1>5 DEF CommitGold, Over, TypeOK
  <2>2. QED
    BY <2>1, OtherStep
<1>6. ASSUME NEW r \in Rooms, NEW u \in Uids, WriteRedis(r, u) PROVE GoldInv'
  <2>1. phase'[r] = "write" /\ \A q \in Rooms \ {r} : left'[q] = left[q]
    BY <1>6 DEF WriteRedis, TypeOK
  <2>2. QED
    BY <1>6, <2>1, OtherStep DEF WriteRedis
<1>7. ASSUME NEW r \in Rooms, Report(r) PROVE GoldInv'
  <2>1. /\ phase'[r] = "idle"
        /\ \A q \in Rooms \ {r} :
             /\ phase'[q] = phase[q] /\ left'[q] = left[q] /\ mapPlayers'[q] = mapPlayers[q]
             /\ bankerId'[q] = bankerId[q] /\ mapUidGold'[q] = mapUidGold[q]
             /\ mapWinOrLose'[q] = mapWinOrLose[q] /\ paid'[q] = paid[q]
    BY <1>7 DEF Report, Over, TypeOK
  <2>2. QED
    BY <2>1, OtherStep
<1>8. CASE Crash
  BY <1>8 DEF Crash, GoldInv, NoGoldMade
<1>9. CASE UNCHANGED vars
  BY <1>9 DEF vars, GoldInv, NoGoldMade, Exact
<1>10. QED
  BY <1>1, <1>2, <1>3, <1>4, <1>5, <1>6, <1>7, <1>8, <1>9 DEF Next

\* Rule 2.2 and the fee for every set of users and rooms and all stakes: while the gold
\* a banker was read to have is below what a float32 counts exactly, no settlement is
\* about to add to the accounts it read more than it takes from them.
THEOREM GoldNeverMade == Spec => []NoGoldMade
<1>1. Init => GoldInv
  BY DEF Init, GoldInv, NoGoldMade
<1>2. GoldInv => NoGoldMade
  BY DEF GoldInv
<1>3. QED
  BY <1>1, <1>2, TypesHold, GoldStep, PTL DEF Spec
====
