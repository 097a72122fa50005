---------------------------- MODULE MCNiuniuHands ----------------------------
(* Heaps of ten cards, chosen so that every type and every tie of two types *)
(* can be dealt.                                                            *)
EXTENDS NiuniuHands, SequencesExt

C(n, c) == [num |-> n, color |-> c]

\* Bombs of both numbers, and the five small cards, which may be a bomb too.
BombHeap == <<C(A, 1), C(2, 1), C(A, 2), C(2, 2), C(A, 3), C(2, 3), C(2, 4), C(A, 4),
              C(K, 1), C(K, 2)>>

\* Hulus of three numbers, the highest among them.
HuluHeap == <<C(A, 1), C(2, 1), C(A, 2), C(2, 2), C(A, 3), C(2, 3), C(2, 4),
              C(K, 1), C(K, 2), C(K, 3)>>

\* Sequences and straight flushes of two colours, the highest against the highest and
\* against the one below, and hands of pictures.
TopSeqHeap == <<C(10, 1), C(J, 1), C(A, 1), C(Q, 1), C(K, 1),
                C(K, 2), C(Q, 2), C(A, 2), C(J, 2), C(10, 2)>>
SeqHeap == <<C(10, 1), C(J, 1), C(Q, 1), C(K, 1), C(9, 1),
             C(K, 2), C(Q, 2), C(A, 2), C(J, 2), C(10, 2)>>

\* Points, with and without a triple.
MixedHeap == <<C(4, 3), C(5, 2), C(6, 1), C(6, 2), C(7, 3), C(8, 4), C(9, 1),
               C(J, 2), C(Q, 3), C(K, 4)>>

\* The chosen cards of a heap, in its order.
Pick(heap, cards) == SelectSeq(heap, LAMBDA card : card \in cards)

DealsOf(heap) ==
  UNION {{<<Pick(heap, b), Pick(heap, p)>> : p \in kSubset(5, Range(heap) \ b)} :
         b \in kSubset(5, Range(heap))}

MCDeals == UNION {DealsOf(h) : h \in {BombHeap, HuluHeap, TopSeqHeap, SeqHeap, MixedHeap}}
=============================================================================
