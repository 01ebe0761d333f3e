------------------------- MODULE ArrayFilterProofs -------------------------
(***************************************************************************)
(* What the proofs of the two filter callbacks need of Filtered: a filter  *)
(* of a snapshot is a sequence as long as the set of indices it keeps, and *)
(* it is its own prefix of that length.  That the entries are the kept     *)
(* ones in order is the definition itself (checked against SelectSeq by    *)
(* TLC); that two filters keeping the same indices are equal needs no      *)
(* lemma at all.                                                           *)
(***************************************************************************)
EXTENDS ArrayFilter, FiniteSetTheorems, TLAPS

\* A function on 1 .. c is a sequence of length c, its own prefix of that
\* length.
LEMMA FunctionIsSeq ==
    ASSUME NEW c \in Nat, NEW R, NEW f \in [1 .. c -> R]
    PROVE  /\ f \in Seq(R)
           /\ Len(f) = c
           /\ SubSeq(f, 1, c) = f
<1>1. f \in Seq(R)
  OBVIOUS
<1>2. Len(f) = c
  OBVIOUS
<1>3. SubSeq(f, 1, c) = f
  OBVIOUS
<1>4. QED
  BY <1>1, <1>2, <1>3

\* A filter of the indices K of a sequence of length n.
LEMMA FilteredShape ==
    ASSUME NEW s, NEW n \in Nat, NEW K \in SUBSET (1 .. n)
    PROVE  /\ Cardinality(K) \in Nat
           /\ Len(Filtered(s, K)) = Cardinality(K)
           /\ SubSeq(Filtered(s, K), 1, Len(Filtered(s, K))) = Filtered(s, K)
<1>1. IsFiniteSet(K)
  <2>1. IsFiniteSet(1 .. n)
    BY FS_Interval
  <2>2. QED
    BY <2>1, FS_Subset
<1>2. Cardinality(K) \in Nat
  BY <1>1, FS_CardinalityType
<1> DEFINE c == Cardinality(K)
           f == Filtered(s, K)
<1>3. f \in [1 .. c -> {f[m] : m \in 1 .. c}]
  BY DEF Filtered
<1>4. Len(f) = c /\ SubSeq(f, 1, c) = f
  BY <1>2, <1>3, FunctionIsSeq
<1>5. QED
  BY <1>2, <1>4

=============================================================================
