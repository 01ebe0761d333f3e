---------------------------- MODULE ArrayFilter ----------------------------
(***************************************************************************)
(* Array.prototype.filter, as update_arrivals_details and                  *)
(* update_passenger_numbers use it on a snapshot: the result holds the     *)
(* entries the callback accepts, in array order.  It is given here by the  *)
(* set of indices kept rather than by SelectSeq and a test: the entry of   *)
(* rank m in the result is the one at the kept index with m kept indices   *)
(* up to it.  The definition needs no recursion, so that two filters whose *)
(* tests accept the same entries are equal by the equality of two sets.   *)
(* FilteredIsSelectSeq states that it agrees with SelectSeq; the MC        *)
(* modules check it on every index set of a bounded length.               *)
(***************************************************************************)
EXTENDS Integers, Sequences, FiniteSets

\* How many of the indices K are at most j.
Rank(K, j) == Cardinality({k \in K : k <= j})

\* The entries of s at the indices K, in index order.
Filtered(s, K) ==
    [m \in 1 .. Cardinality(K) |-> s[CHOOSE j \in K : Rank(K, j) = m]]

\* Filtered agrees with the standard SelectSeq on every index set of the
\* sequences 1 .. n, n up to N; since Filtered(s, K)[m] is s at the m-th
\* entry of Filtered(1 .. Len(s), K), it then agrees on every sequence.
FilteredIsSelectSeq(N) ==
    \A n \in 0 .. N :
        LET ids == [j \in 1 .. n |-> j] IN
        \A K \in SUBSET (1 .. n) :
            Filtered(ids, K) = SelectSeq(ids, LAMBDA j : j \in K)

=============================================================================
