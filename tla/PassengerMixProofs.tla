------------------------- MODULE PassengerMixProofs -------------------------
(***************************************************************************)
(* Proof, for every snapshot and every bucket, that the counting loop of   *)
(* update_passenger_numbers keeps the counters the spec and the code      *)
(* agree on equal to the passengers it has seen (CountsAgreeWithSpec).    *)
(* The argument is the loop invariant CountInv: each iteration adds to    *)
(* each counter what its test says of passenger i, and the prefix of the  *)
(* bucket grows by that passenger.  Then, from the stronger MixInv, that *)
(* the filter keeps the passengers of the shown bucket, and that the pie  *)
(* drawn counts the whole bucket.                                         *)
(***************************************************************************)
EXTENDS PassengerMix, ArrayFilterProofs, FiniteSetTheorems, TLAPS

\* The first k entries of s, taken by SubSeq.
LEMMA PrefixFacts ==
    ASSUME NEW s, NEW k \in Nat
    PROVE  /\ Len(SubSeq(s, 1, k)) = k
           /\ \A j \in 1 .. k : SubSeq(s, 1, k)[j] = s[j]
  OBVIOUS

\* The indices up to k + 1 in a set T are those up to k and perhaps k + 1.
LEMMA IndexCountStep ==
    ASSUME NEW T, NEW k \in Nat
    PROVE  /\ IsFiniteSet({j \in 1 .. k : j \in T})
           /\ Cardinality({j \in 1 .. k + 1 : j \in T})
                = Cardinality({j \in 1 .. k : j \in T})
                  + (IF k + 1 \in T THEN 1 ELSE 0)
<1> DEFINE Lo == {j \in 1 .. k : j \in T}
<1>1. IsFiniteSet(Lo)
  <2>1. IsFiniteSet(1 .. k)
    BY FS_Interval
  <2>2. Lo \subseteq 1 .. k
    OBVIOUS
  <2>3. QED
    BY <2>1, <2>2, FS_Subset
<1>2. CASE k + 1 \in T
  <2>1. {j \in 1 .. k + 1 : j \in T} = Lo \cup {k + 1}
    BY <1>2
  <2>2. k + 1 \notin Lo
    OBVIOUS
  <2>3. QED
    BY <1>1, <1>2, <2>1, <2>2, FS_AddElement
<1>3. CASE k + 1 \notin T
  <2>1. {j \in 1 .. k + 1 : j \in T} = Lo
    BY <1>3
  <2>2. Cardinality({j \in 1 .. k + 1 : j \in T}) = Cardinality(Lo)
    BY <2>1
  <2>3. (IF k + 1 \in T THEN 1 ELSE 0) = 0
    BY <1>3
  <2>4. Cardinality(Lo) \in Nat
    BY <1>1, FS_CardinalityType
  <2>5. QED
    BY <1>1, <2>2, <2>3, <2>4
<1>4. QED
  BY <1>1, <1>2, <1>3

\* Counting one more entry of s adds one exactly when its field f is in L.
LEMMA CountOfStep ==
    ASSUME NEW s, NEW k \in Nat, NEW f, NEW L
    PROVE  CountOf(SubSeq(s, 1, k + 1), f, L)
             = CountOf(SubSeq(s, 1, k), f, L) + (IF s[k + 1][f] \in L THEN 1 ELSE 0)
<1> DEFINE T == {j \in 1 .. k + 1 : s[j][f] \in L}
<1>1. {j \in 1 .. Len(SubSeq(s, 1, k + 1)) : SubSeq(s, 1, k + 1)[j][f] \in L}
        = {j \in 1 .. k + 1 : j \in T}
  BY PrefixFacts
<1>2. {j \in 1 .. Len(SubSeq(s, 1, k)) : SubSeq(s, 1, k)[j][f] \in L}
        = {j \in 1 .. k : j \in T}
  BY PrefixFacts
<1>3. Cardinality({j \in 1 .. k + 1 : j \in T})
        = Cardinality({j \in 1 .. k : j \in T}) + (IF k + 1 \in T THEN 1 ELSE 0)
  BY IndexCountStep
<1>4. (k + 1 \in T) <=> (s[k + 1][f] \in L)
  OBVIOUS
<1>5. CountOf(SubSeq(s, 1, k + 1), f, L) = Cardinality({j \in 1 .. k + 1 : j \in T})
  BY <1>1 DEF CountOf
<1>6. CountOf(SubSeq(s, 1, k), f, L) = Cardinality({j \in 1 .. k : j \in T})
  BY <1>2 DEF CountOf
<1>7. QED
  BY <1>3, <1>4, <1>5, <1>6

\* Nothing is counted in an empty prefix.
LEMMA CountOfEmpty ==
    ASSUME NEW s, NEW f, NEW L
    PROVE  CountOf(SubSeq(s, 1, 0), f, L) = 0
<1>1. {j \in 1 .. Len(SubSeq(s, 1, 0)) : SubSeq(s, 1, 0)[j][f] \in L} = {}
  BY PrefixFacts
<1>2. QED
  BY <1>1, FS_EmptySet DEF CountOf

\* What one iteration adds to each counter, by the tests on passenger p:
\* the transit and visa counters follow one test each, and of each pair
\* split by age or document exactly one is incremented for a member of
\* the group and neither for anyone else.
LEMMA IncrementsFacts ==
    ASSUME NEW p
    PROVE  LET One(c) == IF c \in Increments(p) THEN 1 ELSE 0
               In(f, L) == IF p[f] \in L THEN 1 ELSE 0
           IN  /\ One("transit_count") = In("in_transit_flag", {"Y"})
               /\ One("vn_count") = In("nat", VNList)
               /\ One("nvn_count") = In("nat", NVNList)
               /\ One("b5jssk_eligilbe_count") + One("b5jssk_ineligible_count")
                    = In("nat", B5JSSKList)
               /\ One("eea_eligilbe_count") + One("eea_ineligible_count")
                    = In("nat", EEAList)
               /\ One("eea_machine_count") + One("eea_nonmachine_count")
                    = In("nat", EEAList)
  BY DEF Increments

LEMMA InitCountInv == Init => CountInv
  BY DEF Init, CountInv, CountsAgreeWithSpec

\* The filter leaves the counters at 0 and the loop at its first index.
LEMMA FilterCountInv ==
    ASSUME CountInv, Filter
    PROVE  CountInv'
<1>1. i' = 1 /\ counts' = [c \in Counters |-> 0] /\ pc' = "count"
  BY DEF CountInv, Filter
<1>2. \A f, L : CountOf(SubSeq(bucket', 1, i' - 1), f, L) = 0
  BY <1>1, CountOfEmpty
<1>3. QED
  BY <1>1, <1>2 DEF CountInv, CountsAgreeWithSpec, Counters

\* One iteration of the for loop: each counter grows by what its test says
\* of passenger i, and the prefix seen grows by that passenger.
LEMMA CountCountInv ==
    ASSUME CountInv, Count
    PROVE  CountInv'
<1> DEFINE k == i - 1
           p == bucket[i]
           seen == SubSeq(bucket, 1, k)
           One(c) == IF c \in Increments(p) THEN 1 ELSE 0
<1>1. /\ k \in Nat /\ i = k + 1 /\ i' = i + 1
      /\ pc = "count" /\ pc' = "count" /\ bucket' = bucket
      /\ counts' = [c \in Counters |-> counts[c] + One(c)]
  BY DEF CountInv, Count
<1>2. \A f, L : CountOf(SubSeq(bucket', 1, i' - 1), f, L)
                  = CountOf(seen, f, L) + (IF p[f] \in L THEN 1 ELSE 0)
  BY <1>1, CountOfStep
<1>3. /\ counts["transit_count"] = CountOf(seen, "in_transit_flag", {"Y"})
      /\ counts["vn_count"] = CountOf(seen, "nat", VNList)
      /\ counts["nvn_count"] = CountOf(seen, "nat", NVNList)
      /\ counts["b5jssk_eligilbe_count"] + counts["b5jssk_ineligible_count"]
            = CountOf(seen, "nat", B5JSSKList)
      /\ counts["eea_eligilbe_count"] + counts["eea_ineligible_count"]
            = CountOf(seen, "nat", EEAList)
      /\ counts["eea_machine_count"] + counts["eea_nonmachine_count"]
            = CountOf(seen, "nat", EEAList)
  BY <1>1 DEF CountInv, CountsAgreeWithSpec
<1>4. counts' \in [Counters -> Nat]
  BY <1>1 DEF CountInv
<1>5. CountsAgreeWithSpec'
  <2>1. \A c \in Counters : counts'[c] = counts[c] + One(c)
    BY <1>1
  <2>2. QED
    BY <1>1, <1>2, <1>3, <2>1, IncrementsFacts
       DEF CountsAgreeWithSpec, Counters, CountInv
<1>6. QED
  BY <1>1, <1>4, <1>5 DEF CountInv

\* Drawing the chart changes none of the loop's state.
LEMMA DrawCountInv ==
    ASSUME CountInv, Draw
    PROVE  CountInv'
  BY DEF CountInv, Draw, CountsAgreeWithSpec

LEMMA NextCountInv == CountInv /\ [Next]_vars => CountInv'
<1> SUFFICES ASSUME CountInv, [Next]_vars PROVE CountInv'
  OBVIOUS
<1>1. CASE Filter
  BY <1>1, FilterCountInv
<1>2. CASE Count
  BY <1>2, CountCountInv
<1>3. CASE Draw
  BY <1>3, DrawCountInv
<1>4. CASE UNCHANGED vars
  BY <1>4 DEF vars, CountInv, CountsAgreeWithSpec
<1>5. QED
  BY <1>1, <1>2, <1>3, <1>4 DEF Next

\* The loop invariant of update_passenger_numbers holds throughout: the
\* loop index is past the passengers counted, the counters start at 0 when
\* the filter has run, and they agree with what has been counted.
THEOREM CountInvHolds == Spec => []CountInv
  BY InitCountInv, NextCountInv, PTL DEF Spec

\* The nine counters of update_passenger_numbers count, for every snapshot
\* and bucket, the transit, visa and non-visa passengers seen so far, and
\* each age or document split adds up to its nationality group.
THEOREM CountsCorrect == Spec => []CountsAgreeWithSpec
  BY CountInvHolds, PTL DEF CountInv

-----------------------------------------------------------------------------
(* The filter's arithmetic.                                                *)

\* Which quarter of its hour a PCP minute of 0 .. 59 lies in.
LEMMA QuarterOfMinute ==
    ASSUME NEW m \in 0 .. 59
    PROVE  LET q == IF m = 0 THEN 0 ELSE (m - 1) \div 15
           IN  /\ q \in 0 .. 3
               /\ \A lab \in Nat : InQuarter(m, lab) <=> lab % 4 = q
<1> DEFINE q == IF m = 0 THEN 0 ELSE (m - 1) \div 15
<1>1. CASE m <= 15
  <2>1. q = 0
    BY <1>1
  <2>2. QED
    BY <1>1, <2>1 DEF InQuarter
<1>2. CASE 15 < m /\ m <= 30
  <2>1. q = 1
    BY <1>2
  <2>2. QED
    BY <1>2, <2>1 DEF InQuarter
<1>3. CASE 30 < m /\ m <= 45
  <2>1. q = 2
    BY <1>3
  <2>2. QED
    BY <1>3, <2>1 DEF InQuarter
<1>4. CASE 45 < m
  <2>1. q = 3
    BY <1>4
  <2>2. QED
    BY <1>4, <2>1 DEF InQuarter
<1>5. QED
  BY <1>1, <1>2, <1>3, <1>4

\* The two filters of update_passenger_numbers keep a passenger exactly
\* when its PCP time lies in the bucket of the closure's hour and the
\* label's quarter: the test under FilterSelectsShownBucket, for every
\* passenger, bucket and label.
THEOREM PaxFilterIffInBucket ==
    ASSUME NEW p \in PaxSet, NEW t \in TBs, NEW lab \in TBs
    PROVE  PaxInBucket(p, t, lab) <=> PcpBucket(p) = 4 * (t \div 4) + (lab % 4)
<1> DEFINE q == IF p.minute = 0 THEN 0 ELSE (p.minute - 1) \div 15
<1>1. /\ q \in 0 .. 3
      /\ InQuarter(p.minute, lab) <=> lab % 4 = q
      /\ p.hour \in Nat
  BY PaxSetAssumption, TBsAssumption, QuarterOfMinute
<1>2. lab % 4 \in 0 .. 3 /\ t \div 4 \in Nat
  BY TBsAssumption
<1>3. QED
  BY <1>1, <1>2 DEF PaxInBucket, PcpBucket

-----------------------------------------------------------------------------
(* The filter and the chart, from MixInv.                                  *)

\* A snapshot is a sequence of passenger records.
LEMMA SnapshotFacts ==
    ASSUME NEW s \in Snapshots
    PROVE  /\ Len(s) \in Nat
           /\ \A j \in 1 .. Len(s) : s[j] \in PaxSet
<1>1. PICK n \in 0 .. MaxPax : s \in [1 .. n -> PaxSet]
  BY DEF Snapshots
<1>2. n \in Nat
  BY MaxPaxAssumption
<1>3. QED
  BY <1>1, <1>2

\* The bucket the filter builds from a snapshot is a sequence of a natural
\* length, and its own prefix of that length.
LEMMA BucketFacts ==
    ASSUME NEW s \in Snapshots, NEW t, NEW lab
    PROVE  /\ Len(Filtered(s, KeptPax(s, t, lab))) \in Nat
           /\ LET b == Filtered(s, KeptPax(s, t, lab))
              IN  SubSeq(b, 1, Len(b)) = b
<1>1. Len(s) \in Nat
  BY SnapshotFacts
<1>2. KeptPax(s, t, lab) \in SUBSET (1 .. Len(s))
  BY DEF KeptPax
<1>3. QED
  BY <1>1, <1>2, FilteredShape

LEMMA InitMixInv == Init => MixInv
  BY InitCountInv DEF Init, MixInv

LEMMA NextMixInv == MixInv /\ [Next]_vars => MixInv'
<1> SUFFICES ASSUME MixInv, [Next]_vars PROVE MixInv'
  OBVIOUS
<1>1. CountInv'
  BY NextCountInv DEF MixInv
<1>2. data' \in Snapshots /\ {tb', label'} \subseteq TBs
  BY DEF MixInv, Next, Filter, Count, Draw, vars
<1>3. CASE Filter
  <2>1. /\ bucket' = Filtered(data', KeptPax(data', tb', label'))
        /\ i' = 1 /\ pc' = "count"
    BY <1>3 DEF Filter, MixInv, CountInv
  <2>2. Len(bucket') \in Nat
    BY <1>2, <2>1, BucketFacts
  <2>3. QED
    BY <1>1, <1>2, <2>1, <2>2 DEF MixInv
<1>4. CASE Count
  <2>1. /\ i' = i + 1 /\ i <= Len(bucket) /\ pc = "count" /\ pc' = "count"
        /\ UNCHANGED <<data, tb, label, bucket, chart>>
    BY <1>4 DEF Count
  <2>2. i \in Nat
    BY DEF MixInv, CountInv
  <2>3. QED
    BY <1>1, <1>2, <2>1, <2>2 DEF MixInv
<1>5. CASE Draw
  <2>1. /\ pc = "count" /\ i > Len(bucket) /\ chart' = Data3 /\ pc' = "done"
        /\ UNCHANGED <<data, tb, label, bucket, i, counts>>
    BY <1>5 DEF Draw
  <2>2. Len(bucket) \in Nat
    BY <2>1, BucketFacts DEF MixInv
  <2>3. i = Len(bucket) + 1
    BY <2>1, <2>2 DEF MixInv, CountInv
  <2>4. Data3' = Data3
    BY <2>1 DEF Data3
  <2>5. QED
    BY <1>1, <1>2, <2>1, <2>3, <2>4 DEF MixInv
<1>6. CASE UNCHANGED vars
  BY <1>1, <1>6 DEF vars, MixInv, Data3
<1>7. QED
  BY <1>3, <1>4, <1>5, <1>6 DEF Next

\* The filter, the loop and the chart of update_passenger_numbers keep
\* MixInv in every state, for every snapshot, bucket and label.
THEOREM MixInvHolds == Spec => []MixInv
  BY InitMixInv, NextMixInv, PTL DEF Spec

\* The indices the two filters keep are those of the passengers of the
\* shown bucket.
LEMMA MixInvFilter == MixInv => FilterSelectsShownBucket
<1> SUFFICES ASSUME MixInv, pc # "filter"
             PROVE  bucket = Filtered(data, {j \in 1 .. Len(data) :
                                             PcpBucket(data[j]) = ShownBucket})
  BY DEF FilterSelectsShownBucket
<1>1. \A j \in 1 .. Len(data) : data[j] \in PaxSet
  BY SnapshotFacts DEF MixInv
<1>2. tb \in TBs /\ label \in TBs
  BY DEF MixInv
<1>3. KeptPax(data, tb, label)
        = {j \in 1 .. Len(data) : PcpBucket(data[j]) = ShownBucket}
  BY <1>1, <1>2, PaxFilterIffInBucket DEF KeptPax, ShownBucket
<1>4. QED
  BY <1>3 DEF MixInv

\* The two filters of update_passenger_numbers keep exactly the passengers,
\* in snapshot order, whose PCP time lies in the bucket of the closure's
\* hour and the label's quarter, minutes 0, 15, 30 and 45 included.
THEOREM FilterCorrect == Spec => []FilterSelectsShownBucket
  BY MixInvHolds, MixInvFilter, PTL

\* Where the chart is drawn, the prefix the counters agree with is the
\* whole bucket.
LEMMA MixInvChart == MixInv => ChartShowsBucket
<1> SUFFICES ASSUME MixInv, pc = "done"
             PROVE  ChartShowsBucket
  BY DEF ChartShowsBucket
<1>1. SubSeq(bucket, 1, i - 1) = bucket
  <2>1. i - 1 = Len(bucket)
    BY DEF MixInv
  <2>2. QED
    BY <2>1, BucketFacts DEF MixInv
<1>2. chart = Data3
  BY DEF MixInv
<1>3. CountsAgreeWithSpec
  BY DEF MixInv, CountInv
<1>4. QED
  BY <1>1, <1>2, <1>3 DEF CountsAgreeWithSpec, ChartShowsBucket, Data3

\* The pie update_passenger_numbers draws shows the whole bucket: its
\* visa and non-visa segments count the bucket's visa and non-visa
\* nationals, and its B5JSSK and EEA segment pairs add up to the bucket's
\* B5JSSK and EEA nationals, for every snapshot, bucket and label.
THEOREM ChartCorrect == Spec => []ChartShowsBucket
  BY MixInvHolds, MixInvChart, PTL

=============================================================================
