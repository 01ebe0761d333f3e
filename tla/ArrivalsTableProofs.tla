------------------------ MODULE ArrivalsTableProofs ------------------------
(***************************************************************************)
(* The arithmetic under the arrivals filter, for every flight, bucket and  *)
(* label: the hour test and the quarter switch of update_arrivals_details *)
(* keep a flight exactly when its EstPCP lies in ListedBucket(tb, label), *)
(* and the four labels of an hour share out its flights with none left    *)
(* over and none shown twice.  From the invariant TableInv, the table     *)
(* then holds exactly those flights, in snapshot order                    *)
(* (TableListsListedBucket).                                              *)
(***************************************************************************)
EXTENDS ArrivalsTable, TLAPS

USE FlightSetAssumption

\* Which quarter of its hour a minute of 0 .. 59 lies in.
LEMMA QuarterOfMinute ==
    ASSUME NEW m \in 0 .. 59
    PROVE  LET q == IF m = 0 THEN 0 ELSE (m - 1) \div 15
           IN  /\ q \in 0 .. 3
               /\ \A lab \in Nat : InQuarter(m, lab) <=> lab % 4 = q
<1> DEFINE q == IF m = 0 THEN 0 ELSE (m - 1) \div 15
<1>1. CASE m <= 15
  <2>1. q = 0
    BY <1>1
  <2>2. QED
    BY <1>1, <2>1 DEF InQuarter
<1>2. CASE 15 < m /\ m <= 30
  <2>1. q = 1
    BY <1>2
  <2>2. QED
    BY <1>2, <2>1 DEF InQuarter
<1>3. CASE 30 < m /\ m <= 45
  <2>1. q = 2
    BY <1>3
  <2>2. QED
    BY <1>3, <2>1 DEF InQuarter
<1>4. CASE 45 < m
  <2>1. q = 3
    BY <1>4
  <2>2. QED
    BY <1>4, <2>1 DEF InQuarter
<1>5. QED
  BY <1>1, <1>2, <1>3, <1>4

\* The filter of update_arrivals_details keeps a flight exactly when its
\* EstPCP lies in the bucket of the closure's hour and the label's quarter.
THEOREM ListedIffInBucket ==
    ASSUME NEW f \in FlightSet, NEW t \in Nat, NEW lab \in Nat
    PROVE  FlightListed(f, t, lab) <=> FlightBucket(f) = ListedBucket(t, lab)
<1> DEFINE q == IF f.minute = 0 THEN 0 ELSE (f.minute - 1) \div 15
<1>1. /\ q \in 0 .. 3
      /\ InQuarter(f.minute, lab) <=> lab % 4 = q
      /\ f.hour \in Nat
  BY QuarterOfMinute
<1>2. lab % 4 \in 0 .. 3 /\ t \div 4 \in Nat
  OBVIOUS
<1>3. QED
  BY <1>1, <1>2 DEF FlightListed, FlightBucket, ListedBucket

\* Every flight of the closure's hour is listed under exactly one of the
\* hour's four labels: no EstPCP minute falls between two quarters of the
\* switch, and none lies in two.
THEOREM QuartersPartitionHour ==
    ASSUME NEW f \in FlightSet, NEW t \in Nat, f.hour = t \div 4
    PROVE  \E q \in 0 .. 3 :
              /\ FlightListed(f, t, 4 * (t \div 4) + q)
              /\ \A r \in 0 .. 3 : FlightListed(f, t, 4 * (t \div 4) + r) => r = q
<1> DEFINE q == IF f.minute = 0 THEN 0 ELSE (f.minute - 1) \div 15
<1>1. q \in 0 .. 3 /\ \A lab \in Nat : InQuarter(f.minute, lab) <=> lab % 4 = q
  BY QuarterOfMinute
<1>2. \A r \in 0 .. 3 : (4 * (t \div 4) + r) % 4 = r /\ 4 * (t \div 4) + r \in Nat
  OBVIOUS
<1>3. QED
  BY <1>1, <1>2 DEF FlightListed

-----------------------------------------------------------------------------
(* The table, from TableInv.                                               *)

\* A snapshot is a sequence of flight records.
LEMMA SnapshotFacts ==
    ASSUME NEW s \in Snapshots
    PROVE  /\ Len(s) \in Nat
           /\ \A j \in 1 .. Len(s) : s[j] \in FlightSet
<1>1. PICK n \in 0 .. MaxFlights : s \in [1 .. n -> FlightSet]
  BY DEF Snapshots
<1>2. n \in Nat
  BY MaxFlightsAssumption
<1>3. QED
  BY <1>1, <1>2

LEMMA InitTableInv == Init => TableInv
  BY DEF Init, TableInv

\* The callback sets the table from the snapshot, the closure's bucket and
\* the label, none of which it changes.
LEMMA NextTableInv == TableInv /\ [Next]_vars => TableInv'
<1> SUFFICES ASSUME TableInv, [Next]_vars PROVE TableInv'
  OBVIOUS
<1>1. CASE UpdateArrivalsDetails
  BY <1>1 DEF UpdateArrivalsDetails, TableInv
<1>2. CASE UNCHANGED vars
  BY <1>2 DEF vars, TableInv
<1>3. QED
  BY <1>1, <1>2 DEF Next

\* Every state of update_arrivals_details satisfies TableInv.
THEOREM TableInvHolds == Spec => []TableInv
  BY InitTableInv, NextTableInv, PTL DEF Spec

\* The indices the filter keeps are those of the flights of the listed
\* bucket.
LEMMA TableInvListed == TableInv => TableListsListedBucket
<1> SUFFICES ASSUME TableInv, table # NoTable
             PROVE  table = Filtered(data, {j \in 1 .. Len(data) :
                               FlightBucket(data[j]) = ListedBucket(tb, bar)})
  BY DEF TableListsListedBucket
<1>1. \A j \in 1 .. Len(data) : data[j] \in FlightSet
  BY SnapshotFacts DEF TableInv
<1>2. tb \in Nat /\ bar \in Nat
  BY TBsAssumption DEF TableInv
<1>3. ListedFlights(data, tb, bar)
        = {j \in 1 .. Len(data) : FlightBucket(data[j]) = ListedBucket(tb, bar)}
  BY <1>1, <1>2, ListedIffInBucket DEF ListedFlights
<1>4. QED
  BY <1>3 DEF TableInv

\* The table update_arrivals_details appends lists exactly the flights, in
\* snapshot order, whose EstPCP lies in the bucket of the closure's hour
\* and the label's quarter, for every snapshot, bucket and label.
THEOREM TableCorrect == Spec => []TableListsListedBucket
  BY TableInvHolds, TableInvListed, PTL

=============================================================================
