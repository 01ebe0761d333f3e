---------------------------- MODULE ArrivalsTable ----------------------------
(***************************************************************************)
(* update_arrivals_details in src/Dashboard/dashboard-scripts.js: the     *)
(* callback of populate_arrivals(tb).  It keeps the flights of the        *)
(* arrivals snapshot whose EstPCP lies in the hour of tb, then those in   *)
(* the quarter named by the minute of the first tb-bar label, and appends *)
(* a table with one row per kept flight to the first .arrival-tooltip.    *)
(* The callback runs to its end or to a TypeError without a step of any   *)
(* other callback in between, and a TypeError discards what it computed,  *)
(* so it is one step.                                                     *)
(*                                                                         *)
(* A flight is a record of the flight it is and the two numbers parseInt  *)
(* reads from its EstPCP "HH:MM" (the hour, and characters 3-4 for the    *)
(* minute); the other twelve columns are only copied into cells.  A       *)
(* tb-bar label is given by the bucket it shows: its minute is            *)
(* 15 * (label % 4).  Dashboard's ArrivalsLoaded is this step with the    *)
(* rows abstracted to the bucket they are for.                             *)
(***************************************************************************)
EXTENDS Integers, Sequences, ArrayFilter

CONSTANTS
    FlightSet,   \* the flight records a snapshot may hold
    MaxFlights,  \* model bound: flights in a snapshot
    TBs,         \* the buckets tb and the tb-bar label may name
    NoBar,       \* the page holds no .tb-bar
    NoTable      \* no table was appended

ASSUME MaxFlightsAssumption == MaxFlights \in Nat
ASSUME TBsAssumption == TBs \subseteq Nat
ASSUME FlightSetAssumption ==
    \A f \in FlightSet : f.hour \in Nat /\ f.minute \in 0 .. 59

VARIABLES
    data,    \* the arrivals snapshot, in file order
    tb,      \* the closure's bucket
    bar,     \* the bucket the first .tb-bar shows, or NoBar
    ok,      \* whether d3.json delivered data
    table,   \* the rows of the appended table, or NoTable
    pc       \* "waiting" for the response, or "done"

vars == <<data, tb, bar, ok, table, pc>>

Snapshots == UNION {[1 .. n -> FlightSet] : n \in 0 .. MaxFlights}

\* Mutant: the '15' case written as [15, 30) (>= 15 && < 30).
InQuarterShifted(m, lab) ==
    LET q == lab % 4 IN
    IF q = 0 THEN m <= 15
    ELSE IF q = 1 THEN 15 <= m /\ m < 30
    ELSE IF q = 2 THEN 30 < m /\ m <= 45
    ELSE m > 45

\* The switch on the label's minute: '00' keeps minutes up to 15, '15'
\* keeps (15, 30], '30' keeps (30, 45], '45' keeps the rest.
InQuarter(m, lab) ==
    LET q == lab % 4 IN
    IF q = 0 THEN m <= 15
    ELSE IF q = 1 THEN 15 < m /\ m <= 30
    ELSE IF q = 2 THEN 30 < m /\ m <= 45
    ELSE m > 45

\* arrivals_currentHour (currentHour = Math.trunc(tb * 0.25)), then
\* arrivals_in_timebucket.
FlightListed(f, t, lab) ==
    /\ f.hour = t \div 4
    /\ InQuarter(f.minute, lab)

\* The indices of the snapshot s that the two filters keep.
ListedFlights(s, t, lab) == {j \in 1 .. Len(s) : FlightListed(s[j], t, lab)}

Init ==
    /\ data \in Snapshots
    /\ tb \in TBs
    /\ bar \in TBs \cup {NoBar}
    /\ ok \in BOOLEAN
    /\ table = NoTable
    /\ pc = "waiting"

\* The callback: data.filter throws without data, and reading innerHTML of
\* the missing first tb-bar throws; otherwise the table is appended with a
\* row per flight of arrivals_in_timebucket, in snapshot order.
UpdateArrivalsDetails ==
    /\ pc = "waiting"
    /\ table' = IF ok /\ bar # NoBar
                  THEN Filtered(data, ListedFlights(data, tb, bar))
                  ELSE NoTable
    /\ pc' = "done"
    /\ UNCHANGED <<data, tb, bar, ok>>

Next == UpdateArrivalsDetails

Spec == Init /\ [][Next]_vars

-----------------------------------------------------------------------------
(* Properties.                                                             *)

\* The bucket an EstPCP time lies in, minute 0 opening the hour's first
\* quarter as the '00' case has it.
FlightBucket(f) ==
    4 * f.hour + (IF f.minute = 0 THEN 0 ELSE (f.minute - 1) \div 15)

\* The bucket the table is for: the hour of tb, the quarter of the label
\* (Dashboard's ListedBucket).
ListedBucket(t, lab) == 4 * (t \div 4) + (lab % 4)

\* The appended table lists exactly the flights, in snapshot order, whose
\* EstPCP lies in the bucket made of the closure's hour and the label's
\* quarter: no flight of that bucket is left out and none of another is
\* shown, at every quarter boundary.  This is what Dashboard's
\* ArrivalsLoaded records of a table.
TableListsListedBucket ==
    table # NoTable =>
        table = Filtered(data, {j \in 1 .. Len(data) :
                                  FlightBucket(data[j]) = ListedBucket(tb, bar)})

-----------------------------------------------------------------------------
(* The inductive invariant ArrivalsTableProofs uses.                       *)

\* A table is on the page only once the callback has run with data and a
\* tb-bar to read, and it is the snapshot filtered by the closure's hour
\* and the label's quarter.
TableInv ==
    /\ data \in Snapshots
    /\ tb \in TBs
    /\ bar \in TBs \cup {NoBar}
    /\ table # NoTable =>
          /\ ok /\ bar # NoBar
          /\ table = Filtered(data, ListedFlights(data, tb, bar))

=============================================================================
