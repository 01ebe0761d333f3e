---------------------------- MODULE PassengerMix ----------------------------
(***************************************************************************)
(* update_passenger_numbers in src/Dashboard/dashboard-scripts.js: the    *)
(* callback of populate_passenger_mix(tb).  It keeps the passengers of    *)
(* the snapshot whose PCP time lies in the hour of tb and in the quarter  *)
(* named by the minute of the first tb-bar label, counts them by          *)
(* nationality, age, document and transit, and draws the six counts of    *)
(* the pie chart.  The filter is one step, each iteration of the counting *)
(* loop one step, and the chart one step.                                  *)
(*                                                                         *)
(* A passenger is a record of the fields the callback reads, with the PCP  *)
(* timestamp given by the two numbers it parses out of it (characters     *)
(* 11-12 for the hour, 14-15 for the minute).  A tb-bar label is given by  *)
(* the bucket it shows: its minute is 15 * (label % 4).                    *)
(***************************************************************************)
EXTENDS Integers, Sequences, FiniteSets, ArrayFilter

CONSTANTS
    PaxSet,    \* the passenger records a snapshot may hold
    MaxPax,    \* model bound: passengers in a snapshot
    TBs,       \* the buckets tb and the tb-bar label may name
    NaN        \* what parseInt returns for a string with no leading digits

ASSUME MaxPaxAssumption == MaxPax \in Nat
ASSUME PaxSetAssumption ==
    \A p \in PaxSet : p.hour \in Nat /\ p.minute \in 0 .. 59
ASSUME TBsAssumption == TBs \subseteq Nat

VARIABLES
    data,      \* the passenger snapshot, in file order
    tb,        \* the closure's bucket
    label,     \* the bucket the first .tb-bar shows
    bucket,    \* pax_in_timebucket
    i,         \* the loop index (1-based)
    counts,    \* the nine counters
    chart,     \* data3, the pie chart's segments, once drawn
    pc         \* "filter", "count" or "done"

vars == <<data, tb, label, bucket, i, counts, chart, pc>>

Snapshots == UNION {[1 .. n -> PaxSet] : n \in 0 .. MaxPax}

Counters == {"transit_count", "b5jssk_eligilbe_count",
             "b5jssk_ineligible_count", "eea_eligilbe_count",
             "eea_ineligible_count", "eea_machine_count",
             "eea_nonmachine_count", "nvn_count", "vn_count"}

Segments == {"a", "b", "c", "d", "e", "f"}

NoChart == [s \in Segments |-> 0]

\* b5jssk_list
B5JSSKList ==
    { "USA", "AUS", "CAN", "NZL", "JPN", "KOR", "SGP" }

\* eea_list
EEAList ==
    { "GBR", "AUT", "BEL", "BGR", "HRV", "CYP", "CZE", "DNK", "EST", "FIN", "FRA",
      "DEU", "GRC", "HUN", "IRL", "ITA", "LVA", "LTU", "LUX", "MLT", "NLD", "POL",
      "PRT", "ROU", "SVK", "SVN", "ESP", "SWE", "ISL", "NOR", "LIE", "CHE" }

\* vn_list
VNList ==
    { "AFG", "AGO", "ALB", "ARM", "AZE", "BDI", "BEN", "BES", "BFA", "BGD", "BHR",
      "BIH", "BLR", "BOL", "BTN", "CAF", "CHN", "CIV", "CMR", "COD", "COG", "COL",
      "COM", "CPV", "CUB", "CUW", "DJI", "DOM", "DZA", "ECU", "EGY", "ERI", "ESH",
      "ETH", "FJI", "GAB", "GEO", "GGY", "GHA", "GIN", "GMB", "GNB", "GNQ", "GUY",
      "HTI", "IDN", "IND", "IRN", "IRQ", "JAM", "JOR", "KAZ", "KEN", "KGZ", "KHM",
      "LAO", "LBN", "LBR", "LBY", "LKA", "LSO", "MAR", "MDA", "MDG", "MKD", "MLI",
      "MMR", "MNE", "MNG", "MOZ", "MRT", "MWI", "NER", "NGA", "NPL", "PAK", "PER",
      "PHL", "PRK", "PSE", "RUS", "RWA", "SAU", "SDN", "SEN", "SLE", "SOM", "SRB",
      "SSD", "STP", "SUR", "SWZ", "SXM", "SYR", "TCD", "TGO", "THA", "TJK", "TKM",
      "TMP", "TUN", "TUR", "TZA", "UGA", "UKR", "UNA", "UNO", "UZB", "VAT", "VEN",
      "VNM", "XXB", "YEM", "ZAF", "ZMB", "ZWE" }

\* nvn_list
NVNList ==
    { "ABW", "AIA", "ALA", "AND", "ANT", "ARG", "ASM", "ATA", "ATF", "ATG", "AUS",
      "BHS", "BLM", "BLZ", "BMU", "BRA", "BRB", "BRN", "BVT", "BWA", "CAN", "CCK",
      "CHL", "COK", "CRI", "CXR", "CYM", "DMA", "FLK", "FRO", "FSM", "GIB", "GLP",
      "GRD", "GRL", "GTM", "GUF", "GUM", "HKG", "HMD", "HND", "IMN", "IOT", "ISL",
      "ISR", "JEY", "JPN", "KIR", "KNA", "KOR", "LCA", "LIE", "MAC", "MAF", "MCO",
      "MDV", "MEX", "MHL", "MNP", "MSR", "MTQ", "MUS", "MYS", "MYT", "NAM", "NCL",
      "NFK", "NIC", "NIU", "NRU", "NZL", "PAN", "PCN", "PLW", "PNG", "PRI", "PRY",
      "PYF", "REU", "SGP", "SGS", "SHN", "SJM", "SLB", "SLV", "SMR", "SPM", "SUN",
      "SYC", "TCA", "TKL", "TLS", "TON", "TTO", "TUV", "TWN", "UMI", "URY", "USA",
      "VCT", "VGB", "VIR", "VUT", "WLF", "WSM" }

-----------------------------------------------------------------------------
(* The filter.                                                             *)

\* Mutant: the '00' case written as minutes strictly below 15.
InQuarterOpenAt15(m, lab) ==
    LET q == lab % 4 IN
    CASE q = 0 -> m < 15
      [] q = 3 -> m > 45
      [] OTHER -> 15 * q < m /\ m <= 15 * q + 15

\* The quarter switch on the label's minute: '00' keeps minutes up to 15,
\* '15' keeps (15, 30], '30' keeps (30, 45], '45' keeps the rest.
InQuarter(m, lab) ==
    LET q == lab % 4 IN
    CASE q = 0 -> m <= 15
      [] q = 3 -> m > 45
      [] OTHER -> 15 * q < m /\ m <= 15 * q + 15

\* The hour filter (Math.trunc(tb * 0.25)) and then the quarter filter.
PaxInBucket(p, t, lab) ==
    /\ p.hour = t \div 4
    /\ InQuarter(p.minute, lab)

\* The indices of the snapshot s that the two filters keep.
KeptPax(s, t, lab) == {j \in 1 .. Len(s) : PaxInBucket(s[j], t, lab)}

-----------------------------------------------------------------------------
(* The classification.                                                     *)

\* parseInt(age) < 11: false for NaN.
Below11(a) == a # NaN /\ a < 11

\* parseInt(p.docuument_type) == 'P': the field name is misspelt, so the
\* read is undefined, parseInt gives NaN, and NaN == 'P' is false.
MachineReadable(p) == NaN = "P"

\* Mutant: the visa checks chained with else-if after the EEA check.
IncrementsElseIf(p) ==
    (IF p.in_transit_flag = "Y" THEN {"transit_count"} ELSE {})
    \cup (IF p.nat \in B5JSSKList
            THEN {IF Below11(p.age) THEN "b5jssk_ineligible_count"
                                    ELSE "b5jssk_eligilbe_count"}
            ELSE {})
    \cup (IF p.nat \in EEAList
            THEN {IF Below11(p.age) THEN "eea_ineligible_count"
                                    ELSE "eea_eligilbe_count",
                  IF MachineReadable(p) THEN "eea_machine_count"
                                        ELSE "eea_nonmachine_count"}
            ELSE {})
    \cup (IF p.nat \notin EEAList /\ p.nat \in VNList THEN {"vn_count"} ELSE {})
    \cup (IF p.nat \notin EEAList /\ p.nat \in NVNList THEN {"nvn_count"} ELSE {})

\* The counters one iteration of the loop increments for passenger p.
Increments(p) ==
    (IF p.in_transit_flag = "Y" THEN {"transit_count"} ELSE {})
    \cup (IF p.nat \in B5JSSKList
            THEN {IF Below11(p.age) THEN "b5jssk_ineligible_count"
                                    ELSE "b5jssk_eligilbe_count"}
            ELSE {})
    \cup (IF p.nat \in EEAList
            THEN {IF Below11(p.age) THEN "eea_ineligible_count"
                                    ELSE "eea_eligilbe_count",
                  IF MachineReadable(p) THEN "eea_machine_count"
                                        ELSE "eea_nonmachine_count"}
            ELSE {})
    \cup (IF p.nat \in VNList THEN {"vn_count"} ELSE {})
    \cup (IF p.nat \in NVNList THEN {"nvn_count"} ELSE {})

-----------------------------------------------------------------------------

Init ==
    /\ data \in Snapshots
    /\ tb \in TBs
    /\ label \in TBs
    /\ bucket = <<>>
    /\ i = 1
    /\ counts = [c \in Counters |-> 0]
    /\ chart = NoChart
    /\ pc = "filter"

\* The two filters: pax_currentHour, then pax_in_timebucket.
Filter ==
    /\ pc = "filter"
    /\ bucket' = Filtered(data, KeptPax(data, tb, label))
    /\ pc' = "count"
    /\ UNCHANGED <<data, tb, label, i, counts, chart>>

\* One iteration of the for loop over pax_in_timebucket.
Count ==
    /\ pc = "count"
    /\ i <= Len(bucket)
    /\ counts' = [c \in Counters |->
                    counts[c] + (IF c \in Increments(bucket[i]) THEN 1 ELSE 0)]
    /\ i' = i + 1
    /\ UNCHANGED <<data, tb, label, bucket, chart, pc>>

\* Mutant: the two under-11 segments given each other's counter.
Data3Swapped ==
    [a |-> counts["b5jssk_eligilbe_count"],
     b |-> counts["eea_eligilbe_count"],
     c |-> counts["eea_ineligible_count"],
     d |-> counts["b5jssk_ineligible_count"],
     e |-> counts["nvn_count"],
     f |-> counts["vn_count"]]

\* data3: the six segments of the pie, keyed a to f.
Data3 ==
    [a |-> counts["b5jssk_eligilbe_count"],
     b |-> counts["eea_eligilbe_count"],
     c |-> counts["b5jssk_ineligible_count"],
     d |-> counts["eea_ineligible_count"],
     e |-> counts["nvn_count"],
     f |-> counts["vn_count"]]

\* The loop exits; data3 is built and the pie drawn in a new #svg-container.
Draw ==
    /\ pc = "count"
    /\ i > Len(bucket)
    /\ chart' = Data3
    /\ pc' = "done"
    /\ UNCHANGED <<data, tb, label, bucket, i, counts>>

Next == Filter \/ Count \/ Draw

Spec == Init /\ [][Next]_vars

-----------------------------------------------------------------------------
(* Properties.                                                             *)

TypeOK ==
    /\ data \in Snapshots
    /\ {tb, label} \subseteq TBs
    /\ bucket \in Seq(PaxSet)
    /\ i \in 1 .. Len(bucket) + 1
    /\ counts \in [Counters -> Nat]
    /\ chart \in [Segments -> Nat]
    /\ pc \in {"filter", "count", "done"}

\* The number of passengers of sequence s that satisfy P.
CountIn(s, P(_)) == Cardinality({j \in 1 .. Len(s) : P(s[j])})

\* The bucket a PCP time lies in when (0, 15] is read as up to 15 minutes
\* past the hour inclusive: minute 0 opens the hour's first quarter.
PcpBucket(p) == 4 * p.hour + (IF p.minute = 0 THEN 0 ELSE (p.minute - 1) \div 15)

\* The bucket the chart is for: the hour of tb, the quarter of the label.
ShownBucket == 4 * (tb \div 4) + (label % 4)

\* The filter keeps exactly the passengers, in file order, whose PCP time
\* lies in the bucket made of the closure's hour and the label's quarter
\* (the bucket Dashboard's ListedBucket gives the passenger chart).
FilterSelectsShownBucket ==
    pc # "filter" =>
        bucket = Filtered(data, {j \in 1 .. Len(data) : PcpBucket(data[j]) = ShownBucket})

\* The number of entries of sequence s whose field f lies in L.
CountOf(s, f, L) == Cardinality({j \in 1 .. Len(s) : s[j][f] \in L})

\* The counters the spec and the code agree on, over the passengers the
\* loop has seen: transit, visa and non-visa nationals, and the B5JSSK and
\* EEA groups, each split into two counters that add up to the group.
CountsAgreeWithSpec ==
    LET seen == SubSeq(bucket, 1, i - 1)
        eea  == CountOf(seen, "nat", EEAList)
    IN  pc # "filter" =>
          /\ counts["transit_count"] = CountOf(seen, "in_transit_flag", {"Y"})
          /\ counts["vn_count"] = CountOf(seen, "nat", VNList)
          /\ counts["nvn_count"] = CountOf(seen, "nat", NVNList)
          /\ counts["b5jssk_eligilbe_count"] + counts["b5jssk_ineligible_count"]
                = CountOf(seen, "nat", B5JSSKList)
          /\ counts["eea_eligilbe_count"] + counts["eea_ineligible_count"] = eea
          /\ counts["eea_machine_count"] + counts["eea_nonmachine_count"] = eea

\* Spec 4.2 step 5: the pie drawn shows the whole bucket.  Once the chart
\* is drawn, its non-visa and visa segments count the bucket's non-visa
\* and visa nationals, its two B5JSSK segments add up to the bucket's
\* B5JSSK nationals and its two EEA segments to its EEA nationals: the
\* loop has visited every passenger, and data3 takes each counter once.
ChartShowsBucket ==
    pc = "done" =>
        /\ chart.e = CountOf(bucket, "nat", NVNList)
        /\ chart.f = CountOf(bucket, "nat", VNList)
        /\ chart.a + chart.c = CountOf(bucket, "nat", B5JSSKList)
        /\ chart.b + chart.d = CountOf(bucket, "nat", EEAList)

\* Spec 4.2 and 8: an EEA passenger with document type 'P' counts as
\* machine readable.  Once the loop is done, eea_machine_count is the
\* number of such passengers in the bucket.
MachineReadableCounted ==
    pc = "done" =>
        counts["eea_machine_count"]
            = CountIn(bucket, LAMBDA p : p.nat \in EEAList /\ p.document_type = "P")

\* Spec 4.2: an age that does not parse fails every comparison and leaves
\* the passenger out of the age-split counters: eea_eligilbe_count counts
\* the EEA passengers with a readable age of 11 or more.
MalformedAgeExcluded ==
    pc = "done" =>
        counts["eea_eligilbe_count"]
            = CountIn(bucket, LAMBDA p : p.nat \in EEAList /\ p.age # NaN /\ p.age >= 11)

\* Spec 4.2: the target quarter is one of the windows (0,15], (15,30],
\* (30,45], (45,60] of the target hour: the filter keeps the passengers of
\* the hour whose minute lies in the label's window.
FilterMatchesSpecWindows ==
    LET q == label % 4 IN
    pc # "filter" =>
        bucket = Filtered(data, {j \in 1 .. Len(data) :
                                   /\ data[j].hour = tb \div 4
                                   /\ 15 * q < data[j].minute
                                   /\ data[j].minute <= 15 * q + 15})

-----------------------------------------------------------------------------
(* The inductive invariant PassengerMixProofs uses.                        *)

\* The loop index counts from 1 and the counters from 0 before the filter
\* has run; from then on the counters agree with the passengers seen.
CountInv ==
    /\ i \in Nat \ {0}
    /\ counts \in [Counters -> Nat]
    /\ pc \in {"filter", "count", "done"}
    /\ pc = "filter" => i = 1 /\ counts = [c \in Counters |-> 0]
    /\ CountsAgreeWithSpec

\* The inductive invariant of update_passenger_numbers: CountInv; once the
\* filter has run, the bucket is the snapshot filtered by the closure's
\* hour and the label's quarter, and the loop index is at most one past
\* its end; once the chart is drawn, the loop has ended exactly there and
\* the chart is data3 of the counters.
MixInv ==
    /\ CountInv
    /\ data \in Snapshots
    /\ {tb, label} \subseteq TBs
    /\ pc # "filter" =>
          /\ bucket = Filtered(data, KeptPax(data, tb, label))
          /\ i <= Len(bucket) + 1
    /\ pc = "done" => i = Len(bucket) + 1 /\ chart = Data3

=============================================================================
