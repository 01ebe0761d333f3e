----------------------------- MODULE Dashboard -----------------------------
(***************************************************************************)
(* The dashboard page of src/Dashboard/dashboard-scripts.js as an event    *)
(* loop: the previous/next click handlers, and the three d3.json callbacks *)
(* (queue snapshot, arrivals snapshot, passenger snapshot) which the       *)
(* browser runs one at a time, in whatever order the responses arrive.     *)
(*                                                                         *)
(* The DOM is abstracted to what the handlers read back from it:           *)
(*   views  - the queue renders appended to <body>, in document order,     *)
(*            each with the bucket it renders and how far it got before    *)
(*            the callback stopped (a TypeError ends a callback midway);   *)
(*   tables - the arrivals tables appended to the first .arrival-tooltip,  *)
(*            each given by the 15-minute bucket whose flights it lists;   *)
(*   charts - the passenger-mix charts (#svg-container), likewise.         *)
(* A bucket number b stands for the time label "HH:MM" of data[b]: the     *)
(* snapshot is contiguous from 00:00, so that label has hour b \div 4 and  *)
(* minute 15 * (b % 4).                                                    *)
(***************************************************************************)
EXTENDS Integers, Sequences

CONSTANTS
    NB,            \* number of buckets in Dashboard-DesksQueues.json
    MaxInFlight,   \* model bound: identical requests in flight at once
    FetchMayFail   \* whether a d3.json request may end in an error

ASSUME NBAssumption == NB \in Nat \ {0}
ASSUME MaxInFlightAssumption == MaxInFlight \in Nat \ {0}
ASSUME FetchMayFailAssumption == FetchMayFail \in BOOLEAN

VARIABLES
    tbInput,   \* value of the hidden <input id="timebucket">
    pending,   \* pending[r]: how many requests r are in flight
    views,     \* queue renders in the DOM, in document order
    tables,    \* arrivals tables inside the first .arrival-tooltip
    charts     \* passenger-mix charts in the DOM

vars == <<tbInput, pending, views, tables, charts>>

Buckets == 0 .. NB - 1

\* A click moves one bucket from a page that shows one, so a request names
\* at most one bucket beyond either end of the snapshot.
ReqBuckets == -1 .. NB

Kinds == {"queue", "arrivals", "pax"}

\* A d3.json request: which snapshot, for which bucket (the closure's tb).
Req == [kind : Kinds, tb : ReqBuckets]

\* How far update_queue_numbers gets: "head" stops at line 23 (no data, or
\* data[tb] undefined), "egates" at line 49 (data[tb-1] undefined),
\* "panels" at line 156 (data[tb+1] undefined), "full" renders the
\* tb-bar label and the prev/next controls.
Stages == {"head", "egates", "panels", "full"}

View == [tb : ReqBuckets, stage : Stages]

\* The outcomes a d3.json callback may see: data, or an error and no data.
Outcomes == IF FetchMayFail THEN BOOLEAN ELSE {TRUE}

-----------------------------------------------------------------------------
(* Helpers on the DOM.                                                     *)

\* Mutant: the trend comparison guarded at bucket 0 (tb > 0 && ...).
QueueStageGuardedTrend(t, ok) ==
    IF ~ok \/ t \notin Buckets THEN "head"
    ELSE IF t + 1 \notin Buckets THEN "panels"
    ELSE "full"

\* Mutant: the prev/next controls appended before data[next_tb] is read.
QueueStageControlsFirst(t, ok) ==
    IF ~ok \/ t \notin Buckets THEN "head"
    ELSE IF t - 1 \notin Buckets THEN "egates"
    ELSE "full"

\* Mutant: the controls rendered only if next_tb < data.length - 1.
QueueStageGuardOffByOne(t, ok) ==
    IF ~ok \/ t \notin Buckets THEN "head"
    ELSE IF t - 1 \notin Buckets THEN "egates"
    ELSE IF t + 2 \notin Buckets THEN "panels"
    ELSE "full"

QueueStage(t, ok) ==
    IF ~ok \/ t \notin Buckets THEN "head"
    ELSE IF t - 1 \notin Buckets THEN "egates"
    ELSE IF t + 1 \notin Buckets THEN "panels"
    ELSE "full"

\* Positions of the views that hold a .tb-bar (and the .prev-bar/.next-bar
\* appended right after it).
BarIndices == {i \in 1 .. Len(views) : views[i].stage = "full"}

NavAvailable == BarIndices # {}

\* getElementsByClassName('tb-bar')[0]: the label of the first bar.
FirstBarLabel ==
    views[CHOOSE i \in BarIndices : \A j \in BarIndices : i <= j].tb

\* The bucket whose rows a filter lists: the hour comes from the closure's
\* tb (Math.trunc(tb * 0.25)), the quarter from the label's minute
\* (innerHTML.substring(3,5) switched on '00', '15', '30', '45').
ListedBucket(t, label) == 4 * (t \div 4) + (label % 4)

-----------------------------------------------------------------------------
(* Page load: the page sets the input and calls the three populate_*      *)
(* functions once.                                                         *)

Init ==
    \E t0 \in Buckets :
        /\ tbInput = t0
        /\ pending = [r \in Req |->
                        IF r.tb = t0 THEN 1 ELSE 0]
        /\ views = <<>>
        /\ tables = <<>>
        /\ charts = <<>>

\* populate_queue_details(t) removes every div (the views, the tooltip
\* holding the tables, #svg-container) and requests the queue snapshot;
\* populate_arrivals(t) requests the arrivals snapshot.  The passenger mix
\* call is commented out in both click handlers.
\* Mutant: the d3.selectAll("div").remove() left out.
PopulateKeepsDom(t) ==
    LET q == [kind |-> "queue", tb |-> t]
        a == [kind |-> "arrivals", tb |-> t]
    IN  /\ pending[q] < MaxInFlight
        /\ pending[a] < MaxInFlight
        /\ tbInput' = t
        /\ pending' = [pending EXCEPT ![q] = @ + 1, ![a] = @ + 1]
        /\ UNCHANGED <<views, tables, charts>>

Populate(t) ==
    LET q == [kind |-> "queue", tb |-> t]
        a == [kind |-> "arrivals", tb |-> t]
    IN  /\ pending[q] < MaxInFlight
        /\ pending[a] < MaxInFlight
        /\ tbInput' = t
        /\ pending' = [pending EXCEPT ![q] = @ + 1, ![a] = @ + 1]
        /\ views' = <<>>
        /\ tables' = <<>>
        /\ charts' = <<>>

\* A click on a .prev-bar: populate_previous.
ClickPrevious ==
    /\ NavAvailable
    /\ Populate(tbInput - 1)

\* A click on a .next-bar: populate_next.
ClickNext ==
    /\ NavAvailable
    /\ Populate(tbInput + 1)

\* The queue snapshot callback: update_queue_numbers(data, t).
QueueLoaded(t, ok) ==
    LET r == [kind |-> "queue", tb |-> t] IN
    /\ pending[r] > 0
    /\ pending' = [pending EXCEPT ![r] = @ - 1]
    /\ views' = Append(views, [tb |-> t, stage |-> QueueStage(t, ok)])
    /\ UNCHANGED <<tbInput, tables, charts>>

\* The arrivals snapshot callback: update_arrivals_details.  It stops with
\* a TypeError on data.filter when there is no data, and on the missing
\* .tb-bar when no queue render has reached it.
ArrivalsLoaded(t, ok) ==
    LET r == [kind |-> "arrivals", tb |-> t] IN
    /\ pending[r] > 0
    /\ pending' = [pending EXCEPT ![r] = @ - 1]
    /\ tables' = IF ok /\ NavAvailable
                   THEN Append(tables, ListedBucket(t, FirstBarLabel))
                   ELSE tables
    /\ UNCHANGED <<tbInput, views, charts>>

\* The passenger snapshot callback: update_passenger_numbers, which builds
\* its chart in a new #svg-container appended to <body>.
PassengersLoaded(t, ok) ==
    LET r == [kind |-> "pax", tb |-> t] IN
    /\ pending[r] > 0
    /\ pending' = [pending EXCEPT ![r] = @ - 1]
    /\ charts' = IF ok /\ NavAvailable
                   THEN Append(charts, ListedBucket(t, FirstBarLabel))
                   ELSE charts
    /\ UNCHANGED <<tbInput, views, tables>>

Next ==
    \/ ClickPrevious
    \/ ClickNext
    \/ \E t \in ReqBuckets, ok \in Outcomes :
          \/ QueueLoaded(t, ok)
          \/ ArrivalsLoaded(t, ok)
          \/ PassengersLoaded(t, ok)

\* The browser runs every callback whose response has arrived; the user
\* clicks or not, so the click handlers get no fairness.
Fairness ==
    \A t \in ReqBuckets :
        /\ WF_vars(\E ok \in Outcomes : QueueLoaded(t, ok))
        /\ WF_vars(\E ok \in Outcomes : ArrivalsLoaded(t, ok))
        /\ WF_vars(\E ok \in Outcomes : PassengersLoaded(t, ok))

Spec == Init /\ [][Next]_vars

FairSpec == Spec /\ Fairness

-----------------------------------------------------------------------------
(* Properties.                                                             *)

TypeOK ==
    /\ tbInput \in Nat
    /\ pending \in [Req -> Nat]
    /\ views \in Seq(View)
    /\ tables \in Seq(Nat)
    /\ charts \in Seq(Nat)

\* The queue panels never show a stale bucket: at most one queue render is
\* in flight or on the page, and it is for the bucket in the hidden input.
\* This rests on populate_queue_details removing the prev/next controls in
\* the same click that requests the snapshot, so that no second request
\* can overtake the first.
QueueViewCurrent ==
    /\ views \in {<<>>} \cup {<<v>> : v \in [tb : {tbInput}, stage : Stages]}
    /\ \A r \in Req :
          r.kind = "queue" /\ pending[r] > 0 =>
              /\ r.tb = tbInput
              /\ pending[r] = 1
              /\ views = <<>>

\* populate_previous and populate_next do no bounds check; still the input
\* never names a bucket the snapshot lacks, because the controls are only
\* rendered after data[tb-1] and data[tb+1] have been read.
BucketInRange == tbInput \in Buckets

\* Liveness: when the user moves to a bucket that has both neighbours, the
\* page eventually shows that bucket with working prev/next controls.
NavigationAnswered ==
    \A t \in 1 .. NB - 2 :
        (tbInput = t) ~> (NavAvailable /\ FirstBarLabel = t)

\* Spec section 8: moving to the first or last bucket must not fault.  The
\* page always regains its controls once the queue snapshot has been
\* handled.
NavigationNeverLost ==
    (\A t \in ReqBuckets : pending[[kind |-> "queue", tb |-> t]] = 0)
        => NavAvailable

\* The arrivals table in the tooltip lists the flights of the bucket the
\* page shows in its tb-bar.
ArrivalsListShownBucket ==
    NavAvailable => \A i \in 1 .. Len(tables) : tables[i] = FirstBarLabel

\* The step of the page that draws a queue render: what it appends to the
\* DOM is the only render there, and it is of the bucket in the hidden
\* input when update_queue_numbers runs.
RenderOnClearedPage ==
    views' # views /\ views' # <<>> =>
        /\ views = <<>>
        /\ Len(views') = 1
        /\ views'[1].tb = tbInput

\* Action property: a queue response is never drawn over an earlier render
\* nor for a bucket the user has left.  Each click clears the page in the
\* same step that requests the queue snapshot, and removes the controls
\* that would let a second request overtake the first.
QueueRenderCurrent == [][RenderOnClearedPage]_vars

-----------------------------------------------------------------------------
(* The abstract navigation the page promises (module Navigation).  The    *)
(* page's current bucket is its hidden input; the render it shows is its   *)
(* last queue render, "none" before one has arrived.                       *)

ShownStage == IF views = <<>> THEN "none" ELSE views[Len(views)].stage

Nav == INSTANCE Navigation WITH cur <- tbInput, shown <- ShownStage

\* The page implements Navigation: every click starts from a complete
\* render and moves the input one bucket, discarding that render; every
\* queue callback renders the input's bucket, once per click, and reaches
\* the controls only between the two ends.  Arrivals and passenger
\* callbacks leave the bucket and the render as they are.
NavigationRefined == Nav!Spec

-----------------------------------------------------------------------------
(* The inductive strengthening of TypeOK, QueueViewCurrent and             *)
(* BucketInRange that DashboardProofs proves.                              *)

\* A render only gets as far as the controls for a bucket with both
\* neighbours in the snapshot.
ControlsInterior ==
    \A i \in 1 .. Len(views) :
        views[i].stage = "full" => views[i].tb \in 1 .. NB - 2

\* Every request in flight names a bucket of the snapshot.
PendingInRange ==
    \A r \in Req : pending[r] > 0 => r.tb \in Buckets

\* The conjunction that each step of the page preserves: typing, the input
\* in range, a single current queue render, controls only for interior
\* buckets, and requests only for buckets of the snapshot.
IInv ==
    /\ TypeOK
    /\ BucketInRange
    /\ QueueViewCurrent
    /\ ControlsInterior
    /\ PendingInRange

=============================================================================
