-------------------------- MODULE DashboardProofs --------------------------
(***************************************************************************)
(* Proofs, for every snapshot size and every bound on requests in flight, *)
(* that the dashboard page keeps TypeOK, BucketInRange and                *)
(* QueueViewCurrent.  None of them is inductive alone: a click is enabled *)
(* by the controls of a full render, so the step needs ControlsInterior   *)
(* to keep the input in range, and QueueViewCurrent to know that no queue *)
(* request is in flight; a callback needs PendingInRange to stay typed.   *)
(***************************************************************************)
EXTENDS Dashboard, TLAPS

USE NBAssumption, MaxInFlightAssumption, FetchMayFailAssumption

\* How far a queue render gets, and that only an interior bucket gets its
\* controls.
LEMMA QueueStageFacts ==
    ASSUME NEW t \in Int, NEW ok \in BOOLEAN
    PROVE  /\ QueueStage(t, ok) \in Stages
           /\ QueueStage(t, ok) = "full" => t \in 1 .. NB - 2
  BY DEF QueueStage, Stages, Buckets

\* The first tb-bar of a page holding one full render is that render's.
LEMMA FirstBarOfSingleView ==
    ASSUME NEW v, views = <<v>>, v.stage = "full"
    PROVE  /\ NavAvailable
           /\ FirstBarLabel = v.tb
<1>1. BarIndices = {1}
  BY DEF BarIndices
<1>2. (CHOOSE i \in {1} : \A j \in {1} : i <= j) = 1
  OBVIOUS
<1>3. QED
  BY <1>1, <1>2 DEF NavAvailable, FirstBarLabel

\* The page as it is while it shows its controls.
LEMMA ControlsFacts ==
    ASSUME IInv, NavAvailable
    PROVE  /\ tbInput \in 1 .. NB - 2
           /\ FirstBarLabel = tbInput
           /\ \A r \in Req : r.kind = "queue" => pending[r] = 0
<1>1. views # <<>>
  BY DEF NavAvailable, BarIndices
<1>2. PICK v \in [tb : {tbInput}, stage : Stages] : views = <<v>>
  BY <1>1 DEF IInv, QueueViewCurrent
<1>3. v.stage = "full"
  BY <1>2 DEF NavAvailable, BarIndices
<1>4. tbInput \in 1 .. NB - 2
  BY <1>2, <1>3 DEF IInv, ControlsInterior
<1>5. FirstBarLabel = tbInput
  BY <1>2, <1>3, FirstBarOfSingleView
<1>6. \A r \in Req : r.kind = "queue" => pending[r] = 0
  BY <1>1 DEF IInv, QueueViewCurrent, TypeOK
<1>7. QED
  BY <1>4, <1>5, <1>6

LEMMA InitIInv == Init => IInv
  BY DEF Init, IInv, TypeOK, BucketInRange, QueueViewCurrent,
         ControlsInterior, PendingInRange, Req, ReqBuckets, Buckets

\* A click on either control: populate_previous or populate_next.
LEMMA PopulateStep ==
    ASSUME IInv, NavAvailable, NEW d \in {-1, 1}, Populate(tbInput + d)
    PROVE  IInv'
<1> DEFINE t == tbInput + d
           q == [kind |-> "queue", tb |-> t]
           a == [kind |-> "arrivals", tb |-> t]
<1>1. /\ tbInput \in 1 .. NB - 2
      /\ \A r \in Req : r.kind = "queue" => pending[r] = 0
  BY ControlsFacts
<1>2. t \in Buckets /\ q \in Req /\ a \in Req /\ q # a
  BY <1>1 DEF Buckets, Req, ReqBuckets, Kinds
<1>3. /\ tbInput' = t
      /\ pending' = [pending EXCEPT ![q] = @ + 1, ![a] = @ + 1]
      /\ views' = <<>>
      /\ tables' = <<>>
      /\ charts' = <<>>
  BY DEF Populate
<1>4. pending \in [Req -> Nat]
  BY DEF IInv, TypeOK
<1>5. TypeOK'
  BY <1>2, <1>3, <1>4 DEF TypeOK, Buckets
<1>6. BucketInRange'
  BY <1>2, <1>3 DEF BucketInRange
<1>7. QueueViewCurrent'
  <2>1. ASSUME NEW r \in Req, r.kind = "queue", pending'[r] > 0
        PROVE  r = q
    BY <1>1, <1>2, <1>3, <1>4, <2>1
  <2>2. pending'[q] = 1
    BY <1>1, <1>2, <1>3, <1>4
  <2>3. \A r \in Req :
          r.kind = "queue" /\ pending'[r] > 0 =>
              /\ r.tb = tbInput'
              /\ pending'[r] = 1
              /\ views' = <<>>
    <3>1. TAKE r \in Req
    <3>2. HAVE r.kind = "queue" /\ pending'[r] > 0
    <3>3. r = q
      BY <2>1, <3>2
    <3>4. QED
      BY <1>3, <2>2, <3>3
  <2>4. QED
    BY <1>3, <2>3 DEF QueueViewCurrent
<1>8. ControlsInterior'
  BY <1>3 DEF ControlsInterior
<1>9. PendingInRange'
  BY <1>2, <1>3, <1>4 DEF IInv, PendingInRange
<1>10. QED
  BY <1>5, <1>6, <1>7, <1>8, <1>9 DEF IInv

\* The queue snapshot callback: the one request in flight is answered.
LEMMA QueueLoadedStep ==
    ASSUME IInv, NEW t \in ReqBuckets, NEW ok \in Outcomes,
           QueueLoaded(t, ok)
    PROVE  IInv'
<1> DEFINE r == [kind |-> "queue", tb |-> t]
           v == [tb |-> t, stage |-> QueueStage(t, ok)]
<1>1. r \in Req /\ pending \in [Req -> Nat]
  BY DEF Req, Kinds, IInv, TypeOK
<1>2. pending[r] > 0
  BY DEF QueueLoaded
<1>3. t = tbInput /\ pending[r] = 1 /\ views = <<>>
  BY <1>1, <1>2 DEF IInv, QueueViewCurrent
<1>4. /\ pending' = [pending EXCEPT ![r] = @ - 1]
      /\ views' = <<v>>
      /\ UNCHANGED <<tbInput, tables, charts>>
  BY <1>3 DEF QueueLoaded
<1>5. /\ v.stage \in Stages
      /\ v.stage = "full" => t \in 1 .. NB - 2
  <2>1. t \in Int
    BY DEF ReqBuckets
  <2>a. ok \in BOOLEAN
    BY Zenon DEF Outcomes
  <2>2. QED
    BY <2>1, <2>a, QueueStageFacts
<1>6. TypeOK'
  BY <1>1, <1>3, <1>4, <1>5 DEF IInv, TypeOK, View
<1>7. BucketInRange'
  BY <1>4 DEF IInv, BucketInRange
<1>8. QueueViewCurrent'
  <2>1. views' \in {<<w>> : w \in [tb : {tbInput'}, stage : Stages]}
    BY <1>3, <1>4, <1>5
  <2>2. ASSUME NEW s \in Req, s.kind = "queue", pending'[s] > 0
        PROVE  FALSE
    <3>1. s # r
      BY <1>1, <1>3, <1>4, <2>2
    <3>2. pending[s] > 0
      BY <1>1, <1>4, <2>2, <3>1
    <3>3. s.tb = tbInput
      BY <2>2, <3>2 DEF IInv, QueueViewCurrent
    <3>4. QED
      BY <1>3, <2>2, <3>1, <3>3 DEF Req
  <2>3. QED
    BY <2>1, <2>2 DEF QueueViewCurrent
<1>9. ControlsInterior'
  BY <1>4, <1>5 DEF ControlsInterior
<1>10. PendingInRange'
  BY <1>1, <1>4 DEF IInv, PendingInRange
<1>11. QED
  BY <1>6, <1>7, <1>8, <1>9, <1>10 DEF IInv

\* What a callback appending a table or a chart needs: the listed bucket
\* is a natural number.
LEMMA ListedBucketNat ==
    ASSUME IInv, NavAvailable, NEW t \in Buckets
    PROVE  ListedBucket(t, FirstBarLabel) \in Nat
<1>1. FirstBarLabel \in 1 .. NB - 2
  BY ControlsFacts
<1>2. QED
  BY <1>1 DEF ListedBucket, Buckets

\* The arrivals and passenger callbacks only decrement a count and append
\* to tables or charts.
LEMMA ListLoadedStep ==
    ASSUME IInv, NEW t \in ReqBuckets, NEW ok \in Outcomes,
           ArrivalsLoaded(t, ok) \/ PassengersLoaded(t, ok)
    PROVE  IInv'
<1> DEFINE ra == [kind |-> "arrivals", tb |-> t]
           rp == [kind |-> "pax", tb |-> t]
<1>1. ra \in Req /\ rp \in Req /\ pending \in [Req -> Nat]
  BY DEF Req, Kinds, IInv, TypeOK
<1>2. CASE ArrivalsLoaded(t, ok)
  <2>1. pending[ra] > 0 /\ t \in Buckets
    BY <1>1, <1>2 DEF ArrivalsLoaded, IInv, PendingInRange
  <2>2. ok /\ NavAvailable => ListedBucket(t, FirstBarLabel) \in Nat
    BY <2>1, ListedBucketNat
  <2>3. TypeOK'
    BY <1>1, <1>2, <2>1, <2>2 DEF ArrivalsLoaded, IInv, TypeOK
  <2>4. QueueViewCurrent'
    BY <1>1, <1>2 DEF ArrivalsLoaded, IInv, QueueViewCurrent
  <2>5. PendingInRange'
    BY <1>1, <1>2 DEF ArrivalsLoaded, IInv, PendingInRange
  <2>6. QED
    BY <1>2, <2>3, <2>4, <2>5
       DEF ArrivalsLoaded, IInv, BucketInRange, ControlsInterior
<1>3. CASE PassengersLoaded(t, ok)
  <2>1. pending[rp] > 0 /\ t \in Buckets
    BY <1>1, <1>3 DEF PassengersLoaded, IInv, PendingInRange
  <2>2. ok /\ NavAvailable => ListedBucket(t, FirstBarLabel) \in Nat
    BY <2>1, ListedBucketNat
  <2>3. TypeOK'
    BY <1>1, <1>3, <2>1, <2>2 DEF PassengersLoaded, IInv, TypeOK
  <2>4. QueueViewCurrent'
    BY <1>1, <1>3 DEF PassengersLoaded, IInv, QueueViewCurrent
  <2>5. PendingInRange'
    BY <1>1, <1>3 DEF PassengersLoaded, IInv, PendingInRange
  <2>6. QED
    BY <1>3, <2>3, <2>4, <2>5
       DEF PassengersLoaded, IInv, BucketInRange, ControlsInterior
<1>4. QED
  BY <1>2, <1>3

LEMMA NextIInv == IInv /\ [Next]_vars => IInv'
<1> SUFFICES ASSUME IInv, [Next]_vars PROVE IInv'
  OBVIOUS
<1>1. CASE ClickPrevious
  BY <1>1, PopulateStep DEF ClickPrevious
<1>2. CASE ClickNext
  BY <1>2, PopulateStep DEF ClickNext
<1>3. ASSUME NEW t \in ReqBuckets, NEW ok \in Outcomes, QueueLoaded(t, ok)
      PROVE  IInv'
  BY <1>3, QueueLoadedStep
<1>4. ASSUME NEW t \in ReqBuckets, NEW ok \in Outcomes,
             ArrivalsLoaded(t, ok) \/ PassengersLoaded(t, ok)
      PROVE  IInv'
  BY <1>4, ListLoadedStep
<1>5. CASE UNCHANGED vars
  BY <1>5 DEF vars, IInv, TypeOK, BucketInRange, QueueViewCurrent,
              ControlsInterior, PendingInRange
<1>6. QED
  BY <1>1, <1>2, <1>3, <1>4, <1>5 DEF Next

\* The strengthened invariant holds in every state of the page.
THEOREM IInvHolds == Spec => []IInv
  BY InitIInv, NextIInv, PTL DEF Spec

\* Every variable of the page keeps its type.
THEOREM TypeCorrect == Spec => []TypeOK
  BY IInvHolds, PTL DEF IInv

\* The queue panels never show a stale bucket, whatever the order in which
\* the browser runs the d3.json callbacks.
THEOREM QueueViewAlwaysCurrent == Spec => []QueueViewCurrent
  BY IInvHolds, PTL DEF IInv

\* populate_previous/populate_next never move the input off the snapshot.
THEOREM BucketAlwaysInRange == Spec => []BucketInRange
  BY IInvHolds, PTL DEF IInv

\* Of all the page's steps only a queue callback appends to the DOM's
\* renders, and it finds the page empty and answers the input's request.
LEMMA RenderStep == IInv /\ [Next]_vars => RenderOnClearedPage
<1> SUFFICES ASSUME IInv, [Next]_vars, views' # views, views' # <<>>
             PROVE  /\ views = <<>>
                    /\ Len(views') = 1
                    /\ views'[1].tb = tbInput
  BY DEF RenderOnClearedPage
<1>1. CASE ClickPrevious \/ ClickNext
  BY <1>1 DEF ClickPrevious, ClickNext, Populate
<1>2. ASSUME NEW t \in ReqBuckets, NEW ok \in Outcomes, QueueLoaded(t, ok)
      PROVE  views = <<>> /\ Len(views') = 1 /\ views'[1].tb = tbInput
  <2> DEFINE r == [kind |-> "queue", tb |-> t]
  <2>1. r \in Req /\ pending[r] > 0
    BY <1>2 DEF Req, Kinds, QueueLoaded
  <2>2. t = tbInput /\ views = <<>>
    BY <2>1 DEF IInv, QueueViewCurrent
  <2>3. views' = <<[tb |-> t, stage |-> QueueStage(t, ok)]>>
    BY <1>2, <2>2 DEF QueueLoaded
  <2>4. QED
    BY <2>2, <2>3
<1>3. ASSUME NEW t \in ReqBuckets, NEW ok \in Outcomes,
             ArrivalsLoaded(t, ok) \/ PassengersLoaded(t, ok)
      PROVE  FALSE
  BY <1>3 DEF ArrivalsLoaded, PassengersLoaded
<1>4. CASE UNCHANGED vars
  BY <1>4 DEF vars
<1>5. QED
  BY <1>1, <1>2, <1>3, <1>4 DEF Next

\* A late queue response never draws over an earlier render nor for a
\* bucket the user has left, whatever the order of the callbacks.
THEOREM QueueRenderAlwaysCurrent == Spec => QueueRenderCurrent
<1>1. Spec => []IInv
  BY IInvHolds
<1>2. QED
  BY <1>1, RenderStep, PTL DEF Spec, QueueRenderCurrent

-----------------------------------------------------------------------------
(* The page implements Navigation under cur <- tbInput, shown <- the stage *)
(* of its queue render.  The argument rests on IInv: a click is enabled by *)
(* the single render, which is full; a queue callback finds the page empty *)
(* and answers the input's own request.                                    *)

LEMMA NavInit == Init => Nav!Init
  BY DEF Init, Nav!Init, ShownStage, Buckets, Nav!Buckets

\* A click starts from the page's one full render and empties the page.
LEMMA NavClick ==
    ASSUME IInv, NavAvailable, NEW d \in {-1, 1}, Populate(tbInput + d)
    PROVE  Nav!Move(d)
<1>1. PICK v \in [tb : {tbInput}, stage : Stages] : views = <<v>>
  BY DEF IInv, QueueViewCurrent, NavAvailable, BarIndices
<1>2. v.stage = "full"
  BY <1>1 DEF NavAvailable, BarIndices
<1>3. ShownStage = "full"
  BY <1>1, <1>2 DEF ShownStage
<1>4. tbInput' = tbInput + d /\ ShownStage' = "none"
  BY DEF Populate, ShownStage
<1>5. QED
  BY <1>3, <1>4 DEF Nav!Move

\* A queue callback renders the input's bucket on the empty page.
LEMMA NavRender ==
    ASSUME IInv, NEW t \in ReqBuckets, NEW ok \in Outcomes,
           QueueLoaded(t, ok)
    PROVE  Nav!Render
<1> DEFINE r == [kind |-> "queue", tb |-> t]
<1>1. r \in Req /\ pending[r] > 0
  BY DEF Req, Kinds, QueueLoaded
<1>2. t = tbInput /\ views = <<>>
  BY <1>1 DEF IInv, QueueViewCurrent
<1>3. ShownStage = "none" /\ ShownStage' = QueueStage(t, ok)
  BY <1>2 DEF QueueLoaded, ShownStage
<1>4. QueueStage(t, ok) \in
        IF tbInput \in Nav!Interior THEN Stages ELSE Stages \ {"full"}
  <2>1. t \in Int
    BY DEF ReqBuckets
  <2>2. ok \in BOOLEAN
    BY Zenon DEF Outcomes
  <2>3. QED
    BY <1>2, <2>1, <2>2, QueueStageFacts DEF Nav!Interior
<1>5. QED
  BY <1>3, <1>4 DEF QueueLoaded, Nav!Render, Nav!Stages, Stages

\* Every step of the page is a step of Navigation or leaves the bucket and
\* the render as they were.
LEMMA NavNext ==
    IInv /\ [Next]_vars => [Nav!Next]_<<tbInput, ShownStage>>
<1> SUFFICES ASSUME IInv, [Next]_vars
             PROVE  [Nav!Next]_<<tbInput, ShownStage>>
  OBVIOUS
<1>1. CASE ClickPrevious
  BY <1>1, NavClick DEF ClickPrevious, Nav!Next
<1>2. CASE ClickNext
  BY <1>2, NavClick DEF ClickNext, Nav!Next
<1>3. ASSUME NEW t \in ReqBuckets, NEW ok \in Outcomes, QueueLoaded(t, ok)
      PROVE  [Nav!Next]_<<tbInput, ShownStage>>
  BY <1>3, NavRender DEF Nav!Next
<1>4. ASSUME NEW t \in ReqBuckets, NEW ok \in Outcomes,
             ArrivalsLoaded(t, ok) \/ PassengersLoaded(t, ok)
      PROVE  [Nav!Next]_<<tbInput, ShownStage>>
  BY <1>4 DEF ArrivalsLoaded, PassengersLoaded, ShownStage
<1>5. CASE UNCHANGED vars
  BY <1>5 DEF vars, ShownStage
<1>6. QED
  BY <1>1, <1>2, <1>3, <1>4, <1>5 DEF Next

\* The page, whatever the order of its callbacks, implements the abstract
\* navigation: clicks move one bucket from a complete render, and each
\* click's queue render is of the input's bucket and has controls only
\* between the ends.
THEOREM NavigationRefinement == Spec => NavigationRefined
<1>1. Spec => []IInv
  BY IInvHolds
<1>2. QED
  BY <1>1, NavInit, NavNext, PTL DEF Spec, NavigationRefined, Nav!Spec

\* The abstract navigation alone keeps the page inside the snapshot: a
\* move starts from a render with controls, which only a bucket with both
\* neighbours gets.  With NavigationRefinement this gives BucketInRange
\* for any page that implements Navigation, whatever its callbacks.
THEOREM AbstractInRange == Nav!Spec => []Nav!InRange
<1>1. Nav!Init => Nav!InRange
  BY DEF Nav!Init, Nav!InRange
<1>2. Nav!InRange /\ [Nav!Next]_<<tbInput, ShownStage>> => Nav!InRange'
  <2> SUFFICES ASSUME Nav!InRange, [Nav!Next]_<<tbInput, ShownStage>>
               PROVE  Nav!InRange'
    OBVIOUS
  <2>1. CASE Nav!Render
    BY <2>1 DEF Nav!Render, Nav!InRange, Nav!Stages
  <2>2. ASSUME NEW d \in {-1, 1}, Nav!Move(d)
        PROVE  Nav!InRange'
    BY <2>2 DEF Nav!Move, Nav!InRange, Nav!Buckets, Nav!Interior
  <2>3. CASE UNCHANGED <<tbInput, ShownStage>>
    BY <2>3 DEF Nav!InRange
  <2>4. QED
    BY <2>1, <2>2, <2>3 DEF Nav!Next
<1>3. QED
  BY <1>1, <1>2, PTL DEF Nav!Spec

\* BucketInRange again, now through the abstraction: the page implements
\* Navigation, and Navigation keeps its bucket in the snapshot.
THEOREM BucketInRangeViaNavigation == Spec => []BucketInRange
<1>1. Nav!InRange => BucketInRange
  BY DEF Nav!InRange, Nav!Buckets, BucketInRange, Buckets
<1>2. QED
  BY <1>1, NavigationRefinement, AbstractInRange, PTL DEF NavigationRefined

=============================================================================
