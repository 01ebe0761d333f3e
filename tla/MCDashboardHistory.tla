------------------------- MODULE MCDashboardHistory -------------------------
(***************************************************************************)
(* Dashboard on the six-bucket snapshot of MCDashboard, with a history     *)
(* variable that records whether the user has clicked a control yet.  It   *)
(* tells the page after navigation apart from the page as first loaded,    *)
(* whose passenger mix depends on the spec-modelled load.  The history     *)
(* variable is only written, never read, by the page's steps.              *)
(***************************************************************************)
EXTENDS Dashboard

MC_NB == 6

MC_MaxInFlight == 2

VARIABLE clicked   \* whether populate_previous or populate_next has run

hvars == <<vars, clicked>>

HInit == Init /\ clicked = FALSE

HNext ==
    \/ /\ ClickPrevious \/ ClickNext
       /\ clicked' = TRUE
    \/ /\ \E t \in ReqBuckets, ok \in Outcomes :
             \/ QueueLoaded(t, ok)
             \/ ArrivalsLoaded(t, ok)
             \/ PassengersLoaded(t, ok)
       /\ UNCHANGED clicked

HSpec == HInit /\ [][HNext]_hvars

\* No response is in flight.
Quiet == \A r \in Req : pending[r] = 0

\* The page shows a passenger mix chart for the bucket in its tb-bar.
MixShown == \E i \in 1 .. Len(charts) : charts[i] = FirstBarLabel

\* Spec section 2: navigation re-renders both the queue panels and the
\* passenger mix.  After a click of populate_previous or populate_next,
\* once every response has been handled and the page shows its controls,
\* a passenger mix chart of the bucket in the tb-bar is on the page.
PassengerMixFollowsNavigation ==
    clicked /\ Quiet /\ NavAvailable => MixShown

=============================================================================
