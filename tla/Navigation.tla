---------------------------- MODULE Navigation ----------------------------
(***************************************************************************)
(* What the dashboard page promises about the bucket it shows, with the    *)
(* requests, callbacks and DOM of Dashboard left out.  The page has a      *)
(* current bucket cur and shows at most one queue render of it, given by   *)
(* how far that render got ("none" while it is still awaited):             *)
(*   - the render of the current bucket comes once per move; it ends with  *)
(*     the prev/next controls only for a bucket with both neighbours;      *)
(*   - a move is possible only from a render with controls, goes one       *)
(*     bucket back or forward, and discards the render.                    *)
(* Dashboard is shown to implement this specification (NavigationRefined). *)
(***************************************************************************)
EXTENDS Integers

CONSTANT NB        \* number of buckets in the queue snapshot

VARIABLES
    cur,           \* the bucket the page is on
    shown          \* how far its queue render got, or "none"

Buckets == 0 .. NB - 1

\* The buckets with both neighbours in the snapshot.
Interior == 1 .. NB - 2

Stages == {"head", "egates", "panels", "full"}

Init ==
    /\ cur \in Buckets
    /\ shown = "none"

\* The awaited render of the current bucket arrives; it stops short of the
\* controls at either end of the snapshot, and anywhere when it fails.
Render ==
    /\ shown = "none"
    /\ shown' \in IF cur \in Interior THEN Stages ELSE Stages \ {"full"}
    /\ UNCHANGED cur

\* A click on the controls of a complete render moves one bucket by d.
Move(d) ==
    /\ shown = "full"
    /\ cur' = cur + d
    /\ shown' = "none"

Next == Render \/ \E d \in {-1, 1} : Move(d)

Spec == Init /\ [][Next]_<<cur, shown>>

\* What the promise guarantees: the page never leaves the snapshot, and a
\* render with controls is of a bucket with both neighbours.
InRange ==
    /\ cur \in Buckets
    /\ shown = "full" => cur \in Interior

=============================================================================
