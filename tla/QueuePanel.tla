---------------------------- MODULE QueuePanel ----------------------------
(***************************************************************************)
(* One run of update_queue_numbers(data, tb) in                           *)
(* src/Dashboard/dashboard-scripts.js, statement group by statement group: *)
(* the summary bar, the eGates, EEA-desk and non-EEA-desk panels in that   *)
(* order, then the tb-bar with the prev/next controls.  A TypeError on an  *)
(* undefined snapshot entry ends the callback where it is raised.          *)
(*                                                                         *)
(* The snapshot is not a variable: the callback reads each wait it uses    *)
(* exactly once (data[tb].X_EstWait and data[tb-1].X_EstWait for each      *)
(* queue X), so a panel step takes those two values as inputs.  Pax counts *)
(* and the texts built from them are left out: no property tells them      *)
(* apart.                                                                  *)
(*                                                                         *)
(* Dashboard models the same callback as one atomic step, QueueLoaded,     *)
(* whose outcome is QueueStage(tb, ok).  This module is shown to implement *)
(* that step under the mapping at the end (QueueLoadedRefined).            *)
(***************************************************************************)
EXTENDS Integers, Sequences

CONSTANTS
    NB,            \* number of buckets in Dashboard-DesksQueues.json
    MaxInFlight,   \* as in Dashboard (only the mapping uses it)
    FetchMayFail,  \* whether the d3.json request may end in an error
    WaitValues     \* the estimated waits (minutes) a snapshot may hold

ASSUME NBAssumption == NB \in Nat \ {0}
ASSUME FetchMayFailAssumption == FetchMayFail \in BOOLEAN
ASSUME WaitValuesAssumption == WaitValues \subseteq Nat

VARIABLES
    tb,       \* the closure's bucket
    ok,       \* whether the d3.json callback received data
    pc,       \* the statement group the callback is at
    halted,   \* whether a TypeError has ended the callback at pc
    shown     \* shown[q]: the panel rendered for queue q, or NoPanel

vars == <<tb, ok, pc, halted, shown>>

\* The three queues in the order the callback renders them.
QueueOrder == <<"eGates", "EEA", "nonEEA">>

Queues == {QueueOrder[i] : i \in 1 .. 3}

Trends == {"increase", "decrease", "neutral"}

Severities == {"breach", "warning", "normal"}

\* A panel: its wait, and its trend logo and highlight; "none" when the
\* callback stopped before appending them.
Panel == [wait : WaitValues, trend : Trends \cup {"none"},
          severity : Severities \cup {"none"}]

NoPanel == [wait |-> 0, trend |-> "none", severity |-> "none"]

PCs == {"head", "eGates", "EEA", "nonEEA", "controls", "full"}

\* The lower end of the amber band: 25 for eGates and EEA desks, 45 for
\* non-EEA desks.
WarnFrom(q) == IF q = "nonEEA" THEN 45 ELSE 25

-----------------------------------------------------------------------------
(* The refinement mapping onto Dashboard.  Before the callback has ended,  *)
(* its queue request and the page's arrivals and passenger requests for   *)
(* tb are in flight and the page holds no render; when it has ended, the  *)
(* page holds one render, stopped where this callback stopped.             *)

Finished == halted \/ pc = "full"

\* The Dashboard stage a stopped callback corresponds to.
StageOf(p) ==
    CASE p = "head"     -> "head"
      [] p = "eGates"   -> "egates"
      [] p = "controls" -> "panels"
      [] OTHER          -> "full"

PendingBar ==
    [r \in [kind : {"queue", "arrivals", "pax"}, tb : -1 .. NB] |->
        IF r.tb = tb /\ (r.kind # "queue" \/ ~Finished) THEN 1 ELSE 0]

ViewsBar ==
    IF Finished THEN <<[tb |-> tb, stage |-> StageOf(pc)]>> ELSE <<>>

Abs == INSTANCE Dashboard
           WITH tbInput <- tb, pending <- PendingBar, views <- ViewsBar,
                tables <- <<>>, charts <- <<>>

-----------------------------------------------------------------------------
(* The panel helpers.                                                      *)

\* The pax-increase / pax-decrease / pax-neutral logo.
Trend(w, wprev) ==
    CASE w > wprev -> "increase"
      [] w < wprev -> "decrease"
      [] OTHER     -> "neutral"

\* The background colour: #ff9999 above 60 minutes, #ffd699 in the
\* queue's band below 60, none otherwise.
Severity(q, w) ==
    CASE w > 60                      -> "breach"
      [] w >= WarnFrom(q) /\ w < 60  -> "warning"
      [] OTHER                       -> "normal"

-----------------------------------------------------------------------------

Init ==
    /\ tb \in Abs!Buckets
    /\ ok \in Abs!Outcomes
    /\ pc = "head"
    /\ halted = FALSE
    /\ shown = [q \in Queues |-> NoPanel]

\* The topbar, the tooltips and the pax-bar: data[tb] is read, which fails
\* when the request ended in an error (data undefined).
RenderHead ==
    /\ pc = "head"
    /\ ~halted
    /\ IF ok THEN pc' = "eGates" /\ halted' = FALSE
             ELSE pc' = "head" /\ halted' = TRUE
    /\ UNCHANGED <<tb, ok, shown>>

\* One queue panel: join text, wait text, then the trend logo, which reads
\* data[tb-1] and fails at bucket 0, then the highlight; the callback goes
\* on with the next panel in QueueOrder, after the last with the controls.
RenderPanel(q, w, wprev) ==
    /\ pc = q
    /\ ~halted
    /\ IF tb - 1 \in Abs!Buckets
         THEN /\ shown' = [shown EXCEPT ![q] =
                             [wait |-> w, trend |-> Trend(w, wprev),
                              severity |-> Severity(q, w)]]
              /\ pc' = CASE q = "eGates" -> "EEA"
                          [] q = "EEA"    -> "nonEEA"
                          [] OTHER        -> "controls"
              /\ halted' = FALSE
         ELSE /\ shown' = [shown EXCEPT ![q] = [NoPanel EXCEPT !.wait = w]]
              /\ pc' = q
              /\ halted' = TRUE
    /\ UNCHANGED <<tb, ok>>

\* Mutant: the controls rendered only when tb + 2 is a bucket.
ControlsOffByOne ==
    /\ pc = "controls"
    /\ ~halted
    /\ IF tb + 2 \in Abs!Buckets
         THEN pc' = "full" /\ halted' = FALSE
         ELSE pc' = "controls" /\ halted' = TRUE
    /\ UNCHANGED <<tb, ok, shown>>

\* The tb-bar reads data[next_tb].TimeBucket, which fails at the last
\* bucket; then the prev-bar and next-bar are appended.
Controls ==
    /\ pc = "controls"
    /\ ~halted
    /\ IF tb + 1 \in Abs!Buckets
         THEN pc' = "full" /\ halted' = FALSE
         ELSE pc' = "controls" /\ halted' = TRUE
    /\ UNCHANGED <<tb, ok, shown>>

Next ==
    \/ RenderHead
    \/ \E q \in Queues, w, wprev \in WaitValues : RenderPanel(q, w, wprev)
    \/ Controls

Spec == Init /\ [][Next]_vars

-----------------------------------------------------------------------------
(* Properties.                                                             *)

TypeOK ==
    /\ tb \in Abs!Buckets
    /\ ok \in Abs!Outcomes
    /\ pc \in PCs
    /\ halted \in BOOLEAN
    /\ shown \in [Queues -> Panel \cup {NoPanel}]

\* The statement-by-statement callback implements Dashboard's atomic
\* QueueLoaded: it ends with exactly the render QueueStage(tb, ok) says,
\* and every intermediate statement leaves the page as it was.
QueueLoadedRefined == Abs!Spec

\* A longer wait never gets a weaker highlight: had the snapshot held any
\* longer wait for a rendered queue, its panel would be at least as
\* severe (the 60-minute thresholds of the three highlight blocks).
SeverityRank(s) == CASE s = "breach" -> 2 [] s = "warning" -> 1 [] OTHER -> 0

SeverityMonotone ==
    \A q \in Queues :
        shown[q].severity # "none" =>
            \A w \in WaitValues :
                w >= shown[q].wait =>
                    SeverityRank(Severity(q, w)) >= SeverityRank(shown[q].severity)

-----------------------------------------------------------------------------
(* The inductive invariant QueuePanelProofs uses: where the callback is    *)
(* tells which reads have succeeded, and a stopped callback tells which    *)
(* read failed.                                                            *)

\* A statement group past the head has read data[tb]; one past the eGates
\* panel has read data[tb-1]; the full render has read data[tb+1]; a
\* TypeError was raised by the read of the group it stopped at.
QInv ==
    /\ TypeOK
    /\ pc # "head" => ok
    /\ pc \in {"EEA", "nonEEA", "controls", "full"} => tb - 1 \in Abs!Buckets
    /\ pc = "full" => tb + 1 \in Abs!Buckets /\ ~halted
    /\ halted =>
          \/ pc = "head" /\ ~ok
          \/ pc = "eGates" /\ tb - 1 \notin Abs!Buckets
          \/ pc = "controls" /\ tb + 1 \notin Abs!Buckets

=============================================================================
