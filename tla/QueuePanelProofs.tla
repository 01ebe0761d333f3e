------------------------- MODULE QueuePanelProofs -------------------------
(***************************************************************************)
(* Proof, for every snapshot size, that the statement-by-statement queue   *)
(* callback of QueuePanel implements Dashboard's atomic QueueLoaded step   *)
(* under the mapping PendingBar / ViewsBar.  The step that ends the        *)
(* callback must append the render QueueStage(tb, ok); which render that   *)
(* is depends on which read failed, so the proof rests on QInv, which      *)
(* records the reads that have succeeded and the one that failed.         *)
(***************************************************************************)
EXTENDS QueuePanel, TLAPS

USE NBAssumption, FetchMayFailAssumption

\* The outcome of a d3.json callback is a Boolean.
LEMMA OutcomesBoolean == Abs!Outcomes \subseteq BOOLEAN
  BY DEF Abs!Outcomes

\* A callback that has ended stopped at the statement group the atomic
\* QueueLoaded step says it stops at.  Stated over values, so that it
\* applies to the state after a step as well.
LEMMA StageOfFinished ==
    ASSUME NEW t \in Abs!Buckets, NEW o \in BOOLEAN, NEW p, NEW h,
           p # "head" => o,
           p \in {"EEA", "nonEEA", "controls", "full"} => t - 1 \in Abs!Buckets,
           p = "full" => t + 1 \in Abs!Buckets,
           h => \/ p = "head" /\ ~o
                \/ p = "eGates" /\ t - 1 \notin Abs!Buckets
                \/ p = "controls" /\ t + 1 \notin Abs!Buckets,
           h \/ p = "full"
    PROVE  StageOf(p) = Abs!QueueStage(t, o)
<1>1. CASE p = "head" /\ ~o
  BY <1>1 DEF StageOf, Abs!QueueStage
<1>2. CASE p = "eGates" /\ t - 1 \notin Abs!Buckets
  BY <1>2 DEF StageOf, Abs!QueueStage
<1>3. CASE p = "controls" /\ t + 1 \notin Abs!Buckets
  BY <1>3 DEF StageOf, Abs!QueueStage
<1>4. CASE p = "full"
  BY <1>4 DEF StageOf, Abs!QueueStage
<1>5. QED
  BY <1>1, <1>2, <1>3, <1>4

LEMMA InitQInv == Init => QInv
  BY DEF Init, QInv, TypeOK, PCs, Panel, NoPanel

LEMMA NextQInv == QInv /\ [Next]_vars => QInv'
<1> SUFFICES ASSUME QInv, [Next]_vars PROVE QInv'
  OBVIOUS
<1>1. CASE RenderHead
  BY <1>1 DEF RenderHead, QInv, TypeOK, PCs
<1>2. ASSUME NEW q \in Queues, NEW w \in WaitValues, NEW wp \in WaitValues,
             RenderPanel(q, w, wp)
      PROVE  QInv'
  <2>1. /\ pc = q
        /\ q \in {"eGates", "EEA", "nonEEA"}
    BY <1>2 DEF RenderPanel, Queues, QueueOrder
  <2>2. shown' \in [Queues -> Panel \cup {NoPanel}]
    <3>1. Trend(w, wp) \in Trends /\ Severity(q, w) \in Severities
      BY WaitValuesAssumption DEF Trend, Severity, Trends, Severities
    <3>2. QED
      BY <1>2, <3>1 DEF RenderPanel, QInv, TypeOK, Panel, NoPanel
  <2>3. pc' \in PCs
    BY <1>2, <2>1 DEF RenderPanel, PCs
  <2>4. QED
    BY <1>2, <2>1, <2>2, <2>3 DEF RenderPanel, QInv, TypeOK, PCs
<1>3. CASE Controls
  BY <1>3 DEF Controls, QInv, TypeOK, PCs
<1>4. CASE UNCHANGED vars
  BY <1>4 DEF vars, QInv, TypeOK, PCs
<1>5. QED
  BY <1>1, <1>2, <1>3, <1>4 DEF Next

\* QInv holds in every reachable state of the callback.
THEOREM QInvHolds == Spec => []QInv
  BY InitQInv, NextQInv, PTL DEF Spec

-----------------------------------------------------------------------------
(* The refinement.                                                         *)

\* The mapped initial state: the page has just requested the three
\* snapshots for tb and holds no render.
LEMMA InitRefined == Init => Abs!Init
<1> SUFFICES ASSUME Init PROVE Abs!Init
  OBVIOUS
<1>1. ~Finished
  BY DEF Init, Finished
<1>2. PendingBar = [r \in Abs!Req |-> IF r.tb = tb THEN 1 ELSE 0]
  BY <1>1 DEF PendingBar, Abs!Req, Abs!Kinds, Abs!ReqBuckets
<1>3. ViewsBar = <<>>
  BY <1>1 DEF ViewsBar
<1>4. QED
  BY <1>2, <1>3 DEF Init, Abs!Init

\* Once ended, the callback takes no further step.
LEMMA FinishedStutters ==
    ASSUME QInv, Finished, [Next]_vars
    PROVE  UNCHANGED vars
<1>1. ~RenderHead /\ ~Controls
  BY DEF Finished, RenderHead, Controls
<1>2. \A q \in Queues, w, wp \in WaitValues : ~RenderPanel(q, w, wp)
  BY DEF Finished, RenderPanel, Queues, QueueOrder
<1>3. QED
  BY <1>1, <1>2 DEF Next

\* A step inside the callback leaves the page as it was.
LEMMA InnerStepStutters ==
    ASSUME ~Finished, ~Finished', UNCHANGED tb
    PROVE  UNCHANGED <<tb, PendingBar, ViewsBar, <<>>, <<>>>>
  BY DEF PendingBar, ViewsBar

\* The step that ends the callback is QueueLoaded(tb, ok) of the page.
LEMMA EndStepRefined ==
    ASSUME QInv, QInv', ~Finished, Finished', UNCHANGED <<tb, ok>>
    PROVE  Abs!QueueLoaded(tb, ok)
<1> DEFINE r == [kind |-> "queue", tb |-> tb]
<1>1. tb \in Abs!ReqBuckets /\ r \in Abs!Req
  BY DEF QInv, TypeOK, Abs!Buckets, Abs!ReqBuckets, Abs!Req, Abs!Kinds
<1>2. PendingBar = [s \in Abs!Req |-> IF s.tb = tb THEN 1 ELSE 0]
  BY DEF PendingBar, Abs!Req, Abs!Kinds, Abs!ReqBuckets
<1>3. PendingBar' = [s \in Abs!Req |-> IF s.tb = tb /\ s.kind # "queue" THEN 1 ELSE 0]
  BY DEF PendingBar, Abs!Req, Abs!Kinds, Abs!ReqBuckets
<1>4. PendingBar[r] > 0
  BY <1>1, <1>2
<1>5. PendingBar' = [PendingBar EXCEPT ![r] = @ - 1]
  <2>1. [PendingBar EXCEPT ![r] = @ - 1]
          = [s \in Abs!Req |-> IF s = r THEN 0 ELSE PendingBar[s]]
    BY <1>1, <1>2
  <2>2. \A s \in Abs!Req :
          (IF s = r THEN 0 ELSE PendingBar[s])
            = (IF s.tb = tb /\ s.kind # "queue" THEN 1 ELSE 0)
    BY <1>2 DEF Abs!Req, Abs!Kinds, Abs!ReqBuckets
  <2>3. QED
    BY <1>3, <2>1, <2>2
<1>6. StageOf(pc') = Abs!QueueStage(tb, ok)
  <2>1. tb \in Abs!Buckets /\ ok \in BOOLEAN
    BY OutcomesBoolean DEF QInv, TypeOK
  <2>2. QED
    BY <2>1, StageOfFinished DEF QInv, Finished
<1>7. ViewsBar' = Append(ViewsBar, [tb |-> tb, stage |-> Abs!QueueStage(tb, ok)])
  BY <1>6 DEF ViewsBar
<1>8. QED
  BY <1>4, <1>5, <1>7 DEF Abs!QueueLoaded

\* Each step of the callback is a step of the page or leaves it unchanged.
LEMMA NextRefined ==
    QInv /\ QInv' /\ [Next]_vars => [Abs!Next]_(Abs!vars)
<1> SUFFICES ASSUME QInv, QInv', [Next]_vars
             PROVE  [Abs!Next]_(Abs!vars)
  OBVIOUS
<1>1. UNCHANGED <<tb, ok>>
  BY DEF Next, RenderHead, RenderPanel, Controls, vars
<1>2. CASE Finished
  <2>1. UNCHANGED vars
    BY <1>2, FinishedStutters
  <2>2. QED
    BY <2>1 DEF vars, Abs!vars, PendingBar, ViewsBar, Finished
<1>3. CASE ~Finished /\ ~Finished'
  BY <1>1, <1>3, InnerStepStutters DEF Abs!vars
<1>4. CASE ~Finished /\ Finished'
  <2>1. Abs!QueueLoaded(tb, ok)
    BY <1>1, <1>4, EndStepRefined
  <2>2. tb \in Abs!ReqBuckets /\ ok \in Abs!Outcomes
    BY DEF QInv, TypeOK, Abs!Buckets, Abs!ReqBuckets
  <2>3. QED
    BY <2>1, <2>2 DEF Abs!Next
<1>5. QED
  BY <1>2, <1>3, <1>4

\* The statement-by-statement queue callback implements Dashboard's atomic
\* QueueLoaded step (update_queue_numbers run to completion or to its
\* first TypeError), for every snapshot size.
THEOREM QueueLoadedRefinement == Spec => QueueLoadedRefined
<1>1. Spec => []QInv
  BY QInvHolds
<1>2. QED
  BY <1>1, InitRefined, NextRefined, PTL DEF Spec, QueueLoadedRefined, Abs!Spec

=============================================================================
