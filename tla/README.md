# TLA+ models of the DRT dashboard page

This directory holds TLA+ models of `src/Dashboard/dashboard-scripts.js`, with
TLC configurations and TLAPS proofs. That file is the script of the
single-page dashboard: queue panels, an arrivals table, a passenger-mix pie
and prev/next navigation over 15-minute buckets. The rest of `src/` is
Cypress end-to-end tests of the DRT web application. That application and
its backend are not in this repository.

## 1. The system

**Parts.** The script consists of four groups of functions. Each `populate_*`
function issues one `d3.json` request. The callback of that request renders
one part of the page.

| Part | Functions | State it changes |
|---|---|---|
| Queue panel renderer | `populate_queue_details`, `update_queue_numbers` (lines 4-185) | removes every `div`; appends the summary bar, three queue panels (join text, wait text, trend logo, highlight), the `.tb-bar` label and the `.prev-bar` / `.next-bar` controls |
| Navigation | `populate_previous`, `populate_next` (187-203) | the hidden `<input id="timebucket">`; issues the queue and arrivals requests (the passenger-mix call is commented out) |
| Arrivals renderer | `populate_arrivals`, `update_arrivals_details` (216-343) | appends a table to the first `.arrival-tooltip` |
| Passenger mix | `populate_passenger_mix`, `update_passenger_numbers` (345-513) | filters and counts passengers; appends `#svg-container` with the pie |
| Hover handlers | `*_onMouseEnter/Leave`, mouseover/mouseout closures | inline styles only |

**How the parts interact.** They share nothing but the DOM. The other
callbacks read back two things the queue render writes:

- The **first `.tb-bar` label**. The arrivals and passenger callbacks take
  the quarter of their filter from its minute (lines 228 and 357).
- The **controls**. A click is possible only after a queue render has
  appended `.prev-bar` / `.next-bar`.

The browser runs the callbacks one at a time, each to completion or until
it throws. Responses arrive in any order. Nothing cancels a stale request.

**Behaviours that are hard to test:**

- callbacks of different clicks interleaved (a late arrivals response);
- a callback that reads the page state another response left behind;
- TypeErrors at the first and last bucket (`data[tb-1]`, `data[tb+1]`)
  after the page has already been cleared;
- fetch errors that are ignored;
- numeric boundaries: the 60-minute highlight, quarter boundaries at
  minutes 0/15/30/45, and NaN ages;
- a misspelt field name.

`PROJECT.json` lists each hazard at the line where it bites.

## 2. Modules

| Module | Models | State | Actions |
|---|---|---|---|
| `Dashboard` | the page as an event loop | `tbInput` (hidden input), `pending` (requests in flight, by kind and closure bucket), `views` (queue renders on the page: bucket and how far the render got), `tables` (bucket listed by each arrivals table), `charts` (bucket of each pie) | `ClickPrevious`, `ClickNext` (both via `Populate`), `QueueLoaded`, `ArrivalsLoaded`, `PassengersLoaded` |
| `QueuePanel` | one run of `update_queue_numbers`, statement group by statement group | `tb`, `ok` (data or error), `pc` (statement group), `halted` (TypeError raised), `shown` (wait, trend, highlight of each panel) | `RenderHead`, `RenderPanel(q, w, wprev)`, `Controls` |
| `Navigation` | the page's promise about its bucket, without requests or DOM | `cur` (the bucket), `shown` (how far its queue render got, or `none`) | `Render`, `Move(d)` |
| `ArrivalsTable` | one run of `update_arrivals_details` | `data` (snapshot), `tb`, `bar` (bucket of the first tb-bar, or `NoBar`), `ok`, `table` (rows appended, or `NoTable`), `pc` | `UpdateArrivalsDetails` |
| `PassengerMix` | one run of `update_passenger_numbers` | `data` (snapshot), `tb`, `label` (bucket of the first tb-bar), `bucket` (`pax_in_timebucket`), `i`, `counts` (the nine counters), `chart` (`data3`), `pc` | `Filter`, `Count` (one loop iteration), `Draw` |
| `ArrayFilter` | `Array.prototype.filter` as both filter callbacks use it | | `Filtered(s, K)`: the entries of `s` at the kept indices `K`, in order |
| `DashboardProofs`, `QueuePanelProofs`, `PassengerMixProofs`, `ArrivalsTableProofs`, `ArrayFilterProofs` | TLAPS proofs | | |
| `MCDashboardHistory` | `Dashboard` with a history variable `clicked`, written by the click steps and read by no step | `clicked` | `HNext`: `Dashboard`'s `Next`, the clicks setting `clicked` |
| `MC*` | TLC instances | | |

**Abstractions:**

- A bucket number `b` stands for the label `HH:MM` of `data[b]`. The
  snapshot is contiguous from 00:00, so that label has hour `b \div 4` and
  quarter `b % 4`.
- A callback that throws is modelled by how far it got. `Dashboard`'s
  `QueueStage` gives the stage: `head`, `egates`, `panels` or `full`.
- A filter's bucket is `ListedBucket(tb, label)`: the hour of the closure's
  `tb` and the quarter of the label shown.
- In `PassengerMix`, a passenger is a record of the fields the callback
  reads. The PCP timestamp is reduced to the hour and minute it parses. The
  four nationality lists are the code's literal lists. `parseInt` of a
  malformed age is the model value `NaN`, which fails `< 11`. The
  misspelt `docuument_type` read yields `NaN`, which never equals `'P'`.
- `data.filter(test)` is `Filtered(data, K)`, where `K` is the set of
  indices whose entry the test accepts (`KeptPax`, `ListedFlights`). The
  entry of rank `m` in the result is the one at the kept index with `m`
  kept indices up to it. This is `SelectSeq` written without recursion,
  so that the provers can reason about it. `MCPassengerMix` and
  `MCArrivalsTable` check the two against each other for every index set
  of every sequence of up to six entries (`ASSUME
  FilteredMatchesSelectSeq`). The code's two filters in a row (hour, then
  quarter) are one filter on the conjunction of the two tests.
- Pax counts and all texts, colours and layout are left out: no property
  tells them apart.

**Composition and refinement.** `Dashboard` treats the queue callback as
one atomic step (`QueueLoaded`). `QueuePanel` models the same callback
statement by statement and instantiates `Dashboard` (`Abs`) under a
refinement mapping:

- `PendingBar`: the callback's own request, plus the page's arrivals and
  passenger requests for `tb`, are in flight until the callback ends.
- `ViewsBar`: once the callback ends, the page holds one render, stopped
  where the callback stopped.

`QueueLoadedRefined == Abs!Spec` is checked by TLC and proved by TLAPS.

`Dashboard` in turn implements the abstract `Navigation`
(`NavigationRefined == Nav!Spec`), under `cur <- tbInput` and
`shown <- ShownStage`, the stage of the page's last queue render:

- a click is a `Move`: it needs a complete render, moves the input by one,
  and discards the render;
- a queue callback is a `Render` of the input's bucket, once per click,
  and reaches the controls only between the ends;
- the arrivals and passenger callbacks are stutters.

Together, the two refinements say that what the user can do from the
page follows the promise, whatever order the responses arrive in.
`Dashboard`'s arrivals and passenger callbacks are likewise one step, and
`ArrivalsTable` and `PassengerMix` detail them. The link is stated by
`TableListsListedBucket` and `FilterSelectsShownBucket`: each filter keeps
exactly the flights or passengers of `ListedBucket`'s bucket.
`ArrivalsTable` is one step: the callback runs without another callback
in between, and a TypeError discards what it has computed.

## 3. Runs

The results below are from TLC on the instances in the `MC*` modules.

| Run | cfg | Expect | Result |
|---|---|---|---|
| dashboard_safety | `MCDashboard.cfg` | pass | `TypeOK`, `QueueViewCurrent`, `BucketInRange` and `NavigationRefined` hold; 52,716 states |
| dashboard_liveness | `MCDashboardLive.cfg` | pass | `NavigationAnswered` holds under fairness; 49,472 states |
| dashboard_edge_navigation | `MCDashboardEdges.cfg` | violation | `NavigationNeverLost`: going to bucket 0 faults at line 49, and the page has no controls left |
| dashboard_arrivals_race | `MCDashboardArrivals.cfg` | violation | `ArrivalsListShownBucket`: going from 01:00 back to 00:45, the late 01:00 arrivals response lists 01:45 |
| dashboard_passenger_mix_navigation | `MCDashboardHistoryNav.cfg` | violation | `PassengerMixFollowsNavigation`: a click from bucket 2 back to 1 requests no passenger mix (lines 193/202 are commented out) after line 10 removed the chart; the page settles on bucket 1 with its controls and no chart |
| queue_panel_refinement | `MCQueuePanel.cfg` | pass | `QueueLoadedRefined` holds; 16,946 states |
| queue_panel_severity | `MCQueuePanelSeverity.cfg` | violation | `SeverityMonotone`: 59 minutes is amber, 60 has no highlight, 61 is red |
| arrivals_table | `MCArrivalsTable.cfg` | pass | `TableListsListedBucket` holds; 48,000 states |
| passenger_mix | `MCPassengerMix.cfg` | pass | `FilterSelectsShownBucket`, `CountsAgreeWithSpec` and `ChartShowsBucket` hold. The last says the drawn pie carries the final counters of the whole bucket: its visa and non-visa segments count those nationals, and each B5JSSK and EEA pair adds up to its group. Because the nationality lists overlap, the six segments need not add up to the bucket's passengers, and no property requires them to; 35,508 states |
| passenger_machine_readable | `MCPassengerMixMachineReadableCounted.cfg` | violation | `eea_machine_count` stays 0 for a GBR passenger with document type `P` |
| passenger_malformed_age | `MCPassengerMixMalformedAgeExcluded.cfg` | violation | an ISL passenger with a malformed age is counted as eligible |
| passenger_quarter_windows | `MCPassengerMixFilterMatchesSpecWindows.cfg` | violation | a passenger at 00:00 is kept in the (0,15] quarter |

The inductive invariants of the proofs (`IInv`, `QInv`, `CountInv`,
`MixInv`, `TableInv`) and the step form `QueueRenderCurrent` of
`QueueViewCurrent` are not checked as runs of their own. Their extra
conjuncts restate a guard or an assignment, and what they support is
checked through the properties above.

The passenger-mix navigation run uses `MCDashboardHistory`: the history
variable `clicked` separates the page after a click from the page as first
loaded, which the state of `Dashboard` alone cannot do. On first load the
passenger response may also be handled before the queue render and throw
at line 357, never to be requested again. That race depends on the page
load, which is outside `src/` and taken from the spec, so no run asks
about it.

The violation runs are the findings in `PROJECT.json`. Each passing
property has a mutant in `PROJECT.json`: a plausible bug in a mapped
definition (a dropped guard, an off-by-one, a missing DOM reset, an
`else if`) under which TLC finds the property violated.

**Bounds, and why they are enough:**

- **`MCDashboard`:** 6 buckets. Buckets 0 and 5 are edges, 1-4 are
  interior, and 3→4 crosses an hour, which the arrivals race needs.
  `MaxInFlight = 2` identical requests. The bound never binds for queue
  requests: `QueueViewCurrent` shows at most one. For arrivals requests it
  blocks a third click back to a bucket whose two earlier arrivals
  responses are both still delayed. Two requests are enough for a stale
  and a current response of the same bucket to race. Requests may
  fail, except in the liveness run (see below) and the violation runs,
  where a failure would only shorten the traces.
- **`MCQueuePanel`:** 3 buckets, so each read can fail. Waits are
  24/25/45/59/60/61, on both sides of every threshold (25, 45, 60).
- **`MCArrivalsTable`:** up to 3 flights, drawn from 7 with EstPCP
  minutes 0, 15, 16, 30, 31 and 46 of the first hour and 45 of the
  second. `tb` and the label range over 00:00-01:00, the label may be
  missing, and the request may fail.
- **`MCPassengerMix`:**
  - up to 3 passengers, drawn from 7 records that cover minutes 0, 15,
    16, 30, 45, 46 and the next hour;
  - ages under 11, 11 and over, and malformed;
  - EEA, B5JSSK, visa nationals, ISL (EEA and non-visa) and a code on no
    list;
  - both document types, and transit or not;
  - `tb` and the label each range over the 5 buckets 00:00-01:00, so
    stale labels occur.

**Deadlock.** Every cfg says `CHECK_DEADLOCK FALSE`, and the page really
does stop. After an edge fault or a failed request, no request is in
flight and no control is left to click. The three single-callback modules
end when the callback returns.

**Fairness** (`Dashboard!Fairness`). Each callback gets weak fairness: once
a response has arrived, the browser's event loop runs its callback. Clicks
get none, because the user may stop clicking. The liveness run assumes
that requests succeed. The code has no retry, so after a failed request
the page waits forever. That dead end is listed as a hazard, and
`dashboard_safety` shows that the safety invariants still hold with
failures. It is not checked as liveness, because it would fail for that
reason alone.

## 4. Proofs

TLAPS checks every theorem, for every value of the constants, under the
named assumptions:

- `NB \in Nat \ {0}`;
- `MaxInFlight \in Nat \ {0}`;
- `FetchMayFail \in BOOLEAN`;
- `WaitValues \subseteq Nat`;
- `TBs \subseteq Nat`, and every passenger or flight record has an hour
  in `Nat` and a minute in `0 .. 59` (what parseInt reads from "HH:MM").

**`DashboardProofs`** proves `IInvHolds`, and from it `TypeCorrect`,
`QueueViewAlwaysCurrent` and `BucketAlwaysInRange`. The invariants alone
are not inductive: a click is enabled by a full render's controls. The
strengthening `IInv` therefore adds:

- `ControlsInterior`: a render only reaches its controls for a bucket with
  both neighbours, so a click keeps the input in range;
- `PendingInRange`: every request in flight names a bucket of the
  snapshot, so a callback never appends a controls render for an edge.

`QueueViewCurrent` is itself part of the induction: it gives that no queue
request is in flight while controls are shown, so a click's request is the
only one.

The proof has one lemma per action:

- `PopulateStep`, for both clicks;
- `QueueLoadedStep`;
- `ListLoadedStep`, for the arrivals and passenger callbacks.

They rest on `ControlsFacts`: what a page showing its controls looks like.

**`QueuePanelProofs`** proves `QInvHolds` and `QueueLoadedRefinement`
(`Spec => Abs!Spec`).

- `QInv` records which reads the callback has passed, and which read a
  stopped callback failed at. `StageOfFinished` uses it to show that the
  stopping point is `QueueStage(tb, ok)`.
- The refinement proof maps `Init` to `Abs!Init` and sends each step one of
  three ways:
  - steps inside the callback map to stutters;
  - the step that ends it maps to `Abs!QueueLoaded(tb, ok)`;
  - after the end, nothing is enabled.

`DashboardProofs` also proves `NavigationRefinement`
(`Spec => NavigationRefined`), from `IInv`:

- `NavClick`: the single render on a page with controls is full, and
  `Populate` empties the page;
- `NavRender`: a queue callback finds the page empty and answers the
  input's own request, and `QueueStageFacts` gives the controls only
  between the ends.

`QueueRenderAlwaysCurrent` proves the action property
`QueueRenderCurrent`, the step form of `QueueViewCurrent`: a step that appends a queue render finds the page
empty and draws the input's bucket. `RenderStep` shows that every step
satisfying `IInv` does so; only `QueueLoaded` appends, and `IInv` says its
request is the input's and the page is clear.

`AbstractInRange` proves that `Navigation` on its own keeps `cur` in the
snapshot (`Nav!InRange`): a move starts from a render with controls, and
only an interior bucket gets them. With `NavigationRefinement`, every
implementation of the promise stays in range, not only this page. `BucketInRangeViaNavigation` derives
`BucketInRange` this way, from `NavigationRefinement` and
`AbstractInRange` alone.

**`PassengerMixProofs`** proves `CountsCorrect`
(`Spec => []CountsAgreeWithSpec`). Its inductive invariant `CountInv`
adds that, before the filter, the index is 1 and the counters are 0.

- `CountOfStep` says that counting over the prefix `SubSeq(bucket, 1, k+1)`
  adds one exactly when entry `k+1` passes the test. It rests on
  `FS_AddElement`.
- `IncrementsFacts` says what one iteration adds to each counter. The
  nationality lists are never expanded: the proof holds for any lists.

The counters are written with `CountOf(s, f, L)`, a field-membership test,
rather than a predicate argument: the provers cannot instantiate a lemma
over an operator parameter.

`CountInvHolds` states the loop invariant as a theorem of its own.
`PaxFilterIffInBucket` (in `PassengerMixProofs`) and `ListedIffInBucket`
(in `ArrivalsTableProofs`) prove the arithmetic under the two filters. The
hour test and the quarter switch accept a record exactly when its time
lies in bucket `4 * (tb \div 4) + label % 4`. `QuartersPartitionHour`
adds that every flight of an hour is listed under exactly one of the
hour's four labels.

On top of these, `MixInvHolds` proves the inductive invariant `MixInv` of
`update_passenger_numbers`. `MixInv` is `CountInv` plus the following:

- the snapshot's type;
- the bucket is `Filtered(data, KeptPax(data, tb, label))`;
- the loop index is at most one past the bucket's end;
- once drawn, the chart is `Data3` and the index is exactly past the end.

From it:

- `FilterCorrect` proves `FilterSelectsShownBucket`. The kept index set
  equals the set of passengers of `ShownBucket`, pointwise by
  `PaxFilterIffInBucket`, and equal index sets give equal filters.
- `ChartCorrect` proves `ChartShowsBucket`. At `done`, the prefix the
  counters agree with is the whole bucket. `FilteredShape` (in
  `ArrayFilterProofs`) gives that a filter is a sequence of natural length
  and its own whole prefix.

`TableInvHolds` and `TableCorrect` do the same for the arrivals table, in
`ArrivalsTableProofs`. A table exists only after a callback that had data
and a tb-bar (`TableInv`), and then it lists exactly `ListedBucket`'s
flights.

**Why `Filtered` and not `SelectSeq`.** The models first used `SelectSeq`.
It is a built-in of TLAPS with no axioms: the provers cannot show even
`SelectSeq(<<>>, T) = <<>>`. What these proofs need is that two filters
whose tests accept the same entries are equal. For `SelectSeq`, that needs
an induction over the sequence, which is out of reach here. With
`Filtered`, it is an equality of index sets.

**Only model-checked:**

- the liveness property `NavigationAnswered`: TLAPS does not reason about
  fairness or ENABLED here;
- that `Filtered` is `SelectSeq`: a fact about every sequence that needs
  induction. TLC checks it on every index set of every sequence of up to
  six entries, and on each run's own snapshots through the filter
  properties.

## 5. Not modelled

- The hover handlers only set styles.
- The arrivals table's header row and cell texts, and the pie's layout:
  no property is about them.
- The e2e suite drives an application that is not in this repository.
- How the page is first loaded is in HTML that is not in `src/`. `Init` of
  `Dashboard` is taken from the spec: the input set to a bucket, and the
  three requests for it sent.

## 6. Plan for further work

1. A composition of `Dashboard` with the two filters, so that
   `ArrivalsListShownBucket`'s mixed bucket is shown on flight and
   passenger data rather than on bucket numbers.
2. Prove that every entry of a filter is an entry of the snapshot, which
   needs the kept index of each rank to exist (an induction over finite
   sets). It would let the type invariants cover `bucket` and `table`.
