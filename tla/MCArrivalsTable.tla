-------------------------- MODULE MCArrivalsTable --------------------------
(***************************************************************************)
(* ArrivalsTable over snapshots of up to three flights drawn from seven    *)
(* whose EstPCP sits on every boundary of the quarter switch: minutes 0,   *)
(* 15, 16, 30, 31, 45 and 46, in the first and second hour.  tb and the    *)
(* label range over the five buckets of 00:00-01:00, so the label may      *)
(* name another hour's quarter than tb.                                    *)
(***************************************************************************)
EXTENDS ArrivalsTable

Flight(id, h, m) == [flight |-> id, hour |-> h, minute |-> m]

MC_FlightSet ==
    { Flight("BA1", 0, 0),  Flight("BA2", 0, 15), Flight("BA3", 0, 16),
      Flight("BA4", 0, 30), Flight("BA5", 0, 31), Flight("BA6", 0, 46),
      Flight("BA7", 1, 45) }

MC_MaxFlights == 3

MC_TBs == 0 .. 4

\* The filter the model uses is Array.prototype.filter (SelectSeq) on every
\* index set of every sequence of up to six entries.
ASSUME FilteredMatchesSelectSeq == FilteredIsSelectSeq(6)

=============================================================================
