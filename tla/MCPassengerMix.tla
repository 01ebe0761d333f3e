-------------------------- MODULE MCPassengerMix --------------------------
(***************************************************************************)
(* PassengerMix over snapshots of up to three passengers drawn from seven  *)
(* records that between them sit on every boundary the callback tests:     *)
(* minutes 0, 15, 16, 30, 45, 46 and the next hour; ages under 11, 11 and  *)
(* over, and one that does not parse; EEA, B5JSSK, visa and non-visa       *)
(* nationals, ISL (EEA and non-visa), JPN (B5JSSK and non-visa) and a      *)
(* code on no list; document types P and I; transit and not.  tb and the  *)
(* label range over the five buckets of 00:00-01:15, so the label may      *)
(* name another hour's quarter than tb.                                    *)
(***************************************************************************)
EXTENDS PassengerMix

Pax(n, a, d, t, h, m) ==
    [nat |-> n, age |-> a, document_type |-> d, in_transit_flag |-> t,
     hour |-> h, minute |-> m]

MC_PaxSet ==
    { Pax("GBR", 30,  "P", "N", 0, 0),
      Pax("USA", 5,   "P", "N", 0, 15),
      Pax("ISL", NaN, "I", "Y", 0, 16),
      Pax("CHN", 11,  "P", "Y", 0, 46),
      Pax("GBR", 8,   "I", "N", 1, 0),
      Pax("JPN", NaN, "P", "N", 0, 30),
      Pax("ZZZ", 20,  "I", "N", 0, 45) }

MC_MaxPax == 3

MC_TBs == 0 .. 4

\* The filter the model uses is Array.prototype.filter (SelectSeq) on every
\* index set of every sequence of up to six entries.
ASSUME FilteredMatchesSelectSeq == FilteredIsSelectSeq(6)

=============================================================================
