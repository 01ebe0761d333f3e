--------------------------- MODULE MCQueuePanel ---------------------------
(***************************************************************************)
(* QueuePanel on a three-bucket snapshot: bucket 0 has no predecessor,     *)
(* bucket 2 no successor, bucket 1 both, so every stop of the callback     *)
(* happens.  The waits sit on each side of the thresholds the highlight    *)
(* blocks compare with: 25, 45 and 60.                                     *)
(***************************************************************************)
EXTENDS QueuePanel

MC_NB == 3

MC_MaxInFlight == 1

MC_WaitValues == {24, 25, 45, 59, 60, 61}

=============================================================================
