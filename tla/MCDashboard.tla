---------------------------- MODULE MCDashboard ----------------------------
(* Dashboard on a snapshot of six buckets, 00:00 to 01:15.  Buckets 0 and *)
(* 5 are the edges; 1..4 have both neighbours, and the step between 3     *)
(* (00:45) and 4 (01:00) crosses an hour with both ends navigable.        *)
EXTENDS Dashboard

MC_NB == 6

MC_MaxInFlight == 2

=============================================================================
