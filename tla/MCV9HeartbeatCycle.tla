------------------------- MODULE MCV9HeartbeatCycle -------------------------
(***************************************************************************)
(* Model values and symmetry for the run of V9HeartbeatCycle.              *)
(***************************************************************************)
EXTENDS V9HeartbeatCycle
CONSTANTS b1, b2, t1, t2
BeatSymmetry == Permutations(Beats)
=============================================================================
