---------------------------- MODULE MCDailyRhythm ----------------------------
(* Small instances of DailyRhythm for TLC. *)
EXTENDS DailyRhythm, TLC

\* The calls are interchangeable; used only by runs without liveness.
CheckSymmetry == Permutations(Checks)
=============================================================================
