-------------------------- MODULE MCEffectDispatch --------------------------
(***************************************************************************)
(* Model values and symmetry for the runs of EffectDispatch.               *)
(***************************************************************************)
EXTENDS EffectDispatch
CONSTANTS w1, w2, sent, asked, written, platform
WorkerSymmetry == Permutations(Workers)
=============================================================================
