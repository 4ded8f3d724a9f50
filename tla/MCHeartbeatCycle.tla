-------------------------- MODULE MCHeartbeatCycle --------------------------
(***************************************************************************)
(* The runs of HeartbeatCycle.  A behaviour is of one of two kinds, which  *)
(* the initial state chooses: one heartbeat at a time, over every item and *)
(* with no failed database call, or overlapping heartbeats over the items  *)
(* of Few, at most MaxTogether of them.                                    *)
(***************************************************************************)
EXTENDS HeartbeatCycle
CONSTANTS b1, b2, e1, e2, e3, Few, MaxTogether

VARIABLE alone

Busy == {b \in Beats : beat[b].pc # "idle"}

MCInit == Init /\ alone \in BOOLEAN

MCNext ==
    /\ Next /\ UNCHANGED alone
    /\ IF alone THEN (\A b, c \in Busy' : b = c) /\ failures' = 0
                ELSE begun' <= MaxTogether /\ Range(arrived') \subseteq Few

MCSpec == MCInit /\ [][MCNext]_<<vars, alone>>

\* One heartbeat at a time, with a crash at any step: cycles are numbered in
\* the order of their traces, no perceived item is left without a verdict, and
\* no heartbeat is degraded by what an earlier one left.
Undisturbed == alone => SequenceIncreasing /\ NothingForgotten /\ DegradedOnlyByFailure

BeatSymmetry == Permutations(Beats)
=============================================================================
