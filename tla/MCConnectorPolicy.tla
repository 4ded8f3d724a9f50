------------------------- MODULE MCConnectorPolicy -------------------------
(***************************************************************************)
(* The runs of ConnectorPolicy.  A behaviour is of one of two kinds, which *)
(* the initial state chooses: one request at a time, for any capability    *)
(* and with no failed database call, or overlapping requests for those of  *)
(* Few, at most MaxTogether of them, begun before LastTogether.            *)
(***************************************************************************)
EXTENDS ConnectorPolicy
CONSTANTS c1, c2, feedRead, taskClaim, Few, MaxTogether, LastTogether

VARIABLE alone

Busy == {c \in Calls : call[c].pc # "idle"}
mcVars == <<vars, alone>>

MCInit == Init /\ alone \in BOOLEAN

\* Something waits for the clock.
Awaited ==
    \/ \E r \in rows : r.until > now
    \/ \E c \in Calls : call[c].pc = "sleep" /\ call[c].wake > now

\* What a behaviour's kind lets a step do.
Within ==
    /\ UNCHANGED alone
    /\ IF alone THEN Busy' \subseteq {c1} /\ failures' = 0
                ELSE /\ begun' <= MaxTogether
                     /\ \A c \in Busy' : call'[c].intent \in Few
                     /\ now < LastTogether \/ (begun' = begun /\ (now' > now => Awaited))

MCNext == Next /\ Within

MCSpec == MCInit /\ [][MCNext]_mcVars
MCFairSpec ==
    MCSpec /\ WF_mcVars(Tick /\ Within) /\ \A c \in Calls : WF_mcVars(Step(c) /\ Within)

\* One request at a time: repeated terminal failures close the capability, and
\* no attempt, first or repeated, is made in a cooldown.
CooldownHolds == alone => RepeatedFailureBlocks /\ NoAttemptInCooldown

\* One request at a time: a cooldown in force is kept to its end.
CooldownKept ==
    [][alone => \A r \in rows : r.until > now' =>
                   \E s \in rows' : s.intent = r.intent /\ s.until >= r.until]_mcVars

=============================================================================
