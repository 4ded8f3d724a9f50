----------------------------- MODULE ActionPolicy -----------------------------
(***************************************************************************)
(* What the agent wants to do becomes a proposal, the proposal a decision, *)
(* and the decision a dispatch, or the pass of a connector's write through *)
(* its gate.  Two generations of builder and policy stand side by side:    *)
(* the judgment's verdicts go through v8's, the agent's own intents and    *)
(* its routines through v9's.  Each step is a pure function of what it is  *)
(* given; the gate is given the decision and flags of the owner's.         *)
(*                                                                         *)
(* Reasons and identifiers are left out.  An unset permission or           *)
(* preference counts as given in v8, where only FALSE refuses.             *)
(***************************************************************************)
EXTENDS Naturals

CONSTANTS
    ReadCapabilities,   \* capabilities whose name hints at no write
    WriteCapabilities   \* those inferCapabilitySideEffectClass takes for writes

ASSUME PolicyAssumption ==
    ReadCapabilities \cap WriteCapabilities = {} /\ "none" \notin ReadCapabilities \cup WriteCapabilities

VARIABLES
    progress,   \* how far the intent has come
    proposal,   \* what the builder made of it
    context,    \* what the policy is told
    decision,   \* the policy's decision
    outcome     \* what came of it

policyVars == <<progress, proposal, context, decision, outcome>>

-----------------------------------------------------------------------------
\* ACTION_KIND_REGISTRY and V9_ACTION_KIND_REGISTRY: the effect of each kind and
\* the first of its downgrades.
Effect == [ignore        |-> "none",             watch        |-> "local_state",
           remember      |-> "local_state",      notify_owner |-> "owner_attention",
           draft_reply   |-> "local_state",      draft_publish |-> "local_state",
           auto_reply    |-> "external_write",   auto_publish |-> "external_write",
           run_connector |-> "capability_declared", routine   |-> "routine"]
Kinds == DOMAIN Effect
DowngradeTarget == [kind \in Kinds |->
    CASE kind \in {"ignore", "watch"}            -> "none"
      [] kind \in {"remember", "notify_owner"}   -> "watch"
      [] kind = "auto_reply"                     -> "draft_reply"
      [] kind = "auto_publish"                   -> "draft_publish"
      [] OTHER                                   -> "notify_owner"]

Capabilities == ReadCapabilities \cup WriteCapabilities
Classes == {"none", "owner_attention", "external_write"}
Rank == [none |-> 0, owner_attention |-> 1, external_write |-> 2]

\* A routine's guard, its provenance and its target: the triggers stand for the
\* trigger capabilities and what the pattern matches.
Routine == [parsed : BOOLEAN, allowed : SUBSET Capabilities, denied : SUBSET Capabilities,
            triggers : SUBSET Capabilities, ceiling : Classes, confirm : BOOLEAN,
            target : Capabilities \cup {"none"}]
UnknownRoutine == [parsed |-> FALSE, allowed |-> {}, denied |-> {}, triggers |-> {}, ceiling |-> "none",
              confirm |-> FALSE, target |-> "none"]

Risks == {"low", "medium", "high", "blocked"}
Proposal == [version : {"v8", "v9"}, kind : Kinds, risk : Risks, sourced : BOOLEAN, routine : Routine]
Context == [permitted : BOOLEAN, preferred : BOOLEAN, open : BOOLEAN, active : BOOLEAN]

NoProposal == [version |-> "v8", kind |-> "ignore", risk |-> "low", sourced |-> FALSE, routine |-> UnknownRoutine]
NoContext == [permitted |-> FALSE, preferred |-> FALSE, open |-> FALSE, active |-> FALSE]
NoDecision == [verdict |-> "none", to |-> "none"]
NoOutcome == [result |-> "none", intent |-> "read", flags |-> {}]

PolicyInit ==
    /\ progress = "intent" /\ proposal = NoProposal /\ context = NoContext
    /\ decision = NoDecision /\ outcome = NoOutcome

-----------------------------------------------------------------------------
\* buildActionProposal: a judgment to ignore, to watch or to remember makes no
\* proposal.  One without sources is given a reference to itself.
Propose8(kind, risk) ==
    /\ kind \in Kinds \ {"ignore", "watch", "remember", "routine"}
    /\ proposal' = [NoProposal EXCEPT !.kind = kind, !.risk = risk, !.sourced = TRUE]
    /\ progress' = "proposed" /\ UNCHANGED <<context, decision, outcome>>

\* computeRiskPosture
RiskPosture(kind, highSignal) ==
    IF highSignal THEN "high"
    ELSE IF Effect[kind] \in {"external_write", "routine"} THEN "medium" ELSE "low"

\* buildV9ActionProposal: attention alone, without an intent of the agent or of a
\* routine, proposes nothing, and neither does an effect without a source.
Propose9(kind, highSignal, routine) ==
    /\ kind \in Kinds \ {"ignore", "watch", "remember"}
    /\ ~(kind = "routine" /\ routine.parsed) => routine = UnknownRoutine
    /\ proposal' = [version |-> "v9", kind |-> kind, risk |-> RiskPosture(kind, highSignal),
                    sourced |-> TRUE, routine |-> routine]
    /\ progress' = "proposed" /\ UNCHANGED <<context, decision, outcome>>
NoAction == progress' = "ended" /\ UNCHANGED <<proposal, context, decision, outcome>>
Propose ==
    /\ progress = "intent"
    /\ \/ \E kind \in Kinds, risk \in Risks : Propose8(kind, risk)
       \/ \E kind \in Kinds, highSignal \in BOOLEAN, routine \in Routine : Propose9(kind, highSignal, routine)
       \/ NoAction

-----------------------------------------------------------------------------
Decided(verdict) == [verdict |-> verdict, to |-> "none"]
Downgraded(kind) ==
    IF DowngradeTarget[kind] = "none" THEN Decided("deny")
    ELSE [verdict |-> "downgrade", to |-> DowngradeTarget[kind]]

IsWrite(kind) == Effect[kind] \in {"external_write", "capability_declared"}
OwnerAttentionKinds == {"notify_owner", "draft_reply", "draft_publish"}

\* A write runs by itself at medium risk too.
MutCanAutoRun(kind, risk) == risk \in {"low", "medium"}
CanAutoRun(kind, risk) ==
    CASE IsWrite(kind)                      -> risk = "low"
      [] Effect[kind] = "owner_attention"   -> risk \in {"low", "medium"}
      [] OTHER                              -> TRUE

\* evaluateActionPolicy
EvaluateV8(p, c) ==
    IF \/ (~p.sourced /\ (IsWrite(p.kind) \/ p.kind \in OwnerAttentionKinds))
       \/ p.risk = "blocked" THEN Decided("deny")
    ELSE IF p.risk = "high" THEN Decided("defer")
    ELSE IF c.open THEN Decided("deny")
    ELSE IF (IsWrite(p.kind) => c.permitted /\ c.preferred) /\ CanAutoRun(p.kind, p.risk)
         THEN Decided("allow")
    ELSE Downgraded(p.kind)

\* The class that the triggers reach, or the target without any; a read counts as
\* the owner's attention.
Reach(r) == IF r.triggers = {} THEN {r.target} \ {"none"} ELSE r.triggers
TriggerClass(r) ==
    CASE Reach(r) = {}                             -> "none"
      [] Reach(r) \cap WriteCapabilities # {}      -> "external_write"
      [] OTHER                                     -> "owner_attention"

\* Without a target the allowed capabilities are compared with nothing.
WithinTriggers(r) ==
    /\ r.target # "none" => r.allowed \subseteq r.triggers
    /\ r.denied \cap (r.triggers \cup {r.target}) = {}
    /\ Rank[r.ceiling] <= Rank[TriggerClass(r)]

\* evaluateRoutineGuard, for an active routine; its risk is not looked at.
EvaluateRoutine(p, c) ==
    LET r == p.routine IN
    IF \/ ~c.active \/ ~r.parsed \/ ~WithinTriggers(r)
       \/ (r.ceiling = "external_write" /\ ~(c.permitted /\ ~c.open /\ c.preferred))
       \/ (r.ceiling = "owner_attention" /\ ~c.preferred) THEN Decided("deny")
    ELSE IF r.confirm THEN Downgraded(p.kind)
    ELSE Decided("allow")

\* evaluateV9ActionPolicy
EvaluateV9(p, c) ==
    IF (~p.sourced /\ Effect[p.kind] # "none") \/ p.risk = "blocked" THEN Decided("deny")
    ELSE IF Effect[p.kind] = "routine" THEN EvaluateRoutine(p, c)
    ELSE IF IsWrite(p.kind) THEN
        IF p.risk = "high" \/ ~c.permitted \/ c.open \/ ~c.preferred THEN Decided("deny")
        ELSE IF Effect[p.kind] = "external_write" /\ p.risk = "medium" THEN Downgraded(p.kind)
        ELSE Decided("allow")
    ELSE IF Effect[p.kind] = "owner_attention" THEN Downgraded(p.kind)
    ELSE IF c.open THEN Decided("deny") ELSE Decided("allow")

Evaluate(c) ==
    /\ progress = "proposed" /\ progress' = "decided" /\ context' = c
    /\ decision' = IF proposal.version = "v8" THEN EvaluateV8(proposal, c) ELSE EvaluateV9(proposal, c)
    /\ UNCHANGED <<proposal, outcome>>

-----------------------------------------------------------------------------
\* dispatchAllowedAction: only a connector that is allowed to run is run.
DispatchedAs(kind, d) ==
    CASE d.verdict = "downgrade" -> "guidance"
      [] d.verdict = "allow" /\ kind = "run_connector" -> "connector"
      [] d.verdict = "allow" /\ kind \in {"auto_reply", "auto_publish", "draft_reply", "draft_publish"} -> "guidance"
      [] OTHER -> "none"
DispatchAllowed(guidanceAvailable) ==
    /\ progress = "decided" /\ proposal.version = "v8" /\ progress' = "dispatched"
    /\ outcome' = [NoOutcome EXCEPT !.result =
           IF decision.verdict = "downgrade" /\ ~guidanceAvailable
           THEN "guidance_unavailable" ELSE DispatchedAs(proposal.kind, decision)]
    /\ UNCHANGED <<proposal, context, decision>>

\* dispatchPolicyBoundWrite, given an intent and the decision as its proof, or
\* none.  It looks at the proof of three intents only, post.publish, comment.reply
\* and message.send ("gated"); any other intent is executed at once, be it a read
\* or a write such as task.claim ("other_write").  By the flags of the proof the
\* owner has confirmed the write, may still have to, or it is rehearsed; where no
\* proof is looked at they are taken as none.
Intents == {"gated", "other_write", "read"}
IsWriteCapability(intent) == intent = "gated"
OwnerFlags == {"confirmed", "confirmMode", "dryRun"}
ProofValid(verdict, flags) == verdict = "allow" /\ flags # {}
Gate(intent, verdict, flags) ==
    CASE ~IsWriteCapability(intent) -> "executed"
      [] IsWriteCapability(intent) /\ ~ProofValid(verdict, flags) -> IF verdict = "defer" THEN "deferred" ELSE "denied"
      [] OTHER -> IF "dryRun" \in flags THEN "dry_run"
                  ELSE IF "confirmMode" \in flags /\ "confirmed" \notin flags THEN "deferred"
                  ELSE "executed"
GateWrite(intent, proof, flags) ==
    /\ progress = "decided" /\ progress' = "gated"
    /\ flags # {} => proof /\ IsWriteCapability(intent)
    /\ outcome' = [result |-> Gate(intent, IF proof THEN decision.verdict ELSE "missing", flags),
                   intent |-> intent, flags |-> flags]
    /\ UNCHANGED <<proposal, context, decision>>

PolicyNext ==
    \/ Propose
    \/ \E c \in Context : Evaluate(c)
    \/ \E guidanceAvailable \in BOOLEAN : DispatchAllowed(guidanceAvailable)
    \/ \E intent \in Intents, proof \in BOOLEAN, flags \in SUBSET OwnerFlags : GateWrite(intent, proof, flags)
PolicySpec == PolicyInit /\ [][PolicyNext]_policyVars
-----------------------------------------------------------------------------

\* A connector is run, and a write of the platform allowed by either policy,
\* only at low risk, with the permission, the owner's preference and a closed
\* breaker; v9 allows the direct writes never, because it rates none of them
\* below medium (evaluateActionPolicy, evaluateV9ActionPolicy, computeRiskPosture).
WritesNeedConsent ==
    decision.verdict = "allow" /\ IsWrite(proposal.kind) =>
        /\ proposal.risk = "low" /\ context.permitted /\ context.preferred /\ ~context.open
        /\ proposal.version = "v9" => proposal.kind = "run_connector"

\* What takes the place of a forbidden action reaches no platform: no chain of
\* downgrades leads back to a write or to a routine, and a downgrade is no proof
\* for an intent the write gate looks at (evaluateActionPolicy,
\* evaluateV9ActionPolicy, ACTION_KIND_REGISTRY, validatePolicyProof).
DowngradesAreMild ==
    decision.verdict = "downgrade" =>
        /\ Effect[decision.to] \in {"local_state", "owner_attention"}
        /\ outcome.result # "connector"
        /\ IsWriteCapability(outcome.intent) => outcome.result # "executed"

\* A routine that may run is active, reaches nothing that is denied to it, has
\* the consent its ceiling asks for, and its ceiling is not above what triggers
\* it (evaluateRoutineGuard).
RoutineWithinProvenance ==
    LET r == proposal.routine IN
    decision.verdict = "allow" /\ proposal.kind = "routine" =>
        /\ context.active /\ ~r.confirm /\ r.target \notin r.denied
        /\ r.target # "none" => r.allowed \subseteq r.triggers /\ r.allowed \cap r.denied = {}
        /\ r.ceiling = "external_write" =>
               /\ Reach(r) \cap WriteCapabilities # {}
               /\ context.permitted /\ context.preferred /\ ~context.open

\* Of the three intents the gate looks at, none is executed unless the policy
\* allowed it and the owner confirmed it, nor in a rehearsal; of any other intent
\* this is not so (dispatchPolicyBoundWrite).
WritesConfirmed ==
    outcome.result = "executed" /\ IsWriteCapability(outcome.intent) =>
        /\ decision.verdict = "allow"
        /\ "confirmed" \in outcome.flags /\ "dryRun" \notin outcome.flags

\* No step of the path from a verdict to a platform lets through what another
\* one, or the owner, forbids.
PolicyRespected ==
    WritesNeedConsent /\ DowngradesAreMild /\ RoutineWithinProvenance /\ WritesConfirmed
=============================================================================
