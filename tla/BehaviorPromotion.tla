--------------------------- MODULE BehaviorPromotion ---------------------------
(***************************************************************************)
(* Behaviour promotions: the agent submits a behaviour as a candidate, the *)
(* operator approves or rejects it, and candidates nobody decided on in    *)
(* time expire when the sweep finds them.  Every operation is synchronous. *)
(***************************************************************************)
EXTENDS Naturals

CONSTANTS
    Promotions,     \* the ids of the promotions
    TtlDays,        \* DEFAULT_TTL_DAYS
    MaxDay          \* bound: the clock, in days

ASSUME PromotionAssumption == TtlDays \in Nat /\ MaxDay \in Nat

VARIABLES
    promotions,     \* the rows, by id
    today           \* the clock

promotionVars == <<promotions, today>>

NoPromotion == [status |-> "absent", submitted |-> 0, expires |-> 0, decided |-> 0]

PromotionInit == promotions = [p \in Promotions |-> NoPromotion] /\ today = 0

\* submitPromotion; a second submission of an id throws.
Submit(p) ==
    /\ promotions[p].status = "absent" /\ UNCHANGED today
    /\ promotions' = [promotions EXCEPT ![p] =
           [status |-> "candidate", submitted |-> today, expires |-> today + TtlDays, decided |-> 0]]

\* approvePromotion and rejectPromotion: only a candidate can be decided; the
\* same decision again changes nothing, any other throws.
MutDecidable(p) == promotions[p].status \in {"candidate", "expired"}
Decidable(p) == promotions[p].status = "candidate"
SaveStatus(p, status) ==
    promotions' = [promotions EXCEPT ![p].status = status, ![p].decided = today]
Approve(p) == Decidable(p) /\ SaveStatus(p, "approved") /\ UNCHANGED today
Reject(p) == Decidable(p) /\ SaveStatus(p, "rejected") /\ UNCHANGED today

\* expireStaleCandidates, whenever somebody calls it.
MutStale(p) == promotions[p].status = "candidate" /\ promotions[p].expires <= today
Stale(p) == promotions[p].status = "candidate" /\ promotions[p].expires < today
ExpireStale ==
    /\ promotions' = [p \in Promotions |->
           IF Stale(p) THEN [promotions[p] EXCEPT !.status = "expired", !.decided = today] ELSE promotions[p]]
    /\ UNCHANGED today

NextDay == today < MaxDay /\ today' = today + 1 /\ UNCHANGED promotions

PromotionNext ==
    \/ \E p \in Promotions : Submit(p) \/ Approve(p) \/ Reject(p)
    \/ ExpireStale \/ NextDay
PromotionSpec == PromotionInit /\ [][PromotionNext]_promotionVars
-----------------------------------------------------------------------------

\* A decision is final: what was approved, rejected or expired stays so, with
\* its date (approvePromotion and rejectPromotion refuse it as immutable).
DecisionFinal ==
    [][\A p \in Promotions :
          promotions[p].status \in {"approved", "rejected", "expired"} =>
              promotions'[p] = promotions[p]]_promotionVars

\* Nobody loses the chance to decide early: a promotion expires only after its
\* whole term (expireStaleCandidates).
ExpiresAfterTerm ==
    \A p \in Promotions : promotions[p].status = "expired" =>
        promotions[p].decided > promotions[p].submitted + TtlDays
=============================================================================
