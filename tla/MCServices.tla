----------------------------- MODULE MCServices -----------------------------
(***************************************************************************)
(* The services that share no row with each other, visited in turn by one  *)
(* run: the initial state chooses whose steps the behaviour takes, and the *)
(* variables of the others stay as they are.                               *)
(***************************************************************************)
EXTENDS CharacterFrames, ConnectorEvolution, ToolRoutines, StateDatabase,
        WriteQueue, BehaviorPromotion, ActionPolicy, CircuitBreaker, OwnerGoals
CONSTANTS d1, d2, n1, n2, h1, h2, p1, p2, b1, b2, c1, c2, c3, o1, o2, g1, g2

VARIABLE subject

serviceVars ==
    <<subject, frameVars, evolutionVars, routineVars, databaseVars, queueVars, promotionVars, policyVars, goalVars, vars>>

ServicesInit ==
    /\ subject \in {"frames", "evolution", "routines", "database", "queue", "promotions", "policy", "goals", "breaker"}
    /\ FramesInit /\ EvolutionInit /\ RoutinesInit /\ DatabaseInit /\ QueueInit
    /\ PromotionInit /\ PolicyInit /\ GoalsInit /\ Init
    /\ subject # "database" => file.version = Latest
    /\ subject # "goals" => goals = [g \in Goals |-> NoGoal]

ServicesNext ==
    /\ UNCHANGED subject
    /\ \/ /\ subject = "frames" /\ FramesNext
          /\ UNCHANGED <<evolutionVars, routineVars, databaseVars, queueVars, promotionVars, policyVars, goalVars, vars>>
       \/ /\ subject = "evolution" /\ EvolutionNext
          /\ UNCHANGED <<frameVars, routineVars, databaseVars, queueVars, promotionVars, policyVars, goalVars, vars>>
       \/ /\ subject = "routines" /\ RoutinesNext
          /\ UNCHANGED <<frameVars, evolutionVars, databaseVars, queueVars, promotionVars, policyVars, goalVars, vars>>
       \/ /\ subject = "database" /\ DatabaseNext
          /\ UNCHANGED <<frameVars, evolutionVars, routineVars, queueVars, promotionVars, policyVars, goalVars, vars>>
       \/ /\ subject = "queue" /\ QueueNext
          /\ UNCHANGED <<frameVars, evolutionVars, routineVars, databaseVars, promotionVars, policyVars, goalVars, vars>>
       \/ /\ subject = "promotions" /\ PromotionNext
          /\ UNCHANGED <<frameVars, evolutionVars, routineVars, databaseVars, queueVars, policyVars, goalVars, vars>>
       \/ /\ subject = "policy" /\ PolicyNext
          /\ UNCHANGED <<frameVars, evolutionVars, routineVars, databaseVars, queueVars, promotionVars, goalVars, vars>>
       \/ /\ subject = "breaker" /\ Next
          /\ UNCHANGED <<frameVars, evolutionVars, routineVars, databaseVars, queueVars, promotionVars, policyVars, goalVars>>
       \/ /\ subject = "goals" /\ GoalsNext
          /\ UNCHANGED <<frameVars, evolutionVars, routineVars, databaseVars, queueVars, promotionVars, policyVars, vars>>

ServicesSpec == ServicesInit /\ [][ServicesNext]_serviceVars /\ WF_vars(Elapse)
-----------------------------------------------------------------------------
\* The types of every service's variables.
ServicesTypeOK ==
    /\ FramesTypeOK /\ EvolutionTypeOK /\ RoutinesTypeOK /\ DatabaseTypeOK
    /\ QueueTypeOK /\ GoalsTypeOK /\ TypeOK

\* What the owner decided stands: a frame that was rejected or retired speaks
\* again only by a call that had read it before, a decision about a promotion is
\* not taken back, nobody's time to decide is cut short, and the goal chosen last
\* is the one the heartbeat reads.
DecisionsStand == SilencedStays /\ DecisionFinal /\ []ExpiresAfterTerm /\ []LatestCounts

=============================================================================
