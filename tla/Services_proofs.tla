---------------------------- MODULE Services_proofs ----------------------------
(***************************************************************************)
(* Proofs about the services that run by themselves: the write queue, for  *)
(* any number of requests and retries; the action policies, for any sets   *)
(* of capabilities; behaviour promotions, for any number of promotions and *)
(* days; the tool routines, for any capabilities, callers and calls; the   *)
(* owner's goals, for any number of commands, goals and snapshots; the     *)
(* circuit breaker, for any threshold and clients; the state database, for *)
(* any migrations, processes and openings; the character frames, for any   *)
(* number of editors and frames; and the evolution of a connector, for any *)
(* number of engines and versions.                                         *)
(***************************************************************************)
EXTENDS MCServices, NaturalFacts, SequenceTheorems, FiniteSetTheorems, TLAPS

-----------------------------------------------------------------------------
\* The requests are numbered as they come, and every number is somewhere: the
\* answered ones first, then the executed one, then the waiting ones.
InHand == IF executing = 0 THEN 0 ELSE 1

QueueShape ==
    /\ submitted \in 0..MaxRequests /\ executing \in Nat /\ attempt \in 0..MaxRetries
    /\ processing \in BOOLEAN /\ inside \in BOOLEAN
    /\ waiting \in Seq(Nat) /\ committed \in Seq(1..MaxRequests)
    /\ answers \in Seq([request : Nat, ok : BOOLEAN])
    /\ inside => executing # 0
    /\ executing # 0 => executing = Len(answers) + 1
    /\ \A i \in DOMAIN waiting : waiting[i] = Len(answers) + InHand + i

QueueInv == QueueShape /\ QueueAnswers

LEMMA QueueStarts == QueueInit => QueueInv
<1> SUFFICES ASSUME QueueInit PROVE QueueInv
  OBVIOUS
<1>1. /\ waiting = <<>> /\ committed = <<>> /\ answers = <<>>
      /\ submitted = 0 /\ executing = 0 /\ attempt = 0 /\ processing = FALSE /\ inside = FALSE
  BY DEF QueueInit
<1>2. /\ waiting \in Seq(Nat) /\ committed \in Seq(1..MaxRequests)
      /\ answers \in Seq([request : Nat, ok : BOOLEAN]) /\ DOMAIN waiting = {}
  BY <1>1, EmptySeq
<1>3. submitted \in 0..MaxRequests /\ executing \in Nat /\ attempt \in 0..MaxRetries
  BY <1>1, QueueAssumption
<1>4. QueueShape
  BY <1>1, <1>2, <1>3 DEF QueueShape
<1>5. QueueAnswers
  BY DEF QueueInit, QueueAnswers, AnsweredInOrder, OkMeansCommitted
<1> QED
  BY <1>4, <1>5 DEF QueueInv

\* An answer to the request in execution: "ok" with its commit, or neither.
LEMMA AnswerKeeps ==
    ASSUME QueueInv, executing # 0, NEW good \in BOOLEAN,
           answers' = Append(answers, [request |-> executing, ok |-> good]),
           executing' = 0, inside' = FALSE, attempt' = attempt,
           UNCHANGED <<waiting, processing, submitted>>,
           committed' = IF good THEN Append(committed, executing) ELSE committed
    PROVE  QueueInv'
<1> DEFINE new == [request |-> executing, ok |-> good]
           n == Len(answers)
           c == Len(committed)
<1>1. /\ answers \in Seq([request : Nat, ok : BOOLEAN]) /\ waiting \in Seq(Nat)
      /\ committed \in Seq(1..MaxRequests) /\ n \in Nat /\ executing = n + 1 /\ Len(waiting) \in Nat
      /\ c \in Nat /\ submitted \in 0..MaxRequests
      /\ n + 1 + Len(waiting) = submitted /\ MaxRequests \in Nat
  BY QueueAssumption, LenProperties DEF QueueInv, QueueShape, QueueAnswers, AnsweredInOrder, InHand
<1>2. /\ new \in [request : Nat, ok : BOOLEAN] /\ executing \in 1..MaxRequests
      /\ new.request = n + 1 /\ new.ok = good
  BY <1>1
<1> HIDE DEF new
<1>3. /\ answers' \in Seq([request : Nat, ok : BOOLEAN]) /\ Len(answers') = n + 1
      /\ DOMAIN answers' = 1..(n + 1) /\ DOMAIN answers = 1..n
      /\ \A i \in 1..n : answers'[i] = answers[i]
      /\ answers'[n + 1] = new
  BY <1>1, <1>2, AppendProperties, LenProperties DEF new
<1>4. /\ committed' \in Seq(1..MaxRequests) /\ DOMAIN committed = 1..c
      /\ \A k \in 1..c : committed'[k] = committed[k]
      /\ good => DOMAIN committed' = 1..(c + 1) /\ committed'[c + 1] = n + 1
      /\ ~good => committed' = committed
  <2>1. DOMAIN committed = 1..c
    BY <1>1, LenProperties
  <2>2. CASE good
    <3> DEFINE Ids == 1..MaxRequests
    <3>1. committed' = Append(committed, executing) /\ committed \in Seq(Ids) /\ executing \in Ids
      BY <1>1, <1>2, <2>2
    <3> HIDE DEF Ids
    <3>2. /\ committed' \in Seq(Ids) /\ Len(committed') = Len(committed) + 1
          /\ \A k \in 1..Len(committed) : committed'[k] = committed[k]
          /\ committed'[Len(committed) + 1] = executing
      BY <3>1, AppendProperties
    <3>3. DOMAIN committed' = 1..Len(committed')
      BY <3>2, LenProperties
    <3> QED
      BY <1>1, <2>1, <2>2, <3>2, <3>3 DEF Ids
  <2>3. CASE ~good
    BY <1>1, <2>1, <2>3
  <2> QED
    BY <2>2, <2>3
<1>5. QueueShape'
  <2>1. InHand = 1 /\ InHand' = 0
    BY DEF InHand
  <2>2. \A i \in DOMAIN waiting' : waiting'[i] = Len(answers') + 0 + i
    <3>1. \A i \in DOMAIN waiting : i \in Nat /\ waiting[i] = n + 1 + i
      BY <1>1, <2>1, LenProperties DEF QueueInv, QueueShape
    <3> QED
      BY <1>1, <1>3, <3>1
  <2> QED
    BY <1>3, <1>4, <2>1, <2>2 DEF QueueInv, QueueShape
<1> HIDE DEF n, c
<1>6. AnsweredInOrder'
  <2>1. \A i \in DOMAIN answers' : answers'[i].request = i
    BY <1>1, <1>2, <1>3 DEF QueueInv, QueueAnswers, AnsweredInOrder
  <2>2. Len(answers') + 0 + Len(waiting') = submitted'
    <3>1. Len(answers') = n + 1 /\ waiting' = waiting /\ submitted' = submitted
      BY <1>3
    <3>2. n + 1 + 0 + Len(waiting) = submitted
      BY <1>1
    <3> QED
      BY <3>1, <3>2
  <2> QED
    BY <2>1, <2>2 DEF AnsweredInOrder
<1>7. \A k \in DOMAIN committed : committed[k] \in 1..n
  BY <1>3 DEF QueueInv, QueueAnswers, OkMeansCommitted
<1>8. \A i \in DOMAIN answers : answers[i].request = i
  BY DEF QueueInv, QueueAnswers, AnsweredInOrder
<1>9. OkMeansCommitted'
  <2>1. ASSUME NEW i \in DOMAIN answers'
        PROVE  answers'[i].ok <=> \E k \in DOMAIN committed' : committed'[k] = answers'[i].request
    <3>1. CASE i \in 1..n
      <4>1. answers'[i] = answers[i] /\ i \in DOMAIN answers /\ answers[i].request = i /\ i # n + 1
        BY <1>1, <1>3, <1>8, <3>1
      <4>2. answers[i].ok <=> \E k \in DOMAIN committed : committed[k] = i
        BY <4>1 DEF QueueInv, QueueAnswers, OkMeansCommitted
      <4>3. (\E k \in DOMAIN committed' : committed'[k] = i) <=> \E k \in DOMAIN committed : committed[k] = i
        BY <1>1, <1>4, <4>1, SMTT(30)
      <4> QED
        BY <4>1, <4>2, <4>3
    <3>2. CASE i = n + 1
      <4>1. answers'[i].ok = good /\ answers'[i].request = n + 1
        BY <1>2, <1>3, <3>2
      <4>2. good => c + 1 \in DOMAIN committed' /\ committed'[c + 1] = n + 1
        BY <1>1, <1>4
      <4>3. ~good => \A k \in DOMAIN committed' : committed'[k] # n + 1
        BY <1>1, <1>4, <1>7
      <4> QED
        BY <4>1, <4>2, <4>3
    <3> QED
      BY <1>1, <1>3, <2>1, <3>1, <3>2
  <2>2. \A k, l \in DOMAIN committed' : k < l => committed'[k] < committed'[l]
    <3>1. \A k, l \in DOMAIN committed : k < l => committed[k] < committed[l]
      BY DEF QueueInv, QueueAnswers, OkMeansCommitted
    <3>2. CASE good
      <4>1. \A k \in DOMAIN committed : committed[k] < n + 1
        BY <1>1, <1>7
      <4>2. /\ DOMAIN committed = 1..c /\ DOMAIN committed' = 1..(c + 1) /\ committed'[c + 1] = n + 1
            /\ \A k \in 1..c : committed'[k] = committed[k]
        BY <1>1, <1>4, <3>2, LenProperties
      <4>3. ASSUME NEW k \in 1..(c + 1), NEW l \in 1..(c + 1), k < l PROVE committed'[k] < committed'[l]
        <5>1. k \in 1..c /\ (l \in 1..c \/ l = c + 1)
          BY <1>1, <4>3
        <5> QED
          BY <3>1, <4>1, <4>2, <4>3, <5>1
      <4> QED
        BY <4>2, <4>3
    <3>3. CASE ~good
      BY <1>4, <3>1, <3>3
    <3> QED
      BY <3>2, <3>3
  <2>3. \A k \in DOMAIN committed' : committed'[k] \in DOMAIN answers'
    BY <1>1, <1>3, <1>4, <1>7
  <2> QED
    BY <2>1, <2>2, <2>3 DEF OkMeansCommitted
<1> QED
  BY <1>5, <1>6, <1>9 DEF QueueInv, QueueAnswers

LEMMA QueueStep == ASSUME QueueInv, [QueueNext]_queueVars PROVE QueueInv'
<1>1. /\ waiting \in Seq(Nat) /\ Len(waiting) \in Nat /\ DOMAIN waiting = 1..Len(waiting)
      /\ Len(answers) \in Nat /\ submitted \in 0..MaxRequests /\ MaxRequests \in Nat /\ MaxRetries \in Nat
      /\ executing \in Nat /\ attempt \in 0..MaxRetries
      /\ Len(answers) + InHand + Len(waiting) = submitted
  BY QueueAssumption, LenProperties DEF QueueInv, QueueShape, QueueAnswers, AnsweredInOrder, InHand
<1> DEFINE n == Len(answers)
<1>9. InHand \in Nat /\ \A i \in 1..Len(waiting) : waiting[i] = n + InHand + i
  BY <1>1 DEF QueueInv, QueueShape, InHand
<1>2. CASE Enqueue
  <2>1. /\ waiting' = Append(waiting, submitted + 1) /\ submitted' = submitted + 1 /\ submitted < MaxRequests
        /\ processing' = TRUE /\ UNCHANGED <<executing, attempt, inside, committed, answers>>
    BY <1>2 DEF Enqueue
  <2>2. /\ waiting' \in Seq(Nat) /\ Len(waiting') = Len(waiting) + 1
        /\ DOMAIN waiting' = 1..(Len(waiting) + 1)
        /\ \A i \in 1..Len(waiting) : waiting'[i] = waiting[i]
        /\ waiting'[Len(waiting) + 1] = submitted + 1
    BY <1>1, <2>1, AppendProperties, LenProperties
  <2>3. InHand' = InHand
    BY <2>1 DEF InHand
  <2>4. \A i \in DOMAIN waiting' : waiting'[i] = Len(answers) + InHand + i
    <3>1. submitted + 1 = n + InHand + (Len(waiting) + 1)
      BY <1>1, <1>9
    <3>2. \A i \in DOMAIN waiting' : i \in 1..Len(waiting) \/ i = Len(waiting) + 1
      BY <1>1, <2>2
    <3> QED
      BY <1>9, <2>2, <3>1, <3>2
  <2>5. QueueShape'
    BY <1>1, <2>1, <2>2, <2>3, <2>4 DEF QueueInv, QueueShape
  <2>6. Len(answers') + InHand' + Len(waiting') = submitted'
    <3>1. n + InHand + (Len(waiting) + 1) = submitted + 1
      BY <1>1, <1>9
    <3> QED
      BY <2>1, <2>2, <2>3, <3>1
  <2>7. QueueAnswers'
    BY <2>1, <2>6 DEF QueueInv, QueueAnswers, AnsweredInOrder, OkMeansCommitted, InHand
  <2> QED
    BY <2>5, <2>7 DEF QueueInv
<1>3. CASE Take
  <2>1. /\ executing = 0 /\ waiting # <<>> /\ executing' = waiting[1] /\ waiting' = Tail(waiting)
        /\ attempt' = 0 /\ UNCHANGED <<processing, inside, committed, answers, submitted>>
    BY <1>3 DEF Take, Taken
  <2>2. /\ waiting' \in Seq(Nat) /\ Len(waiting') = Len(waiting) - 1 /\ Len(waiting) # 0
        /\ DOMAIN waiting' = 1..(Len(waiting) - 1)
        /\ \A i \in 1..(Len(waiting) - 1) : waiting'[i] = waiting[i + 1]
    BY <1>1, <2>1, HeadTailProperties, EmptySeq, LenProperties
  <2>3. InHand = 0 /\ 1 \in DOMAIN waiting
    BY <1>1, <2>1, <2>2 DEF InHand
  <2>4. waiting[1] = Len(answers) + 1 /\ InHand' = 1
    <3>1. waiting[1] = n + 0 + 1
      BY <1>1, <1>9, <2>3
    <3>2. executing' # 0
      BY <1>1, <2>1, <3>1
    <3> QED
      BY <1>1, <3>1, <3>2 DEF InHand
  <2>5. \A i \in DOMAIN waiting' : waiting'[i] = Len(answers) + 1 + i
    <3>1. \A i \in 1..(Len(waiting) - 1) : i + 1 \in 1..Len(waiting) /\ n + 0 + (i + 1) = n + 1 + i
      BY <1>1
    <3> QED
      BY <1>9, <2>2, <2>3, <3>1
  <2>6. QueueShape'
    BY <1>1, <2>1, <2>2, <2>4, <2>5 DEF QueueInv, QueueShape
  <2>7. QueueAnswers'
    BY <1>1, <2>1, <2>2, <2>3, <2>4 DEF QueueInv, QueueAnswers, AnsweredInOrder, OkMeansCommitted
  <2> QED
    BY <2>6, <2>7 DEF QueueInv
<1>4. CASE Stop
  BY <1>4 DEF Stop, QueueInv, QueueShape, QueueAnswers, AnsweredInOrder, OkMeansCommitted, InHand
<1>5. CASE ExecuteRequest
  BY <1>5 DEF ExecuteRequest, QueueInv, QueueShape, QueueAnswers, AnsweredInOrder, OkMeansCommitted, InHand
<1>6. CASE CommitRequest
  <2>1. executing # 0
    BY <1>6 DEF CommitRequest, QueueInv, QueueShape
  <2> QED
    BY <1>6, <2>1, AnswerKeeps DEF CommitRequest
<1>7. CASE Throw
  <2>1. /\ executing # 0 /\ inside' = FALSE
        /\ UNCHANGED <<waiting, processing, committed, submitted>>
        /\ (MayRetry /\ Again) \/ GiveUp
    BY <1>7 DEF Throw
  <2>2. CASE MayRetry /\ Again
    <3>1. attempt' \in 0..MaxRetries
      BY <1>1, <2>2 DEF MayRetry, Again
    <3> QED
      BY <2>1, <2>2, <3>1 DEF Again, QueueInv, QueueShape, QueueAnswers, AnsweredInOrder, OkMeansCommitted, InHand
  <2>3. CASE GiveUp
    BY <2>1, <2>3, AnswerKeeps DEF GiveUp
  <2> QED
    BY <2>1, <2>2, <2>3
<1>8. CASE UNCHANGED queueVars
  BY <1>8 DEF queueVars, QueueInv, QueueShape, QueueAnswers, AnsweredInOrder, OkMeansCommitted, InHand
<1> QED
  BY <1>2, <1>3, <1>4, <1>5, <1>6, <1>7, <1>8 DEF QueueNext

\* Every request is answered once, in the order of submission, and "ok" exactly
\* when its transaction committed, for any number of requests and retries
\* (enqueue, drain, executeWithRetry).
THEOREM QueueAnswersAll == QueueSpec => []QueueAnswers
<1>1. QueueInit => QueueInv
  BY QueueStarts
<1>2. QueueInv /\ [QueueNext]_queueVars => QueueInv'
  BY QueueStep
<1>3. QueueInv => QueueAnswers
  BY DEF QueueInv
<1> QED
  BY <1>1, <1>2, <1>3, PTL DEF QueueSpec

-----------------------------------------------------------------------------
\* What the builders make: v8 never proposes a routine, and v9 rates what it
\* proposes by the effect of its kind.
WellBuilt(p) ==
    \/ p.version = "v8" /\ p.kind \in Kinds \ {"routine"}
    \/ /\ p.version = "v9" /\ p.kind \in Kinds
       /\ \E highSignal \in BOOLEAN : p.risk = RiskPosture(p.kind, highSignal)

Verdict(p, c) == IF p.version = "v8" THEN EvaluateV8(p, c) ELSE EvaluateV9(p, c)

\* The decision is the evaluation of the proposal, and the outcome follows it.
PolicyInv ==
    \/ /\ progress \in {"intent", "ended"}
       /\ decision = NoDecision /\ outcome = NoOutcome
    \/ /\ progress = "proposed" /\ WellBuilt(proposal)
       /\ decision = NoDecision /\ outcome = NoOutcome
    \/ /\ progress \in {"decided", "dispatched", "gated"} /\ WellBuilt(proposal) /\ context \in Context
       /\ decision = Verdict(proposal, context) /\ outcome.flags \subseteq OwnerFlags
       /\ \/ outcome = NoOutcome
          \/ outcome.flags = {} /\ (\/ outcome.result = "guidance_unavailable"
                                    \/ outcome.result = DispatchedAs(proposal.kind, decision))
          \/ outcome.result = Gate(outcome.intent, decision.verdict, outcome.flags)
          \/ outcome.result = Gate(outcome.intent, "missing", outcome.flags)

LEMMA PolicyStep == ASSUME PolicyInv, [PolicyNext]_policyVars PROVE PolicyInv'
<1>1. CASE Propose
  <2>1. progress = "intent" /\ decision = NoDecision /\ outcome = NoOutcome
    BY <1>1 DEF Propose, PolicyInv
  <2>2. ASSUME NEW kind \in Kinds, NEW risk \in Risks, Propose8(kind, risk) PROVE PolicyInv'
    <3>1. proposal'.version = "v8" /\ proposal'.kind = kind /\ kind # "routine"
      BY <2>2 DEF Propose8, NoProposal
    <3> QED
      BY <2>1, <2>2, <3>1 DEF Propose8, PolicyInv, WellBuilt
  <2>3. ASSUME NEW kind \in Kinds, NEW highSignal \in BOOLEAN, NEW routine \in Routine,
               Propose9(kind, highSignal, routine)
        PROVE  PolicyInv'
    <3>1. /\ proposal'.version = "v9" /\ proposal'.kind = kind
          /\ proposal'.risk = RiskPosture(kind, highSignal)
      BY <2>3 DEF Propose9
    <3> QED
      BY <2>1, <2>3, <3>1 DEF Propose9, PolicyInv, WellBuilt
  <2>4. CASE NoAction
    BY <2>1, <2>4 DEF NoAction, PolicyInv
  <2> QED
    BY <1>1, <2>2, <2>3, <2>4 DEF Propose
<1>2. ASSUME NEW c \in Context, Evaluate(c) PROVE PolicyInv'
  <2>1. /\ progress = "proposed" /\ progress' = "decided" /\ context' = c
        /\ decision' = Verdict(proposal, c) /\ UNCHANGED <<proposal, outcome>>
    BY <1>2 DEF Evaluate, Verdict
  <2>2. WellBuilt(proposal) /\ outcome = NoOutcome /\ outcome.flags \subseteq OwnerFlags
    BY <2>1 DEF PolicyInv, NoOutcome
  <2> QED
    BY <2>1, <2>2 DEF PolicyInv
<1>3. ASSUME NEW guidanceAvailable \in BOOLEAN, DispatchAllowed(guidanceAvailable) PROVE PolicyInv'
  <2>1. /\ progress = "decided" /\ progress' = "dispatched" /\ UNCHANGED <<proposal, context, decision>>
        /\ outcome'.flags = {}
        /\ \/ outcome'.result = "guidance_unavailable"
           \/ outcome'.result = DispatchedAs(proposal.kind, decision)
    BY <1>3 DEF DispatchAllowed, NoOutcome
  <2> QED
    BY <2>1 DEF PolicyInv
<1>4. ASSUME NEW intent \in Intents, NEW proof \in BOOLEAN, NEW flags \in SUBSET OwnerFlags,
             GateWrite(intent, proof, flags)
      PROVE  PolicyInv'
  <2>1. /\ progress = "decided" /\ progress' = "gated" /\ UNCHANGED <<proposal, context, decision>>
        /\ outcome'.flags = flags /\ outcome'.intent = intent /\ flags \subseteq OwnerFlags
        /\ \/ outcome'.result = Gate(intent, decision.verdict, flags)
           \/ outcome'.result = Gate(intent, "missing", flags)
    BY <1>4 DEF GateWrite
  <2> QED
    BY <2>1 DEF PolicyInv
<1>5. CASE UNCHANGED policyVars
  BY <1>5 DEF policyVars, PolicyInv
<1> QED
  BY <1>1, <1>2, <1>3, <1>4, <1>5 DEF PolicyNext

\* What each policy allows.
LEMMA AllowedV8 ==
    ASSUME NEW p, NEW c, EvaluateV8(p, c).verdict = "allow", IsWrite(p.kind)
    PROVE  p.risk = "low" /\ c.permitted /\ c.preferred /\ ~c.open
<1>1. Decided("deny").verdict = "deny" /\ Decided("defer").verdict = "defer"
  BY DEF Decided
<1>2. Downgraded(p.kind).verdict \in {"deny", "downgrade"}
  BY <1>1 DEF Downgraded
<1> HIDE DEF Decided, Downgraded
<1>3. (IsWrite(p.kind) => c.permitted /\ c.preferred) /\ CanAutoRun(p.kind, p.risk) /\ ~c.open
  BY <1>1, <1>2 DEF EvaluateV8
<1> QED
  BY <1>3 DEF CanAutoRun, IsWrite

LEMMA AllowedV9 ==
    ASSUME NEW p, NEW c, p.kind \in Kinds, EvaluateV9(p, c).verdict = "allow", IsWrite(p.kind),
           NEW highSignal \in BOOLEAN, p.risk = RiskPosture(p.kind, highSignal)
    PROVE  p.risk = "low" /\ c.permitted /\ c.preferred /\ ~c.open /\ p.kind = "run_connector"
<1>1. Effect[p.kind] # "routine" /\ Effect[p.kind] \in {"external_write", "capability_declared"}
  BY DEF IsWrite
<1>2. p.risk # "high" /\ c.permitted /\ c.preferred /\ ~c.open
      /\ ~(Effect[p.kind] = "external_write" /\ p.risk = "medium")
  BY <1>1 DEF EvaluateV9, Decided, Downgraded
<1>3. p.risk = IF Effect[p.kind] \in {"external_write", "routine"} THEN "medium" ELSE "low"
  BY <1>2 DEF RiskPosture
<1>4. Effect[p.kind] = "capability_declared"
  BY <1>1, <1>2, <1>3
<1>5. p.kind = "run_connector"
  BY <1>4 DEF Effect, Kinds
<1> QED
  BY <1>1, <1>2, <1>3, <1>4, <1>5

LEMMA AllowedRoutine ==
    ASSUME NEW p, NEW c, p.kind = "routine", EvaluateV9(p, c).verdict = "allow"
    PROVE  LET r == p.routine
           IN  /\ c.active /\ ~r.confirm /\ WithinTriggers(r)
               /\ r.ceiling = "external_write" => c.permitted /\ ~c.open /\ c.preferred
<1> DEFINE r == p.routine
<1>1. Decided("deny").verdict = "deny" /\ Downgraded(p.kind).verdict \in {"deny", "downgrade"}
  BY DEF Decided, Downgraded
<1>2. Effect[p.kind] = "routine"
  BY DEF Effect
<1>3. EvaluateRoutine(p, c).verdict = "allow"
  BY <1>1, <1>2 DEF EvaluateV9
<1>4. /\ c.active /\ r.parsed /\ WithinTriggers(r)
      /\ ~(r.ceiling = "external_write" /\ ~(c.permitted /\ ~c.open /\ c.preferred))
      /\ ~r.confirm
  BY <1>1, <1>3 DEF EvaluateRoutine
<1> QED
  BY <1>4

\* What a downgrade leads to reaches no platform.
LEMMA DowngradeMild ==
    ASSUME NEW p, NEW c, p.kind \in Kinds, Verdict(p, c).verdict = "downgrade"
    PROVE  Effect[Verdict(p, c).to] \in {"local_state", "owner_attention"}
<1>1. Decided("deny").verdict = "deny" /\ Decided("defer").verdict = "defer" /\ Decided("allow").verdict = "allow"
  BY DEF Decided
<1>2. Verdict(p, c) = Downgraded(p.kind)
  BY <1>1 DEF Verdict, EvaluateV8, EvaluateV9, EvaluateRoutine
<1>3. DowngradeTarget[p.kind] # "none" /\ Verdict(p, c).to = DowngradeTarget[p.kind]
  BY <1>1, <1>2 DEF Downgraded
<1>4. DowngradeTarget[p.kind] \in {"none", "watch", "draft_reply", "draft_publish", "notify_owner"}
  BY DEF DowngradeTarget
<1> QED
  BY <1>3, <1>4 DEF Effect

\* No step of the path from an intent to a platform lets through what another
\* one, or the owner, forbids, for any sets of capabilities (evaluateActionPolicy,
\* evaluateV9ActionPolicy, evaluateRoutineGuard, dispatchPolicyBoundWrite).
THEOREM PolicyIsRespected == PolicySpec => []PolicyRespected
<1>1. PolicyInit => PolicyInv
  BY DEF PolicyInit, PolicyInv
<1>2. PolicyInv /\ [PolicyNext]_policyVars => PolicyInv'
  BY PolicyStep
<1>3. ASSUME PolicyInv PROVE PolicyRespected
  <2>1. NoDecision.verdict = "none" /\ NoOutcome.result = "none"
    BY DEF NoDecision, NoOutcome
  <2>2. CASE decision = NoDecision /\ outcome = NoOutcome
    BY <2>1, <2>2 DEF PolicyRespected, WritesNeedConsent, DowngradesAreMild, RoutineWithinProvenance, WritesConfirmed
  <2>3. CASE /\ WellBuilt(proposal) /\ context \in Context /\ decision = Verdict(proposal, context)
             /\ outcome.flags \subseteq OwnerFlags
             /\ \/ outcome = NoOutcome
                \/ outcome.flags = {} /\ (\/ outcome.result = "guidance_unavailable"
                                          \/ outcome.result = DispatchedAs(proposal.kind, decision))
                \/ outcome.result = Gate(outcome.intent, decision.verdict, outcome.flags)
                \/ outcome.result = Gate(outcome.intent, "missing", outcome.flags)
    <3>1. WritesNeedConsent
      <4> SUFFICES ASSUME decision.verdict = "allow", IsWrite(proposal.kind)
                   PROVE  /\ proposal.risk = "low" /\ context.permitted /\ context.preferred /\ ~context.open
                          /\ proposal.version = "v9" => proposal.kind = "run_connector"
        BY DEF WritesNeedConsent
      <4>1. CASE proposal.version = "v8"
        BY <2>3, <4>1, AllowedV8 DEF Verdict
      <4>2. CASE proposal.version = "v9"
        BY <2>3, <4>2, AllowedV9 DEF Verdict, WellBuilt
      <4> QED
        BY <2>3, <4>1, <4>2 DEF WellBuilt
    <3>2. /\ outcome.result = "connector" => decision.verdict = "allow"
          /\ outcome.result = "executed" /\ IsWriteCapability(outcome.intent) => decision.verdict = "allow"
      BY <2>1, <2>3 DEF DispatchedAs, Gate, ProofValid
    <3>3. DowngradesAreMild
      BY <2>3, <3>2, DowngradeMild DEF DowngradesAreMild, WellBuilt
    <3>4. RoutineWithinProvenance
      <4> DEFINE r == proposal.routine
      <4> SUFFICES ASSUME decision.verdict = "allow", proposal.kind = "routine"
                   PROVE  /\ context.active /\ ~r.confirm /\ r.target \notin r.denied
                          /\ r.target # "none" => r.allowed \subseteq r.triggers /\ r.allowed \cap r.denied = {}
                          /\ r.ceiling = "external_write" =>
                                 /\ Reach(r) \cap WriteCapabilities # {}
                                 /\ context.permitted /\ context.preferred /\ ~context.open
        BY DEF RoutineWithinProvenance
      <4>1. /\ context.active /\ ~r.confirm /\ WithinTriggers(r)
            /\ r.ceiling = "external_write" => context.permitted /\ ~context.open /\ context.preferred
        BY <2>3, AllowedRoutine DEF WellBuilt, Verdict
      <4>2. /\ r.target # "none" => r.allowed \subseteq r.triggers
            /\ r.denied \cap (r.triggers \cup {r.target}) = {}
            /\ Rank[r.ceiling] <= Rank[TriggerClass(r)]
        BY <4>1 DEF WithinTriggers
      <4>3. r.ceiling = "external_write" => Reach(r) \cap WriteCapabilities # {}
        <5> SUFFICES ASSUME r.ceiling = "external_write", Reach(r) \cap WriteCapabilities = {} PROVE FALSE
          OBVIOUS
        <5>1. TriggerClass(r) \in {"none", "owner_attention"}
          BY DEF TriggerClass
        <5> QED
          BY <4>2, <5>1 DEF Rank
      <4> QED
        BY <4>1, <4>2, <4>3
    <3>5. WritesConfirmed
      <4> SUFFICES ASSUME outcome.result = "executed", IsWriteCapability(outcome.intent)
                   PROVE  /\ decision.verdict = "allow"
                          /\ "confirmed" \in outcome.flags /\ "dryRun" \notin outcome.flags
        BY DEF WritesConfirmed
      <4>1. Gate(outcome.intent, decision.verdict, outcome.flags) = "executed"
        BY <2>1, <2>3 DEF DispatchedAs, Gate, ProofValid
      <4> QED
        BY <2>3, <3>2, <4>1 DEF Gate, ProofValid, OwnerFlags
    <3> QED
      BY <3>1, <3>3, <3>4, <3>5 DEF PolicyRespected
  <2> QED
    BY <1>3, <2>2, <2>3 DEF PolicyInv
<1> QED
  BY <1>1, <1>2, <1>3, PTL DEF PolicySpec

-----------------------------------------------------------------------------
PromotionInv ==
    /\ today \in Nat /\ DOMAIN promotions = Promotions
    /\ \A p \in Promotions :
           /\ {"status", "submitted", "expires", "decided"} \subseteq DOMAIN promotions[p]
           /\ promotions[p].status = "candidate" => promotions[p].expires = promotions[p].submitted + TtlDays
           /\ promotions[p].status = "expired" =>
                  promotions[p].decided > promotions[p].submitted + TtlDays

\* A decided promotion stays as it is, whatever is called next.
Final == \A p \in Promotions :
    promotions[p].status \in {"approved", "rejected", "expired"} => promotions'[p] = promotions[p]

LEMMA PromotionStep ==
    ASSUME PromotionInv, [PromotionNext]_promotionVars
    PROVE  PromotionInv' /\ (Final \/ UNCHANGED promotionVars)
<1>1. ASSUME NEW p \in Promotions, Submit(p) PROVE PromotionInv' /\ Final
  <2> DEFINE new == [status |-> "candidate", submitted |-> today, expires |-> today + TtlDays, decided |-> 0]
  <2>1. /\ promotions[p].status = "absent" /\ today' = today /\ promotions' = [promotions EXCEPT ![p] = new]
    BY <1>1 DEF Submit
  <2>2. /\ new.status = "candidate" /\ new.expires = new.submitted + TtlDays
        /\ {"status", "submitted", "expires", "decided"} \subseteq DOMAIN new
    OBVIOUS
  <2> HIDE DEF new
  <2> QED
    BY <2>1, <2>2 DEF PromotionInv, Final
<1>2. ASSUME NEW p \in Promotions, Approve(p) \/ Reject(p) PROVE PromotionInv' /\ Final
  <2>1. PICK s \in {"approved", "rejected"} :
            promotions' = [promotions EXCEPT ![p] = [promotions[p] EXCEPT !.status = s, !.decided = today]]
    BY <1>2 DEF Approve, Reject, SaveStatus
  <2> DEFINE new == [promotions[p] EXCEPT !.status = s, !.decided = today]
  <2>2. /\ today' = today /\ promotions[p].status = "candidate"
        /\ promotions' = [promotions EXCEPT ![p] = new]
    BY <1>2, <2>1 DEF Approve, Reject, Decidable
  <2>3. new.status = s /\ DOMAIN new = DOMAIN promotions[p]
    BY DEF PromotionInv
  <2> HIDE DEF new
  <2> QED
    BY <2>2, <2>3 DEF PromotionInv, Final
<1>3. ASSUME ExpireStale PROVE PromotionInv' /\ Final
  <2> DEFINE new(p) == [promotions[p] EXCEPT !.status = "expired", !.decided = today]
  <2>1. /\ today' = today /\ DOMAIN promotions' = Promotions
        /\ \A p \in Promotions : promotions'[p] = IF Stale(p) THEN new(p) ELSE promotions[p]
    BY <1>3 DEF ExpireStale
  <2>2. \A p \in Promotions : Stale(p) => promotions[p].status = "candidate" /\ promotions[p].expires < today
    BY DEF Stale
  <2>3. \A p \in Promotions : /\ new(p).status = "expired" /\ new(p).decided = today
                              /\ new(p).submitted = promotions[p].submitted
                              /\ DOMAIN new(p) = DOMAIN promotions[p]
    BY DEF PromotionInv
  <2> HIDE DEF new
  <2> QED
    BY <2>1, <2>2, <2>3 DEF PromotionInv, Final
<1>4. CASE NextDay
  BY <1>4 DEF NextDay, PromotionInv, Final
<1>5. CASE UNCHANGED promotionVars
  BY <1>5 DEF promotionVars, PromotionInv
<1> QED
  BY <1>1, <1>2, <1>3, <1>4, <1>5 DEF PromotionNext

\* An approved, rejected or expired promotion never changes again, and a
\* promotion expires only after its whole term, for any number of promotions
\* and days (approvePromotion, rejectPromotion, expireStaleCandidates).
THEOREM PromotionsStand == PromotionSpec => DecisionFinal /\ []ExpiresAfterTerm
<1>1. PromotionInit => PromotionInv
  BY DEF PromotionInit, PromotionInv, NoPromotion
<1>2. PromotionInv /\ [PromotionNext]_promotionVars => PromotionInv' /\ [Final]_promotionVars
  BY PromotionStep
<1>3. PromotionInv => ExpiresAfterTerm
  BY DEF PromotionInv, ExpiresAfterTerm
<1> QED
  BY <1>1, <1>2, <1>3, PTL DEF PromotionSpec, DecisionFinal, Final

-----------------------------------------------------------------------------
Logged == [kind : {"install", "executed", "denied", "retire"}, routine : Routines]
Ops == {"none", "entering", "linking", "running", "refusing", "retiring", "noting"}
Holding == [Hands -> [op : Ops, routine : Routines \cup {"none"}]]

\* The rows and the hands; a routine is nothing yet or was admitted.
RoutineShape ==
    /\ DOMAIN routines = Routines /\ hands \in Holding
    /\ routineLog \in Seq(Logged) /\ trouble \in [Routines -> SUBSET Troubles]
    /\ \A h \in Hands : hands[h].op # "none" => hands[h].routine \in Routines
    /\ \A r \in Routines : /\ {"status", "linked", "is"} \subseteq DOMAIN routines[r]
                           /\ routines[r].status \in {"absent", "active", "retired"}
                           /\ routines[r].is \in Admitted \cup {NoCandidate}

On(h, r) == hands[h].op # "none" /\ hands[h].routine = r

\* While calls on a routine do not overlap and the store takes its retirement:
\* what a call on it has found is still so when it goes on.
Apart(r) ==
    /\ \A g, h \in Hands : On(g, r) /\ On(h, r) => g = h
    /\ \A h \in Hands : On(h, r) =>
           /\ Entries("retire", r) = {}
           /\ hands[h].op \in {"entering", "linking", "running", "refusing", "retiring"} =>
                  routines[r].status = "active"
           /\ hands[h].op = "noting" => routines[r].status = "retired"
    /\ Entries("retire", r) # {} => routines[r].status = "retired"
    /\ routines[r].status = "absent" => Entries("install", r) = {}
    /\ Entries("retire", r) = {} \/ \E k \in Nat : Entries("retire", r) = {k}
    /\ \A i \in Entries("retire", r), j \in Entries("executed", r) : j < i

\* While no call on it died either, the ledger is behind only by what is at hand.
Told(r) ==
    /\ \/ routines[r].status # "active" \/ Entries("install", r) # {}
       \/ \E h \in Hands : hands[h].op = "entering" /\ hands[h].routine = r
    /\ \/ routines[r].status # "retired" \/ Entries("retire", r) # {}
       \/ \E h \in Hands : hands[h].op = "noting" /\ hands[h].routine = r

Quiet(r) == trouble[r] \subseteq {"death"}
RoutineInv ==
    /\ RoutineShape
    /\ \A r \in Routines : (Quiet(r) => Apart(r)) /\ (trouble[r] = {} => Told(r))

LEMMA LogGrows ==
    ASSUME RoutineShape, NEW r \in Routines, NEW kind \in {"install", "executed", "denied", "retire"},
           Log(kind, r)
    PROVE  /\ routineLog' \in Seq(Logged)
           /\ \A k, q : Entries(k, q)' = IF k = kind /\ q = r THEN Entries(k, q) \cup {Len(routineLog) + 1}
                                         ELSE Entries(k, q)
           /\ \A k, q : Entries(k, q) \subseteq 1..Len(routineLog)
           /\ Len(routineLog) \in Nat
<1> DEFINE new == [kind |-> kind, routine |-> r]
<1>1. new \in Logged /\ routineLog \in Seq(Logged) /\ routineLog' = Append(routineLog, new)
  BY DEF Logged, Log, RoutineShape
<1>2. \A k, q : [kind |-> k, routine |-> q] = new <=> k = kind /\ q = r
  <2> TAKE k, q
  <2>1. ASSUME [kind |-> k, routine |-> q] = new PROVE k = kind /\ q = r
    <3>1. [kind |-> k, routine |-> q].kind = new.kind /\ [kind |-> k, routine |-> q].routine = new.routine
      BY <2>1
    <3> QED
      BY <3>1
  <2> QED
    BY <2>1
<1> HIDE DEF new
<1>3. /\ routineLog' \in Seq(Logged) /\ Len(routineLog') = Len(routineLog) + 1
      /\ \A i \in 1..Len(routineLog) : routineLog'[i] = routineLog[i]
      /\ routineLog'[Len(routineLog) + 1] = new
      /\ Len(routineLog) \in Nat /\ DOMAIN routineLog = 1..Len(routineLog)
  BY <1>1, AppendProperties, LenProperties
<1>4. DOMAIN routineLog' = 1..(Len(routineLog) + 1)
  BY <1>3, LenProperties
<1>5. ASSUME NEW k, NEW q
      PROVE  Entries(k, q)' = IF k = kind /\ q = r THEN Entries(k, q) \cup {Len(routineLog) + 1}
                              ELSE Entries(k, q)
  BY <1>2, <1>3, <1>4 DEF Entries
<1>6. \A k, q : Entries(k, q) \subseteq 1..Len(routineLog)
  BY <1>3 DEF Entries
<1> QED
  BY <1>3, <1>5, <1>6

LEMMA LogStays == ASSUME UNCHANGED routineLog PROVE \A k, q : Entries(k, q)' = Entries(k, q)
  BY DEF Entries

\* A call on one routine leaves what holds of the others.
Untouched(q) ==
    /\ routines'[q].status = routines[q].status /\ trouble'[q] = trouble[q]
    /\ \A k : Entries(k, q)' = Entries(k, q)
    /\ \A g \in Hands : On(g, q) \/ On(g, q)' => hands'[g] = hands[g]

LEMMA Elsewhere ==
    ASSUME RoutineInv, RoutineShape', NEW r \in Routines, \A q \in Routines \ {r} : Untouched(q),
           Quiet(r)' => Apart(r)', trouble'[r] = {} => Told(r)'
    PROVE  RoutineInv'
<1>1. ASSUME NEW q \in Routines \ {r} PROVE (Quiet(q)' => Apart(q)') /\ (trouble'[q] = {} => Told(q)')
  <2>1. Untouched(q)
    OBVIOUS
  <2>2. \A g \in Hands : On(g, q)' <=> On(g, q)
    BY <2>1 DEF Untouched, On
  <2>3. \A g \in Hands : On(g, q) => hands'[g] = hands[g]
    BY <2>1 DEF Untouched
  <2>4. Quiet(q) => Apart(q)
    BY DEF RoutineInv
  <2>5. trouble[q] = {} => Told(q)
    BY DEF RoutineInv
  <2>6. Entries("retire", q)' = Entries("retire", q) /\ Entries("install", q)' = Entries("install", q)
        /\ Entries("executed", q)' = Entries("executed", q)
        /\ routines'[q].status = routines[q].status /\ trouble'[q] = trouble[q]
    BY <2>1 DEF Untouched
  <2>7. Apart(q) => Apart(q)'
    BY <2>2, <2>3, <2>6 DEF Apart
  <2>8. Told(q) => Told(q)'
    <3>1. ASSUME NEW h \in Hands, hands[h].op \in {"entering", "noting"}, hands[h].routine = q
          PROVE  hands'[h] = hands[h]
      BY <2>3, <3>1 DEF On
    <3> QED
      BY <2>6, <3>1 DEF Told
  <2> QED
    BY <2>4, <2>5, <2>6, <2>7, <2>8 DEF Quiet
<1> QED
  BY <1>1 DEF RoutineInv

\* A call that begins without an overlap finds nobody else on the routine.
LEMMA StartsAlone ==
    ASSUME RoutineShape, NEW h \in Hands, NEW op \in Ops \ {"none"}, NEW r \in Routines, StartCall(h, op, r)
    PROVE  /\ hands' \in Holding
           /\ hands'[h].op = op /\ hands'[h].routine = r
           /\ \A g \in Hands \ {h} : hands'[g] = hands[g]
           /\ trouble' \in [Routines -> SUBSET Troubles]
           /\ \A q \in Routines \ {r} : trouble'[q] = trouble[q]
           /\ Quiet(r)' => trouble'[r] = trouble[r] /\ \A g \in Hands : ~On(g, r)
           /\ \A q \in Routines \ {r} : \A g \in Hands : On(g, q) \/ On(g, q)' => hands'[g] = hands[g]
<1>1. /\ hands[h].op = "none" /\ hands' = [hands EXCEPT ![h] = [op |-> op, routine |-> r]]
      /\ IF OnHands(r) THEN Befalls("overlap", r) ELSE UNCHANGED trouble
  BY DEF StartCall
<1>2. [op |-> op, routine |-> r] \in [op : Ops, routine : Routines \cup {"none"}]
  OBVIOUS
<1>3. /\ hands' \in Holding /\ hands'[h].op = op /\ hands'[h].routine = r
      /\ \A g \in Hands \ {h} : hands'[g] = hands[g]
  BY <1>1, <1>2 DEF RoutineShape, Holding
<1>4. CASE OnHands(r)
  <2>1. trouble' = [trouble EXCEPT ![r] = trouble[r] \cup {"overlap"}] /\ trouble \in [Routines -> SUBSET Troubles]
    BY <1>1, <1>4 DEF Befalls, RoutineShape
  <2>2. "overlap" \in Troubles
    BY DEF Troubles
  <2>3. /\ trouble' \in [Routines -> SUBSET Troubles] /\ "overlap" \in trouble'[r]
        /\ \A q \in Routines \ {r} : trouble'[q] = trouble[q]
    BY <2>1, <2>2
  <2>4. ~Quiet(r)'
    BY <2>3 DEF Quiet
  <2>5. \A q \in Routines \ {r} : \A g \in Hands : On(g, q) \/ On(g, q)' => hands'[g] = hands[g]
    BY <1>1, <1>3 DEF On
  <2> QED
    BY <1>3, <2>3, <2>4, <2>5
<1>5. CASE ~OnHands(r)
  <2>1. trouble' = trouble /\ trouble \in [Routines -> SUBSET Troubles] /\ \A g \in Hands : ~On(g, r)
    BY <1>1, <1>5 DEF RoutineShape, OnHands, On
  <2>5. \A q \in Routines \ {r} : \A g \in Hands : On(g, q) \/ On(g, q)' => hands'[g] = hands[g]
    BY <1>1, <1>3 DEF On
  <2> QED
    BY <1>3, <2>1, <2>5
<1> QED
  BY <1>4, <1>5

\* A call that goes on, or ends, stays on its routine, where it is the only one
\* while calls do not overlap.
LEMMA GoesAlone ==
    ASSUME RoutineShape, NEW h \in Hands, hands[h].op # "none", NEW r, r = hands[h].routine,
           \/ \E op \in Ops : hands' = [hands EXCEPT ![h].op = op]
           \/ EndCall(h)
    PROVE  /\ hands' \in Holding /\ r \in Routines
           /\ hands'[h].op = "none" \/ hands'[h].routine = r
           /\ \A g \in Hands \ {h} : hands'[g] = hands[g]
           /\ \A q \in Routines \ {r} : \A g \in Hands : On(g, q) \/ On(g, q)' => hands'[g] = hands[g]
           /\ Apart(r) => \A g \in Hands \ {h} : ~On(g, r)
<1>1. r \in Routines /\ IdleHand \in [op : Ops, routine : Routines \cup {"none"}] /\ IdleHand.op = "none"
  BY DEF RoutineShape, IdleHand, Ops
<1>2. /\ hands' \in Holding
      /\ hands'[h].op = "none" \/ hands'[h].routine = r
      /\ \A g \in Hands \ {h} : hands'[g] = hands[g]
  BY <1>1 DEF RoutineShape, Holding, EndCall
<1>3. \A q \in Routines \ {r} : \A g \in Hands : On(g, q) \/ On(g, q)' => hands'[g] = hands[g]
  BY <1>2 DEF On
<1>4. Apart(r) => \A g \in Hands \ {h} : ~On(g, r)
  BY DEF Apart, On
<1> QED
  BY <1>1, <1>2, <1>3, <1>4

-----------------------------------------------------------------------------
LEMMA InstallKeeps == ASSUME RoutineInv, NEW h \in Hands, Install(h) PROVE RoutineInv'
<1>1. PICK r \in Routines, c \in Admitted :
          /\ routines[r].status = "absent" /\ StartCall(h, "entering", r)
          /\ routines' = [routines EXCEPT ![r] = [status |-> "active", linked |-> FALSE, is |-> c]]
          /\ UNCHANGED routineLog
  BY DEF Install
<1>2. /\ hands' \in Holding
      /\ hands'[h].op = "entering" /\ hands'[h].routine = r
      /\ \A g \in Hands \ {h} : hands'[g] = hands[g]
      /\ trouble' \in [Routines -> SUBSET Troubles]
      /\ \A q \in Routines \ {r} : trouble'[q] = trouble[q]
      /\ Quiet(r)' => trouble'[r] = trouble[r] /\ \A g \in Hands : ~On(g, r)
      /\ \A q \in Routines \ {r} : \A g \in Hands : On(g, q) \/ On(g, q)' => hands'[g] = hands[g]
  <2>1. "entering" \in Ops \ {"none"} /\ RoutineShape
    BY DEF Ops, RoutineInv
  <2> QED
    BY <1>1, <2>1, StartsAlone
<1> DEFINE new == [status |-> "active", linked |-> FALSE, is |-> c]
<1>3. new.status = "active" /\ new.is = c /\ {"status", "linked", "is"} \subseteq DOMAIN new
  OBVIOUS
<1> HIDE DEF new
<1>4. /\ routines'[r] = new /\ DOMAIN routines' = Routines
      /\ \A q \in Routines \ {r} : routines'[q] = routines[q]
  BY <1>1 DEF RoutineInv, RoutineShape, new
<1>5. RoutineShape'
  BY <1>1, <1>2, <1>3, <1>4 DEF RoutineInv, RoutineShape
<1>6. \A k, q : Entries(k, q)' = Entries(k, q)
  BY <1>1, LogStays
<1>7. Quiet(r)' => Apart(r)'
  <2> SUFFICES ASSUME Quiet(r)' PROVE Apart(r)'
    OBVIOUS
  <2>1. Apart(r) /\ \A g \in Hands : ~On(g, r)
    BY <1>2 DEF RoutineInv, Quiet
  <2>2. \A g \in Hands : On(g, r)' => g = h
    BY <1>2, <2>1 DEF On
  <2>3. Entries("retire", r) = {}
    BY <1>1, <2>1 DEF Apart
  <2> QED
    BY <1>2, <1>3, <1>4, <1>6, <2>1, <2>2, <2>3 DEF Apart
<1>8. trouble'[r] = {} => Told(r)'
  BY <1>2, <1>3, <1>4 DEF Told
<1>9. \A q \in Routines \ {r} : Untouched(q)
  BY <1>2, <1>4, <1>6 DEF Untouched
<1> QED
  BY <1>5, <1>7, <1>8, <1>9, Elsewhere

LEMMA EnterInstallKeeps == ASSUME RoutineInv, NEW h \in Hands, EnterInstall(h) PROVE RoutineInv'
<1>0. PICK r : r = hands[h].routine
  OBVIOUS
<1>1. /\ hands[h].op = "entering" /\ hands' = [hands EXCEPT ![h].op = "linking"] /\ Log("install", r)
      /\ UNCHANGED <<routines, trouble>>
  BY <1>0 DEF EnterInstall
<1>2. /\ hands' \in Holding /\ r \in Routines
      /\ hands'[h].op = "linking" /\ hands'[h].routine = r
      /\ \A g \in Hands \ {h} : hands'[g] = hands[g]
      /\ \A q \in Routines \ {r} : \A g \in Hands : On(g, q) \/ On(g, q)' => hands'[g] = hands[g]
      /\ Apart(r) => \A g \in Hands \ {h} : ~On(g, r)
  <2>1. "linking" \in Ops /\ hands[h].op # "none" /\ RoutineShape
    BY <1>1 DEF Ops, RoutineInv
  <2>2. hands'[h].op = "linking"
    BY <1>1, <2>1 DEF RoutineShape, Holding
  <2> QED
    BY <1>0, <1>1, <2>1, <2>2, GoesAlone
<1>3. /\ routineLog' \in Seq(Logged)
      /\ \A k, q : Entries(k, q)' = IF k = "install" /\ q = r THEN Entries(k, q) \cup {Len(routineLog) + 1}
                                    ELSE Entries(k, q)
  BY <1>1, <1>2, LogGrows DEF RoutineInv
<1>4. /\ Entries("retire", r)' = Entries("retire", r) /\ Entries("executed", r)' = Entries("executed", r)
      /\ Entries("install", r)' # {}
  BY <1>3
<1>5. RoutineShape'
  BY <1>1, <1>2, <1>3 DEF RoutineInv, RoutineShape
<1>7. Quiet(r)' => Apart(r)'
  <2> SUFFICES ASSUME Quiet(r)' PROVE Apart(r)'
    OBVIOUS
  <2>1. Apart(r) /\ On(h, r) /\ \A g \in Hands : On(g, r)' => g = h
    BY <1>0, <1>1, <1>2 DEF RoutineInv, Quiet, On
  <2> QED
    BY <1>1, <1>2, <1>4, <2>1 DEF Apart
<1>8. trouble'[r] = {} => Told(r)'
  <2> SUFFICES ASSUME trouble[r] = {} PROVE Told(r)'
    BY <1>1
  <2>1. Apart(r) /\ On(h, r)
    BY <1>0, <1>1, <1>2 DEF RoutineInv, Quiet, On
  <2>2. routines[r].status = "active"
    BY <1>1, <2>1 DEF Apart
  <2> QED
    BY <1>1, <1>4, <2>2 DEF Told
<1>9. \A q \in Routines \ {r} : Untouched(q)
  BY <1>1, <1>2, <1>3 DEF Untouched
<1> QED
  BY <1>2, <1>5, <1>7, <1>8, <1>9, Elsewhere

LEMMA LinkKeeps == ASSUME RoutineInv, NEW h \in Hands, LinkLedger(h) PROVE RoutineInv'
<1>0. PICK r : r = hands[h].routine
  OBVIOUS
<1> DEFINE new == [[routines[r] EXCEPT !.status = "active"] EXCEPT !.linked = TRUE]
<1>1. /\ hands[h].op = "linking" /\ EndCall(h) /\ UNCHANGED <<routineLog, trouble>>
      /\ \/ routines' = [routines EXCEPT ![r].status = "active", ![r].linked = TRUE]
         \/ UNCHANGED routines
  BY <1>0 DEF LinkLedger
<1>2. /\ hands' \in Holding /\ r \in Routines
      /\ hands'[h] = IdleHand /\ IdleHand.op = "none"
      /\ \A g \in Hands \ {h} : hands'[g] = hands[g]
      /\ \A q \in Routines \ {r} : \A g \in Hands : On(g, q) \/ On(g, q)' => hands'[g] = hands[g]
      /\ Apart(r) => \A g \in Hands \ {h} : ~On(g, r)
  <2>1. hands[h].op # "none" /\ RoutineShape
    BY <1>1 DEF RoutineInv
  <2>2. hands'[h] = IdleHand /\ IdleHand.op = "none"
    BY <1>1, <2>1 DEF EndCall, RoutineShape, Holding, IdleHand
  <2> QED
    BY <1>0, <1>1, <2>1, <2>2, GoesAlone
<1>3. /\ DOMAIN routines' = Routines /\ \A q \in Routines \ {r} : routines'[q] = routines[q]
      /\ routines'[r] = new \/ routines'[r] = routines[r]
  BY <1>1, <1>2 DEF RoutineInv, RoutineShape
<1>4. new.status = "active" /\ new.is = routines[r].is /\ DOMAIN new = DOMAIN routines[r]
  BY <1>2 DEF RoutineInv, RoutineShape
<1> HIDE DEF new
<1>5. RoutineShape'
  BY <1>1, <1>2, <1>3, <1>4 DEF RoutineInv, RoutineShape
<1>6. \A k, q : Entries(k, q)' = Entries(k, q)
  BY <1>1, LogStays
<1>10. ASSUME Quiet(r) PROVE Apart(r) /\ routines[r].status = "active" /\ routines'[r].status = "active"
  <2>1. Apart(r) /\ On(h, r)
    BY <1>0, <1>1, <1>2, <1>10 DEF RoutineInv, On
  <2> QED
    BY <1>1, <1>3, <1>4, <2>1 DEF Apart
<1>7. Quiet(r)' => Apart(r)'
  <2> SUFFICES ASSUME Quiet(r)' PROVE Apart(r)'
    OBVIOUS
  <2>1. Quiet(r)
    BY <1>1 DEF Quiet
  <2>2. \A g \in Hands : ~On(g, r)'
    BY <1>2, <1>10, <2>1 DEF On
  <2> QED
    BY <1>6, <1>10, <2>1, <2>2 DEF Apart
<1>8. trouble'[r] = {} => Told(r)'
  <2> SUFFICES ASSUME trouble[r] = {} PROVE Told(r)'
    BY <1>1
  <2>1. Told(r) /\ Quiet(r)
    BY <1>2 DEF RoutineInv, Quiet
  <2>2. Entries("install", r) # {} \/ \E g \in Hands : hands[g].op = "entering" /\ hands[g].routine = r
    BY <1>10, <2>1 DEF Told
  <2>3. \A g \in Hands : hands[g].op = "entering" /\ hands[g].routine = r => g = h
    BY <1>2, <1>10, <2>1 DEF On
  <2> QED
    BY <1>1, <1>6, <1>10, <2>1, <2>2, <2>3 DEF Told
<1>9. \A q \in Routines \ {r} : Untouched(q)
  BY <1>1, <1>2, <1>3, <1>6 DEF Untouched
<1> QED
  BY <1>2, <1>5, <1>7, <1>8, <1>9, Elsewhere

\* A call that only begins.
LEMMA BeginKeeps ==
    ASSUME RoutineInv, NEW h \in Hands, NEW op \in {"running", "refusing", "retiring"}, NEW r \in Routines,
           routines[r].status = "active", StartCall(h, op, r), UNCHANGED <<routines, routineLog>>
    PROVE  RoutineInv'
<1>2. /\ hands' \in Holding
      /\ hands'[h].op = op /\ hands'[h].routine = r
      /\ \A g \in Hands \ {h} : hands'[g] = hands[g]
      /\ trouble' \in [Routines -> SUBSET Troubles]
      /\ \A q \in Routines \ {r} : trouble'[q] = trouble[q]
      /\ Quiet(r)' => trouble'[r] = trouble[r] /\ \A g \in Hands : ~On(g, r)
      /\ \A q \in Routines \ {r} : \A g \in Hands : On(g, q) \/ On(g, q)' => hands'[g] = hands[g]
  <2>1. op \in Ops \ {"none"} /\ RoutineShape
    BY DEF Ops, RoutineInv
  <2> QED
    BY <2>1, StartsAlone
<1>5. RoutineShape'
  BY <1>2 DEF RoutineInv, RoutineShape
<1>6. \A k, q : Entries(k, q)' = Entries(k, q)
  BY LogStays
<1>7. Quiet(r)' => Apart(r)'
  <2> SUFFICES ASSUME Quiet(r)' PROVE Apart(r)'
    OBVIOUS
  <2>1. Apart(r) /\ \A g \in Hands : ~On(g, r)
    BY <1>2 DEF RoutineInv, Quiet
  <2>2. \A g \in Hands : On(g, r)' => g = h
    BY <1>2, <2>1 DEF On
  <2>3. Entries("retire", r) = {}
    BY <2>1 DEF Apart
  <2> QED
    BY <1>2, <1>6, <2>1, <2>2, <2>3 DEF Apart
<1>8. trouble'[r] = {} => Told(r)'
  <2> SUFFICES ASSUME trouble'[r] = {} PROVE Told(r)'
    OBVIOUS
  <2>1. Quiet(r)'
    BY DEF Quiet
  <2>2. trouble[r] = {} /\ \A g \in Hands : ~On(g, r)
    BY <1>2, <2>1
  <2>3. Told(r)
    BY <2>2 DEF RoutineInv
  <2> QED
    BY <1>6, <2>2, <2>3 DEF Told, On
<1>9. \A q \in Routines \ {r} : Untouched(q)
  BY <1>2, <1>6 DEF Untouched
<1> QED
  BY <1>5, <1>7, <1>8, <1>9, Elsewhere

LEMMA TraceKeeps == ASSUME RoutineInv, NEW h \in Hands, WriteTrace(h) PROVE RoutineInv'
<1>0. PICK r : r = hands[h].routine
  OBVIOUS
<1>1. /\ hands[h].op \in {"running", "refusing"} /\ EndCall(h) /\ UNCHANGED <<routines, trouble>>
  BY <1>0 DEF WriteTrace
<1>2. /\ hands' \in Holding /\ r \in Routines
      /\ hands'[h] = IdleHand /\ IdleHand.op = "none"
      /\ \A g \in Hands \ {h} : hands'[g] = hands[g]
      /\ \A q \in Routines \ {r} : \A g \in Hands : On(g, q) \/ On(g, q)' => hands'[g] = hands[g]
      /\ Apart(r) => \A g \in Hands \ {h} : ~On(g, r)
  <2>1. hands[h].op # "none" /\ RoutineShape
    BY <1>1 DEF RoutineInv
  <2>2. hands'[h] = IdleHand /\ IdleHand.op = "none"
    BY <1>1, <2>1 DEF EndCall, RoutineShape, Holding, IdleHand
  <2> QED
    BY <1>0, <1>1, <2>1, <2>2, GoesAlone
<1>3. PICK kind \in {"executed", "denied"} :
          /\ routineLog' \in Seq(Logged)
          /\ \A k, q : Entries(k, q)' = IF k = kind /\ q = r THEN Entries(k, q) \cup {Len(routineLog) + 1}
                                        ELSE Entries(k, q)
  BY <1>0, <1>2, LogGrows DEF RoutineInv, WriteTrace
<1>4. Entries("retire", r)' = Entries("retire", r) /\ Entries("install", r)' = Entries("install", r)
  BY <1>3
<1>5. RoutineShape'
  BY <1>1, <1>2, <1>3 DEF RoutineInv, RoutineShape
<1>7. Quiet(r)' => Apart(r)'
  <2> SUFFICES ASSUME Quiet(r)' PROVE Apart(r)'
    OBVIOUS
  <2>1. Apart(r) /\ On(h, r)
    BY <1>0, <1>1, <1>2 DEF RoutineInv, Quiet, On
  <2>2. Entries("retire", r) = {}
    BY <2>1 DEF Apart
  <2>3. \A g \in Hands : ~On(g, r)'
    BY <1>2, <2>1 DEF On
  <2> QED
    BY <1>1, <1>4, <2>1, <2>2, <2>3 DEF Apart
<1>8. trouble'[r] = {} => Told(r)'
  <2> SUFFICES ASSUME trouble[r] = {} PROVE Told(r)'
    BY <1>1
  <2>1. Told(r)
    BY <1>2 DEF RoutineInv
  <2>2. \A g \in Hands : hands[g].op \in {"entering", "noting"} => hands'[g] = hands[g]
    BY <1>1, <1>2
  <2> QED
    BY <1>1, <1>4, <2>1, <2>2 DEF Told
<1>9. \A q \in Routines \ {r} : Untouched(q)
  BY <1>1, <1>2, <1>3 DEF Untouched
<1> QED
  BY <1>2, <1>5, <1>7, <1>8, <1>9, Elsewhere

LEMMA RetireRowKeeps == ASSUME RoutineInv, NEW h \in Hands, RetireRow(h) PROVE RoutineInv'
<1>0. PICK r : r = hands[h].routine
  OBVIOUS
<1> DEFINE new == [routines[r] EXCEPT !.status = "retired"]
<1>1. /\ hands[h].op = "retiring" /\ hands' = [hands EXCEPT ![h].op = "noting"] /\ UNCHANGED routineLog
      /\ \/ routines' = [routines EXCEPT ![r].status = "retired"] /\ UNCHANGED trouble
         \/ UNCHANGED routines /\ Befalls("refused", r)
  BY <1>0 DEF RetireRow
<1>2. /\ hands' \in Holding /\ r \in Routines
      /\ hands'[h].op = "noting" /\ hands'[h].routine = r
      /\ \A g \in Hands \ {h} : hands'[g] = hands[g]
      /\ \A q \in Routines \ {r} : \A g \in Hands : On(g, q) \/ On(g, q)' => hands'[g] = hands[g]
      /\ Apart(r) => \A g \in Hands \ {h} : ~On(g, r)
  <2>1. "noting" \in Ops /\ hands[h].op # "none" /\ RoutineShape
    BY <1>1 DEF Ops, RoutineInv
  <2>2. hands'[h].op = "noting"
    BY <1>1, <2>1 DEF RoutineShape, Holding
  <2> QED
    BY <1>0, <1>1, <2>1, <2>2, GoesAlone
<1>6. \A k, q : Entries(k, q)' = Entries(k, q)
  BY <1>1, LogStays
<1>3. CASE UNCHANGED routines /\ Befalls("refused", r)
  <2>1. /\ trouble' = [trouble EXCEPT ![r] = trouble[r] \cup {"refused"}]
        /\ trouble \in [Routines -> SUBSET Troubles] /\ "refused" \in Troubles
    BY <1>3 DEF Befalls, RoutineInv, RoutineShape, Troubles
  <2>2. /\ trouble' \in [Routines -> SUBSET Troubles] /\ "refused" \in trouble'[r]
        /\ \A q \in Routines \ {r} : trouble'[q] = trouble[q]
    BY <1>2, <2>1
  <2>3. RoutineShape'
    BY <1>1, <1>2, <1>3, <2>2 DEF RoutineInv, RoutineShape
  <2>4. ~Quiet(r)' /\ trouble'[r] # {}
    BY <2>2 DEF Quiet
  <2>5. \A q \in Routines \ {r} : Untouched(q)
    BY <1>2, <1>3, <1>6, <2>2 DEF Untouched
  <2> QED
    BY <1>2, <2>3, <2>4, <2>5, Elsewhere
<1>4. CASE routines' = [routines EXCEPT ![r].status = "retired"] /\ UNCHANGED trouble
  <2>1. /\ routines'[r] = new /\ DOMAIN routines' = Routines
        /\ \A q \in Routines \ {r} : routines'[q] = routines[q]
    BY <1>2, <1>4 DEF RoutineInv, RoutineShape
  <2>2. new.status = "retired" /\ new.is = routines[r].is /\ DOMAIN new = DOMAIN routines[r]
    BY <1>2 DEF RoutineInv, RoutineShape
  <2> HIDE DEF new
  <2>3. RoutineShape'
    BY <1>1, <1>2, <1>4, <2>1, <2>2 DEF RoutineInv, RoutineShape
  <2>4. Quiet(r)' => Apart(r)'
    <3> SUFFICES ASSUME Quiet(r)' PROVE Apart(r)'
      OBVIOUS
    <3>1. Apart(r) /\ On(h, r)
      BY <1>0, <1>1, <1>2, <1>4 DEF RoutineInv, Quiet, On
    <3>2. Entries("retire", r) = {} /\ \A g \in Hands : On(g, r)' => g = h
      BY <1>2, <3>1 DEF Apart, On
    <3> QED
      BY <1>2, <1>6, <2>1, <2>2, <3>1, <3>2 DEF Apart
  <2>5. trouble'[r] = {} => Told(r)'
    BY <1>2, <2>1, <2>2 DEF Told
  <2>6. \A q \in Routines \ {r} : Untouched(q)
    BY <1>2, <1>4, <1>6, <2>1 DEF Untouched
  <2> QED
    BY <1>2, <2>3, <2>4, <2>5, <2>6, Elsewhere
<1> QED
  BY <1>1, <1>3, <1>4

LEMMA EnterRetireKeeps == ASSUME RoutineInv, NEW h \in Hands, EnterRetire(h) PROVE RoutineInv'
<1>0. PICK r : r = hands[h].routine
  OBVIOUS
<1> DEFINE n == Len(routineLog)
<1>1. /\ hands[h].op = "noting" /\ EndCall(h) /\ Log("retire", r) /\ UNCHANGED <<routines, trouble>>
  BY <1>0 DEF EnterRetire
<1>2. /\ hands' \in Holding /\ r \in Routines
      /\ hands'[h] = IdleHand /\ IdleHand.op = "none"
      /\ \A g \in Hands \ {h} : hands'[g] = hands[g]
      /\ \A q \in Routines \ {r} : \A g \in Hands : On(g, q) \/ On(g, q)' => hands'[g] = hands[g]
      /\ Apart(r) => \A g \in Hands \ {h} : ~On(g, r)
  <2>1. hands[h].op # "none" /\ RoutineShape
    BY <1>1 DEF RoutineInv
  <2>2. hands'[h] = IdleHand /\ IdleHand.op = "none"
    BY <1>1, <2>1 DEF EndCall, RoutineShape, Holding, IdleHand
  <2> QED
    BY <1>0, <1>1, <2>1, <2>2, GoesAlone
<1>3. /\ routineLog' \in Seq(Logged)
      /\ \A k, q : Entries(k, q)' = IF k = "retire" /\ q = r THEN Entries(k, q) \cup {n + 1} ELSE Entries(k, q)
      /\ \A k, q : Entries(k, q) \subseteq 1..n
      /\ n \in Nat
  BY <1>1, <1>2, LogGrows DEF RoutineInv
<1> HIDE DEF n
<1>5. RoutineShape'
  BY <1>1, <1>2, <1>3 DEF RoutineInv, RoutineShape
<1>4. /\ Entries("retire", r)' = Entries("retire", r) \cup {n + 1}
      /\ Entries("executed", r)' = Entries("executed", r) /\ Entries("install", r)' = Entries("install", r)
  BY <1>3
<1>7. Quiet(r)' => Apart(r)'
  <2> SUFFICES ASSUME Quiet(r)' PROVE Apart(r)'
    OBVIOUS
  <2>1. Apart(r) /\ On(h, r)
    BY <1>0, <1>1, <1>2 DEF RoutineInv, Quiet, On
  <2>2. Entries("retire", r)' = {n + 1} /\ routines[r].status = "retired" /\ n + 1 \in Nat
    BY <1>1, <1>3, <1>4, <2>1 DEF Apart
  <2>3. \A g \in Hands : ~On(g, r)'
    BY <1>2, <2>1 DEF On
  <2>4. \A j \in Entries("executed", r) : j < n + 1
    <3>1. \A j \in 1..n : j < n + 1
      BY <1>3
    <3> QED
      BY <1>3, <3>1
  <2>5. \A i \in Entries("retire", r)', j \in Entries("executed", r)' : j < i
    BY <1>4, <2>2, <2>4
  <2> QED
    BY <1>1, <2>2, <2>3, <2>5 DEF Apart
<1>8. trouble'[r] = {} => Told(r)'
  <2> SUFFICES ASSUME trouble[r] = {} PROVE Told(r)'
    BY <1>1
  <2>1. Apart(r) /\ On(h, r)
    BY <1>0, <1>1, <1>2 DEF RoutineInv, Quiet, On
  <2>2. routines[r].status = "retired"
    BY <1>1, <2>1 DEF Apart
  <2> QED
    BY <1>1, <1>4, <2>2 DEF Told
<1>9. \A q \in Routines \ {r} : Untouched(q)
  BY <1>1, <1>2, <1>3 DEF Untouched
<1> QED
  BY <1>2, <1>5, <1>7, <1>8, <1>9, Elsewhere

LEMMA DropCallKeeps == ASSUME RoutineInv, NEW h \in Hands, DropCall(h) PROVE RoutineInv'
<1>0. PICK r : r = hands[h].routine
  OBVIOUS
<1>1. hands[h].op # "none" /\ EndCall(h) /\ Befalls("death", r) /\ UNCHANGED <<routines, routineLog>>
  BY <1>0 DEF DropCall
<1>2. /\ hands' \in Holding /\ r \in Routines
      /\ hands'[h] = IdleHand /\ IdleHand.op = "none"
      /\ \A g \in Hands \ {h} : hands'[g] = hands[g]
      /\ \A q \in Routines \ {r} : \A g \in Hands : On(g, q) \/ On(g, q)' => hands'[g] = hands[g]
      /\ Apart(r) => \A g \in Hands \ {h} : ~On(g, r)
  <2>1. hands[h].op # "none" /\ RoutineShape
    BY <1>1 DEF RoutineInv
  <2>2. hands'[h] = IdleHand /\ IdleHand.op = "none"
    BY <1>1, <2>1 DEF EndCall, RoutineShape, Holding, IdleHand
  <2> QED
    BY <1>0, <1>1, <2>1, <2>2, GoesAlone
<1>3. /\ trouble' \in [Routines -> SUBSET Troubles] /\ trouble'[r] = trouble[r] \cup {"death"}
      /\ \A q \in Routines \ {r} : trouble'[q] = trouble[q]
  <2>1. /\ trouble' = [trouble EXCEPT ![r] = trouble[r] \cup {"death"}]
        /\ trouble \in [Routines -> SUBSET Troubles] /\ "death" \in Troubles
    BY <1>1 DEF Befalls, RoutineInv, RoutineShape, Troubles
  <2> QED
    BY <1>2, <2>1
<1>5. RoutineShape'
  BY <1>1, <1>2, <1>3 DEF RoutineInv, RoutineShape
<1>6. \A k, q : Entries(k, q)' = Entries(k, q)
  BY <1>1, LogStays
<1>7. Quiet(r)' => Apart(r)'
  <2> SUFFICES ASSUME Quiet(r)' PROVE Apart(r)'
    OBVIOUS
  <2>1. Apart(r) /\ On(h, r)
    BY <1>0, <1>1, <1>2, <1>3 DEF RoutineInv, Quiet, On
  <2>3. \A g \in Hands : ~On(g, r)'
    BY <1>2, <2>1 DEF On
  <2> QED
    BY <1>1, <1>6, <2>1, <2>3 DEF Apart
<1>9. \A q \in Routines \ {r} : Untouched(q)
  BY <1>1, <1>2, <1>3, <1>6 DEF Untouched
<1>10. trouble'[r] # {}
  BY <1>3
<1> QED
  BY <1>2, <1>5, <1>7, <1>9, <1>10, Elsewhere

LEMMA RoutineInit == RoutinesInit => RoutineInv
<1> SUFFICES ASSUME RoutinesInit PROVE RoutineInv
  OBVIOUS
<1>1. /\ routines = [r \in Routines |-> NoRoutine] /\ hands = [h \in Hands |-> IdleHand] /\ routineLog = <<>>
      /\ NoRoutine.status = "absent" /\ NoRoutine.is = NoCandidate /\ IdleHand.op = "none"
      /\ {"status", "linked", "is"} \subseteq DOMAIN NoRoutine
      /\ IdleHand \in [op : Ops, routine : Routines \cup {"none"}]
      /\ trouble = [r \in Routines |-> {}]
  BY DEF RoutinesInit, NoRoutine, IdleHand, Ops
<1>2. \A k, q : Entries(k, q) = {}
  BY <1>1 DEF Entries
<1>3. RoutineShape
  <2>1. routineLog \in Seq(Logged)
    BY <1>1
  <2>2. hands \in Holding
    BY <1>1 DEF Holding
  <2>3. \A r \in Routines : routines[r] = NoRoutine
    BY <1>1
  <2>4. DOMAIN routines = Routines /\ \A h \in Hands : hands[h].op = "none"
    BY <1>1
  <2>5. trouble \in [Routines -> SUBSET Troubles]
    BY <1>1
  <2> QED
    BY <1>1, <2>1, <2>2, <2>3, <2>4, <2>5 DEF RoutineShape
<1>4. \A r \in Routines : routines[r].status = "absent"
  BY <1>1
<1>5. \A r \in Routines : \A h \in Hands : ~On(h, r)
  BY <1>1 DEF On
<1> QED
  BY <1>2, <1>3, <1>4, <1>5 DEF RoutineInv, Apart, Told

LEMMA RoutineKeeps == ASSUME RoutineInv, [RoutinesNext]_routineVars PROVE RoutineInv'
<1>1. ASSUME NEW h \in Hands, Invoke(h) PROVE RoutineInv'
  BY <1>1, BeginKeeps DEF Invoke, Usable
<1>2. ASSUME NEW h \in Hands, BeginRetire(h) PROVE RoutineInv'
  BY <1>2, BeginKeeps DEF BeginRetire, Retirable, Usable
<1>3. CASE UNCHANGED routineVars
  <2>1. routines' = routines /\ hands' = hands /\ routineLog' = routineLog /\ trouble' = trouble
    BY <1>3 DEF routineVars
  <2>2. RoutineShape'
    BY <2>1 DEF RoutineInv, RoutineShape
  <2>3. \A k, q : Entries(k, q)' = Entries(k, q)
    BY <2>1, LogStays
  <2>4. ASSUME NEW r \in Routines PROVE (Quiet(r)' => Apart(r)') /\ (trouble'[r] = {} => Told(r)')
    <3>1. (Quiet(r) => Apart(r)) /\ (trouble[r] = {} => Told(r)) /\ (Quiet(r)' <=> Quiet(r))
      BY <2>1 DEF RoutineInv, Quiet
    <3>2. Apart(r)' <=> Apart(r)
      BY <2>1, <2>3 DEF Apart, On
    <3>3. Told(r)' <=> Told(r)
      BY <2>1, <2>3 DEF Told
    <3> QED
      BY <2>1, <3>1, <3>2, <3>3
  <2> QED
    BY <2>2, <2>4 DEF RoutineInv
<1> QED
  BY <1>1, <1>2, <1>3, InstallKeeps, EnterInstallKeeps, LinkKeeps, TraceKeeps, RetireRowKeeps,
     EnterRetireKeeps, DropCallKeeps DEF RoutinesNext, RoutineStep

\* A routine is what was admitted; one whose calls do not overlap and whose
\* retirement the store takes is retired once and not run after that, and while no
\* call on it died the ledger tells its state, whatever befalls other routines; for
\* any sets of routines, callers and capabilities and any number of calls
\* (installToolRoutine, invokeToolRoutine, retireToolRoutine).
THEOREM RoutinesAreConsistent == RoutinesSpec => []RoutinesConsistent
<1>1. RoutinesInit => RoutineInv
  BY RoutineInit
<1>2. RoutineInv /\ [RoutinesNext]_routineVars => RoutineInv'
  BY RoutineKeeps
<1>3. ASSUME RoutineInv PROVE RoutinesConsistent
  <2>1. StepsWithinProvenance
    <3> SUFFICES ASSUME NEW r \in Routines
                 PROVE  LET c == routines[r].is
                        IN  /\ c.steps \cap c.denied = {}
                            /\ c.allowed # {} => c.steps \subseteq c.trigger
                            /\ c.mayWrite => c.trigger \cap WriteCaps # {}
      BY DEF StepsWithinProvenance
    <3>1. routines[r].is \in Admitted \cup {NoCandidate}
      BY <1>3 DEF RoutineInv, RoutineShape
    <3> QED
      BY <3>1 DEF Admitted, GuardAdmits, SandboxAdmits, NoCandidate
  <2>2. RetiredOnceForAll
    <3> SUFFICES ASSUME NEW r \in Routines, Quiet(r)
                 PROVE  /\ Cardinality(Entries("retire", r)) <= 1
                        /\ \A i \in Entries("retire", r), j \in Entries("executed", r) : j < i
      BY DEF RetiredOnceForAll, Quiet
    <3>1. Apart(r)
      BY <1>3 DEF RoutineInv
    <3>2. Entries("retire", r) = {} \/ \E k \in Nat : Entries("retire", r) = {k}
      BY <3>1 DEF Apart
    <3>3. Cardinality(Entries("retire", r)) \in {0, 1}
      BY <3>2, FS_EmptySet, FS_Singleton
    <3> QED
      BY <3>1, <3>3 DEF Apart
  <2>3. LedgerTellsStatus
    <3> SUFFICES ASSUME NEW r \in Routines, trouble[r] = {}, ~OnHands(r)
                 PROVE  routines[r].status = IF Entries("retire", r) # {} THEN "retired"
                                             ELSE IF Entries("install", r) # {} THEN "active" ELSE "absent"
      BY DEF LedgerTellsStatus
    <3>1. Apart(r) /\ Told(r)
      BY <1>3 DEF RoutineInv, Quiet
    <3>3. \A h \in Hands : ~(hands[h].op \in {"entering", "noting"} /\ hands[h].routine = r)
      BY DEF OnHands
    <3>2. routines[r].status \in {"absent", "active", "retired"}
      BY <1>3 DEF RoutineInv, RoutineShape
    <3> QED
      BY <3>1, <3>2, <3>3 DEF Apart, Told
  <2> QED
    BY <2>1, <2>2, <2>3 DEF RoutinesConsistent
<1> QED
  BY <1>1, <1>2, <1>3, PTL DEF RoutinesSpec

-----------------------------------------------------------------------------
\* A command that may have replaced goals and will store its own: one that finds its
\* id taken at the insert throws, and an id is taken by a goal that was accepted.
WillStore(command) ==
    \/ command.op \in {"replacing", "looking", "updating"}
    \/ command.op = "inserting" /\ goals[command.goal] = NoGoal

GoalRow == [status : {"absent", "proposal", "accepted", "rejected", "replaced"}, at : Nat]
GoalRows == [Goals -> GoalRow]
SnapshotFits(s) == s.at \in Nat /\ s.rows \in GoalRows
CommandFits(command) ==
    /\ {"op", "goal", "at", "old"} \subseteq DOMAIN command /\ command.at \in Nat
    /\ command.op \in {"replacing", "looking", "inserting", "updating", "accepting", "rejecting"}
           => command.goal \in Goals

GoalShape ==
    /\ goals \in GoalRows /\ goalClock \in Nat /\ \A s \in snapshots : SnapshotFits(s)
    /\ commands = [c \in Owners |-> commands[c]] /\ \A c \in Owners : CommandFits(commands[c])

Excepted == history \cap {"failure", "overruled", "restore"}
GoalKept ==
    chosen # {} /\ Excepted = {} => AcceptedGoals # {} \/ \E c \in Owners : WillStore(commands[c])
GoalInv == GoalShape /\ GoalKept

\* A row is written.
LEMMA RowWritten ==
    ASSUME goals \in GoalRows, NEW g, NEW status \in {"accepted", "rejected", "replaced"},
           NEW at \in Nat, goals' = [goals EXCEPT ![g] = [status |-> status, at |-> at]]
    PROVE  goals' \in GoalRows
<1>1. [status |-> status, at |-> at] \in GoalRow
  BY DEF GoalRow
<1> QED
  BY <1>1 DEF GoalRows

\* What the next state has to show of the goals, the clock and the snapshots
\* when the caller's command is all that changes of the commands.
LEMMA ShapeKept ==
    ASSUME GoalShape, NEW c \in Owners, NEW command, commands' = [commands EXCEPT ![c] = command],
           CommandFits(command), goals' \in GoalRows, goalClock' \in Nat,
           \A s \in snapshots' : SnapshotFits(s)
    PROVE  /\ GoalShape' /\ commands'[c] = command
           /\ \A d \in Owners : d # c => commands'[d] = commands[d]
<1>1. /\ commands' = [d \in Owners |-> commands'[d]] /\ commands'[c] = command
      /\ \A d \in Owners : d # c => commands'[d] = commands[d]
  BY DEF GoalShape
<1>2. \A d \in Owners : CommandFits(commands[d])'
  BY <1>1 DEF GoalShape, CommandFits
<1>3. (\A s \in snapshots : SnapshotFits(s))'
  BY DEF SnapshotFits, GoalRows
<1> QED
  BY <1>1, <1>2, <1>3 DEF GoalShape, GoalRows

\* A step that leaves the goals alone and ends no command that will store.
LEMMA GoalsAlone ==
    ASSUME GoalInv, NEW c \in Owners, NEW command, commands' = [commands EXCEPT ![c] = command],
           CommandFits(command), WillStore(commands[c]) => WillStore(command),
           UNCHANGED <<goals, chosen>>, history \subseteq history', goalClock' \in Nat,
           \A s \in snapshots' : SnapshotFits(s)
    PROVE  GoalInv'
<1>1. goals' \in GoalRows
  BY DEF GoalInv, GoalShape
<1>2. /\ GoalShape' /\ commands'[c] = command /\ \A d \in Owners : d # c => commands'[d] = commands[d]
  BY <1>1, ShapeKept DEF GoalInv
<1>3. \A d \in Owners : WillStore(commands[d]) => WillStore(commands[d])'
  BY <1>2 DEF WillStore
<1>4. AcceptedGoals' = AcceptedGoals /\ Excepted \subseteq Excepted' /\ chosen' = chosen
  BY DEF AcceptedGoals, Excepted
<1> QED
  BY <1>2, <1>3, <1>4 DEF GoalInv, GoalKept

\* A step that leaves a goal accepted, or that the promise excepts.
LEMMA GoalsSettled ==
    ASSUME GoalInv, NEW c \in Owners, commands' = [commands EXCEPT ![c] = NoCommand],
           goals' \in GoalRows, goalClock' \in Nat, snapshots' = snapshots,
           AcceptedGoals' # {} \/ Excepted' # {}
    PROVE  GoalInv'
<1>1. CommandFits(NoCommand) /\ GoalShape /\ \A s \in snapshots' : SnapshotFits(s)
  BY DEF CommandFits, NoCommand, GoalInv, GoalShape
<1>2. GoalShape'
  BY <1>1, ShapeKept
<1> QED
  BY <1>2 DEF GoalInv, GoalKept

LEMMA GoalStepKeeps ==
    ASSUME GoalInv, NEW c \in Owners, GoalStep(c)
    PROVE  GoalInv'
<1>0. /\ goals \in GoalRows /\ goalClock \in Nat /\ \A s \in snapshots : SnapshotFits(s)
      /\ CommandFits(commands[c]) /\ CommandFits(NoCommand)
  BY DEF GoalInv, GoalShape, CommandFits, NoCommand
<1>1. CASE SetGoal(c)
  <2>1. PICK g \in Goals :
          StartCommand(c, [op |-> IF ToReplace(g) = {} THEN "looking" ELSE "replacing",
                            goal |-> g, at |-> goalClock + 1, old |-> ToReplace(g)])
    BY <1>1 DEF SetGoal
  <2> DEFINE command == [op |-> IF ToReplace(g) = {} THEN "looking" ELSE "replacing",
                      goal |-> g, at |-> goalClock + 1, old |-> ToReplace(g)]
  <2>2. CommandFits(command) /\ WillStore(command)
    BY <1>0 DEF CommandFits, WillStore
  <2>3. commands' = [commands EXCEPT ![c] = command] /\ history \subseteq history'
    BY <2>1 DEF StartCommand
  <2>4. UNCHANGED <<goals, chosen, snapshots>> /\ goalClock' \in Nat
    BY <1>0, <1>1 DEF SetGoal, Stamp
  <2> HIDE DEF command
  <2> QED
    BY <1>0, <2>2, <2>3, <2>4, GoalsAlone
<1>2. CASE ReplaceGoal(c)
  <2>1. PICK g \in commands[c].old :
          /\ goals' = [goals EXCEPT ![g] = [status |-> "replaced", at |-> commands[c].at]]
          /\ commands' = [commands EXCEPT ![c].old = @ \ {g},
                                    ![c].op = IF commands[c].old = {g} THEN "looking" ELSE "replacing"]
    BY <1>2 DEF ReplaceGoal
  <2> DEFINE op == IF commands[c].old = {g} THEN "looking" ELSE "replacing"
             command == [[commands[c] EXCEPT !.old = @ \ {g}] EXCEPT !.op = op]
  <2>2. commands' = [commands EXCEPT ![c] = command]
    BY <2>1 DEF GoalInv, GoalShape
  <2>3. command.op = op /\ command.goal = commands[c].goal /\ command.at = commands[c].at /\ DOMAIN command = DOMAIN commands[c]
    BY <1>0 DEF CommandFits
  <2>4. op \in {"looking", "replacing"} /\ commands[c].op = "replacing"
    BY <1>2 DEF ReplaceGoal
  <2> HIDE DEF op, command
  <2>5. CommandFits(command) /\ WillStore(command)
    BY <1>0, <2>3, <2>4 DEF CommandFits, WillStore
  <2>6. goals' \in GoalRows /\ UNCHANGED <<snapshots, goalClock>>
    BY <1>0, <1>2, <2>1, RowWritten DEF ReplaceGoal, CommandFits
  <2>7. GoalShape' /\ commands'[c] = command
    BY <1>0, <2>2, <2>5, <2>6, ShapeKept DEF GoalInv
  <2>8. WillStore(commands[c])'
    BY <2>3, <2>4, <2>7 DEF WillStore
  <2> QED
    BY <2>7, <2>8 DEF GoalInv, GoalKept
<1>3. CASE LookUpGoal(c)
  <2> DEFINE op == IF goals[commands[c].goal] = NoGoal THEN "inserting" ELSE "updating"
             command == [commands[c] EXCEPT !.op = op]
  <2>1. commands' = [commands EXCEPT ![c] = command]
    BY <1>3 DEF LookUpGoal, CommandTo, GoalInv, GoalShape
  <2>2. command.op = op /\ command.goal = commands[c].goal /\ command.at = commands[c].at /\ DOMAIN command = DOMAIN commands[c]
    BY <1>0 DEF CommandFits
  <2>3. commands[c].op = "looking" /\ UNCHANGED <<goals, chosen, snapshots, history, goalClock>>
    BY <1>3 DEF LookUpGoal
  <2>4. op \in {"inserting", "updating"} /\ (op = "inserting" => goals[commands[c].goal] = NoGoal)
    OBVIOUS
  <2> HIDE DEF op, command
  <2>5. CommandFits(command) /\ WillStore(command)
    BY <1>0, <2>2, <2>3, <2>4 DEF CommandFits, WillStore
  <2> QED
    BY <1>0, <2>1, <2>3, <2>5, GoalsAlone
<1>4. CASE StoreGoal(c)
  <2>1. commands' = [commands EXCEPT ![c] = NoCommand] /\ UNCHANGED <<snapshots, goalClock, history>>
    BY <1>4 DEF StoreGoal, EndCommand
  <2>2. CASE commands[c].op = "inserting" /\ goals[commands[c].goal] # NoGoal
    <3>1. UNCHANGED <<goals, chosen>> /\ ~WillStore(commands[c])
      BY <1>4, <2>2 DEF StoreGoal, WillStore
    <3> QED
      BY <1>0, <2>1, <3>1, GoalsAlone
  <2>3. CASE ~(commands[c].op = "inserting" /\ goals[commands[c].goal] # NoGoal)
    <3>1. commands[c].goal \in Goals
      BY <1>0, <1>4 DEF StoreGoal, CommandFits
    <3>2. goals' = [goals EXCEPT ![commands[c].goal] = [status |-> "accepted", at |-> commands[c].at]]
      BY <1>4, <2>3 DEF StoreGoal, GoalStored
    <3>3. goals' \in GoalRows
      BY <1>0, <3>2, RowWritten DEF CommandFits
    <3>4. commands[c].goal \in AcceptedGoals'
      BY <1>0, <3>1, <3>2 DEF AcceptedGoals, GoalRows, GoalRow
    <3> QED
      BY <1>0, <2>1, <3>3, <3>4, GoalsSettled
  <2> QED
    BY <2>2, <2>3
<1>5. CASE DecideGoal(c)
  <2>1. PICK g \in Goals, op \in {"accepting", "rejecting"} :
          StartCommand(c, [NoCommand EXCEPT !.op = op, !.goal = g])
    BY <1>5 DEF DecideGoal
  <2> DEFINE command == [NoCommand EXCEPT !.op = op, !.goal = g]
  <2>2. CommandFits(command)
    BY DEF CommandFits, NoCommand
  <2>3. commands' = [commands EXCEPT ![c] = command] /\ history \subseteq history' /\ commands[c].op = "none"
    BY <2>1 DEF StartCommand
  <2>4. UNCHANGED <<goals, chosen, snapshots, goalClock>> /\ ~WillStore(commands[c])
    BY <1>5, <2>3 DEF DecideGoal, WillStore
  <2> HIDE DEF command
  <2> QED
    BY <1>0, <2>2, <2>3, <2>4, GoalsAlone
<1>6. CASE AcceptGoal(c)
  <2>1. commands[c].goal \in Goals
    BY <1>0, <1>6 DEF AcceptGoal, CommandFits
  <2>2. goals' = [goals EXCEPT ![commands[c].goal] = [status |-> "accepted", at |-> goalClock + 1]]
    BY <1>6 DEF AcceptGoal, GoalStored
  <2>3. goals' \in GoalRows /\ goalClock' \in Nat
    <3>1. goalClock' = goalClock + 1 /\ goalClock + 1 \in Nat
      BY <1>0, <1>6 DEF AcceptGoal, Stamp
    <3> QED
      BY <1>0, <2>2, <3>1, RowWritten
  <2>4. commands[c].goal \in AcceptedGoals'
    BY <1>0, <2>1, <2>2 DEF AcceptedGoals, GoalRows, GoalRow
  <2>5. commands' = [commands EXCEPT ![c] = NoCommand] /\ snapshots' = snapshots
    BY <1>6 DEF AcceptGoal, EndCommand
  <2> QED
    BY <2>3, <2>4, <2>5, GoalsSettled
<1>7. CASE RejectGoal(c)
  <2>1. commands[c].goal \in Goals /\ ~WillStore(commands[c])
    BY <1>0, <1>7 DEF RejectGoal, CommandFits, WillStore
  <2>2. goals' = [goals EXCEPT ![commands[c].goal] = [status |-> "rejected", at |-> goalClock + 1]]
    BY <1>7 DEF RejectGoal, GoalStored
  <2>3. goals' \in GoalRows /\ goalClock' \in Nat
    <3>1. goalClock' = goalClock + 1 /\ goalClock + 1 \in Nat
      BY <1>0, <1>7 DEF RejectGoal, Stamp
    <3> QED
      BY <1>0, <2>2, <3>1, RowWritten
  <2>4. commands' = [commands EXCEPT ![c] = NoCommand] /\ UNCHANGED <<snapshots, chosen>>
    BY <1>7 DEF RejectGoal, EndCommand
  <2>5. CASE goals[commands[c].goal].status = "proposal"
    <3>1. AcceptedGoals' = AcceptedGoals
      BY <1>0, <2>1, <2>2, <2>5 DEF AcceptedGoals, GoalRows, GoalRow
    <3>2. /\ GoalShape' /\ commands'[c] = NoCommand /\ \A d \in Owners : d # c => commands'[d] = commands[d]
      BY <1>0, <2>3, <2>4, ShapeKept DEF GoalInv
    <3>3. \A g \in Goals : goals[g] = NoGoal => goals'[g] = NoGoal
      BY <1>0, <2>1, <2>2, <2>5 DEF GoalRows, GoalRow, NoGoal
    <3>4. \A d \in Owners : WillStore(commands[d]) => WillStore(commands[d])'
      BY <2>1, <3>2, <3>3 DEF WillStore, GoalInv, GoalShape, CommandFits
    <3>5. history' = history
      BY <1>7, <2>5 DEF RejectGoal
    <3> QED
      BY <2>4, <3>1, <3>2, <3>4, <3>5 DEF GoalInv, GoalKept, Excepted
  <2>6. CASE goals[commands[c].goal].status # "proposal"
    <3>1. Excepted' # {}
      BY <1>7, <2>6 DEF RejectGoal, Excepted
    <3> QED
      BY <2>3, <2>4, <3>1, GoalsSettled
  <2> QED
    BY <2>5, <2>6
<1>8. CASE BeginCapture(c)
  <2> DEFINE command == [NoCommand EXCEPT !.op = "capturing", !.at = goalClock + 1]
  <2>1. CommandFits(command)
    BY <1>0 DEF CommandFits, NoCommand
  <2>2. commands' = [commands EXCEPT ![c] = command] /\ history \subseteq history' /\ commands[c].op = "none"
    BY <1>8 DEF BeginCapture, StartCommand
  <2>3. UNCHANGED <<goals, chosen, snapshots>> /\ goalClock' \in Nat /\ ~WillStore(commands[c])
    BY <1>0, <1>8, <2>2 DEF BeginCapture, Stamp, WillStore
  <2> HIDE DEF command
  <2> QED
    BY <1>0, <2>1, <2>2, <2>3, GoalsAlone
<1>9. CASE CaptureSnapshot(c)
  <2>1. commands' = [commands EXCEPT ![c] = NoCommand] /\ UNCHANGED <<goals, chosen, history, goalClock>>
    BY <1>9 DEF CaptureSnapshot, EndCommand
  <2>2. ~WillStore(commands[c])
    BY <1>9 DEF CaptureSnapshot, WillStore
  <2>3. snapshots' \subseteq snapshots \cup {[at |-> commands[c].at, rows |-> goals]}
    BY <1>9 DEF CaptureSnapshot, Trimmed
  <2>4. SnapshotFits([at |-> commands[c].at, rows |-> goals])
    BY <1>0 DEF SnapshotFits, CommandFits
  <2> QED
    BY <1>0, <2>1, <2>2, <2>3, <2>4, GoalsAlone
<1>10. CASE BeginRestore(c)
  <2>1. PICK at \in {0} \cup {s.at : s \in snapshots} :
          StartCommand(c, [NoCommand EXCEPT !.op = "restoring", !.at = at])
    BY <1>10 DEF BeginRestore
  <2> DEFINE command == [NoCommand EXCEPT !.op = "restoring", !.at = at]
  <2>2. CommandFits(command)
    BY <1>0, <2>1 DEF CommandFits, NoCommand, SnapshotFits
  <2>3. commands' = [commands EXCEPT ![c] = command] /\ history \subseteq history' /\ commands[c].op = "none"
    BY <2>1 DEF StartCommand
  <2>4. UNCHANGED <<goals, chosen, snapshots, goalClock>> /\ ~WillStore(commands[c])
    BY <1>10, <2>3 DEF BeginRestore, WillStore
  <2> HIDE DEF command
  <2> QED
    BY <1>0, <2>2, <2>3, <2>4, GoalsAlone
<1>11. CASE ApplyRestore(c)
  <2>1. goals' \in GoalRows
    <3>1. CASE snapshots = {}
      BY <1>0, <1>11, <3>1 DEF ApplyRestore
    <3>2. CASE snapshots # {}
      <4>1. PICK s \in SnapshotFor(commands[c].at) :
              goals' = [g \in Goals |-> IF s.rows[g] = NoGoal THEN goals[g] ELSE s.rows[g]]
        BY <1>11, <3>2 DEF ApplyRestore
      <4>2. s \in snapshots
        BY <4>1 DEF SnapshotFor, LatestSnapshots
      <4> QED
        BY <1>0, <4>1, <4>2 DEF SnapshotFits, GoalRows
    <3> QED
      BY <3>1, <3>2
  <2>2. commands' = [commands EXCEPT ![c] = NoCommand] /\ UNCHANGED <<snapshots, goalClock>> /\ Excepted' # {}
    BY <1>11 DEF ApplyRestore, EndCommand, Excepted
  <2> QED
    BY <1>0, <2>1, <2>2, GoalsSettled
<1>12. CASE FailCommand(c)
  <2>1. commands' = [commands EXCEPT ![c] = NoCommand] /\ UNCHANGED <<goals, snapshots, goalClock>>
    BY <1>12 DEF FailCommand, EndCommand
  <2>2. Excepted' # {}
    BY <1>12 DEF FailCommand, Excepted
  <2> QED
    BY <1>0, <2>1, <2>2, GoalsSettled
<1> QED
  BY <1>1, <1>2, <1>3, <1>4, <1>5, <1>6, <1>7, <1>8, <1>9, <1>10, <1>11, <1>12 DEF GoalStep

\* Whatever commands overlap, the owner who has chosen a goal keeps one.
THEOREM GoalsAreKept == GoalsSpec => []NeverGoalless
<1>1. GoalsInit => GoalInv
  <2> SUFFICES ASSUME GoalsInit PROVE GoalInv
    OBVIOUS
  <2>1. NoGoal \in GoalRow /\ [status |-> "proposal", at |-> 0] \in GoalRow /\ CommandFits(NoCommand)
    BY DEF GoalRow, NoGoal, NoCommand, CommandFits
  <2>2. goals \in GoalRows
    BY <2>1 DEF GoalsInit, GoalRows
  <2>3. commands = [c \in Owners |-> commands[c]] /\ \A c \in Owners : commands[c] = NoCommand
    BY DEF GoalsInit
  <2> QED
    BY <2>1, <2>2, <2>3 DEF GoalsInit, GoalInv, GoalShape, GoalKept
<1>2. GoalInv /\ [GoalsNext]_goalVars => GoalInv'
  <2> SUFFICES ASSUME GoalInv, [GoalsNext]_goalVars PROVE GoalInv'
    OBVIOUS
  <2>1. CASE UNCHANGED goalVars
    BY <2>1 DEF goalVars, GoalInv, GoalShape, GoalRows, SnapshotFits, CommandFits, GoalKept, Excepted,
                AcceptedGoals, WillStore
  <2> QED
    BY <2>1, GoalStepKeeps DEF GoalsNext
<1>3. GoalInv => NeverGoalless
  BY DEF GoalInv, GoalKept, Excepted, NeverGoalless, WillStore
<1> QED
  BY <1>1, <1>2, <1>3, PTL DEF GoalsSpec

-----------------------------------------------------------------------------
\* What a reset holds while it awaits its probe: an open or half-open row as
\* consistent as any, whatever has been saved over it since.
CopiesConsistent ==
    \A c \in Clients : client[c].pc = "probing" =>
        Consistent(client[c].copy) /\ client[c].copy.state # "closed"

\* The row, its flushed image and the copies are what the row of the database
\* may become next, by a report, a probe or a crash.
BreakerInv == TypeOK /\ RecordConsistent /\ CopiesConsistent

-----------------------------------------------------------------------------
\* Reporting a failure or a success keeps the row in its type and consistent.
LEMMA BreakerReport ==
    ASSUME NEW r \in Record, Consistent(r)
    PROVE  /\ Failed(r) \in Record /\ Consistent(Failed(r))
           /\ Succeeded(r) \in Record /\ Consistent(Succeeded(r))
<1>1. Failed(r) \in Record /\ Consistent(Failed(r))
  BY BreakerAssumption DEF Failed, Consistent, Record, Opened
<1>2. Succeeded(r) \in Record /\ Consistent(Succeeded(r))
  BY BreakerAssumption DEF Succeeded, Consistent, Record, Opened, Fresh
<1> QED
  BY <1>1, <1>2

\* So does the answer of a probe, for a copy that is not closed.
LEMMA BreakerProbe ==
    ASSUME NEW r \in Record, Consistent(r), r.state # "closed",
           NEW answer \in {"available", "refused", "denied"}
    PROVE  Probed(r, answer) \in Record /\ Consistent(Probed(r, answer))
<1>1. CASE answer = "available"
  BY <1>1, BreakerAssumption DEF Probed, Consistent, Record, Opened, Fresh
<1>2. CASE answer = "refused"
  <2>1. Probed(r, answer) = [r EXCEPT !.state = "open", !.opened = "cooling"]
    BY <1>2 DEF Probed
  <2>2. Probed(r, answer) \in Record /\ Probed(r, answer).state = "open"
        /\ Probed(r, answer).opened = "cooling" /\ Probed(r, answer).failures = r.failures
    BY <2>1 DEF Record, Opened
  <2> QED
    BY <2>2 DEF Consistent, Record
<1>3. CASE answer = "denied"
  BY <1>3 DEF Probed
<1> QED
  BY <1>1, <1>2, <1>3

\* A row that was never written, or was closed.
LEMMA FreshConsistent == Fresh \in Record /\ Consistent(Fresh)
  BY BreakerAssumption DEF Fresh, Record, Consistent, Opened

-----------------------------------------------------------------------------
LEMMA BreakerStarts == Init => BreakerInv
  BY FreshConsistent, BreakerAssumption
  DEF Init, BreakerInv, TypeOK, RecordConsistent, CopiesConsistent, Idle, PCs

\* Starting, executing and returning change no row and make no copy.
LEMMA ClientKept ==
    ASSUME BreakerInv, NEW c \in Clients, NEW s \in [pc : PCs, copy : Record],
           s.pc = "probing" => Consistent(s.copy) /\ s.copy.state # "closed",
           client' = [client EXCEPT ![c] = s]
    PROVE  client' \in [Clients -> [pc : PCs, copy : Record]] /\ CopiesConsistent'
  BY DEF BreakerInv, TypeOK, CopiesConsistent

LEMMA BreakerStep == BreakerInv /\ [Next]_vars => BreakerInv'
<1> SUFFICES ASSUME BreakerInv, [Next]_vars PROVE BreakerInv'
  OBVIOUS
<1> USE FreshConsistent
<1>0. Idle \in [pc : PCs, copy : Record] /\ Idle.pc # "probing"
  BY DEF Idle, PCs
<1>1. ASSUME NEW c \in Clients, Start(c) PROVE BreakerInv'
  <2> DEFINE s == [pc |-> "started", copy |-> Fresh]
  <2>1. s \in [pc : PCs, copy : Record] /\ s.pc # "probing" /\ client' = [client EXCEPT ![c] = s]
    BY <1>1 DEF Start, Become, PCs
  <2> HIDE DEF s
  <2>2. client' \in [Clients -> [pc : PCs, copy : Record]] /\ CopiesConsistent'
    BY <2>1, ClientKept
  <2> QED
    BY <1>1, <2>2 DEF Start, BreakerInv, TypeOK, RecordConsistent
<1>2. ASSUME NEW c \in Clients, Execute(c) PROVE BreakerInv'
  <2>1. PICK result \in {"succeeded", "failed"} : Become(c, result, Fresh)
    BY <1>2 DEF Execute
  <2> DEFINE s == [pc |-> result, copy |-> Fresh]
  <2>2. s \in [pc : PCs, copy : Record] /\ s.pc # "probing" /\ client' = [client EXCEPT ![c] = s]
    BY <2>1 DEF Become, PCs
  <2> HIDE DEF s
  <2>3. client' \in [Clients -> [pc : PCs, copy : Record]] /\ CopiesConsistent'
    BY <2>2, ClientKept
  <2> QED
    BY <1>2, <2>3 DEF Execute, BreakerInv, TypeOK, RecordConsistent
<1>3. ASSUME NEW c \in Clients, Report(c) PROVE BreakerInv'
  <2>1. client' = [client EXCEPT ![c] = Idle]
    BY <1>3 DEF Report, Return
  <2>2. client' \in [Clients -> [pc : PCs, copy : Record]] /\ CopiesConsistent'
    BY <2>1, <1>0, ClientKept
  <2>3. rec \in Record /\ Consistent(rec)
    BY DEF BreakerInv, TypeOK, RecordConsistent
  <2>4. rec' \in Record /\ Consistent(rec')
    BY <1>3, <2>3, BreakerReport DEF Report
  <2> QED
    BY <1>3, <2>2, <2>4 DEF Report, BreakerInv, TypeOK, RecordConsistent
<1>4. ASSUME NEW c \in Clients, Reset(c) PROVE BreakerInv'
  <2> DEFINE s == [pc |-> "probing", copy |-> rec']
  <2>1. rec \in Record /\ Consistent(rec) /\ rec.state # "closed"
    BY <1>4 DEF BreakerInv, TypeOK, RecordConsistent, Reset
  <2>2. rec' \in Record /\ Consistent(rec') /\ rec'.state # "closed"
    BY <1>4, <2>1 DEF Reset, Record, Consistent
  <2>3. s \in [pc : PCs, copy : Record] /\ s.copy = rec' /\ client' = [client EXCEPT ![c] = s]
    BY <1>4, <2>2 DEF Reset, Become, PCs
  <2> HIDE DEF s
  <2>4. client' \in [Clients -> [pc : PCs, copy : Record]] /\ CopiesConsistent'
    BY <2>2, <2>3, ClientKept
  <2> QED
    BY <1>4, <2>2, <2>4 DEF Reset, BreakerInv, TypeOK, RecordConsistent
<1>5. ASSUME NEW c \in Clients, Probe(c) PROVE BreakerInv'
  <2>1. client' = [client EXCEPT ![c] = Idle]
    BY <1>5 DEF Probe, Return
  <2>2. client' \in [Clients -> [pc : PCs, copy : Record]] /\ CopiesConsistent'
    BY <2>1, <1>0, ClientKept
  <2>3. /\ client[c].copy \in Record /\ Consistent(client[c].copy)
        /\ client[c].copy.state # "closed"
        /\ rec \in Record /\ Consistent(rec)
    BY <1>5 DEF Probe, BreakerInv, TypeOK, RecordConsistent, CopiesConsistent
  <2>4. rec' \in Record /\ Consistent(rec')
    BY <1>5, <2>3, BreakerProbe DEF Probe
  <2> QED
    BY <1>5, <2>2, <2>4 DEF Probe, BreakerInv, TypeOK, RecordConsistent
<1>6. ASSUME Elapse PROVE BreakerInv'
  <2>1. rec' \in Record /\ Consistent(rec')
    BY <1>6 DEF Elapse, Cooled, BreakerInv, TypeOK, RecordConsistent, Record, Consistent, Opened
  <2> QED
    BY <1>6, <2>1 DEF Elapse, BreakerInv, TypeOK, RecordConsistent, CopiesConsistent
<1>7. CASE Flush
  BY <1>7 DEF Flush, BreakerInv, TypeOK, RecordConsistent, CopiesConsistent
<1>8. CASE Crash
  BY <1>0, <1>8, BreakerAssumption DEF Crash, BreakerInv, TypeOK, RecordConsistent, CopiesConsistent
<1>9. CASE UNCHANGED vars
  BY <1>9 DEF vars, BreakerInv, TypeOK, RecordConsistent, CopiesConsistent
<1> QED
  BY <1>1, <1>2, <1>3, <1>4, <1>5, <1>6, <1>7, <1>8, <1>9 DEF Next

\* The invariant the results below are conjuncts of.
THEOREM BreakerInvariant == Spec => []BreakerInv
  BY BreakerStarts, BreakerStep, PTL DEF Spec

\* Every variable keeps its type: the count never exceeds the threshold's range.
THEOREM BreakerTypeCorrect == Spec => []TypeOK
<1>1. BreakerInv => TypeOK
  BY DEF BreakerInv
<1> QED
  BY <1>1, BreakerInvariant, PTL

\* The row and its flushed image are consistent in every state, although resets
\* save copies that are out of date (circuit-breaker-manager.ts:206-251).
THEOREM BreakerConsistent == Spec => []RecordConsistent
<1>1. BreakerInv => RecordConsistent
  BY DEF BreakerInv
<1> QED
  BY <1>1, BreakerInvariant, PTL

-----------------------------------------------------------------------------
\* Only the end of a reset's probe, or a crash, takes an open breaker to closed.
THEOREM OnlyProbeRestores == Spec => RestoredByProbe
<1> DEFINE Restored ==
      (rec.state = "open" /\ rec'.state = "closed" /\ crashes' = crashes)
          => \E c \in Clients : client[c].pc = "probing" /\ client'[c].pc = "idle"
<1>1. BreakerInv /\ [Next]_vars => Restored
  <2> SUFFICES ASSUME BreakerInv, [Next]_vars, rec.state = "open", rec'.state = "closed",
                      crashes' = crashes
               PROVE  \E c \in Clients : client[c].pc = "probing" /\ client'[c].pc = "idle"
    OBVIOUS
  <2>1. rec' # rec /\ rec \in Record /\ client \in [Clients -> [pc : PCs, copy : Record]]
        /\ crashes \in Nat
    BY BreakerAssumption DEF BreakerInv, TypeOK
  <2>2. ASSUME NEW c \in Clients, Report(c) PROVE FALSE
    BY <2>1, <2>2 DEF Report, Failed, Succeeded, Record
  <2>3. ASSUME NEW c \in Clients, Reset(c) PROVE FALSE
    BY <2>1, <2>3 DEF Reset, Record
  <2>4. ASSUME NEW c \in Clients, Probe(c)
        PROVE  client[c].pc = "probing" /\ client'[c].pc = "idle"
    BY <2>1, <2>4 DEF Probe, Return, Idle
  <2>5. ~Elapse
    BY <2>1 DEF Elapse, Cooled, Record
  <2>6. ~Crash
    BY <2>1 DEF Crash
  <2> QED
    BY <2>1, <2>2, <2>3, <2>4, <2>5, <2>6 DEF Next, Start, Execute, Flush, vars
<1>2. [Restored]_vars <=> Restored
  BY DEF vars
<1> QED
  BY <1>1, BreakerInvariant, PTL DEF Spec, RestoredByProbe

-----------------------------------------------------------------------------
DbImage == [exists : BOOLEAN, version : 0..Latest, columns : SUBSET Adding, rows : SUBSET (1..MaxChanges),
          failed : BOOLEAN, stamped : BOOLEAN]

\* An image that was brought up to date: if it is behind it says so, and
\* unless it was taken for a new one it has all columns.
UpToDate(image) ==
    /\ image \in DbImage /\ image.exists = TRUE /\ image.version # 0
    /\ image.version < Latest => image.failed = TRUE
    /\ image.stamped = FALSE => image.columns = Adding

FileTrue == file = NoImage \/ (\E v \in OldVersions : file = OldImage(v)) \/ UpToDate(file)

\* Every image in memory is up to date, and as long as the processes come one
\* after the other each has every row that was written.
DatabaseInv ==
    /\ FileTrue
    /\ doing \in [Processes -> {"closed", "open", "flushing", "closing"}]
    /\ memory \in [Processes -> DbImage]
    /\ \A p \in Processes : doing[p] = "closed" => memory[p] = NoImage
    /\ \A p \in HaveOpen : UpToDate(memory[p])
    /\ openings \in 0..MaxOpenings /\ shared \in BOOLEAN /\ cut \in BOOLEAN
    /\ ~shared => \A p, q \in HaveOpen : p = q
    /\ ~shared /\ ~cut => written \subseteq file.rows /\ \A p \in HaveOpen : written \subseteq memory[p].rows

LEMMA FileTyped ==
    ASSUME FileTrue
    PROVE  file \in DbImage
<1>1. NoImage \in DbImage
  BY DatabaseAssumption DEF NoImage, DbImage
<1>2. ASSUME NEW v \in OldVersions PROVE OldImage(v) \in DbImage
  <2>1. v \in 0..Latest /\ Adding \cap 1..v \in SUBSET Adding
    BY DatabaseAssumption
  <2> QED
    BY <2>1 DEF OldImage, DbImage
<1> QED
  BY <1>1, <1>2 DEF FileTrue, UpToDate

\* Opening brings any file up to date, whatever migration is refused, and
\* loses none of its rows.
LEMMA Opened_UpToDate ==
    ASSUME FileTrue
    PROVE  UpToDate(Migrated(Bootstrapped(file))) /\ Migrated(Bootstrapped(file)).rows = file.rows
<1> DEFINE start == Bootstrapped(file)
           last == IF Refusals(start) = {} THEN Latest ELSE FirstRefusal(start) - 1
           done == Migrated(start)
<1>1. file \in DbImage
  BY FileTyped
<1>2. Latest \in Nat /\ Latest >= 1 /\ Defended \subseteq Adding /\ Adding \subseteq 1..Latest
  BY DatabaseAssumption
<1>3. /\ start \in DbImage /\ start.exists = TRUE /\ start.rows = file.rows
      /\ start.failed = file.failed
      /\ file.version = 0 => start.version = Latest
      /\ file.version # 0 => start.version = file.version
      /\ start.stamped = (file.stamped \/ (file.exists /\ file.version = 0))
      /\ file.exists = FALSE => start.columns = Adding
      /\ file.exists = TRUE => start.columns = file.columns \cup Defended
  <2> DEFINE filled == IF file.exists THEN file.columns ELSE Adding
             made == Created(file)
             version == IF file.version = 0 THEN Latest ELSE file.version
             stamp == file.stamped \/ (file.exists /\ file.version = 0)
             known == [made EXCEPT !.version = version, !.stamped = stamp]
  <2>1. filled \in SUBSET Adding /\ version \in 0..Latest /\ stamp \in BOOLEAN
    BY <1>1, <1>2 DEF DbImage
  <2>2. made = [file EXCEPT !.exists = TRUE, !.columns = filled]
    BY <1>1 DEF Created, DbImage
  <2>3. start = [known EXCEPT !.columns = @ \cup Defended]
    <3>1. made.version = file.version /\ made.stamped = file.stamped
      BY <1>1, <2>2 DEF DbImage
    <3> QED
      BY <3>1 DEF Bootstrapped, Defend
  <2>a. /\ file.version = 0 => version = Latest
        /\ file.version # 0 => version = file.version
        /\ file.exists = FALSE => filled = Adding
        /\ file.exists = TRUE => filled = file.columns
    OBVIOUS
  <2> HIDE DEF filled, made, version, stamp, start
  <2>4. /\ made \in DbImage /\ made.exists = TRUE /\ made.rows = file.rows /\ made.columns = filled
        /\ made.failed = file.failed
    BY <1>1, <2>1, <2>2 DEF DbImage
  <2>5. /\ known \in DbImage /\ known.exists = TRUE /\ known.rows = file.rows /\ known.columns = filled
        /\ known.failed = file.failed /\ known.version = version /\ known.stamped = stamp
    BY <2>1, <2>4 DEF DbImage
  <2> HIDE DEF known
  <2>6. /\ start \in DbImage /\ start.exists = TRUE /\ start.rows = file.rows /\ start.columns = filled \cup Defended
        /\ start.failed = file.failed /\ start.version = version /\ start.stamped = stamp
    BY <1>2, <2>1, <2>3, <2>5 DEF DbImage
  <2>7. start.stamped = (file.stamped \/ (file.exists /\ file.version = 0))
    BY <2>6 DEF stamp
  <2> QED
    BY <1>2, <2>6, <2>7, <2>a
<1> HIDE DEF start
<1>4. /\ last \in 1..Latest /\ last >= start.version
      /\ Refusals(start) # {} => last + 1 \in Refusals(start) /\ \A k \in Refusals(start) : last + 1 <= k
  <2>1. CASE Refusals(start) = {}
    BY <1>2, <1>3, <2>1 DEF DbImage
  <2>2. CASE Refusals(start) # {}
    <3>1. Refusals(start) \subseteq Nat
      <4>1. Refusals(start) \subseteq Adding
        BY DEF Refusals
      <4>2. 1..Latest \subseteq Nat
        OBVIOUS
      <4> QED
        BY <1>2, <4>1, <4>2
    <3>2. \E m \in Refusals(start) : \A k \in Refusals(start) : m <= k
      BY <2>2, <3>1, LeastNat
    <3>3. FirstRefusal(start) \in Refusals(start) /\ \A k \in Refusals(start) : FirstRefusal(start) <= k
      BY <3>2 DEF FirstRefusal
    <3>4. start.version \in 1..Latest
      BY <1>1, <1>2, <1>3 DEF DbImage
    <3>5. FirstRefusal(start) \in 1..Latest /\ FirstRefusal(start) > start.version
      BY <1>2, <3>3 DEF Refusals
    <3>6. last = FirstRefusal(start) - 1
      BY <2>2
    <3> HIDE DEF last
    <3> QED
      BY <1>2, <3>3, <3>4, <3>5, <3>6
  <2> QED
    BY <2>1, <2>2
<1>5. /\ done \in DbImage /\ done.exists = TRUE /\ done.rows = file.rows /\ done.version = last
      /\ done.stamped = start.stamped
      /\ done.columns = start.columns \cup (Adding \cap (start.version + 1)..last)
      /\ done.failed = (start.failed \/ Refusals(start) # {})
  <2>1. done = [start EXCEPT !.version = last, !.columns = @ \cup (Adding \cap (start.version + 1)..last),
                             !.failed = @ \/ Refusals(start) # {}]
    BY DEF Migrated
  <2> DEFINE wide == start.columns \cup (Adding \cap (start.version + 1)..last)
             mark == start.failed \/ Refusals(start) # {}
  <2> HIDE DEF done, last
  <2>2. wide \in SUBSET Adding /\ mark \in BOOLEAN /\ last \in 0..Latest
    BY <1>2, <1>3, <1>4 DEF DbImage
  <2>3. done = [start EXCEPT !.version = last, !.columns = wide, !.failed = mark]
    BY <1>3, <2>1 DEF DbImage
  <2> HIDE DEF wide, mark
  <2>4. /\ done \in DbImage /\ done.exists = TRUE /\ done.rows = file.rows /\ done.version = last
        /\ done.stamped = start.stamped /\ done.columns = wide /\ done.failed = mark
    BY <1>3, <2>2, <2>3 DEF DbImage
  <2> QED
    BY <2>4 DEF wide, mark
<1>6. done.version < Latest => done.failed = TRUE
  <2>1. Refusals(start) = {} => last = Latest
    OBVIOUS
  <2> HIDE DEF last, done
  <2>2. Latest \in Nat /\ ~(Latest < Latest)
    BY <1>2
  <2> QED
    BY <1>5, <2>1, <2>2
<1>7. done.stamped = FALSE => done.columns = Adding
  <2> SUFFICES ASSUME done.stamped = FALSE PROVE Adding \subseteq done.columns
    BY <1>5 DEF DbImage
  <2>1. start.stamped = FALSE /\ file.stamped = FALSE /\ (file.exists = FALSE \/ file.version # 0)
    BY <1>1, <1>3, <1>5 DEF DbImage
  <2>2. CASE file.exists = FALSE \/ UpToDate(file)
    BY <1>3, <1>5, <2>1, <2>2 DEF UpToDate
  <2>3. ASSUME NEW v \in OldVersions, file = OldImage(v) PROVE Adding \subseteq done.columns
    <3>1. v \in 0..Latest /\ file.exists = TRUE /\ file.version = v /\ file.columns = Adding \cap 1..v
      BY <2>3, DatabaseAssumption DEF OldImage
    <3>2. v # 0 /\ start.version = v /\ start.columns = (Adding \cap 1..v) \cup Defended
      BY <1>3, <2>1, <3>1
    <3> SUFFICES ASSUME NEW m \in Adding, m \notin Defended, m > v PROVE m <= last
      BY <1>2, <1>5, <3>1, <3>2
    <3>3. CASE Refusals(start) = {}
      BY <1>2, <3>3
    <3>4. CASE Refusals(start) # {}
      <4>1. last + 1 \in Refusals(start)
        BY <1>4, <3>4
      <4>2. last + 1 \in Defended
        BY <1>4, <3>1, <3>2, <4>1 DEF Refusals
      <4> HIDE DEF last
      <4> QED
        BY <1>2, <1>4, <4>2, DefensiveAssumption
    <3> QED
      BY <3>3, <3>4
  <2>4. NoImage.exists = FALSE
    BY DEF NoImage
  <2> HIDE DEF done, last
  <2> QED
    BY <2>2, <2>3, <2>4 DEF FileTrue
<1>8. UpToDate(done) /\ done.rows = file.rows
  <2>1. done.version # 0
    BY <1>4, <1>5
  <2> HIDE DEF done, last
  <2> QED
    BY <1>5, <1>6, <1>7, <2>1 DEF UpToDate
<1> QED
  BY <1>8 DEF done, start

LEMMA DatabaseStarts == DatabaseInit => DatabaseInv
<1> SUFFICES ASSUME DatabaseInit PROVE DatabaseInv
  OBVIOUS
<1>1. FileTrue
  BY DEF DatabaseInit, FileTrue
<1>2. /\ doing = [p \in Processes |-> "closed"] /\ memory = [p \in Processes |-> NoImage]
      /\ openings = 0 /\ shared = FALSE /\ cut = FALSE /\ written = {}
  BY DEF DatabaseInit
<1>3. NoImage \in DbImage
  BY DatabaseAssumption DEF NoImage, DbImage
<1>4. HaveOpen = {} /\ 0 \in 0..MaxOpenings
  BY <1>2, DatabaseAssumption DEF HaveOpen
<1> QED
  BY <1>1, <1>2, <1>3, <1>4 DEF DatabaseInv

LEMMA OpenDatabaseKeeps ==
    ASSUME DatabaseInv, NEW p \in Processes, OpenDatabase(p) PROVE DatabaseInv'
<1> DEFINE image == Migrated(Bootstrapped(file))
<1>1. UpToDate(image) /\ image.rows = file.rows
  BY Opened_UpToDate DEF DatabaseInv
<1>2. /\ doing[p] = "closed" /\ openings < MaxOpenings /\ openings' = openings + 1
      /\ memory' = [memory EXCEPT ![p] = image] /\ doing' = [doing EXCEPT ![p] = "open"]
      /\ shared' = (shared \/ \E q \in Processes : doing[q] # "closed")
      /\ file' = file /\ written' = written /\ cut' = cut
  BY DEF OpenDatabase, Read
<1> HIDE DEF image
<1>3. /\ doing' \in [Processes -> {"closed", "open", "flushing", "closing"}]
      /\ memory' \in [Processes -> DbImage] /\ HaveOpen' = HaveOpen \cup {p}
      /\ memory'[p] = image /\ \A q \in Processes \ {p} : memory'[q] = memory[q] /\ doing'[q] = doing[q]
  BY <1>1, <1>2 DEF DatabaseInv, HaveOpen, UpToDate
<1>4. FileTrue' /\ shared' \in BOOLEAN /\ cut' \in BOOLEAN
  BY <1>2 DEF DatabaseInv, FileTrue, UpToDate
<1>5. openings' \in 0..MaxOpenings
  BY <1>2, DatabaseAssumption DEF DatabaseInv
<1>6. \A q \in Processes : doing'[q] = "closed" => memory'[q] = NoImage
  BY <1>2, <1>3 DEF DatabaseInv
<1>7. \A q \in HaveOpen' : UpToDate(memory'[q])
  BY <1>1, <1>3 DEF DatabaseInv, HaveOpen
<1>8. ~shared' => HaveOpen = {} /\ ~shared
  BY <1>2 DEF HaveOpen
<1>9. ~shared' /\ ~cut' => written' \subseteq file'.rows /\ \A q \in HaveOpen' : written' \subseteq memory'[q].rows
  BY <1>1, <1>2, <1>3, <1>8 DEF DatabaseInv
<1> QED
  BY <1>3, <1>4, <1>5, <1>6, <1>7, <1>8, <1>9 DEF DatabaseInv, UpToDate

LEMMA ChangeKeeps ==
    ASSUME DatabaseInv, NEW p \in Processes, Change(p) PROVE DatabaseInv'
<1>1. PICK r \in 1..MaxChanges : memory' = [memory EXCEPT ![p].rows = @ \cup {r}]
  BY DEF Change
<1>2. /\ doing[p] = "open" /\ p \in HaveOpen
      /\ file' = file /\ doing' = doing /\ written' = written /\ openings' = openings
      /\ shared' = shared /\ cut' = cut /\ HaveOpen' = HaveOpen
  BY DEF Change, HaveOpen
<1> DEFINE image == [memory[p] EXCEPT !.rows = @ \cup {r}]
<1>3. /\ UpToDate(memory[p]) /\ memory[p] \in DbImage /\ memory \in [Processes -> DbImage]
  BY <1>2 DEF DatabaseInv
<1>4. /\ image \in DbImage /\ memory[p].rows \subseteq image.rows
      /\ UpToDate(image)
  BY <1>3 DEF DbImage, UpToDate
<1>5. memory' = [memory EXCEPT ![p] = image]
  BY <1>1, <1>3
<1> HIDE DEF image
<1>6. /\ memory' \in [Processes -> DbImage] /\ memory'[p] = image
      /\ \A q \in Processes \ {p} : memory'[q] = memory[q]
  BY <1>3, <1>4, <1>5
<1>7. FileTrue'
  BY <1>2 DEF DatabaseInv, FileTrue, UpToDate
<1>8. \A q \in HaveOpen' : UpToDate(memory'[q])
  BY <1>2, <1>4, <1>6 DEF DatabaseInv, HaveOpen
<1>9. \A q \in Processes : doing'[q] = "closed" => memory'[q] = NoImage
  BY <1>2, <1>6 DEF DatabaseInv
<1>10. ~shared' /\ ~cut' => written' \subseteq file'.rows /\ \A q \in HaveOpen' : written' \subseteq memory'[q].rows
  <2> SUFFICES ASSUME ~shared', ~cut', NEW q \in HaveOpen'
               PROVE  written' \subseteq file'.rows /\ written' \subseteq memory'[q].rows
    BY <1>2 DEF DatabaseInv
  <2>1. q \in Processes /\ written \subseteq file.rows /\ written \subseteq memory[q].rows
    BY <1>2 DEF DatabaseInv, HaveOpen
  <2> QED
    BY <1>2, <1>4, <1>6, <2>1
<1> QED
  BY <1>2, <1>6, <1>7, <1>8, <1>9, <1>10 DEF DatabaseInv

LEMMA BeginWriteKeeps ==
    ASSUME DatabaseInv, NEW p \in Processes, BeginWrite(p) PROVE DatabaseInv'
<1>1. PICK how \in {"flushing", "closing"} : doing' = [doing EXCEPT ![p] = how]
  BY DEF BeginWrite
<1>2. /\ doing[p] = "open" /\ p \in HaveOpen
      /\ file' = file /\ memory' = memory /\ written' = written /\ openings' = openings
      /\ shared' = shared /\ cut' = cut
  BY DEF BeginWrite, HaveOpen
<1>3. /\ doing' \in [Processes -> {"closed", "open", "flushing", "closing"}] /\ HaveOpen' = HaveOpen
      /\ \A q \in Processes : doing'[q] = "closed" => doing[q] = "closed"
  BY <1>1, <1>2 DEF DatabaseInv, HaveOpen
<1>4. FileTrue'
  BY <1>2 DEF DatabaseInv, FileTrue, UpToDate
<1>5. \A q \in HaveOpen' : UpToDate(memory'[q])
  BY <1>2, <1>3 DEF DatabaseInv
<1> QED
  BY <1>2, <1>3, <1>4, <1>5 DEF DatabaseInv

LEMMA EndWriteKeeps ==
    ASSUME DatabaseInv, NEW p \in Processes, EndWrite(p) PROVE DatabaseInv'
<1>1. /\ doing[p] \in {"flushing", "closing"} /\ p \in HaveOpen
      /\ file' = memory[p] /\ written' = written \cup memory[p].rows
      /\ openings' = openings /\ shared' = shared /\ cut' = cut
  BY DEF EndWrite, HaveOpen
<1>2. UpToDate(memory[p]) /\ FileTrue'
  BY <1>1 DEF DatabaseInv, FileTrue, UpToDate
<1>3. /\ doing \in [Processes -> {"closed", "open", "flushing", "closing"}]
      /\ memory \in [Processes -> DbImage] /\ NoImage \in DbImage
  BY DatabaseAssumption DEF DatabaseInv, NoImage, DbImage
<1>4. /\ \A q \in Processes \ {p} : doing'[q] = doing[q] /\ memory'[q] = memory[q]
      /\ \/ doing'[p] = "open" /\ memory'[p] = memory[p]
         \/ doing'[p] = "closed" /\ memory'[p] = NoImage
      /\ doing' \in [Processes -> {"closed", "open", "flushing", "closing"}]
      /\ memory' \in [Processes -> DbImage]
  <2>1. CASE doing[p] = "flushing"
    <3>1. doing' = [doing EXCEPT ![p] = "open"] /\ memory' = [memory EXCEPT ![p] = @]
      BY <2>1, <1>3 DEF EndWrite
    <3> QED
      BY <1>3, <3>1
  <2>2. CASE doing[p] = "closing"
    <3>1. doing' = [doing EXCEPT ![p] = "closed"] /\ memory' = [memory EXCEPT ![p] = NoImage]
      BY <2>2, <1>3 DEF EndWrite
    <3> QED
      BY <1>3, <3>1
  <2> QED
    BY <1>1, <2>1, <2>2
<1>5. HaveOpen' \subseteq HaveOpen /\ \A q \in HaveOpen' : memory'[q] = memory[q]
  BY <1>1, <1>4 DEF HaveOpen
<1>6. \A q \in HaveOpen' : UpToDate(memory'[q])
  BY <1>5 DEF DatabaseInv
<1>7. \A q \in Processes : doing'[q] = "closed" => memory'[q] = NoImage
  BY <1>4 DEF DatabaseInv
<1>8. ~shared' /\ ~cut' => written' \subseteq file'.rows /\ \A q \in HaveOpen' : written' \subseteq memory'[q].rows
  <2> SUFFICES ASSUME ~shared', ~cut' 
               PROVE  written' \subseteq file'.rows /\ \A q \in HaveOpen' : written' \subseteq memory'[q].rows
    OBVIOUS
  <2>1. written \subseteq memory[p].rows /\ \A q \in HaveOpen : q = p
    BY <1>1 DEF DatabaseInv
  <2> QED
    BY <1>1, <1>5, <2>1
<1> QED
  BY <1>1, <1>2, <1>4, <1>5, <1>6, <1>7, <1>8 DEF DatabaseInv

LEMMA DieKeeps ==
    ASSUME DatabaseInv, NEW p \in Processes, Die(p) PROVE DatabaseInv'
<1>1. /\ doing' = [doing EXCEPT ![p] = "closed"] /\ memory' = [memory EXCEPT ![p] = NoImage]
      /\ file' = file /\ written' = written /\ openings' = openings /\ shared' = shared
      /\ cut' = (cut \/ doing[p] # "open")
  BY DEF Die
<1>2. NoImage \in DbImage
  BY DatabaseAssumption DEF NoImage, DbImage
<1>3. /\ doing' \in [Processes -> {"closed", "open", "flushing", "closing"}]
      /\ memory' \in [Processes -> DbImage] /\ cut' \in BOOLEAN
      /\ HaveOpen' \subseteq HaveOpen /\ \A q \in HaveOpen' : memory'[q] = memory[q]
      /\ \A q \in Processes : doing'[q] = "closed" => memory'[q] = NoImage
  BY <1>1, <1>2 DEF DatabaseInv, HaveOpen
<1>4. FileTrue'
  BY <1>1 DEF DatabaseInv, FileTrue, UpToDate
<1>5. \A q \in HaveOpen' : UpToDate(memory'[q])
  BY <1>3 DEF DatabaseInv
<1>6. ~shared' /\ ~cut' => written' \subseteq file'.rows /\ \A q \in HaveOpen' : written' \subseteq memory'[q].rows
  BY <1>1, <1>3 DEF DatabaseInv
<1> QED
  BY <1>1, <1>3, <1>4, <1>5, <1>6 DEF DatabaseInv

LEMMA DatabaseStep == DatabaseInv /\ [DatabaseNext]_databaseVars => DatabaseInv'
<1> SUFFICES ASSUME DatabaseInv, [DatabaseNext]_databaseVars PROVE DatabaseInv'
  OBVIOUS
<1>1. CASE UNCHANGED databaseVars
  BY <1>1 DEF databaseVars, DatabaseInv, FileTrue, HaveOpen
<1>2. ASSUME NEW p \in Processes, OpenDatabase(p) \/ Change(p) \/ BeginWrite(p) \/ EndWrite(p) \/ Die(p)
      PROVE  DatabaseInv'
  BY <1>2, OpenDatabaseKeeps, ChangeKeeps, BeginWriteKeeps, EndWriteKeeps, DieKeeps
<1> QED
  BY <1>1, <1>2 DEF DatabaseNext

LEMMA DatabaseInvariant == DatabaseSpec => []DatabaseInv
  BY DatabaseStarts, DatabaseStep, PTL DEF DatabaseSpec

LEMMA DatabaseTyped == DatabaseInv => DatabaseTypeOK
<1> SUFFICES ASSUME DatabaseInv PROVE DatabaseTypeOK
  OBVIOUS
<1>1. file \in DbImage /\ memory \in [Processes -> DbImage]
  BY FileTyped DEF DatabaseInv
<1>2. \A p \in Processes : doing[p] # "closed" => memory[p].exists
  BY DEF DatabaseInv, HaveOpen, UpToDate
<1>3. \A p \in Processes : doing[p] = "closed" => ~memory[p].exists
  BY DEF DatabaseInv, NoImage
<1> QED
  BY <1>1, <1>2, <1>3 DEF DatabaseInv, DatabaseTypeOK, DbImage

\* What was flushed stays in the file, a database that is behind says so, and
\* one that recorded its version has every column (flush, runMigrations,
\* applyStateSchemaMigrations), however many migrations and processes there are.
THEOREM DatabaseKept == DatabaseSpec => []DatabaseKeeps
<1>1. DatabaseInv => DatabaseKeeps
  BY DEF DatabaseInv, DatabaseKeeps, FlushedIsKept, BehindIsMarked, ColumnsComplete, HaveOpen, UpToDate, DbImage
<1> QED
  BY <1>1, DatabaseInvariant, PTL

-----------------------------------------------------------------------------
Frame == [status : FrameStates, revises : 0..MaxFrames, at : 0..MaxEdits, seen : BOOLEAN]
Edit == [op : {"none", "reading", "superseding", "accepting", "revising", "dismissing", "marking"},
         frame : 0..MaxFrames, other : 0..MaxFrames, read : FrameStates, status : FrameStates]
Editing == {e \in Editors : edits[e].op # "none"}

\* Every call in progress may accept one frame more.
FrameShape ==
    /\ frames \in Seq(Frame) /\ Len(frames) <= MaxFrames
    /\ \A f \in DOMAIN frames :
           frames[f].at <= moments /\ frames[f].revises # f /\ frames[f].revises \in 0..Len(frames)
    /\ begunEdits \in 0..MaxEdits /\ moments \in Nat
    /\ IsFiniteSet(Editing) /\ moments + Cardinality(Editing) <= begunEdits
    /\ voiced \in BOOLEAN

\* A call is about a frame, and not about the same one twice; a call that will
\* accept its frame read it as a candidate, and a dismissal silences it.
EditShape ==
    /\ edits \in [Editors -> Edit]
    /\ \A e \in Editors : edits[e].frame \in 0..Len(frames) /\ edits[e].other \in 0..Len(frames)
    /\ \A e \in Editing : edits[e].frame # 0 /\ edits[e].other # edits[e].frame
    /\ \A e \in Editors : edits[e].op = "superseding" => edits[e].other # 0
    /\ \A e \in Editors : edits[e].op \in {"reading", "superseding", "accepting"} => edits[e].read = "candidate"
    /\ \A e \in Editors : edits[e].op = "dismissing" => edits[e].status \in Silenced

\* The voice is carried by an accepted frame, or by the successor of the one
\* just superseded.
Voiced == voiced => Accepted # {} \/ \E e \in Editors : edits[e].op = "accepting" /\ edits[e].other # 0

FramesInv == FrameShape /\ EditShape /\ Voiced

LEMMA FramesStart == FramesInit => FramesInv
<1> SUFFICES ASSUME FramesInit PROVE FramesInv
  OBVIOUS
<1>1. /\ frames = <<>> /\ edits = [e \in Editors |-> NoEdit] /\ begunEdits = 0 /\ moments = 0
      /\ voiced = FALSE
  BY DEF FramesInit
<1>2. NoEdit \in Edit /\ NoEdit.op = "none" /\ NoEdit.frame = 0 /\ NoEdit.other = 0
  BY FrameAssumption DEF NoEdit, Edit, FrameStates
<1>3. Editing = {} /\ frames \in Seq(Frame) /\ Len(frames) = 0 /\ DOMAIN frames = {}
  BY <1>1, <1>2, EmptySeq DEF Editing
<1>4. IsFiniteSet(Editing) /\ Cardinality(Editing) = 0
  BY <1>3, FS_EmptySet
<1>5. 0 \in 0..MaxEdits /\ 0 \in Nat /\ 0 + 0 <= 0 /\ 0 <= MaxFrames
  BY FrameAssumption
<1>6. FrameShape
  <2>1. \A f \in DOMAIN frames :
            frames[f].at <= moments /\ frames[f].revises # f /\ frames[f].revises \in 0..Len(frames)
    BY <1>3
  <2>2. moments + Cardinality(Editing) <= begunEdits
    BY <1>1, <1>4
  <2>3. Len(frames) <= MaxFrames /\ begunEdits \in 0..MaxEdits /\ moments \in Nat
    BY <1>1, <1>3, <1>5
  <2> QED
    BY <1>1, <1>3, <1>4, <2>1, <2>2, <2>3 DEF FrameShape
<1>7. EditShape
  BY <1>1, <1>2, <1>3 DEF EditShape
<1> QED
  BY <1>1, <1>2, <1>3, <1>6, <1>7 DEF FramesInv, Voiced

\* The books of a call that begins.
LEMMA EditBegins ==
    ASSUME FrameShape, EditShape, NEW e \in Editors, NEW next \in Edit, next.op # "none", StartEdit(e, next)
    PROVE  /\ edits' = [edits EXCEPT ![e] = next] /\ edits' \in [Editors -> Edit] /\ edits'[e] = next
           /\ \A d \in Editors \ {e} : edits'[d] = edits[d]
           /\ edits[e].op = "none" /\ Editing' = Editing \cup {e}
           /\ begunEdits' \in 0..MaxEdits /\ IsFiniteSet(Editing')
           /\ moments + Cardinality(Editing') <= begunEdits'
<1>1. /\ edits[e].op = "none" /\ begunEdits < MaxEdits /\ begunEdits' = begunEdits + 1
      /\ edits' = [edits EXCEPT ![e] = next]
  BY DEF StartEdit
<1>2. edits \in [Editors -> Edit]
  BY DEF EditShape
<1>3. /\ edits' \in [Editors -> Edit] /\ edits'[e] = next
      /\ \A d \in Editors \ {e} : edits'[d] = edits[d]
  BY <1>1, <1>2
<1>4. Editing' = Editing \cup {e} /\ e \notin Editing
  BY <1>1, <1>3 DEF Editing
<1>5. IsFiniteSet(Editing') /\ Cardinality(Editing') = Cardinality(Editing) + 1 /\ Cardinality(Editing) \in Nat
  BY <1>4, FS_AddElement, FS_CardinalityType DEF FrameShape
<1>6. begunEdits' \in 0..MaxEdits /\ moments + Cardinality(Editing') <= begunEdits'
  BY <1>1, <1>5, FrameAssumption DEF FrameShape
<1> QED
  BY <1>1, <1>3, <1>4, <1>5, <1>6 DEF FrameShape

\* The books of a call that ends.
LEMMA EditEnds ==
    ASSUME FrameShape, EditShape, NEW e \in Editing, EndEdit(e)
    PROVE  /\ edits' \in [Editors -> Edit] /\ edits'[e] = NoEdit
           /\ \A d \in Editors \ {e} : edits'[d] = edits[d]
           /\ Editing' = Editing \ {e} /\ IsFiniteSet(Editing')
           /\ moments + Cardinality(Editing') + 1 <= begunEdits
           /\ e \in Editors /\ edits[e].frame \in DOMAIN frames
<1>1. e \in Editors /\ edits' = [edits EXCEPT ![e] = NoEdit] /\ edits \in [Editors -> Edit]
  BY DEF EndEdit, EditShape, Editing
<1>2. NoEdit \in Edit /\ NoEdit.op = "none"
  BY FrameAssumption DEF NoEdit, Edit, FrameStates
<1>3. /\ edits' \in [Editors -> Edit] /\ edits'[e] = NoEdit
      /\ \A d \in Editors \ {e} : edits'[d] = edits[d]
  BY <1>1, <1>2
<1>4. Editing' = Editing \ {e}
  BY <1>1, <1>2, <1>3 DEF Editing
<1>5. IsFiniteSet(Editing') /\ Cardinality(Editing') = Cardinality(Editing) - 1 /\ Cardinality(Editing) \in Nat
  BY <1>4, FS_RemoveElement, FS_CardinalityType DEF FrameShape
<1>6. moments + Cardinality(Editing') + 1 <= begunEdits
  BY <1>5 DEF FrameShape
<1>7. edits[e].frame \in 1..Len(frames) /\ DOMAIN frames = 1..Len(frames)
  BY <1>1, LenProperties DEF EditShape, FrameShape
<1> QED
  BY <1>1, <1>3, <1>4, <1>5, <1>6, <1>7

\* Each call keeps its shape when one takes a step and no frame is lost.
LEMMA EditShapeKept ==
    ASSUME EditShape, NEW e \in Editors, NEW next \in Edit, edits' \in [Editors -> Edit], edits'[e] = next,
           \A d \in Editors \ {e} : edits'[d] = edits[d],
           Len(frames) \in Nat, Len(frames') \in Nat, Len(frames) <= Len(frames'),
           next.frame \in 0..Len(frames'), next.other \in 0..Len(frames'),
           next.op # "none" => next.frame # 0 /\ next.other # next.frame,
           next.op = "superseding" => next.other # 0,
           next.op \in {"reading", "superseding", "accepting"} => next.read = "candidate",
           next.op = "dismissing" => next.status \in Silenced
    PROVE  EditShape'
<1>1. \A k \in 0..Len(frames) : k \in 0..Len(frames')
  OBVIOUS
<1>2. ASSUME NEW d \in Editors
      PROVE  /\ edits'[d].frame \in 0..Len(frames') /\ edits'[d].other \in 0..Len(frames')
             /\ edits'[d].op # "none" => edits'[d].frame # 0 /\ edits'[d].other # edits'[d].frame
             /\ edits'[d].op = "superseding" => edits'[d].other # 0
             /\ edits'[d].op \in {"reading", "superseding", "accepting"} => edits'[d].read = "candidate"
             /\ edits'[d].op = "dismissing" => edits'[d].status \in Silenced
  <2>1. CASE d = e
    BY <2>1
  <2>2. CASE d # e
    <3>1. edits'[d] = edits[d]
      BY <2>2
    <3>2. edits[d].frame \in 0..Len(frames) /\ edits[d].other \in 0..Len(frames)
      BY DEF EditShape
    <3>3. edits[d].op # "none" => edits[d].frame # 0 /\ edits[d].other # edits[d].frame
      BY DEF EditShape, Editing
    <3> QED
      BY <1>1, <3>1, <3>2, <3>3 DEF EditShape
  <2> QED
    BY <2>1, <2>2
<1> QED
  BY <1>2 DEF EditShape, Editing

\* A call that only begins.
LEMMA EditOpens ==
    ASSUME FramesInv, NEW e \in Editors, NEW next \in Edit, next.op # "none", StartEdit(e, next),
           frames' = frames, moments' = moments, voiced' = voiced,
           next.frame \in DOMAIN frames, next.other \in 0..Len(frames), next.other # next.frame,
           next.op = "superseding" => next.other # 0,
           next.op \in {"reading", "superseding", "accepting"} => next.read = "candidate",
           next.op = "dismissing" => next.status \in Silenced
    PROVE  FramesInv'
<1>1. FrameShape /\ EditShape /\ Voiced
  BY DEF FramesInv
<1>2. /\ edits' \in [Editors -> Edit] /\ edits'[e] = next
      /\ \A d \in Editors \ {e} : edits'[d] = edits[d]
      /\ edits[e].op = "none" /\ Editing' = Editing \cup {e}
      /\ begunEdits' \in 0..MaxEdits /\ IsFiniteSet(Editing')
      /\ moments + Cardinality(Editing') <= begunEdits'
  BY <1>1, EditBegins
<1>3. frames' = frames /\ moments' = moments /\ voiced' = voiced /\ Accepted' = Accepted
  BY DEF Accepted
<1>4. next.frame \in 0..Len(frames) /\ next.frame # 0
  BY <1>1, LenProperties DEF FrameShape
<1>5. FrameShape'
  BY <1>1, <1>2, <1>3 DEF FrameShape
<1>6. EditShape'
  <2>1. Len(frames) \in Nat /\ Len(frames) <= Len(frames)
    BY <1>1, LenProperties DEF FrameShape
  <2> QED
    BY <1>1, <1>2, <1>3, <1>4, <2>1, EditShapeKept
<1>7. Voiced'
  BY <1>1, <1>2, <1>3 DEF Voiced
<1> QED
  BY <1>5, <1>6, <1>7 DEF FramesInv

\* A call in progress that only goes on, or ends with nothing written.
LEMMA EditGoesOn ==
    ASSUME FramesInv, NEW e \in Editing, NEW next \in Edit, edits' = [edits EXCEPT ![e] = next],
           next = NoEdit \/ (next.op # "none" /\ next.frame = edits[e].frame),
           frames' = frames, begunEdits' = begunEdits, moments' = moments,
           voiced' \in BOOLEAN, voiced' => voiced, edits[e].op = "accepting" /\ voiced' => Accepted # {},
           next.other \in 0..Len(frames), next.op # "none" => next.other # next.frame,
           next.op = "superseding" => next.other # 0,
           next.op \in {"reading", "superseding", "accepting"} => next.read = "candidate",
           next.op = "dismissing" => next.status \in Silenced
    PROVE  FramesInv'
<1>1. FrameShape /\ EditShape /\ Voiced
  BY DEF FramesInv
<1>2. e \in Editors /\ edits \in [Editors -> Edit] /\ edits[e].op # "none"
  BY <1>1 DEF EditShape, Editing
<1>3. /\ edits' \in [Editors -> Edit] /\ edits'[e] = next
      /\ \A d \in Editors \ {e} : edits'[d] = edits[d]
  BY <1>2
<1>4. NoEdit.op = "none" /\ NoEdit.frame = 0 /\ NoEdit.other = 0
  BY DEF NoEdit
<1>5. Editing' \subseteq Editing /\ Editing \ {e} = Editing' \ {e}
  BY <1>2, <1>3 DEF Editing
<1>6. /\ IsFiniteSet(Editing') /\ Cardinality(Editing') <= Cardinality(Editing)
      /\ Cardinality(Editing) \in Nat /\ Cardinality(Editing') \in Nat
  BY <1>1, <1>5, FS_Subset, FS_CardinalityType DEF FrameShape
<1>7. Accepted' = Accepted
  BY DEF Accepted
<1>8. FrameShape'
  <2>1. moments' + Cardinality(Editing') <= begunEdits'
    BY <1>1, <1>6 DEF FrameShape
  <2> QED
    BY <1>1, <1>6, <2>1 DEF FrameShape
<1>9. 0 \in 0..Len(frames) /\ edits[e].frame \in 0..Len(frames)
  BY <1>1, <1>2, LenProperties DEF FrameShape, EditShape
<1>10. EditShape'
  <2>1. Len(frames) \in Nat /\ Len(frames) <= Len(frames)
    BY <1>1, LenProperties DEF FrameShape
  <2>2. next.frame \in 0..Len(frames) /\ (next.op # "none" => next.frame # 0)
    BY <1>1, <1>2, <1>4, <1>9 DEF EditShape, Editing
  <2> QED
    BY <1>1, <1>2, <1>3, <2>1, <2>2, EditShapeKept
<1>11. Voiced'
  BY <1>1, <1>2, <1>3, <1>7 DEF Voiced
<1> QED
  BY <1>8, <1>10, <1>11 DEF FramesInv

\* A frame that is written anew: one more candidate.
LEMMA FrameWritten ==
    ASSUME FrameShape, NEW base \in 0..Len(frames), Len(frames) < MaxFrames,
           frames' = Append(frames, NewFrame(base))
    PROVE  /\ frames' \in Seq(Frame) /\ Len(frames') = Len(frames) + 1 /\ Len(frames') <= MaxFrames
           /\ DOMAIN frames \subseteq DOMAIN frames' /\ \A f \in DOMAIN frames : frames'[f] = frames[f]
           /\ Len(frames) + 1 \in DOMAIN frames' /\ frames'[Len(frames) + 1] = NewFrame(base)
           /\ \A f \in DOMAIN frames' : f \in DOMAIN frames \/ f = Len(frames) + 1
           /\ \A f \in DOMAIN frames' :
                  frames'[f].at <= moments /\ frames'[f].revises # f /\ frames'[f].revises \in 0..Len(frames')
           /\ Accepted' = Accepted /\ Len(frames) \in Nat /\ DOMAIN frames = 1..Len(frames)
<1>1. frames \in Seq(Frame) /\ Len(frames) \in Nat /\ DOMAIN frames = 1..Len(frames) /\ moments \in Nat
  BY LenProperties DEF FrameShape
<1>2. /\ NewFrame(base) \in Frame /\ NewFrame(base).at = 0 /\ NewFrame(base).revises = base
      /\ NewFrame(base).status = "candidate"
  BY <1>1, FrameAssumption DEF NewFrame, Frame, FrameStates, FrameShape
<1>3. /\ frames' \in Seq(Frame) /\ Len(frames') = Len(frames) + 1
      /\ \A f \in 1..Len(frames) : frames'[f] = frames[f]
      /\ frames'[Len(frames) + 1] = NewFrame(base)
  BY <1>1, <1>2, AppendProperties
<1>4. DOMAIN frames' = 1..(Len(frames) + 1)
  BY <1>3, LenProperties
<1>5. /\ DOMAIN frames \subseteq DOMAIN frames' /\ Len(frames) + 1 \in DOMAIN frames'
      /\ \A f \in DOMAIN frames' : f \in DOMAIN frames \/ f = Len(frames) + 1
      /\ Len(frames') <= MaxFrames
  BY <1>1, <1>3, <1>4, FrameAssumption
<1>6. base # Len(frames) + 1
  BY <1>1
<1>7. ASSUME NEW f \in DOMAIN frames' 
      PROVE  frames'[f].at <= moments /\ frames'[f].revises # f /\ frames'[f].revises \in 0..Len(frames')
  <2>1. CASE f \in DOMAIN frames
    BY <1>1, <1>3, <2>1 DEF FrameShape
  <2>2. CASE f = Len(frames) + 1
    BY <1>1, <1>2, <1>3, <1>6, <2>2
  <2> QED
    BY <1>5, <2>1, <2>2
<1>8. Accepted' = Accepted
  BY <1>1, <1>2, <1>3, <1>5 DEF Accepted
<1> QED
  BY <1>1, <1>3, <1>5, <1>7, <1>8

LEMMA RefreshKeeps == ASSUME FramesInv, NEW e \in Editors, RefreshFrame(e) PROVE FramesInv'
<1> DEFINE next == [NoEdit EXCEPT !.op = "reading", !.frame = Len(frames) + 1]
<1>1. FrameShape /\ EditShape /\ Voiced
  BY DEF FramesInv
<1>2. /\ Len(frames) < MaxFrames /\ StartEdit(e, next) /\ frames' = Append(frames, NewFrame(0))
      /\ moments' = moments /\ voiced' = voiced
  BY DEF RefreshFrame
<1>3. 0 \in 0..Len(frames) /\ Len(frames) \in Nat /\ Len(frames) + 1 \in 0..MaxFrames
  BY <1>1, <1>2, LenProperties, FrameAssumption DEF FrameShape
<1>4. /\ next \in Edit /\ next.op = "reading" /\ next.frame = Len(frames) + 1 /\ next.other = 0
      /\ next.read = "candidate"
  <2>1. NoEdit \in Edit /\ NoEdit.other = 0 /\ NoEdit.read = "candidate"
    BY FrameAssumption DEF NoEdit, Edit, FrameStates
  <2> QED
    BY <1>3, <2>1 DEF Edit
<1> HIDE DEF next
<1>5. /\ edits' \in [Editors -> Edit] /\ edits'[e] = next
      /\ \A d \in Editors \ {e} : edits'[d] = edits[d]
      /\ edits[e].op = "none" /\ Editing' = Editing \cup {e}
      /\ begunEdits' \in 0..MaxEdits /\ IsFiniteSet(Editing')
      /\ moments + Cardinality(Editing') <= begunEdits'
  BY <1>1, <1>2, <1>4, EditBegins
<1>6. /\ frames' \in Seq(Frame) /\ Len(frames') = Len(frames) + 1 /\ Len(frames') <= MaxFrames
      /\ DOMAIN frames \subseteq DOMAIN frames' /\ \A f \in DOMAIN frames : frames'[f] = frames[f]
      /\ Len(frames) + 1 \in DOMAIN frames' /\ frames'[Len(frames) + 1] = NewFrame(0)
      /\ \A f \in DOMAIN frames' :
                  frames'[f].at <= moments /\ frames'[f].revises # f /\ frames'[f].revises \in 0..Len(frames')
      /\ Accepted' = Accepted
  BY <1>1, <1>2, <1>3, FrameWritten
<1>7. FrameShape'
  BY <1>1, <1>2, <1>5, <1>6 DEF FrameShape
<1>8. EditShape'
  <2>1. Len(frames') \in Nat /\ Len(frames) <= Len(frames')
    BY <1>3, <1>6
  <2>2. Len(frames) + 1 \in 0..Len(frames') /\ 0 \in 0..Len(frames') /\ Len(frames) + 1 # 0
    BY <1>3, <1>6
  <2> QED
    BY <1>1, <1>3, <1>4, <1>5, <2>1, <2>2, EditShapeKept
<1>9. Voiced'
  BY <1>1, <1>2, <1>5, <1>6 DEF Voiced
<1> QED
  BY <1>7, <1>8, <1>9 DEF FramesInv

\* The frame that speaks is one of the accepted.
LEMMA LatestIsAccepted ==
    ASSUME FrameShape, Accepted # {} PROVE LatestAccepted \in Accepted /\ LatestAccepted # 0
<1>1. frames \in Seq(Frame) /\ moments \in Nat /\ DOMAIN frames = 1..Len(frames)
  BY LenProperties DEF FrameShape
<1>2. \A f \in Accepted : frames[f] \in Frame /\ frames[f].at <= moments
  BY <1>1, ElementOfSeq DEF FrameShape, Accepted
<1> DEFINE T == {frames[f].at : f \in Accepted}
<1>3. T \subseteq Nat /\ T # {} /\ \A a \in T : a <= moments
  BY <1>2 DEF Frame
<1>4. PICK a \in T : \A b \in T : b <= a
  <2> HIDE DEF T
  <2> QED
    BY <1>1, <1>3, LargestNat
<1>5. PICK f \in Accepted : a = frames[f].at
  BY <1>4
<1>6. \A g \in Accepted : frames[g].at <= frames[f].at
  BY <1>4, <1>5
<1>7. LatestAccepted \in Accepted
  BY <1>6 DEF LatestAccepted
<1> QED
  BY <1>1, <1>7 DEF Accepted

LEMMA ReadPreviousKeeps == ASSUME FramesInv, NEW e \in Editors, ReadPrevious(e) PROVE FramesInv'
<1>1. FrameShape /\ EditShape /\ Voiced
  BY DEF FramesInv
<1>2. /\ edits[e].op = "reading" /\ e \in Editing /\ edits \in [Editors -> Edit] /\ edits[e] \in Edit
      /\ edits[e].other # edits[e].frame /\ edits[e].other \in 0..Len(frames)
      /\ edits[e].read = "candidate"
  BY <1>1 DEF ReadPrevious, EditShape, Editing
<1>3. /\ frames' = frames /\ begunEdits' = begunEdits /\ moments' = moments
      /\ voiced' = voiced /\ voiced \in BOOLEAN
  BY <1>1 DEF ReadPrevious, FrameShape
<1>4. CASE NextStep(e, "accepting")
  <2> DEFINE next == [edits[e] EXCEPT !.op = "accepting"]
  <2>1. edits' = [edits EXCEPT ![e] = next]
    BY <1>2, <1>4 DEF NextStep
  <2>2. /\ next \in Edit /\ next.op = "accepting" /\ next.frame = edits[e].frame /\ next.other = edits[e].other
        /\ next.read = "candidate"
    BY <1>2 DEF Edit
  <2> HIDE DEF next
  <2> QED
    BY <1>2, <1>3, <2>1, <2>2, EditGoesOn
<1>5. CASE /\ LatestAccepted \notin {0, edits[e].frame}
           /\ edits' = [edits EXCEPT ![e].op = "superseding", ![e].other = LatestAccepted]
  <2> DEFINE next == [edits[e] EXCEPT !.op = "superseding", !.other = LatestAccepted]
  <2>1. Accepted # {}
    BY <1>5 DEF LatestAccepted
  <2>2. LatestAccepted \in 0..Len(frames) /\ LatestAccepted \in 0..MaxFrames /\ LatestAccepted # 0
    <3>1. LatestAccepted \in 1..Len(frames) /\ Len(frames) <= MaxFrames /\ Len(frames) \in Nat
      BY <1>1, <2>1, LatestIsAccepted, LenProperties DEF FrameShape, Accepted
    <3> QED
      BY <3>1, FrameAssumption
  <2>3. edits' = [edits EXCEPT ![e].op = "superseding", ![e].other = LatestAccepted]
    BY <1>5
  <2>4. edits' = [edits EXCEPT ![e] = next]
    BY <1>2, <2>3
  <2>5. /\ next \in Edit /\ next.op = "superseding" /\ next.frame = edits[e].frame
        /\ next.other = LatestAccepted /\ next.read = "candidate"
    BY <1>2, <2>2 DEF Edit
  <2> HIDE DEF next
  <2> QED
    BY <1>2, <1>3, <1>5, <2>2, <2>4, <2>5, EditGoesOn
<1> QED
  BY <1>4, <1>5 DEF ReadPrevious

LEMMA ContestKeeps == ASSUME FramesInv, NEW e \in Editors, Contest(e) PROVE FramesInv'
<1>1. FrameShape /\ EditShape /\ Voiced
  BY DEF FramesInv
<1>2. PICK f \in DOMAIN frames : \E action \in Contestable(frames[f].status) :
          StartEdit(e, LET Chosen == [NoEdit EXCEPT !.frame = f, !.read = frames[f].status] IN
               CASE action = "revise" -> [Chosen EXCEPT !.op = "revising"]
                 [] action = "accept" -> [Chosen EXCEPT !.op = IF frames[f].revises = 0 THEN "accepting" ELSE "superseding",
                                                       !.other = frames[f].revises]
                 [] OTHER             -> [Chosen EXCEPT !.op = "dismissing", !.status = StatusAfter(action)])
  BY Zenon DEF Contest
<1> DEFINE Chosen == [NoEdit EXCEPT !.frame = f, !.read = frames[f].status]
           Turn(action) ==
               CASE action = "revise" -> [Chosen EXCEPT !.op = "revising"]
                 [] action = "accept" -> [Chosen EXCEPT !.op = IF frames[f].revises = 0 THEN "accepting" ELSE "superseding",
                                                       !.other = frames[f].revises]
                 [] OTHER             -> [Chosen EXCEPT !.op = "dismissing", !.status = StatusAfter(action)]
<1>3. PICK action \in Contestable(frames[f].status) : StartEdit(e, Turn(action))
  BY <1>2, Zenon
<1>4. frames' = frames /\ moments' = moments /\ voiced' = voiced
  BY DEF Contest
<1> HIDE DEF Chosen
<1>5. /\ frames[f] \in Frame /\ f \in 1..Len(frames) /\ f \in 0..MaxFrames /\ frames[f].revises # f
      /\ Len(frames) \in Nat /\ 0 \in 0..MaxFrames /\ 0 \in 0..Len(frames) /\ 0 # f
  <2>1. frames[f] \in Frame /\ f \in 1..Len(frames) /\ Len(frames) \in Nat /\ Len(frames) <= MaxFrames
    BY <1>1, ElementOfSeq, LenProperties DEF FrameShape
  <2> QED
    BY <1>1, <2>1, FrameAssumption DEF FrameShape
<1>6. /\ Chosen \in Edit /\ Chosen.frame = f /\ Chosen.other = 0 /\ Chosen.read = frames[f].status
      /\ Chosen.status = "candidate"
  <2>1. frames[f].status \in FrameStates
    BY <1>5 DEF Frame
  <2> QED
    BY <1>5, <2>1, FrameAssumption DEF Chosen, NoEdit, Edit, FrameStates
<1>7. CASE action = "revise"
  <2> DEFINE next == [Chosen EXCEPT !.op = "revising"]
  <2>1. StartEdit(e, next)
    <3>1. Turn(action) = next
      BY <1>7
    <3> QED
      BY <1>3, <3>1, Zenon
  <2>2. next \in Edit /\ next.op = "revising" /\ next.frame = f /\ next.other = 0
    BY <1>5, <1>6 DEF Edit
  <2> HIDE DEF next
  <2> QED
    BY <1>4, <1>5, <2>1, <2>2, EditOpens
<1>8. CASE action = "accept"
  <2> DEFINE op == IF frames[f].revises = 0 THEN "accepting" ELSE "superseding"
             next == [Chosen EXCEPT !.op = op, !.other = frames[f].revises]
  <2>1. StartEdit(e, next)
    <3>1. Turn(action) = next
      BY <1>8
    <3> QED
      BY <1>3, <3>1, Zenon
  <2>2. op \in {"accepting", "superseding"} /\ (op = "superseding" => frames[f].revises # 0)
    OBVIOUS
  <2> HIDE DEF op
  <2>3. frames[f].revises \in 0..MaxFrames
    BY <1>5 DEF Frame
  <2>4. /\ next \in Edit /\ next.op = op /\ next.frame = f /\ next.other = frames[f].revises
        /\ next.read = frames[f].status
    BY <1>5, <1>6, <2>2, <2>3 DEF Edit
  <2> HIDE DEF next
  <2>5. frames[f].status = "candidate"
    BY <1>3, <1>5, <1>8 DEF Contestable, Frame, FrameStates
  <2>6. frames[f].revises \in 0..Len(frames)
    BY <1>1 DEF FrameShape
  <2> QED
    BY <1>4, <1>5, <2>1, <2>2, <2>4, <2>5, <2>6, EditOpens
<1>9. CASE action \notin {"revise", "accept"}
  <2> DEFINE next == [Chosen EXCEPT !.op = "dismissing", !.status = StatusAfter(action)]
  <2>1. StartEdit(e, next)
    <3>1. Turn(action) = next
      BY <1>9
    <3> QED
      BY <1>3, <3>1, Zenon
  <2>2. action \in {"reject", "retire"}
    BY <1>3, <1>5, <1>9 DEF Contestable, Frame, FrameStates
  <2>3. StatusAfter(action) \in FrameStates /\ StatusAfter(action) \in Silenced
    BY <2>2 DEF StatusAfter, FrameStates, Silenced
  <2>4. /\ next \in Edit /\ next.op = "dismissing" /\ next.frame = f /\ next.other = 0
        /\ next.status \in Silenced
    BY <1>5, <1>6, <2>3 DEF Edit
  <2> HIDE DEF next
  <2> QED
    BY <1>4, <1>5, <2>1, <2>2, <2>4, EditOpens
<1> QED
  BY <1>7, <1>8, <1>9

LEMMA ByHandKeeps == ASSUME FramesInv, NEW e \in Editors, SupersedeByHand(e) \/ BeginMark(e) PROVE FramesInv'
<1>1. FrameShape /\ EditShape /\ Voiced
  BY DEF FramesInv
<1>2. PICK f \in DOMAIN frames :
          \/ StartEdit(e, [op |-> "dismissing", frame |-> f, other |-> 0, read |-> "accepted", status |-> "superseded"])
          \/ StartEdit(e, [NoEdit EXCEPT !.op = "marking", !.frame = f, !.read = frames[f].status])
  BY Zenon DEF SupersedeByHand, BeginMark, Accepted
<1>3. frames' = frames /\ moments' = moments /\ voiced' = voiced
  BY Zenon DEF SupersedeByHand, BeginMark
<1>4. f \in DOMAIN frames /\ f \in 0..MaxFrames /\ frames[f] \in Frame /\ 0 \in 0..Len(frames) /\ 0 # f
  <2>1. f \in 1..Len(frames) /\ Len(frames) \in Nat /\ Len(frames) <= MaxFrames /\ frames[f] \in Frame
    BY <1>1, ElementOfSeq, LenProperties DEF FrameShape
  <2> QED
    BY <2>1, FrameAssumption
<1>5. NoEdit \in Edit /\ NoEdit.other = 0 /\ 0 \in 0..MaxFrames /\ {"superseded", "accepted"} \subseteq FrameStates
  BY FrameAssumption DEF NoEdit, Edit, FrameStates
<1>6. CASE StartEdit(e, [op |-> "dismissing", frame |-> f, other |-> 0, read |-> "accepted", status |-> "superseded"])
  <2> DEFINE next == [op |-> "dismissing", frame |-> f, other |-> 0, read |-> "accepted", status |-> "superseded"]
  <2>1. /\ next \in Edit /\ next.op = "dismissing" /\ next.frame = f /\ next.other = 0
        /\ next.status \in Silenced
    BY <1>4, <1>5 DEF Edit, Silenced
  <2>2. StartEdit(e, next)
    BY <1>6
  <2> HIDE DEF next
  <2> QED
    BY <1>3, <1>4, <2>1, <2>2, EditOpens
<1>7. CASE StartEdit(e, [NoEdit EXCEPT !.op = "marking", !.frame = f, !.read = frames[f].status])
  <2> DEFINE next == [NoEdit EXCEPT !.op = "marking", !.frame = f, !.read = frames[f].status]
  <2>1. next \in Edit /\ next.op = "marking" /\ next.frame = f /\ next.other = 0
    BY <1>4, <1>5 DEF Edit, Frame
  <2>2. StartEdit(e, next)
    BY <1>7
  <2> HIDE DEF next
  <2> QED
    BY <1>3, <1>4, <2>1, <2>2, EditOpens
<1> QED
  BY <1>2, <1>6, <1>7

\* A call that ends with nothing written: it died, or the store refused its
\* update.  The voice lasts only if a frame is accepted.
LEMMA EditEndsEmpty ==
    ASSUME FramesInv, NEW e \in Editing, EndEdit(e), frames' = frames, begunEdits' = begunEdits,
           moments' = moments, StillVoiced
    PROVE  FramesInv'
<1>1. FrameShape /\ EditShape
  BY DEF FramesInv
<1>2. edits' = [edits EXCEPT ![e] = NoEdit]
  BY DEF EndEdit
<1>3. NoEdit \in Edit /\ NoEdit.op = "none" /\ NoEdit.other = 0 /\ 0 \in 0..Len(frames)
  BY <1>1, LenProperties, FrameAssumption DEF NoEdit, Edit, FrameStates, FrameShape
<1>4. voiced' \in BOOLEAN /\ (voiced' => voiced) /\ (edits[e].op = "accepting" /\ voiced' => Accepted # {})
  BY <1>1 DEF StillVoiced, Accepted, FrameShape
<1> QED
  BY <1>2, <1>3, <1>4, EditGoesOn

LEMMA LoseEditKeeps ==
    ASSUME FramesInv, NEW e \in Editors, LoseEdit(e) \/ AcceptRefused(e) PROVE FramesInv'
<1>1. /\ e \in Editing /\ EndEdit(e) /\ StillVoiced
      /\ frames' = frames /\ begunEdits' = begunEdits /\ moments' = moments
  BY DEF LoseEdit, AcceptRefused, Editing
<1> QED
  BY <1>1, EditEndsEmpty

LEMMA WriteRevisionKeeps == ASSUME FramesInv, NEW e \in Editors, WriteRevision(e) PROVE FramesInv'
<1> DEFINE base == edits[e].frame
<1>1. FrameShape /\ EditShape /\ Voiced
  BY DEF FramesInv
<1>2. /\ edits[e].op = "revising" /\ e \in Editing /\ EndEdit(e) /\ Len(frames) < MaxFrames
      /\ frames' = Append(frames, NewFrame(base)) /\ base \in 0..Len(frames)
      /\ begunEdits' = begunEdits /\ moments' = moments /\ voiced' = voiced
  BY <1>1 DEF WriteRevision, Editing, EditShape
<1>3. /\ edits' \in [Editors -> Edit] /\ edits'[e] = NoEdit
      /\ \A d \in Editors \ {e} : edits'[d] = edits[d]
      /\ Editing' = Editing \ {e} /\ IsFiniteSet(Editing')
      /\ moments + Cardinality(Editing') + 1 <= begunEdits
  BY <1>1, <1>2, EditEnds
<1> HIDE DEF base
<1>4. /\ frames' \in Seq(Frame) /\ Len(frames') = Len(frames) + 1 /\ Len(frames') <= MaxFrames
      /\ DOMAIN frames \subseteq DOMAIN frames' /\ \A f \in DOMAIN frames : frames'[f] = frames[f]
      /\ \A f \in DOMAIN frames' :
             frames'[f].at <= moments /\ frames'[f].revises # f /\ frames'[f].revises \in 0..Len(frames')
      /\ Accepted' = Accepted /\ Len(frames) \in Nat /\ DOMAIN frames = 1..Len(frames)
  BY <1>1, <1>2, FrameWritten
<1>5. NoEdit \in Edit /\ NoEdit.op = "none" /\ NoEdit.frame = 0 /\ NoEdit.other = 0
  BY FrameAssumption DEF NoEdit, Edit, FrameStates
<1>6. FrameShape'
  <2>1. Cardinality(Editing') \in Nat
    BY <1>3, FS_CardinalityType
  <2>2. moments' + Cardinality(Editing') <= begunEdits'
    BY <1>1, <1>2, <1>3, <2>1 DEF FrameShape
  <2> QED
    BY <1>1, <1>2, <1>3, <1>4, <2>2 DEF FrameShape
<1>7. EditShape'
  <2>1. Len(frames') \in Nat /\ Len(frames) <= Len(frames') /\ 0 \in 0..Len(frames')
    BY <1>4
  <2>2. e \in Editors
    OBVIOUS
  <2> QED
    BY <1>1, <1>3, <1>4, <1>5, <2>1, <2>2, EditShapeKept
<1>8. Voiced'
  <2>1. ASSUME NEW d \in Editors, edits[d].op = "accepting" PROVE edits'[d] = edits[d]
    BY <1>2, <1>3, <2>1
  <2> QED
    BY <1>1, <1>2, <1>4, <2>1 DEF Voiced
<1> QED
  BY <1>6, <1>7, <1>8 DEF FramesInv

\* A frame whose status is set: the others stay as they are.
LEMMA FrameSet ==
    ASSUME FrameShape, NEW f \in DOMAIN frames, NEW frame \in Frame, frames' = [frames EXCEPT ![f] = frame],
           NEW clock \in Nat, moments <= clock, frame.at <= clock,
           frame.revises # f, frame.revises \in 0..Len(frames)
    PROVE  /\ frames' \in Seq(Frame) /\ Len(frames') = Len(frames) /\ DOMAIN frames' = DOMAIN frames
           /\ frames'[f] = frame /\ \A g \in DOMAIN frames \ {f} : frames'[g] = frames[g]
           /\ \A g \in DOMAIN frames' :
                  frames'[g].at <= clock /\ frames'[g].revises # g /\ frames'[g].revises \in 0..Len(frames')
           /\ Len(frames) \in Nat
<1>1. frames \in Seq(Frame) /\ DOMAIN frames = 1..Len(frames) /\ Len(frames) \in Nat /\ moments \in Nat
  BY LenProperties DEF FrameShape
<1>2. f \in 1..Len(frames)
  BY <1>1
<1>3. frames' \in Seq(Frame) /\ Len(frames') = Len(frames)
  BY <1>1, <1>2, ExceptSeq
<1>4. DOMAIN frames' = DOMAIN frames /\ frames'[f] = frame /\ \A g \in DOMAIN frames \ {f} : frames'[g] = frames[g]
  BY <1>1
<1>5. \A g \in DOMAIN frames : frames[g] \in Frame /\ frames[g].at \in Nat
  <2>1. \A g \in DOMAIN frames : frames[g] \in Frame
    BY <1>1, ElementOfSeq
  <2> QED
    BY <2>1, FrameAssumption DEF Frame
<1>6. ASSUME NEW g \in DOMAIN frames'
      PROVE  frames'[g].at <= clock /\ frames'[g].revises # g /\ frames'[g].revises \in 0..Len(frames')
  <2>1. CASE g = f
    BY <1>3, <1>4, <2>1
  <2>2. CASE g # f
    <3>1. frames'[g] = frames[g] /\ g \in DOMAIN frames /\ frames[g].at <= moments
      BY <1>4, <2>2 DEF FrameShape
    <3>2. frames[g].at <= clock
      BY <1>1, <1>5, <3>1
    <3> QED
      BY <1>3, <3>1, <3>2 DEF FrameShape
  <2> QED
    BY <2>1, <2>2
<1> QED
  BY <1>1, <1>3, <1>4, <1>6

\* A call that writes its frame for the last time.
LEMMA FrameSettled ==
    ASSUME FramesInv, NEW e \in Editing, EndEdit(e), NEW frame \in Frame,
           frames' = [frames EXCEPT ![edits[e].frame] = frame], moments' \in {moments, moments + 1},
           frame.at <= moments', frame.revises # edits[e].frame, frame.revises \in 0..Len(frames),
           begunEdits' = begunEdits, voiced' \in BOOLEAN, voiced' => Accepted' # {}
    PROVE  FramesInv'
<1>1. FrameShape /\ EditShape /\ Voiced
  BY DEF FramesInv
<1>2. /\ edits' \in [Editors -> Edit] /\ edits'[e] = NoEdit
      /\ \A d \in Editors \ {e} : edits'[d] = edits[d]
      /\ Editing' = Editing \ {e} /\ IsFiniteSet(Editing')
      /\ moments + Cardinality(Editing') + 1 <= begunEdits
      /\ e \in Editors /\ edits[e].frame \in DOMAIN frames
  BY <1>1, EditEnds
<1>3. /\ Cardinality(Editing') \in Nat /\ moments' \in Nat /\ moments <= moments' /\ moments \in Nat
      /\ moments' + Cardinality(Editing') <= begunEdits
  <2>1. Cardinality(Editing') \in Nat /\ moments \in Nat /\ begunEdits \in Nat
    BY <1>1, <1>2, FS_CardinalityType DEF FrameShape
  <2> QED
    BY <1>2, <2>1
<1> DEFINE f == edits[e].frame
<1>4. f \in DOMAIN frames /\ frames' = [frames EXCEPT ![f] = frame] /\ frame.revises # f
  BY <1>2
<1> HIDE DEF f
<1>5. /\ frames' \in Seq(Frame) /\ Len(frames') = Len(frames) /\ DOMAIN frames' = DOMAIN frames
      /\ frames'[f] = frame /\ \A g \in DOMAIN frames \ {f} : frames'[g] = frames[g]
      /\ \A g \in DOMAIN frames' :
             frames'[g].at <= moments' /\ frames'[g].revises # g /\ frames'[g].revises \in 0..Len(frames')
      /\ Len(frames) \in Nat
  BY <1>1, <1>3, <1>4, FrameSet
<1>6. NoEdit \in Edit /\ NoEdit.op = "none" /\ NoEdit.frame = 0 /\ NoEdit.other = 0
  BY FrameAssumption DEF NoEdit, Edit, FrameStates
<1>7. FrameShape'
  BY <1>1, <1>2, <1>3, <1>5 DEF FrameShape
<1>8. EditShape'
  <2>1. Len(frames') \in Nat /\ Len(frames) <= Len(frames') /\ 0 \in 0..Len(frames')
    BY <1>5
  <2> QED
    BY <1>1, <1>2, <1>5, <1>6, <2>1, EditShapeKept
<1>9. Voiced'
  BY DEF Voiced
<1> QED
  BY <1>7, <1>8, <1>9 DEF FramesInv

LEMMA AcceptKeeps == ASSUME FramesInv, NEW e \in Editors, AcceptCandidate(e) PROVE FramesInv'
<1>1. FrameShape /\ EditShape
  BY DEF FramesInv
<1>2. /\ edits[e].op = "accepting" /\ e \in Editing /\ EndEdit(e) /\ moments' = moments + 1
      /\ begunEdits' = begunEdits /\ voiced' = TRUE
  BY DEF AcceptCandidate, Editing
<1> DEFINE f == edits[e].frame
           old == frames[f]
           base == IF old.revises = 0 THEN edits[e].other ELSE old.revises
           frame == [old EXCEPT !.status = "accepted", !.at = moments + 1, !.revises = base]
<1>3. /\ f \in DOMAIN frames /\ moments \in Nat /\ moments + 1 \in 0..MaxEdits
  <2>1. /\ f \in DOMAIN frames /\ Cardinality(Editing') \in Nat
        /\ moments + Cardinality(Editing') + 1 <= begunEdits
    BY <1>1, <1>2, EditEnds, FS_CardinalityType
  <2> QED
    BY <1>1, <2>1, FrameAssumption DEF FrameShape
<1>4. old \in Frame /\ frames \in Seq(Frame)
  BY <1>1, <1>3, ElementOfSeq, LenProperties DEF FrameShape
<1>5. base \in 0..Len(frames) /\ base # f /\ base \in 0..MaxFrames
  <2>1. /\ old.revises \in 0..Len(frames) /\ old.revises # f
        /\ edits[e].other \in 0..Len(frames) /\ edits[e].other # f
        /\ Len(frames) \in Nat /\ Len(frames) <= MaxFrames
    BY <1>1, <1>2, <1>3, LenProperties DEF FrameShape, EditShape
  <2> QED
    BY <2>1, FrameAssumption
<1>6. frames' = [frames EXCEPT ![f] = frame]
  BY <1>3, <1>4 DEF AcceptCandidate
<1> HIDE DEF base, old
<1>7. /\ frame \in Frame /\ frame.at = moments + 1 /\ frame.revises = base /\ frame.status = "accepted"
  BY <1>3, <1>4, <1>5 DEF Frame, FrameStates
<1> HIDE DEF frame
<1>8. frame.at <= moments'
  BY <1>2, <1>3, <1>7
<1>9. f \in Accepted'
  BY <1>3, <1>4, <1>6, <1>7, LenProperties DEF Accepted
<1> QED
  BY <1>2, <1>3, <1>5, <1>6, <1>7, <1>8, <1>9, FrameSettled

LEMMA DismissKeeps == ASSUME FramesInv, NEW e \in Editors, Dismiss(e) \/ MarkSeen(e) PROVE FramesInv'
<1>1. FrameShape /\ EditShape
  BY DEF FramesInv
<1> DEFINE f == edits[e].frame
           old == frames[f]
           gone == [old EXCEPT !.status = edits[e].status]
           marked == [old EXCEPT !.status = edits[e].read, !.seen = TRUE]
<1>2. /\ e \in Editing /\ EndEdit(e) /\ StillVoiced /\ moments' = moments /\ begunEdits' = begunEdits
      /\ \/ frames' = [frames EXCEPT ![f].status = edits[e].status]
         \/ frames' = [frames EXCEPT ![f].status = edits[e].read, ![f].seen = TRUE]
         \/ frames' = frames
  BY DEF Dismiss, MarkSeen, Written, Editing
<1>3. /\ f \in DOMAIN frames /\ moments \in Nat
      /\ edits[e].status \in FrameStates /\ edits[e].read \in FrameStates
  BY <1>1, <1>2, EditEnds DEF FrameShape, EditShape, Edit
<1>4. /\ old \in Frame /\ old.at <= moments /\ old.revises # f /\ old.revises \in 0..Len(frames)
      /\ frames \in Seq(Frame)
  BY <1>1, <1>3, ElementOfSeq, LenProperties DEF FrameShape
<1>5. \/ \E frame \in {gone, marked} : frames' = [frames EXCEPT ![f] = frame]
      \/ frames' = frames
  BY <1>2, <1>3, <1>4
<1> HIDE DEF old
<1>6. \A frame \in {gone, marked} : frame \in Frame /\ frame.at = old.at /\ frame.revises = old.revises
  BY <1>3, <1>4 DEF Frame
<1> HIDE DEF gone, marked
<1>7. voiced' \in BOOLEAN /\ (voiced' => Accepted' # {})
  BY <1>1, <1>2 DEF StillVoiced, Accepted, FrameShape
<1>8. CASE frames' = frames
  BY <1>2, <1>8, EditEndsEmpty
<1>9. ASSUME NEW frame \in {gone, marked}, frames' = [frames EXCEPT ![f] = frame] PROVE FramesInv'
  <2>1. frame \in Frame /\ frame.at <= moments' /\ frame.revises # f /\ frame.revises \in 0..Len(frames)
    BY <1>2, <1>4, <1>6
  <2> HIDE DEF f
  <2>2. frames' = [frames EXCEPT ![edits[e].frame] = frame]
    BY <1>9 DEF f
  <2> QED
    BY <1>2, <1>3, <1>7, <2>1, <2>2, FrameSettled DEF f
<1> QED
  BY <1>5, <1>8, <1>9

LEMMA SupersedeKeeps == ASSUME FramesInv, NEW e \in Editors, SupersedePrevious(e) PROVE FramesInv'
<1>1. FrameShape /\ EditShape /\ Voiced
  BY DEF FramesInv
<1> DEFINE f == edits[e].other
           old == frames[f]
           frame == [old EXCEPT !.status = "superseded"]
           next == [edits[e] EXCEPT !.op = "accepting"]
           kept == IF frames' = frames THEN old ELSE frame
<1>2. /\ edits[e].op = "superseding" /\ e \in Editing /\ moments' = moments
      /\ begunEdits' = begunEdits /\ voiced' = voiced
  BY DEF SupersedePrevious, Editing
<1>3. /\ f \in DOMAIN frames /\ moments \in Nat /\ f # edits[e].frame /\ edits[e] \in Edit
      /\ edits[e].frame # 0 /\ edits \in [Editors -> Edit] /\ edits[e].frame \in 0..Len(frames)
      /\ f \in 0..Len(frames) /\ f # 0 /\ Len(frames) \in Nat /\ edits[e].read = "candidate"
  <2>1. f \in 0..Len(frames) /\ f # 0 /\ DOMAIN frames = 1..Len(frames) /\ Len(frames) \in Nat
    BY <1>1, <1>2, LenProperties DEF EditShape, FrameShape
  <2>2. f \in DOMAIN frames
    BY <2>1
  <2> QED
    BY <1>1, <1>2, <2>1, <2>2 DEF EditShape, FrameShape
<1>4. /\ old \in Frame /\ old.at <= moments /\ old.revises # f /\ old.revises \in 0..Len(frames)
      /\ frames \in Seq(Frame)
  BY <1>1, <1>3, ElementOfSeq, LenProperties DEF FrameShape
<1>5. frames' = [frames EXCEPT ![f] = kept]
  <2>1. frames' = [frames EXCEPT ![f] = frame] \/ frames' = frames
    BY <1>3, <1>4 DEF SupersedePrevious, Written, Superseding
  <2> QED
    BY <1>3, <1>4, <2>1
<1>6. edits' = [edits EXCEPT ![e] = next]
  BY <1>3 DEF SupersedePrevious, NextStep
<1>7. next \in Edit /\ next.op = "accepting" /\ next.frame = edits[e].frame /\ next.other = f
      /\ next.read = "candidate"
  BY <1>3 DEF Edit
<1> HIDE DEF old, f, next
<1>8. kept \in Frame /\ kept.at = old.at /\ kept.revises = old.revises
  <2>1. frame \in Frame /\ frame.at = old.at /\ frame.revises = old.revises
    BY <1>3, <1>4 DEF Frame, FrameStates
  <2> QED
    BY <1>4, <2>1
<1> HIDE DEF kept
<1>9. /\ frames' \in Seq(Frame) /\ Len(frames') = Len(frames) /\ DOMAIN frames' = DOMAIN frames
      /\ frames'[f] = kept /\ \A g \in DOMAIN frames \ {f} : frames'[g] = frames[g]
      /\ \A g \in DOMAIN frames' :
             frames'[g].at <= moments' /\ frames'[g].revises # g /\ frames'[g].revises \in 0..Len(frames')
  <2>1. moments' \in Nat /\ moments <= moments' /\ kept.at <= moments'
    BY <1>2, <1>3, <1>4, <1>8
  <2> QED
    BY <1>1, <1>3, <1>4, <1>5, <1>8, <2>1, FrameSet
<1>10. /\ edits' \in [Editors -> Edit] /\ edits'[e] = next
       /\ \A d \in Editors \ {e} : edits'[d] = edits[d]
  BY <1>3, <1>6, <1>7
<1>11. Editing' = Editing
  BY <1>2, <1>7, <1>10 DEF Editing
<1>12. FrameShape'
  BY <1>1, <1>2, <1>9, <1>11 DEF FrameShape
<1>13. EditShape'
  <2>1. Len(frames') \in Nat /\ Len(frames) <= Len(frames')
    BY <1>3, <1>9
  <2> QED
    BY <1>1, <1>3, <1>7, <1>9, <1>10, <2>1, EditShapeKept
<1>14. Voiced'
  BY <1>3, <1>7, <1>10 DEF Voiced
<1> QED
  BY <1>12, <1>13, <1>14 DEF FramesInv

LEMMA FramesStep == FramesInv /\ [FramesNext]_frameVars => FramesInv'
<1> SUFFICES ASSUME FramesInv, [FramesNext]_frameVars PROVE FramesInv'
  OBVIOUS
<1>1. CASE UNCHANGED frameVars
  BY <1>1 DEF frameVars, FramesInv, FrameShape, EditShape, Voiced, Editing, Accepted
<1>2. ASSUME NEW e \in Editors, EditStep(e) PROVE FramesInv'
  BY <1>2, RefreshKeeps, ReadPreviousKeeps, SupersedeKeeps, AcceptKeeps, ContestKeeps, ByHandKeeps,
     WriteRevisionKeeps, DismissKeeps, LoseEditKeeps DEF EditStep
<1> QED
  BY <1>1, <1>2 DEF FramesNext

LEMMA FramesInvariant == FramesSpec => []FramesInv
  BY FramesStart, FramesStep, PTL DEF FramesSpec

LEMMA FramesTyped == FramesInv => FramesTypeOK
<1> SUFFICES ASSUME FramesInv PROVE FramesTypeOK
  OBVIOUS
<1>1. moments \in 0..begunEdits
  <2>1. Cardinality(Editing) \in Nat /\ moments \in Nat /\ begunEdits \in Nat
        /\ moments + Cardinality(Editing) <= begunEdits
    BY FS_CardinalityType DEF FramesInv, FrameShape
  <2> QED
    BY <2>1
<1>2. \A e \in Editors : edits[e].read \in FrameStates /\ edits[e].status \in FrameStates
  BY DEF FramesInv, EditShape, Edit
<1>3. /\ Len(frames) <= MaxFrames /\ begunEdits \in 0..MaxEdits /\ voiced \in BOOLEAN
      /\ \A e \in Editors : edits[e].frame \in 0..Len(frames) /\ edits[e].other \in 0..Len(frames)
  BY Zenon DEF FramesInv, FrameShape, EditShape
<1>4. frames \in Seq([status : FrameStates, revises : 0..MaxFrames, at : 0..MaxEdits, seen : BOOLEAN])
  BY DEF FramesInv, FrameShape, Frame
<1> QED
  BY <1>1, <1>2, <1>3, <1>4, Zenon DEF FramesTypeOK

\* Once a frame was accepted the agent has one to speak with, or is between
\* superseding one and accepting its successor, until a dismissal, a mark or a
\* lost or refused acceptance leaves none (refreshCharacterFrame,
\* applyCharacterContest), for any number of overlapping calls and frames.
THEOREM FramesNeverSpeechless == FramesSpec => []NeverSpeechless
<1>1. FramesInv => NeverSpeechless
  BY LatestIsAccepted DEF FramesInv, Voiced, NeverSpeechless, Speaking
<1> QED
  BY <1>1, FramesInvariant, PTL

\* A frame that was rejected, retired or superseded speaks again only through a
\* call that read it before it was silenced (applyCharacterContest,
\* markFirstInjectionSeen), for any number of overlapping calls and frames.
THEOREM FramesStaySilenced == FramesSpec => SilencedStays
<1> DEFINE Stays ==
        \A f \in DOMAIN frames :
          frames[f].status \in Silenced /\ frames'[f].status \notin Silenced =>
              \E e \in Editors : edits[e].frame = f /\ edits[e].read \notin Silenced
<1>1. FramesInv /\ [FramesNext]_frameVars => [Stays]_frameVars
  <2> SUFFICES ASSUME FramesInv, NEW e \in Editors, EditStep(e), NEW f \in DOMAIN frames,
                      frames[f].status \in Silenced, frames'[f].status \notin Silenced
               PROVE  edits[e].frame = f /\ edits[e].read \notin Silenced
    BY DEF FramesNext
  <2>1. FrameShape /\ EditShape
    BY DEF FramesInv
  <2>2. frames[f] \in Frame
    BY <2>1, ElementOfSeq, LenProperties DEF FrameShape
  <2>3. CASE frames' = frames
    BY <2>3
  <2>4. CASE RefreshFrame(e) \/ WriteRevision(e)
    <3>1. /\ 0 \in 0..Len(frames) /\ edits[e].frame \in 0..Len(frames)
          /\ Len(frames) < MaxFrames
          /\ \E base \in {0, edits[e].frame} : frames' = Append(frames, NewFrame(base))
      BY <2>1, <2>4, LenProperties DEF FrameShape, EditShape, RefreshFrame, WriteRevision
    <3>2. frames'[f] = frames[f]
      BY <2>1, <3>1, FrameWritten
    <3> QED
      BY <3>2
  <2>5. CASE frames' = [frames EXCEPT ![edits[e].other].status = "superseded"]
    BY <2>2, <2>5 DEF Frame, Silenced
  <2>6. CASE AcceptCandidate(e)
    <3>1. edits[e].read = "candidate"
      BY <2>1, <2>6 DEF AcceptCandidate, EditShape
    <3>2. edits[e].frame = f
      BY <2>6 DEF AcceptCandidate
    <3> QED
      BY <3>1, <3>2 DEF Silenced
  <2>7. CASE edits[e].op = "dismissing" /\ frames' = [frames EXCEPT ![edits[e].frame].status = edits[e].status]
    <3>1. edits[e].status \in Silenced
      BY <2>1, <2>7 DEF EditShape
    <3> QED
      BY <2>2, <2>7, <3>1 DEF Frame
  <2>8. CASE frames' = [frames EXCEPT ![edits[e].frame].status = edits[e].read, ![edits[e].frame].seen = TRUE]
    <3>1. CASE edits[e].frame = f
      BY <2>2, <2>8, <3>1 DEF Frame
    <3>2. CASE edits[e].frame # f
      BY <2>8, <3>2
    <3> QED
      BY <3>1, <3>2
  <2>9. SupersedePrevious(e) \/ Dismiss(e) \/ MarkSeen(e) =>
            \/ frames' = frames
            \/ frames' = [frames EXCEPT ![edits[e].other].status = "superseded"]
            \/ edits[e].op = "dismissing" /\ frames' = [frames EXCEPT ![edits[e].frame].status = edits[e].status]
            \/ frames' = [frames EXCEPT ![edits[e].frame].status = edits[e].read, ![edits[e].frame].seen = TRUE]
    BY DEF SupersedePrevious, Superseding, Dismiss, MarkSeen, Written
  <2>10. \/ RefreshFrame(e) \/ WriteRevision(e) \/ AcceptCandidate(e)
         \/ SupersedePrevious(e) \/ Dismiss(e) \/ MarkSeen(e) \/ frames' = frames
    <3>1. /\ ReadPrevious(e) => frames' = frames
          /\ AcceptRefused(e) => frames' = frames
          /\ Contest(e) => frames' = frames
          /\ SupersedeByHand(e) => frames' = frames
          /\ BeginMark(e) => frames' = frames
          /\ LoseEdit(e) => frames' = frames
      BY Zenon DEF ReadPrevious, AcceptRefused, Contest, SupersedeByHand, BeginMark, LoseEdit
    <3> QED
      BY <3>1, Zenon DEF EditStep
  <2> QED
    BY <2>3, <2>4, <2>5, <2>6, <2>7, <2>8, <2>9, <2>10, Zenon
<1> QED
  BY <1>1, FramesInvariant, PTL DEF FramesSpec, SilencedStays

-----------------------------------------------------------------------------
VersionRow == [status : VersionStates, prev : 0..MaxVersions, born : 1..MaxVersions, migrated : BOOLEAN]
EngineCall == [op : {"none", "gating", "demoting", "entering", "canary", "loading", "retracting",
                     "restoring", "noting", "migrating"},
               row : Nat, prev : Nat, born : 0..MaxVersions]
Engaging == {n \in Engines : evolving[n].op # "none"}
Deriving == {"gating", "migrating"}
Derivers == {n \in Engines : evolving[n].op \in Deriving}
OnRow == {"demoting", "entering", "canary", "loading", "retracting", "restoring", "noting"}
OnTwo == {"demoting", "retracting", "restoring", "noting"}

\* What a call has in hand: rows that are there, and the version before its own.
CallFits(call, rows) ==
    /\ call.row \in 0..rows /\ call.prev \in 0..rows
    /\ call.op # "none" => call.born # 0
    /\ call.op \in OnRow => call.row # 0
    /\ call.op \in OnTwo => call.prev # 0
    /\ call.op = "gating" /\ call.row # 0 => call.prev = call.row
    /\ call.op = "demoting" => call.row # call.prev

\* Every call begun derives one version at most.
EvolutionShape ==
    /\ versions \in Seq(VersionRow) /\ \A v \in DOMAIN versions : versions[v].prev < v
    /\ evolving \in [Engines -> EngineCall] /\ \A n \in Engines : CallFits(evolving[n], Len(versions))
    /\ changes \in Seq([kind : {"activated", "rolled_back"}, version : 1..Len(versions)])
    /\ born \in 0..MaxVersions /\ IsFiniteSet(Derivers) /\ Len(versions) + Cardinality(Derivers) <= born
    /\ mishaps \subseteq Mishaps /\ served \in BOOLEAN

\* The version the ledger tells of.
ToldActive ==
    IF changes = <<>> THEN {}
    ELSE IF changes[Len(changes)].kind = "activated" THEN {changes[Len(changes)].version}
    ELSE {versions[changes[Len(changes)].version].prev}

\* Which versions are active at each point of a call that nothing disturbs.
InTurn(call, active, told, before) ==
    /\ call.op \in {"none", "gating", "migrating"} => active = told
    /\ call.op = "gating" => active = IF call.row = 0 THEN {} ELSE {call.row}
    /\ call.op = "demoting" => active = {call.row, call.prev} /\ call.row # call.prev
    /\ call.op = "entering" => active = {call.row}
    /\ call.op \in {"canary", "loading", "retracting"} => active = {call.row} /\ told = {call.row}
    /\ call.op \in {"retracting", "restoring", "noting"} => before = call.prev
    /\ call.op = "restoring" => active = {}
    /\ call.op = "noting" => active = {call.prev}

Undisputed == mishaps = {}
InOrder ==
    Undisputed =>
        /\ \A m, n \in Engaging : m = n
        /\ Engaging = {} => ActiveVersions = ToldActive
        /\ \A n \in Engaging : InTurn(evolving[n], ActiveVersions, ToldActive, versions[evolving[n].row].prev)
        /\ changes # <<>> => ToldActive # {0}

\* The platform is served by an active version, or by the one being restored.
Served == served => ActiveVersions # {} \/ \E n \in Engines : evolving[n].op = "restoring"

\* Which version is the newest at each point of a call that no other overlaps.
Watching == {"demoting", "entering", "canary"}
Newer(call, rows, clock) ==
    /\ call.op # "none" => call.born = clock
    /\ call.op \in Deriving => \A v \in DOMAIN rows : rows[v].born < clock
    /\ call.op \in Watching =>
           /\ call.row \in DOMAIN rows /\ rows[call.row].status = "active"
           /\ \A v \in DOMAIN rows \ {call.row} : rows[v].born < rows[call.row].born

Alone == "overlap" \notin mishaps
Newest ==
    Alone =>
        /\ \A m, n \in Engaging : m = n
        /\ \A v \in DOMAIN versions : versions[v].born <= born
        /\ \A n \in Engaging : Newer(evolving[n], versions, born)

EvolutionInv == EvolutionShape /\ InOrder /\ Served /\ Newest

LEMMA EvolutionStarts == EvolutionInit => EvolutionInv
<1> SUFFICES ASSUME EvolutionInit PROVE EvolutionInv
  OBVIOUS
<1>1. /\ versions = <<>> /\ evolving = [n \in Engines |-> NoEvolution] /\ born = 0
      /\ changes = <<>> /\ mishaps = {} /\ served = FALSE
  BY DEF EvolutionInit
<1>2. NoEvolution \in EngineCall /\ NoEvolution.op = "none" /\ NoEvolution.row = 0 /\ NoEvolution.prev = 0
  BY EvolutionAssumption DEF NoEvolution, EngineCall
<1>3. /\ Engaging = {} /\ Derivers = {}
      /\ versions \in Seq(VersionRow) /\ Len(versions) = 0 /\ DOMAIN versions = {}
      /\ changes \in Seq([kind : {"activated", "rolled_back"}, version : 1..Len(versions)])
      /\ ActiveVersions = {} /\ ToldActive = {}
  BY <1>1, <1>2, EmptySeq DEF Engaging, Derivers, Deriving, ActiveVersions, ToldActive
<1>4. IsFiniteSet({}) /\ Cardinality({}) = 0 /\ 0 \in 0..MaxVersions /\ 0 + 0 <= 0
  BY FS_EmptySet, EvolutionAssumption
<1>5. \A n \in Engines : CallFits(evolving[n], Len(versions))
  BY <1>1, <1>2, <1>3 DEF CallFits, OnRow, OnTwo
<1>6. EvolutionShape
  <2>1. IsFiniteSet(Derivers)
    BY <1>3, <1>4
  <2>2. Len(versions) + Cardinality(Derivers) <= born
    BY <1>1, <1>3, <1>4
  <2>3. \A v \in DOMAIN versions : versions[v].prev < v
    BY <1>3
  <2>4. born \in 0..MaxVersions /\ mishaps \subseteq Mishaps /\ served \in BOOLEAN
    BY <1>1, <1>4
  <2>5. evolving \in [Engines -> EngineCall]
    BY <1>1, <1>2
  <2> QED
    BY <1>3, <1>5, <2>1, <2>2, <2>3, <2>4, <2>5 DEF EvolutionShape
<1> QED
  BY <1>1, <1>3, <1>6 DEF EvolutionInv, InOrder, Served, Newest

\* A call takes a step: its books.
LEMMA CallSteps ==
    ASSUME EvolutionShape, NEW n \in Engines, NEW next \in EngineCall, evolving' = [evolving EXCEPT ![n] = next]
    PROVE  /\ evolving' \in [Engines -> EngineCall] /\ evolving'[n] = next
           /\ \A m \in Engines \ {n} : evolving'[m] = evolving[m]
           /\ Engaging' = IF next.op = "none" THEN Engaging \ {n} ELSE Engaging \cup {n}
           /\ IsFiniteSet(Derivers') /\ Cardinality(Derivers) \in Nat /\ Cardinality(Derivers') \in Nat
           /\ Cardinality(Derivers') <= Cardinality(Derivers) + 1
           /\ (next.op \in Deriving => evolving[n].op \in Deriving)
                  => Cardinality(Derivers') <= Cardinality(Derivers)
           /\ next.op \notin Deriving /\ evolving[n].op \in Deriving
                  => Cardinality(Derivers') = Cardinality(Derivers) - 1
<1>1. /\ evolving \in [Engines -> EngineCall] /\ IsFiniteSet(Derivers)
  BY DEF EvolutionShape
<1>2. /\ evolving' \in [Engines -> EngineCall] /\ evolving'[n] = next
      /\ \A m \in Engines \ {n} : evolving'[m] = evolving[m]
  BY <1>1
<1>3. Engaging' = IF next.op = "none" THEN Engaging \ {n} ELSE Engaging \cup {n}
  <2>1. CASE next.op = "none"
    BY <1>2, <2>1 DEF Engaging
  <2>2. CASE next.op # "none"
    BY <1>2, <2>2 DEF Engaging
  <2> QED
    BY <2>1, <2>2
<1> DEFINE S == Derivers
           T == Derivers'
<1>4. T \ {n} = S \ {n} /\ (n \in S <=> evolving[n].op \in Deriving) /\ (n \in T <=> next.op \in Deriving)
  BY <1>2 DEF Derivers
<1>5. IsFiniteSet(S)
  BY <1>1
<1> HIDE DEF S, T
<1>6. /\ IsFiniteSet(T)
      /\ (n \in S <=> n \in T) => Cardinality(T) = Cardinality(S)
      /\ n \in S /\ n \notin T => Cardinality(T) = Cardinality(S) - 1
      /\ n \notin S /\ n \in T => Cardinality(T) = Cardinality(S) + 1
  BY <1>4, <1>5, SetMove
<1>7. Cardinality(S) \in Nat /\ Cardinality(T) \in Nat
  BY <1>5, <1>6, FS_CardinalityType
<1>8. Cardinality(T) <= Cardinality(S) + 1
  BY <1>6, <1>7
<1>9. (next.op \in Deriving => evolving[n].op \in Deriving) => Cardinality(T) <= Cardinality(S)
  BY <1>4, <1>6, <1>7
<1>10. next.op \notin Deriving /\ evolving[n].op \in Deriving => Cardinality(T) = Cardinality(S) - 1
  BY <1>4, <1>6
<1> QED
  BY <1>2, <1>3, <1>6, <1>7, <1>8, <1>9, <1>10 DEF S, T

\* A step of a call keeps the shape of the others.
LEMMA CallStepFits ==
    ASSUME EvolutionShape, NEW n \in Engines, NEW next \in EngineCall, evolving' = [evolving EXCEPT ![n] = next],
           versions' \in Seq(VersionRow), \A v \in DOMAIN versions' : versions'[v].prev < v,
           Len(versions) <= Len(versions'), CallFits(next, Len(versions')),
           changes' \in Seq([kind : {"activated", "rolled_back"}, version : 1..Len(versions')]),
           mishaps' \subseteq Mishaps, served' \in BOOLEAN, born' \in 0..MaxVersions,
           \/ /\ born' = born /\ Len(versions') = Len(versions)
              /\ next.op \in Deriving => evolving[n].op \in Deriving
           \/ born' = born + 1 /\ Len(versions') = Len(versions)
           \/ /\ born' = born /\ Len(versions') = Len(versions) + 1
              /\ next.op \notin Deriving /\ evolving[n].op \in Deriving
    PROVE  EvolutionShape'
<1>1. /\ evolving' \in [Engines -> EngineCall] /\ evolving'[n] = next
      /\ \A m \in Engines \ {n} : evolving'[m] = evolving[m]
      /\ IsFiniteSet(Derivers') /\ Cardinality(Derivers) \in Nat /\ Cardinality(Derivers') \in Nat
      /\ Cardinality(Derivers') <= Cardinality(Derivers) + 1
      /\ (next.op \in Deriving => evolving[n].op \in Deriving)
             => Cardinality(Derivers') <= Cardinality(Derivers)
      /\ next.op \notin Deriving /\ evolving[n].op \in Deriving
             => Cardinality(Derivers') = Cardinality(Derivers) - 1
  BY CallSteps
<1>2. Len(versions) \in Nat /\ Len(versions') \in Nat /\ born \in Nat
  BY LenProperties DEF EvolutionShape
<1>3. Len(versions') + Cardinality(Derivers') <= born'
  <2>1. Len(versions) + Cardinality(Derivers) <= born
    BY DEF EvolutionShape
  <2> QED
    BY <1>1, <1>2, <2>1
<1>4. ASSUME NEW m \in Engines PROVE CallFits(evolving'[m], Len(versions'))
  <2>1. CASE m = n
    BY <1>1, <2>1
  <2>2. CASE m # n
    <3>1. CallFits(evolving[m], Len(versions)) /\ evolving'[m] = evolving[m]
      BY <1>1, <2>2 DEF EvolutionShape
    <3>2. \A k \in 0..Len(versions) : k \in 0..Len(versions')
      BY <1>2
    <3> QED
      BY <3>1, <3>2 DEF CallFits
  <2> QED
    BY <2>1, <2>2
<1> QED
  BY <1>1, <1>3, <1>4 DEF EvolutionShape

\* And their turn.
LEMMA CallStepInTurn ==
    ASSUME EvolutionInv, NEW n \in Engines, NEW next \in EngineCall, evolving' = [evolving EXCEPT ![n] = next],
           Undisputed' => Undisputed, evolving[n].op = "none" /\ Undisputed' => ~Engaged,
           Undisputed' => InTurn(next, ActiveVersions', ToldActive', versions'[next.row].prev),
           Undisputed' => (changes' # <<>> => ToldActive' # {0})
    PROVE  InOrder'
<1> SUFFICES ASSUME Undisputed'
             PROVE  /\ \A m, k \in Engaging' : m = k
                    /\ Engaging' = {} => ActiveVersions' = ToldActive'
                    /\ \A m \in Engaging' :
                           InTurn(evolving'[m], ActiveVersions', ToldActive', versions'[evolving'[m].row].prev)
                    /\ changes' # <<>> => ToldActive' # {0}
  BY DEF InOrder
<1>1. EvolutionShape /\ Undisputed /\ \A m, k \in Engaging : m = k
  BY DEF EvolutionInv, InOrder
<1>2. evolving[n].op = "none" => Engaging = {}
  BY DEF Undisputed, Engaged, Engaging
<1>3. Engaging \subseteq {n}
  BY <1>1, <1>2 DEF Engaging
<1>4. evolving'[n] = next /\ Engaging' = IF next.op = "none" THEN Engaging \ {n} ELSE Engaging \cup {n}
  BY <1>1, CallSteps
<1>5. Engaging' = IF next.op = "none" THEN {} ELSE {n}
  BY <1>3, <1>4
<1>6. Engaging' = {} => ActiveVersions' = ToldActive'
  BY <1>5 DEF InTurn
<1>7. ASSUME NEW m \in Engaging'
      PROVE  InTurn(evolving'[m], ActiveVersions', ToldActive', versions'[evolving'[m].row].prev)
  BY <1>4, <1>5, <1>7
<1> QED
  BY <1>5, <1>6, <1>7

\* And which version is the newest.
LEMMA CallStepNewest ==
    ASSUME EvolutionInv, NEW n \in Engines, NEW next \in EngineCall, evolving' = [evolving EXCEPT ![n] = next],
           Alone' => Alone, evolving[n].op = "none" /\ Alone' => ~Engaged,
           Alone' => Newer(next, versions', born'),
           Alone' => \A v \in DOMAIN versions' : versions'[v].born <= born'
    PROVE  Newest'
<1> SUFFICES ASSUME Alone'
             PROVE  /\ \A m, k \in Engaging' : m = k
                    /\ \A v \in DOMAIN versions' : versions'[v].born <= born'
                    /\ \A m \in Engaging' : Newer(evolving'[m], versions', born')
  BY DEF Newest
<1>1. EvolutionShape /\ \A m, k \in Engaging : m = k
  BY DEF EvolutionInv, Newest
<1>2. evolving[n].op = "none" => Engaging = {}
  BY DEF Engaged, Engaging
<1>3. Engaging \subseteq {n}
  BY <1>1, <1>2 DEF Engaging
<1>4. evolving'[n] = next /\ Engaging' = IF next.op = "none" THEN Engaging \ {n} ELSE Engaging \cup {n}
  BY <1>1, CallSteps
<1>5. Engaging' = IF next.op = "none" THEN {} ELSE {n}
  BY <1>3, <1>4
<1>6. \A m \in Engaging' : Newer(evolving'[m], versions', born')
  BY <1>4, <1>5
<1> QED
  BY <1>5, <1>6

\* The newest version as the call that takes the step finds it.
LEMMA ItIsNewest ==
    ASSUME EvolutionInv, Alone, NEW n \in Engines
    PROVE  /\ evolving[n].op # "none" => Newer(evolving[n], versions, born)
           /\ \A v \in DOMAIN versions : versions[v].born <= born
  BY DEF EvolutionInv, Newest, Engaging

\* A step that restores nothing and leaves the active versions active.
LEMMA StaysServed ==
    ASSUME EvolutionInv, NEW n \in Engines, NEW next, evolving' = [evolving EXCEPT ![n] = next],
           evolving[n].op # "restoring", ActiveVersions \subseteq ActiveVersions', served' = served
    PROVE  Served'
<1>1. evolving \in [Engines -> EngineCall] /\ Served
  BY DEF EvolutionInv, EvolutionShape
<1>2. \A m \in Engines : evolving[m].op = "restoring" => evolving'[m] = evolving[m]
  BY <1>1
<1> QED
  BY <1>1, <1>2 DEF Served

\* The turn of the call that takes the step.
LEMMA ItsTurn ==
    ASSUME EvolutionInv, Undisputed, NEW n \in Engines
    PROVE  /\ evolving[n].op = "none" /\ ~Engaged => ActiveVersions = ToldActive
           /\ evolving[n].op # "none" => InTurn(evolving[n], ActiveVersions, ToldActive, versions[evolving[n].row].prev)
           /\ changes # <<>> => ToldActive # {0}
  BY DEF EvolutionInv, InOrder, Engaging, Engaged

\* While the ledger stays as it is, so does what it tells: no row changes what
\* was before it.
LEMMA ToldActiveStays ==
    ASSUME EvolutionShape, changes' = changes,
           \A v \in 1..Len(versions) : versions'[v].prev = versions[v].prev
    PROVE  ToldActive' = ToldActive
<1>1. CASE changes = <<>>
  BY <1>1 DEF ToldActive
<1>2. CASE changes # <<>>
  <2>1. changes[Len(changes)] \in [kind : {"activated", "rolled_back"}, version : 1..Len(versions)]
    <3>1. /\ changes \in Seq([kind : {"activated", "rolled_back"}, version : 1..Len(versions)])
          /\ Len(changes) \in 1..Len(changes)
      BY <1>2, EmptySeq, LenProperties DEF EvolutionShape
    <3> QED
      BY <3>1, ElementOfSeq
  <2>2. versions'[changes[Len(changes)].version].prev = versions[changes[Len(changes)].version].prev
    BY <2>1
  <2> QED
    BY <2>2 DEF ToldActive
<1> QED
  BY <1>1, <1>2

\* A row is stored.
LEMMA RowStored ==
    ASSUME EvolutionShape, NEW n \in Engines, evolving[n].op \in Deriving, NEW status \in {"candidate", "active"},
           versions' = Append(versions, Row(status, n))
    PROVE  /\ versions' \in Seq(VersionRow) /\ Len(versions') = Len(versions) + 1 /\ Len(versions) \in Nat
           /\ \A v \in DOMAIN versions' : versions'[v].prev < v
           /\ \A v \in 1..Len(versions) : versions'[v] = versions[v]
           /\ DOMAIN versions' = DOMAIN versions \cup {Len(versions) + 1} /\ DOMAIN versions = 1..Len(versions)
           /\ versions'[Len(versions) + 1].born = evolving[n].born /\ versions'[Len(versions) + 1].status = status
           /\ ActiveVersions' = ActiveVersions \cup (IF status = "active" THEN {Len(versions) + 1} ELSE {})
           /\ ActiveVersions \subseteq 1..Len(versions)
           /\ changes \in Seq([kind : {"activated", "rolled_back"}, version : 1..Len(versions')])
<1> DEFINE row == Row(status, n)
<1>1. /\ versions \in Seq(VersionRow) /\ Len(versions) \in Nat /\ DOMAIN versions = 1..Len(versions)
      /\ evolving[n] \in EngineCall /\ CallFits(evolving[n], Len(versions))
      /\ Len(versions) <= MaxVersions
  <2>1. Cardinality(Derivers) \in Nat /\ Len(versions) \in Nat
    BY LenProperties, FS_CardinalityType DEF EvolutionShape
  <2>2. Len(versions) <= MaxVersions
    BY <2>1, EvolutionAssumption DEF EvolutionShape
  <2> QED
    BY <2>1, <2>2, LenProperties DEF EvolutionShape
<1>2. /\ row \in VersionRow /\ row.prev \in 0..Len(versions) /\ row.status = status /\ row.born = evolving[n].born
  <2>1. evolving[n].prev \in 0..Len(versions) /\ evolving[n].prev \in 0..MaxVersions /\ evolving[n].born \in 1..MaxVersions
    <3>1. evolving[n].born \in 0..MaxVersions /\ evolving[n].born # 0
      BY <1>1 DEF CallFits, EngineCall, Deriving
    <3>2. evolving[n].prev \in 0..Len(versions)
      BY <1>1 DEF CallFits
    <3> QED
      BY <1>1, <3>1, <3>2, EvolutionAssumption
  <2> QED
    BY <2>1 DEF Row, VersionRow, VersionStates
<1> HIDE DEF row
<1>3. /\ versions' \in Seq(VersionRow) /\ Len(versions') = Len(versions) + 1
      /\ \A v \in 1..Len(versions) : versions'[v] = versions[v]
      /\ versions'[Len(versions) + 1] = row
  <2>1. versions' = Append(versions, row)
    BY DEF row
  <2> QED
    BY <1>1, <1>2, <2>1, AppendProperties
<1>4. DOMAIN versions' = 1..(Len(versions) + 1)
  BY <1>3, LenProperties
<1>5. ASSUME NEW v \in DOMAIN versions' PROVE versions'[v].prev < v
  <2>1. CASE v \in 1..Len(versions)
    BY <1>1, <1>3, <2>1 DEF EvolutionShape
  <2>2. CASE v = Len(versions) + 1
    BY <1>1, <1>2, <1>3, <2>2
  <2> QED
    BY <1>1, <1>4, <2>1, <2>2
<1>6. ActiveVersions' = ActiveVersions \cup (IF status = "active" THEN {Len(versions) + 1} ELSE {})
  <2>1. \A v : v \in DOMAIN versions' <=> v \in DOMAIN versions \/ v = Len(versions) + 1
    BY <1>1, <1>4
  <2>2. Len(versions) + 1 \notin DOMAIN versions
    BY <1>1
  <2>3. \A v \in DOMAIN versions : versions'[v].status = versions[v].status
    BY <1>1, <1>3
  <2>4. versions'[Len(versions) + 1].status = status
    BY <1>2, <1>3
  <2> QED
    BY <2>1, <2>2, <2>3, <2>4 DEF ActiveVersions
<1>7. changes \in Seq([kind : {"activated", "rolled_back"}, version : 1..Len(versions')])
  <2> DEFINE S == [kind : {"activated", "rolled_back"}, version : 1..Len(versions)]
             T == [kind : {"activated", "rolled_back"}, version : 1..Len(versions')]
  <2>1. S \subseteq T
    <3>1. 1..Len(versions) \subseteq 1..Len(versions')
      BY <1>1, <1>3
    <3> QED
      BY <3>1
  <2>2. changes \in Seq(S)
    BY DEF EvolutionShape
  <2> HIDE DEF S, T
  <2>3. changes \in Seq(T)
    BY <2>1, <2>2
  <2> QED
    BY <2>3 DEF T
<1> QED
  BY <1>1, <1>2, <1>3, <1>4, <1>5, <1>6, <1>7 DEF ActiveVersions

\* A row changes its status.
LEMMA StatusGiven ==
    ASSUME EvolutionShape, NEW v \in 1..Len(versions), NEW status \in {"rolled_back", "active"},
           SetStatus(v, status)
    PROVE  /\ versions' \in Seq(VersionRow) /\ Len(versions') = Len(versions) /\ Len(versions) \in Nat
           /\ \A u \in DOMAIN versions' : versions'[u].prev < u
           /\ DOMAIN versions' = DOMAIN versions
           /\ \A u \in 1..Len(versions) :
                  versions'[u].prev = versions[u].prev /\ versions'[u].born = versions[u].born
           /\ status = "active" => ActiveVersions' = ActiveVersions \cup {v}
           /\ status = "rolled_back" => ActiveVersions' = ActiveVersions \ {v}
<1>1. /\ versions \in Seq(VersionRow) /\ Len(versions) \in Nat /\ DOMAIN versions = 1..Len(versions)
  BY LenProperties DEF EvolutionShape
<1>2. versions[v] \in VersionRow
  BY <1>1, ElementOfSeq
<1> DEFINE row == [versions[v] EXCEPT !.status = status]
<1>3. row \in VersionRow /\ row.status = status /\ row.prev = versions[v].prev /\ row.born = versions[v].born
  BY <1>2 DEF VersionRow, VersionStates
<1>4. versions' = [versions EXCEPT ![v] = row]
  BY <1>1, <1>2 DEF SetStatus
<1> HIDE DEF row
<1>5. versions' \in Seq(VersionRow) /\ Len(versions') = Len(versions)
  BY <1>1, <1>3, <1>4, ExceptSeq
<1>6. DOMAIN versions' = DOMAIN versions /\ versions'[v] = row /\ \A u \in DOMAIN versions \ {v} : versions'[u] = versions[u]
  BY <1>1, <1>4
<1>7. \A u \in 1..Len(versions) : versions'[u].prev = versions[u].prev /\ versions'[u].born = versions[u].born
  BY <1>1, <1>3, <1>6
<1>8. \A u \in DOMAIN versions' : versions'[u].prev < u
  BY <1>1, <1>6, <1>7 DEF EvolutionShape
<1>9. status = "active" => ActiveVersions' = ActiveVersions \cup {v}
  BY <1>1, <1>3, <1>6 DEF ActiveVersions
<1>10. status = "rolled_back" => ActiveVersions' = ActiveVersions \ {v}
  BY <1>1, <1>3, <1>6 DEF ActiveVersions
<1> QED
  BY <1>1, <1>5, <1>6, <1>7, <1>8, <1>9, <1>10

\* A call begins without a row written.
LEMMA CallBegins ==
    ASSUME EvolutionInv, NEW n \in Engines, NEW begun \in EngineCall, NEW mishap \in SUBSET Mishaps,
           StartEvolution(n, begun, mishap), begun.op \in {"gating", "loading", "migrating"},
           begun.row \in 0..Len(versions), begun.prev \in 0..Len(versions),
           begun.op = "loading" => begun.row # 0, begun.op = "gating" /\ begun.row # 0 => begun.prev = begun.row,
           versions' = versions, changes' = changes, served' = served,
           Undisputed /\ ~Engaged /\ mishap = {} =>
               /\ begun.op = "gating" => ActiveVersions = IF begun.row = 0 THEN {} ELSE {begun.row}
               /\ begun.op = "loading" => ActiveVersions = {begun.row}
    PROVE  EvolutionInv'
<1> DEFINE next == [begun EXCEPT !.born = born + 1]
<1>1. /\ evolving[n].op = "none" /\ born < MaxVersions /\ born' = born + 1
      /\ evolving' = [evolving EXCEPT ![n] = next]
      /\ mishaps' = mishaps \cup When(Engaged, "overlap") \cup mishap
  BY DEF StartEvolution
<1>2. EvolutionShape /\ born \in Nat /\ born + 1 \in 0..MaxVersions /\ born + 1 # 0
  BY <1>1, EvolutionAssumption DEF EvolutionInv, EvolutionShape
<1>3. /\ mishaps' \subseteq Mishaps
      /\ Undisputed' => Undisputed /\ ~Engaged /\ mishap = {}
      /\ Alone' => Alone /\ ~Engaged
  BY <1>1, <1>2 DEF When, Mishaps, Undisputed, Alone, EvolutionShape
<1>4. /\ next \in EngineCall /\ next.op = begun.op /\ next.row = begun.row /\ next.prev = begun.prev
      /\ next.born = born + 1
  BY <1>2 DEF EngineCall
<1> HIDE DEF next
<1>5. CallFits(next, Len(versions'))
  BY <1>2, <1>4 DEF CallFits, OnRow, OnTwo
<1>6. ActiveVersions' = ActiveVersions /\ ToldActive' = ToldActive
  BY DEF ActiveVersions, ToldActive
<1>7. EvolutionShape'
  <2>1. Len(versions) <= Len(versions') /\ born' \in 0..MaxVersions /\ served' \in BOOLEAN
    BY <1>1, <1>2, LenProperties DEF EvolutionShape
  <2> QED
    BY <1>1, <1>2, <1>3, <1>4, <1>5, <2>1, CallStepFits DEF EvolutionShape
<1>8. InOrder'
  <2>1. Undisputed' => InTurn(next, ActiveVersions', ToldActive', versions'[next.row].prev)
    <3> SUFFICES ASSUME Undisputed' PROVE InTurn(next, ActiveVersions, ToldActive, versions[next.row].prev)
      BY <1>6
    <3>1. ActiveVersions = ToldActive
      BY <1>1, <1>3, ItsTurn
    <3> QED
      BY <1>3, <1>4, <3>1 DEF InTurn
  <2>2. Undisputed' => (changes' # <<>> => ToldActive' # {0})
    BY <1>3, <1>6, ItsTurn
  <2> QED
    BY <1>1, <1>3, <1>4, <2>1, <2>2, CallStepInTurn
<1>9. Served'
  <2>1. evolving[n].op # "restoring" /\ ActiveVersions \subseteq ActiveVersions'
    BY <1>1, <1>6
  <2> QED
    BY <1>1, <2>1, StaysServed
<1>10. Newest'
  <2>1. Alone' => \A v \in DOMAIN versions : versions[v].born \in Nat /\ versions[v].born <= born
    <3>1. \A v \in DOMAIN versions : versions[v] \in VersionRow
      BY <1>2, ElementOfSeq, LenProperties DEF EvolutionShape
    <3> QED
      BY <1>3, <3>1, ItIsNewest, EvolutionAssumption DEF VersionRow
  <2>2. Alone' => \A v \in DOMAIN versions' : versions'[v].born <= born' /\ versions'[v].born < born'
    BY <1>1, <1>2, <2>1
  <2>3. Alone' => Newer(next, versions', born')
    BY <1>1, <1>4, <2>2 DEF Newer, Watching
  <2> QED
    BY <1>1, <1>3, <1>4, <2>2, <2>3, CallStepNewest
<1> QED
  BY <1>7, <1>8, <1>9, <1>10 DEF EvolutionInv

\* A call ends or goes on: what the next state has to show.
TurnKept(next) ==
    Undisputed' => /\ InTurn(next, ActiveVersions', ToldActive', versions'[next.row].prev)
                   /\ changes' # <<>> => ToldActive' # {0}
NewerKept(next) == Alone => Newer(next, versions', born) /\ \A v \in DOMAIN versions' : versions'[v].born <= born
MishapsGrow == mishaps' \subseteq Mishaps /\ mishaps \subseteq mishaps' /\ served' \in BOOLEAN /\ Served'

LEMMA CallMoves ==
    ASSUME EvolutionInv, NEW n \in Engines, evolving[n].op # "none",
           NEW next \in EngineCall, evolving' = [evolving EXCEPT ![n] = next],
           versions' \in Seq(VersionRow), \A v \in DOMAIN versions' : versions'[v].prev < v,
           Len(versions) <= Len(versions'), CallFits(next, Len(versions')),
           changes' \in Seq([kind : {"activated", "rolled_back"}, version : 1..Len(versions')]),
           born' = born, MishapsGrow, TurnKept(next), NewerKept(next),
           \/ /\ Len(versions') = Len(versions)
              /\ next.op \in Deriving => evolving[n].op \in Deriving
           \/ /\ Len(versions') = Len(versions) + 1
              /\ next.op \notin Deriving /\ evolving[n].op \in Deriving
    PROVE  EvolutionInv'
<1>1. EvolutionShape
  BY DEF EvolutionInv
<1>2. (Undisputed' => Undisputed) /\ (Alone' => Alone)
  BY DEF Undisputed, Alone, MishapsGrow
<1>3. EvolutionShape'
  <2>1. born' \in 0..MaxVersions
    BY <1>1 DEF EvolutionShape
  <2> QED
    BY <1>1, <2>1, CallStepFits DEF MishapsGrow
<1>4. InOrder'
  BY <1>2, CallStepInTurn DEF TurnKept
<1>5. Newest'
  BY <1>2, CallStepNewest DEF NewerKept
<1> QED
  BY <1>3, <1>4, <1>5 DEF EvolutionInv, MishapsGrow

\* The calls that fit end fittingly.
LEMMA EndFits ==
    ASSUME EvolutionShape
    PROVE  /\ NoEvolution \in EngineCall /\ NoEvolution.op = "none"
           /\ Len(versions) \in Nat /\ Len(versions) <= Len(versions)
           /\ DOMAIN versions = 1..Len(versions)
           /\ \A k \in Nat : CallFits(NoEvolution, k)
<1>1. NoEvolution \in EngineCall /\ NoEvolution.op = "none" /\ NoEvolution.row = 0 /\ NoEvolution.prev = 0
  BY EvolutionAssumption DEF NoEvolution, EngineCall
<1>2. Len(versions) \in Nat /\ DOMAIN versions = 1..Len(versions)
  BY LenProperties DEF EvolutionShape
<1>3. \A k \in Nat : 0 \in 0..k
  OBVIOUS
<1> QED
  BY <1>1, <1>2, <1>3 DEF CallFits, OnRow, OnTwo

\* The version that is read as active is one that is.
LEMMA LatestActive ==
    ASSUME EvolutionShape
    PROVE  /\ ActiveVersions = {} => ActiveVersion = 0
           /\ ActiveVersions # {} => ActiveVersion \in ActiveVersions
           /\ ActiveVersion \in 0..Len(versions)
<1>1. ActiveVersions = {} => ActiveVersion = 0
  BY DEF ActiveVersion
<1>2. ASSUME ActiveVersions # {} PROVE ActiveVersion \in ActiveVersions
  <2>1. \A v \in ActiveVersions : versions[v] \in VersionRow
    BY ElementOfSeq, LenProperties DEF EvolutionShape, ActiveVersions
  <2> DEFINE T == {versions[v].born : v \in ActiveVersions}
  <2>2. T \subseteq Nat /\ T # {} /\ (\A b \in T : b <= MaxVersions) /\ MaxVersions \in Nat
    BY <1>2, <2>1, EvolutionAssumption DEF VersionRow
  <2>3. PICK b \in T : \A d \in T : d <= b
    <3> HIDE DEF T
    <3> QED
      BY <2>2, LargestNat
  <2>4. PICK v \in ActiveVersions : b = versions[v].born
    BY <2>3
  <2>5. \A u \in ActiveVersions : versions[u].born <= versions[v].born
    BY <2>3, <2>4
  <2> QED
    BY <1>2, <2>5 DEF ActiveVersion
<1>3. ActiveVersions \subseteq 1..Len(versions) /\ Len(versions) \in Nat
  BY LenProperties DEF EvolutionShape, ActiveVersions
<1>4. ActiveVersion \in 0..Len(versions)
  <2>1. CASE ActiveVersions = {}
    BY <1>1, <1>3, <2>1
  <2>2. CASE ActiveVersions # {}
    <3>1. ActiveVersion \in 1..Len(versions)
      BY <1>2, <1>3, <2>2
    <3> QED
      BY <1>3, <3>1
  <2> QED
    BY <2>1, <2>2
<1> QED
  BY <1>1, <1>2, <1>4

LEMMA ApplyKeeps == ASSUME EvolutionInv, NEW n \in Engines, ApplyEvolution(n) PROVE EvolutionInv'
<1>1. PICK seen \in {0, ActiveVersion}, named \in {0} \cup DOMAIN versions :
        StartEvolution(n, [NoEvolution EXCEPT !.op = "gating", !.row = seen,
                                              !.prev = IF seen # 0 THEN seen ELSE named],
                       When(seen # ActiveVersion, "refused"))
  BY Zenon DEF ApplyEvolution
<1>2. versions' = versions /\ changes' = changes /\ served' = served
  BY Zenon DEF ApplyEvolution
<1> DEFINE prev == IF seen # 0 THEN seen ELSE named
           begun == [NoEvolution EXCEPT !.op = "gating", !.row = seen, !.prev = prev]
           mishap == When(seen # ActiveVersion, "refused")
<1>3. EvolutionShape /\ ActiveVersion \in 0..Len(versions) /\ Len(versions) \in Nat /\ DOMAIN versions = 1..Len(versions)
  BY LatestActive, EndFits DEF EvolutionInv
<1>4. prev \in 0..Len(versions) /\ seen \in 0..Len(versions) /\ (seen # 0 => prev = seen)
  BY <1>3
<1>5. StartEvolution(n, begun, mishap)
  BY <1>1, Zenon
<1>6. mishap \in SUBSET Mishaps /\ (mishap = {} => seen = ActiveVersion)
  BY DEF When, Mishaps
<1> HIDE DEF prev, mishap
<1>7. NoEvolution \in EngineCall /\ seen \in Nat /\ prev \in Nat
  BY <1>3, <1>4, EndFits
<1>8. /\ begun \in EngineCall /\ begun.op = "gating" /\ begun.row = seen /\ begun.prev = prev
  BY <1>7 DEF EngineCall
<1> HIDE DEF begun
<1>9. Undisputed /\ ~Engaged /\ mishap = {} => ActiveVersions = IF begun.row = 0 THEN {} ELSE {begun.row}
  <2> SUFFICES ASSUME Undisputed, ~Engaged, mishap = {}
               PROVE  ActiveVersions = IF begun.row = 0 THEN {} ELSE {begun.row}
    OBVIOUS
  <2>1. ActiveVersions = {} \/ \E v : ActiveVersions = {v}
    BY DEF EvolutionInv, InOrder, Engaged, Engaging, ToldActive
  <2>2. ActiveVersions \subseteq 1..Len(versions)
    BY <1>3 DEF ActiveVersions
  <2> QED
    BY <1>3, <1>8, <1>6, <2>1, <2>2, LatestActive
<1> QED
  BY <1>2, <1>3, <1>4, <1>5, <1>8, <1>9, <1>6, CallBegins

LEMMA RollbackKeeps == ASSUME EvolutionInv, NEW n \in Engines, RollbackByHand(n) PROVE EvolutionInv'
<1>1. PICK v \in DOMAIN versions :
        StartEvolution(n, [NoEvolution EXCEPT !.op = "loading", !.row = v], When(versions[v].status # "active", "stray"))
  BY Zenon DEF RollbackByHand
<1>2. versions' = versions /\ changes' = changes /\ served' = served
  BY Zenon DEF RollbackByHand
<1> DEFINE begun == [NoEvolution EXCEPT !.op = "loading", !.row = v]
           mishap == When(versions[v].status # "active", "stray")
<1>3. /\ EvolutionShape /\ v \in 1..Len(versions) /\ Len(versions) \in Nat /\ NoEvolution \in EngineCall
  BY <1>1, EndFits DEF EvolutionInv
<1>4. v \in 0..Len(versions) /\ v \in Nat /\ v # 0 /\ 0 \in 0..Len(versions) /\ NoEvolution.prev = 0
  BY <1>3 DEF NoEvolution
<1>5. StartEvolution(n, begun, mishap)
  BY <1>1, Zenon
<1>6. mishap \in SUBSET Mishaps /\ (mishap = {} => versions[v].status = "active")
  BY DEF When, Mishaps
<1> HIDE DEF mishap
<1>7. /\ begun \in EngineCall /\ begun.op = "loading" /\ begun.row = v /\ begun.prev = 0
  BY <1>3, <1>4 DEF EngineCall
<1> HIDE DEF begun
<1>8. Undisputed /\ ~Engaged /\ mishap = {} => ActiveVersions = {begun.row}
  <2> SUFFICES ASSUME Undisputed, ~Engaged, mishap = {} PROVE ActiveVersions = {v}
    BY <1>7
  <2>1. ActiveVersions = {} \/ \E u : ActiveVersions = {u}
    BY DEF EvolutionInv, InOrder, Engaged, Engaging, ToldActive
  <2>2. v \in ActiveVersions
    BY <1>6 DEF ActiveVersions
  <2> QED
    BY <2>1, <2>2
<1> QED
  BY <1>2, <1>3, <1>4, <1>5, <1>7, <1>8, <1>6, CallBegins

LEMMA MigrateKeeps == ASSUME EvolutionInv, NEW n \in Engines, Migrate(n) PROVE EvolutionInv'
<1> DEFINE begun == [NoEvolution EXCEPT !.op = "migrating"]
           mishap == When(ActiveVersion # 0, "refused")
<1>1. /\ StartEvolution(n, begun, mishap)
      /\ versions' = versions /\ changes' = changes /\ served' = served
  BY Zenon DEF Migrate
<1>2. mishap \in SUBSET Mishaps
  BY DEF When, Mishaps
<1>3. /\ EvolutionShape /\ NoEvolution \in EngineCall /\ 0 \in 0..Len(versions)
      /\ NoEvolution.prev = 0 /\ NoEvolution.row = 0
  BY EndFits DEF EvolutionInv, EvolutionShape, NoEvolution
<1>4. /\ begun \in EngineCall /\ begun.op = "migrating" /\ begun.row = 0 /\ begun.prev = 0
  BY <1>3 DEF EngineCall
<1> HIDE DEF begun, mishap
<1> QED
  BY <1>1, <1>3, <1>4, <1>2, CallBegins

\* A version that is not activated is stored as a candidate.
LEMMA CandidateKeeps ==
    ASSUME EvolutionInv, NEW n \in Engines, GateFails(n) \/ WriteMigrated(n) PROVE EvolutionInv'
<1>1. /\ evolving[n].op \in Deriving /\ evolving' = [evolving EXCEPT ![n] = NoEvolution]
      /\ versions' = Append(versions, Row("candidate", n))
      /\ born' = born /\ changes' = changes /\ mishaps' = mishaps /\ served' = served
  BY DEF GateFails, WriteMigrated, EndEvolution, Deriving
<1>2. EvolutionShape
  BY DEF EvolutionInv
<1>3. /\ versions' \in Seq(VersionRow) /\ Len(versions') = Len(versions) + 1 /\ Len(versions) \in Nat
      /\ \A v \in DOMAIN versions' : versions'[v].prev < v
      /\ \A v \in 1..Len(versions) : versions'[v] = versions[v]
      /\ DOMAIN versions' = DOMAIN versions \cup {Len(versions) + 1} /\ DOMAIN versions = 1..Len(versions)
      /\ versions'[Len(versions) + 1].born = evolving[n].born
      /\ ActiveVersions' = ActiveVersions
      /\ changes \in Seq([kind : {"activated", "rolled_back"}, version : 1..Len(versions')])
  BY <1>1, <1>2, RowStored
<1>4. ToldActive' = ToldActive
  BY <1>1, <1>2, <1>3, ToldActiveStays
<1>5. /\ NoEvolution \in EngineCall /\ NoEvolution.op = "none" /\ CallFits(NoEvolution, Len(versions'))
      /\ NoEvolution.op \notin Deriving /\ Len(versions) <= Len(versions') /\ evolving[n].op # "none"
  BY <1>1, <1>2, <1>3, EndFits DEF Deriving
<1>6. Undisputed => InTurn(NoEvolution, ActiveVersions', ToldActive', versions'[NoEvolution.row].prev)
                    /\ (changes' # <<>> => ToldActive' # {0})
  <2> SUFFICES ASSUME Undisputed PROVE ActiveVersions = ToldActive /\ (changes # <<>> => ToldActive # {0})
    BY <1>1, <1>3, <1>4, <1>5 DEF InTurn
  <2> QED
    BY <1>1, <1>5, ItsTurn DEF InTurn, Deriving
<1>7. Alone => Newer(NoEvolution, versions', born) /\ \A v \in DOMAIN versions' : versions'[v].born <= born
  <2> SUFFICES ASSUME Alone PROVE \A v \in DOMAIN versions' : versions'[v].born <= born
    BY <1>5 DEF Newer, Deriving, Watching
  <2>1. (\A v \in DOMAIN versions : versions[v].born <= born) /\ evolving[n].born = born /\ born \in Nat
    BY <1>2, <1>5, ItIsNewest, EvolutionAssumption DEF Newer, EvolutionShape
  <2> QED
    BY <1>3, <2>1
<1>8. Served'
  <2>1. evolving[n].op # "restoring" /\ ActiveVersions \subseteq ActiveVersions'
    BY <1>1, <1>3 DEF Deriving
  <2> QED
    BY <1>1, <2>1, StaysServed
<1>9. mishaps' \subseteq Mishaps /\ mishaps \subseteq mishaps' /\ served' \in BOOLEAN /\ (Undisputed' => Undisputed)
  BY <1>1, <1>2 DEF EvolutionShape, Undisputed
<1>10. TurnKept(NoEvolution) /\ NewerKept(NoEvolution) /\ MishapsGrow
  BY <1>1, <1>3, <1>5, <1>6, <1>7, <1>8, <1>9, Zenon DEF TurnKept, NewerKept, MishapsGrow
<1>11. /\ evolving[n].op # "none" /\ NoEvolution \in EngineCall /\ evolving' = [evolving EXCEPT ![n] = NoEvolution] /\ born' = born
       /\ versions' \in Seq(VersionRow) /\ (\A v \in DOMAIN versions' : versions'[v].prev < v)
       /\ Len(versions) <= Len(versions') /\ CallFits(NoEvolution, Len(versions'))
       /\ changes' \in Seq([kind : {"activated", "rolled_back"}, version : 1..Len(versions')])
       /\ \/ /\ Len(versions') = Len(versions)
             /\ NoEvolution.op \in Deriving => evolving[n].op \in Deriving
          \/ /\ Len(versions') = Len(versions) + 1
             /\ NoEvolution.op \notin Deriving /\ evolving[n].op \in Deriving
  BY <1>1, <1>3, <1>5, Zenon
<1> QED
  BY <1>10, <1>11, CallMoves

LEMMA GatesPassKeeps == ASSUME EvolutionInv, NEW n \in Engines, GatesPass(n) PROVE EvolutionInv'
<1> DEFINE op == AfterGates(n)
           new == Len(versions) + 1
           next == [evolving[n] EXCEPT !.op = op, !.row = new]
<1>1. /\ evolving[n].op = "gating" /\ versions' = Append(versions, Row("active", n))
      /\ evolving' = [evolving EXCEPT ![n].op = op, ![n].row = new]
      /\ born' = born /\ changes' = changes /\ mishaps' = mishaps /\ served' = TRUE
  BY DEF GatesPass, GatedStatus
<1>2. EvolutionShape /\ evolving[n].op \in Deriving
  BY <1>1 DEF EvolutionInv, Deriving
<1>3. /\ versions' \in Seq(VersionRow) /\ Len(versions') = new /\ Len(versions) \in Nat
      /\ \A v \in DOMAIN versions' : versions'[v].prev < v
      /\ \A v \in 1..Len(versions) : versions'[v] = versions[v]
      /\ ActiveVersions' = ActiveVersions \cup {new} /\ ActiveVersions \subseteq 1..Len(versions)
      /\ DOMAIN versions' = DOMAIN versions \cup {new} /\ DOMAIN versions = 1..Len(versions)
      /\ versions'[new].born = evolving[n].born /\ versions'[new].status = "active"
      /\ changes \in Seq([kind : {"activated", "rolled_back"}, version : 1..Len(versions')])
  BY <1>1, <1>2, RowStored
<1>4. ToldActive' = ToldActive
  BY <1>1, <1>2, <1>3, ToldActiveStays
<1>5. /\ evolving[n].row = 0 => op = "entering"
      /\ evolving[n].row # 0 => op = "demoting"
      /\ op \in {"entering", "demoting"}
  BY DEF AfterGates
<1>6. /\ evolving \in [Engines -> EngineCall] /\ evolving[n] \in EngineCall /\ CallFits(evolving[n], Len(versions))
      /\ new \in Nat /\ new # 0 /\ new \in 0..Len(versions') /\ Len(versions) <= Len(versions')
  BY <1>2, <1>3 DEF EvolutionShape
<1> HIDE DEF op, new
<1>7. evolving' = [evolving EXCEPT ![n] = next]
  BY <1>1, <1>6
<1>8. /\ next \in EngineCall /\ next.op = op /\ next.row = new /\ next.prev = evolving[n].prev
      /\ next.born = evolving[n].born
  BY <1>5, <1>6 DEF EngineCall
<1> HIDE DEF next
<1>9. CallFits(next, Len(versions'))
  <2>1. /\ evolving[n].prev \in 0..Len(versions) /\ evolving[n].born # 0
        /\ op = "demoting" => evolving[n].prev # 0
    BY <1>1, <1>5, <1>6 DEF CallFits
  <2>3. new # evolving[n].prev
    BY <1>3, <2>1 DEF new
  <2>2. evolving[n].prev \in 0..Len(versions')
    BY <1>3, <1>6, <2>1
  <2> QED
    BY <1>5, <1>6, <1>8, <2>1, <2>2, <2>3 DEF CallFits, OnRow, OnTwo
<1>10. Undisputed => InTurn(next, ActiveVersions', ToldActive', versions'[next.row].prev)
                     /\ (changes' # <<>> => ToldActive' # {0})
  <2> SUFFICES ASSUME Undisputed PROVE InTurn(next, ActiveVersions', ToldActive', versions'[next.row].prev)
    BY <1>1, <1>4, ItsTurn
  <2>1. ActiveVersions = IF evolving[n].row = 0 THEN {} ELSE {evolving[n].row}
    BY <1>1, ItsTurn DEF InTurn
  <2>2. CASE evolving[n].row = 0
    BY <1>3, <1>5, <1>8, <2>1, <2>2 DEF InTurn
  <2>3. CASE evolving[n].row # 0
    <3>1. evolving[n].prev = evolving[n].row /\ ActiveVersions' = {new, evolving[n].prev} /\ new # evolving[n].prev
      <4>1. evolving[n].prev = evolving[n].row /\ ActiveVersions = {evolving[n].prev}
        BY <1>1, <1>6, <2>1, <2>3 DEF CallFits
      <4>2. new \notin 1..Len(versions)
        BY <1>3 DEF new
      <4> QED
        BY <1>3, <4>1, <4>2
    <3> QED
      BY <1>5, <1>8, <2>3, <3>1 DEF InTurn
  <2> QED
    BY <2>2, <2>3
<1>11. Alone => Newer(next, versions', born) /\ \A v \in DOMAIN versions' : versions'[v].born <= born
  <2> SUFFICES ASSUME Alone PROVE Newer(next, versions', born) /\ \A v \in DOMAIN versions' : versions'[v].born <= born
    OBVIOUS
  <2>1. (\A v \in DOMAIN versions : versions[v].born < born) /\ evolving[n].born = born /\ born \in Nat
    BY <1>1, <1>2, ItIsNewest, EvolutionAssumption DEF Newer, EvolutionShape
  <2>2. \A v \in DOMAIN versions : versions[v].born \in Nat
    <3>1. \A v \in DOMAIN versions : versions[v] \in VersionRow
      BY <1>2, ElementOfSeq, LenProperties DEF EvolutionShape
    <3> QED
      BY <3>1, EvolutionAssumption DEF VersionRow
  <2>3. versions'[new].born = born /\ \A v \in DOMAIN versions' \ {new} : versions'[v].born < born
    BY <1>3, <2>1
  <2>4. \A v \in DOMAIN versions' : versions'[v].born <= born
    BY <1>3, <2>1, <2>2, <2>3
  <2> QED
    BY <1>3, <1>5, <1>8, <2>1, <2>3, <2>4 DEF Newer, Deriving, Watching
<1>12. Served'
  BY <1>3 DEF Served
<1>13. mishaps' \subseteq Mishaps /\ mishaps \subseteq mishaps' /\ served' \in BOOLEAN /\ (Undisputed' => Undisputed)
  BY <1>1, <1>2 DEF EvolutionShape, Undisputed
<1>14. TurnKept(next) /\ NewerKept(next) /\ MishapsGrow
  BY <1>1, <1>2, <1>3, <1>5, <1>6, <1>7, <1>8, <1>9, <1>10, <1>11, <1>12, <1>13, Zenon DEF TurnKept, NewerKept, MishapsGrow
<1>15. /\ evolving[n].op # "none" /\ next \in EngineCall /\ evolving' = [evolving EXCEPT ![n] = next] /\ born' = born
       /\ versions' \in Seq(VersionRow) /\ (\A v \in DOMAIN versions' : versions'[v].prev < v)
       /\ Len(versions) <= Len(versions') /\ CallFits(next, Len(versions'))
       /\ changes' \in Seq([kind : {"activated", "rolled_back"}, version : 1..Len(versions')])
       /\ \/ /\ Len(versions') = Len(versions)
             /\ next.op \in Deriving => evolving[n].op \in Deriving
          \/ /\ Len(versions') = Len(versions) + 1
             /\ next.op \notin Deriving /\ evolving[n].op \in Deriving
  <2>1. next.op \notin Deriving
    BY <1>5, <1>8 DEF Deriving
  <2>2. Len(versions') = Len(versions) + 1
    BY <1>3 DEF new
  <2> QED
    BY <1>1, <1>2, <1>3, <1>6, <1>7, <1>8, <1>9, <2>1, <2>2, Zenon
<1> QED
  BY <1>14, <1>15, CallMoves

\* A call that changes a status, or fails to, and goes on.
LEMMA StatusKeeps ==
    ASSUME EvolutionInv, NEW n \in Engines, Demote(n) \/ Retract(n) \/ Restore(n) PROVE EvolutionInv'
<1>1. /\ EvolutionShape /\ evolving \in [Engines -> EngineCall] /\ evolving[n] \in EngineCall
      /\ CallFits(evolving[n], Len(versions)) /\ born' = born /\ changes' = changes
      /\ Len(versions) \in Nat /\ DOMAIN versions = 1..Len(versions)
  BY EndFits DEF EvolutionInv, EvolutionShape, Demote, Retract, Restore
<1>2. PICK op \in {"entering", "restoring", "noting"}, v \in 1..Len(versions), status \in {"rolled_back", "active"} :
          /\ GoOn(n, op) /\ Update(v, status)
          /\ \/ evolving[n].op = "demoting" /\ op = "entering" /\ v = evolving[n].prev /\ status = "rolled_back"
             \/ evolving[n].op = "retracting" /\ op = "restoring" /\ v = evolving[n].row /\ status = "rolled_back"
             \/ evolving[n].op = "restoring" /\ op = "noting" /\ v = evolving[n].prev /\ status = "active"
  <2>1. /\ evolving[n].op \in OnRow => evolving[n].row \in 1..Len(versions)
        /\ evolving[n].op \in OnTwo => evolving[n].prev \in 1..Len(versions)
    BY <1>1 DEF CallFits
  <2>2. CASE Demote(n)
    BY <2>1, <2>2 DEF Demote, OnTwo
  <2>3. CASE Retract(n)
    BY <2>1, <2>3 DEF Retract, OnRow
  <2>4. CASE Restore(n)
    BY <2>1, <2>4 DEF Restore, OnTwo
  <2> QED
    BY <2>2, <2>3, <2>4
<1>3. /\ versions' \in Seq(VersionRow) /\ Len(versions') = Len(versions) /\ DOMAIN versions' = DOMAIN versions
      /\ \A u \in DOMAIN versions' : versions'[u].prev < u
      /\ \A u \in 1..Len(versions) :
             versions'[u].prev = versions[u].prev /\ versions'[u].born = versions[u].born
      /\ ActiveVersions \ {v} \subseteq ActiveVersions'
      /\ SetStatus(v, status) /\ status = "active" => ActiveVersions' = ActiveVersions \cup {v}
      /\ SetStatus(v, status) /\ status = "rolled_back" => ActiveVersions' = ActiveVersions \ {v}
  <2>1. CASE SetStatus(v, status)
    BY <1>1, <2>1, StatusGiven
  <2>2. CASE versions' = versions
    <3>1. ActiveVersions' = ActiveVersions
      BY <2>2 DEF ActiveVersions
    <3>2. SetStatus(v, status) => ActiveVersions' = ActiveVersions
      BY <3>1
    <3>3. versions \in Seq(VersionRow) /\ \A u \in DOMAIN versions : versions[u].prev < u
      BY <1>1 DEF EvolutionShape
    <3>4. /\ SetStatus(v, status) /\ status = "active" => ActiveVersions' = ActiveVersions \cup {v}
          /\ SetStatus(v, status) /\ status = "rolled_back" => ActiveVersions' = ActiveVersions \ {v}
      BY <1>1, StatusGiven
    <3> QED
      BY <2>2, <3>1, <3>3, <3>4
  <2> QED
    BY <1>2, <2>1, <2>2 DEF Update
<1>4. ToldActive' = ToldActive
  BY <1>1, <1>3, ToldActiveStays
<1> DEFINE next == [evolving[n] EXCEPT !.op = op]
<1>5. evolving' = [evolving EXCEPT ![n] = next]
  BY <1>1, <1>2 DEF GoOn
<1>6. /\ next \in EngineCall /\ next.op = op /\ next.row = evolving[n].row /\ next.prev = evolving[n].prev
      /\ next.born = evolving[n].born
  BY <1>1, <1>2 DEF EngineCall
<1> HIDE DEF next
<1>7. CallFits(next, Len(versions')) /\ evolving[n].op # "none" /\ next.op \notin Deriving
  BY <1>1, <1>2, <1>3, <1>6 DEF CallFits, OnRow, OnTwo, Deriving
<1>8. /\ mishaps' \subseteq Mishaps /\ mishaps \subseteq mishaps' /\ Len(versions) <= Len(versions')
      /\ Undisputed' => Undisputed /\ SetStatus(v, status)
  <2>1. mishaps \subseteq Mishaps /\ Len(versions) <= Len(versions')
    BY <1>1, <1>3 DEF EvolutionShape
  <2>2. (SetStatus(v, status) /\ mishaps' = mishaps) \/ mishaps' = mishaps \cup {"refused"}
    BY <1>2 DEF Update
  <2> QED
    BY <2>1, <2>2 DEF Undisputed, Mishaps
<1>9. Undisputed' => InTurn(next, ActiveVersions', ToldActive', versions'[next.row].prev)
                     /\ (changes' # <<>> => ToldActive' # {0})
  <2> SUFFICES ASSUME Undisputed, SetStatus(v, status)
               PROVE  InTurn(next, ActiveVersions', ToldActive', versions'[next.row].prev)
    BY <1>1, <1>4, <1>8, ItsTurn
  <2>1. InTurn(evolving[n], ActiveVersions, ToldActive, versions[evolving[n].row].prev)
    BY <1>7, ItsTurn
  <2>2. evolving[n].row \in 1..Len(versions)
    BY <1>1, <1>2, <1>3 DEF CallFits, OnRow
  <2>3. versions'[next.row].prev = versions[evolving[n].row].prev
    BY <1>3, <1>6, <2>2
  <2>4. CASE evolving[n].op = "demoting"
    BY <1>2, <1>3, <1>6, <2>1, <2>4 DEF InTurn
  <2>5. CASE evolving[n].op = "retracting"
    BY <1>2, <1>3, <1>6, <2>1, <2>3, <2>5 DEF InTurn
  <2>6. CASE evolving[n].op = "restoring"
    BY <1>2, <1>3, <1>6, <2>1, <2>3, <2>6 DEF InTurn
  <2> QED
    BY <1>2, <2>4, <2>5, <2>6
<1>10. Alone => Newer(next, versions', born) /\ \A u \in DOMAIN versions' : versions'[u].born <= born
  <2> SUFFICES ASSUME Alone
               PROVE  Newer(next, versions', born) /\ \A u \in DOMAIN versions' : versions'[u].born <= born
    OBVIOUS
  <2>1. Newer(evolving[n], versions, born) /\ \A u \in DOMAIN versions : versions[u].born <= born
    BY <1>7, ItIsNewest
  <2>2. \A u \in DOMAIN versions' : versions'[u].born <= born
    BY <1>1, <1>3, <2>1
  <2>3. CASE evolving[n].op = "demoting"
    <3>1. /\ evolving[n].row \in DOMAIN versions /\ evolving[n].row \in ActiveVersions
          /\ \A u \in DOMAIN versions \ {evolving[n].row} : versions[u].born < versions[evolving[n].row].born
      BY <2>1, <2>3 DEF Newer, Watching, ActiveVersions
    <3>2. v # evolving[n].row
      BY <1>1, <1>2, <2>3 DEF CallFits
    <3>3. versions'[evolving[n].row].status = "active"
      BY <1>3, <3>1, <3>2 DEF ActiveVersions
    <3> QED
      BY <1>1, <1>2, <1>3, <1>6, <1>7, <2>1, <2>2, <3>1, <3>3 DEF Newer
  <2>4. CASE evolving[n].op # "demoting"
    BY <1>2, <1>6, <1>7, <2>1, <2>2, <2>4 DEF Newer, Watching
  <2> QED
    BY <2>3, <2>4
<1>11. served' \in BOOLEAN /\ Served'
  <2>1. served \in BOOLEAN /\ evolving'[n] = next /\ \A m \in Engines \ {n} : evolving'[m] = evolving[m]
    BY <1>1, <1>5 DEF EvolutionShape
  <2>2. SomeActive' => ActiveVersions' # {}
    BY DEF SomeActive, ActiveVersions
  <2>3. CASE Demote(n)
    <3>1. served' = (served /\ (versions[evolving[n].row].status = "active" \/ SomeActive')) /\ evolving[n].op = "demoting"
      BY <2>3 DEF Demote
    <3>2. evolving[n].row \in DOMAIN versions /\ v # evolving[n].row
      BY <1>1, <1>2, <3>1 DEF CallFits, OnRow
    <3>3. versions[evolving[n].row].status = "active" => ActiveVersions' # {}
      BY <1>3, <3>2 DEF ActiveVersions
    <3> QED
      BY <2>1, <2>2, <3>1, <3>3 DEF Served
  <2>4. CASE Retract(n)
    <3>1. served' = served /\ evolving'[n].op = "restoring"
      BY <1>2, <1>6, <2>1, <2>4 DEF Retract
    <3> QED
      BY <2>1, <3>1 DEF Served
  <2>5. CASE Restore(n)
    BY <2>1, <2>2, <2>5 DEF Restore, StillServed, Served
  <2> QED
    BY <2>3, <2>4, <2>5
<1>12. TurnKept(next) /\ NewerKept(next) /\ MishapsGrow
  BY <1>1, <1>3, <1>5, <1>6, <1>7, <1>8, <1>9, <1>10, <1>11, Zenon DEF TurnKept, NewerKept, MishapsGrow
<1>13. Len(versions) <= Len(versions') /\ changes' \in Seq([kind : {"activated", "rolled_back"}, version : 1..Len(versions')])
  BY <1>1, <1>3 DEF EvolutionShape
<1>14. /\ evolving[n].op # "none" /\ next \in EngineCall /\ evolving' = [evolving EXCEPT ![n] = next] /\ born' = born
       /\ versions' \in Seq(VersionRow) /\ (\A w \in DOMAIN versions' : versions'[w].prev < w)
       /\ Len(versions) <= Len(versions') /\ CallFits(next, Len(versions'))
       /\ changes' \in Seq([kind : {"activated", "rolled_back"}, version : 1..Len(versions')])
       /\ \/ /\ Len(versions') = Len(versions)
             /\ next.op \in Deriving => evolving[n].op \in Deriving
          \/ /\ Len(versions') = Len(versions) + 1
             /\ next.op \notin Deriving /\ evolving[n].op \in Deriving
  BY <1>1, <1>3, <1>5, <1>6, <1>7, <1>13, Zenon
<1> QED
  BY <1>12, <1>14, CallMoves

\* The ledger tells of the last entry.
LEMMA LedgerEntered ==
    ASSUME EvolutionShape, NEW kind \in {"activated", "rolled_back"}, NEW v \in 1..Len(versions),
           Enter(kind, v), versions' = versions
    PROVE  /\ changes' \in Seq([kind : {"activated", "rolled_back"}, version : 1..Len(versions')])
           /\ ToldActive' = IF kind = "activated" THEN {v} ELSE {versions[v].prev}
<1> DEFINE entry == [kind |-> kind, version |-> v]
           S == [kind : {"activated", "rolled_back"}, version : 1..Len(versions)]
<1>1. entry \in S /\ entry.kind = kind /\ entry.version = v /\ changes \in Seq(S) /\ changes' = Append(changes, entry)
  BY DEF EvolutionShape, Enter
<1> HIDE DEF entry, S
<1>2. /\ changes' \in Seq(S) /\ Len(changes') = Len(changes) + 1 /\ changes'[Len(changes) + 1] = entry
  BY <1>1, AppendProperties
<1>3. changes' # <<>>
  BY <1>1, AppendProperties
<1>4. changes'[Len(changes')] = entry
  BY <1>2
<1>5. changes' \in Seq([kind : {"activated", "rolled_back"}, version : 1..Len(versions')])
  BY <1>2 DEF S
<1> QED
  BY <1>1, <1>3, <1>4, <1>5 DEF ToldActive

LEMMA EnterKeeps == ASSUME EvolutionInv, NEW n \in Engines, EnterActivation(n) PROVE EvolutionInv'
<1> DEFINE next == [evolving[n] EXCEPT !.op = "canary"]
<1>1. /\ EvolutionShape /\ evolving \in [Engines -> EngineCall] /\ evolving[n] \in EngineCall
      /\ CallFits(evolving[n], Len(versions)) /\ Len(versions) \in Nat
      /\ versions' = versions /\ born' = born /\ mishaps' = mishaps /\ served' = served
      /\ evolving[n].op = "entering" /\ Enter("activated", evolving[n].row)
  BY EndFits DEF EvolutionInv, EvolutionShape, EnterActivation
<1>2. evolving' = [evolving EXCEPT ![n] = next]
  BY <1>1 DEF EnterActivation, GoOn
<1>3. /\ next \in EngineCall /\ next.op = "canary" /\ next.row = evolving[n].row /\ next.prev = evolving[n].prev
      /\ next.born = evolving[n].born
  BY <1>1 DEF EngineCall
<1> HIDE DEF next
<1>4. evolving[n].row \in 1..Len(versions)
  BY <1>1 DEF CallFits, OnRow
<1>5. /\ changes' \in Seq([kind : {"activated", "rolled_back"}, version : 1..Len(versions')])
      /\ ToldActive' = {evolving[n].row}
  BY <1>1, <1>4, LedgerEntered
<1>6. CallFits(next, Len(versions')) /\ next.op \notin Deriving
  BY <1>1, <1>3 DEF CallFits, OnRow, OnTwo, Deriving
<1>7. Undisputed => InTurn(next, ActiveVersions', ToldActive', versions'[next.row].prev)
                    /\ (changes' # <<>> => ToldActive' # {0})
  <2> SUFFICES ASSUME Undisputed PROVE ActiveVersions' = {evolving[n].row} /\ ToldActive' # {0}
    BY <1>3, <1>5 DEF InTurn
  <2>1. ActiveVersions' = ActiveVersions /\ ActiveVersions = {evolving[n].row}
    BY <1>1, ItsTurn DEF InTurn, ActiveVersions
  <2> QED
    BY <1>4, <1>5, <2>1
<1>8. versions' \in Seq(VersionRow) /\ (\A v \in DOMAIN versions' : versions'[v].prev < v) /\ Len(versions) <= Len(versions')
  BY <1>1 DEF EvolutionShape
<1>9. Alone => Newer(next, versions', born) /\ \A v \in DOMAIN versions' : versions'[v].born <= born
  BY <1>1, <1>3, <1>6, ItIsNewest DEF Newer, Watching
<1>10. /\ mishaps' \subseteq Mishaps /\ mishaps \subseteq mishaps' /\ served' \in BOOLEAN /\ (Undisputed' => Undisputed)
       /\ Served'
  <2>1. ActiveVersions' = ActiveVersions /\ evolving[n].op # "restoring"
    BY <1>1 DEF ActiveVersions
  <2> QED
    BY <1>1, <1>2, <2>1, StaysServed DEF EvolutionShape, Undisputed
<1>11. TurnKept(next) /\ NewerKept(next) /\ MishapsGrow
  BY <1>1, <1>2, <1>3, <1>5, <1>6, <1>7, <1>8, <1>9, <1>10, Zenon DEF TurnKept, NewerKept, MishapsGrow
<1> QED
  BY <1>1, <1>2, <1>3, <1>5, <1>6, <1>7, <1>8, <1>9, <1>10, <1>11, CallMoves

LEMMA NoteKeeps == ASSUME EvolutionInv, NEW n \in Engines, EnterRollback(n) PROVE EvolutionInv'
<1>1. /\ EvolutionShape /\ evolving[n] \in EngineCall /\ CallFits(evolving[n], Len(versions)) /\ Len(versions) \in Nat
      /\ versions' = versions /\ born' = born /\ mishaps' = mishaps /\ served' = served
      /\ evolving[n].op = "noting" /\ Enter("rolled_back", evolving[n].row)
      /\ evolving' = [evolving EXCEPT ![n] = NoEvolution]
  BY EndFits DEF EvolutionInv, EvolutionShape, EnterRollback, EndEvolution
<1>2. evolving[n].row \in 1..Len(versions) /\ evolving[n].prev # 0
  BY <1>1 DEF CallFits, OnRow, OnTwo
<1>3. /\ changes' \in Seq([kind : {"activated", "rolled_back"}, version : 1..Len(versions')])
      /\ ToldActive' = {versions[evolving[n].row].prev}
  BY <1>1, <1>2, LedgerEntered
<1>4. /\ NoEvolution \in EngineCall /\ NoEvolution.op = "none" /\ CallFits(NoEvolution, Len(versions'))
      /\ NoEvolution.op \notin Deriving
  BY <1>1, EndFits DEF Deriving
<1>5. Undisputed => InTurn(NoEvolution, ActiveVersions', ToldActive', versions'[NoEvolution.row].prev)
                    /\ (changes' # <<>> => ToldActive' # {0})
  <2> SUFFICES ASSUME Undisputed PROVE ActiveVersions' = ToldActive' /\ ToldActive' # {0}
    BY <1>4 DEF InTurn
  <2>1. ActiveVersions' = ActiveVersions /\ ActiveVersions = {evolving[n].prev}
    BY <1>1, ItsTurn DEF InTurn, ActiveVersions
  <2>2. versions[evolving[n].row].prev = evolving[n].prev
    BY <1>1, ItsTurn DEF InTurn
  <2> QED
    BY <1>2, <1>3, <2>1, <2>2
<1>6. versions' \in Seq(VersionRow) /\ (\A v \in DOMAIN versions' : versions'[v].prev < v) /\ Len(versions) <= Len(versions')
  BY <1>1 DEF EvolutionShape
<1>7. Alone => Newer(NoEvolution, versions', born) /\ \A v \in DOMAIN versions' : versions'[v].born <= born
  BY <1>1, <1>4, ItIsNewest DEF Newer, Watching
<1>8. /\ mishaps' \subseteq Mishaps /\ mishaps \subseteq mishaps' /\ served' \in BOOLEAN /\ (Undisputed' => Undisputed)
       /\ Served'
  <2>1. ActiveVersions' = ActiveVersions /\ evolving[n].op # "restoring"
    BY <1>1 DEF ActiveVersions
  <2> QED
    BY <1>1, <2>1, StaysServed DEF EvolutionShape, Undisputed
<1>9. TurnKept(NoEvolution) /\ NewerKept(NoEvolution) /\ MishapsGrow
  BY <1>1, <1>3, <1>4, <1>5, <1>6, <1>7, <1>8, Zenon DEF TurnKept, NewerKept, MishapsGrow
<1> QED
  BY <1>1, <1>3, <1>4, <1>5, <1>6, <1>7, <1>8, <1>9, CallMoves

\* A call that writes nothing.
LEMMA LookKeeps == ASSUME EvolutionInv, NEW n \in Engines, Canary(n) \/ LoadVersions(n) PROVE EvolutionInv'
<1> DEFINE before == versions[evolving[n].row].prev
<1>1. /\ EvolutionShape /\ evolving \in [Engines -> EngineCall] /\ evolving[n] \in EngineCall
      /\ CallFits(evolving[n], Len(versions)) /\ Len(versions) \in Nat
      /\ versions' = versions /\ changes' = changes /\ born' = born /\ mishaps' = mishaps
      /\ served' = served /\ evolving[n].op \in {"canary", "loading"}
      /\ ActiveVersions' = ActiveVersions /\ ToldActive' = ToldActive
  BY EndFits DEF EvolutionInv, EvolutionShape, Canary, LoadVersions, ActiveVersions, ToldActive
<1>2. \/ evolving' = [evolving EXCEPT ![n] = NoEvolution]
      \/ evolving' = [evolving EXCEPT ![n].op = "loading"]
      \/ evolving' = [evolving EXCEPT ![n].op = "retracting", ![n].prev = before] /\ before # 0
  BY DEF Canary, LoadVersions, EndEvolution, GoOn
<1>3. evolving[n].row \in 1..Len(versions) /\ before \in Nat /\ before \in 0..Len(versions)
  <2>1. evolving[n].row \in 1..Len(versions)
    BY <1>1 DEF CallFits, OnRow
  <2>2. versions[evolving[n].row] \in VersionRow /\ before < evolving[n].row
    BY <1>1, <2>1, ElementOfSeq, LenProperties DEF EvolutionShape
  <2> QED
    BY <1>1, <2>1, <2>2, EvolutionAssumption DEF VersionRow
<1> HIDE DEF before
<1>4. PICK next \in EngineCall :
          /\ evolving' = [evolving EXCEPT ![n] = next]
          /\ \/ next = NoEvolution
             \/ next.op = "loading" /\ next.row = evolving[n].row /\ next.prev = evolving[n].prev
                /\ next.born = evolving[n].born
             \/ next.op = "retracting" /\ next.row = evolving[n].row /\ next.prev = before /\ before # 0
                /\ next.born = evolving[n].born
  <2>1. CASE evolving' = [evolving EXCEPT ![n] = NoEvolution]
    BY <1>1, <2>1, EndFits
  <2>2. CASE evolving' = [evolving EXCEPT ![n].op = "loading"]
    <3> DEFINE next == [evolving[n] EXCEPT !.op = "loading"]
    <3>1. evolving' = [evolving EXCEPT ![n] = next]
      BY <1>1, <2>2
    <3>2. /\ next \in EngineCall /\ next.op = "loading" /\ next.row = evolving[n].row
          /\ next.prev = evolving[n].prev /\ next.born = evolving[n].born
      BY <1>1 DEF EngineCall
    <3> HIDE DEF next
    <3> QED
      BY <3>1, <3>2
  <2>3. CASE evolving' = [evolving EXCEPT ![n].op = "retracting", ![n].prev = before] /\ before # 0
    <3> DEFINE next == [evolving[n] EXCEPT !.op = "retracting", !.prev = before]
    <3>1. evolving' = [evolving EXCEPT ![n] = next]
      BY <1>1, <2>3
    <3>2. /\ next \in EngineCall /\ next.op = "retracting" /\ next.row = evolving[n].row
          /\ next.prev = before /\ next.born = evolving[n].born
      BY <1>1, <1>3 DEF EngineCall
    <3> HIDE DEF next
    <3> QED
      BY <2>3, <3>1, <3>2
  <2> QED
    BY <1>2, <2>1, <2>2, <2>3
<1>5. CallFits(next, Len(versions)) /\ next.op \notin Deriving /\ evolving[n].op # "none"
  <2>1. CallFits(NoEvolution, Len(versions)) /\ NoEvolution.op = "none"
    BY <1>1, EndFits
  <2>2. evolving[n].row \in 0..Len(versions) /\ evolving[n].row # 0 /\ evolving[n].prev \in 0..Len(versions)
        /\ evolving[n].born # 0
    BY <1>1, <1>3 DEF CallFits
  <2> QED
    BY <1>1, <1>3, <1>4, <2>1, <2>2 DEF CallFits, OnRow, OnTwo, Deriving
<1>6. Undisputed => InTurn(next, ActiveVersions', ToldActive', versions'[next.row].prev)
                    /\ (changes' # <<>> => ToldActive' # {0})
  <2> SUFFICES ASSUME Undisputed PROVE InTurn(next, ActiveVersions, ToldActive, versions[next.row].prev)
    BY <1>1, ItsTurn
  <2>1. ActiveVersions = {evolving[n].row} /\ ToldActive = {evolving[n].row}
    BY <1>1, <1>5, ItsTurn DEF InTurn
  <2>2. NoEvolution.op = "none"
    BY DEF NoEvolution
  <2> QED
    BY <1>4, <2>1, <2>2 DEF InTurn, before
<1>7. versions' \in Seq(VersionRow) /\ (\A v \in DOMAIN versions' : versions'[v].prev < v) /\ Len(versions) <= Len(versions')
      /\ changes' \in Seq([kind : {"activated", "rolled_back"}, version : 1..Len(versions')])
  BY <1>1 DEF EvolutionShape
<1>8. Alone => Newer(next, versions', born) /\ \A v \in DOMAIN versions' : versions'[v].born <= born
  BY <1>1, <1>4, <1>5, EndFits, ItIsNewest DEF Newer, Watching
<1>9. /\ mishaps' \subseteq Mishaps /\ mishaps \subseteq mishaps' /\ served' \in BOOLEAN /\ (Undisputed' => Undisputed)
       /\ Served'
  <2>1. ActiveVersions' = ActiveVersions /\ evolving[n].op # "restoring"
    BY <1>1 DEF ActiveVersions
  <2> QED
    BY <1>1, <1>4, <2>1, StaysServed DEF EvolutionShape, Undisputed
<1>10. TurnKept(next) /\ NewerKept(next) /\ MishapsGrow
  BY <1>1, <1>4, <1>5, <1>6, <1>7, <1>8, <1>9, Zenon DEF TurnKept, NewerKept, MishapsGrow
<1> QED
  BY <1>1, <1>4, <1>5, <1>6, <1>7, <1>8, <1>9, <1>10, CallMoves

LEMMA HaltKeeps == ASSUME EvolutionInv, NEW n \in Engines, HaltEvolution(n) PROVE EvolutionInv'
<1>1. /\ EvolutionShape /\ evolving[n].op # "none" /\ mishaps' = mishaps \cup {"death"} /\ StillServed
      /\ evolving' = [evolving EXCEPT ![n] = NoEvolution]
      /\ versions' = versions /\ changes' = changes /\ born' = born
  BY DEF EvolutionInv, HaltEvolution, EndEvolution
<1>2. /\ NoEvolution \in EngineCall /\ NoEvolution.op \notin Deriving /\ CallFits(NoEvolution, Len(versions'))
      /\ Len(versions) <= Len(versions') /\ NoEvolution.op = "none"
  BY <1>1, EndFits DEF Deriving
<1>3. /\ mishaps' \subseteq Mishaps /\ mishaps \subseteq mishaps' /\ ~Undisputed' /\ served' \in BOOLEAN
  BY <1>1 DEF EvolutionShape, Undisputed, Mishaps, StillServed
<1>4. Served'
  BY <1>1 DEF StillServed, Served, SomeActive, ActiveVersions
<1>5. versions' \in Seq(VersionRow) /\ (\A v \in DOMAIN versions' : versions'[v].prev < v)
      /\ changes' \in Seq([kind : {"activated", "rolled_back"}, version : 1..Len(versions')])
  BY <1>1 DEF EvolutionShape
<1>6. Alone => Newer(NoEvolution, versions', born) /\ \A v \in DOMAIN versions' : versions'[v].born <= born
  BY <1>1, <1>2, ItIsNewest DEF Newer, Watching, Deriving
<1>7. TurnKept(NoEvolution) /\ NewerKept(NoEvolution) /\ MishapsGrow
  BY <1>1, <1>2, <1>3, <1>4, <1>5, <1>6, Zenon DEF TurnKept, NewerKept, MishapsGrow
<1> QED
  BY <1>1, <1>2, <1>3, <1>4, <1>5, <1>6, <1>7, CallMoves

LEMMA EvolutionStep == EvolutionInv /\ [EvolutionNext]_evolutionVars => EvolutionInv'
<1> SUFFICES ASSUME EvolutionInv, [EvolutionNext]_evolutionVars PROVE EvolutionInv'
  OBVIOUS
<1>1. CASE UNCHANGED evolutionVars
  BY <1>1 DEF evolutionVars, EvolutionInv, EvolutionShape, InOrder, Served, Newest, Alone, Undisputed, Derivers, Engaging,
             ActiveVersions, ToldActive
<1>2. ASSUME NEW n \in Engines, EngineStep(n) PROVE EvolutionInv'
  BY <1>2, ApplyKeeps, CandidateKeeps, GatesPassKeeps, StatusKeeps, EnterKeeps, LookKeeps, RollbackKeeps,
     NoteKeeps, MigrateKeeps, HaltKeeps DEF EngineStep
<1> QED
  BY <1>1, <1>2 DEF EvolutionNext

LEMMA EvolutionInvariant == EvolutionSpec => []EvolutionInv
  BY EvolutionStarts, EvolutionStep, PTL DEF EvolutionSpec

LEMMA EvolutionTyped == EvolutionInv => EvolutionTypeOK
<1> SUFFICES ASSUME EvolutionInv PROVE EvolutionTypeOK
  OBVIOUS
<1>1. EvolutionShape /\ DOMAIN versions = 1..Len(versions)
  BY EndFits DEF EvolutionInv
<1> QED
  BY <1>1 DEF EvolutionShape, EvolutionTypeOK, CallFits, VersionRow

\* The versions of a connector fit together, for any number of versions and
\* callers: however calls overlap and whatever the store refuses, one is active
\* once one was; the newest activation counts unless calls overlap; and when
\* nothing went wrong one at most is active between calls and the ledger tells
\* which (applyConnectorEvolution, rollbackConnectorVersion).
THEOREM VersionsFitTogether == EvolutionSpec => []VersionsConsistent
<1>1. EvolutionInv => VersionsConsistent
  <2> SUFFICES ASSUME EvolutionInv PROVE VersionsConsistent
    OBVIOUS
  <2>1. EvolutionShape
    BY DEF EvolutionInv
  <2>2. ASSUME ~Engaged, Undisputed PROVE ActiveVersions = ToldActive
    BY <2>2 DEF EvolutionInv, InOrder, Engaged, Engaging
  <2>3. OneActiveVersion
    <3> SUFFICES ASSUME ~Engaged, Undisputed PROVE Cardinality(ToldActive) <= 1
      BY <2>2 DEF OneActiveVersion, Undisputed
    <3>1. ToldActive = {} \/ \E v : ToldActive = {v}
      BY DEF ToldActive
    <3>2. Cardinality(ToldActive) \in {0, 1}
      BY <3>1, FS_EmptySet, FS_Singleton
    <3> QED
      BY <3>2
  <2>4. NeverWithout
    BY DEF NeverWithout, EvolutionInv, Served
  <2>5. ActivationCounts
    <3> SUFFICES ASSUME Alone, NEW n \in Engines, evolving[n].op = "canary" PROVE ActiveVersion = evolving[n].row
      BY DEF ActivationCounts, Alone
    <3> DEFINE row == evolving[n].row
    <3>1. /\ row \in ActiveVersions
          /\ \A v \in DOMAIN versions \ {row} : versions[v].born < versions[row].born
      BY ItIsNewest DEF Newer, Watching, ActiveVersions
    <3>2. \A v \in DOMAIN versions : versions[v].born \in Nat
      <4>1. \A v \in DOMAIN versions : versions[v] \in VersionRow
        BY <2>1, ElementOfSeq, LenProperties DEF EvolutionShape
      <4> QED
        BY <4>1, EvolutionAssumption DEF VersionRow
    <3> HIDE DEF row
    <3>3. \A v \in ActiveVersions : (\A u \in ActiveVersions : versions[u].born <= versions[v].born) <=> v = row
      BY <3>1, <3>2 DEF ActiveVersions
    <3>4. ActiveVersion = CHOOSE v \in ActiveVersions : \A u \in ActiveVersions : versions[u].born <= versions[v].born
      BY <3>1 DEF ActiveVersion
    <3>5. ActiveVersion = row
      BY <3>1, <3>3, <3>4
    <3> QED
      BY <3>5 DEF row
  <2>6. LedgerTellsActive
    <3> DEFINE last == changes[Len(changes)]
               told == IF last.kind = "activated" THEN last.version ELSE versions[last.version].prev
    <3> SUFFICES ASSUME ~Engaged, Undisputed, changes # <<>> PROVE ActiveVersion = told
      BY DEF LedgerTellsActive, Undisputed
    <3>1. ToldActive = {told}
      BY DEF ToldActive
    <3>2. ActiveVersions = {told}
      BY <2>2, <3>1
    <3> HIDE DEF told
    <3> QED
      BY <2>1, <3>2, LatestActive
  <2> QED
    BY <2>3, <2>4, <2>5, <2>6 DEF VersionsConsistent
<1> QED
  BY <1>1, EvolutionInvariant, PTL

-----------------------------------------------------------------------------
SettingOps == {"replacing", "looking", "inserting", "updating"}
DecidingOps == {"accepting", "rejecting"}
Command == [op : SettingOps \cup DecidingOps \cup {"none", "capturing", "restoring"},
            goal : Goals \cup {""}, at : Nat, old : SUBSET Goals]
Deciders == {c \in Owners : commands[c].op \in DecidingOps}
Snapshot == [at : Nat, rows : GoalRows]

\* What a command has in hand, by the clock.
InHandBy(command, clock) ==
    /\ command.at <= clock
    /\ command.op \in SettingOps \cup DecidingOps => command.goal \in Goals
    /\ command.op = "capturing" => command.at # 0

\* Every command stamps once; no two snapshots are taken at the same time.
GoalBooks ==
    /\ goals \in GoalRows /\ \A g \in Goals : goals[g].at <= goalClock
    /\ commands \in [Owners -> Command] /\ \A c \in Owners : InHandBy(commands[c], goalClock)
    /\ snapshots \subseteq Snapshot /\ IsFiniteSet(snapshots) /\ Cardinality(snapshots) <= SnapshotsKept
    /\ \A s \in snapshots : s.at <= goalClock /\ s.at # 0 /\ \A g \in Goals : s.rows[g].at <= goalClock
    /\ \A s, t \in snapshots : s.at = t.at => s = t
    /\ \A c \in Owners, s \in snapshots : commands[c].op = "capturing" => commands[c].at # s.at
    /\ \A c, d \in Owners : commands[c].op = "capturing" /\ commands[d].op = "capturing"
                                /\ commands[c].at = commands[d].at => c = d
    /\ goalClock \in Nat /\ begunCommands \in 0..MaxCommands /\ chosen \subseteq Goals
    /\ IsFiniteSet(Deciders) /\ goalClock + Cardinality(Deciders) <= begunCommands

\* Of n rows with different times those that have fewer than k after them are k
\* at most.
LEMMA TrimmedBound ==
    ASSUME NEW rows, IsFiniteSet(rows), \A s \in rows : s.at \in Nat,
           \A s, t \in rows : s.at = t.at => s = t
    PROVE  /\ Trimmed(rows) \subseteq rows /\ IsFiniteSet(Trimmed(rows))
           /\ Cardinality(Trimmed(rows)) <= SnapshotsKept
<1>1. SnapshotsKept \in Nat /\ SnapshotsKept # 0
  BY GoalAssumption
<1>2. Trimmed(rows) \subseteq rows /\ IsFiniteSet(Trimmed(rows))
  BY FS_Subset DEF Trimmed
<1>3. CASE Trimmed(rows) = {}
  BY <1>1, <1>2, <1>3, FS_EmptySet
<1>4. CASE Trimmed(rows) # {}
  <2> DEFINE T == {s.at : s \in Trimmed(rows)}
  <2>1. T \subseteq Nat /\ T # {}
    BY <1>2, <1>4
  <2>2. PICK n \in T : \A m \in T : n <= m
    <3> HIDE DEF T
    <3> QED
      BY <2>1, LeastNat
  <2>3. PICK s \in Trimmed(rows) : n = s.at
    BY <2>2
  <2> DEFINE later == {t \in rows : t.at > s.at}
  <2>4. IsFiniteSet(later) /\ Cardinality(later) < SnapshotsKept /\ s \notin later
    <3>1. IsFiniteSet(later)
      BY FS_Subset
    <3>2. Cardinality(later) < SnapshotsKept
      BY <2>3 DEF Trimmed
    <3>3. s \in rows /\ s.at \in Nat
      BY <1>2, <2>3
    <3> QED
      BY <3>1, <3>2, <3>3
  <2>5. Trimmed(rows) \subseteq later \cup {s}
    <3> SUFFICES ASSUME NEW t \in Trimmed(rows), t # s PROVE t \in later
      OBVIOUS
    <3>1. t \in rows /\ s \in rows /\ t.at \in Nat /\ s.at \in Nat /\ t.at # s.at
      BY <1>2, <2>3
    <3>2. s.at <= t.at
      BY <2>2, <2>3
    <3> QED
      BY <3>1, <3>2
  <2> HIDE DEF later
  <2>6. IsFiniteSet(later \cup {s}) /\ Cardinality(later \cup {s}) = Cardinality(later) + 1 /\ Cardinality(later) \in Nat
    BY <2>4, FS_AddElement, FS_CardinalityType
  <2>7. Cardinality(Trimmed(rows)) <= Cardinality(later \cup {s})
    BY <2>5, <2>6, FS_Subset
  <2>8. Cardinality(Trimmed(rows)) \in Nat
    BY <1>2, FS_CardinalityType
  <2> QED
    BY <1>1, <1>2, <2>4, <2>6, <2>7, <2>8
<1> QED
  BY <1>3, <1>4

LEMMA BooksStart == GoalsInit => GoalBooks
<1> SUFFICES ASSUME GoalsInit PROVE GoalBooks
  OBVIOUS
<1>1. /\ goals \in [Goals -> {NoGoal, [status |-> "proposal", at |-> 0]}]
      /\ snapshots = {} /\ commands = [c \in Owners |-> NoCommand]
      /\ begunCommands = 0 /\ goalClock = 0 /\ chosen = {}
  BY DEF GoalsInit
<1>2. /\ NoCommand \in Command /\ NoCommand.op = "none" /\ NoCommand.at = 0
  BY DEF NoCommand, Command, SettingOps, DecidingOps
<1>3. NoGoal \in GoalRow /\ [status |-> "proposal", at |-> 0] \in GoalRow /\ NoGoal.at = 0
  BY DEF NoGoal, GoalRow
<1>4. goals \in GoalRows /\ \A g \in Goals : goals[g].at = 0
  BY <1>1, <1>3 DEF GoalRows
<1>5. Deciders = {}
  BY <1>1, <1>2 DEF Deciders, DecidingOps
<1>6. IsFiniteSet({}) /\ Cardinality({}) = 0 /\ 0 \in 0..MaxCommands /\ 0 <= SnapshotsKept /\ 0 <= 0 /\ 0 + 0 <= 0
  BY FS_EmptySet, GoalAssumption
<1>7. \A c \in Owners : InHandBy(commands[c], goalClock)
  BY <1>1, <1>2, <1>6 DEF InHandBy, SettingOps, DecidingOps
<1>8. IsFiniteSet(Deciders) /\ goalClock + Cardinality(Deciders) <= begunCommands
  BY <1>1, <1>5, <1>6
<1>9. IsFiniteSet(snapshots) /\ Cardinality(snapshots) <= SnapshotsKept
  BY <1>1, <1>6
<1>10. \A g \in Goals : goals[g].at <= goalClock
  BY <1>1, <1>4
<1>11. /\ commands \in [Owners -> Command] /\ goalClock \in Nat /\ begunCommands \in 0..MaxCommands
       /\ \A c \in Owners : commands[c].op = "none"
  BY <1>1, <1>2, <1>6
<1> QED
  BY <1>1, <1>4, <1>7, <1>8, <1>9, <1>10, <1>11 DEF GoalBooks

\* A command takes a step: the books of the others.
LEMMA CommandSteps ==
    ASSUME GoalBooks, NEW c \in Owners, NEW next \in Command, commands' = [commands EXCEPT ![c] = next]
    PROVE  /\ commands' \in [Owners -> Command] /\ commands'[c] = next
           /\ \A d \in Owners \ {c} : commands'[d] = commands[d]
           /\ IsFiniteSet(Deciders') /\ Cardinality(Deciders) \in Nat /\ Cardinality(Deciders') \in Nat
           /\ Cardinality(Deciders') <= Cardinality(Deciders) + 1
           /\ (next.op \in DecidingOps => commands[c].op \in DecidingOps)
                  => Cardinality(Deciders') <= Cardinality(Deciders)
           /\ next.op \notin DecidingOps /\ commands[c].op \in DecidingOps
                  => Cardinality(Deciders') = Cardinality(Deciders) - 1
<1>1. commands \in [Owners -> Command] /\ IsFiniteSet(Deciders)
  BY DEF GoalBooks
<1>2. /\ commands' \in [Owners -> Command] /\ commands'[c] = next
      /\ \A d \in Owners \ {c} : commands'[d] = commands[d]
  BY <1>1
<1> DEFINE S == Deciders
           T == Deciders'
<1>3. T \ {c} = S \ {c} /\ (c \in S <=> commands[c].op \in DecidingOps) /\ (c \in T <=> next.op \in DecidingOps)
  BY <1>2 DEF Deciders
<1>4. IsFiniteSet(S)
  BY <1>1
<1> HIDE DEF S, T
<1>5. /\ IsFiniteSet(T)
      /\ (c \in S <=> c \in T) => Cardinality(T) = Cardinality(S)
      /\ c \in S /\ c \notin T => Cardinality(T) = Cardinality(S) - 1
      /\ c \notin S /\ c \in T => Cardinality(T) = Cardinality(S) + 1
  BY <1>3, <1>4, SetMove
<1>6. Cardinality(S) \in Nat /\ Cardinality(T) \in Nat
  BY <1>4, <1>5, FS_CardinalityType
<1>7. Cardinality(T) <= Cardinality(S) + 1
  BY <1>5, <1>6
<1>8. (next.op \in DecidingOps => commands[c].op \in DecidingOps) => Cardinality(T) <= Cardinality(S)
  BY <1>3, <1>5, <1>6
<1>9. next.op \notin DecidingOps /\ commands[c].op \in DecidingOps => Cardinality(T) = Cardinality(S) - 1
  BY <1>3, <1>5
<1> QED
  BY <1>2, <1>5, <1>6, <1>7, <1>8, <1>9 DEF S, T

LEMMA BooksKept ==
    ASSUME GoalBooks, NEW c \in Owners, NEW next \in Command, commands' = [commands EXCEPT ![c] = next],
           goals' \in GoalRows, \A g \in Goals : goals'[g].at <= goals[g].at \/ goals'[g].at <= goalClock',
           goalClock' \in {goalClock, goalClock + 1}, InHandBy(next, goalClock'), chosen' \subseteq Goals,
           next.op = "capturing" => next.at = goalClock + 1,
           \/ snapshots' = snapshots
           \/ /\ commands[c].op = "capturing" /\ next.op # "capturing"
              /\ snapshots' = Trimmed(snapshots \cup {[at |-> commands[c].at, rows |-> goals]}),
           \/ begunCommands' = begunCommands /\ goalClock' = goalClock
              /\ (next.op \in DecidingOps => commands[c].op \in DecidingOps)
           \/ begunCommands' = begunCommands + 1 /\ begunCommands' \in 0..MaxCommands
              /\ (next.op \in DecidingOps => goalClock' = goalClock)
           \/ begunCommands' = begunCommands /\ next.op \notin DecidingOps /\ commands[c].op \in DecidingOps
    PROVE  GoalBooks'
<1>1. /\ commands' \in [Owners -> Command] /\ commands'[c] = next
      /\ \A d \in Owners \ {c} : commands'[d] = commands[d]
      /\ IsFiniteSet(Deciders') /\ Cardinality(Deciders) \in Nat /\ Cardinality(Deciders') \in Nat
      /\ Cardinality(Deciders') <= Cardinality(Deciders) + 1
      /\ (next.op \in DecidingOps => commands[c].op \in DecidingOps)
             => Cardinality(Deciders') <= Cardinality(Deciders)
      /\ next.op \notin DecidingOps /\ commands[c].op \in DecidingOps
             => Cardinality(Deciders') = Cardinality(Deciders) - 1
  BY CommandSteps
<1>2. /\ goalClock \in Nat /\ goalClock' \in Nat /\ goalClock <= goalClock' /\ begunCommands \in Nat
      /\ goalClock + Cardinality(Deciders) <= begunCommands
  BY DEF GoalBooks
<1>3. goalClock' + Cardinality(Deciders') <= begunCommands' /\ begunCommands' \in 0..MaxCommands
  <2>1. begunCommands \in 0..MaxCommands
    BY DEF GoalBooks
  <2>2. CASE begunCommands' = begunCommands /\ goalClock' = goalClock
             /\ (next.op \in DecidingOps => commands[c].op \in DecidingOps)
    BY <1>1, <1>2, <2>1, <2>2
  <2>3. CASE begunCommands' = begunCommands + 1 /\ begunCommands' \in 0..MaxCommands
             /\ (next.op \in DecidingOps => goalClock' = goalClock)
    <3>1. CASE next.op \in DecidingOps
      BY <1>1, <1>2, <2>3, <3>1
    <3>2. CASE next.op \notin DecidingOps
      BY <1>1, <1>2, <2>3, <3>2
    <3> QED
      BY <3>1, <3>2
  <2>4. CASE begunCommands' = begunCommands /\ next.op \notin DecidingOps /\ commands[c].op \in DecidingOps
    BY <1>1, <1>2, <2>1, <2>4
  <2> QED
    BY <2>2, <2>3, <2>4
<1>4. \A g \in Goals : goals'[g].at <= goalClock'
  <2> SUFFICES ASSUME NEW g \in Goals PROVE goals'[g].at <= goalClock'
    OBVIOUS
  <2>1. goals[g].at <= goalClock /\ goals[g] \in GoalRow /\ goals'[g] \in GoalRow
    BY DEF GoalBooks, GoalRows
  <2>2. goals[g].at \in Nat /\ goals'[g].at \in Nat
    BY <2>1 DEF GoalRow
  <2> QED
    BY <1>2, <2>1, <2>2
<1>5. ASSUME NEW d \in Owners
      PROVE  /\ InHandBy(commands'[d], goalClock')
             /\ commands'[d].op = "capturing" => commands'[d] = commands[d] \/ (d = c /\ commands'[d].at = goalClock + 1)
  <2>1. CASE d = c
    BY <1>1, <2>1
  <2>2. CASE d # c
    <3>1. commands'[d] = commands[d] /\ InHandBy(commands[d], goalClock) /\ commands[d].at \in Nat
      BY <1>1, <2>2 DEF GoalBooks, Command
    <3>2. commands[d].at <= goalClock'
      BY <1>2, <3>1 DEF InHandBy
    <3> QED
      BY <3>1, <3>2 DEF InHandBy
  <2> QED
    BY <2>1, <2>2
<1>6. ASSUME NEW d \in Owners PROVE commands[d].at \in Nat /\ commands[d].at <= goalClock
  BY DEF GoalBooks, Command, InHandBy
<1> DEFINE new == [at |-> commands[c].at, rows |-> goals]
           rows == snapshots \cup {new}
<1>7. /\ snapshots \subseteq Snapshot /\ IsFiniteSet(snapshots)
      /\ \A s \in snapshots : s.at <= goalClock /\ s.at # 0 /\ s.at \in Nat
      /\ \A s, t \in snapshots : s.at = t.at => s = t
  BY DEF GoalBooks, Snapshot
<1>8. \/ snapshots' = snapshots
      \/ /\ commands[c].op = "capturing" /\ next.op # "capturing" /\ snapshots' = Trimmed(rows)
  OBVIOUS
<1>9. commands[c].op = "capturing" =>
          /\ IsFiniteSet(rows) /\ rows \subseteq Snapshot
          /\ \A s \in rows : s.at <= goalClock /\ s.at # 0 /\ s.at \in Nat
          /\ \A s, t \in rows : s.at = t.at => s = t
  <2> SUFFICES ASSUME commands[c].op = "capturing"
               PROVE  /\ IsFiniteSet(rows) /\ rows \subseteq Snapshot
                      /\ \A s \in rows : s.at <= goalClock /\ s.at # 0 /\ s.at \in Nat
                      /\ \A s, t \in rows : s.at = t.at => s = t
    OBVIOUS
  <2>1. /\ new \in Snapshot /\ new.at = commands[c].at /\ commands[c].at # 0
        /\ \A s \in snapshots : s.at # commands[c].at
    BY <1>6 DEF Snapshot, GoalBooks, InHandBy
  <2> HIDE DEF new
  <2>2. IsFiniteSet(rows)
    BY <1>7, FS_AddElement
  <2> QED
    BY <1>6, <1>7, <2>1, <2>2
<1>10. /\ snapshots' \subseteq Snapshot /\ IsFiniteSet(snapshots') /\ Cardinality(snapshots') <= SnapshotsKept
       /\ \A s \in snapshots' : s.at <= goalClock' /\ s.at # 0
       /\ \A s, t \in snapshots' : s.at = t.at => s = t
       /\ \A s \in snapshots' : s \in snapshots \/ (s.at = commands[c].at /\ commands[c].op = "capturing" /\ next.op # "capturing")
  <2>1. CASE snapshots' = snapshots
    <3>1. \A s \in snapshots : s.at <= goalClock'
      BY <1>2, <1>7
    <3> QED
      BY <1>7, <2>1, <3>1 DEF GoalBooks
  <2>2. CASE commands[c].op = "capturing" /\ next.op # "capturing" /\ snapshots' = Trimmed(rows)
    <3>1. new.at = commands[c].at /\ \A s \in rows : s \in snapshots \/ s = new
      OBVIOUS
    <3> HIDE DEF rows, new
    <3>2. snapshots' \subseteq rows /\ IsFiniteSet(snapshots') /\ Cardinality(snapshots') <= SnapshotsKept
      BY <1>9, <2>2, TrimmedBound
    <3>3. \A s \in snapshots' : s.at <= goalClock'
      BY <1>2, <1>9, <2>2, <3>2
    <3> QED
      BY <1>9, <2>2, <3>1, <3>2, <3>3
  <2> QED
    BY <1>8, <2>1, <2>2
<1>13. ASSUME NEW s \in snapshots', NEW g \in Goals PROVE s.rows[g].at <= goalClock'
  <2>1. s.rows[g].at <= goalClock
    <3>1. CASE s \in snapshots
      BY <3>1 DEF GoalBooks
    <3>2. CASE s = new
      BY <3>2 DEF GoalBooks
    <3>3. s \in snapshots \/ s = new
      BY <1>8, <1>9, TrimmedBound
    <3> QED
      BY <3>1, <3>2, <3>3
  <2>2. s.rows \in GoalRows
    BY <1>10 DEF Snapshot
  <2>3. s.rows[g].at \in Nat
    BY <2>2 DEF GoalRows, GoalRow
  <2> QED
    BY <1>2, <2>1, <2>3
<1>11. ASSUME NEW d \in Owners, NEW s \in snapshots', commands'[d].op = "capturing" PROVE commands'[d].at # s.at
  <2>1. CASE s \in snapshots
    <3>1. s.at \in Nat /\ s.at <= goalClock
      BY <1>7, <2>1
    <3>2. CASE commands'[d] = commands[d]
      BY <1>11, <2>1, <3>2 DEF GoalBooks
    <3>3. CASE commands'[d].at = goalClock + 1
      BY <1>2, <3>1, <3>3
    <3> QED
      BY <1>5, <1>11, <3>2, <3>3
  <2>2. CASE s.at = commands[c].at /\ commands[c].op = "capturing" /\ next.op # "capturing"
    <3>1. d # c /\ commands'[d] = commands[d]
      BY <1>1, <1>11, <2>2
    <3> QED
      BY <1>11, <2>2, <3>1 DEF GoalBooks
  <2> QED
    BY <1>10, <2>1, <2>2
<1>12. ASSUME NEW d \in Owners, NEW e \in Owners, commands'[d].op = "capturing", commands'[e].op = "capturing",
              commands'[d].at = commands'[e].at
       PROVE  d = e
  <2>1. CASE commands'[d] = commands[d] /\ commands'[e] = commands[e]
    BY <1>12, <2>1 DEF GoalBooks
  <2>2. CASE d = c /\ commands'[d].at = goalClock + 1
    <3>1. commands'[e] = commands[e] => commands'[e].at <= goalClock /\ commands'[e].at \in Nat
      BY <1>6
    <3> QED
      BY <1>2, <1>5, <1>12, <2>2, <3>1
  <2>3. CASE e = c /\ commands'[e].at = goalClock + 1
    <3>1. commands'[d] = commands[d] => commands'[d].at <= goalClock /\ commands'[d].at \in Nat
      BY <1>6
    <3> QED
      BY <1>2, <1>5, <1>12, <2>3, <3>1
  <2> QED
    BY <1>5, <1>12, <2>1, <2>2, <2>3
<1> QED
  BY <1>1, <1>2, <1>3, <1>4, <1>5, <1>10, <1>11, <1>12, <1>13 DEF GoalBooks

\* Where the accepted goals stand at each point of a command nothing disturbs.
Due(command, accepted, rows, picked, past) ==
    /\ command.op \notin SettingOps =>
           /\ picked = {} => accepted = {}
           /\ \A g \in picked : /\ picked = {g} /\ g \in accepted
                                /\ \A h \in accepted \ {g} : rows[h].at < rows[g].at
           /\ "accept" \notin past => accepted \subseteq picked
    /\ command.op \in DecidingOps => rows[command.goal].status = "proposal"
    /\ command.op = "replacing" => command.old = accepted \ {command.goal}
    /\ command.op \in {"looking", "inserting", "updating"} => accepted \subseteq {command.goal}
    /\ command.op = "inserting" => rows[command.goal] = NoGoal

Calm == history \cap {"overlap", "failure", "restore"} = {}
Commanding == {c \in Owners : commands[c].op # "none"}
InTime ==
    Calm => /\ \A c, d \in Commanding : c = d
            /\ Commanding = {} => Due(NoCommand, AcceptedGoals, goals, chosen, history)
            /\ \A c \in Commanding : Due(commands[c], AcceptedGoals, goals, chosen, history)

LatestInv == GoalBooks /\ InTime

\* The step of a command that keeps its turn.
LEMMA InTimeKept ==
    ASSUME LatestInv, NEW c \in Owners, NEW next \in Command, commands' = [commands EXCEPT ![c] = next],
           history \subseteq history', commands[c].op = "none" /\ CommandOpen => "overlap" \in history',
           Calm' => Due(next, AcceptedGoals', goals', chosen', history')
    PROVE  InTime'
<1> SUFFICES ASSUME Calm'
             PROVE  /\ \A d, e \in Commanding' : d = e
                    /\ Commanding' = {} => Due(NoCommand, AcceptedGoals', goals', chosen', history')
                    /\ \A d \in Commanding' : Due(commands'[d], AcceptedGoals', goals', chosen', history')
  BY DEF InTime
<1>1. GoalBooks /\ Calm /\ \A d, e \in Commanding : d = e
  BY DEF LatestInv, InTime, Calm
<1>2. commands[c].op = "none" => Commanding = {}
  BY DEF Calm, CommandOpen, Commanding
<1>3. Commanding \subseteq {c}
  BY <1>1, <1>2 DEF Commanding
<1>4. /\ commands'[c] = next /\ \A d \in Owners \ {c} : commands'[d] = commands[d]
  BY <1>1, CommandSteps
<1>5. \A d \in Commanding' : d = c
  BY <1>3, <1>4 DEF Commanding
<1>6. Commanding' = {} => next.op = "none"
  BY <1>4 DEF Commanding
<1>7. next.op = "none" => Due(NoCommand, AcceptedGoals', goals', chosen', history')
  BY DEF Due, NoCommand, SettingOps, DecidingOps
<1> QED
  BY <1>4, <1>5, <1>6, <1>7

\* The turn of the command that takes the step.
LEMMA ItsDue ==
    ASSUME LatestInv, Calm, NEW c \in Owners
    PROVE  /\ commands[c].op = "none" /\ ~CommandOpen => Due(NoCommand, AcceptedGoals, goals, chosen, history)
           /\ commands[c].op # "none" => Due(commands[c], AcceptedGoals, goals, chosen, history)
  BY DEF LatestInv, InTime, Commanding, CommandOpen

LEMMA BooksFacts ==
    ASSUME GoalBooks
    PROVE  /\ goals \in GoalRows /\ goalClock \in Nat /\ chosen \subseteq Goals /\ goalClock + 1 \in Nat
           /\ AcceptedGoals \subseteq Goals /\ 0 <= goalClock /\ goalClock <= goalClock + 1
           /\ \A g \in Goals : goals[g] \in GoalRow /\ goals[g].at \in Nat /\ goals[g].at <= goalClock
           /\ commands \in [Owners -> Command]
           /\ \A c \in Owners : commands[c] \in Command /\ InHandBy(commands[c], goalClock)
           /\ NoCommand \in Command /\ NoCommand.op = "none"
           /\ InHandBy(NoCommand, goalClock) /\ InHandBy(NoCommand, goalClock + 1)
<1>1. NoCommand \in Command /\ NoCommand.op = "none" /\ NoCommand.at = 0
  BY DEF NoCommand, Command, SettingOps, DecidingOps
<1>2. goalClock \in Nat /\ 0 <= goalClock /\ goalClock <= goalClock + 1 /\ 0 <= goalClock + 1 /\ goalClock + 1 \in Nat
  BY DEF GoalBooks
<1>3. InHandBy(NoCommand, goalClock) /\ InHandBy(NoCommand, goalClock + 1)
  BY <1>1, <1>2 DEF InHandBy, SettingOps, DecidingOps
<1>4. \A g \in Goals : goals[g] \in GoalRow
  BY DEF GoalBooks, GoalRows
<1>5. \A g \in Goals : goals[g].at \in Nat
  BY <1>4 DEF GoalRow
<1> QED
  BY <1>1, <1>2, <1>3, <1>4, <1>5 DEF GoalBooks, AcceptedGoals

\* A command that begins leaves the goals as they are.
LEMMA CommandBegins ==
    ASSUME LatestInv, NEW c \in Owners, NEW next \in Command, StartCommand(c, next), next.op # "none",
           goals' = goals, snapshots' = snapshots, chosen' = chosen, goalClock' \in {goalClock, goalClock + 1},
           InHandBy(next, goalClock'), next.op = "capturing" => next.at = goalClock + 1,
           next.op \in DecidingOps => goalClock' = goalClock /\ goals[next.goal].status = "proposal",
           next.op \in SettingOps => next.op \in {"looking", "replacing"} /\ next.old = AcceptedGoals \ {next.goal}
                                     /\ (next.op = "looking" => next.old = {})
    PROVE  LatestInv'
<1>1. /\ commands[c].op = "none" /\ begunCommands < MaxCommands /\ begunCommands' = begunCommands + 1
      /\ commands' = [commands EXCEPT ![c] = next]
      /\ history' = history \cup (IF CommandOpen THEN {"overlap"} ELSE {})
  BY DEF StartCommand
<1>2. GoalBooks
  BY DEF LatestInv
<1>3. /\ goals' \in GoalRows /\ \A g \in Goals : goals'[g].at <= goals[g].at \/ goals'[g].at <= goalClock'
      /\ chosen' \subseteq Goals
  <2>1. /\ goals \in GoalRows /\ chosen \subseteq Goals /\ \A g \in Goals : goals[g].at \in Nat
    BY <1>2, BooksFacts
  <2>2. \A g \in Goals : goals'[g].at <= goals[g].at
    BY <2>1
  <2> QED
    BY <2>1, <2>2
<1>4. begunCommands' = begunCommands + 1 /\ begunCommands' \in 0..MaxCommands
  BY <1>1, <1>2, GoalAssumption DEF GoalBooks
<1>5. GoalBooks'
  BY <1>1, <1>2, <1>3, <1>4, BooksKept
<1>6. InTime'
  <2>1. history \subseteq history' /\ (CommandOpen => "overlap" \in history')
    BY <1>1
  <2>2. Calm' => Due(next, AcceptedGoals', goals', chosen', history')
    <3> SUFFICES ASSUME Calm' PROVE Due(next, AcceptedGoals', goals', chosen', history')
      OBVIOUS
    <3>a. "overlap" \notin history'
      BY DEF Calm
    <3>b. history' = history /\ AcceptedGoals' = AcceptedGoals
      BY <1>1, <3>a DEF AcceptedGoals
    <3>1. Calm /\ ~CommandOpen
      BY <1>1, <3>a DEF Calm
    <3>2. Due(NoCommand, AcceptedGoals, goals, chosen, history)
      BY <1>1, <3>1, ItsDue
    <3>3. /\ AcceptedGoals \subseteq Goals /\ NoCommand.op = "none"
      BY <1>2, BooksFacts
    <3> QED
      BY <3>2, <3>3, <3>b DEF Due, SettingOps, DecidingOps
  <2> QED
    BY <1>1, <2>1, <2>2, InTimeKept
<1> QED
  BY <1>5, <1>6 DEF LatestInv

LEMMA SetKeeps == ASSUME LatestInv, NEW c \in Owners, SetGoal(c) PROVE LatestInv'
<1>1. PICK g \in Goals :
        StartCommand(c, [op |-> IF ToReplace(g) = {} THEN "looking" ELSE "replacing",
                          goal |-> g, at |-> goalClock + 1, old |-> ToReplace(g)])
  BY DEF SetGoal
<1>2. goalClock' = goalClock + 1 /\ goals' = goals /\ snapshots' = snapshots /\ chosen' = chosen
  BY DEF SetGoal, Stamp
<1> DEFINE op == IF ToReplace(g) = {} THEN "looking" ELSE "replacing"
           next == [op |-> op, goal |-> g, at |-> goalClock + 1, old |-> ToReplace(g)]
<1>3. /\ op \in {"looking", "replacing"} /\ (op = "looking" => ToReplace(g) = {})
      /\ ToReplace(g) = AcceptedGoals \ {g} /\ ToReplace(g) \in SUBSET Goals /\ goalClock + 1 \in Nat
  BY BooksFacts DEF ToReplace, LatestInv
<1>4. StartCommand(c, next)
  BY <1>1
<1> HIDE DEF op
<1>5. /\ next \in Command /\ next.op = op /\ next.goal = g /\ next.at = goalClock + 1 /\ next.old = ToReplace(g)
  BY <1>3 DEF Command, SettingOps
<1> HIDE DEF next
<1>6. InHandBy(next, goalClock') /\ next.op \notin DecidingOps /\ next.op # "capturing" /\ next.op # "none"
  BY <1>2, <1>3, <1>5 DEF InHandBy, DecidingOps
<1> QED
  BY <1>2, <1>3, <1>4, <1>5, <1>6, CommandBegins

LEMMA DecideKeeps == ASSUME LatestInv, NEW c \in Owners, DecideGoal(c) PROVE LatestInv'
<1>1. PICK g \in Goals, op \in DecidingOps :
        goals[g].status = "proposal" /\ StartCommand(c, [NoCommand EXCEPT !.op = op, !.goal = g])
  BY DEF DecideGoal, DecidingOps
<1>2. goalClock' = goalClock /\ goals' = goals /\ snapshots' = snapshots /\ chosen' = chosen
  BY DEF DecideGoal
<1> DEFINE next == [NoCommand EXCEPT !.op = op, !.goal = g]
<1>3. NoCommand \in Command /\ NoCommand.at = 0 /\ 0 <= goalClock
  BY BooksFacts DEF LatestInv, NoCommand
<1>4. /\ next \in Command /\ next.op = op /\ next.goal = g /\ next.at = 0
  BY <1>1, <1>3 DEF Command
<1>5. StartCommand(c, next)
  BY <1>1
<1> HIDE DEF next
<1>6. InHandBy(next, goalClock') /\ next.op # "capturing" /\ next.op # "none" /\ next.op \notin SettingOps
  BY <1>1, <1>2, <1>3, <1>4 DEF InHandBy, DecidingOps, SettingOps
<1> QED
  BY <1>1, <1>2, <1>4, <1>5, <1>6, CommandBegins

LEMMA BeginCaptureKeeps == ASSUME LatestInv, NEW c \in Owners, BeginCapture(c) PROVE LatestInv'
<1> DEFINE next == [NoCommand EXCEPT !.op = "capturing", !.at = goalClock + 1]
<1>1. /\ StartCommand(c, next)
      /\ goalClock' = goalClock + 1 /\ goals' = goals /\ snapshots' = snapshots /\ chosen' = chosen
  BY DEF BeginCapture, Stamp
<1>2. NoCommand \in Command /\ goalClock + 1 \in Nat /\ goalClock + 1 # 0 /\ goalClock + 1 <= goalClock + 1
  <2>1. NoCommand \in Command /\ goalClock \in Nat
    BY BooksFacts DEF LatestInv
  <2> QED
    BY <2>1
<1>3. /\ next \in Command /\ next.op = "capturing" /\ next.at = goalClock + 1
  BY <1>2 DEF Command
<1> HIDE DEF next
<1>4. InHandBy(next, goalClock') /\ next.op \notin SettingOps \cup DecidingOps
  BY <1>1, <1>2, <1>3 DEF InHandBy, DecidingOps, SettingOps
<1> QED
  BY <1>1, <1>3, <1>4, CommandBegins

LEMMA BeginRestoreKeeps == ASSUME LatestInv, NEW c \in Owners, BeginRestore(c) PROVE LatestInv'
<1>1. PICK at \in {0} \cup {s.at : s \in snapshots} :
        StartCommand(c, [NoCommand EXCEPT !.op = "restoring", !.at = at])
  BY DEF BeginRestore
<1>2. goalClock' = goalClock /\ goals' = goals /\ snapshots' = snapshots /\ chosen' = chosen
  BY DEF BeginRestore
<1>3. NoCommand \in Command /\ at \in Nat /\ at <= goalClock
  <2>1. /\ NoCommand \in Command /\ 0 <= goalClock /\ goalClock \in Nat
        /\ \A s \in snapshots : s.at \in Nat /\ s.at <= goalClock
    BY BooksFacts DEF LatestInv, GoalBooks, Snapshot
  <2> QED
    BY <2>1
<1> DEFINE next == [NoCommand EXCEPT !.op = "restoring", !.at = at]
<1>4. /\ next \in Command /\ next.op = "restoring" /\ next.at = at
  BY <1>3 DEF Command
<1>5. StartCommand(c, next)
  BY <1>1
<1> HIDE DEF next
<1>6. InHandBy(next, goalClock') /\ next.op \notin SettingOps \cup DecidingOps /\ next.op # "capturing"
  BY <1>2, <1>3, <1>4 DEF InHandBy, DecidingOps, SettingOps
<1> QED
  BY <1>2, <1>4, <1>5, <1>6, CommandBegins

\* Ends and steps of a command whose next state is not calm, or due.
LEMMA ReplaceKeeps == ASSUME LatestInv, NEW c \in Owners, ReplaceGoal(c) PROVE LatestInv'
<1>1. PICK g \in commands[c].old :
        /\ goals' = [goals EXCEPT ![g] = [status |-> "replaced", at |-> commands[c].at]]
        /\ commands' = [commands EXCEPT ![c].old = @ \ {g},
                                        ![c].op = IF commands[c].old = {g} THEN "looking" ELSE "replacing"]
  BY DEF ReplaceGoal
<1>2. /\ commands[c].op = "replacing" /\ snapshots' = snapshots /\ begunCommands' = begunCommands
      /\ goalClock' = goalClock /\ chosen' = chosen /\ history' = history
  BY DEF ReplaceGoal
<1>3. /\ GoalBooks /\ commands \in [Owners -> Command] /\ commands[c] \in Command
      /\ InHandBy(commands[c], goalClock) /\ goals \in GoalRows /\ chosen \subseteq Goals /\ goalClock \in Nat
      /\ \A h \in Goals : goals[h].at \in Nat
  BY BooksFacts DEF LatestInv
<1> DEFINE op == IF commands[c].old = {g} THEN "looking" ELSE "replacing"
           next == [commands[c] EXCEPT !.old = @ \ {g}, !.op = op]
<1>4. /\ op \in {"looking", "replacing"} /\ (op = "looking" => commands[c].old = {g})
      /\ g \in Goals /\ commands[c].at \in Nat /\ commands[c].goal \in Goals
  BY <1>1, <1>2, <1>3 DEF Command, InHandBy, SettingOps
<1>5. commands' = [commands EXCEPT ![c] = next]
  BY <1>1, <1>3
<1> HIDE DEF op
<1>6. /\ next \in Command /\ next.op = op /\ next.goal = commands[c].goal /\ next.at = commands[c].at
      /\ next.old = commands[c].old \ {g}
  BY <1>3, <1>4 DEF Command, SettingOps
<1> HIDE DEF next
<1>7. InHandBy(next, goalClock') /\ next.op \notin DecidingOps /\ next.op # "capturing"
  BY <1>2, <1>3, <1>4, <1>6 DEF InHandBy, DecidingOps, SettingOps
<1>8. /\ goals' \in GoalRows /\ goals'[g] = [status |-> "replaced", at |-> commands[c].at]
      /\ \A h \in Goals \ {g} : goals'[h] = goals[h]
  <2>1. goals' \in GoalRows
    BY <1>1, <1>3, <1>4, RowWritten
  <2> QED
    BY <1>1, <1>3, <1>4, <2>1 DEF GoalRows
<1>9. \A h \in Goals : goals'[h].at <= goals[h].at \/ goals'[h].at <= goalClock'
  <2> SUFFICES ASSUME NEW h \in Goals PROVE goals'[h].at <= goals[h].at \/ goals'[h].at <= goalClock'
    OBVIOUS
  <2>1. CASE h = g
    BY <1>2, <1>3, <1>8, <2>1 DEF InHandBy
  <2>2. CASE h # g
    BY <1>3, <1>8, <2>2
  <2> QED
    BY <2>1, <2>2
<1>10. GoalBooks'
  BY <1>2, <1>3, <1>5, <1>6, <1>7, <1>8, <1>9, BooksKept
<1>11. AcceptedGoals' = AcceptedGoals \ {g}
  <2>1. goals'[g].status # "accepted"
    BY <1>8
  <2> QED
    BY <1>4, <1>8, <2>1 DEF AcceptedGoals
<1>12. Calm' => Due(next, AcceptedGoals', goals', chosen', history')
  <2> SUFFICES ASSUME Calm PROVE Due(next, AcceptedGoals', goals', chosen', history')
    BY <1>2 DEF Calm
  <2>1. commands[c].old = AcceptedGoals \ {commands[c].goal}
    BY <1>2, ItsDue DEF Due
  <2> QED
    BY <1>1, <1>4, <1>6, <1>11, <2>1 DEF Due, SettingOps, DecidingOps
<1>13. InTime'
  BY <1>2, <1>5, <1>6, <1>12, InTimeKept
<1> QED
  BY <1>10, <1>13 DEF LatestInv

LEMMA LookUpKeeps == ASSUME LatestInv, NEW c \in Owners, LookUpGoal(c) PROVE LatestInv'
<1> DEFINE op == IF goals[commands[c].goal] = NoGoal THEN "inserting" ELSE "updating"
           next == [commands[c] EXCEPT !.op = op]
<1>1. /\ commands[c].op = "looking" /\ commands' = [commands EXCEPT ![c].op = op]
      /\ goals' = goals /\ snapshots' = snapshots /\ begunCommands' = begunCommands
      /\ goalClock' = goalClock /\ chosen' = chosen /\ history' = history
  BY DEF LookUpGoal, CommandTo
<1>2. /\ GoalBooks /\ commands \in [Owners -> Command] /\ commands[c] \in Command
      /\ InHandBy(commands[c], goalClock) /\ goals \in GoalRows /\ chosen \subseteq Goals
      /\ \A h \in Goals : goals[h].at \in Nat
  BY BooksFacts DEF LatestInv
<1>3. op \in {"inserting", "updating"} /\ (op = "inserting" => goals[commands[c].goal] = NoGoal)
  OBVIOUS
<1> HIDE DEF op
<1>4. commands' = [commands EXCEPT ![c] = next]
  BY <1>1, <1>2
<1>5. /\ next \in Command /\ next.op = op /\ next.goal = commands[c].goal /\ next.at = commands[c].at
      /\ next.old = commands[c].old
  BY <1>2, <1>3 DEF Command, SettingOps
<1> HIDE DEF next
<1>6. InHandBy(next, goalClock') /\ next.op \notin DecidingOps /\ next.op # "capturing"
  BY <1>1, <1>2, <1>3, <1>5 DEF InHandBy, DecidingOps, SettingOps
<1>7. goals' \in GoalRows /\ \A h \in Goals : goals'[h].at <= goals[h].at \/ goals'[h].at <= goalClock'
  BY <1>1, <1>2
<1>8. GoalBooks'
  BY <1>1, <1>2, <1>4, <1>5, <1>6, <1>7, BooksKept
<1>9. Calm' => Due(next, AcceptedGoals', goals', chosen', history')
  <2> SUFFICES ASSUME Calm PROVE Due(next, AcceptedGoals, goals, chosen, history)
    BY <1>1 DEF Calm, AcceptedGoals
  <2>1. AcceptedGoals \subseteq {commands[c].goal}
    BY <1>1, ItsDue DEF Due
  <2> QED
    BY <1>3, <1>5, <2>1 DEF Due, SettingOps, DecidingOps
<1>10. InTime'
  BY <1>1, <1>4, <1>5, <1>9, InTimeKept
<1> QED
  BY <1>8, <1>10 DEF LatestInv

\* A command that ends with a goal stored.
LEMMA StoredKeeps ==
    ASSUME LatestInv, NEW c \in Owners, commands[c].op # "none", EndCommand(c),
           NEW g \in Goals, NEW status \in {"accepted", "rejected"}, NEW at \in Nat,
           goals' = [goals EXCEPT ![g] = [status |-> status, at |-> at]], at <= goalClock',
           chosen' \subseteq Goals, snapshots' = snapshots, begunCommands' = begunCommands,
           goalClock' = goalClock \/ (goalClock' = goalClock + 1 /\ commands[c].op \in DecidingOps),
           history \subseteq history',
           Calm => Due(NoCommand, AcceptedGoals', goals', chosen', history')
    PROVE  LatestInv'
<1>1. /\ GoalBooks /\ goals \in GoalRows /\ goalClock \in Nat /\ \A h \in Goals : goals[h].at \in Nat
      /\ NoCommand \in Command /\ NoCommand.op = "none"
      /\ InHandBy(NoCommand, goalClock) /\ InHandBy(NoCommand, goalClock + 1)
  BY BooksFacts DEF LatestInv
<1>2. commands' = [commands EXCEPT ![c] = NoCommand]
  BY DEF EndCommand
<1>3. goals' \in GoalRows
  BY <1>1, RowWritten
<1>4. \A h \in Goals : goals'[h].at <= goals[h].at \/ goals'[h].at <= goalClock'
  <2> SUFFICES ASSUME NEW h \in Goals PROVE goals'[h].at <= goals[h].at \/ goals'[h].at <= goalClock'
    OBVIOUS
  <2>1. CASE h = g
    BY <1>1, <2>1 DEF GoalRows
  <2>2. CASE h # g
    BY <1>1, <2>2 DEF GoalRows
  <2> QED
    BY <2>1, <2>2
<1>5. GoalBooks'
  <2>1. /\ goalClock' \in {goalClock, goalClock + 1} /\ InHandBy(NoCommand, goalClock')
        /\ NoCommand.op # "capturing" /\ NoCommand.op \notin DecidingOps
    BY <1>1 DEF DecidingOps
  <2> QED
    BY <1>1, <1>2, <1>3, <1>4, <2>1, BooksKept
<1>6. Calm' => Calm
  BY DEF Calm
<1>7. InTime'
  BY <1>1, <1>2, <1>6, InTimeKept
<1> QED
  BY <1>5, <1>7 DEF LatestInv

\* A command that ends with the goals as they are.
LEMMA EndsAlone ==
    ASSUME LatestInv, NEW c \in Owners, commands[c].op # "none", EndCommand(c),
           goals' = goals, chosen' = chosen, begunCommands' = begunCommands, goalClock' = goalClock,
           \/ snapshots' = snapshots
           \/ /\ commands[c].op = "capturing"
              /\ snapshots' = Trimmed(snapshots \cup {[at |-> commands[c].at, rows |-> goals]}),
           history \subseteq history', Calm' => history' = history /\ commands[c].op \notin SettingOps
    PROVE  LatestInv'
<1>1. /\ GoalBooks /\ goals \in GoalRows /\ \A h \in Goals : goals[h].at \in Nat
      /\ NoCommand \in Command /\ NoCommand.op = "none" /\ InHandBy(NoCommand, goalClock) /\ chosen \subseteq Goals
  BY BooksFacts DEF LatestInv
<1>2. commands' = [commands EXCEPT ![c] = NoCommand]
  BY DEF EndCommand
<1>3. goals' \in GoalRows /\ \A h \in Goals : goals'[h].at <= goals[h].at \/ goals'[h].at <= goalClock'
  BY <1>1
<1>4. GoalBooks'
  <2>1. NoCommand.op # "capturing" /\ NoCommand.op \notin DecidingOps
    BY <1>1 DEF DecidingOps
  <2> QED
    BY <1>1, <1>2, <1>3, <2>1, BooksKept
<1>5. Calm' => Due(NoCommand, AcceptedGoals', goals', chosen', history')
  <2> SUFFICES ASSUME Calm' PROVE Due(NoCommand, AcceptedGoals', goals', chosen', history')
    OBVIOUS
  <2>1. Calm /\ history' = history /\ AcceptedGoals' = AcceptedGoals /\ commands[c].op \notin SettingOps
    BY DEF Calm, AcceptedGoals
  <2>2. Due(commands[c], AcceptedGoals, goals, chosen, history)
    BY <2>1, ItsDue
  <2> QED
    BY <1>1, <2>1, <2>2 DEF Due, SettingOps, DecidingOps
<1>6. InTime'
  BY <1>1, <1>2, <1>5, InTimeKept
<1> QED
  BY <1>4, <1>6 DEF LatestInv

LEMMA StoreKeeps == ASSUME LatestInv, NEW c \in Owners, StoreGoal(c) PROVE LatestInv'
<1> DEFINE g == commands[c].goal
           at == commands[c].at
<1>1. /\ commands[c].op \in {"inserting", "updating"} /\ EndCommand(c) /\ snapshots' = snapshots
      /\ begunCommands' = begunCommands /\ goalClock' = goalClock /\ history' = history
  BY DEF StoreGoal
<1>2. /\ GoalBooks /\ goals \in GoalRows /\ AcceptedGoals \subseteq Goals
      /\ commands[c] \in Command /\ InHandBy(commands[c], goalClock)
  BY BooksFacts DEF LatestInv
<1>3. g \in Goals /\ at \in Nat /\ at <= goalClock'
  BY <1>1, <1>2 DEF InHandBy, Command, SettingOps
<1>4. CASE commands[c].op = "inserting" /\ goals[g] # NoGoal
  <2>1. goals' = goals /\ chosen' = chosen
    BY <1>4 DEF StoreGoal
  <2>2. ~Calm
    BY <1>1, <1>4, ItsDue DEF Due
  <2>3. ~Calm'
    BY <1>1, <2>2 DEF Calm
  <2> QED
    BY <1>1, <2>1, <2>3, EndsAlone
<1>5. CASE ~(commands[c].op = "inserting" /\ goals[g] # NoGoal)
  <2>1. goals' = [goals EXCEPT ![g] = [status |-> "accepted", at |-> at]] /\ chosen' = {g}
    BY <1>5 DEF StoreGoal, GoalStored
  <2>2. chosen' \subseteq Goals
    BY <1>3, <2>1
  <2>3. Calm => Due(NoCommand, AcceptedGoals', goals', chosen', history')
    <3> SUFFICES ASSUME Calm PROVE Due(NoCommand, AcceptedGoals', goals', chosen', history')
      OBVIOUS
    <3>1. AcceptedGoals \subseteq {g}
      BY <1>1, ItsDue DEF Due
    <3>2. AcceptedGoals' = {g}
      BY <1>2, <1>3, <2>1, <3>1 DEF AcceptedGoals, GoalRows
    <3>3. NoCommand.op = "none"
      BY DEF NoCommand
    <3> QED
      BY <2>1, <3>2, <3>3 DEF Due, SettingOps, DecidingOps
  <2> HIDE DEF g, at
  <2> QED
    BY <1>1, <1>3, <2>1, <2>2, <2>3, StoredKeeps
<1> QED
  BY <1>4, <1>5

LEMMA AcceptGoalKeeps == ASSUME LatestInv, NEW c \in Owners, AcceptGoal(c) PROVE LatestInv'
<1> DEFINE g == commands[c].goal
           at == goalClock + 1
<1>1. /\ commands[c].op = "accepting" /\ EndCommand(c) /\ snapshots' = snapshots
      /\ begunCommands' = begunCommands /\ goalClock' = goalClock + 1 /\ history' = history \cup {"accept"}
      /\ goals' = [goals EXCEPT ![g] = [status |-> "accepted", at |-> at]] /\ chosen' = {g}
  BY DEF AcceptGoal, GoalStored, Stamp
<1>2. /\ GoalBooks /\ goals \in GoalRows /\ AcceptedGoals \subseteq Goals /\ goalClock \in Nat
      /\ commands[c] \in Command /\ InHandBy(commands[c], goalClock)
      /\ \A h \in Goals : goals[h].at \in Nat /\ goals[h].at <= goalClock
  BY BooksFacts DEF LatestInv
<1>3. g \in Goals /\ at \in Nat /\ at <= goalClock' /\ chosen' \subseteq Goals
  BY <1>1, <1>2 DEF InHandBy, DecidingOps
<1>4. Due(NoCommand, AcceptedGoals', goals', chosen', history')
  <2>1. AcceptedGoals' = AcceptedGoals \cup {g} /\ goals'[g].at = at /\ \A h \in Goals \ {g} : goals'[h] = goals[h]
    BY <1>1, <1>2, <1>3 DEF AcceptedGoals, GoalRows
  <2>2. \A h \in AcceptedGoals' \ {g} : goals'[h].at < goals'[g].at
    BY <1>2, <2>1
  <2>3. NoCommand.op = "none" /\ "accept" \in history'
    BY <1>1 DEF NoCommand
  <2> QED
    BY <1>1, <2>1, <2>2, <2>3 DEF Due, SettingOps, DecidingOps
<1>5. commands[c].op \in DecidingOps /\ commands[c].op # "none"
  BY <1>1 DEF DecidingOps
<1> HIDE DEF g, at
<1> QED
  BY <1>1, <1>3, <1>4, <1>5, StoredKeeps

LEMMA RejectGoalKeeps == ASSUME LatestInv, NEW c \in Owners, RejectGoal(c) PROVE LatestInv'
<1> DEFINE g == commands[c].goal
           at == goalClock + 1
<1>1. /\ commands[c].op = "rejecting" /\ EndCommand(c) /\ snapshots' = snapshots
      /\ begunCommands' = begunCommands /\ goalClock' = goalClock + 1
      /\ goals' = [goals EXCEPT ![g] = [status |-> "rejected", at |-> at]] /\ chosen' = chosen
      /\ history' = history \cup (IF goals[g].status = "proposal" THEN {} ELSE {"overruled"})
  BY DEF RejectGoal, GoalStored, Stamp
<1>2. /\ GoalBooks /\ goals \in GoalRows /\ AcceptedGoals \subseteq Goals /\ goalClock \in Nat
      /\ commands[c] \in Command /\ InHandBy(commands[c], goalClock) /\ chosen \subseteq Goals
  BY BooksFacts DEF LatestInv
<1>3. g \in Goals /\ at \in Nat /\ at <= goalClock' /\ history \subseteq history'
  BY <1>1, <1>2 DEF InHandBy, DecidingOps
<1>4. Calm => Due(NoCommand, AcceptedGoals', goals', chosen', history')
  <2> SUFFICES ASSUME Calm PROVE Due(NoCommand, AcceptedGoals', goals', chosen', history')
    OBVIOUS
  <2>1. Due(commands[c], AcceptedGoals, goals, chosen, history)
    BY <1>1, ItsDue
  <2>2. goals[g].status = "proposal"
    BY <1>1, <2>1 DEF Due, DecidingOps
  <2>3. AcceptedGoals' = AcceptedGoals /\ \A h \in AcceptedGoals : goals'[h] = goals[h]
    BY <1>1, <1>2, <1>3, <2>2 DEF AcceptedGoals, GoalRows
  <2>4. NoCommand.op = "none" /\ history' = history
    BY <1>1, <2>2 DEF NoCommand
  <2> QED
    BY <1>1, <2>1, <2>3, <2>4 DEF Due, SettingOps, DecidingOps
<1>5. commands[c].op \in DecidingOps /\ commands[c].op # "none"
  BY <1>1 DEF DecidingOps
<1> HIDE DEF g, at
<1> QED
  BY <1>1, <1>2, <1>3, <1>4, <1>5, StoredKeeps

LEMMA CaptureKeeps == ASSUME LatestInv, NEW c \in Owners, CaptureSnapshot(c) PROVE LatestInv'
<1>1. /\ commands[c].op = "capturing" /\ EndCommand(c)
      /\ snapshots' = Trimmed(snapshots \cup {[at |-> commands[c].at, rows |-> goals]})
      /\ goals' = goals /\ begunCommands' = begunCommands /\ goalClock' = goalClock
      /\ chosen' = chosen /\ history' = history
  BY DEF CaptureSnapshot
<1>2. commands[c].op # "none" /\ commands[c].op \notin SettingOps
  BY <1>1 DEF SettingOps
<1> QED
  BY <1>1, <1>2, EndsAlone

LEMMA FailCommandKeeps == ASSUME LatestInv, NEW c \in Owners, FailCommand(c) PROVE LatestInv'
<1>1. /\ commands[c].op # "none" /\ EndCommand(c) /\ history' = history \cup {"failure"}
      /\ goals' = goals /\ begunCommands' = begunCommands /\ goalClock' = goalClock
      /\ chosen' = chosen /\ snapshots' = snapshots
  BY DEF FailCommand
<1>2. ~Calm' /\ history \subseteq history'
  BY <1>1 DEF Calm
<1> QED
  BY <1>1, <1>2, EndsAlone

LEMMA RestoreKeeps == ASSUME LatestInv, NEW c \in Owners, ApplyRestore(c) PROVE LatestInv'
<1>1. /\ commands[c].op = "restoring" /\ EndCommand(c) /\ history' = history \cup {"restore"}
      /\ begunCommands' = begunCommands /\ goalClock' = goalClock
      /\ chosen' = chosen /\ snapshots' = snapshots
  BY DEF ApplyRestore
<1>2. ~Calm' /\ history \subseteq history'
  BY <1>1 DEF Calm
<1>3. CASE goals' = goals
  BY <1>1, <1>2, <1>3, EndsAlone
<1>4. ASSUME NEW s \in SnapshotFor(commands[c].at),
             goals' = [g \in Goals |-> IF s.rows[g] = NoGoal THEN goals[g] ELSE s.rows[g]]
      PROVE  LatestInv'
  <2>1. /\ GoalBooks /\ goals \in GoalRows /\ chosen \subseteq Goals
        /\ \A g \in Goals : goals[g] \in GoalRow /\ goals[g].at \in Nat /\ goals[g].at <= goalClock
        /\ NoCommand \in Command /\ NoCommand.op = "none" /\ InHandBy(NoCommand, goalClock)
    BY BooksFacts DEF LatestInv
  <2>2. s \in snapshots /\ s \in Snapshot
    BY <2>1 DEF SnapshotFor, LatestSnapshots, GoalBooks
  <2>3. s.rows \in GoalRows /\ \A g \in Goals : s.rows[g].at <= goalClock
    BY <2>1, <2>2 DEF Snapshot, GoalBooks
  <2>4. goals' \in GoalRows /\ \A g \in Goals : goals'[g].at <= goals[g].at \/ goals'[g].at <= goalClock'
    <3> SUFFICES ASSUME NEW g \in Goals
                 PROVE  (IF s.rows[g] = NoGoal THEN goals[g] ELSE s.rows[g]) \in GoalRow
                        /\ (goals'[g].at <= goals[g].at \/ goals'[g].at <= goalClock)
      BY <1>1, <1>4 DEF GoalRows
    <3> QED
      BY <1>4, <2>1, <2>3 DEF GoalRows
  <2>5. commands' = [commands EXCEPT ![c] = NoCommand]
    BY <1>1 DEF EndCommand
  <2>6. GoalBooks'
    <3>1. NoCommand.op # "capturing" /\ NoCommand.op \notin DecidingOps
      BY <2>1 DEF DecidingOps
    <3> QED
      BY <1>1, <2>1, <2>4, <2>5, <3>1, BooksKept
  <2> QED
    BY <1>2, <2>6 DEF LatestInv, InTime
<1> QED
  BY <1>3, <1>4 DEF ApplyRestore
-----------------------------------------------------------------------------
LEMMA LatestStepKeeps == ASSUME LatestInv, NEW c \in Owners, GoalStep(c) PROVE LatestInv'
  BY SetKeeps, ReplaceKeeps, LookUpKeeps, StoreKeeps, DecideKeeps, AcceptGoalKeeps, RejectGoalKeeps,
     BeginCaptureKeeps, CaptureKeeps, BeginRestoreKeeps, RestoreKeeps, FailCommandKeeps DEF GoalStep

LEMMA LatestUnmoved == LatestInv /\ UNCHANGED goalVars => LatestInv'
<1> SUFFICES ASSUME LatestInv, UNCHANGED goalVars PROVE LatestInv'
  OBVIOUS
<1>1. /\ goals' = goals /\ snapshots' = snapshots /\ commands' = commands /\ begunCommands' = begunCommands
      /\ goalClock' = goalClock /\ chosen' = chosen /\ history' = history
  BY DEF goalVars
<1>2. AcceptedGoals' = AcceptedGoals /\ Calm' = Calm /\ Commanding' = Commanding /\ Deciders' = Deciders
  BY <1>1 DEF AcceptedGoals, Calm, Commanding, Deciders
<1>3. GoalBooks'
  BY <1>1, <1>2 DEF LatestInv, GoalBooks
<1>4. InTime'
  BY <1>1, <1>2 DEF LatestInv, InTime
<1> QED
  BY <1>3, <1>4 DEF LatestInv

LEMMA LatestInvariant == GoalsSpec => []LatestInv
<1>1. GoalsInit => LatestInv
  <2> SUFFICES ASSUME GoalsInit PROVE LatestInv
    OBVIOUS
  <2>1. /\ goals \in [Goals -> {NoGoal, [status |-> "proposal", at |-> 0]}]
        /\ commands = [c \in Owners |-> NoCommand] /\ chosen = {}
    BY DEF GoalsInit
  <2>2. AcceptedGoals = {} /\ Commanding = {} /\ NoCommand.op = "none"
    <3>1. NoGoal.status = "absent" /\ NoCommand.op = "none"
      BY DEF NoGoal, NoCommand
    <3>2. \A g \in Goals : goals[g] = NoGoal \/ goals[g] = [status |-> "proposal", at |-> 0]
      BY <2>1
    <3>3. \A g \in Goals : goals[g].status # "accepted"
      BY <3>1, <3>2
    <3>4. \A c \in Owners : commands[c].op = "none"
      BY <2>1, <3>1
    <3> QED
      BY <3>1, <3>3, <3>4 DEF AcceptedGoals, Commanding
  <2>3. Due(NoCommand, AcceptedGoals, goals, chosen, history)
    BY <2>1, <2>2 DEF Due, SettingOps, DecidingOps
  <2> QED
    BY <2>2, <2>3, BooksStart DEF LatestInv, InTime
<1>2. LatestInv /\ [GoalsNext]_goalVars => LatestInv'
  BY LatestStepKeeps, LatestUnmoved DEF GoalsNext
<1> QED
  BY <1>1, <1>2, PTL DEF GoalsSpec

\* The types are in the books.
LEMMA GoalsTyped == GoalBooks => GoalsTypeOK
<1> SUFFICES ASSUME GoalBooks PROVE GoalsTypeOK
  OBVIOUS
<1>1. /\ goals \in GoalRows /\ \A g \in Goals : goals[g] \in GoalRow /\ goals[g].at \in 0..goalClock
  <2>1. \A g \in Goals : goals[g] \in GoalRow /\ goals[g].at \in Nat /\ goals[g].at <= goalClock /\ goalClock \in Nat
    BY BooksFacts
  <2> QED
    BY <2>1, BooksFacts
<1>2. goals \in [Goals -> [status : GoalStatuses, at : 0..goalClock]]
  BY <1>1 DEF GoalRows, GoalRow, GoalStatuses
<1>3. ASSUME NEW s \in snapshots
      PROVE  s.at \in 1..goalClock /\ s.rows \in [Goals -> [status : GoalStatuses, at : 0..goalClock]]
  <2>1. s.at \in Nat /\ s.at # 0 /\ s.at <= goalClock /\ goalClock \in Nat /\ s.rows \in GoalRows
    BY DEF GoalBooks, Snapshot
  <2>2. ASSUME NEW g \in Goals PROVE s.rows[g] \in GoalRow /\ s.rows[g].at \in 0..goalClock
    <3>1. s.rows[g] \in GoalRow /\ s.rows[g].at <= goalClock
      BY <2>1 DEF GoalRows, GoalBooks
    <3>2. s.rows[g].at \in Nat
      BY <3>1 DEF GoalRow
    <3> QED
      BY <2>1, <3>1, <3>2
  <2> QED
    BY <2>1, <2>2 DEF GoalRows, GoalRow, GoalStatuses
<1>4. ASSUME NEW c \in Owners PROVE commands[c].at \in 0..goalClock /\ commands[c].old \subseteq Goals
  <2>1. commands[c] \in Command /\ commands[c].at <= goalClock /\ goalClock \in Nat
    BY BooksFacts DEF InHandBy
  <2>2. commands[c].at \in Nat /\ commands[c].old \subseteq Goals
    BY <2>1 DEF Command
  <2> QED
    BY <2>1, <2>2
<1>5. goalClock \in 0..begunCommands
  <2>1. /\ goalClock \in Nat /\ begunCommands \in Nat /\ Cardinality(Deciders) \in Nat
        /\ goalClock + Cardinality(Deciders) <= begunCommands
    BY FS_CardinalityType DEF GoalBooks
  <2> QED
    BY <2>1
<1> QED
  BY <1>2, <1>3, <1>4, <1>5 DEF GoalsTypeOK, GoalBooks

\* The heartbeat reads the goal its owner chose last: when commands come one at a
\* time and none of them fails, and no snapshot is restored, what is listed is the
\* goal last set or accepted, although the goal it follows is still accepted; and
\* with no proposal accepted one goal at most is (agent-goal-store.ts
\* listAgentGoals, upsertAgentGoal).
THEOREM LatestGoalCounts == GoalsSpec => []LatestCounts
<1>1. LatestInv => LatestCounts
  <2> SUFFICES ASSUME LatestInv, ~CommandOpen, history \cap {"overlap", "failure", "restore"} = {}
               PROVE  /\ chosen # {} => Listed = chosen
                      /\ "accept" \notin history => Cardinality(AcceptedGoals) <= 1
    BY DEF LatestCounts
  <2>1. Calm /\ Commanding = {}
    BY DEF Calm, Commanding, CommandOpen
  <2>2. Due(NoCommand, AcceptedGoals, goals, chosen, history) /\ NoCommand.op = "none"
    BY <2>1 DEF LatestInv, InTime, NoCommand
  <2>3. /\ chosen = {} => AcceptedGoals = {}
        /\ \A g \in chosen : /\ chosen = {g} /\ g \in AcceptedGoals
                            /\ \A h \in AcceptedGoals \ {g} : goals[h].at < goals[g].at
        /\ "accept" \notin history => AcceptedGoals \subseteq chosen
    BY <2>2 DEF Due, SettingOps
  <2>4. \A g \in AcceptedGoals : goals[g].at \in Nat
    BY BooksFacts DEF LatestInv
  <2>5. chosen # {} => Listed = chosen
    <3> SUFFICES ASSUME NEW g \in chosen PROVE Listed = {g}
      BY <2>3
    <3>1. ASSUME NEW h \in AcceptedGoals PROVE goals[h].at <= goals[g].at
      BY <2>3, <2>4
    <3>2. ASSUME NEW h \in AcceptedGoals, h # g PROVE ~(goals[g].at <= goals[h].at)
      <4>1. goals[h].at < goals[g].at /\ goals[h].at \in Nat /\ goals[g].at \in Nat
        BY <2>3, <2>4, <3>2
      <4> QED
        BY <4>1
    <3> QED
      BY <2>3, <3>1, <3>2 DEF Listed
  <2>6. "accept" \notin history => Cardinality(AcceptedGoals) <= 1
    <3>1. CASE AcceptedGoals = {}
      BY <3>1, FS_EmptySet
    <3>2. CASE AcceptedGoals # {}
      <4> SUFFICES ASSUME "accept" \notin history PROVE Cardinality(AcceptedGoals) <= 1
        OBVIOUS
      <4>1. PICK g \in AcceptedGoals : TRUE
        BY <3>2
      <4>2. AcceptedGoals = {g}
        BY <2>3, <4>1
      <4>3. Cardinality({g}) = 1
        BY FS_Singleton
      <4> QED
        BY <4>2, <4>3
    <3> QED
      BY <3>1, <3>2
  <2> QED
    BY <2>5, <2>6
<1> QED
  BY <1>1, LatestInvariant, PTL

-----------------------------------------------------------------------------
\* The calls that still have their entry to write; and what is linked, or about
\* to be, has its entry.
WritingOps == {"entering", "running", "refusing", "retiring", "noting"}
Writers == {h \in Hands : hands[h].op \in WritingOps}
CountInv ==
    /\ calls \in 0..MaxCalls /\ IsFiniteSet(Writers) /\ Len(routineLog) + Cardinality(Writers) <= calls
    /\ \A h \in Hands, r \in Routines :
           hands[h].op = "linking" /\ hands[h].routine = r => Entries("install", r) # {}
    /\ \A r \in Routines : routines[r].linked => Entries("install", r) # {}

LEMMA WriterMoves ==
    ASSUME RoutineShape, CountInv, NEW h \in Hands, \A g \in Hands \ {h} : hands'[g] = hands[g],
           \/ calls' = calls + 1 /\ calls < MaxCalls /\ hands[h].op = "none" /\ routineLog' = routineLog
           \/ calls' = calls /\ (hands'[h].op \in WritingOps => hands[h].op \in WritingOps) /\ routineLog' = routineLog
           \/ /\ calls' = calls /\ hands[h].op \in WritingOps /\ hands'[h].op \notin WritingOps
              /\ Len(routineLog') = Len(routineLog) + 1
    PROVE  /\ calls' \in 0..MaxCalls /\ IsFiniteSet(Writers')
           /\ Len(routineLog') + Cardinality(Writers') <= calls'
<1> DEFINE S == Writers
           T == Writers'
<1>1. S \ {h} = T \ {h} /\ (h \in S <=> hands[h].op \in WritingOps) /\ (h \in T <=> hands'[h].op \in WritingOps)
  BY DEF Writers
<1>2. IsFiniteSet(S) /\ Len(routineLog) + Cardinality(S) <= calls /\ calls \in 0..MaxCalls /\ Len(routineLog) \in Nat
  BY LenProperties DEF CountInv, RoutineShape
<1> HIDE DEF S, T
<1>3. /\ IsFiniteSet(T) /\ Cardinality(S) \in Nat /\ Cardinality(T) \in Nat
      /\ (h \in S <=> h \in T) => Cardinality(T) = Cardinality(S)
      /\ h \in S /\ h \notin T => Cardinality(T) = Cardinality(S) - 1
      /\ h \notin S /\ h \in T => Cardinality(T) = Cardinality(S) + 1
  BY <1>1, <1>2, SetMove, FS_CardinalityType
<1>4. CASE calls' = calls + 1 /\ calls < MaxCalls /\ hands[h].op = "none" /\ routineLog' = routineLog
  <2>1. Cardinality(T) <= Cardinality(S) + 1 /\ calls' \in 0..MaxCalls
    <3>1. h \notin S
      BY <1>1, <1>4 DEF WritingOps
    <3> QED
      BY <1>2, <1>3, <1>4, <3>1, RoutineAssumption
  <2> QED
    BY <1>2, <1>3, <1>4, <2>1 DEF T
<1>5. CASE calls' = calls /\ (hands'[h].op \in WritingOps => hands[h].op \in WritingOps) /\ routineLog' = routineLog
  <2>1. Cardinality(T) <= Cardinality(S)
    BY <1>1, <1>3, <1>5
  <2> QED
    BY <1>2, <1>3, <1>5, <2>1 DEF T
<1>6. CASE /\ calls' = calls /\ hands[h].op \in WritingOps /\ hands'[h].op \notin WritingOps
           /\ Len(routineLog') = Len(routineLog) + 1
  <2>1. Cardinality(T) = Cardinality(S) - 1
    BY <1>1, <1>3, <1>6
  <2> QED
    BY <1>2, <1>3, <1>6, <2>1 DEF T
<1> QED
  BY <1>4, <1>5, <1>6

\* A step of one call: what is linked keeps its entries.
LEMMA CountKept ==
    ASSUME RoutineInv, CountInv, NEW h \in Hands,
           \A g \in Hands \ {h} : hands'[g] = hands[g],
           \A k, q : Entries(k, q) \subseteq Entries(k, q)',
           \A r \in Routines : hands'[h].op = "linking" /\ hands'[h].routine = r => Entries("install", r)' # {},
           \A r \in Routines : routines'[r].linked => routines[r].linked \/ Entries("install", r)' # {},
           \/ calls' = calls + 1 /\ calls < MaxCalls /\ hands[h].op = "none" /\ routineLog' = routineLog
           \/ calls' = calls /\ (hands'[h].op \in WritingOps => hands[h].op \in WritingOps) /\ routineLog' = routineLog
           \/ /\ calls' = calls /\ hands[h].op \in WritingOps /\ hands'[h].op \notin WritingOps
              /\ Len(routineLog') = Len(routineLog) + 1
    PROVE  CountInv'
<1>1. /\ calls' \in 0..MaxCalls /\ IsFiniteSet(Writers')
      /\ Len(routineLog') + Cardinality(Writers') <= calls'
  BY WriterMoves DEF RoutineInv
<1>2. ASSUME NEW g \in Hands, NEW r \in Routines, hands'[g].op = "linking", hands'[g].routine = r
      PROVE  Entries("install", r)' # {}
  <2>1. CASE g = h
    BY <1>2, <2>1
  <2>2. CASE g # h
    <3>1. Entries("install", r) # {}
      BY <1>2, <2>2 DEF CountInv
    <3> QED
      BY <3>1
  <2> QED
    BY <2>1, <2>2
<1>3. ASSUME NEW r \in Routines, routines'[r].linked PROVE Entries("install", r)' # {}
  <2>1. routines[r].linked => Entries("install", r) # {}
    BY DEF CountInv
  <2> QED
    BY <1>3, <2>1
<1> QED
  BY <1>1, <1>2, <1>3 DEF CountInv

\* A call that begins changes no row but one it inserts.
LEMMA CountBegins ==
    ASSUME RoutineInv, CountInv, NEW h \in Hands, NEW op \in WritingOps, NEW r \in Routines, StartCall(h, op, r),
           routineLog' = routineLog, \A q \in Routines : routines'[q].linked => routines[q].linked
    PROVE  CountInv'
<1>1. op \in Ops \ {"none"} /\ op # "linking"
  BY DEF WritingOps, Ops
<1>2. /\ hands'[h].op = op /\ \A g \in Hands \ {h} : hands'[g] = hands[g]
  BY <1>1, StartsAlone DEF RoutineInv
<1>3. hands[h].op = "none" /\ calls < MaxCalls /\ calls' = calls + 1
  BY DEF StartCall
<1>4. \A k, q : Entries(k, q)' = Entries(k, q)
  BY LogStays
<1> QED
  BY <1>1, <1>2, <1>3, <1>4, CountKept

\* A call that writes its entry and ends, or goes on to link it.
LEMMA CountLogs ==
    ASSUME RoutineInv, CountInv, NEW h \in Hands, hands[h].op \in WritingOps,
           NEW kind \in {"install", "executed", "denied", "retire"}, Log(kind, hands[h].routine),
           UNCHANGED <<routines, calls>>,
           \/ EndCall(h)
           \/ hands' = [hands EXCEPT ![h].op = "linking"] /\ kind = "install"
    PROVE  CountInv'
<1>1. hands[h].op # "none" /\ "linking" \in Ops
  BY DEF WritingOps, Ops
<1>0. PICK r \in Routines : r = hands[h].routine
  BY <1>1 DEF RoutineInv, RoutineShape
<1>2. \A g \in Hands \ {h} : hands'[g] = hands[g]
  BY <1>0, <1>1, GoesAlone DEF RoutineInv
<1>3. hands'[h].op = "none" \/ (hands'[h].op = "linking" /\ hands'[h].routine = r /\ kind = "install")
  <2>1. hands \in [Hands -> [op : Ops, routine : Routines \cup {"none"}]] /\ IdleHand.op = "none"
    BY DEF RoutineInv, RoutineShape, Holding, IdleHand
  <2> QED
    BY <1>0, <2>1 DEF EndCall
<1>4. /\ \A k, q : Entries(k, q)' = IF k = kind /\ q = r THEN Entries(k, q) \cup {Len(routineLog) + 1}
                                    ELSE Entries(k, q)
  BY <1>0, LogGrows DEF RoutineInv
<1>5. Len(routineLog') = Len(routineLog) + 1
  <2>1. routineLog \in Seq(Logged) /\ [kind |-> kind, routine |-> r] \in Logged
    BY DEF RoutineInv, RoutineShape, Logged
  <2> QED
    BY <2>1, AppendProperties, <1>0 DEF Log
<1>6. hands'[h].op \notin WritingOps
  BY <1>3 DEF WritingOps
<1>7. \A k, q : Entries(k, q) \subseteq Entries(k, q)'
  BY <1>4
<1>8. \A q \in Routines : hands'[h].op = "linking" /\ hands'[h].routine = q => Entries("install", q)' # {}
  <2>1. Entries(kind, r)' # {}
    BY <1>4
  <2> QED
    BY <1>3, <2>1
<1> QED
  BY <1>2, <1>5, <1>6, <1>7, <1>8, CountKept

LEMMA CountSteps == ASSUME RoutineInv, CountInv, NEW h \in Hands, RoutineStep(h) PROVE CountInv'
<1>0. \A q \in Routines : {"status", "linked", "is"} \subseteq DOMAIN routines[q]
  BY DEF RoutineInv, RoutineShape
<1>1. CASE Install(h)
  <2>1. PICK r \in Routines, c \in Admitted :
            /\ StartCall(h, "entering", r) /\ routineLog' = routineLog
            /\ routines' = [routines EXCEPT ![r] = [status |-> "active", linked |-> FALSE, is |-> c]]
    BY <1>1 DEF Install
  <2>2. \A q \in Routines : routines'[q].linked => routines[q].linked
    BY <2>1 DEF RoutineInv, RoutineShape
  <2>3. "entering" \in WritingOps
    BY DEF WritingOps
  <2> QED
    BY <2>1, <2>2, <2>3, CountBegins
<1>2. CASE EnterInstall(h)
  <2>1. hands[h].op \in WritingOps
    BY <1>2 DEF EnterInstall, WritingOps
  <2> QED
    BY <1>2, <2>1, CountLogs DEF EnterInstall
<1>3. CASE LinkLedger(h)
  <2>0. PICK r \in Routines : r = hands[h].routine
    BY <1>3 DEF LinkLedger, RoutineInv, RoutineShape
  <2>1. /\ hands[h].op = "linking" /\ EndCall(h) /\ UNCHANGED <<calls, routineLog>>
        /\ \/ routines' = [routines EXCEPT ![r].status = "active", ![r].linked = TRUE]
           \/ routines' = routines
    BY <1>3, <2>0 DEF LinkLedger
  <2>2. hands' = [hands EXCEPT ![h] = IdleHand] /\ IdleHand.op = "none"
    BY <2>1 DEF EndCall, IdleHand
  <2>3. hands'[h].op = "none" /\ \A g \in Hands \ {h} : hands'[g] = hands[g]
    BY <2>2 DEF RoutineInv, RoutineShape, Holding
  <2>4. \A k, q : Entries(k, q)' = Entries(k, q)
    BY <2>1, LogStays
  <2>5. Entries("install", r)' # {}
    BY <2>0, <2>1, <2>4 DEF CountInv
  <2>6. \A q \in Routines \ {r} : routines'[q] = routines[q]
    BY <2>1 DEF RoutineInv, RoutineShape
  <2>7. hands'[h].op \notin WritingOps
    BY <2>3 DEF WritingOps
  <2> QED
    BY <2>1, <2>3, <2>4, <2>5, <2>6, <2>7, CountKept
<1>4. CASE Invoke(h)
  <2>1. PICK r \in Routines, op \in {"running", "refusing"} :
            StartCall(h, op, r) /\ routineLog' = routineLog /\ routines' = routines
    BY <1>4 DEF Invoke
  <2>2. op \in WritingOps
    BY DEF WritingOps
  <2> QED
    BY <2>1, <2>2, CountBegins
<1>5. CASE WriteTrace(h)
  <2>1. hands[h].op \in WritingOps
    BY <1>5 DEF WriteTrace, WritingOps
  <2>2. PICK kind \in {"executed", "denied"} : Log(kind, hands[h].routine)
    BY <1>5 DEF WriteTrace
  <2> QED
    BY <1>5, <2>1, <2>2, CountLogs DEF WriteTrace
<1>6. CASE BeginRetire(h)
  <2>1. PICK r \in Routines : StartCall(h, "retiring", r) /\ routineLog' = routineLog /\ routines' = routines
    BY <1>6 DEF BeginRetire
  <2>2. "retiring" \in WritingOps
    BY DEF WritingOps
  <2> QED
    BY <2>1, <2>2, CountBegins
<1>7. CASE RetireRow(h)
  <2>0. PICK r \in Routines : r = hands[h].routine
    BY <1>7 DEF RetireRow, RoutineInv, RoutineShape
  <2>1. /\ hands[h].op = "retiring" /\ hands' = [hands EXCEPT ![h].op = "noting"]
        /\ \/ routines' = [routines EXCEPT ![r].status = "retired"]
           \/ routines' = routines
        /\ UNCHANGED <<calls, routineLog>>
    BY <1>7, <2>0 DEF RetireRow
  <2>2. hands \in [Hands -> [op : Ops, routine : Routines \cup {"none"}]]
    BY DEF RoutineInv, RoutineShape, Holding
  <2>3. hands'[h].op = "noting" /\ \A g \in Hands \ {h} : hands'[g] = hands[g]
    BY <2>1, <2>2
  <2>4. \A k, q : Entries(k, q)' = Entries(k, q)
    BY <2>1, LogStays
  <2>5. \A q \in Routines : routines'[q].linked => routines[q].linked
    BY <1>0, <2>1, <2>2 DEF RoutineInv, RoutineShape
  <2>6. hands'[h].op # "linking" /\ hands[h].op \in WritingOps
    BY <2>1, <2>3 DEF WritingOps
  <2> QED
    BY <2>1, <2>3, <2>4, <2>5, <2>6, CountKept
<1>8. CASE EnterRetire(h)
  <2>1. hands[h].op \in WritingOps
    BY <1>8 DEF EnterRetire, WritingOps
  <2> QED
    BY <1>8, <2>1, CountLogs DEF EnterRetire
<1>9. CASE DropCall(h)
  <2>1. EndCall(h) /\ UNCHANGED <<routines, calls, routineLog>>
    BY <1>9 DEF DropCall
  <2>2. hands'[h].op = "none" /\ \A g \in Hands \ {h} : hands'[g] = hands[g]
    BY <2>1 DEF EndCall, IdleHand, RoutineInv, RoutineShape, Holding
  <2>3. \A k, q : Entries(k, q)' = Entries(k, q)
    BY <2>1, LogStays
  <2>4. hands'[h].op \notin WritingOps /\ hands'[h].op # "linking"
    BY <2>2 DEF WritingOps
  <2> QED
    BY <2>1, <2>2, <2>3, <2>4, CountKept
<1> QED
  BY <1>1, <1>2, <1>3, <1>4, <1>5, <1>6, <1>7, <1>8, <1>9 DEF RoutineStep

\* A routine that is linked to the ledger has its entry there, and the ledger
\* and the traces have no more entries than calls were made, although calls
\* overlap and die (installToolRoutine links after the entry is written).
LEMMA RoutinesTyped == RoutinesSpec => []RoutinesTypeOK
<1>1. RoutinesInit => CountInv
  <2> SUFFICES ASSUME RoutinesInit PROVE CountInv
    OBVIOUS
  <2>1. /\ \A h \in Hands : hands[h].op = "none"
        /\ \A r \in Routines : routines[r].linked = FALSE
        /\ calls = 0 /\ Len(routineLog) = 0
    BY DEF RoutinesInit, IdleHand, NoRoutine
  <2>2. Writers = {}
    BY <2>1 DEF Writers, WritingOps
  <2>3. IsFiniteSet({}) /\ Cardinality({}) = 0 /\ 0 \in 0..MaxCalls /\ 0 + 0 <= 0
    BY FS_EmptySet, RoutineAssumption
  <2> QED
    BY <2>1, <2>2, <2>3 DEF CountInv
<1>2. RoutineInv /\ CountInv /\ [RoutinesNext]_routineVars => CountInv'
  <2>1. ASSUME CountInv, UNCHANGED routineVars PROVE CountInv'
    BY <2>1 DEF routineVars, CountInv, Writers, Entries
  <2> QED
    BY <2>1, CountSteps DEF RoutinesNext
<1>3. RoutineInv /\ CountInv => RoutinesTypeOK
  <2> SUFFICES ASSUME RoutineInv, CountInv PROVE RoutinesTypeOK
    OBVIOUS
  <2>1. ASSUME NEW r \in Routines
        PROVE  routines[r].status \in {"absent", "active", "retired"} /\ routines[r].is \in Candidates
    <3>1. routines[r].status \in {"absent", "active", "retired"} /\ routines[r].is \in Admitted \cup {NoCandidate}
      BY DEF RoutineInv, RoutineShape
    <3>2. NoCandidate \in Candidates /\ Admitted \subseteq Candidates
      BY DEF Admitted, Candidates, NoCandidate
    <3> QED
      BY <3>1, <3>2
  <2>2. Len(routineLog) <= calls
    <3>1. Len(routineLog) \in Nat /\ Cardinality(Writers) \in Nat /\ calls \in Nat
      BY LenProperties, FS_CardinalityType DEF CountInv, RoutineInv, RoutineShape
    <3> QED
      BY <3>1 DEF CountInv
  <2> QED
    BY <2>1, <2>2 DEF CountInv, RoutineInv, RoutineShape, RoutinesTypeOK
<1> QED
  BY <1>1, <1>2, <1>3, RoutineInit, RoutineKeeps, PTL DEF RoutinesSpec

LEMMA QueueTyped == QueueInv => QueueTypeOK
<1> SUFFICES ASSUME QueueInv PROVE QueueTypeOK
  OBVIOUS
<1>1. /\ submitted \in 0..MaxRequests /\ attempt \in 0..MaxRetries /\ processing \in BOOLEAN /\ inside \in BOOLEAN
      /\ committed \in Seq(1..MaxRequests) /\ executing \in Nat
      /\ executing # 0 => executing = Len(answers) + 1
  BY DEF QueueInv, QueueShape
<1>2. /\ Len(answers) \in Nat /\ Len(waiting) \in Nat
      /\ Len(answers) + (IF executing = 0 THEN 0 ELSE 1) + Len(waiting) = submitted
  BY LenProperties DEF QueueInv, QueueShape, QueueAnswers, AnsweredInOrder
<1>3. executing \in 0..submitted
  BY <1>1, <1>2
<1> QED
  BY <1>1, <1>3 DEF QueueTypeOK

-----------------------------------------------------------------------------
\* A step of the composition is a step of each service, or leaves it alone.
LEMMA ServiceSteps ==
    ASSUME [ServicesNext]_serviceVars
    PROVE  /\ [FramesNext]_frameVars /\ [EvolutionNext]_evolutionVars /\ [RoutinesNext]_routineVars
           /\ [DatabaseNext]_databaseVars /\ [QueueNext]_queueVars /\ [PromotionNext]_promotionVars
           /\ [PolicyNext]_policyVars /\ [GoalsNext]_goalVars /\ [Next]_vars
  BY DEF ServicesNext, serviceVars

LEMMA ServicesRun ==
    ServicesSpec => /\ FramesSpec /\ EvolutionSpec /\ RoutinesSpec /\ DatabaseSpec /\ QueueSpec
                    /\ PromotionSpec /\ PolicySpec /\ GoalsSpec /\ Spec
<1>1. ServicesInit => /\ FramesInit /\ EvolutionInit /\ RoutinesInit /\ DatabaseInit /\ QueueInit
                      /\ PromotionInit /\ PolicyInit /\ GoalsInit /\ Init
  BY DEF ServicesInit
<1>2. [ServicesNext]_serviceVars => [FramesNext]_frameVars
  BY ServiceSteps
<1>3. [ServicesNext]_serviceVars => [EvolutionNext]_evolutionVars
  BY ServiceSteps
<1>4. [ServicesNext]_serviceVars => [RoutinesNext]_routineVars
  BY ServiceSteps
<1>5. [ServicesNext]_serviceVars => [DatabaseNext]_databaseVars
  BY ServiceSteps
<1>6. [ServicesNext]_serviceVars => [QueueNext]_queueVars
  BY ServiceSteps
<1>7. [ServicesNext]_serviceVars => [PromotionNext]_promotionVars
  BY ServiceSteps
<1>8. [ServicesNext]_serviceVars => [PolicyNext]_policyVars
  BY ServiceSteps
<1>9. [ServicesNext]_serviceVars => [GoalsNext]_goalVars
  BY ServiceSteps
<1>10. [ServicesNext]_serviceVars => [Next]_vars
  BY ServiceSteps
<1> QED
  BY <1>1, <1>2, <1>3, <1>4, <1>5, <1>6, <1>7, <1>8, <1>9, <1>10, PTL
     DEF ServicesSpec, FramesSpec, EvolutionSpec, RoutinesSpec, DatabaseSpec, QueueSpec,
         PromotionSpec, PolicySpec, GoalsSpec, Spec

\* Every variable of every service keeps its type, whichever service a behaviour
\* visits and for any bounds.
THEOREM ServicesTyped == ServicesSpec => []ServicesTypeOK
<1>1. QueueSpec => []QueueInv
  BY QueueStarts, QueueStep, PTL DEF QueueSpec
<1>2. LatestInv => GoalBooks
  BY DEF LatestInv
<1>3. FramesTypeOK /\ EvolutionTypeOK /\ RoutinesTypeOK /\ DatabaseTypeOK
          /\ QueueTypeOK /\ GoalsTypeOK /\ TypeOK => ServicesTypeOK
  BY DEF ServicesTypeOK
<1> QED
  BY <1>1, <1>2, <1>3, ServicesRun, FramesInvariant, FramesTyped, EvolutionInvariant, EvolutionTyped,
     RoutinesTyped, DatabaseInvariant, DatabaseTyped, QueueTyped, LatestInvariant, GoalsTyped,
     BreakerTypeCorrect, PTL

\* What the owner decided stands in the composition: a frame that was silenced
\* speaks again only by a call that had read it before, a decision about a promotion is final and no term is cut short,
\* and the goal chosen last is the one the heartbeat reads.
THEOREM OwnerDecisionsStand == ServicesSpec => DecisionsStand
  BY ServicesRun, FramesStaySilenced, PromotionsStand, LatestGoalCounts, PTL DEF DecisionsStand
=============================================================================
