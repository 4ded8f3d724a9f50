------------------------ MODULE EffectDispatch_proofs ------------------------
(***************************************************************************)
(* Proofs about EffectDispatch, for any number of workers, intents and     *)
(* dispatches, any lease time and any number of failed calls and crashes:  *)
(* its types, the exclusion its leases give, and the truth of its records. *)
(*                                                                         *)
(* The argument for the leases: a dispatch whose time is not up is the one *)
(* the lease of its scope names, so two of them are the same.  For the     *)
(* records: a decision names one record and one dispatch, so only its own  *)
(* dispatch writes a record.                                               *)
(***************************************************************************)
EXTENDS EffectDispatch, SequenceTheorems, TLAPS

Job == [at : Steps, intent : Intents \cup {Platform}, decision : 0..MaxDispatches, left : 0..LeaseTime]
Lease == [id : 0..MaxDispatches, left : 0..LeaseTime]

\* A decision is made once, and its dispatch is inside at most once.
DecisionsInv ==
    /\ \A w \in Workers : Inside(w) => jobs[w].decision \in 1..decisions /\ jobs[w].intent \in Intents
    /\ \A v, w \in Workers :
           Inside(v) /\ Inside(w) /\ jobs[v].decision = jobs[w].decision => v = w
    /\ \A w \in Workers : jobs[w].at = "resumed" => jobs[w].intent \in Intents

\* A dispatch within its lease is the one the lease names.
LeasesInv ==
    /\ \A w \in Workers :
           Inside(w) /\ NeedsLease(jobs[w].intent) /\ jobs[w].left > 0 =>
               leases[Scope(jobs[w].intent)] = [id |-> jobs[w].decision, left |-> jobs[w].left]
    /\ \A s \in Scopes : leases[s].id \in 0..decisions
    /\ LeaseHasHolder

LeaseInv == DispatchTypeOK /\ DecisionsInv /\ LeasesInv

-----------------------------------------------------------------------------
LEMMA IdleTyped == Idle \in Job /\ Idle.at = "idle" /\ NoLease \in Lease /\ NoLease.left = 0 /\ NoLease.id = 0
  BY DispatchAssumption DEF Idle, Job, Steps, NoLease, Lease

LEMMA ScopeTyped == ASSUME NEW i \in Intents, NeedsLease(i) PROVE Scope(i) \in Scopes
  BY DEF Scope, NeedsLease, Scopes

LEMMA InitLease == DispatchInit => LeaseInv
<1> SUFFICES ASSUME DispatchInit PROVE LeaseInv
  OBVIOUS
<1>1. DispatchTypeOK
  BY IdleTyped, DispatchAssumption DEF DispatchInit, DispatchTypeOK, Job, Lease
<1>2. DecisionsInv /\ LeasesInv
  BY IdleTyped DEF DispatchInit, DecisionsInv, LeasesInv, LeaseHasHolder, Inside
<1> QED
  BY <1>1, <1>2 DEF LeaseInv

-----------------------------------------------------------------------------
\* A dispatch that goes on keeps its decision, its lease and its time.
LEMMA MoveLease ==
    ASSUME LeaseInv, NEW w \in Workers, NEW a \in Steps, Inside(w), a \notin {"idle", "resumed"},
           jobs' = [jobs EXCEPT ![w].at = a], leases' = leases, decisions' = decisions,
           troubles' \in {troubles, troubles + 1}
    PROVE  DecisionsInv' /\ LeasesInv'
<1>1. /\ jobs'[w].at = a /\ jobs'[w].decision = jobs[w].decision
      /\ jobs'[w].intent = jobs[w].intent /\ jobs'[w].left = jobs[w].left
      /\ \A v \in Workers \ {w} : jobs'[v] = jobs[v]
      /\ troubles \in Nat
  BY DispatchAssumption DEF LeaseInv, DispatchTypeOK, Job
<1>2. \A v \in Workers : /\ Inside(v)' <=> Inside(v)
                         /\ Inside(v) => /\ jobs'[v].decision = jobs[v].decision
                                         /\ jobs'[v].intent = jobs[v].intent
                                         /\ jobs'[v].left = jobs[v].left
                         /\ jobs'[v].at = "resumed" => jobs'[v] = jobs[v]
  BY <1>1 DEF Inside
<1>3. DecisionsInv'
  BY <1>2 DEF LeaseInv, DecisionsInv
<1>4. LeaseHasHolder'
  BY <1>1, <1>2 DEF LeaseInv, LeasesInv, LeaseHasHolder
<1>5. LeasesInv'
  BY <1>2, <1>4 DEF LeaseInv, LeasesInv
<1> QED
  BY <1>3, <1>5

\* A dispatch that ends gives back its own lease and nobody else's.
LEMMA EndLease ==
    ASSUME LeaseInv, NEW w \in Workers, Inside(w), Ends(w), decisions' = decisions,
           troubles' \in {troubles, troubles + 1}
    PROVE  /\ DecisionsInv' /\ LeasesInv'
           /\ jobs' \in [Workers -> Job] /\ leases' \in [Scopes -> Lease]
<1> DEFINE d == jobs[w].decision
<1>1. /\ jobs' = [jobs EXCEPT ![w] = Idle]
      /\ leases' = [s \in Scopes |-> IF leases[s].id = d THEN NoLease ELSE leases[s]]
  BY DEF Ends, Released, Holds
<1>2. jobs \in [Workers -> Job] /\ leases \in [Scopes -> Lease] /\ troubles \in Nat
  BY DispatchAssumption DEF LeaseInv, DispatchTypeOK, Job, Lease
<1>3. jobs' \in [Workers -> Job] /\ leases' \in [Scopes -> Lease]
  BY <1>1, <1>2, IdleTyped
<1>4. \A v \in Workers : /\ Inside(v)' <=> v # w /\ Inside(v)
                         /\ v # w => jobs'[v] = jobs[v]
                         /\ jobs'[v].at = "resumed" => v # w
  BY <1>1, <1>2, IdleTyped DEF Inside
<1>5. DecisionsInv'
  BY <1>4 DEF LeaseInv, DecisionsInv
<1>6. \A s \in Scopes : \/ leases'[s] = NoLease
                        \/ leases'[s] = leases[s] /\ leases[s].id # d
  BY <1>1
<1>7. \A v \in Workers : Inside(v) /\ v # w => jobs[v].decision # d
  BY DEF LeaseInv, DecisionsInv
<1>8. ASSUME NEW v \in Workers, Inside(v), v # w, NeedsLease(jobs[v].intent), jobs[v].left > 0
      PROVE  leases'[Scope(jobs[v].intent)] = [id |-> jobs[v].decision, left |-> jobs[v].left]
  <2>1. Scope(jobs[v].intent) \in Scopes
    BY <1>8, ScopeTyped DEF LeaseInv, DecisionsInv
  <2>2. leases[Scope(jobs[v].intent)] = [id |-> jobs[v].decision, left |-> jobs[v].left]
    BY <1>8 DEF LeaseInv, LeasesInv
  <2> QED
    BY <1>1, <1>7, <1>8, <2>1, <2>2
<1>9. \A s \in Scopes : leases'[s].id \in 0..decisions
  <2>1. 0 \in 0..decisions
    BY DispatchAssumption DEF LeaseInv, DispatchTypeOK
  <2> QED
    BY <1>6, <2>1, IdleTyped DEF LeaseInv, LeasesInv
<1>10. LeaseHasHolder'
  <2> SUFFICES ASSUME NEW s \in Scopes, leases'[s].left > 0, ~(troubles' > 0)
               PROVE  \E v \in Workers : Inside(v)' /\ jobs'[v].decision = leases'[s].id
    BY DEF LeaseHasHolder
  <2>1. leases'[s] = leases[s] /\ leases[s].id # d /\ ~(troubles > 0)
    BY <1>2, <1>6, IdleTyped
  <2>2. PICK v \in Workers : Inside(v) /\ jobs[v].decision = leases[s].id
    BY <2>1 DEF LeaseInv, LeasesInv, LeaseHasHolder
  <2> QED
    BY <1>4, <2>1, <2>2
<1>11. LeasesInv'
  BY <1>4, <1>8, <1>9, <1>10 DEF LeasesInv
<1> QED
  BY <1>3, <1>5, <1>11
\* A new decision enters a scope only when nobody's time in it is left.
LEMMA AcquireKeeps ==
    ASSUME LeaseInv, NEW w \in Workers, NEW i \in Intents, ~Inside(w), Acquire(w, i)
    PROVE  LeaseInv'
<1> DEFINE d == decisions + 1
           left == IF NeedsLease(i) THEN LeaseTime ELSE 0
           job == [at |-> "saving", intent |-> i, decision |-> d, left |-> left]
<1>1. /\ jobs \in [Workers -> Job] /\ leases \in [Scopes -> Lease] /\ decisions \in Nat
      /\ d \in 1..MaxDispatches /\ decisions' = d /\ MaxDispatches \in Nat /\ LeaseTime \in Nat \ {0}
      /\ left \in 0..LeaseTime
  BY DispatchAssumption DEF LeaseInv, DispatchTypeOK, Job, Lease, Acquire
<1>2. UNCHANGED <<rows, saved, disk, applied, succeeded, troubles>>
  BY DEF Acquire
<1>3. \A v \in Workers : Inside(v) => jobs[v].decision # d
  BY <1>1 DEF LeaseInv, DecisionsInv
<1>4. CASE jobs' = [jobs EXCEPT ![w] = Idle] /\ UNCHANGED leases
  <2>1. \A v \in Workers : /\ Inside(v)' <=> Inside(v)
                           /\ Inside(v) => v # w
                           /\ v # w => jobs'[v] = jobs[v]
                           /\ jobs'[v].at = "resumed" => v # w
    BY <1>1, <1>4, IdleTyped DEF Inside
  <2>2. DispatchTypeOK'
    BY <1>1, <1>2, <1>4, IdleTyped DEF LeaseInv, DispatchTypeOK, Job, Lease
  <2>3. DecisionsInv'
    BY <1>1, <2>1 DEF LeaseInv, DecisionsInv
  <2>4. LeaseHasHolder'
    BY <1>2, <1>4, <2>1 DEF LeaseInv, LeasesInv, LeaseHasHolder
  <2>5. LeasesInv'
    BY <1>1, <1>4, <2>1, <2>4 DEF LeaseInv, LeasesInv
  <2> QED
    BY <2>2, <2>3, <2>5 DEF LeaseInv
<1>5. CASE /\ ~(NeedsLease(i) /\ ~Available(Scope(i))) /\ jobs' = [jobs EXCEPT ![w] = job]
           /\ leases' = IF NeedsLease(i)
                        THEN [leases EXCEPT ![Scope(i)] = [id |-> d, left |-> LeaseTime]] ELSE leases
  <2>1. job \in Job /\ job.at = "saving"
    BY <1>1 DEF Job, Steps
  <2>2. /\ jobs'[w] = job /\ Inside(w)'
        /\ \A v \in Workers \ {w} : jobs'[v] = jobs[v] /\ (Inside(v)' <=> Inside(v))
    BY <1>1, <1>5, <2>1 DEF Inside
  <2>3. leases' \in [Scopes -> Lease]
    <3>1. [id |-> d, left |-> LeaseTime] \in Lease
      BY <1>1 DEF Lease
    <3> QED
      BY <1>1, <1>5, <3>1
  <2>4. DispatchTypeOK'
    <3>1. jobs' \in [Workers -> Job]
      BY <1>1, <1>5, <2>1
    <3>2. decisions' \in 0..MaxDispatches
      BY <1>1
    <3> QED
      BY <1>2, <2>3, <3>1, <3>2 DEF LeaseInv, DispatchTypeOK, Job, Lease
  <2> HIDE DEF d
  <2>5. DecisionsInv'
    <3>1. \A v \in Workers \ {w} : Inside(v) => jobs[v].decision \in 1..decisions'
      BY <1>1 DEF LeaseInv, DecisionsInv, d
    <3>2. job.decision = d /\ job.intent = i /\ job.at # "resumed" /\ decisions' = d /\ d \in 1..d
      BY <1>1
    <3> HIDE DEF job
    <3>3. \A v \in Workers : Inside(v)' => jobs'[v].decision \in 1..decisions' /\ jobs'[v].intent \in Intents
      BY <2>2, <3>1, <3>2 DEF LeaseInv, DecisionsInv
    <3>4. \A u, v \in Workers :
              Inside(u)' /\ Inside(v)' /\ jobs'[u].decision = jobs'[v].decision => u = v
      <4> TAKE u, v \in Workers
      <4>1. CASE u # w /\ v # w
        BY <2>2, <4>1 DEF LeaseInv, DecisionsInv
      <4>2. CASE u = w \/ v = w
        BY <1>3, <2>2, <3>2, <4>2
      <4> QED
        BY <4>1, <4>2
    <3>5. \A v \in Workers : jobs'[v].at = "resumed" => jobs'[v].intent \in Intents
      BY <2>2, <3>2 DEF LeaseInv, DecisionsInv
    <3> QED
      BY <3>3, <3>4, <3>5 DEF DecisionsInv
  <2>6. ASSUME NEW v \in Workers, Inside(v)', NeedsLease(jobs'[v].intent), jobs'[v].left > 0
        PROVE  leases'[Scope(jobs'[v].intent)] = [id |-> jobs'[v].decision, left |-> jobs'[v].left]
    <3>1. CASE v = w
      <4>1. jobs'[v] = job /\ job.intent = i /\ job.decision = d /\ job.left = left
        BY <2>2, <3>1
      <4>2. NeedsLease(i) /\ left = LeaseTime /\ Scope(i) \in Scopes
        BY <2>6, <4>1, ScopeTyped
      <4> QED
        BY <1>1, <1>5, <4>1, <4>2
    <3>2. CASE v # w
      <4>1. /\ jobs'[v] = jobs[v] /\ Inside(v) /\ jobs[v].left > 0 /\ NeedsLease(jobs[v].intent)
            /\ leases[Scope(jobs[v].intent)] = [id |-> jobs[v].decision, left |-> jobs[v].left]
            /\ Scope(jobs[v].intent) \in Scopes
        BY <2>2, <2>6, <3>2, ScopeTyped DEF LeaseInv, LeasesInv, DecisionsInv
      <4>2. ~(jobs[v].left = 0)
        BY <1>1, <4>1 DEF Job
      <4>3. ~(NeedsLease(i) /\ Scope(i) = Scope(jobs[v].intent))
        BY <1>5, <4>1, <4>2 DEF Available
      <4> QED
        BY <1>1, <1>5, <4>1, <4>3
    <3> QED
      BY <3>1, <3>2
  <2>7. \A s \in Scopes : leases'[s] = leases[s] \/ (leases'[s].id = d /\ leases'[s] # leases[s])
    BY <1>1, <1>5
  <2>8. \A s \in Scopes : leases'[s].id \in 0..decisions'
    BY <1>1, <2>7 DEF LeaseInv, LeasesInv, d
  <2>9. LeaseHasHolder'
    <3> SUFFICES ASSUME NEW s \in Scopes, leases'[s].left > 0, ~(troubles' > 0)
                 PROVE  \E v \in Workers : Inside(v)' /\ jobs'[v].decision = leases'[s].id
      BY DEF LeaseHasHolder
    <3>1. CASE leases'[s].id = d
      BY <2>2, <3>1
    <3>2. CASE leases'[s] = leases[s]
      <4>1. PICK v \in Workers : Inside(v) /\ jobs[v].decision = leases[s].id
        BY <1>2, <3>2 DEF LeaseInv, LeasesInv, LeaseHasHolder
      <4> QED
        BY <2>2, <3>2, <4>1
    <3> QED
      BY <2>7, <3>1, <3>2
  <2> QED
    BY <2>4, <2>5, <2>6, <2>8, <2>9 DEF LeaseInv, LeasesInv
<1> QED
  BY <1>4, <1>5 DEF Acquire

\* A worker that leaves the dispatcher without giving its lease back.
LEMMA DropKeeps ==
    ASSUME LeaseInv, NEW w \in Workers, Inside(w), jobs' = [jobs EXCEPT ![w] = Idle],
           troubles' = troubles + 1, troubles < MaxTroubles,
           UNCHANGED <<leases, rows, saved, disk, applied, succeeded, decisions>>
    PROVE  LeaseInv'
<1>1. /\ jobs \in [Workers -> Job] /\ troubles \in Nat /\ troubles' \in 0..MaxTroubles
  BY DispatchAssumption DEF LeaseInv, DispatchTypeOK, Job
<1>2. \A v \in Workers : /\ Inside(v)' <=> v # w /\ Inside(v)
                         /\ v # w => jobs'[v] = jobs[v]
                         /\ jobs'[v].at = "resumed" => v # w
  BY <1>1, IdleTyped DEF Inside
<1>3. DispatchTypeOK'
  BY <1>1, IdleTyped DEF LeaseInv, DispatchTypeOK, Job
<1>4. DecisionsInv'
  BY <1>2 DEF LeaseInv, DecisionsInv
<1>5. LeaseHasHolder'
  BY <1>1 DEF LeaseHasHolder
<1>6. LeasesInv'
  BY <1>2, <1>5 DEF LeaseInv, LeasesInv
<1> QED
  BY <1>3, <1>4, <1>6 DEF LeaseInv

LEMMA ResumeKeeps == ASSUME LeaseInv, NEW w \in Workers, Resume(w) PROVE LeaseInv'
<1>1. PICK i \in saved : jobs' = [jobs EXCEPT ![w].at = "resumed", ![w].intent = i]
  BY DEF Resume
<1>2. /\ jobs \in [Workers -> Job] /\ i \in Intents /\ jobs[w].at = "idle"
      /\ UNCHANGED <<leases, rows, saved, disk, applied, succeeded, decisions, troubles>>
  BY DEF Resume, LeaseInv, DispatchTypeOK, Job
<1>3. jobs' \in [Workers -> Job]
  BY <1>1, <1>2, ZenonT(40) DEF Job, Steps
<1>4. \A v \in Workers : /\ Inside(v)' <=> Inside(v)
                         /\ Inside(v) => v # w
                         /\ v # w => jobs'[v] = jobs[v]
                         /\ jobs'[w].intent = i
  BY <1>1, <1>2 DEF Inside, Job
<1>5. DispatchTypeOK'
  BY <1>2, <1>3 DEF LeaseInv, DispatchTypeOK, Job
<1>6. DecisionsInv'
  BY <1>2, <1>4 DEF LeaseInv, DecisionsInv
<1>7. LeaseHasHolder'
  BY <1>2, <1>4 DEF LeaseInv, LeasesInv, LeaseHasHolder
<1>8. LeasesInv'
  BY <1>2, <1>4, <1>7 DEF LeaseInv, LeasesInv
<1> QED
  BY <1>5, <1>6, <1>8 DEF LeaseInv

\* The time of a lease and that of its holder run together.
LEMMA TickKeeps == ASSUME LeaseInv, Tick PROVE LeaseInv'
<1>1. /\ jobs \in [Workers -> Job] /\ leases \in [Scopes -> Lease]
      /\ leases' = [s \in Scopes |-> Lapse(leases[s])] /\ jobs' = [w \in Workers |-> Lapse(jobs[w])]
      /\ UNCHANGED <<rows, saved, disk, applied, succeeded, decisions, troubles>>
      /\ LeaseTime \in Nat
  BY DispatchAssumption DEF Tick, LeaseInv, DispatchTypeOK, Job, Lease
<1>2. \A j \in Job : /\ Lapse(j) \in Job /\ Lapse(j).at = j.at /\ Lapse(j).intent = j.intent
                     /\ Lapse(j).decision = j.decision
                     /\ Lapse(j).left = IF j.left > 0 THEN j.left - 1 ELSE 0
  BY <1>1, SMTT(30) DEF Lapse, Job
<1>3. \A x \in Lease : /\ Lapse(x) \in Lease /\ Lapse(x).id = x.id
                       /\ Lapse(x).left = IF x.left > 0 THEN x.left - 1 ELSE 0
  BY <1>1 DEF Lapse, Lease
<1>4. \A w \in Workers : /\ Inside(w)' <=> Inside(w)
                         /\ jobs'[w].at = jobs[w].at /\ jobs'[w].intent = jobs[w].intent
                         /\ jobs'[w].decision = jobs[w].decision
                         /\ jobs'[w].left = IF jobs[w].left > 0 THEN jobs[w].left - 1 ELSE 0
  BY <1>1, <1>2 DEF Inside
<1>5. \A s \in Scopes : /\ leases'[s] \in Lease /\ leases'[s].id = leases[s].id
                        /\ leases'[s].left = IF leases[s].left > 0 THEN leases[s].left - 1 ELSE 0
  BY <1>1, <1>3
<1>6. DispatchTypeOK'
  <2>1. jobs' \in [Workers -> Job] /\ leases' \in [Scopes -> Lease]
    BY <1>1, <1>2, <1>3
  <2> QED
    BY <1>1, <2>1 DEF LeaseInv, DispatchTypeOK, Job, Lease
<1>7. DecisionsInv'
  BY <1>1, <1>4 DEF LeaseInv, DecisionsInv
<1>8. ASSUME NEW w \in Workers, Inside(w)', NeedsLease(jobs'[w].intent), jobs'[w].left > 0
      PROVE  leases'[Scope(jobs'[w].intent)] = [id |-> jobs'[w].decision, left |-> jobs'[w].left]
  <2> DEFINE s == Scope(jobs[w].intent)
  <2>1. /\ Inside(w) /\ NeedsLease(jobs[w].intent) /\ jobs[w].left > 0 /\ jobs[w].left \in Nat
        /\ jobs'[w].left = jobs[w].left - 1
    BY <1>1, <1>4, <1>8 DEF Job
  <2>2. s \in Scopes /\ leases[s] = [id |-> jobs[w].decision, left |-> jobs[w].left]
    BY <2>1, ScopeTyped DEF LeaseInv, LeasesInv, DecisionsInv
  <2>3. leases'[s] = [id |-> jobs[w].decision, left |-> jobs[w].left - 1]
    BY <1>1, <2>1, <2>2 DEF Lapse
  <2> QED
    BY <1>4, <2>1, <2>3
<1>9. LeaseHasHolder'
  <2> SUFFICES ASSUME NEW s \in Scopes, leases'[s].left > 0, ~(troubles' > 0)
               PROVE  \E w \in Workers : Inside(w)' /\ jobs'[w].decision = leases'[s].id
    BY DEF LeaseHasHolder
  <2>1. leases[s].left > 0 /\ ~(troubles > 0)
    BY <1>1, <1>5
  <2>2. PICK w \in Workers : Inside(w) /\ jobs[w].decision = leases[s].id
    BY <2>1 DEF LeaseInv, LeasesInv, LeaseHasHolder
  <2> QED
    BY <1>4, <1>5, <2>2
<1>10. LeasesInv'
  BY <1>1, <1>5, <1>8, <1>9 DEF LeaseInv, LeasesInv
<1> QED
  BY <1>6, <1>7, <1>10 DEF LeaseInv

LEMMA CrashKeeps == ASSUME LeaseInv, CrashDispatch PROVE LeaseInv'
<1>1. /\ jobs' = [w \in Workers |-> Idle] /\ leases' = [s \in Scopes |-> NoLease]
      /\ rows' = disk.rows /\ saved' = disk.saved /\ troubles' = troubles + 1 /\ troubles < MaxTroubles
      /\ UNCHANGED <<disk, applied, succeeded, decisions>>
  BY DEF CrashDispatch
<1>2. troubles' \in 0..MaxTroubles /\ 0 \in 0..decisions
  BY <1>1, DispatchAssumption DEF LeaseInv, DispatchTypeOK
<1>3. DispatchTypeOK'
  BY <1>1, <1>2, IdleTyped DEF LeaseInv, DispatchTypeOK, Job, Lease
<1>4. DecisionsInv' /\ LeasesInv'
  BY <1>1, <1>2, IdleTyped DEF DecisionsInv, LeasesInv, LeaseHasHolder, Inside
<1> QED
  BY <1>3, <1>4 DEF LeaseInv
-----------------------------------------------------------------------------
\* Where the dispatch of a decision has its record.
Recorded == {"marking", "sending", "acking", "committing", "reconciling", "refusing", "aborting", "leaving"}

\* What the dispatch in state j knows of the records rs and of the platform.
Sound(j, rs, done) ==
    /\ j.at \in Recorded => \E k \in DOMAIN rs :
           /\ rs[k].decision = j.decision /\ rs[k].intent = j.intent
           /\ j.at \in {"sending", "acking"} => rs[k].state = "dispatched"
    /\ j.at \in {"saving", "creating"} => \A k \in DOMAIN rs : rs[k].decision # j.decision
    /\ j.at = "acking" \/ (j.at = "committing" /\ j.intent \in Connector) =>
           [intent |-> j.intent, decision |-> j.decision] \in done

\* A decision has one record, and none says more than the platform has done.
SoundRows(rs, last, done) ==
    /\ \A k \in DOMAIN rs : rs[k].decision \in 1..last
    /\ \A k, l \in DOMAIN rs : rs[k].decision = rs[l].decision => k = l
    /\ \A k \in DOMAIN rs :
           rs[k].intent \in Connector /\ rs[k].state \in {"externally_acknowledged", "committed"} =>
               [intent |-> rs[k].intent, decision |-> rs[k].decision] \in done

Committed(rs, d) == \E k \in DOMAIN rs : rs[k].decision = d /\ rs[k].state = "committed"

\* While no call has failed, an effect that succeeded is being recorded or is.
SuccessInv ==
    troubles = 0 =>
        /\ \A d \in succeeded :
               \/ \E w \in Workers : Inside(w) /\ jobs[w].decision = d
               \/ Committed(rows, d)
        /\ \A w \in Workers :
               Inside(w) /\ jobs[w].decision \in succeeded => jobs[w].at \in {"acking", "committing"}

RecordInv ==
    /\ LeaseInv
    /\ SoundRows(rows, decisions, applied) /\ SoundRows(disk.rows, decisions, applied)
    /\ \A w \in Workers : Sound(jobs[w], rows, applied)
    /\ succeeded \subseteq 1..decisions
    /\ SuccessInv

\* The records of the other decisions are the same.
SameBut(rs, rs2, d) ==
    /\ \A k \in DOMAIN rs : rs[k].decision # d => k \in DOMAIN rs2 /\ rs2[k] = rs[k]
    /\ \A k \in DOMAIN rs2 : rs2[k].decision # d => k \in DOMAIN rs /\ rs2[k] = rs[k]

LEMMA OthersSound ==
    ASSUME NEW j, NEW rs, NEW rs2, NEW done, NEW done2, NEW d, SameBut(rs, rs2, d), done \subseteq done2,
           Sound(j, rs, done), j.decision # d
    PROVE  Sound(j, rs2, done2)
  BY DEF SameBut, Sound

LEMMA SoundRowsStay ==
    ASSUME NEW rs, NEW last \in Nat, NEW last2 \in Nat, last <= last2, NEW done, NEW done2,
           done \subseteq done2, SoundRows(rs, last, done)
    PROVE  SoundRows(rs, last2, done2)
  BY DEF SoundRows

\* The step of one worker to state j, which writes at most its own record.
LEMMA WorkerKeeps ==
    ASSUME RecordInv, LeaseInv', NEW w \in Workers, NEW j \in Job, jobs' = [jobs EXCEPT ![w] = j],
           disk' = disk, applied \subseteq applied', decisions <= decisions',
           \/ rows' = rows
           \/ Inside(w) /\ SameBut(rows, rows', jobs[w].decision),
           SoundRows(rows', decisions', applied'),
           Sound(j, rows', applied'),
           j.at \notin {"idle", "resumed"} =>
               \/ Inside(w) /\ j.decision = jobs[w].decision
               \/ j.decision \notin succeeded' ,
           \/ succeeded' = succeeded
           \/ Inside(w) /\ succeeded' = succeeded \cup {jobs[w].decision},
           troubles' = 0 => troubles = 0,
           troubles' = 0 /\ Inside(w) /\ jobs[w].decision \in succeeded' =>
               \/ j.at \in {"acking", "committing"} /\ j.decision = jobs[w].decision
               \/ Committed(rows', jobs[w].decision) /\ j.at = "idle"
    PROVE  RecordInv'
<1>1. /\ jobs \in [Workers -> Job] /\ decisions \in Nat /\ decisions' \in Nat
      /\ \A v \in Workers : jobs'[v] = IF v = w THEN j ELSE jobs[v]
  BY DispatchAssumption DEF RecordInv, LeaseInv, DispatchTypeOK, Job
<1>2. \A v \in Workers \ {w} : Inside(v) /\ Inside(w) => jobs[v].decision # jobs[w].decision
  BY DEF RecordInv, LeaseInv, DecisionsInv
<1>3. SoundRows(disk'.rows, decisions', applied')
  BY <1>1, SoundRowsStay DEF RecordInv
<1>4. ASSUME NEW v \in Workers PROVE Sound(jobs'[v], rows', applied')
  <2>1. CASE v = w
    BY <1>1, <2>1
  <2>2. CASE v # w /\ Inside(v)
    <3>1. Sound(jobs[v], rows, applied) /\ jobs'[v] = jobs[v]
      BY <1>1, <2>2 DEF RecordInv
    <3>2. CASE rows' = rows
      <4>1. SameBut(rows, rows', 0) /\ jobs[v].decision # 0
        BY <2>2, <3>2 DEF SameBut, RecordInv, LeaseInv, DecisionsInv
      <4> QED
        BY <3>1, <4>1, OthersSound
    <3>3. CASE Inside(w) /\ SameBut(rows, rows', jobs[w].decision)
      BY <1>2, <2>2, <3>1, <3>3, OthersSound
    <3> QED
      BY <3>2, <3>3
  <2>3. CASE v # w /\ ~Inside(v)
    BY <1>1, <2>3 DEF Sound, Inside, Recorded
  <2> QED
    BY <2>1, <2>2, <2>3
<1>5. succeeded' \subseteq 1..decisions'
  <2>1. Inside(w) => jobs[w].decision \in 1..decisions
    BY DEF RecordInv, LeaseInv, DecisionsInv
  <2>2. 1..decisions \subseteq 1..decisions' /\ succeeded \subseteq 1..decisions
    BY <1>1 DEF RecordInv
  <2>3. CASE succeeded' = succeeded
    BY <2>2, <2>3
  <2>4. CASE Inside(w) /\ succeeded' = succeeded \cup {jobs[w].decision}
    BY <2>1, <2>2, <2>4
  <2> QED
    BY <2>3, <2>4
<1>6. SuccessInv'
  <2> SUFFICES ASSUME troubles' = 0
               PROVE  /\ \A d \in succeeded' :
                             \/ \E v \in Workers : Inside(v)' /\ jobs'[v].decision = d
                             \/ Committed(rows', d)
                      /\ \A v \in Workers : Inside(v)' /\ jobs'[v].decision \in succeeded' =>
                                                jobs'[v].at \in {"acking", "committing"}
    BY DEF SuccessInv, Committed
  <2>1. ASSUME NEW d \in succeeded'
        PROVE  (\E v \in Workers : Inside(v)' /\ jobs'[v].decision = d) \/ Committed(rows', d)
    <3>1. CASE Inside(w) /\ d = jobs[w].decision
      BY <1>1, <2>1, <3>1 DEF Inside
    <3>2. CASE ~(Inside(w) /\ d = jobs[w].decision)
      <4>1. d \in succeeded
        BY <2>1, <3>2
      <4>2. CASE Committed(rows, d)
        BY <3>2, <4>2 DEF Committed, SameBut
      <4>3. ASSUME NEW v \in Workers, Inside(v), jobs[v].decision = d
            PROVE  Inside(v)' /\ jobs'[v].decision = d
        BY <1>1, <3>2, <4>3 DEF Inside
      <4> QED
        BY <4>1, <4>2, <4>3 DEF RecordInv, SuccessInv
    <3> QED
      BY <3>1, <3>2
  <2>2. ASSUME NEW v \in Workers, Inside(v)', jobs'[v].decision \in succeeded'
        PROVE  jobs'[v].at \in {"acking", "committing"}
    <3>1. CASE v = w
      BY <1>1, <2>2, <3>1 DEF Inside
    <3>2. CASE v # w
      <4>1. Inside(v) /\ jobs'[v] = jobs[v]
        BY <1>1, <2>2, <3>2 DEF Inside
      <4>2. jobs[v].decision \in succeeded
        BY <1>2, <2>2, <3>2, <4>1
      <4> QED
        BY <4>1, <4>2 DEF RecordInv, SuccessInv
    <3> QED
      BY <3>1, <3>2
  <2> QED
    BY <2>1, <2>2
<1>7. (\A v \in Workers : Sound(jobs[v], rows, applied))'
  BY <1>4
<1> QED
  BY <1>3, <1>5, <1>6, <1>7 DEF RecordInv

-----------------------------------------------------------------------------
LEMMA InitRecord == DispatchInit => RecordInv
<1> SUFFICES ASSUME DispatchInit PROVE RecordInv
  OBVIOUS
<1>1. LeaseInv
  BY InitLease
<1>2. rows = <<>> /\ disk.rows = <<>> /\ succeeded = {} /\ \A w \in Workers : jobs[w] = Idle
  BY DEF DispatchInit
<1>3. \A w \in Workers : Sound(jobs[w], rows, applied) /\ ~Inside(w)
  BY <1>2, IdleTyped DEF Sound, Inside, Recorded
<1> QED
  BY <1>1, <1>2, <1>3 DEF RecordInv, SoundRows, SuccessInv

LEMMA Known ==
    ASSUME RecordInv, NEW w \in Workers
    PROVE  /\ jobs \in [Workers -> Job] /\ jobs[w] \in Job /\ rows \in Seq(Row)
           /\ Sound(jobs[w], rows, applied) /\ SoundRows(rows, decisions, applied)
           /\ Inside(w) => jobs[w].decision \in 1..decisions /\ jobs[w].intent \in Intents
           /\ decisions \in Nat /\ decisions \in 0..MaxDispatches /\ troubles \in Nat
           /\ succeeded \subseteq 1..decisions
  BY DispatchAssumption DEF RecordInv, LeaseInv, DispatchTypeOK, DecisionsInv, Job

\* The record a dispatch writes is its own.
LEMMA RowOfIs ==
    ASSUME RecordInv, NEW w \in Workers, jobs[w].at \in Recorded
    PROVE  LET k == RowOf(jobs[w].decision)
           IN  /\ k \in DOMAIN rows /\ rows[k].decision = jobs[w].decision
               /\ rows[k].intent = jobs[w].intent
               /\ jobs[w].at \in {"sending", "acking"} => rows[k].state = "dispatched"
<1> DEFINE d == jobs[w].decision
<1>1. PICK l \in DOMAIN rows :
          /\ rows[l].decision = d /\ rows[l].intent = jobs[w].intent
          /\ jobs[w].at \in {"sending", "acking"} => rows[l].state = "dispatched"
  BY Known DEF Sound
<1>2. RowOf(d) \in DOMAIN rows /\ rows[RowOf(d)].decision = d
  BY <1>1 DEF RowOf
<1>3. RowOf(d) = l
  BY <1>1, <1>2, Known DEF SoundRows
<1> QED
  BY <1>1, <1>3

LEMMA SetStateIs ==
    ASSUME RecordInv, NEW w \in Workers, jobs[w].at \in Recorded, NEW s \in CommitStates,
           SetState(jobs[w].decision, s),
           s \in {"externally_acknowledged", "committed"} /\ jobs[w].intent \in Connector =>
               [intent |-> jobs[w].intent, decision |-> jobs[w].decision] \in applied
    PROVE  /\ rows' \in Seq(Row) /\ SameBut(rows, rows', jobs[w].decision)
           /\ SoundRows(rows', decisions, applied)
           /\ \E k \in DOMAIN rows' : /\ rows'[k].decision = jobs[w].decision
                                      /\ rows'[k].intent = jobs[w].intent /\ rows'[k].state = s
<1> DEFINE d == jobs[w].decision
           k == RowOf(d)
           row == [rows[k] EXCEPT !.state = s]
<1>1. /\ k \in DOMAIN rows /\ rows[k].decision = d /\ rows[k].intent = jobs[w].intent
      /\ rows \in Seq(Row) /\ DOMAIN rows = 1..Len(rows)
  BY Known, RowOfIs, LenProperties
<1>2. rows[k] \in Row
  BY <1>1, ElementOfSeq
<1>3. row \in Row /\ row.decision = d /\ row.intent = jobs[w].intent /\ row.state = s
  BY <1>1, <1>2 DEF Row
<1>4. rows' = [rows EXCEPT ![k] = row]
  BY DEF SetState
<1> HIDE DEF row, k
<1>5. /\ rows' \in Seq(Row) /\ DOMAIN rows' = DOMAIN rows
      /\ \A l \in DOMAIN rows : rows'[l] = IF l = k THEN row ELSE rows[l]
  BY <1>1, <1>3, <1>4, ExceptSeq
<1>6. SameBut(rows, rows', d)
  BY <1>1, <1>3, <1>5 DEF SameBut
<1>7. SoundRows(rows', decisions, applied)
  <2>1. SoundRows(rows, decisions, applied)
    BY Known
  <2>2. \A l \in DOMAIN rows : rows'[l].decision = rows[l].decision /\ rows'[l].intent = rows[l].intent
    BY <1>1, <1>3, <1>5
  <2>3. \A l \in DOMAIN rows \ {k} : rows'[l] = rows[l]
    BY <1>5
  <2>4. rows'[k] = row
    BY <1>1, <1>5
  <2> QED
    BY <1>1, <1>3, <1>5, <2>1, <2>2, <2>3, <2>4 DEF SoundRows
<1> QED
  BY <1>1, <1>3, <1>5, <1>6, <1>7

\* Going on to a while the state of the record is set, or is left alone.
LEMMA GoesOn ==
    ASSUME RecordInv, NEW w \in Workers, jobs[w].at \in Recorded, NEW a \in Recorded, MovesTo(w, a),
           UNCHANGED <<leases, saved, disk, applied, decisions>>,
           troubles' \in {troubles, troubles + 1}, troubles' \in 0..MaxTroubles,
           succeeded' = succeeded,
           \/ rows' = rows /\ a \notin {"sending", "acking"}
           \/ \E s \in CommitStates : /\ SetState(jobs[w].decision, s)
                                      /\ a \in {"sending", "acking"} => s = "dispatched"
                                      /\ s # "committed"
                                      /\ s = "externally_acknowledged" => jobs[w].at = "acking",
           a = "acking" => jobs[w].at = "acking",
           a = "committing" => jobs[w].at \in {"acking"} \/ jobs[w].intent \notin Connector,
           troubles' = 0 /\ jobs[w].decision \in succeeded => a \in {"acking", "committing"}
    PROVE  RecordInv'
<1> DEFINE j == [jobs[w] EXCEPT !.at = a]
<1>1. /\ j \in Job /\ j.at = a /\ j.decision = jobs[w].decision /\ j.intent = jobs[w].intent
      /\ jobs' = [jobs EXCEPT ![w] = j] /\ Inside(w) /\ a \in Steps /\ a \notin {"idle", "resumed"}
  BY Known DEF MovesTo, Job, Steps, Recorded, Inside
<1>2. /\ rows' \in Seq(Row) /\ (rows' = rows \/ SameBut(rows, rows', jobs[w].decision))
      /\ SoundRows(rows', decisions, applied)
      /\ \E k \in DOMAIN rows' : /\ rows'[k].decision = jobs[w].decision
                                 /\ rows'[k].intent = jobs[w].intent
                                 /\ a \in {"sending", "acking"} => rows'[k].state = "dispatched"
  <2>1. CASE rows' = rows /\ a \notin {"sending", "acking"}
    BY <2>1, Known DEF Sound
  <2>2. ASSUME NEW s \in CommitStates, SetState(jobs[w].decision, s),
               a \in {"sending", "acking"} => s = "dispatched",
               s # "committed", s = "externally_acknowledged" => jobs[w].at = "acking"
        PROVE  <1>2
    <3>1. s \in {"externally_acknowledged", "committed"} /\ jobs[w].intent \in Connector =>
              [intent |-> jobs[w].intent, decision |-> jobs[w].decision] \in applied
      BY <2>2, Known DEF Sound
    <3> QED
      BY <2>2, <3>1, SetStateIs
  <2> QED
    BY <2>1, <2>2
<1>3. LeaseInv'
  <2>1. DecisionsInv' /\ LeasesInv'
    BY <1>1, MoveLease DEF MovesTo, RecordInv
  <2>2. DispatchTypeOK'
    BY <1>1, <1>2 DEF RecordInv, LeaseInv, DispatchTypeOK, Job
  <2> QED
    BY <2>1, <2>2 DEF LeaseInv
<1> HIDE DEF j
<1>4. Sound(j, rows', applied')
  BY <1>1, <1>2, Known DEF Sound, Recorded
<1>5. /\ troubles' = 0 => troubles = 0
      /\ applied \subseteq applied' /\ disk' = disk /\ decisions <= decisions'
      /\ applied' = applied /\ decisions' = decisions
  BY Known
<1>6. SoundRows(rows', decisions', applied')
  BY <1>2, <1>5
<1>7. troubles' = 0 /\ Inside(w) /\ jobs[w].decision \in succeeded' =>
          \/ j.at \in {"acking", "committing"} /\ j.decision = jobs[w].decision
          \/ Committed(rows', jobs[w].decision) /\ j.at = "idle"
  BY <1>1
<1>8. rows' = rows \/ (Inside(w) /\ SameBut(rows, rows', jobs[w].decision))
  BY <1>1, <1>2
<1>9. j.at \notin {"idle", "resumed"} =>
          \/ Inside(w) /\ j.decision = jobs[w].decision
          \/ j.decision \notin succeeded'
  BY <1>1
<1> QED
  BY <1>1, <1>3, <1>4, <1>5, <1>6, <1>7, <1>8, <1>9, WorkerKeeps

\* Ending, with the last state of the record set or not.
LEMMA EndsKeep ==
    ASSUME RecordInv, NEW w \in Workers, Inside(w), Ends(w),
           UNCHANGED <<saved, disk, applied, succeeded, decisions>>,
           troubles' \in {troubles, troubles + 1}, troubles' \in 0..MaxTroubles,
           \/ rows' = rows
           \/ \E s \in CommitStates :
                  /\ jobs[w].at \in Recorded /\ SetState(jobs[w].decision, s)
                  /\ s # "externally_acknowledged"
                  /\ s = "committed" => jobs[w].at = "committing",
           troubles' = 0 /\ jobs[w].decision \in succeeded => Committed(rows', jobs[w].decision)
    PROVE  RecordInv'
<1>1. /\ rows' \in Seq(Row) /\ (rows' = rows \/ SameBut(rows, rows', jobs[w].decision))
      /\ SoundRows(rows', decisions, applied)
  <2>1. CASE rows' = rows
    BY <2>1, Known
  <2>2. ASSUME NEW s \in CommitStates, jobs[w].at \in Recorded, SetState(jobs[w].decision, s),
               s # "externally_acknowledged", s = "committed" => jobs[w].at = "committing"
        PROVE  /\ rows' \in Seq(Row) /\ SameBut(rows, rows', jobs[w].decision)
               /\ SoundRows(rows', decisions, applied)
    <3>1. s \in {"externally_acknowledged", "committed"} /\ jobs[w].intent \in Connector =>
              [intent |-> jobs[w].intent, decision |-> jobs[w].decision] \in applied
      BY <2>2, Known DEF Sound
    <3> QED
      BY <2>2, <3>1, SetStateIs
  <2> QED
    BY <2>1, <2>2
<1>2. LeaseInv'
  <2>1. /\ DecisionsInv' /\ LeasesInv'
        /\ jobs' \in [Workers -> Job] /\ leases' \in [Scopes -> Lease]
    BY EndLease DEF RecordInv
  <2>2. DispatchTypeOK'
    BY <1>1, <2>1 DEF RecordInv, LeaseInv, DispatchTypeOK, Job, Lease
  <2> QED
    BY <2>1, <2>2 DEF LeaseInv
<1>3. Idle \in Job /\ Idle.at = "idle" /\ jobs' = [jobs EXCEPT ![w] = Idle]
  BY IdleTyped DEF Ends
<1>4. Sound(Idle, rows', applied')
  BY <1>3 DEF Sound, Recorded
<1>5. /\ troubles' = 0 => troubles = 0
      /\ applied \subseteq applied' /\ disk' = disk /\ decisions <= decisions'
      /\ applied' = applied /\ decisions' = decisions /\ succeeded' = succeeded
  BY Known
<1>6. SoundRows(rows', decisions', applied') /\ (rows' = rows \/ (Inside(w) /\ SameBut(rows, rows', jobs[w].decision)))
  BY <1>1, <1>5
<1> QED
  BY <1>2, <1>3, <1>4, <1>5, <1>6, WorkerKeeps

\* A dispatch whose success is known is about to record it.
LEMMA SuccessKnown ==
    ASSUME RecordInv, NEW w \in Workers, Inside(w), jobs[w].at \notin {"acking", "committing"}, troubles = 0
    PROVE  jobs[w].decision \notin succeeded
  BY DEF RecordInv, SuccessInv

LEMMA AcquireRecords ==
    ASSUME RecordInv, NEW w \in Workers, NEW i \in Intents, ~Inside(w), Acquire(w, i)
    PROVE  RecordInv'
<1>1. LeaseInv' /\ decisions' = decisions + 1 /\ UNCHANGED <<rows, saved, disk, applied, succeeded, troubles>>
  BY AcquireKeeps DEF Acquire, RecordInv
<1>2. /\ decisions \in Nat /\ SoundRows(rows', decisions', applied') /\ decisions <= decisions'
      /\ decisions + 1 \in 1..MaxDispatches
  <2>1. decisions \in Nat /\ SoundRows(rows, decisions, applied)
    BY Known
  <2>2. decisions < MaxDispatches
    BY DEF Acquire
  <2> QED
    BY <1>1, <2>1, <2>2, SoundRowsStay, DispatchAssumption
<1>3. PICK j \in Job : /\ jobs' = [jobs EXCEPT ![w] = j]
                       /\ \/ j.at = "idle"
                          \/ j.at = "saving" /\ j.decision = decisions + 1
  <2>1. CASE jobs' = [jobs EXCEPT ![w] = Idle]
    BY <2>1, IdleTyped
  <2>2. CASE jobs' = [jobs EXCEPT ![w] = [at |-> "saving", intent |-> i, decision |-> decisions + 1,
                                          left |-> IF NeedsLease(i) THEN LeaseTime ELSE 0]]
    <3> DEFINE new == [at |-> "saving", intent |-> i, decision |-> decisions + 1,
                       left |-> IF NeedsLease(i) THEN LeaseTime ELSE 0]
    <3>1. new \in Job
      BY <1>2, DispatchAssumption DEF Job, Steps
    <3>2. new.at = "saving" /\ new.decision = decisions + 1
      OBVIOUS
    <3> QED
      BY <2>2, <3>1, <3>2
  <2> QED
    BY <2>1, <2>2 DEF Acquire
<1>4. decisions + 1 \notin 1..decisions
  BY <1>2
<1>5. Sound(j, rows', applied')
  <2>1. \A k \in DOMAIN rows : rows[k].decision # decisions + 1
    BY <1>4, Known DEF SoundRows
  <2>2. rows' = rows
    BY <1>1
  <2> QED
    BY <1>3, <2>1, <2>2 DEF Sound, Recorded
<1>6. j.at \notin {"idle", "resumed"} => j.decision \notin succeeded'
  BY <1>1, <1>3, <1>4, Known
<1>7. applied \subseteq applied'
  BY <1>1
<1> QED
  BY <1>1, <1>2, <1>3, <1>5, <1>6, <1>7, WorkerKeeps

LEMMA ResumeRecords == ASSUME RecordInv, NEW w \in Workers, Resume(w) PROVE RecordInv'
<1>1. PICK i \in saved : jobs' = [jobs EXCEPT ![w].at = "resumed", ![w].intent = i]
  BY DEF Resume
<1> DEFINE j == [jobs[w] EXCEPT !.at = "resumed", !.intent = i]
<1>2. LeaseInv' /\ UNCHANGED <<rows, saved, disk, applied, succeeded, decisions, troubles>> /\ ~Inside(w)
  BY ResumeKeeps DEF Resume, RecordInv, Inside
<1>3. /\ jobs' = [jobs EXCEPT ![w] = j] /\ i \in Intents /\ j \in Job /\ j.at = "resumed"
  BY <1>1, Known DEF RecordInv, LeaseInv, DispatchTypeOK, Job, Steps
<1> HIDE DEF j
<1>4. Sound(j, rows', applied')
  BY <1>3 DEF Sound, Recorded
<1>5. SoundRows(rows', decisions', applied') /\ decisions <= decisions' /\ applied \subseteq applied'
  BY <1>2, Known
<1> QED
  BY <1>2, <1>3, <1>4, <1>5, WorkerKeeps

LEMMA SaveRecords == ASSUME RecordInv, NEW w \in Workers, SaveCheckpoint(w) PROVE RecordInv'
<1> DEFINE j == [jobs[w] EXCEPT !.at = "creating"]
<1>1. /\ jobs[w].at = "saving" /\ Inside(w) /\ jobs' = [jobs EXCEPT ![w].at = "creating"]
      /\ saved' = saved \cup {jobs[w].intent} /\ troubles' \in {troubles, troubles + 1}
      /\ UNCHANGED <<leases, rows, disk, applied, succeeded, decisions, troubles>>
  BY DEF SaveCheckpoint, MovesTo, Inside
<1>2. /\ jobs' = [jobs EXCEPT ![w] = j] /\ j \in Job /\ j.at = "creating" /\ j.decision = jobs[w].decision
      /\ jobs[w].intent \in Intents
  BY <1>1, Known DEF Job, Steps
<1>3. LeaseInv'
  <2>1. DecisionsInv' /\ LeasesInv'
    BY <1>1, MoveLease DEF RecordInv, Steps
  <2>2. DispatchTypeOK'
    BY <1>1, <1>2 DEF RecordInv, LeaseInv, DispatchTypeOK, Job
  <2> QED
    BY <2>1, <2>2 DEF LeaseInv
<1> HIDE DEF j
<1>4. Sound(j, rows', applied')
  <2>1. \A k \in DOMAIN rows : rows[k].decision # jobs[w].decision
    BY <1>1, Known DEF Sound
  <2>2. rows' = rows
    BY <1>1
  <2> QED
    BY <1>2, <2>1, <2>2 DEF Sound, Recorded
<1>5. SoundRows(rows', decisions', applied') /\ decisions <= decisions' /\ applied \subseteq applied'
  BY <1>1, Known
<1>6. troubles' = 0 => jobs[w].decision \notin succeeded'
  BY <1>1, SuccessKnown
<1> QED
  BY <1>1, <1>2, <1>3, <1>4, <1>5, <1>6, WorkerKeeps

\* A new record bears a decision no other record bears.
LEMMA CreateRecords == ASSUME RecordInv, NEW w \in Workers, CreateCommit(w) PROVE RecordInv'
<1> DEFINE j == [jobs[w] EXCEPT !.at = "marking"]
           new == [intent |-> jobs[w].intent, decision |-> jobs[w].decision, state |-> "planned"]
<1>1. /\ jobs[w].at = "creating" /\ Inside(w) /\ jobs' = [jobs EXCEPT ![w].at = "marking"]
      /\ rows' = Append(rows, new) /\ troubles' \in {troubles, troubles + 1}
      /\ UNCHANGED <<leases, saved, disk, applied, succeeded, decisions, troubles>>
  BY DEF CreateCommit, MovesTo, Inside
<1>2. /\ jobs' = [jobs EXCEPT ![w] = j] /\ j \in Job /\ j.at = "marking" /\ j.decision = jobs[w].decision
      /\ j.intent = jobs[w].intent
      /\ jobs[w].intent \in Intents /\ jobs[w].decision \in 1..decisions
  BY <1>1, Known DEF Job, Steps
<1>3. /\ new \in Row /\ new.decision = jobs[w].decision /\ new.intent = jobs[w].intent /\ new.state = "planned"
  <2>1. jobs[w].decision \in 1..MaxDispatches
    BY <1>2, Known, DispatchAssumption
  <2> QED
    BY <1>2, <2>1 DEF Row, CommitStates
<1> HIDE DEF j, new
<1>4. /\ rows \in Seq(Row) /\ rows' \in Seq(Row) /\ Len(rows) \in Nat /\ Len(rows') = Len(rows) + 1
      /\ DOMAIN rows = 1..Len(rows) /\ DOMAIN rows' = 1..(Len(rows) + 1)
      /\ \A k \in 1..Len(rows) : rows'[k] = rows[k]
      /\ rows'[Len(rows) + 1] = new
  BY <1>1, <1>3, Known, AppendProperties, LenProperties
<1>5. \A k \in DOMAIN rows' : k \in DOMAIN rows \/ k = Len(rows) + 1
  BY <1>4
<1>6. \A k \in DOMAIN rows : k \in DOMAIN rows' /\ k # Len(rows) + 1
  BY <1>4
<1>7. \A k \in DOMAIN rows : rows[k].decision # jobs[w].decision
  BY <1>1, Known DEF Sound
<1>8. SameBut(rows, rows', jobs[w].decision)
  BY <1>3, <1>4, <1>5, <1>6 DEF SameBut
<1>9. SoundRows(rows', decisions', applied')
  <2>1. SoundRows(rows, decisions, applied) /\ decisions' = decisions /\ applied' = applied
    BY <1>1, Known
  <2>2. \A k \in DOMAIN rows : rows'[k] = rows[k]
    BY <1>4
  <2> QED
    BY <1>2, <1>3, <1>4, <1>5, <1>7, <2>1, <2>2 DEF SoundRows
<1>10. Sound(j, rows', applied')
  <2>1. Len(rows) + 1 \in DOMAIN rows'
    BY <1>4
  <2> QED
    BY <1>2, <1>3, <1>4, <2>1 DEF Sound
<1>11. LeaseInv'
  <2>1. DecisionsInv' /\ LeasesInv'
    BY <1>1, MoveLease DEF RecordInv, Steps
  <2>2. DispatchTypeOK'
    BY <1>1, <1>2, <1>4 DEF RecordInv, LeaseInv, DispatchTypeOK, Job
  <2> QED
    BY <2>1, <2>2 DEF LeaseInv
<1>12. troubles' = 0 => jobs[w].decision \notin succeeded'
  BY <1>1, SuccessKnown
<1>13. decisions <= decisions' /\ applied \subseteq applied'
  BY <1>1, Known
<1> QED
  BY <1>1, <1>2, <1>8, <1>9, <1>10, <1>11, <1>12, <1>13, WorkerKeeps

LEMMA AdvanceKeeps ==
    ASSUME RecordInv, NEW w \in Workers, jobs[w].at \in Recorded, NEW s \in CommitStates,
           NEW next \in Recorded, Advance(w, s, next),
           UNCHANGED <<leases, saved, disk, applied, succeeded, decisions, troubles>>,
           next \in {"sending", "acking"} => s = "dispatched", s # "committed", next # "acking",
           s = "externally_acknowledged" => jobs[w].at = "acking",
           next = "committing" => jobs[w].at = "acking" \/ jobs[w].intent \notin Connector,
           troubles = 0 /\ jobs[w].decision \in succeeded =>
               /\ next \in {"acking", "committing"}
               /\ ValidTransition(rows[RowOf(jobs[w].decision)].state, s)
    PROVE  RecordInv'
<1>1. troubles \in Nat /\ troubles' \in {troubles, troubles + 1} /\ troubles' \in 0..MaxTroubles
      /\ succeeded' = succeeded /\ troubles' = troubles
  BY DEF RecordInv, LeaseInv, DispatchTypeOK
<1>2. CASE SetState(jobs[w].decision, s) /\ MovesTo(w, next)
  BY <1>1, <1>2, GoesOn
<1>3. CASE /\ ~ValidTransition(rows[RowOf(jobs[w].decision)].state, s)
           /\ UNCHANGED rows /\ MovesTo(w, "aborting")
  BY <1>1, <1>3, GoesOn DEF Recorded
<1> QED
  BY <1>2, <1>3 DEF Advance

LEMMA MarkRecords == ASSUME RecordInv, NEW w \in Workers, MarkDispatched(w) PROVE RecordInv'
<1> DEFINE next == IF jobs[w].intent \in Connector THEN "sending" ELSE "committing"
<1>1. /\ jobs[w].at = "marking" /\ Inside(w) /\ Advance(w, "dispatched", next)
      /\ UNCHANGED <<leases, saved, disk, applied, succeeded, decisions, troubles>>
  BY DEF MarkDispatched, Inside
<1>2. /\ next \in Recorded /\ next # "acking" /\ jobs[w].at \in Recorded /\ "dispatched" \in CommitStates
      /\ next = "committing" => jobs[w].intent \notin Connector
  BY <1>1 DEF Recorded, CommitStates
<1>3. troubles = 0 => jobs[w].decision \notin succeeded
  BY <1>1, SuccessKnown
<1> HIDE DEF next
<1> QED
  BY <1>1, <1>2, <1>3, AdvanceKeeps

LEMMA AcknowledgeRecords == ASSUME RecordInv, NEW w \in Workers, Acknowledge(w) PROVE RecordInv'
<1>1. /\ jobs[w].at = "acking" /\ Advance(w, "externally_acknowledged", "committing")
      /\ UNCHANGED <<leases, saved, disk, applied, succeeded, decisions, troubles>>
  BY DEF Acknowledge
<1>2. /\ "committing" \in Recorded /\ jobs[w].at \in Recorded /\ "externally_acknowledged" \in CommitStates
  BY <1>1 DEF Recorded, CommitStates
<1>3. ValidTransition(rows[RowOf(jobs[w].decision)].state, "externally_acknowledged")
  BY <1>1, <1>2, RowOfIs DEF ValidTransition
<1> QED
  BY <1>1, <1>2, <1>3, AdvanceKeeps

LEMMA ReconcileRecords == ASSUME RecordInv, NEW w \in Workers, Reconcile(w) PROVE RecordInv'
<1>1. /\ jobs[w].at = "reconciling" /\ Inside(w) /\ Advance(w, "reconcile", "leaving")
      /\ UNCHANGED <<leases, saved, disk, applied, succeeded, decisions, troubles>>
  BY DEF Reconcile, Inside
<1>2. "leaving" \in Recorded /\ jobs[w].at \in Recorded /\ "reconcile" \in CommitStates
  BY <1>1 DEF Recorded, CommitStates
<1>3. troubles = 0 => jobs[w].decision \notin succeeded
  BY <1>1, SuccessKnown
<1> QED
  BY <1>1, <1>2, <1>3, AdvanceKeeps

\* An effect answered with "success" has been carried out, and is acknowledged next.
LEMMA SendRecords == ASSUME RecordInv, NEW w \in Workers, Send(w) PROVE RecordInv'
<1> DEFINE d == jobs[w].decision
           effect == [intent |-> jobs[w].intent, decision |-> d]
<1>1. PICK answer \in {"success", "retryable", "terminal", "throws"}, done \in BOOLEAN :
          /\ (answer = "success") => done
          /\ MovesTo(w, AfterAnswer(answer))
          /\ applied' = IF done THEN applied \cup {effect} ELSE applied
          /\ succeeded' = IF answer = "success" THEN succeeded \cup {d} ELSE succeeded
  BY DEF Send
<1> DEFINE a == AfterAnswer(answer)
           j == [jobs[w] EXCEPT !.at = a]
<1>2. a \in {"acking", "reconciling", "refusing", "aborting"} /\ (a = "acking" <=> answer = "success")
  BY DEF AfterAnswer
<1>3. a \in Steps /\ a \in Recorded /\ a \notin {"idle", "resumed", "saving", "creating", "sending", "committing"}
  BY <1>2 DEF Steps, Recorded
<1> HIDE DEF a
<1>4. /\ jobs[w].at = "sending" /\ Inside(w) /\ jobs' = [jobs EXCEPT ![w].at = a]
      /\ UNCHANGED <<leases, rows, saved, disk, decisions, troubles>>
      /\ jobs[w].at \in Recorded
  BY <1>1 DEF Send, MovesTo, Inside, Recorded, a
<1>5. /\ jobs' = [jobs EXCEPT ![w] = j] /\ j \in Job /\ j.at = a /\ j.decision = d
      /\ j.intent = jobs[w].intent /\ jobs[w].intent \in Intents /\ d \in 1..decisions
  BY <1>3, <1>4, Known DEF Job
<1> HIDE DEF j
<1>6. d \in 1..MaxDispatches
  BY <1>5, Known, DispatchAssumption
<1>7. LeaseInv'
  <2>1. DecisionsInv' /\ LeasesInv'
    <3>1. leases' = leases /\ decisions' = decisions /\ troubles' \in {troubles, troubles + 1}
      BY <1>4
    <3> QED
      BY <1>3, <1>4, <3>1, MoveLease DEF RecordInv
  <2>2. effect \in [intent : Intents, decision : 1..MaxDispatches]
    BY <1>5, <1>6
  <2>3. /\ applied' \subseteq [intent : Intents, decision : 1..MaxDispatches]
        /\ succeeded' \subseteq 1..MaxDispatches
    BY <1>1, <1>6, <2>2 DEF RecordInv, LeaseInv, DispatchTypeOK
  <2>4. jobs' \in [Workers -> Job]
    BY <1>5, Known
  <2>5. DispatchTypeOK'
    BY <1>4, <2>3, <2>4 DEF RecordInv, LeaseInv, DispatchTypeOK, Job
  <2> QED
    BY <2>1, <2>5 DEF LeaseInv
<1>8. applied \subseteq applied' /\ (a = "acking" => effect \in applied')
  BY <1>1, <1>2 DEF a
<1>9. Sound(j, rows', applied')
  <2>1. PICK k \in DOMAIN rows : /\ rows[k].decision = d /\ rows[k].intent = jobs[w].intent
                                 /\ rows[k].state = "dispatched"
    BY <1>4, Known DEF Sound
  <2> QED
    BY <1>3, <1>4, <1>5, <1>8, <2>1 DEF Sound
<1>10. SoundRows(rows', decisions', applied') /\ decisions <= decisions'
  <2>1. decisions \in Nat /\ decisions' = decisions /\ rows' = rows /\ SoundRows(rows, decisions, applied)
    BY <1>4, Known
  <2> QED
    BY <1>8, <2>1, SoundRowsStay
<1>11. troubles' = 0 /\ d \in succeeded' => a = "acking"
  <2>1. troubles' = 0 => d \notin succeeded
    BY <1>4, SuccessKnown
  <2> QED
    BY <1>1, <1>2, <2>1 DEF a
<1>12. succeeded' = succeeded \/ (Inside(w) /\ succeeded' = succeeded \cup {jobs[w].decision})
  BY <1>1, <1>4
<1>13. troubles' = 0 /\ Inside(w) /\ jobs[w].decision \in succeeded' =>
          \/ j.at \in {"acking", "committing"} /\ j.decision = jobs[w].decision
          \/ Committed(rows', jobs[w].decision) /\ j.at = "idle"
  BY <1>5, <1>11
<1> HIDE DEF d, effect
<1>14. j.decision = jobs[w].decision
  BY <1>5 DEF d
<1>15. troubles' = 0 => troubles = 0
  BY <1>4
<1>16. rows' = rows /\ disk' = disk
  BY <1>4
<1> QED
  BY <1>4, <1>5, <1>7, <1>8, <1>9, <1>10, <1>12, <1>13, <1>14, <1>15, <1>16, WorkerKeeps

LEMMA CommitRecords == ASSUME RecordInv, NEW w \in Workers, Commit(w) PROVE RecordInv'
<1>1. /\ jobs[w].at = "committing" /\ Inside(w) /\ SetState(jobs[w].decision, "committed") /\ Ends(w)
      /\ jobs[w].at \in Recorded /\ "committed" \in CommitStates
      /\ UNCHANGED <<saved, disk, applied, succeeded, decisions, troubles>>
  BY DEF Commit, Inside, Recorded, CommitStates
<1>2. troubles' \in {troubles, troubles + 1} /\ troubles' \in 0..MaxTroubles
  BY <1>1 DEF RecordInv, LeaseInv, DispatchTypeOK
<1>3. [intent |-> jobs[w].intent, decision |-> jobs[w].decision] \in applied \/ jobs[w].intent \notin Connector
  BY <1>1, Known DEF Sound
<1>4. Committed(rows', jobs[w].decision)
  BY <1>1, <1>3, SetStateIs DEF Committed
<1> QED
  BY <1>1, <1>2, <1>4, EndsKeep

LEMMA AbortRecords == ASSUME RecordInv, NEW w \in Workers, Abort(w) PROVE RecordInv'
<1>1. /\ jobs[w].at \in {"leaving", "aborting", "refusing"} /\ Inside(w) /\ Ends(w)
      /\ UNCHANGED <<saved, disk, applied, succeeded, decisions, troubles>>
      /\ jobs[w].at \in Recorded /\ "aborted" \in CommitStates
      /\ rows' = rows \/ SetState(jobs[w].decision, "aborted")
  BY DEF Abort, Leave, Inside, Recorded, CommitStates
<1>2. troubles' \in {troubles, troubles + 1} /\ troubles' \in 0..MaxTroubles
  BY <1>1 DEF RecordInv, LeaseInv, DispatchTypeOK
<1>3. troubles' = 0 => jobs[w].decision \notin succeeded
  BY <1>1, SuccessKnown
<1> QED
  BY <1>1, <1>2, <1>3, EndsKeep

LEMMA ThrowRecords == ASSUME RecordInv, NEW w \in Workers, CallThrows(w) PROVE RecordInv'
<1>1. /\ troubles < MaxTroubles /\ troubles' = troubles + 1
      /\ UNCHANGED <<rows, saved, disk, applied, succeeded, decisions>>
      /\ troubles \in Nat /\ troubles' # 0 /\ troubles' \in 0..MaxTroubles
      /\ troubles' \in {troubles, troubles + 1}
  BY Known, DispatchAssumption DEF CallThrows
<1>2. CASE /\ jobs[w].at \in {"saving", "creating"} /\ jobs' = [jobs EXCEPT ![w] = Idle]
           /\ UNCHANGED leases
  <2>1. Inside(w) /\ Idle \in Job /\ Idle.at = "idle"
    BY <1>2, IdleTyped DEF Inside
  <2>2. LeaseInv'
    BY <1>1, <1>2, <2>1, DropKeeps DEF RecordInv
  <2>3. Sound(Idle, rows', applied')
    BY <2>1 DEF Sound, Recorded
  <2>4. SoundRows(rows', decisions', applied') /\ decisions <= decisions' /\ applied \subseteq applied'
        /\ rows' = rows /\ disk' = disk /\ succeeded' = succeeded
    BY <1>1, Known
  <2> QED
    BY <1>1, <1>2, <2>1, <2>2, <2>3, <2>4, WorkerKeeps
<1>3. CASE /\ jobs[w].at \in {"marking", "acking", "committing", "refusing"} /\ MovesTo(w, "aborting")
           /\ UNCHANGED leases
  <2>1. jobs[w].at \in Recorded /\ "aborting" \in Recorded
    BY <1>3 DEF Recorded
  <2> QED
    BY <1>1, <1>3, <2>1, GoesOn
<1>4. CASE jobs[w].at = "aborting" /\ Ends(w)
  <2>1. Inside(w)
    BY <1>4 DEF Inside
  <2> QED
    BY <1>1, <1>4, <2>1, EndsKeep
<1> QED
  BY <1>2, <1>3, <1>4 DEF CallThrows

LEMMA TickRecords == ASSUME RecordInv, Tick PROVE RecordInv'
<1>1. /\ LeaseInv' /\ jobs' = [w \in Workers |-> Lapse(jobs[w])]
      /\ UNCHANGED <<rows, saved, disk, applied, succeeded, decisions, troubles>>
  BY TickKeeps DEF RecordInv, Tick
<1>2. \A w \in Workers : /\ jobs'[w].at = jobs[w].at /\ jobs'[w].intent = jobs[w].intent
                         /\ jobs'[w].decision = jobs[w].decision
  BY <1>1, Known DEF Lapse, Job
<1>3. \A w \in Workers : Inside(w)' <=> Inside(w)
  BY <1>2 DEF Inside
<1>4. (\A w \in Workers : Sound(jobs[w], rows, applied))'
  BY <1>1, <1>2 DEF RecordInv, Sound
<1>5. SuccessInv'
  BY <1>1, <1>2, <1>3 DEF RecordInv, SuccessInv, Committed
<1> QED
  BY <1>1, <1>4, <1>5 DEF RecordInv

LEMMA FlushRecords == ASSUME RecordInv, FlushRows PROVE RecordInv'
<1>1. /\ disk' = [rows |-> rows, saved |-> saved]
      /\ UNCHANGED <<jobs, leases, rows, saved, applied, succeeded, decisions, troubles>>
  BY DEF FlushRows
<1>2. LeaseInv'
  BY <1>1 DEF RecordInv, LeaseInv, DispatchTypeOK, DecisionsInv, LeasesInv, LeaseHasHolder, Inside
<1>3. disk'.rows = rows
  BY <1>1
<1> QED
  BY <1>1, <1>2, <1>3 DEF RecordInv, SuccessInv, Committed, Inside

\* What was flushed was truthful, and stays so: the platform forgets nothing.
LEMMA CrashRecords == ASSUME RecordInv, CrashDispatch PROVE RecordInv'
<1>1. /\ LeaseInv' /\ jobs' = [w \in Workers |-> Idle] /\ rows' = disk.rows
      /\ troubles' = troubles + 1 /\ UNCHANGED <<disk, applied, succeeded, decisions>>
  BY CrashKeeps DEF RecordInv, CrashDispatch
<1>2. \A w \in Workers : Sound(jobs'[w], rows', applied')
  BY <1>1, IdleTyped DEF Sound, Recorded
<1>3. troubles' # 0
  BY <1>1, DispatchAssumption DEF RecordInv, LeaseInv, DispatchTypeOK
<1> QED
  BY <1>1, <1>2, <1>3 DEF RecordInv, SuccessInv

LEMMA RecordStep == ASSUME RecordInv, [DispatchNext]_dispatchVars PROVE RecordInv'
<1>1. ASSUME NEW w \in Workers, WorkerStep(w) PROVE RecordInv'
  <2>1. CASE Dispatch(w)
    BY <2>1, AcquireRecords DEF Dispatch, Inside
  <2>2. CASE DispatchResumed(w)
    <3>1. jobs[w].intent \in Intents /\ ~Inside(w)
      BY <2>2 DEF DispatchResumed, Inside, RecordInv, LeaseInv, DecisionsInv
    <3> QED
      BY <2>2, <3>1, AcquireRecords DEF DispatchResumed
  <2>3. CASE Resume(w)
    BY <2>3, ResumeRecords
  <2>4. CASE SaveCheckpoint(w)
    BY <2>4, SaveRecords
  <2>5. CASE CreateCommit(w)
    BY <2>5, CreateRecords
  <2>6. CASE MarkDispatched(w)
    BY <2>6, MarkRecords
  <2>7. CASE Send(w)
    BY <2>7, SendRecords
  <2>8. CASE Acknowledge(w)
    BY <2>8, AcknowledgeRecords
  <2>9. CASE Commit(w)
    BY <2>9, CommitRecords
  <2>10. CASE Reconcile(w)
    BY <2>10, ReconcileRecords
  <2>11. CASE Abort(w)
    BY <2>11, AbortRecords
  <2>12. CASE CallThrows(w)
    BY <2>12, ThrowRecords
  <2> QED
    BY <1>1, <2>1, <2>2, <2>3, <2>4, <2>5, <2>6, <2>7, <2>8, <2>9, <2>10, <2>11, <2>12 DEF WorkerStep
<1>2. CASE UNCHANGED dispatchVars
  <2>1. LeaseInv'
    BY <1>2 DEF RecordInv, LeaseInv, DispatchTypeOK, DecisionsInv, LeasesInv, LeaseHasHolder, Inside, dispatchVars
  <2> QED
    BY <1>2, <2>1 DEF RecordInv, SuccessInv, Committed, Inside, dispatchVars
<1> QED
  BY <1>1, <1>2, TickRecords, FlushRecords, CrashRecords DEF DispatchNext

-----------------------------------------------------------------------------
\* The inductive invariant holds of every behaviour of the dispatcher.
LEMMA RecordsHold == DispatchSpec => []RecordInv
<1>1. DispatchInit => RecordInv
  BY InitRecord
<1>2. RecordInv /\ [DispatchNext]_dispatchVars => RecordInv'
  BY RecordStep
<1> QED
  BY <1>1, <1>2, PTL DEF DispatchSpec

\* The variables of the dispatcher keep their types (effect-dispatcher.ts,
\* lease-manager.ts, effect-commit-store.ts).
THEOREM DispatchTyped == DispatchSpec => []DispatchTypeOK
<1>1. RecordInv => DispatchTypeOK
  BY DEF RecordInv, LeaseInv
<1> QED
  BY <1>1, RecordsHold, PTL

\* Of the dispatches inside one scope at most one is within its lease, for any
\* number of workers, lapses, failures and crashes (lease-manager.ts acquire,
\* release).
THEOREM LeaseExcludes == DispatchSpec => []OneWithinLease
<1>1. ASSUME RecordInv PROVE OneWithinLease
  <2> SUFFICES ASSUME NEW v \in Workers, NEW w \in Workers, Inside(v), Inside(w),
                      NeedsLease(jobs[v].intent), NeedsLease(jobs[w].intent),
                      Scope(jobs[v].intent) = Scope(jobs[w].intent), jobs[v].left > 0, jobs[w].left > 0
               PROVE  v = w
    BY DEF OneWithinLease
  <2>1. \A u \in Workers :
            Inside(u) /\ NeedsLease(jobs[u].intent) /\ jobs[u].left > 0 =>
                leases[Scope(jobs[u].intent)] = [id |-> jobs[u].decision, left |-> jobs[u].left]
    BY <1>1 DEF RecordInv, LeaseInv, LeasesInv
  <2>2. [id |-> jobs[v].decision, left |-> jobs[v].left] = [id |-> jobs[w].decision, left |-> jobs[w].left]
    BY <2>1
  <2>3. jobs[v].decision = jobs[w].decision
    BY <2>2
  <2> QED
    BY <1>1, <2>3 DEF RecordInv, LeaseInv, DecisionsInv
<1> QED
  BY <1>1, RecordsHold, PTL

\* While no call has failed, a lease that keeps others out is held by a
\* dispatch at work (dispatchEffect).
THEOREM LeaseHeld == DispatchSpec => []LeaseHasHolder
<1>1. RecordInv => LeaseHasHolder
  BY DEF RecordInv, LeaseInv, LeasesInv
<1> QED
  BY <1>1, RecordsHold, PTL

\* A record that says acknowledged or committed is one whose effect the
\* platform carried out, and without failed calls an effect answered with
\* success is committed when its dispatch ends (dispatchEffect).
THEOREM RecordsAreTruthful == DispatchSpec => []RecordsTruthful
<1>1. ASSUME RecordInv PROVE RecordsTruthful
  <2>1. AcknowledgedWasApplied
    BY <1>1 DEF RecordInv, SoundRows, AcknowledgedWasApplied
  <2>2. SuccessCommitted
    BY <1>1 DEF RecordInv, SuccessInv, Committed, SuccessCommitted
  <2> QED
    BY <2>1, <2>2 DEF RecordsTruthful
<1> QED
  BY <1>1, RecordsHold, PTL
=============================================================================
