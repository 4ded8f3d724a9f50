------------------------ MODULE HeartbeatCycle_proofs ------------------------
(***************************************************************************)
(* Proofs about HeartbeatCycle, for any number of beats, evidence items,   *)
(* failed calls and crashes: it implements CycleLedger, its variables keep *)
(* their types, an item of evidence gets one card and one verdict, and a   *)
(* cycle is closed, and not as if nothing had been there.                  *)
(*                                                                         *)
(* The argument for the ledger: a beat that has traced its cycle and not   *)
(* yet closed it owns the cycle's id.  No other such beat has it, because  *)
(* the trace's primary key let only one in, and no closure bears it.       *)
(* Hence the cards with that id are of the items this beat holds, which    *)
(* only it judges; and what it knows of the verdicts of its cycle nobody   *)
(* else can change.                                                        *)
(*                                                                         *)
(* PendingOf is recursive: that it lists pending items, each of them once, *)
(* is proved by the least number for which it would not.                   *)
(***************************************************************************)
EXTENDS HeartbeatCycle, NaturalFacts, SequenceTheorems, TLAPS

Fields == {"pc", "id", "todo", "seen", "act", "reason", "degraded", "failed"}

\* Where a beat is between its trace and its closure.
Open == {"perceive", "card", "mark", "judge", "propose", "close"}

\* What the argument needs to know of the types.
Shaped ==
    /\ DOMAIN beat = Beats
    /\ \A b \in Beats : Fields \subseteq DOMAIN beat[b]
    /\ traces \in Seq(Range(traces))
    /\ disk.traces \in Seq(Range(disk.traces))

\* A closure is of a traced cycle, which has no other.
Sound(begunCycles, records) ==
    /\ \A r \in records : r.cycle \in begunCycles
    /\ \A x, y \in records : x.cycle = y.cycle => x = y

Owned ==
    \A b \in Beats : beat[b].pc \in Open =>
        /\ beat[b].id \in Range(traces)
        /\ \A r \in closures : r.cycle # beat[b].id
        /\ \A c \in Beats : beat[c].pc \in Open /\ beat[c].id = beat[b].id => c = b

LedgerInv ==
    /\ Shaped /\ Owned
    /\ Sound(Range(traces), closures)
    /\ Sound(Range(disk.traces), disk.closures)

-----------------------------------------------------------------------------
LEMMA RangeOfAppend ==
    ASSUME NEW s, NEW e, s \in Seq(Range(s))
    PROVE  /\ Range(Append(s, e)) = Range(s) \cup {e}
           /\ Append(s, e) \in Seq(Range(Append(s, e)))
<1> DEFINE S == Range(s) \cup {e}
<1>1. s \in Seq(S)
  <2>1. \A i \in 1..Len(s) : s[i] \in S
    BY DEF Range
  <2> QED
    BY <2>1, SeqDef
<1>2. /\ Append(s, e) \in Seq(S) /\ Len(Append(s, e)) = Len(s) + 1
      /\ \A i \in 1..Len(s) : Append(s, e)[i] = s[i]
      /\ Append(s, e)[Len(s) + 1] = e
  BY <1>1, AppendProperties
<1>3. DOMAIN s = 1..Len(s) /\ Len(s) \in Nat /\ DOMAIN Append(s, e) = 1..(Len(s) + 1)
  BY <1>1, <1>2, LenProperties
<1>4. Range(Append(s, e)) = S
  BY <1>2, <1>3 DEF Range
<1> QED
  BY <1>2, <1>4

\* What s makes of beat b: it goes on with the cycle it has open, or it is
\* outside of one.
Continues(b, s) ==
    /\ Fields \subseteq DOMAIN s
    /\ s.pc \in Open => beat[b].pc \in Open /\ s.id = beat[b].id

\* A step that only moves a beat so keeps the invariant.
LEMMA BeatStep ==
    ASSUME LedgerInv, NEW b \in Beats, NEW s, Continues(b, s),
           beat' = [beat EXCEPT ![b] = s], UNCHANGED <<traces, closures, disk>>
    PROVE  LedgerInv'
<1>1. Shaped'
  BY DEF LedgerInv, Shaped, Continues
<1>2. Owned'
  BY DEF LedgerInv, Shaped, Owned, Continues
<1> QED
  BY <1>1, <1>2 DEF LedgerInv, Sound

\* So does the same step with a failed call.
LEMMA BeatMoves ==
    ASSUME LedgerInv, NEW b \in Beats, NEW s, Continues(b, s),
           GoTo(b, s) \/ FailTo(b, s), UNCHANGED <<traces, closures, disk>>
    PROVE  LedgerInv'
<1>1. CASE GoTo(b, s)
  BY <1>1, BeatStep DEF GoTo
<1>2. CASE FailTo(b, s)
  <2>1. Continues(b, [s EXCEPT !.failed = TRUE])
    BY DEF Continues, Fields
  <2> QED
    BY <1>2, <2>1, BeatStep DEF FailTo
<1> QED
  BY <1>1, <1>2
-----------------------------------------------------------------------------
LEMMA LedgerInvInit == Init => LedgerInv
<1> SUFFICES ASSUME Init PROVE LedgerInv
  OBVIOUS
<1>1. traces = <<>> /\ disk.traces = <<>> /\ closures = {} /\ disk.closures = {}
  BY DEF Init, Image
<1>2. Range(traces) = {} /\ <<>> \in Seq(Range(traces))
  BY <1>1 DEF Range
<1> QED
  BY <1>1, <1>2 DEF Init, LedgerInv, Shaped, Owned, Sound, Idle, Fields, Open

\* Only an untraced id becomes a beat's own.
LEMMA TraceKeeps == ASSUME LedgerInv, NEW b \in Beats, WriteTrace(b) PROVE LedgerInv'
<1> DEFINE id   == beat[b].id
           s    == [beat[b] EXCEPT !.pc = "perceive"]
           lost == [beat[b] EXCEPT !.pc = "flush", !.reason = "state_unreadable", !.degraded = TRUE]
<1>0. Fields \subseteq DOMAIN beat[b] /\ DOMAIN beat = Beats
  BY DEF LedgerInv, Shaped
<1>1. CASE UNCHANGED traces /\ (GoTo(b, lost) \/ FailTo(b, lost))
  <2>1. Continues(b, lost)
    BY <1>0 DEF Continues, Open, Fields
  <2> QED
    BY <1>1, <2>1, BeatMoves DEF WriteTrace
<1>2. CASE ~TraceTaken(id) /\ traces' = Append(traces, id) /\ GoTo(b, s)
  <2>1. id \notin Range(traces)
    BY <1>2 DEF TraceTaken, Contains, Range
  <2>2. Range(traces') = Range(traces) \cup {id} /\ traces' \in Seq(Range(traces'))
    BY <1>2, RangeOfAppend DEF LedgerInv, Shaped
  <2>3. beat' = [beat EXCEPT ![b] = s] /\ UNCHANGED <<closures, disk>>
    BY <1>2 DEF GoTo, WriteTrace
  <2>4. s.id = id /\ Fields \subseteq DOMAIN s
    BY <1>0 DEF Fields
  <2> HIDE DEF s
  <2>5. Shaped'
    BY <2>2, <2>3, <2>4, <1>0 DEF LedgerInv, Shaped
  <2>6. Owned'
    BY <2>1, <2>2, <2>3, <2>4, <1>0 DEF LedgerInv, Owned, Sound
  <2> QED
    BY <2>2, <2>3, <2>5, <2>6 DEF LedgerInv, Sound
<1> QED
  BY <1>1, <1>2 DEF WriteTrace

\* The closure a beat writes is the first of its own cycle.
LEMMA ClosureKeeps ==
    ASSUME LedgerInv, NEW b \in Beats, WriteClosure(b)
    PROVE  /\ LedgerInv'
           /\ closures' # closures => closures' = closures \cup {ClosureOf(beat[b])}
<1> DEFINE s == [beat[b] EXCEPT !.pc = "rhythm"]
           r == ClosureOf(beat[b])
<1>0. Fields \subseteq DOMAIN beat[b] /\ DOMAIN beat = Beats
  BY DEF LedgerInv, Shaped
<1>1. Continues(b, s) /\ UNCHANGED <<traces, disk>>
  BY <1>0 DEF Continues, Open, WriteClosure
<1>2. CASE UNCHANGED closures /\ (GoTo(b, s) \/ FailTo(b, s))
  BY <1>1, <1>2, BeatMoves
<1>3. CASE closures' = closures \cup {r} /\ GoTo(b, s)
  <2>1. beat[b].pc \in Open /\ r.cycle = beat[b].id
    BY DEF WriteClosure, Open, ClosureOf
  <2>2. beat' = [beat EXCEPT ![b] = s] /\ s.pc \notin Open /\ Fields \subseteq DOMAIN s
    BY <1>0, <1>3 DEF GoTo, Open, Fields
  <2> HIDE DEF s, r
  <2>3. Shaped'
    BY <1>0, <1>1, <2>2 DEF LedgerInv, Shaped
  <2>4. Owned'
    BY <1>0, <1>1, <1>3, <2>1, <2>2 DEF LedgerInv, Owned
  <2>5. Sound(Range(traces'), closures')
    BY <1>1, <1>3, <2>1 DEF LedgerInv, Owned, Sound
  <2>6. LedgerInv'
    BY <1>1, <2>3, <2>4, <2>5 DEF LedgerInv
  <2>7. closures' = closures \cup {ClosureOf(beat[b])}
    BY <1>3 DEF r
  <2> QED
    BY <2>6, <2>7
<1> QED
  BY <1>2, <1>3 DEF WriteClosure

\* Every other step of a beat moves that beat only.
LEMMA OtherKeeps ==
    ASSUME LedgerInv, NEW b \in Beats,
           \/ NextSequence(b) \/ ReadPending(b) \/ WriteCard(b) \/ MarkPerceived(b) \/ Judge(b)
           \/ Choose(b) \/ Propose(b) \/ AdvanceRhythm(b)
    PROVE  LedgerInv' /\ UNCHANGED <<traces, closures, disk>>
<1>0. Fields \subseteq DOMAIN beat[b]
  BY DEF LedgerInv, Shaped
<1>1. UNCHANGED <<traces, closures, disk>>
  BY DEF NextSequence, ReadPending, WriteCard, MarkPerceived, Judge, Choose, Propose,
         AdvanceRhythm, tables
<1> SUFFICES \E s : Continues(b, s) /\ (GoTo(b, s) \/ FailTo(b, s))
  BY <1>1, BeatMoves
<1>2. CASE NextSequence(b)
  <2>1. Continues(b, [beat[b] EXCEPT !.pc = "trace", !.id.seq = LastSequence + 1]) /\ Continues(b, [beat[b] EXCEPT !.pc = "trace", !.id.seq = 1])
    BY <1>0, <1>2 DEF NextSequence, Continues, Open, Fields
  <2> QED
    BY <1>2, <2>1 DEF NextSequence
<1>3. CASE ReadPending(b)
  <2>1. Continues(b, [beat[b] EXCEPT !.pc = "card", !.todo = PendingBatch]) /\ Continues(b, NoAction(beat[b], "evidence_batch_empty", FALSE)) /\ Continues(b, PerceptionFailed(beat[b]))
    BY <1>0, <1>3 DEF ReadPending, Continues, Open, Fields, NoAction, PerceptionFailed
  <2> QED
    BY <1>3, <2>1 DEF ReadPending
<1>4. CASE WriteCard(b)
  <2>1. Continues(b, [beat[b] EXCEPT !.pc = "mark"]) /\ Continues(b, PerceptionFailed(beat[b]))
    BY <1>0, <1>4 DEF WriteCard, Continues, Open, Fields, NoAction, PerceptionFailed
  <2> QED
    BY <1>4, <2>1 DEF WriteCard
<1>5. CASE MarkPerceived(b)
  <2> DEFINE seen == Append(beat[b].seen, Head(beat[b].todo))
             next == IF Tail(beat[b].todo) = <<>>
                     THEN [beat[b] EXCEPT !.pc = "judge", !.todo = seen, !.seen = <<>>]
                     ELSE [beat[b] EXCEPT !.pc = "card", !.todo = Tail(beat[b].todo), !.seen = seen]
  <2>1. Continues(b, next)
    BY <1>0, <1>5 DEF MarkPerceived, Continues, Open, Fields
  <2> QED
    BY <1>5, <2>1 DEF MarkPerceived
<1>6. CASE Judge(b)
  <2> DEFINE judged(act) == [beat[b] EXCEPT !.todo = Tail(beat[b].todo), !.act = act]
             unjudged == [beat[b] EXCEPT !.todo = Tail(beat[b].todo), !.degraded = TRUE]
  <2>1. Continues(b, unjudged) /\ \A act : Continues(b, judged(act))
    BY <1>0, <1>6 DEF Judge, Continues, Open, Fields
  <2> QED
    BY <1>6, <2>1 DEF Judge
<1>7. CASE Choose(b)
  <2>1. Continues(b, [beat[b] EXCEPT !.pc = "propose", !.degraded = FALSE]) /\ Continues(b, NoAction(beat[b], "proposal_no_action", FALSE))
    BY <1>0, <1>7 DEF Choose, Continues, Open, Fields, NoAction
  <2> QED
    BY <1>7, <2>1 DEF Choose
<1>8. CASE Propose(b)
  <2>1. Continues(b, [beat[b] EXCEPT !.pc = "close", !.reason = "policy_denied_high_risk"]) /\ Continues(b, NoAction(beat[b], "state_unreadable", TRUE))
    BY <1>0, <1>8 DEF Propose, Continues, Open, Fields, NoAction
  <2> QED
    BY <1>8, <2>1 DEF Propose
<1>9. CASE AdvanceRhythm(b)
  <2>1. Continues(b, [beat[b] EXCEPT !.pc = "flush"])
    BY <1>0, <1>9 DEF AdvanceRhythm, Continues, Open, Fields
  <2> QED
    BY <1>9, <2>1 DEF AdvanceRhythm
<1> QED
  BY <1>2, <1>3, <1>4, <1>5, <1>6, <1>7, <1>8, <1>9

LEMMA BeginKeeps == ASSUME LedgerInv, NEW b \in Beats, Begin(b) PROVE LedgerInv'
<1>1. Continues(b, [Idle EXCEPT !.pc = "sequence", !.id.at = clock'])
  BY DEF Continues, Open, Fields, Idle
<1> QED
  BY <1>1, BeatMoves DEF Begin, tables

\* The image takes over a sound ledger; the beat is outside of any cycle.
LEMMA FlushKeeps ==
    ASSUME LedgerInv, NEW b \in Beats, Flush(b)
    PROVE  /\ LedgerInv' /\ UNCHANGED <<traces, closures>>
           /\ (disk'.traces = traces /\ disk'.closures = closures) \/ disk' = disk
<1>1. Continues(b, Idle)
  BY DEF Continues, Open, Fields, Idle
<1>2. UNCHANGED <<traces, closures>>
  BY DEF Flush, tables
<1>3. CASE UNCHANGED disk /\ FailTo(b, Idle)
  BY <1>1, <1>2, <1>3, BeatMoves
<1>4. CASE disk' = Image /\ GoTo(b, Idle)
  <2>1. disk'.traces = traces /\ disk'.closures = closures
    BY <1>4 DEF Image
  <2>2. beat' = [beat EXCEPT ![b] = Idle] /\ Idle.pc \notin Open /\ Fields \subseteq DOMAIN Idle
    BY <1>4, <1>1 DEF GoTo, Continues, Open, Idle
  <2>3. Shaped' /\ Owned'
    BY <1>2, <2>1, <2>2 DEF LedgerInv, Shaped, Owned
  <2> QED
    BY <1>2, <2>1, <2>3 DEF LedgerInv, Sound
<1> QED
  BY <1>3, <1>4 DEF Flush

\* After a crash no cycle is open, and the ledger is the sound one of the file.
LEMMA CrashKeeps == LedgerInv /\ Crash => LedgerInv'
<1> SUFFICES ASSUME LedgerInv, Crash PROVE LedgerInv'
  OBVIOUS
<1>1. /\ traces' = disk.traces /\ closures' = disk.closures /\ disk' = disk
      /\ beat' = [b \in Beats |-> Idle]
  BY DEF Crash
<1>2. Idle.pc \notin Open /\ Fields \subseteq DOMAIN Idle
  BY DEF Idle, Open, Fields
<1>3. Shaped' /\ Owned'
  BY <1>1, <1>2 DEF LedgerInv, Shaped, Owned
<1> QED
  BY <1>1, <1>3 DEF LedgerInv, Sound

LEMMA LedgerInvStep == LedgerInv /\ [Next]_vars => LedgerInv'
<1> SUFFICES ASSUME LedgerInv, [Next]_vars PROVE LedgerInv'
  OBVIOUS
<1>1. ASSUME NEW e \in Evidence, Ingest(e) PROVE LedgerInv'
  BY <1>1 DEF Ingest, LedgerInv, Shaped, Owned, Sound
<1>2. CASE UNCHANGED vars
  BY <1>2 DEF vars, LedgerInv, Shaped, Owned, Sound
<1> QED
  BY <1>1, <1>2, BeginKeeps, TraceKeeps, ClosureKeeps, OtherKeeps, FlushKeeps, CrashKeeps
  DEF Next, Step
-----------------------------------------------------------------------------
\* A heartbeat's ledger begins empty.
LEMMA LedgerStarts == Init => Ledger!LedgerInit
<1>1. Init => /\ traces = <<>> /\ closures = {}
              /\ disk.traces = <<>> /\ disk.closures = {}
  BY DEF Init, Image
<1>2. Range(<<>>) = {}
  BY DEF Range
<1> QED
  BY <1>1, <1>2 DEF Ledger!LedgerInit

\* Every step of the heartbeat begins a cycle, closes one, keeps the ledger,
\* loses what was not kept, or leaves it alone.
LEMMA LedgerSteps == LedgerInv /\ [Next]_vars => [Ledger!LedgerNext]_(Ledger!ledger)
<1> DEFINE disked == [begun |-> Range(disk.traces), closures |-> disk.closures]
<1> SUFFICES ASSUME LedgerInv, [Next]_vars PROVE [Ledger!LedgerNext]_(Ledger!ledger)
  OBVIOUS
<1>1. CASE UNCHANGED <<traces, closures, disk>>
  BY <1>1 DEF Ledger!ledger, Range
<1>2. ASSUME NEW b \in Beats, WriteTrace(b) PROVE [Ledger!LedgerNext]_(Ledger!ledger)
  <2>1. CASE traces' = Append(traces, beat[b].id) /\ ~TraceTaken(beat[b].id)
    <3>1. Range(traces)' = Range(traces) \cup {beat[b].id}
      BY <2>1, RangeOfAppend DEF LedgerInv, Shaped
    <3>2. beat[b].id \notin Range(traces)
      BY <2>1 DEF TraceTaken, Contains, Range
    <3>3. closures' = closures /\ disked' = disked
      BY <1>2 DEF WriteTrace
    <3> QED
      BY <3>1, <3>2, <3>3 DEF Ledger!LedgerNext, Ledger!BeginCycle
  <2> QED
    BY <1>1, <1>2, <2>1 DEF WriteTrace
<1>3. ASSUME NEW b \in Beats, WriteClosure(b) PROVE [Ledger!LedgerNext]_(Ledger!ledger)
  <2> DEFINE r == ClosureOf(beat[b])
  <2>1. traces' = traces /\ disk' = disk
    BY <1>3 DEF WriteClosure
  <2>2. CASE closures' = closures \cup {r} /\ r \notin closures
    <3>1. beat[b].pc \in Open /\ r.cycle = beat[b].id
      BY <1>3 DEF WriteClosure, Open, ClosureOf
    <3>2. Ledger!Unclosed(r.cycle)
      BY <3>1 DEF LedgerInv, Owned, Ledger!Unclosed
    <3> HIDE DEF r
    <3> QED
      BY <2>1, <2>2, <3>2 DEF Ledger!LedgerNext, Ledger!CloseCycle, Range
  <2>3. CASE closures' = closures
    BY <1>1, <2>1, <2>3
  <2> QED
    BY <1>3, <2>2, <2>3, ClosureKeeps
<1>4. ASSUME NEW b \in Beats, Flush(b) PROVE [Ledger!LedgerNext]_(Ledger!ledger)
  <2>1. UNCHANGED <<traces, closures>>
    BY <1>4, FlushKeeps
  <2>2. CASE disk'.traces = traces /\ disk'.closures = closures
    BY <2>1, <2>2 DEF Ledger!LedgerNext, Ledger!KeepLedger, Range
  <2> QED
    BY <1>1, <1>4, <2>1, <2>2, FlushKeeps
<1>5. CASE Crash
  BY <1>5 DEF Crash, Ledger!LedgerNext, Ledger!LoseLedger, Range
<1>6. ASSUME NEW e \in Evidence, Ingest(e) PROVE UNCHANGED <<traces, closures, disk>>
  BY <1>6 DEF Ingest
<1>7. ASSUME NEW b \in Beats, Begin(b) PROVE UNCHANGED <<traces, closures, disk>>
  BY <1>7 DEF Begin, tables
<1>8. CASE UNCHANGED vars
  BY <1>1, <1>8 DEF vars
<1> QED
  BY <1>1, <1>2, <1>3, <1>4, <1>5, <1>6, <1>7, <1>8, OtherKeeps DEF Next, Step

\* The invariant the two theorems rest on.
LEMMA Inductive == Spec => []LedgerInv
<1> QED
  BY LedgerInvInit, LedgerInvStep, PTL DEF Spec

\* A cycle has at most one closure, however many heartbeats overlap and fail
\* (recordNoActionClosure, recordActionClosure).
THEOREM ClosedOnce == Spec => []AtMostOneClosure
<1>1. LedgerInv => AtMostOneClosure
  BY DEF LedgerInv, Sound, AtMostOneClosure
<1> QED
  BY <1>1, Inductive, PTL

\* The heartbeat implements CycleLedger: every cycle is begun once and closed
\* at most once, after it began, and a restart goes back to the ledger of the
\* last flush (runHeartbeatCycle).
THEOREM HeartbeatImplementsLedger == Spec => LedgerRefined
<1>1. Init => Ledger!LedgerInit
  BY LedgerStarts
<1>2. LedgerInv /\ [Next]_vars => [Ledger!LedgerNext]_(Ledger!ledger)
  BY LedgerSteps
<1> QED
  BY <1>1, <1>2, Inductive, PTL DEF Spec, LedgerRefined, Ledger!LedgerSpec

-----------------------------------------------------------------------------
\* f is what PendingOf is to be of the sequence a and the set p, up to n.
IsPendingOf(f, a, p, n) ==
    f = [i \in 0..n |-> IF i = 0 THEN <<>>
                        ELSE IF a[i] \in p THEN f[i - 1] ELSE <<a[i]>> \o f[i - 1]]

\* There is such a function: the least n without one would have one.
LEMMA PendingExists ==
    ASSUME NEW a, NEW p, NEW n \in Nat
    PROVE  \E f : IsPendingOf(f, a, p, n)
<1> DEFINE T == {m \in Nat : ~\E f : IsPendingOf(f, a, p, m)}
<1> SUFFICES ASSUME T # {} PROVE FALSE
  OBVIOUS
<1>1. PICK m \in T : \A k \in T : m <= k
  <2> HIDE DEF T
  <2>1. T \subseteq Nat
    BY DEF T
  <2> QED
    BY <2>1, LeastNat
<1>2. CASE m = 0
  <2>1. IsPendingOf([i \in 0..0 |-> <<>>], a, p, 0)
    BY DEF IsPendingOf
  <2> QED
    BY <1>1, <1>2, <2>1
<1>3. CASE m # 0
  <2>1. m - 1 \in Nat /\ m \in Nat
    BY <1>1, <1>3
  <2>2. PICK f : IsPendingOf(f, a, p, m - 1)
    BY <1>1, <2>1
  <2> DEFINE g == [i \in 0..m |-> IF i < m THEN f[i]
                                  ELSE IF a[m] \in p THEN f[m - 1] ELSE <<a[m]>> \o f[m - 1]]
  <2> DEFINE h == [i \in 0..m |-> IF i = 0 THEN <<>>
                                  ELSE IF a[i] \in p THEN g[i - 1] ELSE <<a[i]>> \o g[i - 1]]
  <2>3. ASSUME NEW i \in 0..m PROVE g[i] = h[i]
    <3>1. CASE i = 0
      BY <1>3, <2>1, <2>2, <3>1 DEF IsPendingOf
    <3>2. CASE i # 0 /\ i < m
      <4>1. i \in 0..(m - 1) /\ i - 1 \in 0..(m - 1) /\ i - 1 \in 0..m /\ i - 1 < m
        BY <2>1, <3>2
      <4>2. g[i] = f[i] /\ g[i - 1] = f[i - 1]
        BY <3>2, <4>1
      <4>3. f[i] = IF a[i] \in p THEN f[i - 1] ELSE <<a[i]>> \o f[i - 1]
        BY <2>2, <3>2, <4>1 DEF IsPendingOf
      <4> QED
        BY <3>2, <4>2, <4>3
    <3>3. CASE i = m
      <4>1. m - 1 \in 0..m /\ m - 1 < m /\ ~(m < m)
        BY <2>1
      <4> QED
        BY <1>3, <3>3, <4>1
    <3> QED
      BY <2>1, <3>1, <3>2, <3>3
  <2>4. IsPendingOf(g, a, p, m)
    <3>1. g = h
      BY <2>3
    <3> HIDE DEF g
    <3> QED
      BY <3>1 DEF IsPendingOf
  <2> QED
    BY <1>1, <2>4
<1> QED
  BY <1>2, <1>3

LEMMA PendingDef ==
    ASSUME Len(arrived) \in Nat
    PROVE  IsPendingOf(PendingOf, arrived, perceived, Len(arrived))
<1>1. \E f : IsPendingOf(f, arrived, perceived, Len(arrived))
  BY PendingExists
<1> QED
  BY <1>1 DEF IsPendingOf, PendingOf

\* The items PendingOf returns have arrived and are not perceived, and each
\* is there once if it arrived once.
OfPending(s, n) ==
    /\ s \in Seq(Evidence)
    /\ \A k \in 1..Len(s) : \E i \in 1..n : s[k] = arrived[i] /\ arrived[i] \notin perceived
    /\ IsInjective(arrived) => IsInjective(s)

LEMMA PendingOfPending ==
    ASSUME arrived \in Seq(Evidence), NEW n \in 0..Len(arrived)
    PROVE  OfPending(PendingOf[n], n)
<1> DEFINE T == {m \in 0..Len(arrived) : ~OfPending(PendingOf[m], m)}
<1>0. Len(arrived) \in Nat /\ DOMAIN arrived = 1..Len(arrived) /\ arrived \in [1..Len(arrived) -> Evidence]
  BY LenProperties
<1>1. \A m \in 0..Len(arrived) :
         PendingOf[m] = IF m = 0 THEN <<>>
                        ELSE IF arrived[m] \in perceived THEN PendingOf[m - 1]
                        ELSE <<arrived[m]>> \o PendingOf[m - 1]
  BY <1>0, PendingDef DEF IsPendingOf
<1> SUFFICES ASSUME T # {} PROVE FALSE
  OBVIOUS
<1>2. PICK m \in T : \A k \in T : m <= k
  <2> HIDE DEF T
  <2>1. T \subseteq Nat
    BY <1>0 DEF T
  <2> QED
    BY <2>1, LeastNat
<1>3. m \in 0..Len(arrived) /\ ~OfPending(PendingOf[m], m)
  BY <1>2
<1>4. CASE m = 0
  <2>1. PendingOf[m] = <<>>
    BY <1>1, <1>3, <1>4
  <2>2. OfPending(<<>>, m)
    BY DEF OfPending, IsInjective
  <2> QED
    BY <1>3, <2>1, <2>2
<1>5. CASE m # 0
  <2> DEFINE s == PendingOf[m - 1]
             e == arrived[m]
  <2>1. /\ m - 1 \in 0..Len(arrived) /\ m \in 1..Len(arrived) /\ m - 1 \notin T
        /\ m \in Nat /\ m - 1 \in Nat
    BY <1>0, <1>2, <1>3, <1>5
  <2>2. OfPending(s, m - 1)
    BY <2>1
  <2> HIDE DEF s, T
  <2>3. OfPending(s, m)
    BY <2>1, <2>2 DEF OfPending
  <2>4. CASE e \in perceived
    BY <1>1, <1>3, <1>5, <2>3, <2>4 DEF s
  <2>5. CASE e \notin perceived
    <3> DEFINE t == <<e>> \o s
    <3>1. s \in Seq(Evidence) /\ e \in Evidence /\ <<e>> \in Seq(Evidence) /\ Len(<<e>>) = 1 /\ <<e>>[1] = e
      BY <1>0, <2>1, <2>2 DEF OfPending
    <3>2. /\ t \in Seq(Evidence) /\ Len(t) = 1 + Len(s) /\ Len(s) \in Nat
          /\ \A k \in 1..(1 + Len(s)) : t[k] = IF k <= 1 THEN <<e>>[k] ELSE s[k - 1]
      BY <3>1, ConcatProperties, LenProperties
    <3>3. DOMAIN t = 1..Len(t) /\ DOMAIN s = 1..Len(s)
      BY <3>1, <3>2, LenProperties
    <3> HIDE DEF t, e
    <3>4. ASSUME NEW k \in 1..Len(t)
          PROVE  \/ k = 1 /\ t[k] = e
                 \/ k # 1 /\ k - 1 \in 1..Len(s) /\ t[k] = s[k - 1]
      BY <3>1, <3>2
    <3>5. ASSUME NEW k \in 1..Len(t)
          PROVE  \E i \in 1..m : t[k] = arrived[i] /\ arrived[i] \notin perceived
      <4>1. CASE k = 1
        BY <2>1, <2>5, <3>4, <4>1 DEF e
      <4>2. CASE k # 1
        BY <2>3, <3>4, <4>2 DEF OfPending
      <4> QED
        BY <4>1, <4>2
    <3>6. ASSUME IsInjective(arrived) PROVE IsInjective(t)
      <4>1. ASSUME NEW k \in 1..Len(s) PROVE s[k] # e
        <5>1. PICK i \in 1..(m - 1) : s[k] = arrived[i]
          BY <2>2 DEF OfPending
        <5>2. i \in DOMAIN arrived /\ m \in DOMAIN arrived /\ i # m
          BY <1>0, <2>1, <5>1
        <5> QED
          BY <3>6, <5>1, <5>2 DEF IsInjective, e
      <4>2. IsInjective(s)
        BY <2>2, <3>6 DEF OfPending
      <4>3. ASSUME NEW j \in 1..Len(t), NEW k \in 1..Len(t), t[j] = t[k] PROVE j = k
        <5>1. CASE j = 1 /\ k # 1
          BY <3>4, <4>1, <4>3, <5>1
        <5>2. CASE j # 1 /\ k = 1
          BY <3>4, <4>1, <4>3, <5>2
        <5>3. CASE j # 1 /\ k # 1
          <6>1. j - 1 \in DOMAIN s /\ k - 1 \in DOMAIN s /\ s[j - 1] = s[k - 1]
            BY <3>3, <3>4, <4>3, <5>3
          <6>2. j - 1 = k - 1
            BY <4>2, <6>1 DEF IsInjective
          <6> QED
            BY <3>2, <6>2
        <5> QED
          BY <5>1, <5>2, <5>3
      <4> QED
        BY <3>3, <4>3 DEF IsInjective
    <3>7. OfPending(t, m)
      BY <3>2, <3>5, <3>6 DEF OfPending
    <3> QED
      BY <1>1, <1>3, <1>5, <2>5, <3>7 DEF s, t, e
  <2> QED
    BY <2>4, <2>5
<1> QED
  BY <1>4, <1>5

\* So are those of the batch, a prefix of them.
LEMMA BatchPending ==
    ASSUME arrived \in Seq(Evidence)
    PROVE  OfPending(PendingBatch, Len(arrived))
<1> DEFINE s == PendingOf[Len(arrived)]
           k == IF Len(s) < MaxEvidence THEN Len(s) ELSE MaxEvidence
<1>0. Len(arrived) \in Nat /\ MaxEvidence \in Nat
  BY LenProperties, HeartbeatAssumption
<1>1. OfPending(s, Len(arrived))
  BY <1>0, PendingOfPending
<1>2. s \in Seq(Evidence) /\ Len(s) \in Nat /\ DOMAIN s = 1..Len(s) /\ s \in [1..Len(s) -> Evidence]
  BY <1>1, LenProperties DEF OfPending
<1> HIDE DEF s
<1>3. k \in Nat /\ k <= Len(s)
  BY <1>0, <1>2
<1>4. PendingBatch = SubSeq(s, 1, k)
  BY DEF PendingBatch, s
<1> HIDE DEF k
<1>5. /\ PendingBatch \in Seq(Evidence)
      /\ Len(PendingBatch) = k
      /\ \A i \in 1..k : PendingBatch[i] = s[i]
  <2>1. \A i \in 1..k : s[i] \in Evidence
    BY <1>2, <1>3
  <2>2. /\ SubSeq(s, 1, k) \in Seq(Evidence)
        /\ Len(SubSeq(s, 1, k)) = IF 1 <= k THEN k - 1 + 1 ELSE 0
        /\ \A i \in 1..(k - 1 + 1) : SubSeq(s, 1, k)[i] = s[1 + i - 1]
    BY <1>3, <2>1, SubSeqProperties
  <2> QED
    BY <1>3, <1>4, <2>2
<1>6. DOMAIN PendingBatch = 1..k
  BY <1>5, LenProperties
<1>7. \A i \in 1..k : i \in 1..Len(s)
  BY <1>2, <1>3
<1> QED
  BY <1>1, <1>2, <1>5, <1>6, <1>7 DEF OfPending, IsInjective

-----------------------------------------------------------------------------
\* The next cycle's number is above those of all traces.
LEMMA LastSequenceIsMax ==
    ASSUME traces \in Seq(CycleId)
    PROVE  LastSequence \in Nat /\ \A i \in 1..Len(traces) : traces[i].seq <= LastSequence
<1> DEFINE S == {0} \cup {t.seq : t \in Range(traces)}
           q == [i \in 1..Len(traces) |-> traces[i].seq]
<1>0. Len(traces) \in Nat /\ DOMAIN traces = 1..Len(traces) /\ traces \in [1..Len(traces) -> CycleId]
  BY LenProperties
<1>1. \A i \in 1..Len(traces) : traces[i].seq \in Nat
  BY <1>0 DEF CycleId
<1>2. S \subseteq Nat /\ \A i \in 1..Len(traces) : traces[i].seq \in S
  BY <1>0, <1>1 DEF Range
<1>3. PICK top \in Nat : \A i \in 1..Len(traces) : traces[i].seq <= top
  <2>1. q \in [1..Len(traces) -> Nat]
    BY <1>1
  <2>2. \E u \in Nat : \A i \in 1..Len(traces) : q[i] <= u
    BY <1>0, <2>1, BoundedAbove
  <2> QED
    BY <2>2
<1> DEFINE U == {u \in Nat : \A x \in S : x <= u}
<1>4. U # {}
  <2>1. \A x \in S : x <= top
    BY <1>0, <1>3 DEF Range
  <2> QED
    BY <2>1
<1>5. PICK u \in U : \A v \in U : u <= v
  <2>1. U \subseteq Nat
    OBVIOUS
  <2> HIDE DEF U
  <2> QED
    BY <1>4, <2>1, LeastNat
<1> HIDE DEF S
<1>6. u \in S
  <2> SUFFICES ASSUME u \notin S PROVE FALSE
    OBVIOUS
  <2>1. \A x \in S : x < u
    BY <1>2, <1>5
  <2>2. 0 \in S
    BY DEF S
  <2>3. u - 1 \in Nat /\ \A x \in S : x <= u - 1
    BY <1>2, <1>5, <2>1, <2>2
  <2> QED
    BY <1>5, <2>3
<1>7. \E m \in S : \A y \in S : m >= y
  BY <1>2, <1>5, <1>6
<1>8. LastSequence \in S /\ \A y \in S : LastSequence >= y
  BY <1>7 DEF LastSequence, Max, S
<1> QED
  BY <1>2, <1>8

-----------------------------------------------------------------------------
\* A beat in state s that works on an item has one, and a reason to close for
\* when it closes.
Ready(s) ==
    /\ s.pc \in {"card", "mark"} => s.todo # <<>>
    /\ s.pc = "close" => s.reason \in Reasons

TypeInv == TypeOK /\ \A b \in Beats : Ready(beat[b])

\* A beat moves to a state of the right kind.
LEMMA BeatTyped ==
    ASSUME TypeInv, NEW b \in Beats, NEW s \in BeatStates, GoTo(b, s) \/ FailTo(b, s),
           Ready(s)
    PROVE  beat' \in [Beats -> BeatStates] /\ (\A c \in Beats : Ready(beat[c]))' /\ failures' \in Nat
<1>1. failures' \in Nat
  BY DEF GoTo, FailTo, TypeInv, TypeOK
<1> DEFINE f == [s EXCEPT !.failed = TRUE]
<1>2. f \in BeatStates /\ f.pc = s.pc /\ f.todo = s.todo /\ f.reason = s.reason
  BY DEF BeatStates
<1>3. PICK t \in BeatStates :
          beat' = [beat EXCEPT ![b] = t] /\ t.pc = s.pc /\ t.todo = s.todo /\ t.reason = s.reason
  BY <1>2 DEF GoTo, FailTo
<1> QED
  BY <1>1, <1>3 DEF TypeInv, TypeOK, Ready

-----------------------------------------------------------------------------
VerdictRows == [item : Evidence, cycle : CycleId, kind : {"watch", "notify_owner"}]
ClosureRows == [cycle : CycleId, status : {"no_action", "denied"}, reason : Reasons]
EventRows ==
    [cycle : CycleId, stage : Stages, status : {"started", "completed", "skipped", "failed"}]

\* The types of the tables in memory, one by one.
TablesTyped ==
    /\ arrived \in Seq(Evidence) /\ perceived \in SUBSET Evidence
    /\ cards \in [Evidence -> CycleId] /\ verdicts \in SUBSET VerdictRows
    /\ traces \in Seq(CycleId) /\ closures \in SUBSET ClosureRows
    /\ events \in SUBSET EventRows

LEMMA ImageTyped == Image \in Images <=> TablesTyped
  BY DEF Image, Images, TablesTyped, VerdictRows, ClosureRows, EventRows

LEMMA TypeSplit == TypeOK => /\ TablesTyped /\ disk \in Images /\ beat \in [Beats -> BeatStates]
                             /\ {clock, begun, failures, crashes} \subseteq Nat
  BY ImageTyped DEF TypeOK

LEMMA TypeJoin ==
    ASSUME TablesTyped', disk' \in Images, beat' \in [Beats -> BeatStates], (\A b \in Beats : Ready(beat[b]))',
           {clock', begun', failures', crashes'} \subseteq Nat
    PROVE  TypeInv'
<1>1. Image' \in Images
  BY DEF Image, Images, TablesTyped, VerdictRows, ClosureRows, EventRows
<1> QED
  BY <1>1 DEF TypeInv, TypeOK

\* A beat's step keeps the types when what it stores is typed.
LEMMA StepTyped ==
    ASSUME TypeInv, NEW b \in Beats, NEW s \in BeatStates, GoTo(b, s) \/ FailTo(b, s),
           Ready(s), TablesTyped', disk' \in Images,
           {clock', begun', crashes'} \subseteq Nat
    PROVE  TypeInv'
  BY BeatTyped, TypeJoin

LEMMA NoActionTyped ==
    ASSUME NEW s \in BeatStates, NEW why \in Reasons, NEW d \in BOOLEAN
    PROVE  NoAction(s, why, d) \in BeatStates /\ Ready(NoAction(s, why, d))
  BY DEF NoAction, BeatStates, PCs, Ready

LEMMA EventTyped ==
    ASSUME NEW log \in SUBSET EventRows, NEW id \in CycleId, NEW stage \in Stages,
           NEW status \in {"started", "completed", "skipped", "failed"}
    PROVE  Logged(log, id, stage, status) \in SUBSET EventRows
  BY DEF Logged, EventRows

LEMMA TypesBegin == Init => TypeInv
<1> SUFFICES ASSUME Init PROVE TypeInv
  OBVIOUS
<1>1. <<>> \in Seq(Evidence) /\ <<>> \in Seq(CycleId)
  BY EmptySeq
<1>2. NoCycle \in CycleId
  BY DEF NoCycle, CycleId
<1>3. TablesTyped
  BY <1>1, <1>2 DEF Init, TablesTyped
<1>4. Idle \in BeatStates
  BY <1>1, <1>2 DEF Idle, BeatStates, PCs
<1>5. Image \in Images /\ disk = Image
  BY <1>3, ImageTyped DEF Init
<1>6. \A b \in Beats : Ready(beat[b])
  BY DEF Init, Ready, Idle
<1> QED
  BY <1>4, <1>5, <1>6 DEF Init, TypeInv, TypeOK

LEMMA IngestTyped == ASSUME TypeInv, NEW e \in Evidence, Ingest(e) PROVE TypeInv'
<1>1. arrived' \in Seq(Evidence)
  BY TypeSplit, AppendProperties DEF Ingest, TypeInv, TablesTyped
<1>2. TablesTyped' /\ (\A b \in Beats : Ready(beat[b]))' /\ beat' \in [Beats -> BeatStates] /\ disk' \in Images
  BY <1>1, TypeSplit DEF Ingest, TypeInv, TablesTyped
<1> QED
  BY <1>2, TypeSplit, TypeJoin DEF Ingest, TypeInv

LEMMA BeginTyped == ASSUME TypeInv, NEW b \in Beats, Begin(b) PROVE TypeInv'
<1> DEFINE s == [Idle EXCEPT !.pc = "sequence", !.id.at = clock']
<1>1. clock' \in Nat /\ begun' \in Nat /\ crashes' \in Nat
  BY TypeSplit DEF Begin, TypeInv
<1>2. s \in BeatStates /\ s.pc = "sequence"
  <2>1. <<>> \in Seq(Evidence)
    BY EmptySeq
  <2> QED
    BY <1>1, <2>1 DEF Idle, NoCycle, CycleId, BeatStates, PCs
<1>3. TablesTyped' /\ disk' \in Images
  BY TypeSplit DEF Begin, tables, TypeInv, TablesTyped
<1>4. GoTo(b, s)
  BY DEF Begin
<1> HIDE DEF s
<1> QED
  BY <1>1, <1>2, <1>3, <1>4, StepTyped DEF Ready

LEMMA SequenceTyped == ASSUME TypeInv, NEW b \in Beats, NextSequence(b) PROVE TypeInv'
<1> DEFINE s(n) == [beat[b] EXCEPT !.pc = "trace", !.id.seq = n]
<1>1. LastSequence + 1 \in Nat
  BY TypeSplit, LastSequenceIsMax DEF TypeInv, TablesTyped
<1>2. PICK n \in Nat : GoTo(b, s(n)) \/ FailTo(b, s(n))
  BY <1>1 DEF NextSequence
<1>3. s(n) \in BeatStates /\ s(n).pc = "trace"
  BY TypeSplit, ZenonT(40) DEF BeatStates, CycleId, PCs, TypeInv
<1>4. TablesTyped' /\ disk' \in Images /\ {clock', begun', crashes'} \subseteq Nat
  BY TypeSplit DEF NextSequence, tables, TypeInv, TablesTyped
<1> HIDE DEF s
<1> QED
  BY <1>2, <1>3, <1>4, StepTyped DEF Ready

LEMMA TraceTyped == ASSUME TypeInv, NEW b \in Beats, WriteTrace(b) PROVE TypeInv'
<1> DEFINE s == [beat[b] EXCEPT !.pc = "perceive"]
           lost == [beat[b] EXCEPT !.pc = "flush", !.reason = "state_unreadable", !.degraded = TRUE]
<1>1. beat[b] \in BeatStates /\ beat[b].id \in CycleId
  BY TypeSplit DEF TypeInv, BeatStates
<1>2. /\ s \in BeatStates /\ s.pc = "perceive"
      /\ lost \in BeatStates /\ lost.pc = "flush"
  BY <1>1 DEF BeatStates, PCs, Reasons
<1>3. GoTo(b, s) \/ FailTo(b, s) \/ GoTo(b, lost) \/ FailTo(b, lost)
  BY DEF WriteTrace
<1>4. traces' \in Seq(CycleId)
  BY <1>1, TypeSplit, AppendProperties, SMTT(30) DEF WriteTrace, TypeInv, TablesTyped
<1>5. events' \in SUBSET EventRows
  <2>1. events \in SUBSET EventRows
    BY TypeSplit DEF TypeInv, TablesTyped
  <2>2. Logged(events, beat[b].id, "ingestion", "started") \in SUBSET EventRows
    BY <1>1, <2>1, EventTyped DEF Stages
  <2> QED
    BY <2>1, <2>2 DEF WriteTrace
<1>6. TablesTyped' /\ disk' \in Images /\ {clock', begun', crashes'} \subseteq Nat
  BY <1>4, <1>5, TypeSplit DEF WriteTrace, TypeInv, TablesTyped
<1> HIDE DEF s, lost
<1> QED
  BY <1>2, <1>3, <1>6, StepTyped DEF Ready

LEMMA ReadTyped == ASSUME TypeInv, NEW b \in Beats, ReadPending(b) PROVE TypeInv'
<1> DEFINE s == [beat[b] EXCEPT !.pc = "card", !.todo = PendingBatch]
           none == NoAction(beat[b], "evidence_batch_empty", FALSE)
           lost == PerceptionFailed(beat[b])
<1>1. beat[b] \in BeatStates /\ beat[b].id \in CycleId
  BY TypeSplit DEF TypeInv, BeatStates
<1>2. PendingBatch \in Seq(Evidence)
  BY TypeSplit, BatchPending DEF TypeInv, TablesTyped, OfPending
<1>3. s \in BeatStates /\ s.pc = "card" /\ s.todo = PendingBatch
  BY <1>1, <1>2 DEF BeatStates, PCs
<1>4. none \in BeatStates /\ Ready(none) /\ lost \in BeatStates /\ Ready(lost)
  BY <1>1, NoActionTyped DEF PerceptionFailed, Reasons
<1>5. \/ GoTo(b, s) /\ PendingBatch # <<>>
      \/ GoTo(b, none) \/ FailTo(b, lost)
  BY DEF ReadPending
<1>6. events' \in SUBSET EventRows
  <2>1. events \in SUBSET EventRows
    BY TypeSplit DEF TypeInv, TablesTyped
  <2>2. /\ Logged(events, beat[b].id, "perception", "completed") \in SUBSET EventRows
        /\ Logged(events, beat[b].id, "perception", "failed") \in SUBSET EventRows
    BY <1>1, <2>1, EventTyped DEF Stages
  <2>3. Logged(Logged(events, beat[b].id, "perception", "completed"), beat[b].id, "judgment", "skipped")
            \in SUBSET EventRows
    BY <1>1, <2>2, EventTyped DEF Stages
  <2> QED
    BY <2>1, <2>2, <2>3 DEF ReadPending
<1>7. TablesTyped' /\ disk' \in Images /\ {clock', begun', crashes'} \subseteq Nat
  BY <1>6, TypeSplit DEF ReadPending, TypeInv, TablesTyped
<1> HIDE DEF s, none, lost
<1> QED
  BY <1>3, <1>4, <1>5, <1>7, StepTyped DEF Ready

LEMMA CardTyped == ASSUME TypeInv, NEW b \in Beats, WriteCard(b) PROVE TypeInv'
<1> DEFINE s == [beat[b] EXCEPT !.pc = "mark"]
           lost == PerceptionFailed(beat[b])
<1>1. beat[b] \in BeatStates /\ beat[b].id \in CycleId /\ beat[b].todo \in Seq(Evidence) /\ beat[b].todo # <<>>
  BY TypeSplit DEF TypeInv, BeatStates, Ready, WriteCard
<1>2. Head(beat[b].todo) \in Evidence
  BY <1>1, HeadTailProperties
<1>3. s \in BeatStates /\ s.pc = "mark" /\ s.todo # <<>>
  BY <1>1 DEF BeatStates, PCs
<1>4. lost \in BeatStates /\ Ready(lost)
  BY <1>1, NoActionTyped DEF PerceptionFailed, Reasons
<1>5. GoTo(b, s) \/ GoTo(b, lost) \/ FailTo(b, lost)
  BY DEF WriteCard
<1>6. events' \in SUBSET EventRows /\ cards' \in [Evidence -> CycleId]
  BY <1>1, <1>2, TypeSplit, EventTyped DEF WriteCard, TypeInv, TablesTyped, Stages
<1>7. TablesTyped' /\ disk' \in Images /\ {clock', begun', crashes'} \subseteq Nat
  BY <1>6, TypeSplit DEF WriteCard, TypeInv, TablesTyped
<1> HIDE DEF s, lost
<1> QED
  BY <1>3, <1>4, <1>5, <1>7, StepTyped DEF Ready

LEMMA MarkTyped == ASSUME TypeInv, NEW b \in Beats, MarkPerceived(b) PROVE TypeInv'
<1> DEFINE seen == Append(beat[b].seen, Head(beat[b].todo))
           next == IF Tail(beat[b].todo) = <<>>
                   THEN [beat[b] EXCEPT !.pc = "judge", !.todo = seen, !.seen = <<>>]
                   ELSE [beat[b] EXCEPT !.pc = "card", !.todo = Tail(beat[b].todo), !.seen = seen]
<1>1. /\ beat[b] \in BeatStates /\ beat[b].id \in CycleId /\ beat[b].todo \in Seq(Evidence)
      /\ beat[b].todo # <<>> /\ beat[b].seen \in Seq(Evidence)
  BY TypeSplit DEF TypeInv, BeatStates, Ready, MarkPerceived
<1>2. Head(beat[b].todo) \in Evidence /\ Tail(beat[b].todo) \in Seq(Evidence)
  BY <1>1, HeadTailProperties
<1>3. seen \in Seq(Evidence) /\ <<>> \in Seq(Evidence)
  BY <1>1, <1>2, AppendProperties, EmptySeq
<1>4. next \in BeatStates /\ Ready(next)
  <2> HIDE DEF seen
  <2> QED
    BY <1>1, <1>2, <1>3 DEF BeatStates, PCs, Ready
<1>5. GoTo(b, next) \/ FailTo(b, next)
  BY DEF MarkPerceived
<1>6. events' \in SUBSET EventRows /\ perceived' \in SUBSET Evidence
  <2>1. Logged(events, beat[b].id, "perception", "completed") \in SUBSET EventRows
    BY <1>1, TypeSplit, EventTyped DEF TypeInv, TablesTyped, Stages
  <2> QED
    BY <1>2, <2>1, TypeSplit DEF MarkPerceived, TypeInv, TablesTyped
<1>7. TablesTyped' /\ disk' \in Images /\ {clock', begun', crashes'} \subseteq Nat
  BY <1>6, TypeSplit DEF MarkPerceived, TypeInv, TablesTyped
<1> HIDE DEF next
<1> QED
  BY <1>4, <1>5, <1>7, StepTyped DEF Ready

LEMMA JudgeTyped == ASSUME TypeInv, NEW b \in Beats, Judge(b) PROVE TypeInv'
<1> DEFINE unjudged == [beat[b] EXCEPT !.todo = Tail(beat[b].todo), !.degraded = TRUE]
           judged(kind) == [beat[b] EXCEPT !.todo = Tail(beat[b].todo),
                                           !.act = beat[b].act \/ kind = "notify_owner"]
           e == Head(beat[b].todo)
<1>1. /\ beat[b] \in BeatStates /\ beat[b].id \in CycleId /\ beat[b].todo \in Seq(Evidence)
      /\ beat[b].todo # <<>> /\ beat[b].act \in BOOLEAN /\ beat[b].pc = "judge"
  BY TypeSplit DEF TypeInv, BeatStates, Judge
<1>2. e \in Evidence /\ Tail(beat[b].todo) \in Seq(Evidence)
  BY <1>1, HeadTailProperties
<1>3. unjudged \in BeatStates /\ unjudged.pc = "judge"
  BY <1>1, <1>2 DEF BeatStates
<1>4. \A kind : judged(kind) \in BeatStates /\ judged(kind).pc = "judge"
  <2> TAKE kind
  <2>1. (beat[b].act \/ kind = "notify_owner") \in BOOLEAN
    OBVIOUS
  <2> QED
    BY <1>1, <1>2, <2>1 DEF BeatStates
<1>5. PICK s \in BeatStates : s.pc = "judge" /\ (GoTo(b, s) \/ FailTo(b, s))
  <2> HIDE DEF judged
  <2>1. GoTo(b, judged(VerdictKind(e))) \/ FailTo(b, unjudged)
    BY DEF Judge, judged
  <2> QED
    BY <1>3, <1>4, <2>1
<1>6. verdicts' \in SUBSET VerdictRows
  BY <1>1, <1>2, TypeSplit DEF Judge, VerdictKind, VerdictRows, TypeInv, TablesTyped
<1>7. TablesTyped' /\ disk' \in Images /\ {clock', begun', crashes'} \subseteq Nat
  BY <1>6, TypeSplit DEF Judge, TypeInv, TablesTyped
<1> QED
  BY <1>5, <1>7, StepTyped DEF Ready

LEMMA ChooseTyped == ASSUME TypeInv, NEW b \in Beats, Choose(b) PROVE TypeInv'
<1> DEFINE s == [beat[b] EXCEPT !.pc = "propose", !.degraded = FALSE]
           none == NoAction(beat[b], "proposal_no_action", FALSE)
<1>1. beat[b] \in BeatStates /\ beat[b].id \in CycleId
  BY TypeSplit DEF TypeInv, BeatStates
<1>2. s \in BeatStates /\ s.pc = "propose" /\ none \in BeatStates /\ Ready(none)
  BY <1>1, NoActionTyped, ZenonT(40) DEF BeatStates, PCs, Reasons
<1>3. GoTo(b, s) \/ GoTo(b, none)
  BY DEF Choose
<1>4. events' \in SUBSET EventRows
  BY <1>1, TypeSplit, EventTyped, ZenonT(40) DEF Choose, TypeInv, TablesTyped, Stages
<1>5. TablesTyped' /\ disk' \in Images /\ {clock', begun', crashes'} \subseteq Nat
  BY <1>4, TypeSplit DEF Choose, TypeInv, TablesTyped
<1> HIDE DEF s, none
<1> QED
  BY <1>2, <1>3, <1>5, StepTyped DEF Ready

LEMMA ProposeTyped == ASSUME TypeInv, NEW b \in Beats, Propose(b) PROVE TypeInv'
<1> DEFINE s == [beat[b] EXCEPT !.pc = "close", !.reason = "policy_denied_high_risk"]
           none == NoAction(beat[b], "state_unreadable", TRUE)
<1>1. beat[b] \in BeatStates /\ beat[b].id \in CycleId
  BY TypeSplit DEF TypeInv, BeatStates
<1>2. s \in BeatStates /\ Ready(s) /\ none \in BeatStates /\ Ready(none)
  BY <1>1, NoActionTyped, ZenonT(40) DEF BeatStates, PCs, Reasons, Ready
<1>3. GoTo(b, s) \/ FailTo(b, none)
  BY DEF Propose
<1>4. events' \in SUBSET EventRows
  <2>1. events \in SUBSET EventRows
    BY TypeSplit DEF TypeInv, TablesTyped
  <2>2. /\ Logged(events, beat[b].id, "policy", "completed") \in SUBSET EventRows
        /\ Logged(events, beat[b].id, "policy", "failed") \in SUBSET EventRows
    BY <1>1, <2>1, EventTyped DEF Stages
  <2>3. Logged(Logged(events, beat[b].id, "policy", "completed"), beat[b].id, "execution", "started")
            \in SUBSET EventRows
    BY <1>1, <2>2, EventTyped DEF Stages
  <2> QED
    BY <2>2, <2>3 DEF Propose
<1>5. TablesTyped' /\ disk' \in Images /\ {clock', begun', crashes'} \subseteq Nat
  BY <1>4, TypeSplit DEF Propose, TypeInv, TablesTyped
<1> HIDE DEF s, none
<1> QED
  BY <1>2, <1>3, <1>5, StepTyped DEF Ready

LEMMA ClosureTyped == ASSUME TypeInv, NEW b \in Beats, WriteClosure(b) PROVE TypeInv'
<1> DEFINE s == [beat[b] EXCEPT !.pc = "rhythm"]
           r == ClosureOf(beat[b])
<1>1. /\ beat[b] \in BeatStates /\ beat[b].id \in CycleId /\ beat[b].reason \in Reasons
      /\ beat[b].act \in BOOLEAN
  BY TypeSplit DEF TypeInv, BeatStates, Ready, WriteClosure
<1>2. s \in BeatStates /\ s.pc = "rhythm"
  BY <1>1 DEF BeatStates, PCs
<1>3. GoTo(b, s) \/ FailTo(b, s)
  BY DEF WriteClosure
<1>4. r \in ClosureRows
  BY <1>1 DEF ClosureOf, ClosureRows
<1>5. \A ok : ClosingEvents(beat[b], ok) \in SUBSET EventRows
  <2> TAKE ok
  <2> DEFINE status == IF beat[b].reason = "evidence_batch_empty" \/ (ok /\ ~beat[b].degraded)
                       THEN "completed" ELSE "failed"
             log == IF beat[b].act THEN Logged(events, beat[b].id, "execution", status) ELSE events
  <2>1. status \in {"started", "completed", "skipped", "failed"}
    OBVIOUS
  <2> HIDE DEF status
  <2>2. log \in SUBSET EventRows
    <3>1. events \in SUBSET EventRows
      BY TypeSplit DEF TypeInv, TablesTyped
    <3>2. Logged(events, beat[b].id, "execution", status) \in SUBSET EventRows
      BY <1>1, <2>1, <3>1, EventTyped DEF Stages
    <3> QED
      BY <3>1, <3>2
  <2> HIDE DEF log
  <2>3. Logged(log, beat[b].id, "closure", status) \in SUBSET EventRows
    BY <1>1, <2>1, <2>2, EventTyped DEF Stages
  <2> QED
    BY <2>3 DEF ClosingEvents, status, log
<1> HIDE DEF s, r
<1>6. events' \in SUBSET EventRows /\ closures' \in SUBSET ClosureRows
  <2>1. closures \in SUBSET ClosureRows
    BY TypeSplit DEF TypeInv, TablesTyped
  <2>2. closures' = closures \/ closures' = closures \cup {r}
    BY DEF WriteClosure, r
  <2> QED
    BY <1>4, <1>5, <2>1, <2>2 DEF WriteClosure
<1>7. TablesTyped' /\ disk' \in Images /\ {clock', begun', crashes'} \subseteq Nat
  BY <1>6, TypeSplit DEF WriteClosure, TypeInv, TablesTyped
<1> QED
  BY <1>2, <1>3, <1>7, StepTyped DEF Ready

LEMMA RhythmTyped == ASSUME TypeInv, NEW b \in Beats, AdvanceRhythm(b) PROVE TypeInv'
<1> DEFINE s == [beat[b] EXCEPT !.pc = "flush"]
<1>1. s \in BeatStates /\ s.pc = "flush"
  BY TypeSplit DEF TypeInv, BeatStates, PCs
<1>2. TablesTyped' /\ disk' \in Images /\ {clock', begun', crashes'} \subseteq Nat
  BY TypeSplit DEF AdvanceRhythm, tables, TypeInv, TablesTyped
<1>3. GoTo(b, s)
  BY DEF AdvanceRhythm
<1> HIDE DEF s
<1> QED
  BY <1>1, <1>2, <1>3, StepTyped DEF Ready

LEMMA FlushTyped == ASSUME TypeInv, NEW b \in Beats, Flush(b) PROVE TypeInv'
<1>1. Idle \in BeatStates /\ Idle.pc = "idle"
  <2>1. <<>> \in Seq(Evidence)
    BY EmptySeq
  <2> QED
    BY <2>1 DEF Idle, NoCycle, CycleId, BeatStates, PCs
<1>2. TablesTyped' /\ disk' \in Images /\ {clock', begun', crashes'} \subseteq Nat
  BY TypeSplit, ImageTyped DEF Flush, tables, TypeInv, TablesTyped
<1>3. GoTo(b, Idle) \/ FailTo(b, Idle)
  BY DEF Flush
<1> QED
  BY <1>1, <1>2, <1>3, StepTyped DEF Ready

LEMMA CrashTyped == TypeInv /\ Crash => TypeInv'
<1> SUFFICES ASSUME TypeInv, Crash PROVE TypeInv'
  OBVIOUS
<1>1. Idle \in BeatStates /\ Ready(Idle)
  <2>1. <<>> \in Seq(Evidence)
    BY EmptySeq
  <2> QED
    BY <2>1 DEF Idle, NoCycle, CycleId, BeatStates, PCs, Ready
<1>2. TablesTyped'
  BY TypeSplit DEF Crash, TypeInv, TablesTyped, Images, VerdictRows, ClosureRows, EventRows
<1>3. beat' \in [Beats -> BeatStates] /\ (\A b \in Beats : Ready(beat[b]))'
  BY <1>1 DEF Crash
<1>4. disk' \in Images /\ {clock', begun', failures', crashes'} \subseteq Nat
  BY TypeSplit DEF Crash, TypeInv
<1> QED
  BY <1>2, <1>3, <1>4, TypeJoin

LEMMA TypesStep == TypeInv /\ [Next]_vars => TypeInv'
<1>1. TypeInv /\ UNCHANGED vars => TypeInv'
  BY DEF vars, TypeInv, TypeOK, Image, Ready
<1> QED
  BY <1>1, IngestTyped, BeginTyped, SequenceTyped, TraceTyped, ReadTyped, CardTyped, MarkTyped,
     JudgeTyped, ChooseTyped, ProposeTyped, ClosureTyped, RhythmTyped, FlushTyped, CrashTyped
  DEF Next, Step

LEMMA Typed == Spec => []TypeInv
<1> QED
  BY TypesBegin, TypesStep, PTL DEF Spec

\* Every table, in memory and in the file, and every heartbeat keep their types
\* (runHeartbeatCycle and the stores it writes).
THEOREM TypeCorrect == Spec => []TypeOK
<1>1. TypeInv => TypeOK
  BY DEF TypeInv
<1> QED
  BY <1>1, Typed, PTL

-----------------------------------------------------------------------------
\* The items whose cards a beat in state s wrote and has still to judge.
Held(s) ==
    CASE s.pc = "card"  -> s.seen
      [] s.pc = "mark"  -> Append(s.seen, Head(s.todo))
      [] s.pc = "judge" -> s.todo
      [] OTHER          -> <<>>

\* Each has the card of this cycle and no verdict yet.
Holding(s, c, v) ==
    /\ s.pc # "idle" => s.id # NoCycle
    /\ s.pc \in {"sequence", "trace", "perceive"} => s.seen = <<>>
    /\ IsInjective(Held(s))
    /\ \A k \in 1..Len(Held(s)) : /\ c[Held(s)[k]] = s.id
                                  /\ \A x \in v : x.item # Held(s)[k]

\* Tables whose verdicts are of carded items, one of each.
Filed(p, c, v) ==
    /\ \A e \in p : c[e] # NoCycle
    /\ \A x \in v : x.cycle = c[x.item] /\ x.cycle # NoCycle
    /\ \A x, y \in v : x.item = y.item => x = y

EvidenceInv ==
    /\ clock > 0
    /\ Filed(perceived, cards, verdicts)
    /\ Filed(disk.perceived, disk.cards, disk.verdicts)
    /\ \A b \in Beats : Holding(beat[b], cards, verdicts)

Known == TypeInv /\ LedgerInv /\ EvidenceInv

-----------------------------------------------------------------------------
LEMMA HeldTyped ==
    ASSUME NEW s \in BeatStates, Ready(s)
    PROVE  /\ Held(s) \in Seq(Evidence) /\ Len(Held(s)) \in Nat /\ DOMAIN Held(s) = 1..Len(Held(s))
           /\ Len(Held(s)) # 0 => s.pc \in Open
<1>1. /\ s.seen \in Seq(Evidence) /\ s.todo \in Seq(Evidence)
      /\ s.pc = "mark" => s.todo # <<>>
  BY DEF BeatStates, Ready
<1>2. s.pc = "mark" => Append(s.seen, Head(s.todo)) \in Seq(Evidence)
  BY <1>1, HeadTailProperties, AppendProperties
<1>3. Held(s) \in Seq(Evidence)
  BY <1>1, <1>2, EmptySeq DEF Held
<1>4. s.pc \notin Open => Held(s) = <<>>
  BY DEF Held, Open
<1> QED
  BY <1>3, <1>4, LenProperties, EmptySeq

LEMMA BeatParts ==
    ASSUME Known, NEW b \in Beats
    PROVE  /\ beat[b] \in BeatStates /\ Ready(beat[b]) /\ Holding(beat[b], cards, verdicts)
           /\ beat[b].id \in CycleId /\ beat[b].seen \in Seq(Evidence) /\ beat[b].todo \in Seq(Evidence)
           /\ beat[b].act \in BOOLEAN
           /\ beat[b].pc \in {"card", "mark"} => beat[b].todo # <<>>
  BY TypeSplit DEF Known, TypeInv, EvidenceInv, Ready, BeatStates

\* What the beats that do not move hold, another's step leaves alone: it
\* writes cards where there was none, and verdicts on cards of its own.
LEMMA OthersHold ==
    ASSUME Known, NEW b \in Beats, NEW c \in Beats, c # b,
           \A e \in Evidence : cards[e] # NoCycle => cards'[e] = cards[e],
           verdicts \subseteq verdicts',
           \A x \in verdicts' \ verdicts : cards[x.item] = beat[b].id /\ beat[b].pc \in Open
    PROVE  Holding(beat[c], cards', verdicts')
<1> DEFINE h == Held(beat[c])
<1>1. /\ beat[c] \in BeatStates /\ Ready(beat[c]) /\ Holding(beat[c], cards, verdicts)
  BY BeatParts
<1>2. /\ h \in Seq(Evidence) /\ Len(h) \in Nat
      /\ Len(h) # 0 => beat[c].pc \in Open
  BY <1>1, HeldTyped
<1>3. ASSUME NEW k \in 1..Len(h) PROVE cards'[h[k]] = beat[c].id /\ \A x \in verdicts' : x.item # h[k]
  <2>1. h[k] \in Evidence /\ beat[c].pc \in Open
    BY <1>2, ElementOfSeq
  <2>2. beat[c].id # NoCycle /\ cards[h[k]] = beat[c].id /\ \A x \in verdicts : x.item # h[k]
    BY <1>1, <2>1 DEF Holding, Open
  <2>3. beat[b].pc \in Open => beat[b].id # beat[c].id
    BY <2>1 DEF Known, LedgerInv, Owned
  <2> QED
    BY <2>1, <2>2, <2>3
<1> HIDE DEF h
<1>4. IsInjective(h) /\ (beat[c].pc # "idle" => beat[c].id # NoCycle)
      /\ (beat[c].pc \in {"sequence", "trace", "perceive"} => beat[c].seen = <<>>)
  BY <1>1 DEF Holding, h
<1> QED
  BY <1>3, <1>4 DEF Holding, h

\* A failed call leaves a beat holding what it held.
LEMMA FailedHolds ==
    ASSUME NEW s \in BeatStates, NEW c, NEW v, Holding(s, c, v)
    PROVE  Holding([s EXCEPT !.failed = TRUE], c, v)
<1> DEFINE t == [s EXCEPT !.failed = TRUE]
<1>1. t.pc = s.pc /\ t.id = s.id /\ t.seen = s.seen /\ t.todo = s.todo
  BY DEF BeatStates
<1> HIDE DEF t
<1>2. Held(t) = Held(s)
  BY <1>1 DEF Held
<1> QED
  BY <1>1, <1>2 DEF Holding, t

\* A beat's step to a state that holds its part keeps the invariant.
LEMMA EvidenceMoves ==
    ASSUME Known, NEW b \in Beats, NEW s \in BeatStates, Holding(s, cards', verdicts'),
           GoTo(b, s) \/ FailTo(b, s),
           Filed(perceived', cards', verdicts'), clock' > 0,
           Filed(disk'.perceived, disk'.cards, disk'.verdicts),
           \A e \in Evidence : cards[e] # NoCycle => cards'[e] = cards[e],
           verdicts \subseteq verdicts',
           \A x \in verdicts' \ verdicts : cards[x.item] = beat[b].id /\ beat[b].pc \in Open
    PROVE  EvidenceInv'
<1>1. DOMAIN beat = Beats
  BY TypeSplit DEF Known, TypeInv
<1>2. PICK t : beat' = [beat EXCEPT ![b] = t] /\ Holding(t, cards', verdicts')
  BY FailedHolds DEF GoTo, FailTo
<1>3. ASSUME NEW c \in Beats PROVE Holding(beat'[c], cards', verdicts')
  <2>1. CASE c = b
    BY <1>1, <1>2, <2>1
  <2>2. CASE c # b
    <3>1. beat'[c] = beat[c]
      BY <1>1, <1>2, <2>2
    <3> QED
      BY <2>2, <3>1, OthersHold
  <2> QED
    BY <2>1, <2>2
<1> QED
  BY <1>3 DEF EvidenceInv

\* So does one that writes no card, verdict or perceived mark.
LEMMA EvidenceStays ==
    ASSUME Known, NEW b \in Beats, NEW s \in BeatStates, Holding(s, cards, verdicts),
           GoTo(b, s) \/ FailTo(b, s),
           UNCHANGED <<perceived, cards, verdicts, disk>>, clock' >= clock, clock' \in Nat
    PROVE  EvidenceInv'
<1>1. clock' > 0
  BY TypeSplit DEF Known, TypeInv, EvidenceInv
<1> QED
  BY <1>1, EvidenceMoves DEF Known, EvidenceInv

\* A state that holds nothing.
LEMMA HoldsNothing ==
    ASSUME NEW s, NEW c, NEW v, s.pc \notin {"card", "mark", "judge"},
           s.pc # "idle" => s.id # NoCycle,
           s.pc \in {"sequence", "trace", "perceive"} => s.seen = <<>>
    PROVE  Holding(s, c, v)
<1>1. Held(s) = <<>> /\ Len(<<>>) = 0 /\ IsInjective(<<>>)
  BY DEF Held, IsInjective
<1> QED
  BY <1>1 DEF Holding

LEMMA EvidenceBegins == Init => EvidenceInv
<1> SUFFICES ASSUME Init PROVE EvidenceInv
  OBVIOUS
<1>1. \A b \in Beats : Holding(beat[b], cards, verdicts)
  BY HoldsNothing DEF Init, Idle
<1>2. /\ perceived = {} /\ verdicts = {} /\ disk.perceived = {} /\ disk.verdicts = {} /\ clock > 0
  BY DEF Init, Image
<1> QED
  BY <1>1, <1>2 DEF EvidenceInv, Filed

\* The steps outside of perception and judgment.
LEMMA EvidenceQuiet ==
    ASSUME Known, NEW b \in Beats,
           \/ Begin(b) \/ NextSequence(b) \/ WriteTrace(b) \/ Choose(b) \/ Propose(b)
           \/ WriteClosure(b) \/ AdvanceRhythm(b)
    PROVE  EvidenceInv'
<1>0. UNCHANGED <<perceived, cards, verdicts, disk>>
  BY DEF Begin, NextSequence, WriteTrace, Choose, Propose, WriteClosure, AdvanceRhythm, tables
<1>1. /\ beat[b] \in BeatStates /\ Holding(beat[b], cards, verdicts) /\ beat[b].id \in CycleId
  BY BeatParts
<1>2. clock' >= clock /\ clock' \in Nat /\ clock \in Nat /\ clock > 0
  <2>1. clock \in Nat /\ clock > 0
    BY TypeSplit DEF Known, TypeInv, EvidenceInv
  <2>2. clock' \in {clock, clock + 1}
    BY DEF Begin, NextSequence, WriteTrace, Choose, Propose, WriteClosure, AdvanceRhythm
  <2> QED
    BY <2>1, <2>2
<1>3. SUFFICES \E s \in BeatStates : Holding(s, cards, verdicts) /\ (GoTo(b, s) \/ FailTo(b, s))
  BY <1>0, <1>2, EvidenceStays
<1>4. CASE Begin(b)
  <2> DEFINE s == [Idle EXCEPT !.pc = "sequence", !.id.at = clock']
  <2>1. s \in BeatStates
    BY <1>2, EmptySeq DEF Idle, NoCycle, CycleId, BeatStates, PCs
  <2>2. s.id # NoCycle /\ s.seen = <<>> /\ s.pc = "sequence"
    BY <1>2, <1>4 DEF Idle, NoCycle, Begin
  <2>3. GoTo(b, s)
    BY <1>4 DEF Begin
  <2> HIDE DEF s
  <2>4. Holding(s, cards, verdicts)
    BY <2>2, HoldsNothing
  <2> QED
    BY <2>1, <2>3, <2>4
<1>5. CASE NextSequence(b)
  <2> DEFINE s(n) == [beat[b] EXCEPT !.pc = "trace", !.id.seq = n]
  <2>1. LastSequence + 1 \in Nat /\ LastSequence + 1 # 0
    BY TypeSplit, LastSequenceIsMax DEF Known, TypeInv, TablesTyped
  <2>2. PICK n \in Nat : n # 0 /\ (GoTo(b, s(n)) \/ FailTo(b, s(n)))
    <3>1. GoTo(b, s(LastSequence + 1)) \/ FailTo(b, s(1))
      BY <1>5 DEF NextSequence
    <3> HIDE DEF s
    <3> QED
      BY <2>1, <3>1
  <2>3. s(n) \in BeatStates /\ s(n).pc = "trace" /\ s(n).id # NoCycle /\ s(n).seen = beat[b].seen
    BY <1>1, <2>2 DEF BeatStates, PCs, CycleId, NoCycle
  <2>4. beat[b].seen = <<>>
    BY <1>1, <1>5 DEF NextSequence, Holding
  <2> HIDE DEF s
  <2>5. Holding(s(n), cards, verdicts)
    BY <2>3, <2>4, HoldsNothing
  <2> QED
    BY <2>2, <2>3, <2>5
<1>6. CASE WriteTrace(b)
  <2> DEFINE s == [beat[b] EXCEPT !.pc = "perceive"]
             lost == [beat[b] EXCEPT !.pc = "flush", !.reason = "state_unreadable", !.degraded = TRUE]
  <2>1. beat[b].seen = <<>> /\ beat[b].id # NoCycle
    BY <1>1, <1>6 DEF WriteTrace, Holding
  <2>2. /\ s \in BeatStates /\ s.pc = "perceive" /\ s.id # NoCycle /\ s.seen = <<>>
        /\ lost \in BeatStates /\ lost.pc = "flush" /\ lost.id # NoCycle
    BY <1>1, <2>1 DEF BeatStates, PCs, Reasons
  <2>3. GoTo(b, s) \/ GoTo(b, lost) \/ FailTo(b, lost)
    BY <1>6 DEF WriteTrace
  <2> HIDE DEF s, lost
  <2>4. Holding(s, cards, verdicts) /\ Holding(lost, cards, verdicts)
    BY <2>2, HoldsNothing
  <2> QED
    BY <2>2, <2>3, <2>4
<1>7. CASE Choose(b) \/ Propose(b) \/ WriteClosure(b) \/ AdvanceRhythm(b)
  <2>1. beat[b].id # NoCycle
    BY <1>1, <1>7 DEF Choose, Propose, WriteClosure, AdvanceRhythm, Holding
  <2>2. PICK s \in BeatStates : /\ s.pc \in {"propose", "close", "rhythm", "flush"}
                                /\ s.id = beat[b].id
                                /\ GoTo(b, s) \/ FailTo(b, s)
    <3> DEFINE Good(s) == /\ s \in BeatStates /\ s.pc \in {"propose", "close", "rhythm", "flush"}
                          /\ s.id = beat[b].id
    <3>1. /\ Good([beat[b] EXCEPT !.pc = "propose", !.degraded = FALSE])
          /\ Good([beat[b] EXCEPT !.pc = "close", !.reason = "policy_denied_high_risk"])
          /\ Good([beat[b] EXCEPT !.pc = "rhythm"])
          /\ Good([beat[b] EXCEPT !.pc = "flush"])
      BY <1>1 DEF BeatStates, PCs, Reasons
    <3>2. /\ Good(NoAction(beat[b], "proposal_no_action", FALSE))
          /\ Good(NoAction(beat[b], "state_unreadable", TRUE))
      BY <1>1 DEF NoAction, BeatStates, PCs, Reasons
    <3>3. \/ GoTo(b, [beat[b] EXCEPT !.pc = "propose", !.degraded = FALSE])
          \/ GoTo(b, [beat[b] EXCEPT !.pc = "close", !.reason = "policy_denied_high_risk"])
          \/ GoTo(b, [beat[b] EXCEPT !.pc = "rhythm"]) \/ FailTo(b, [beat[b] EXCEPT !.pc = "rhythm"])
          \/ GoTo(b, [beat[b] EXCEPT !.pc = "flush"])
          \/ GoTo(b, NoAction(beat[b], "proposal_no_action", FALSE))
          \/ FailTo(b, NoAction(beat[b], "state_unreadable", TRUE))
      BY <1>7 DEF Choose, Propose, WriteClosure, AdvanceRhythm
    <3> QED
      BY <3>1, <3>2, <3>3
  <2>3. Holding(s, cards, verdicts)
    BY <2>1, <2>2, HoldsNothing
  <2> QED
    BY <2>2, <2>3
<1> QED
  BY <1>4, <1>5, <1>6, <1>7

LEMMA EvidenceRead == ASSUME Known, NEW b \in Beats, ReadPending(b) PROVE EvidenceInv'
<1> DEFINE s == [beat[b] EXCEPT !.pc = "card", !.todo = PendingBatch]
           none == NoAction(beat[b], "evidence_batch_empty", FALSE)
           lost == PerceptionFailed(beat[b])
<1>1. /\ beat[b] \in BeatStates /\ Holding(beat[b], cards, verdicts)
      /\ beat[b].seen = <<>> /\ beat[b].id # NoCycle
  BY BeatParts DEF Holding, ReadPending
<1>2. PendingBatch \in Seq(Evidence)
  BY TypeSplit, BatchPending DEF Known, TypeInv, TablesTyped, OfPending
<1>3. s \in BeatStates /\ s.pc = "card" /\ s.seen = <<>> /\ s.id # NoCycle
  BY <1>1, <1>2 DEF BeatStates, PCs
<1>4. /\ none \in BeatStates /\ none.pc = "close" /\ none.id # NoCycle
      /\ lost \in BeatStates /\ lost.pc = "close" /\ lost.id # NoCycle
  BY <1>1 DEF NoAction, PerceptionFailed, BeatStates, PCs, Reasons
<1>5. GoTo(b, s) \/ GoTo(b, none) \/ FailTo(b, lost)
  BY DEF ReadPending
<1>6. UNCHANGED <<perceived, cards, verdicts, disk>> /\ clock' >= clock /\ clock' \in Nat
  BY TypeSplit DEF ReadPending, Known, TypeInv
<1> HIDE DEF s, none, lost
<1>7. Holding(s, cards, verdicts)
  <2>1. Held(s) = <<>> /\ Len(<<>>) = 0 /\ IsInjective(<<>>)
    BY <1>3 DEF Held, IsInjective
  <2> QED
    BY <1>3, <2>1 DEF Holding
<1>8. Holding(none, cards, verdicts) /\ Holding(lost, cards, verdicts)
  BY <1>4, HoldsNothing
<1> QED
  BY <1>3, <1>4, <1>5, <1>6, <1>7, <1>8, EvidenceStays

\* A new card is of an item nobody holds, with no verdict.
LEMMA EvidenceCard == ASSUME Known, NEW b \in Beats, WriteCard(b) PROVE EvidenceInv'
<1> DEFINE s == [beat[b] EXCEPT !.pc = "mark"]
           lost == PerceptionFailed(beat[b])
           e == Head(beat[b].todo)
           seen == beat[b].seen
<1>1. /\ beat[b] \in BeatStates /\ Ready(beat[b]) /\ Holding(beat[b], cards, verdicts)
      /\ beat[b].id # NoCycle /\ seen \in Seq(Evidence) /\ Held(beat[b]) = seen
      /\ e \in Evidence /\ beat[b].id \in CycleId
  <2>1. beat[b].todo \in Seq(Evidence) /\ beat[b].todo # <<>>
    BY BeatParts DEF WriteCard
  <2> QED
    BY <2>1, BeatParts, HeadTailProperties DEF Holding, Held, WriteCard
<1>2. /\ s \in BeatStates /\ s.pc = "mark" /\ s.id = beat[b].id /\ s.seen = seen /\ s.todo = beat[b].todo
      /\ lost \in BeatStates /\ lost.pc = "close" /\ lost.id # NoCycle
  BY <1>1 DEF NoAction, PerceptionFailed, BeatStates, PCs, Reasons
<1>3. UNCHANGED <<perceived, verdicts, disk>> /\ clock' >= clock /\ clock' \in Nat
  BY TypeSplit DEF WriteCard, Known, TypeInv
<1>4. CASE UNCHANGED cards /\ (GoTo(b, lost) \/ FailTo(b, lost))
  <2> HIDE DEF lost
  <2>1. Holding(lost, cards, verdicts)
    BY <1>2, HoldsNothing
  <2> QED
    BY <1>2, <1>3, <1>4, <2>1, EvidenceStays
<1>5. CASE cards[e] = NoCycle /\ cards' = [cards EXCEPT ![e] = beat[b].id] /\ GoTo(b, s)
  <2> HIDE DEF s, e, seen
  <2>1. cards \in [Evidence -> CycleId] /\ verdicts \in SUBSET VerdictRows /\ clock > 0 /\ clock \in Nat
    BY TypeSplit DEF Known, TypeInv, TablesTyped, EvidenceInv
  <2>2. \A x \in verdicts : x.item # e
    BY <1>5 DEF Known, EvidenceInv, Filed
  <2>3. Held(s) = Append(seen, e)
    BY <1>2 DEF Held, e
  <2>4. Len(seen) \in Nat /\ DOMAIN seen = 1..Len(seen)
    BY <1>1, LenProperties
  <2>5. /\ \A k \in 1..Len(seen) : cards[seen[k]] = beat[b].id /\ \A x \in verdicts : x.item # seen[k]
        /\ IsInjective(seen)
    BY <1>1 DEF Holding
  <2>6. \A k \in 1..Len(seen) : seen[k] # e
    BY <1>1, <1>5, <2>5
  <2>7. /\ Append(seen, e) \in Seq(Evidence) /\ Len(Append(seen, e)) = Len(seen) + 1
        /\ \A k \in 1..Len(seen) : Append(seen, e)[k] = seen[k]
        /\ Append(seen, e)[Len(seen) + 1] = e
        /\ DOMAIN Append(seen, e) = 1..(Len(seen) + 1)
    BY <1>1, AppendProperties, LenProperties
  <2>8. \A k \in 1..(Len(seen) + 1) : k \in 1..Len(seen) \/ k = Len(seen) + 1
    BY <2>4
  <2>9. IsInjective(Append(seen, e))
    BY <2>4, <2>5, <2>6, <2>7, <2>8 DEF IsInjective
  <2>10. ASSUME NEW k \in 1..Len(Held(s))
         PROVE  cards'[Held(s)[k]] = beat[b].id /\ \A x \in verdicts' : x.item # Held(s)[k]
    <3>1. CASE k = Len(seen) + 1
      BY <1>1, <1>3, <1>5, <2>1, <2>2, <2>3, <2>7, <3>1
    <3>2. CASE k \in 1..Len(seen)
      <4>1. seen[k] \in Evidence
        BY <1>1, <3>2, ElementOfSeq
      <4> QED
        BY <1>3, <1>5, <2>1, <2>3, <2>5, <2>6, <2>7, <3>2, <4>1
    <3> QED
      BY <2>3, <2>7, <2>8, <3>1, <3>2
  <2>11. Holding(s, cards', verdicts')
    BY <1>1, <1>2, <2>3, <2>9, <2>10 DEF Holding
  <2>12. \A x \in Evidence : cards[x] # NoCycle => cards'[x] = cards[x]
    BY <1>5, <2>1
  <2>13. Filed(perceived', cards', verdicts')
    <3>1. perceived \subseteq Evidence
      BY TypeSplit DEF Known, TypeInv, TablesTyped
    <3>2. \A x \in verdicts : x.item \in Evidence
      BY <2>1 DEF VerdictRows
    <3> QED
      BY <1>3, <2>12, <3>1, <3>2 DEF Known, EvidenceInv, Filed
  <2>14. Filed(disk'.perceived, disk'.cards, disk'.verdicts)
    BY <1>3 DEF Known, EvidenceInv
  <2>15. clock' > 0 /\ verdicts' = verdicts /\ GoTo(b, s)
    BY <1>3, <1>5, <2>1
  <2> QED
    BY <1>2, <2>11, <2>12, <2>13, <2>14, <2>15, EvidenceMoves
<1> QED
  BY <1>4, <1>5 DEF WriteCard, CardTaken

LEMMA EvidenceMark == ASSUME Known, NEW b \in Beats, MarkPerceived(b) PROVE EvidenceInv'
<1> DEFINE e == Head(beat[b].todo)
           seen == Append(beat[b].seen, e)
           last == [beat[b] EXCEPT !.pc = "judge", !.todo = seen, !.seen = <<>>]
           more == [beat[b] EXCEPT !.pc = "card", !.todo = Tail(beat[b].todo), !.seen = seen]
           next == IF Tail(beat[b].todo) = <<>> THEN last ELSE more
<1>1. /\ beat[b] \in BeatStates /\ Holding(beat[b], cards, verdicts)
      /\ beat[b].id # NoCycle /\ Held(beat[b]) = seen
      /\ beat[b].todo \in Seq(Evidence) /\ beat[b].seen \in Seq(Evidence)
      /\ e \in Evidence /\ Tail(beat[b].todo) \in Seq(Evidence)
  <2>1. beat[b].todo \in Seq(Evidence) /\ beat[b].todo # <<>>
    BY BeatParts DEF MarkPerceived
  <2> QED
    BY <2>1, BeatParts, HeadTailProperties DEF Holding, Held, MarkPerceived
<1>2. seen \in Seq(Evidence) /\ <<>> \in Seq(Evidence)
  BY <1>1, AppendProperties, EmptySeq
<1>3. cards[e] = beat[b].id
  <2>1. /\ Len(seen) = Len(beat[b].seen) + 1 /\ seen[Len(beat[b].seen) + 1] = e
        /\ Len(beat[b].seen) \in Nat
    BY <1>1, AppendProperties, LenProperties
  <2>2. Len(seen) \in 1..Len(seen)
    BY <2>1
  <2> QED
    BY <1>1, <2>1, <2>2 DEF Holding
<1>4. (GoTo(b, next) \/ FailTo(b, next)) /\ UNCHANGED <<cards, verdicts, disk, clock>>
      /\ perceived' \in {perceived, perceived \cup {e}}
  BY DEF MarkPerceived
<1> HIDE DEF seen, e
<1>5. next \in BeatStates /\ Held(next) = seen /\ next.id = beat[b].id /\ next.pc \in {"judge", "card"}
  BY <1>1, <1>2 DEF BeatStates, PCs, Held
<1> HIDE DEF next
<1>6. Holding(next, cards', verdicts')
  BY <1>1, <1>4, <1>5 DEF Holding
<1>7. Filed(perceived', cards', verdicts')
  BY <1>1, <1>3, <1>4 DEF Known, EvidenceInv, Filed
<1>8. Filed(disk'.perceived, disk'.cards, disk'.verdicts) /\ clock' > 0
  BY <1>4 DEF Known, EvidenceInv
<1> QED
  BY <1>4, <1>5, <1>6, <1>7, <1>8, EvidenceMoves

\* The verdict is of the first item held, which had none.
LEMMA EvidenceJudge == ASSUME Known, NEW b \in Beats, Judge(b) PROVE EvidenceInv'
<1> DEFINE e == Head(beat[b].todo)
           rest == Tail(beat[b].todo)
           kind == VerdictKind(e)
           v == [item |-> e, cycle |-> beat[b].id, kind |-> kind]
           unjudged == [beat[b] EXCEPT !.todo = rest, !.degraded = TRUE]
           judged == [beat[b] EXCEPT !.todo = rest, !.act = beat[b].act \/ kind = "notify_owner"]
           todo == beat[b].todo
<1>1. /\ beat[b] \in BeatStates /\ Holding(beat[b], cards, verdicts) /\ beat[b].pc = "judge"
      /\ beat[b].id # NoCycle /\ Held(beat[b]) = todo /\ todo \in Seq(Evidence) /\ todo # <<>>
      /\ beat[b].act \in BOOLEAN
  BY BeatParts DEF Holding, Held, Judge
<1>2. /\ Len(todo) \in Nat \ {0} /\ DOMAIN todo = 1..Len(todo)
      /\ rest \in Seq(Evidence) /\ Len(rest) = Len(todo) - 1 /\ DOMAIN rest = 1..Len(rest)
      /\ \A k \in 1..Len(rest) : rest[k] = todo[k + 1]
      /\ e \in Evidence /\ e = todo[1]
  <2>1. e \in Evidence /\ rest \in Seq(Evidence)
    BY <1>1, HeadTailProperties
  <2>2. e = todo[1]
    BY <1>1
  <2>3. Len(todo) \in Nat \ {0}
    BY <1>1, EmptySeq
  <2> QED
    BY <1>1, <2>1, <2>2, <2>3, HeadTailProperties, LenProperties
<1>3. /\ \A k \in 1..Len(todo) : cards[todo[k]] = beat[b].id /\ \A x \in verdicts : x.item # todo[k]
      /\ IsInjective(todo)
  BY <1>1 DEF Holding
<1>4. /\ unjudged \in BeatStates /\ unjudged.pc = "judge" /\ unjudged.todo = rest /\ unjudged.id = beat[b].id
      /\ judged \in BeatStates /\ judged.pc = "judge" /\ judged.todo = rest /\ judged.id = beat[b].id
  <2>1. (beat[b].act \/ kind = "notify_owner") \in BOOLEAN
    OBVIOUS
  <2> QED
    BY <1>1, <1>2, <2>1 DEF BeatStates
<1>5. \/ UNCHANGED verdicts /\ FailTo(b, unjudged)
      \/ verdicts' = verdicts \cup {v} /\ GoTo(b, judged)
  BY DEF Judge
<1>6. UNCHANGED <<perceived, cards, disk, clock>>
  BY DEF Judge
<1>7. v.item = e /\ v.cycle = beat[b].id
  OBVIOUS
<1> HIDE DEF e, rest, kind, v, unjudged, judged, todo
<1>8. ASSUME NEW k \in 1..Len(rest) PROVE k + 1 \in 1..Len(todo) /\ rest[k] = todo[k + 1] /\ rest[k] # e
  <2>1. k + 1 \in 1..Len(todo) /\ 1 \in 1..Len(todo) /\ k + 1 # 1
    BY <1>2
  <2> QED
    BY <1>2, <1>3, <2>1 DEF IsInjective
<1>9. IsInjective(rest)
  <2>1. ASSUME NEW j \in 1..Len(rest), NEW k \in 1..Len(rest), rest[j] = rest[k] PROVE j = k
    <3>1. j + 1 = k + 1
      BY <1>2, <1>3, <1>8, <2>1 DEF IsInjective
    <3> QED
      BY <1>2, <3>1
  <2> QED
    BY <1>2, <2>1 DEF IsInjective
<1>10. ASSUME NEW s, s.pc = "judge", s.todo = rest, s.id = beat[b].id PROVE Holding(s, cards', verdicts')
  <2>1. Held(s) = rest
    BY <1>10 DEF Held
  <2>2. ASSUME NEW k \in 1..Len(rest)
        PROVE  cards'[rest[k]] = beat[b].id /\ \A x \in verdicts' : x.item # rest[k]
    BY <1>3, <1>5, <1>6, <1>7, <1>8
  <2> QED
    BY <1>1, <1>9, <1>10, <2>1, <2>2 DEF Holding
<1>11. 1 \in 1..Len(todo) /\ cards[e] = beat[b].id /\ \A x \in verdicts : x.item # e
  BY <1>2, <1>3
<1>12. Filed(perceived', cards', verdicts')
  BY <1>1, <1>5, <1>6, <1>7, <1>11 DEF Known, EvidenceInv, Filed
<1>13. \A x \in verdicts' \ verdicts : cards[x.item] = beat[b].id /\ beat[b].pc \in Open
  BY <1>1, <1>5, <1>7, <1>11 DEF Open
<1>14. Filed(disk'.perceived, disk'.cards, disk'.verdicts) /\ clock' > 0
  BY <1>6 DEF Known, EvidenceInv
<1>15. Holding(unjudged, cards', verdicts') /\ Holding(judged, cards', verdicts')
  BY <1>4, <1>10
<1> QED
  BY <1>4, <1>5, <1>6, <1>12, <1>13, <1>14, <1>15, EvidenceMoves

LEMMA EvidenceStep == Known /\ [Next]_vars => EvidenceInv'
<1> SUFFICES ASSUME Known, [Next]_vars PROVE EvidenceInv'
  OBVIOUS
<1>1. ASSUME NEW e \in Evidence, Ingest(e) PROVE EvidenceInv'
  BY <1>1 DEF Ingest, Known, EvidenceInv
<1>2. ASSUME NEW b \in Beats, Flush(b) PROVE EvidenceInv'
  <2>1. /\ UNCHANGED <<perceived, cards, verdicts, clock>> /\ (GoTo(b, Idle) \/ FailTo(b, Idle))
        /\ disk' = disk \/ disk' = Image
    BY <1>2 DEF Flush, tables
  <2>2. Filed(disk'.perceived, disk'.cards, disk'.verdicts)
    BY <2>1 DEF Image, Known, EvidenceInv
  <2>3. Holding(Idle, cards', verdicts')
    BY HoldsNothing DEF Idle
  <2>4. Idle \in BeatStates
    BY EmptySeq DEF Idle, NoCycle, CycleId, BeatStates, PCs
  <2> QED
    BY <2>1, <2>2, <2>3, <2>4, EvidenceMoves DEF Known, EvidenceInv
<1>3. CASE Crash
  <2>1. /\ perceived' = disk.perceived /\ cards' = disk.cards /\ verdicts' = disk.verdicts
        /\ disk' = disk /\ clock' = clock /\ beat' = [b \in Beats |-> Idle]
    BY <1>3 DEF Crash
  <2>2. Holding(Idle, cards', verdicts')
    BY HoldsNothing DEF Idle
  <2> QED
    BY <2>1, <2>2 DEF Known, EvidenceInv
<1>4. CASE UNCHANGED vars
  BY <1>4 DEF vars, Known, EvidenceInv, Holding, Held, Filed
<1> QED
  BY <1>1, <1>2, <1>3, <1>4, EvidenceQuiet, EvidenceRead, EvidenceCard, EvidenceMark, EvidenceJudge
  DEF Next, Step

LEMMA KnownAlways == Spec => []Known
<1>1. Init => Known
  BY TypesBegin, LedgerInvInit, EvidenceBegins DEF Known
<1>2. Known /\ [Next]_vars => Known'
  BY TypesStep, LedgerInvStep, EvidenceStep DEF Known
<1> QED
  BY <1>1, <1>2, PTL DEF Spec

\* Heartbeats that read the same pending items give each one card and one
\* verdict, that of the cycle which wrote the card; no item is perceived
\* without one (buildPerceptionCards, runAgentJudgment).
THEOREM EvidenceHandledOnce == Spec => []EvidenceOnce
<1>1. Known => EvidenceOnce
  <2> SUFFICES ASSUME Known PROVE EvidenceOnce
    OBVIOUS
  <2>1. PerceivedHasCard
    BY DEF Known, EvidenceInv, Filed, PerceivedHasCard
  <2>2. JudgedOnce
    BY DEF Known, EvidenceInv, Filed, JudgedOnce
  <2> QED
    BY <2>1, <2>2 DEF EvidenceOnce
<1> QED
  BY <1>1, KnownAlways, PTL

-----------------------------------------------------------------------------
SilentReasons == {"proposal_no_action", "evidence_batch_empty"}

\* The cycle id has no verdict, or none that asks for an action, in v.
Unjudged(id, v) == \A x \in v : x.cycle # id
Calm(id, v) == ~\E x \in v : x.cycle = id /\ x.kind = "notify_owner"

\* What a beat in state s knows of the verdicts v of its cycle.
Informed(s, v) ==
    /\ s.pc \in {"perceive", "card", "mark"} => Unjudged(s.id, v)
    /\ s.pc = "judge" /\ s.act = FALSE => Calm(s.id, v)
    /\ s.pc = "close" /\ s.reason \in SilentReasons => Calm(s.id, v)

\* A closure that says there was nothing to do is right, and verdicts are of
\* traced cycles.
Honest(v, cl, t) ==
    /\ \A r \in cl : r.reason \in SilentReasons => Calm(r.cycle, v)
    /\ \A x \in v : x.cycle \in Range(t)

SilentInv ==
    /\ Honest(verdicts, closures, traces)
    /\ Honest(disk.verdicts, disk.closures, disk.traces)
    /\ \A b \in Beats : Informed(beat[b], verdicts)
    /\ ClosedUnlessFailed

-----------------------------------------------------------------------------
\* A beat's step keeps the invariant when its new state is informed, when it
\* adds verdicts of its open cycle only, and when it goes on from its closure
\* with one stored.
LEMMA SilentMoves ==
    ASSUME Known, SilentInv, NEW b \in Beats, NEW s \in BeatStates, Informed(s, verdicts'),
           \/ GoTo(b, s) /\ (s.pc = "rhythm" => \E r \in closures' : r.cycle = s.id)
           \/ FailTo(b, s),
           closures \subseteq closures',
           \A x \in verdicts' \ verdicts : x.cycle = beat[b].id /\ beat[b].pc \in Open,
           Honest(verdicts', closures', traces'),
           Honest(disk'.verdicts, disk'.closures, disk'.traces)
    PROVE  SilentInv'
<1>1. DOMAIN beat = Beats
  BY TypeSplit DEF Known, TypeInv
<1>2. PICK t : /\ beat' = [beat EXCEPT ![b] = t] /\ Informed(t, verdicts')
               /\ t.pc = "rhythm" /\ ~t.failed => \E r \in closures' : r.cycle = t.id
  <2>1. CASE GoTo(b, s) /\ (s.pc = "rhythm" => \E r \in closures' : r.cycle = s.id)
    BY <2>1 DEF GoTo
  <2>2. CASE FailTo(b, s)
    <3> DEFINE t == [s EXCEPT !.failed = TRUE]
    <3>1. t.pc = s.pc /\ t.id = s.id /\ t.act = s.act /\ t.reason = s.reason /\ t.failed = TRUE
      BY DEF BeatStates
    <3>2. beat' = [beat EXCEPT ![b] = t]
      BY <2>2 DEF FailTo
    <3> HIDE DEF t
    <3> QED
      BY <3>1, <3>2 DEF Informed
  <2> QED
    BY <2>1, <2>2
<1>3. ASSUME NEW c \in Beats
      PROVE  /\ Informed(beat'[c], verdicts')
             /\ beat'[c].pc = "rhythm" /\ ~beat'[c].failed => \E r \in closures' : r.cycle = beat'[c].id
  <2>1. CASE c = b
    BY <1>1, <1>2, <2>1
  <2>2. CASE c # b
    <3>1. beat'[c] = beat[c]
      BY <1>1, <1>2, <2>2
    <3>2. Informed(beat[c], verdicts)
      BY DEF SilentInv
    <3>3. beat[c].pc \in Open => \A x \in verdicts' \ verdicts : x.cycle # beat[c].id
      BY <2>2 DEF Known, LedgerInv, Owned
    <3>4. Informed(beat[c], verdicts')
      BY <3>2, <3>3 DEF Informed, Unjudged, Calm, Open
    <3> QED
      BY <3>1, <3>4 DEF SilentInv, ClosedUnlessFailed
  <2> QED
    BY <2>1, <2>2
<1> QED
  BY <1>3 DEF SilentInv, ClosedUnlessFailed

\* The same for a step that writes no verdict, closure or trace.
LEMMA SilentStays ==
    ASSUME Known, SilentInv, NEW b \in Beats, NEW s \in BeatStates, Informed(s, verdicts),
           GoTo(b, s) \/ FailTo(b, s), s.pc # "rhythm",
           UNCHANGED <<verdicts, closures, traces, disk>>
    PROVE  SilentInv'
<1>1. Honest(verdicts', closures', traces') /\ Honest(disk'.verdicts, disk'.closures, disk'.traces)
  BY DEF SilentInv
<1> QED
  BY <1>1, SilentMoves

LEMMA SilentBegins == Init => SilentInv
<1> SUFFICES ASSUME Init PROVE SilentInv
  OBVIOUS
<1>1. \A b \in Beats : Informed(beat[b], verdicts) /\ beat[b].pc = "idle"
  BY DEF Init, Idle, Informed
<1>2. verdicts = {} /\ closures = {} /\ disk.verdicts = {} /\ disk.closures = {}
  BY DEF Init, Image
<1> QED
  BY <1>1, <1>2 DEF SilentInv, Honest, ClosedUnlessFailed

LEMMA SilentTrace == ASSUME Known, SilentInv, NEW b \in Beats, WriteTrace(b) PROVE SilentInv'
<1> DEFINE s == [beat[b] EXCEPT !.pc = "perceive"]
           lost == [beat[b] EXCEPT !.pc = "flush", !.reason = "state_unreadable", !.degraded = TRUE]
           id == beat[b].id
<1>1. beat[b] \in BeatStates
  BY BeatParts
<1>2. /\ s \in BeatStates /\ s.pc = "perceive" /\ s.id = id
      /\ lost \in BeatStates /\ lost.pc = "flush"
  BY <1>1 DEF BeatStates, PCs, Reasons
<1>3. UNCHANGED <<verdicts, closures, disk>>
  BY DEF WriteTrace
<1>4. CASE UNCHANGED traces /\ (GoTo(b, lost) \/ FailTo(b, lost))
  <2> HIDE DEF lost
  <2>1. Informed(lost, verdicts)
    BY <1>2 DEF Informed
  <2> QED
    BY <1>2, <1>3, <1>4, <2>1, SilentStays
<1>5. CASE ~TraceTaken(id) /\ traces' = Append(traces, id) /\ GoTo(b, s)
  <2> HIDE DEF s
  <2>1. id \notin Range(traces)
    BY <1>5 DEF TraceTaken, Contains, Range
  <2>2. Range(traces') = Range(traces) \cup {id}
    BY <1>5, RangeOfAppend DEF Known, LedgerInv, Shaped
  <2>3. Informed(s, verdicts')
    BY <1>2, <1>3, <2>1 DEF Informed, Unjudged, SilentInv, Honest
  <2>4. Honest(verdicts', closures', traces') /\ Honest(disk'.verdicts, disk'.closures, disk'.traces)
    BY <1>3, <2>2 DEF SilentInv, Honest
  <2> QED
    BY <1>2, <1>3, <1>5, <2>3, <2>4, SilentMoves
<1> QED
  BY <1>4, <1>5 DEF WriteTrace

LEMMA SilentPerceive ==
    ASSUME Known, SilentInv, NEW b \in Beats, ReadPending(b) \/ WriteCard(b) \/ MarkPerceived(b)
    PROVE  SilentInv'
<1>1. /\ beat[b] \in BeatStates /\ Unjudged(beat[b].id, verdicts)
      /\ beat[b].todo \in Seq(Evidence) /\ beat[b].seen \in Seq(Evidence)
      /\ beat[b].pc \in {"card", "mark"} => beat[b].todo # <<>>
  BY BeatParts DEF SilentInv, Informed, ReadPending, WriteCard, MarkPerceived
<1>2. UNCHANGED <<verdicts, closures, traces, disk>>
  BY DEF ReadPending, WriteCard, MarkPerceived
<1> DEFINE Good(s) == /\ s \in BeatStates /\ s.id = beat[b].id
                      /\ s.pc \in {"card", "mark", "judge", "close"}
           lost == PerceptionFailed(beat[b])
           seen == Append(beat[b].seen, Head(beat[b].todo))
           last == [beat[b] EXCEPT !.pc = "judge", !.todo = seen, !.seen = <<>>]
           more == [beat[b] EXCEPT !.pc = "card", !.todo = Tail(beat[b].todo), !.seen = seen]
<1>3. PICK s : Good(s) /\ (GoTo(b, s) \/ FailTo(b, s))
  <2>1. PendingBatch \in Seq(Evidence)
    BY TypeSplit, BatchPending DEF Known, TypeInv, TablesTyped, OfPending
  <2>2. Good([beat[b] EXCEPT !.pc = "card", !.todo = PendingBatch]) /\ Good([beat[b] EXCEPT !.pc = "mark"])
    BY <1>1, <2>1 DEF BeatStates, PCs
  <2>3. Good(NoAction(beat[b], "evidence_batch_empty", FALSE)) /\ Good(lost)
    BY <1>1 DEF NoAction, PerceptionFailed, BeatStates, PCs, Reasons
  <2>4. CASE MarkPerceived(b)
    <3>1. seen \in Seq(Evidence) /\ Tail(beat[b].todo) \in Seq(Evidence) /\ <<>> \in Seq(Evidence)
      BY <1>1, <2>4, HeadTailProperties, AppendProperties, EmptySeq DEF MarkPerceived
    <3> HIDE DEF seen
    <3>2. Good(last) /\ Good(more)
      BY <1>1, <3>1 DEF BeatStates, PCs
    <3>3. GoTo(b, last) \/ FailTo(b, last) \/ GoTo(b, more) \/ FailTo(b, more)
      BY <2>4 DEF MarkPerceived, seen
    <3> QED
      BY <3>2, <3>3
  <2>5. CASE ReadPending(b)
    BY <2>2, <2>3, <2>5 DEF ReadPending
  <2>6. CASE WriteCard(b)
    BY <2>2, <2>3, <2>6 DEF WriteCard
  <2> QED
    BY <2>4, <2>5, <2>6
<1>4. Informed(s, verdicts)
  BY <1>1, <1>3 DEF Informed, Unjudged, Calm
<1> QED
  BY <1>2, <1>3, <1>4, SilentStays

LEMMA SilentJudge == ASSUME Known, SilentInv, NEW b \in Beats, Judge(b) PROVE SilentInv'
<1> DEFINE rest == Tail(beat[b].todo)
           kind == VerdictKind(Head(beat[b].todo))
           v == [item |-> Head(beat[b].todo), cycle |-> beat[b].id, kind |-> kind]
           unjudged == [beat[b] EXCEPT !.todo = rest, !.degraded = TRUE]
           judged == [beat[b] EXCEPT !.todo = rest, !.act = beat[b].act \/ kind = "notify_owner"]
<1>1. /\ beat[b] \in BeatStates /\ beat[b].pc = "judge" /\ beat[b].act \in BOOLEAN
      /\ beat[b].act = FALSE => Calm(beat[b].id, verdicts)
      /\ rest \in Seq(Evidence)
  <2>1. beat[b].todo \in Seq(Evidence) /\ beat[b].todo # <<>>
    BY BeatParts DEF Judge
  <2> QED
    BY <2>1, BeatParts, HeadTailProperties DEF SilentInv, Informed, Judge
<1>2. /\ unjudged \in BeatStates /\ unjudged.pc = "judge" /\ unjudged.id = beat[b].id
      /\ unjudged.act = beat[b].act
      /\ judged \in BeatStates /\ judged.pc = "judge" /\ judged.id = beat[b].id
      /\ judged.act = FALSE => beat[b].act = FALSE /\ kind # "notify_owner"
  <2>1. (beat[b].act \/ kind = "notify_owner") \in BOOLEAN
    OBVIOUS
  <2> QED
    BY <1>1, <2>1 DEF BeatStates
<1>3. UNCHANGED <<closures, traces, disk>>
  BY DEF Judge
<1>4. \/ UNCHANGED verdicts /\ FailTo(b, unjudged)
      \/ verdicts' = verdicts \cup {v} /\ GoTo(b, judged)
  BY DEF Judge
<1>5. v.cycle = beat[b].id /\ v.kind = kind
  OBVIOUS
<1> HIDE DEF v, kind, judged, unjudged, rest
<1>6. CASE UNCHANGED verdicts /\ FailTo(b, unjudged)
  <2>1. Informed(unjudged, verdicts)
    BY <1>1, <1>2 DEF Informed
  <2> QED
    BY <1>2, <1>3, <1>6, <2>1, SilentStays
<1>7. CASE verdicts' = verdicts \cup {v} /\ GoTo(b, judged)
  <2>1. beat[b].pc \in Open /\ beat[b].id \in Range(traces) /\ \A r \in closures : r.cycle # beat[b].id
    BY <1>1 DEF Known, LedgerInv, Owned, Open
  <2>2. Informed(judged, verdicts')
    BY <1>1, <1>2, <1>5, <1>7 DEF Informed, Calm
  <2>3. Honest(verdicts', closures', traces') /\ Honest(disk'.verdicts, disk'.closures, disk'.traces)
    BY <1>3, <1>5, <1>7, <2>1 DEF SilentInv, Honest, Calm
  <2> QED
    BY <1>2, <1>3, <1>5, <1>7, <2>1, <2>2, <2>3, SilentMoves
<1> QED
  BY <1>4, <1>6, <1>7

LEMMA SilentQuiet ==
    ASSUME Known, SilentInv, NEW b \in Beats,
           Begin(b) \/ NextSequence(b) \/ Choose(b) \/ Propose(b) \/ AdvanceRhythm(b)
    PROVE  SilentInv'
<1>0. UNCHANGED <<verdicts, closures, traces, disk>>
  BY DEF Begin, NextSequence, Choose, Propose, AdvanceRhythm, tables
<1>1. beat[b] \in BeatStates /\ Informed(beat[b], verdicts)
  BY BeatParts DEF SilentInv
<1>2. SUFFICES \E s \in BeatStates : /\ Informed(s, verdicts) /\ s.pc # "rhythm"
                                     /\ GoTo(b, s) \/ FailTo(b, s)
  BY <1>0, SilentStays
<1>3. CASE Begin(b)
  <2> DEFINE s == [Idle EXCEPT !.pc = "sequence", !.id.at = clock']
  <2>1. clock' \in Nat
    BY <1>3, BeginTyped, TypeSplit DEF Known, TypeInv, Begin
  <2>2. s \in BeatStates /\ s.pc = "sequence"
    BY <2>1, EmptySeq DEF Idle, NoCycle, CycleId, BeatStates, PCs
  <2>3. GoTo(b, s)
    BY <1>3 DEF Begin
  <2> HIDE DEF s
  <2> QED
    BY <2>2, <2>3 DEF Informed
<1>4. CASE NextSequence(b)
  <2> DEFINE s(n) == [beat[b] EXCEPT !.pc = "trace", !.id.seq = n]
  <2>1. LastSequence + 1 \in Nat
    BY TypeSplit, LastSequenceIsMax DEF Known, TypeInv, TablesTyped
  <2>2. GoTo(b, s(LastSequence + 1)) \/ FailTo(b, s(1))
    BY <1>4 DEF NextSequence
  <2>3. \A n \in Nat : s(n) \in BeatStates /\ s(n).pc = "trace"
    BY <1>1 DEF BeatStates, PCs, CycleId
  <2> HIDE DEF s
  <2>4. \A n \in Nat : Informed(s(n), verdicts)
    BY <2>3 DEF Informed
  <2> QED
    BY <2>1, <2>2, <2>3, <2>4
<1>5. CASE Choose(b) /\ beat[b].act
  <2> DEFINE s == [beat[b] EXCEPT !.pc = "propose", !.degraded = FALSE]
  <2>1. s \in BeatStates /\ s.pc = "propose" /\ GoTo(b, s)
    BY <1>1, <1>5 DEF BeatStates, PCs, Choose
  <2> HIDE DEF s
  <2> QED
    BY <2>1 DEF Informed
<1>6. CASE Choose(b) /\ ~beat[b].act
  <2> DEFINE s == NoAction(beat[b], "proposal_no_action", FALSE)
  <2>1. s \in BeatStates /\ s.pc = "close" /\ s.id = beat[b].id /\ GoTo(b, s)
    BY <1>1, <1>6 DEF BeatStates, PCs, Reasons, NoAction, Choose
  <2>2. Calm(beat[b].id, verdicts)
    <3>1. beat[b].pc = "judge" /\ beat[b].act = FALSE
      BY <1>1, <1>6 DEF BeatStates, Choose
    <3> QED
      BY <1>1, <3>1 DEF Informed
  <2> HIDE DEF s
  <2> QED
    BY <2>1, <2>2 DEF Informed
<1>7. CASE Propose(b)
  <2> DEFINE s == [beat[b] EXCEPT !.pc = "close", !.reason = "policy_denied_high_risk"]
             none == NoAction(beat[b], "state_unreadable", TRUE)
  <2>1. /\ s \in BeatStates /\ s.pc = "close" /\ s.reason \notin SilentReasons
        /\ none \in BeatStates /\ none.pc = "close" /\ none.reason \notin SilentReasons
    BY <1>1 DEF BeatStates, PCs, Reasons, NoAction, SilentReasons
  <2>2. GoTo(b, s) \/ FailTo(b, none)
    BY <1>7 DEF Propose
  <2> HIDE DEF s, none
  <2> QED
    BY <2>1, <2>2 DEF Informed
<1>8. CASE AdvanceRhythm(b)
  <2> DEFINE s == [beat[b] EXCEPT !.pc = "flush"]
  <2>1. s \in BeatStates /\ s.pc = "flush" /\ GoTo(b, s)
    BY <1>1, <1>8 DEF BeatStates, PCs, AdvanceRhythm
  <2> HIDE DEF s
  <2> QED
    BY <2>1 DEF Informed
<1> QED
  BY <1>3, <1>4, <1>5, <1>6, <1>7, <1>8

LEMMA SilentClosure == ASSUME Known, SilentInv, NEW b \in Beats, WriteClosure(b) PROVE SilentInv'
<1> DEFINE s == [beat[b] EXCEPT !.pc = "rhythm"]
           r == ClosureOf(beat[b])
<1>1. /\ beat[b] \in BeatStates /\ beat[b].pc = "close"
      /\ beat[b].reason \in SilentReasons => Calm(beat[b].id, verdicts)
  BY BeatParts DEF SilentInv, Informed, WriteClosure
<1>2. s \in BeatStates /\ s.pc = "rhythm" /\ s.id = beat[b].id
  BY <1>1 DEF BeatStates, PCs
<1>3. r.cycle = beat[b].id /\ r.reason = beat[b].reason
  BY DEF ClosureOf
<1>4. UNCHANGED <<verdicts, traces, disk>>
  BY DEF WriteClosure
<1>5. \/ closures' = closures /\ FailTo(b, s)
      \/ closures' = (IF ClosureTaken(r) THEN closures ELSE closures \cup {r}) /\ GoTo(b, s)
  BY DEF WriteClosure
<1> HIDE DEF s, r
<1>6. /\ closures \subseteq closures' /\ closures' \subseteq closures \cup {r}
      /\ (GoTo(b, s) /\ \E x \in closures' : x.cycle = s.id) \/ FailTo(b, s)
  BY <1>2, <1>3, <1>5 DEF ClosureTaken
<1>7. Informed(s, verdicts')
  BY <1>2 DEF Informed
<1>8. Honest(verdicts', closures', traces') /\ Honest(disk'.verdicts, disk'.closures, disk'.traces)
  BY <1>1, <1>3, <1>4, <1>6 DEF SilentInv, Honest
<1> QED
  BY <1>2, <1>4, <1>6, <1>7, <1>8, SilentMoves

LEMMA SilentStep == Known /\ SilentInv /\ [Next]_vars => SilentInv'
<1> SUFFICES ASSUME Known, SilentInv, [Next]_vars PROVE SilentInv'
  OBVIOUS
<1>1. ASSUME NEW e \in Evidence, Ingest(e) PROVE SilentInv'
  BY <1>1 DEF Ingest, SilentInv, ClosedUnlessFailed
<1>2. ASSUME NEW b \in Beats, Flush(b) PROVE SilentInv'
  <2>1. /\ UNCHANGED <<verdicts, closures, traces>> /\ (GoTo(b, Idle) \/ FailTo(b, Idle))
        /\ disk' = disk \/ disk' = Image
    BY <1>2 DEF Flush, tables
  <2>2. Honest(disk'.verdicts, disk'.closures, disk'.traces) /\ Honest(verdicts', closures', traces')
    BY <2>1 DEF Image, SilentInv
  <2>3. Informed(Idle, verdicts') /\ Idle.pc = "idle"
    BY DEF Idle, Informed
  <2>4. Idle \in BeatStates
    BY EmptySeq DEF Idle, NoCycle, CycleId, BeatStates, PCs
  <2> QED
    BY <2>1, <2>2, <2>3, <2>4, SilentMoves
<1>3. CASE Crash
  <2>1. /\ verdicts' = disk.verdicts /\ closures' = disk.closures /\ traces' = disk.traces
        /\ disk' = disk /\ beat' = [b \in Beats |-> Idle]
    BY <1>3 DEF Crash
  <2>2. Informed(Idle, verdicts') /\ Idle.pc = "idle"
    BY DEF Idle, Informed
  <2> QED
    BY <2>1, <2>2 DEF SilentInv, ClosedUnlessFailed
<1>4. CASE UNCHANGED vars
  BY <1>4 DEF vars, SilentInv, ClosedUnlessFailed
<1> QED
  BY <1>1, <1>2, <1>3, <1>4, SilentTrace, SilentPerceive, SilentJudge, SilentQuiet, SilentClosure
  DEF Next, Step

\* A heartbeat that has come past its closure has recorded one unless a call
\* of its own failed, and no closure says there was nothing to do of a cycle
\* that judged something sensitive (recordNoActionClosure, runAgentJudgment).
THEOREM ClosedAsItJudged == Spec => []ClosedAsJudged
<1>1. Init => SilentInv
  BY SilentBegins
<1>2. Known /\ SilentInv /\ [Next]_vars => SilentInv'
  BY SilentStep
<1>3. SilentInv => ClosedAsJudged
  BY DEF SilentInv, Honest, Calm, SilentReasons, ClosedAsJudged, SensitiveNotSilent
<1> QED
  BY <1>1, <1>2, <1>3, KnownAlways, PTL DEF Spec
=============================================================================
