------------------------ MODULE HeartbeatAlone_proofs ------------------------
(***************************************************************************)
(* Proof that heartbeats that do not overlap, and none of whose database   *)
(* calls fails, leave nothing behind that disturbs the next one, although  *)
(* a crash may come at any step: for any number of items and crashes.      *)
(*                                                                         *)
(* The argument: an item gets its card and is marked perceived by the same *)
(* heartbeat, which then judges it before it ends; the file is written     *)
(* between heartbeats only, so a crash goes back to tables in which every  *)
(* carded item is perceived and judged.  So a pending item has no card, no *)
(* batch is given up, and no trace is refused.                             *)
(***************************************************************************)
EXTENDS HeartbeatCycle_proofs, MCHeartbeatCycle

\* The items a beat in state s has marked perceived and not yet judged.
Waiting(s) ==
    CASE s.pc \in {"card", "mark"} -> Range(s.seen)
      [] s.pc = "judge"            -> Range(s.todo)
      [] OTHER                     -> {}

Increasing(t) == \A i, j \in 1..Len(t) : i < j => t[i].seq < t[j].seq

\* A beat in state s that nobody disturbs.
Spotless(s, p, t) ==
    /\ s.reason # "state_unreadable"
    /\ s.pc = "trace" => \A i \in 1..Len(t) : t[i].seq < s.id.seq
    /\ s.pc \in {"card", "mark"} =>
           IsInjective(s.todo) /\ \A k \in 1..Len(s.todo) : s.todo[k] \notin p

\* With one beat, in state s, every item with a card is perceived or about to
\* be, and every perceived one has a verdict or waits for it.
Settled(s, p, c, v) ==
    /\ \A e \in Evidence : c[e] # NoCycle => e \in p \/ (s.pc = "mark" /\ e = Head(s.todo))
    /\ \A e \in p : (\E x \in v : x.item = e) \/ e \in Waiting(s)

Solo == \A b, c \in Busy : b = c

AloneInv ==
    /\ Solo /\ failures = 0
    /\ IsInjective(arrived) /\ IsInjective(disk.arrived)
    /\ Increasing(traces) /\ Increasing(disk.traces)
    /\ \A b \in Beats : Spotless(beat[b], perceived, traces)
    /\ \A b \in Busy : Settled(beat[b], perceived, cards, verdicts)
    /\ Busy = {} => Settled(Idle, perceived, cards, verdicts)
    /\ Settled(Idle, disk.perceived, disk.cards, disk.verdicts)

-----------------------------------------------------------------------------
LEMMA RangeIs ==
    ASSUME NEW S, NEW s \in Seq(S)
    PROVE  \A x : x \in Range(s) <=> \E k \in 1..Len(s) : s[k] = x
<1>1. DOMAIN s = 1..Len(s)
  BY LenProperties
<1> QED
  BY <1>1 DEF Range

\* A lone beat moves to a state that is in order, and nobody else is there.
LEMMA AloneMoves ==
    ASSUME Known, AloneInv, NEW b \in Beats, NEW s \in BeatStates, GoTo(b, s),
           \A c \in Beats \ {b} : beat[c].pc = "idle",
           Spotless(s, perceived', traces'), Settled(s, perceived', cards', verdicts'),
           IsInjective(arrived') /\ IsInjective(disk'.arrived),
           Increasing(traces') /\ Increasing(disk'.traces),
           Settled(Idle, disk'.perceived, disk'.cards, disk'.verdicts)
    PROVE  AloneInv'
<1>1. DOMAIN beat = Beats /\ beat' = [beat EXCEPT ![b] = s] /\ failures' = 0
  BY TypeSplit DEF Known, TypeInv, GoTo, AloneInv
<1>2. beat'[b] = s /\ \A c \in Beats \ {b} : beat'[c] = beat[c] /\ beat'[c].pc = "idle"
  BY <1>1
<1>3. Busy' \subseteq {b}
  BY <1>2 DEF Busy
<1>4. \A c \in Beats \ {b} : Spotless(beat'[c], perceived', traces')
  BY <1>2 DEF AloneInv, Spotless
<1>5. Busy' = {} => Settled(Idle, perceived', cards', verdicts')
  <2>1. Busy' = {} => s.pc = "idle"
    BY <1>2 DEF Busy
  <2>2. s.pc = "idle" => Waiting(s) = {}
    BY DEF Waiting
  <2>3. Waiting(Idle) = {} /\ Idle.pc = "idle"
    BY DEF Waiting, Idle
  <2> QED
    BY <2>1, <2>2, <2>3 DEF Settled
<1> QED
  BY <1>1, <1>2, <1>3, <1>4, <1>5 DEF AloneInv, Solo

\* The same for a step that writes no table of the argument.
LEMMA AloneStays ==
    ASSUME Known, AloneInv, NEW b \in Beats, NEW s \in BeatStates, GoTo(b, s),
           \A c \in Beats \ {b} : beat[c].pc = "idle",
           Spotless(s, perceived, traces), Settled(s, perceived, cards, verdicts),
           UNCHANGED <<arrived, perceived, cards, verdicts, traces, disk>>
    PROVE  AloneInv'
<1>1. /\ IsInjective(arrived') /\ IsInjective(disk'.arrived)
      /\ Increasing(traces') /\ Increasing(disk'.traces)
      /\ Settled(Idle, disk'.perceived, disk'.cards, disk'.verdicts)
      /\ Spotless(s, perceived', traces') /\ Settled(s, perceived', cards', verdicts')
  BY DEF AloneInv
<1> QED
  BY <1>1, AloneMoves

\* Of a busy beat the others are idle, and its calls do not fail.
LEMMA AloneFacts ==
    ASSUME Known, AloneInv, NEW b \in Beats, Step(b), failures' = 0
    PROVE  /\ \A c \in Beats \ {b} : beat[c].pc = "idle"
           /\ \A s : ~FailTo(b, s)
           /\ Spotless(beat[b], perceived, traces)
           /\ Settled(beat[b], perceived, cards, verdicts)
<1>1. beat[b].pc # "idle"
  BY DEF Step, NextSequence, WriteTrace, ReadPending, WriteCard, MarkPerceived, Judge, Choose,
         Propose, WriteClosure, AdvanceRhythm, Flush
<1>2. b \in Busy
  BY <1>1 DEF Busy
<1>3. \A s : ~FailTo(b, s)
  BY DEF FailTo, AloneInv
<1> QED
  BY <1>2, <1>3 DEF AloneInv, Solo, Busy

LEMMA AloneBegins == Init => AloneInv
<1> SUFFICES ASSUME Init PROVE AloneInv
  OBVIOUS
<1>1. \A b \in Beats : beat[b] = Idle
  BY DEF Init
<1>2. Busy = {} /\ Solo
  BY <1>1 DEF Busy, Solo, Idle
<1>3. /\ arrived = <<>> /\ disk.arrived = <<>> /\ traces = <<>> /\ disk.traces = <<>>
      /\ IsInjective(<<>>) /\ Increasing(<<>>) /\ failures = 0
  BY DEF Init, Image, IsInjective, Increasing
<1>4. Spotless(Idle, perceived, traces)
  BY DEF Spotless, Idle
<1>5. /\ perceived = {} /\ disk.perceived = {} /\ disk.cards = cards
      /\ \A e \in Evidence : cards[e] = NoCycle
  BY DEF Init, Image
<1>6. Settled(Idle, perceived, cards, verdicts) /\ Settled(Idle, disk.perceived, disk.cards, disk.verdicts)
  BY <1>5 DEF Settled
<1> QED
  BY <1>1, <1>2, <1>3, <1>4, <1>6 DEF AloneInv

LEMMA AloneIngest == ASSUME Known, AloneInv, NEW e \in Evidence, Ingest(e) PROVE AloneInv'
<1>1. arrived \in Seq(Evidence) /\ Len(arrived) \in Nat /\ DOMAIN arrived = 1..Len(arrived)
  BY TypeSplit, LenProperties DEF Known, TypeInv, TablesTyped
<1>2. \A i \in 1..Len(arrived) : arrived[i] # e
  BY <1>1 DEF Ingest, Contains
<1>3. /\ Len(arrived') = Len(arrived) + 1 /\ DOMAIN arrived' = 1..(Len(arrived) + 1)
      /\ \A i \in 1..Len(arrived) : arrived'[i] = arrived[i]
      /\ arrived'[Len(arrived) + 1] = e
  BY <1>1, AppendProperties, LenProperties DEF Ingest
<1>4. \A i \in 1..(Len(arrived) + 1) : i \in 1..Len(arrived) \/ i = Len(arrived) + 1
  BY <1>1
<1>5. IsInjective(arrived')
  BY <1>1, <1>2, <1>3, <1>4 DEF AloneInv, IsInjective
<1> QED
  BY <1>5 DEF Ingest, AloneInv, Solo, Busy

LEMMA AloneBegin == ASSUME Known, AloneInv, NEW b \in Beats, Begin(b), Solo' PROVE AloneInv'
<1> DEFINE s == [Idle EXCEPT !.pc = "sequence", !.id.at = clock']
<1>1. DOMAIN beat = Beats /\ clock' \in Nat
  <2>1. DOMAIN beat = Beats /\ clock \in Nat
    BY TypeSplit DEF Known, TypeInv
  <2>2. clock' \in {clock, clock + 1}
    BY DEF Begin
  <2> QED
    BY <2>1, <2>2
<1>2. s \in BeatStates /\ s.pc = "sequence" /\ s.reason = "none"
  BY <1>1, EmptySeq DEF Idle, NoCycle, CycleId, BeatStates, PCs
<1>3. GoTo(b, s) /\ UNCHANGED <<arrived, perceived, cards, verdicts, traces, disk>>
  BY DEF Begin, tables
<1> HIDE DEF s
<1>4. beat'[b] = s /\ \A c \in Beats \ {b} : beat'[c] = beat[c]
  BY <1>1, <1>3 DEF GoTo
<1>5. \A c \in Beats \ {b} : beat[c].pc = "idle"
  BY <1>2, <1>4 DEF Solo, Busy
<1>6. Busy = {}
  BY <1>5 DEF Busy, Begin
<1>7. Settled(s, perceived, cards, verdicts)
  <2>1. Waiting(s) = {} /\ Waiting(Idle) = {} /\ Idle.pc = "idle"
    BY <1>2 DEF Waiting, Idle
  <2> QED
    BY <1>2, <1>6, <2>1 DEF AloneInv, Settled
<1>8. Spotless(s, perceived, traces)
  BY <1>2 DEF Spotless
<1> QED
  BY <1>2, <1>3, <1>5, <1>7, <1>8, AloneStays

LEMMA AloneSequence ==
    ASSUME Known, AloneInv, NEW b \in Beats, NextSequence(b), failures' = 0 PROVE AloneInv'
<1> DEFINE n == LastSequence + 1
           s == [beat[b] EXCEPT !.pc = "trace", !.id.seq = n]
<1>1. /\ \A c \in Beats \ {b} : beat[c].pc = "idle"
      /\ \A t : ~FailTo(b, t)
      /\ Spotless(beat[b], perceived, traces) /\ Settled(beat[b], perceived, cards, verdicts)
  BY AloneFacts DEF Step
<1>2. traces \in Seq(CycleId)
  BY TypeSplit DEF Known, TypeInv, TablesTyped
<1>3. n \in Nat /\ \A i \in 1..Len(traces) : traces[i].seq < n
  <2>1. \A i \in 1..Len(traces) : traces[i].seq \in Nat
    <3>1. \A i \in 1..Len(traces) : traces[i] \in CycleId
      BY <1>2, ElementOfSeq
    <3> QED
      BY <3>1 DEF CycleId
  <2> QED
    BY <1>2, <2>1, LastSequenceIsMax
<1>4. beat[b] \in BeatStates
  BY BeatParts
<1>5. GoTo(b, s) /\ UNCHANGED <<arrived, perceived, cards, verdicts, traces, disk>> /\ beat[b].pc = "sequence"
  BY <1>1 DEF NextSequence, tables
<1> HIDE DEF n
<1>6. s \in BeatStates /\ s.pc = "trace" /\ s.id.seq = n /\ s.reason = beat[b].reason
  BY <1>3, <1>4 DEF BeatStates, PCs, CycleId
<1> HIDE DEF s
<1>7. Settled(s, perceived, cards, verdicts)
  <2>1. Waiting(s) = {} /\ Waiting(beat[b]) = {}
    BY <1>5, <1>6 DEF Waiting
  <2> QED
    BY <1>1, <1>5, <1>6, <2>1 DEF Settled
<1>8. Spotless(s, perceived, traces)
  BY <1>1, <1>3, <1>6 DEF Spotless
<1> QED
  BY <1>1, <1>5, <1>6, <1>7, <1>8, AloneStays

\* The id's number is above all traced ones: the trace is not refused.
LEMMA AloneTrace ==
    ASSUME Known, AloneInv, NEW b \in Beats, WriteTrace(b), failures' = 0 PROVE AloneInv'
<1> DEFINE s == [beat[b] EXCEPT !.pc = "perceive"]
           id == beat[b].id
<1>1. /\ \A c \in Beats \ {b} : beat[c].pc = "idle"
      /\ \A t : ~FailTo(b, t)
      /\ Spotless(beat[b], perceived, traces) /\ Settled(beat[b], perceived, cards, verdicts)
  BY AloneFacts DEF Step
<1>2. traces \in Seq(CycleId) /\ Len(traces) \in Nat /\ DOMAIN traces = 1..Len(traces)
  BY TypeSplit, LenProperties DEF Known, TypeInv, TablesTyped
<1>3. beat[b] \in BeatStates /\ id \in CycleId /\ beat[b].pc = "trace"
  BY BeatParts DEF WriteTrace
<1>4. \A i \in 1..Len(traces) : traces[i].seq < id.seq /\ traces[i].seq \in Nat
  <2>1. \A i \in 1..Len(traces) : traces[i] \in CycleId
    BY <1>2, ElementOfSeq
  <2>2. \A i \in 1..Len(traces) : traces[i].seq \in Nat
    BY <2>1 DEF CycleId
  <2> QED
    BY <1>1, <1>3, <2>2 DEF Spotless
<1>5. id.seq \in Nat
  BY <1>3 DEF CycleId
<1>6. ~TraceTaken(id)
  BY <1>4, <1>5 DEF TraceTaken, Contains
<1>7. traces' = Append(traces, id) /\ GoTo(b, s) /\ UNCHANGED <<arrived, perceived, cards, verdicts, disk>>
  BY <1>1, <1>6 DEF WriteTrace
<1>8. s \in BeatStates /\ s.pc = "perceive" /\ s.reason = beat[b].reason
  BY <1>3 DEF BeatStates, PCs
<1> HIDE DEF s
<1>9. Increasing(traces')
  <2>1. /\ Len(traces') = Len(traces) + 1
        /\ \A i \in 1..Len(traces) : traces'[i] = traces[i]
        /\ traces'[Len(traces) + 1] = id
    BY <1>2, <1>3, <1>7, AppendProperties
  <2> SUFFICES ASSUME NEW i \in 1..Len(traces'), NEW j \in 1..Len(traces'), i < j
               PROVE  traces'[i].seq < traces'[j].seq
    BY DEF Increasing
  <2>2. i \in 1..Len(traces) /\ (j \in 1..Len(traces) \/ j = Len(traces) + 1)
    BY <1>2, <2>1
  <2>3. CASE j \in 1..Len(traces)
    BY <2>1, <2>2, <2>3 DEF AloneInv, Increasing
  <2>4. CASE j = Len(traces) + 1
    BY <1>4, <2>1, <2>2, <2>4
  <2> QED
    BY <2>2, <2>3, <2>4
<1>10. Settled(s, perceived', cards', verdicts')
  <2>1. Waiting(s) = {} /\ Waiting(beat[b]) = {}
    BY <1>3, <1>8 DEF Waiting
  <2> QED
    BY <1>1, <1>3, <1>7, <1>8, <2>1 DEF Settled
<1>11. Spotless(s, perceived', traces')
  BY <1>1, <1>8 DEF Spotless
<1>12. /\ IsInjective(arrived') /\ IsInjective(disk'.arrived) /\ Increasing(disk'.traces)
       /\ Settled(Idle, disk'.perceived, disk'.cards, disk'.verdicts)
  BY <1>7 DEF AloneInv
<1> QED
  BY <1>1, <1>7, <1>8, <1>9, <1>10, <1>11, <1>12, AloneMoves

LEMMA AloneRead ==
    ASSUME Known, AloneInv, NEW b \in Beats, ReadPending(b), failures' = 0 PROVE AloneInv'
<1> DEFINE s == [beat[b] EXCEPT !.pc = "card", !.todo = PendingBatch]
           none == NoAction(beat[b], "evidence_batch_empty", FALSE)
<1>1. /\ \A c \in Beats \ {b} : beat[c].pc = "idle"
      /\ \A t : ~FailTo(b, t)
      /\ Spotless(beat[b], perceived, traces) /\ Settled(beat[b], perceived, cards, verdicts)
  BY AloneFacts DEF Step
<1>2. beat[b] \in BeatStates /\ beat[b].seen = <<>> /\ beat[b].pc = "perceive"
  BY BeatParts DEF Holding, ReadPending
<1>3. OfPending(PendingBatch, Len(arrived))
  BY TypeSplit, BatchPending DEF Known, TypeInv, TablesTyped
<1>4. /\ PendingBatch \in Seq(Evidence) /\ IsInjective(PendingBatch)
      /\ \A k \in 1..Len(PendingBatch) : PendingBatch[k] \notin perceived
  BY <1>3 DEF OfPending, AloneInv
<1>5. /\ s \in BeatStates /\ s.pc = "card" /\ s.todo = PendingBatch /\ s.seen = <<>>
      /\ s.reason = beat[b].reason
  BY <1>2, <1>4 DEF BeatStates, PCs
<1>6. none \in BeatStates /\ none.pc = "close" /\ none.reason = "evidence_batch_empty"
  BY <1>2 DEF NoAction, BeatStates, PCs, Reasons
<1>7. GoTo(b, s) \/ GoTo(b, none)
  BY <1>1 DEF ReadPending
<1>8. UNCHANGED <<arrived, perceived, cards, verdicts, traces, disk>>
  BY DEF ReadPending
<1> HIDE DEF s, none
<1>9. Waiting(s) = {} /\ Waiting(none) = {} /\ Waiting(beat[b]) = {}
  <2>1. Range(<<>>) = {}
    BY DEF Range
  <2> QED
    BY <1>2, <1>5, <1>6, <2>1 DEF Waiting
<1>10. Settled(s, perceived, cards, verdicts) /\ Settled(none, perceived, cards, verdicts)
  BY <1>1, <1>2, <1>9 DEF Settled
<1>11. Spotless(s, perceived, traces) /\ Spotless(none, perceived, traces)
  BY <1>1, <1>4, <1>5, <1>6 DEF Spotless
<1> QED
  BY <1>1, <1>5, <1>6, <1>7, <1>8, <1>10, <1>11, AloneStays

\* A pending item has no card: the batch is not given up.
LEMMA AloneCard ==
    ASSUME Known, AloneInv, NEW b \in Beats, WriteCard(b), failures' = 0 PROVE AloneInv'
<1> DEFINE s == [beat[b] EXCEPT !.pc = "mark"]
           e == Head(beat[b].todo)
<1>1. /\ \A c \in Beats \ {b} : beat[c].pc = "idle"
      /\ \A t : ~FailTo(b, t)
      /\ Spotless(beat[b], perceived, traces) /\ Settled(beat[b], perceived, cards, verdicts)
  BY AloneFacts DEF Step
<1>2. /\ beat[b] \in BeatStates /\ beat[b].pc = "card" /\ beat[b].todo \in Seq(Evidence)
      /\ beat[b].todo # <<>>
  BY BeatParts DEF WriteCard
<1>3. e \in Evidence /\ e = beat[b].todo[1] /\ 1 \in 1..Len(beat[b].todo)
  <2>1. Len(beat[b].todo) \in Nat \ {0}
    BY <1>2, EmptySeq
  <2> QED
    BY <1>2, <2>1, HeadTailProperties
<1>4. e \notin perceived /\ ~CardTaken(e)
  BY <1>1, <1>2, <1>3 DEF Spotless, Settled, CardTaken
<1>5. /\ cards' = [cards EXCEPT ![e] = beat[b].id] /\ GoTo(b, s)
      /\ UNCHANGED <<arrived, perceived, verdicts, traces, disk>>
  BY <1>1, <1>4 DEF WriteCard
<1>6. /\ s \in BeatStates /\ s.pc = "mark" /\ s.todo = beat[b].todo /\ s.seen = beat[b].seen
      /\ s.reason = beat[b].reason
  BY <1>2 DEF BeatStates, PCs
<1>7. cards \in [Evidence -> CycleId]
  BY TypeSplit DEF Known, TypeInv, TablesTyped
<1> HIDE DEF s
<1>8. Waiting(s) = Waiting(beat[b])
  BY <1>2, <1>6 DEF Waiting
<1>9. Settled(s, perceived', cards', verdicts')
  BY <1>1, <1>2, <1>5, <1>6, <1>7, <1>8 DEF Settled
<1>10. Spotless(s, perceived', traces')
  BY <1>1, <1>2, <1>5, <1>6 DEF Spotless
<1>11. /\ IsInjective(arrived') /\ IsInjective(disk'.arrived) /\ Increasing(traces')
       /\ Increasing(disk'.traces) /\ Settled(Idle, disk'.perceived, disk'.cards, disk'.verdicts)
  BY <1>5 DEF AloneInv
<1> QED
  BY <1>1, <1>5, <1>6, <1>9, <1>10, <1>11, AloneMoves

\* The card's item is perceived and waits for its verdict.
LEMMA AloneMark ==
    ASSUME Known, AloneInv, NEW b \in Beats, MarkPerceived(b), failures' = 0 PROVE AloneInv'
<1> DEFINE u == beat[b]
           e == Head(u.todo)
           seen == Append(u.seen, e)
           s == IF Tail(u.todo) = <<>>
                THEN [u EXCEPT !.pc = "judge", !.todo = seen, !.seen = <<>>]
                ELSE [u EXCEPT !.pc = "card", !.todo = Tail(u.todo), !.seen = seen]
<1>1. /\ \A c \in Beats \ {b} : beat[c].pc = "idle"
      /\ \A t : ~FailTo(b, t)
      /\ Spotless(u, perceived, traces) /\ Settled(u, perceived, cards, verdicts)
  BY AloneFacts DEF Step
<1>2. /\ u \in BeatStates /\ u.pc = "mark" /\ u.todo \in Seq(Evidence) /\ u.seen \in Seq(Evidence)
      /\ u.todo # <<>>
  BY BeatParts DEF MarkPerceived
<1>3. /\ perceived' = perceived \cup {e} /\ GoTo(b, s)
      /\ UNCHANGED <<arrived, cards, verdicts, traces, disk>>
  BY <1>1 DEF MarkPerceived
<1>4. /\ e \in Evidence /\ e = u.todo[1] /\ Tail(u.todo) \in Seq(Evidence)
      /\ Len(u.todo) \in Nat \ {0} /\ Len(Tail(u.todo)) = Len(u.todo) - 1
      /\ \A k \in 1..Len(Tail(u.todo)) : Tail(u.todo)[k] = u.todo[k + 1]
  <2>1. Len(u.todo) \in Nat \ {0}
    BY <1>2, EmptySeq
  <2> QED
    BY <1>2, <2>1, HeadTailProperties, ElementOfSeq
<1>5. seen \in Seq(Evidence) /\ Range(seen) = Range(u.seen) \cup {e}
  <2>1. seen \in Seq(Evidence)
    BY <1>2, <1>4, AppendProperties
  <2>2. /\ Len(seen) = Len(u.seen) + 1 /\ Len(u.seen) \in Nat
        /\ \A i \in 1..Len(u.seen) : seen[i] = u.seen[i]
        /\ seen[Len(u.seen) + 1] = e
    BY <1>2, <1>4, AppendProperties, LenProperties
  <2>3. DOMAIN u.seen = 1..Len(u.seen) /\ DOMAIN seen = 1..(Len(u.seen) + 1)
    BY <1>2, <2>1, <2>2, LenProperties
  <2> QED
    BY <2>1, <2>2, <2>3 DEF Range
<1>6. /\ s \in BeatStates /\ s.reason = u.reason /\ s.pc \in {"judge", "card"}
      /\ s.pc = "judge" => s.todo = seen
      /\ s.pc = "card" => s.seen = seen /\ s.todo = Tail(u.todo)
  BY <1>2, <1>4, <1>5, EmptySeq DEF BeatStates, PCs
<1> HIDE DEF s, seen, e, u
<1>7. Waiting(s) = Waiting(u) \cup {e}
  BY <1>2, <1>5, <1>6 DEF Waiting
<1>8. Settled(s, perceived', cards', verdicts')
  BY <1>1, <1>2, <1>3, <1>6, <1>7 DEF Settled, e
<1>9. Spotless(s, perceived', traces')
  <2> SUFFICES ASSUME s.pc = "card"
               PROVE  IsInjective(s.todo) /\ \A k \in 1..Len(s.todo) : s.todo[k] \notin perceived'
    BY <1>1, <1>6 DEF Spotless
  <2> DEFINE r == Tail(u.todo)
  <2>1. s.todo = r /\ DOMAIN r = 1..Len(r) /\ DOMAIN u.todo = 1..Len(u.todo)
    BY <1>2, <1>4, <1>6, LenProperties
  <2>2. /\ \A k, m \in 1..Len(u.todo) : u.todo[k] = u.todo[m] => k = m
        /\ \A k \in 1..Len(u.todo) : u.todo[k] \notin perceived
    BY <1>1, <1>2, <2>1 DEF Spotless, IsInjective
  <2>3. \A k \in 1..Len(r) : r[k] = u.todo[k + 1] /\ k + 1 \in 1..Len(u.todo) /\ k + 1 # 1
    BY <1>4
  <2>4. 1 \in 1..Len(u.todo)
    BY <1>4
  <2> HIDE DEF r
  <2>5. \A k \in 1..Len(r) : r[k] \notin perceived /\ r[k] # e
    BY <1>4, <2>2, <2>3, <2>4
  <2>6. \A k, m \in 1..Len(r) : r[k] = r[m] => k = m
    <3>1. SUFFICES ASSUME NEW k \in 1..Len(r), NEW m \in 1..Len(r), r[k] = r[m] PROVE k = m
      OBVIOUS
    <3>2. k + 1 = m + 1
      BY <2>2, <2>3, <3>1
    <3> QED
      BY <3>2
  <2>7. IsInjective(r)
    BY <2>1, <2>6 DEF IsInjective
  <2> QED
    BY <1>3, <2>1, <2>5, <2>7
<1>10. /\ IsInjective(arrived') /\ IsInjective(disk'.arrived) /\ Increasing(traces')
       /\ Increasing(disk'.traces) /\ Settled(Idle, disk'.perceived, disk'.cards, disk'.verdicts)
  BY <1>3 DEF AloneInv
<1> QED
  BY <1>1, <1>3, <1>6, <1>8, <1>9, <1>10, AloneMoves DEF u

LEMMA AloneJudge ==
    ASSUME Known, AloneInv, NEW b \in Beats, Judge(b), failures' = 0 PROVE AloneInv'
<1> DEFINE u == beat[b]
           e == Head(u.todo)
           row == [item |-> e, cycle |-> u.id, kind |-> VerdictKind(e)]
           act == u.act \/ VerdictKind(e) = "notify_owner"
           s == [u EXCEPT !.todo = Tail(u.todo), !.act = act]
<1>1. /\ \A c \in Beats \ {b} : beat[c].pc = "idle"
      /\ \A t : ~FailTo(b, t)
      /\ Spotless(u, perceived, traces) /\ Settled(u, perceived, cards, verdicts)
  BY AloneFacts DEF Step
<1>2. /\ u \in BeatStates /\ u.pc = "judge" /\ u.todo \in Seq(Evidence) /\ u.todo # <<>>
      /\ act \in BOOLEAN
  BY BeatParts DEF Judge
<1>3. /\ verdicts' = verdicts \cup {row} /\ GoTo(b, s)
      /\ UNCHANGED <<arrived, perceived, cards, traces, disk>>
  BY <1>1 DEF Judge
<1>4. /\ Tail(u.todo) \in Seq(Evidence) /\ Len(Tail(u.todo)) = Len(u.todo) - 1
      /\ Len(u.todo) \in Nat \ {0} /\ e = u.todo[1]
      /\ \A k \in 1..Len(Tail(u.todo)) : Tail(u.todo)[k] = u.todo[k + 1]
  <2>1. Len(u.todo) \in Nat \ {0}
    BY <1>2, EmptySeq
  <2> QED
    BY <1>2, <2>1, HeadTailProperties
<1> HIDE DEF act
<1>5. s \in BeatStates /\ s.reason = u.reason /\ s.pc = "judge" /\ s.todo = Tail(u.todo)
  BY <1>2, <1>4 DEF BeatStates
<1> HIDE DEF s, u, e
<1>6. Waiting(u) \subseteq Waiting(s) \cup {e}
  <2>1. Waiting(u) = Range(u.todo) /\ Waiting(s) = Range(Tail(u.todo))
    BY <1>2, <1>5 DEF Waiting
  <2> SUFFICES ASSUME NEW x \in Range(u.todo) PROVE x \in Range(Tail(u.todo)) \/ x = e
    BY <2>1
  <2>2. PICK k \in 1..Len(u.todo) : u.todo[k] = x
    BY <1>2, RangeIs
  <2>3. CASE k = 1
    BY <1>4, <2>2, <2>3
  <2>4. CASE k # 1
    <3>1. k - 1 \in 1..Len(Tail(u.todo)) /\ (k - 1) + 1 = k
      BY <1>4, <2>2, <2>4
    <3>2. Tail(u.todo)[k - 1] = x
      BY <1>4, <2>2, <3>1
    <3> QED
      BY <1>4, <3>1, <3>2, RangeIs
  <2> QED
    BY <2>3, <2>4
<1>7. Settled(s, perceived', cards', verdicts')
  <2>1. row \in verdicts' /\ row.item = e
    BY <1>3
  <2> HIDE DEF row
  <2> QED
    BY <1>1, <1>2, <1>3, <1>5, <1>6, <2>1 DEF Settled
<1>8. Spotless(s, perceived', traces')
  BY <1>1, <1>5 DEF Spotless
<1>9. /\ IsInjective(arrived') /\ IsInjective(disk'.arrived) /\ Increasing(traces')
      /\ Increasing(disk'.traces) /\ Settled(Idle, disk'.perceived, disk'.cards, disk'.verdicts)
  BY <1>3 DEF AloneInv
<1> QED
  BY <1>1, <1>3, <1>5, <1>7, <1>8, <1>9, AloneMoves DEF u

\* The steps after judgment: nothing waits any more.
LEMMA AloneLater ==
    ASSUME Known, AloneInv, NEW b \in Beats, failures' = 0,
           Choose(b) \/ Propose(b) \/ WriteClosure(b) \/ AdvanceRhythm(b)
    PROVE  AloneInv'
<1> DEFINE u == beat[b]
<1>1. /\ \A c \in Beats \ {b} : beat[c].pc = "idle"
      /\ \A t : ~FailTo(b, t)
      /\ Spotless(u, perceived, traces) /\ Settled(u, perceived, cards, verdicts)
  BY AloneFacts DEF Step
<1>2. u \in BeatStates
  BY BeatParts
<1>3. UNCHANGED <<arrived, perceived, cards, verdicts, traces, disk>>
  BY DEF Choose, Propose, WriteClosure, AdvanceRhythm, tables
<1>4. Waiting(u) = {} /\ u.pc # "mark"
  <2>1. Range(<<>>) = {}
    BY DEF Range
  <2> QED
    BY <2>1 DEF Waiting, Choose, Propose, WriteClosure, AdvanceRhythm
<1>5. PICK s \in BeatStates : /\ GoTo(b, s) /\ s.reason # "state_unreadable"
                              /\ s.pc \in {"propose", "close", "rhythm", "flush"}
  <2> DEFINE s1 == [u EXCEPT !.pc = "propose", !.degraded = FALSE]
             s2 == NoAction(u, "proposal_no_action", FALSE)
             s3 == [u EXCEPT !.pc = "close", !.reason = "policy_denied_high_risk"]
             s4 == [u EXCEPT !.pc = "rhythm"]
             s5 == [u EXCEPT !.pc = "flush"]
  <2>1. {s1, s2, s3, s4, s5} \subseteq BeatStates
    <3>1. s2 \in BeatStates
      BY <1>2, NoActionTyped DEF Reasons
    <3>2. s1 \in BeatStates /\ s3 \in BeatStates
      BY <1>2 DEF BeatStates, PCs, Reasons
    <3>3. s4 \in BeatStates /\ s5 \in BeatStates
      BY <1>2 DEF BeatStates, PCs
    <3> HIDE DEF s1, s2, s3, s4, s5
    <3> QED
      BY <3>1, <3>2, <3>3
  <2>2. /\ s1.pc = "propose" /\ s1.reason = u.reason /\ s2.pc = "close" /\ s2.reason = "proposal_no_action"
        /\ s3.pc = "close" /\ s3.reason = "policy_denied_high_risk"
        /\ s4.pc = "rhythm" /\ s4.reason = u.reason /\ s5.pc = "flush" /\ s5.reason = u.reason
    BY <1>2 DEF BeatStates, NoAction
  <2>3. GoTo(b, s1) \/ GoTo(b, s2) \/ GoTo(b, s3) \/ GoTo(b, s4) \/ GoTo(b, s5)
    <3>1. CASE Choose(b)
      BY <3>1 DEF Choose
    <3>2. CASE Propose(b)
      BY <1>1, <3>2 DEF Propose
    <3>3. CASE WriteClosure(b)
      BY <1>1, <3>3 DEF WriteClosure
    <3>4. CASE AdvanceRhythm(b)
      BY <3>4 DEF AdvanceRhythm
    <3> QED
      BY <3>1, <3>2, <3>3, <3>4
  <2> HIDE DEF s1, s2, s3, s4, s5
  <2> QED
    BY <1>1, <2>1, <2>2, <2>3 DEF Spotless
<1>6. Settled(s, perceived, cards, verdicts)
  BY <1>1, <1>4 DEF Settled
<1>7. Spotless(s, perceived, traces)
  BY <1>5 DEF Spotless
<1> QED
  BY <1>1, <1>3, <1>5, <1>6, <1>7, AloneStays

LEMMA AloneFlush ==
    ASSUME Known, AloneInv, NEW b \in Beats, Flush(b), failures' = 0 PROVE AloneInv'
<1>1. /\ \A c \in Beats \ {b} : beat[c].pc = "idle"
      /\ \A t : ~FailTo(b, t)
      /\ Spotless(beat[b], perceived, traces) /\ Settled(beat[b], perceived, cards, verdicts)
  BY AloneFacts DEF Step
<1>2. /\ disk' = Image /\ GoTo(b, Idle) /\ beat[b].pc = "flush"
      /\ UNCHANGED <<arrived, perceived, cards, verdicts, traces>>
  BY <1>1 DEF Flush, tables
<1>3. Idle \in BeatStates /\ Idle.pc = "idle" /\ Idle.reason = "none"
  BY EmptySeq DEF Idle, NoCycle, CycleId, BeatStates, PCs
<1>4. Waiting(Idle) = {} /\ Waiting(beat[b]) = {}
  BY <1>2, <1>3 DEF Waiting
<1>5. Settled(Idle, perceived, cards, verdicts)
  BY <1>1, <1>2, <1>3, <1>4 DEF Settled
<1>6. Spotless(Idle, perceived', traces')
  BY <1>3 DEF Spotless
<1>7. /\ disk'.arrived = arrived /\ disk'.perceived = perceived /\ disk'.cards = cards
      /\ disk'.verdicts = verdicts /\ disk'.traces = traces
  BY <1>2 DEF Image
<1>8. /\ IsInjective(arrived') /\ IsInjective(disk'.arrived) /\ Increasing(traces')
      /\ Increasing(disk'.traces) /\ Settled(Idle, disk'.perceived, disk'.cards, disk'.verdicts)
      /\ Settled(Idle, perceived', cards', verdicts')
  BY <1>2, <1>5, <1>7 DEF AloneInv
<1> QED
  BY <1>1, <1>2, <1>3, <1>6, <1>8, AloneMoves

LEMMA AloneCrash == ASSUME Known, AloneInv, Crash PROVE AloneInv'
<1>1. /\ arrived' = disk.arrived /\ perceived' = disk.perceived /\ cards' = disk.cards
      /\ verdicts' = disk.verdicts /\ traces' = disk.traces /\ disk' = disk /\ failures' = failures
  BY DEF Crash
<1>2. \A b \in Beats : beat'[b] = Idle
  BY DEF Crash
<1>3. Idle.pc = "idle" /\ Idle.reason = "none"
  BY DEF Idle
<1>4. Busy' = {} /\ Solo'
  BY <1>2, <1>3 DEF Busy, Solo
<1>5. \A b \in Beats : Spotless(beat'[b], perceived', traces')
  BY <1>2, <1>3 DEF Spotless
<1> QED
  BY <1>1, <1>4, <1>5 DEF AloneInv

\* Between the steps of one heartbeat at a time nothing is lost, and the
\* flush keeps that for a crash to come back to.
LEMMA AloneStep ==
    ASSUME Known, AloneInv, [Next]_vars, Solo', failures' = 0 PROVE AloneInv'
<1>1. ASSUME NEW e \in Evidence, Ingest(e) PROVE AloneInv'
  BY <1>1, AloneIngest
<1>2. ASSUME NEW b \in Beats, Begin(b) PROVE AloneInv'
  BY <1>2, AloneBegin
<1>3. ASSUME NEW b \in Beats, Step(b) PROVE AloneInv'
  BY <1>3, AloneSequence, AloneTrace, AloneRead, AloneCard, AloneMark, AloneJudge, AloneLater,
     AloneFlush DEF Step
<1>4. CASE Crash
  BY <1>4, AloneCrash
<1>5. CASE UNCHANGED vars
  BY <1>5 DEF vars, AloneInv, Solo, Busy
<1> QED
  BY <1>1, <1>2, <1>3, <1>4, <1>5 DEF Next

LEMMA AloneAlways == MCSpec => [](Known /\ (alone => AloneInv))
<1>1. MCInit => Known /\ (alone => AloneInv)
  BY AloneBegins, TypesBegin, LedgerInvInit, EvidenceBegins DEF MCInit, Known
<1>2. Known /\ (alone => AloneInv) /\ [MCNext]_<<vars, alone>> => (Known /\ (alone => AloneInv))'
  <2> SUFFICES ASSUME Known, alone => AloneInv, [MCNext]_<<vars, alone>>
               PROVE  Known' /\ (alone' => AloneInv')
    OBVIOUS
  <2>1. [Next]_vars /\ alone' = alone
    BY DEF MCNext
  <2>2. Known'
    BY <2>1, TypesStep, LedgerInvStep, EvidenceStep DEF Known
  <2>3. alone' => AloneInv'
    <3> SUFFICES ASSUME alone' PROVE AloneInv'
      OBVIOUS
    <3>1. CASE MCNext
      <4>1. Solo' /\ failures' = 0
        BY <2>1, <3>1 DEF MCNext, Solo
      <4> QED
        BY <2>1, <4>1, AloneStep
    <3>2. CASE UNCHANGED <<vars, alone>>
      BY <2>1, <3>2 DEF vars, AloneInv, Solo, Busy
    <3> QED
      BY <3>1, <3>2
  <2> QED
    BY <2>2, <2>3
<1> QED
  BY <1>1, <1>2, PTL DEF MCSpec

\* One heartbeat at a time, whatever the number of items and of crashes
\* between its steps: the sequence numbers grow with the traces
\* (nextCycleSequence reads the largest one), no item that was marked
\* perceived is left without a verdict after a restart, and no heartbeat ends
\* as unreadable because of what an earlier one left behind.
THEOREM AloneUndisturbed == MCSpec => []Undisturbed
<1>1. Known /\ AloneInv => SequenceIncreasing
  <2>1. Known => DOMAIN traces = 1..Len(traces)
    BY TypeSplit, LenProperties DEF Known, TypeInv, TablesTyped
  <2> QED
    BY <2>1 DEF AloneInv, Increasing, SequenceIncreasing
<1>2. AloneInv => NothingForgotten
  <2>1. Waiting(Idle) = {}
    BY DEF Waiting, Idle
  <2> SUFFICES ASSUME AloneInv, \A b \in Beats : beat[b].pc = "idle"
               PROVE  \A e \in perceived : \E v \in verdicts : v.item = e
    BY DEF NothingForgotten
  <2>2. Busy = {}
    BY DEF Busy
  <2> QED
    BY <2>1, <2>2 DEF AloneInv, Settled
<1>3. AloneInv => DegradedOnlyByFailure
  BY DEF AloneInv, Spotless, DegradedOnlyByFailure
<1>4. Known /\ (alone => AloneInv) => Undisturbed
  BY <1>1, <1>2, <1>3 DEF Undisturbed
<1> QED
  BY <1>4, AloneAlways, PTL
=============================================================================
