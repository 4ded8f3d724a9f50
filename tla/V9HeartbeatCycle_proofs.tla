----------------------- MODULE V9HeartbeatCycle_proofs -----------------------
(***************************************************************************)
(* Proofs about V9HeartbeatCycle, for any number of beats, topics, failed  *)
(* calls and crashes: its records agree with what its cycles did, no cycle *)
(* adds two steps, and it implements CycleLedger.                          *)
(*                                                                         *)
(* The argument: a beat between its trace and its return owns the id of    *)
(* its cycle, so the steps, the closure and the event with that id are     *)
(* its own, and what it knows of them (Sound) nobody else can change.      *)
(*                                                                         *)
(* Second, the types (TypeInv), and with them the step count of a thread:  *)
(* each beat on its way and each loss leaves room for one step not counted *)
(* yet, and a beat that read the count knows how much of that room is left *)
(* (LagInv).                                                               *)
(***************************************************************************)
EXTENDS V9HeartbeatCycle, NaturalFacts, SequenceTheorems, FiniteSetTheorems, TLAPS

\* Where a cycle is between its trace and the return of its call.
Advancing == {"context", "stop", "touch", "reread", "create", "append"}
Working == Advancing \cup {"progress", "intent", "lookup", "insert", "event"}
Active(s) == s.pc \in Working \/ (s.pc = "flush" /\ s.outcome # "none")

BeatFields == {"pc", "id", "kind", "topic", "thread", "row", "outcome", "sourced", "closed", "failed"}

\* What the argument needs to know of the types.
Shaped == DOMAIN beat = Beats /\ \A b \in Beats : BeatFields \subseteq DOMAIN beat[b]

\* What a beat in state s knows of the tables, given as tr, st, cl and ev.
Sound(s, tr, st, cl, ev) ==
    LET closed == \E r \in cl : r.cycle = s.id
        told   == \E e \in ev : e.cycle = s.id
    IN  /\ Active(s) => s.id \in tr
        /\ s.pc \in {"trace", "context", "event"} => s.thread = 0
        /\ s.pc \in Advancing => \A x \in st : x.cycle # s.id
        /\ s.pc \in {"progress", "intent", "lookup", "insert"} =>
               \/ [thread |-> s.thread, cycle |-> s.id] \in st
               \/ s.thread = 0 /\ s.pc # "progress"
        /\ s.pc \in Working \ {"event"} => ~closed
        /\ s.pc = "event" => (s.closed = TRUE /\ closed) \/ (s.closed = FALSE /\ ~closed)
        /\ s.pc \in Working /\ s.outcome # "fallback" => ~told
        /\ s.pc \in Advancing \cup {"trace", "progress", "intent"} => s.outcome = "none"
        /\ s.pc \in {"lookup", "insert"} => s.outcome \in Outcomes
        /\ s.pc = "event" => s.outcome \in {"no_action", "policy"}
        /\ s.sourced \in BOOLEAN
        /\ s.outcome \in {"no_action", "fallback"} => s.sourced = TRUE
        /\ ~s.failed =>
               /\ s.pc \in {"lookup", "insert"} /\ s.outcome = "fallback" => told
               /\ s.pc = "event" /\ s.outcome = "no_action" => closed
               /\ s.pc = "flush" /\ s.outcome # "none" =>
                      /\ closed \/ (s.outcome = "undispatched" /\ s.sourced = FALSE)
                      /\ s.outcome # "undispatched" => told

\* A set of tables that agree with one another.
Agree(tr, st, cl, ev) ==
    /\ \A x \in st : x.cycle \in tr
    /\ \A r \in cl : r.cycle \in tr
    /\ \A e \in ev : e.cycle \in tr
    /\ \A x, y \in st : x.cycle = y.cycle => x = y
    /\ \A x, y \in cl : x.cycle = y.cycle => x = y
    /\ \A r \in cl : r.thread # 0 => \E x \in st : x.cycle = r.cycle /\ x.thread = r.thread
    /\ \A e \in ev : e.status = "completed" => \E r \in cl : r.cycle = e.cycle

RecordsInv ==
    /\ Shaped
    /\ Agree(traces, steps, closures, events)
    /\ Agree(disk.traces, disk.steps, disk.closures, disk.events)
    /\ \A b \in Beats : Sound(beat[b], traces, steps, closures, events)
    /\ \A b, c \in Beats :
           Active(beat[b]) /\ Active(beat[c]) /\ beat[b].id = beat[c].id => b = c

-----------------------------------------------------------------------------
\* The tables grow, and only by rows about the cycle id.
GrowFor(id) ==
    /\ traces' \in {traces, traces \cup {id}}
    /\ steps \subseteq steps' /\ \A x \in steps' \ steps : x.cycle = id
    /\ closures \subseteq closures' /\ \A r \in closures' \ closures : r.cycle = id
    /\ events \subseteq events' /\ \A e \in events' \ events : e.cycle = id

SoundNext(s) == Sound(s, traces', steps', closures', events')

\* A beat's step to s: its cycle stays its own, or it takes an untraced one.
Keeps(b, s) ==
    /\ BeatFields \subseteq DOMAIN s
    /\ SoundNext(s)
    /\ Active(s) => s.id = beat[b].id /\ (Active(beat[b]) \/ beat[b].id \notin traces)

\* Nobody but the owner of the id is touched by such a growth.
LEMMA OthersSound ==
    ASSUME NEW s, NEW id, Sound(s, traces, steps, closures, events), GrowFor(id),
           Active(s) => s.id # id
    PROVE  SoundNext(s)
  BY DEF Sound, SoundNext, GrowFor, Active, Working, Advancing

\* A failed call is the same to a beat that goes on in the same state.
LEMMA FailedSound ==
    ASSUME NEW s, BeatFields \subseteq DOMAIN s, SoundNext(s)
    PROVE  /\ BeatFields \subseteq DOMAIN [s EXCEPT !.failed = TRUE]
           /\ SoundNext([s EXCEPT !.failed = TRUE])
           /\ Active([s EXCEPT !.failed = TRUE]) <=> Active(s)
           /\ [s EXCEPT !.failed = TRUE].id = s.id
<1> DEFINE t == [s EXCEPT !.failed = TRUE]
<1>1. /\ DOMAIN t = DOMAIN s /\ t.failed = TRUE
      /\ \A f \in BeatFields \ {"failed"} : t[f] = s[f]
  BY DEF BeatFields
<1>2. /\ t.pc = s.pc /\ t.id = s.id /\ t.thread = s.thread /\ t.outcome = s.outcome
      /\ t.sourced = s.sourced /\ t.closed = s.closed
  BY <1>1 DEF BeatFields
<1> HIDE DEF t
<1>3. SoundNext(t)
  BY <1>1, <1>2 DEF SoundNext, Sound, Active
<1> QED
  BY <1>1, <1>2, <1>3 DEF Active, t

\* The step of a beat that keeps its cycle, whatever it adds about that cycle.
LEMMA BeatKeeps ==
    ASSUME RecordsInv, NEW b \in Beats, NEW t, Keeps(b, t),
           beat' = [beat EXCEPT ![b] = t], UNCHANGED disk,
           Agree(traces', steps', closures', events'),
           \/ UNCHANGED <<traces, steps, closures, events>>
           \/ GrowFor(beat[b].id) /\ (Active(beat[b]) \/ beat[b].id \notin traces)
    PROVE  RecordsInv'
<1>1. /\ beat' = [beat EXCEPT ![b] = t] /\ BeatFields \subseteq DOMAIN t /\ SoundNext(t)
      /\ Active(t) => t.id = beat[b].id /\ (Active(beat[b]) \/ beat[b].id \notin traces)
  BY DEF Keeps
<1>2. DOMAIN beat = Beats
  BY DEF RecordsInv, Shaped
<1>3. ASSUME NEW c \in Beats \ {b} PROVE SoundNext(beat[c])
  <2>1. Sound(beat[c], traces, steps, closures, events)
    BY DEF RecordsInv
  <2>2. CASE UNCHANGED <<traces, steps, closures, events>>
    BY <2>1, <2>2 DEF SoundNext
  <2>3. CASE GrowFor(beat[b].id) /\ (Active(beat[b]) \/ beat[b].id \notin traces)
    <3>1. Active(beat[c]) => beat[c].id # beat[b].id
      BY <2>1, <2>3 DEF RecordsInv, Sound
    <3> QED
      BY <2>1, <2>3, <3>1, OthersSound
  <2> QED
    BY <2>2, <2>3
<1>4. \A c \in Beats : Sound(beat[c], traces, steps, closures, events)'
  BY <1>1, <1>2, <1>3 DEF SoundNext
<1>5. Shaped'
  BY <1>1, <1>2 DEF RecordsInv, Shaped
<1>6. \A c \in Beats : Active(beat[c]) => beat[c].id \in traces
  BY DEF RecordsInv, Sound
<1>7. \A c \in Beats : Active(beat'[c]) /\ c # b => beat'[c] = beat[c]
  BY <1>1, <1>2
<1>8. Active(beat'[b]) => \A c \in Beats : Active(beat[c]) /\ beat[c].id = beat'[b].id => c = b
  BY <1>1, <1>2, <1>6 DEF RecordsInv
<1>9. \A c, d \in Beats :
          Active(beat'[c]) /\ Active(beat'[d]) /\ beat'[c].id = beat'[d].id => c = d
  <2> TAKE c, d \in Beats
  <2>1. CASE c = b \/ d = b
    BY <1>7, <1>8, <2>1
  <2>2. CASE c # b /\ d # b
    BY <1>7, <2>2 DEF RecordsInv
  <2> QED
    BY <2>1, <2>2
<1>10. (\A c, d \in Beats : Active(beat[c]) /\ Active(beat[d]) /\ beat[c].id = beat[d].id => c = d)'
  BY <1>9 DEF Active
<1> QED
  BY <1>4, <1>5, <1>10 DEF RecordsInv
\* A step that writes none of the cycle's records.
LEMMA StayKeeps ==
    ASSUME RecordsInv, NEW b \in Beats, NEW s, Keeps(b, s), beat' = [beat EXCEPT ![b] = s],
           UNCHANGED <<traces, steps, closures, events, disk>>
    PROVE  RecordsInv'
<1>1. Agree(traces', steps', closures', events')
  BY DEF RecordsInv
<1> QED
  BY <1>1, BeatKeeps

\* The same of a step that may have failed and goes on in the same state.
LEMMA MoveKeeps ==
    ASSUME RecordsInv, NEW b \in Beats, NEW s, Keeps(b, s), GoTo(b, s) \/ FailTo(b, s),
           UNCHANGED <<traces, steps, closures, events, disk>>
    PROVE  RecordsInv'
<1>1. CASE GoTo(b, s)
  BY <1>1, StayKeeps DEF GoTo
<1>2. CASE FailTo(b, s)
  <2> DEFINE t == [s EXCEPT !.failed = TRUE]
  <2>1. Keeps(b, t) /\ beat' = [beat EXCEPT ![b] = t]
    BY <1>2, FailedSound DEF FailTo, Keeps
  <2> HIDE DEF t
  <2> QED
    BY <2>1, StayKeeps
<1> QED
  BY <1>1, <1>2

LEMMA RecordsInit == Init => RecordsInv
<1> SUFFICES ASSUME Init PROVE RecordsInv
  OBVIOUS
<1>1. /\ steps = {} /\ closures = {} /\ events = {}
      /\ disk.steps = {} /\ disk.closures = {} /\ disk.events = {}
  BY DEF Init, Image
<1>2. \A b \in Beats : beat[b] = Idle
  BY DEF Init
<1>3. BeatFields \subseteq DOMAIN Idle /\ ~Active(Idle) /\ Sound(Idle, traces, steps, closures, events)
  BY DEF Idle, BeatFields, Active, Sound, Working, Advancing
<1>4. Shaped
  BY <1>2, <1>3 DEF Init, Shaped
<1> QED
  BY <1>1, <1>2, <1>3, <1>4 DEF RecordsInv, Agree

-----------------------------------------------------------------------------
\* What is known of the beat that takes the next step.
LEMMA Known ==
    ASSUME RecordsInv, NEW b \in Beats
    PROVE  /\ BeatFields \subseteq DOMAIN beat[b]
           /\ Sound(beat[b], traces, steps, closures, events)
           /\ Agree(traces, steps, closures, events)
  BY DEF RecordsInv, Shaped

\* A beat that is outside of a cycle keeps nothing.
LEMMA OutsideKeeps ==
    ASSUME NEW b \in Beats, NEW s, BeatFields \subseteq DOMAIN s, ~Active(s), s.thread = 0,
           s.outcome = "none", s.sourced \in BOOLEAN
    PROVE  Keeps(b, s)
  BY DEF Keeps, SoundNext, Sound, Active, Working, Advancing

LEMMA BeginKeeps == ASSUME RecordsInv, NEW b \in Beats, Begin(b) PROVE RecordsInv'
<1> DEFINE numbered(n) == [Idle EXCEPT !.pc = "trace", !.id = [at |-> clock', seq |-> n]]
           carrier == [Idle EXCEPT !.pc = "flush"]
<1>1. UNCHANGED <<traces, steps, closures, events, disk>>
  BY DEF Begin, tables
<1>2. Keeps(b, numbered(LastSequence + 1)) /\ Keeps(b, numbered(1)) /\ Keeps(b, carrier)
  <2>1. ASSUME NEW s, s \in {numbered(LastSequence + 1), numbered(1), carrier}
        PROVE  /\ BeatFields \subseteq DOMAIN s /\ s.pc \in {"trace", "flush"}
               /\ s.thread = 0 /\ s.outcome = "none" /\ s.sourced = TRUE
    BY <2>1 DEF Idle, BeatFields
  <2> HIDE DEF numbered, carrier
  <2> QED
    BY <2>1, OutsideKeeps DEF Active, Working, Advancing
<1>3. \E s : Keeps(b, s) /\ (GoTo(b, s) \/ FailTo(b, s))
  BY <1>2 DEF Begin
<1> QED
  BY <1>1, <1>3, MoveKeeps

\* Only an untraced id becomes a beat's own.
LEMMA TraceKeeps == ASSUME RecordsInv, NEW b \in Beats, StartCycleTrace(b) PROVE RecordsInv'
<1> DEFINE id   == beat[b].id
           s    == [beat[b] EXCEPT !.pc = "context"]
           lost == [beat[b] EXCEPT !.pc = "flush"]
<1>1. /\ BeatFields \subseteq DOMAIN beat[b] /\ Sound(beat[b], traces, steps, closures, events)
      /\ Agree(traces, steps, closures, events) /\ beat[b].pc = "trace"
      /\ UNCHANGED <<steps, closures, events, disk>>
  BY Known DEF StartCycleTrace
<1>2. beat[b].thread = 0 /\ beat[b].outcome = "none" /\ beat[b].sourced \in BOOLEAN
  BY <1>1 DEF Sound, Advancing
<1>3. CASE UNCHANGED traces /\ (GoTo(b, lost) \/ FailTo(b, lost))
  <2>1. Keeps(b, lost)
    <3>1. BeatFields \subseteq DOMAIN lost /\ lost.pc = "flush" /\ lost.thread = 0 /\ lost.outcome = "none"
          /\ lost.sourced = beat[b].sourced
      BY <1>1, <1>2 DEF BeatFields
    <3> HIDE DEF lost
    <3> QED
      BY <1>2, <3>1, OutsideKeeps DEF Active, Working, Advancing
  <2> QED
    BY <1>1, <1>3, <2>1, MoveKeeps
<1>4. CASE id \notin traces /\ traces' = traces \cup {id} /\ GoTo(b, s)
  <2>1. /\ BeatFields \subseteq DOMAIN s /\ s.pc = "context" /\ s.id = id /\ s.thread = 0
        /\ s.outcome = "none" /\ s.sourced = beat[b].sourced
    BY <1>1, <1>2 DEF BeatFields
  <2> HIDE DEF s
  <2>2. SoundNext(s)
    BY <1>1, <1>4, <2>1 DEF SoundNext, Sound, Agree, Active, Working, Advancing
  <2>3. Keeps(b, s)
    BY <1>4, <2>1, <2>2 DEF Keeps
  <2>4. Agree(traces', steps', closures', events')
    BY <1>1, <1>4 DEF Agree
  <2>5. GrowFor(id)
    BY <1>1, <1>4 DEF GrowFor
  <2> QED
    BY <1>1, <1>4, <2>3, <2>4, <2>5, BeatKeeps DEF GoTo
<1> QED
  BY <1>3, <1>4 DEF StartCycleTrace, TraceTaken

\* Where a beat may go on from "context" or from a step of its thread without
\* having written anything about its cycle.
LEMMA GoesOn ==
    ASSUME RecordsInv, NEW b \in Beats, NEW s, beat[b].pc \in Advancing,
           UNCHANGED <<traces, steps, closures, events>>,
           BeatFields \subseteq DOMAIN s, s.id = beat[b].id, s.outcome = beat[b].outcome,
           s.sourced = beat[b].sourced,
           s.pc \in Advancing \ {"context"} \/ (s.pc = "intent" /\ s.thread = 0)
    PROVE  Keeps(b, s)
<1>1. Sound(beat[b], traces, steps, closures, events)
  BY Known
<1> QED
  BY <1>1 DEF Keeps, SoundNext, Sound, Active, Working, Advancing

\* Or end the cycle there, without an action.
LEMMA GivesUp ==
    ASSUME RecordsInv, NEW b \in Beats, NEW s, beat[b].pc = "context",
           UNCHANGED <<traces, steps, closures, events>>,
           BeatFields \subseteq DOMAIN s, s.id = beat[b].id, s.outcome = "no_action",
           s.sourced = TRUE, s.pc = "lookup", s.thread = 0
    PROVE  Keeps(b, s)
<1>1. Sound(beat[b], traces, steps, closures, events)
  BY Known
<1> QED
  BY <1>1 DEF Keeps, SoundNext, Sound, Active, Working, Advancing, Outcomes

LEMMA IdleKeeps == ASSUME NEW b \in Beats PROVE Keeps(b, Idle)
<1>1. BeatFields \subseteq DOMAIN Idle /\ Idle.pc = "idle" /\ Idle.thread = 0 /\ Idle.outcome = "none"
      /\ Idle.sourced = TRUE
  BY DEF Idle, BeatFields
<1> QED
  BY <1>1, OutsideKeeps DEF Active, Working, Advancing

LEMMA AttendedKeeps ==
    ASSUME RecordsInv, NEW b \in Beats, NEW ts, beat[b].pc = "context",
           NEW s \in Attended(beat[b], ts), UNCHANGED <<traces, steps, closures, events>>
    PROVE  Keeps(b, s)
<1>0. BeatFields \subseteq DOMAIN beat[b] /\ beat[b].thread = 0
  BY Known DEF Sound
<1>1. CASE s = Closing(beat[b], "no_action", TRUE)
  <2>1. /\ BeatFields \subseteq DOMAIN s /\ s.id = beat[b].id /\ s.outcome = "no_action"
        /\ s.sourced = TRUE /\ s.pc = "lookup" /\ s.thread = 0
    BY <1>0, <1>1 DEF Closing, BeatFields
  <2> QED
    BY <2>1, GivesUp
<1>2. CASE s = [beat[b] EXCEPT !.pc = "intent"]
  <2>1. /\ BeatFields \subseteq DOMAIN s /\ s.id = beat[b].id /\ s.outcome = beat[b].outcome
        /\ s.sourced = beat[b].sourced /\ s.pc = "intent" /\ s.thread = 0
    BY <1>0, <1>2 DEF BeatFields
  <2> QED
    BY <2>1, GoesOn DEF Advancing
<1>3. ASSUME NEW kind, NEW topic, NEW i, s = Chosen(beat[b], ts, kind, topic, i) PROVE Keeps(b, s)
  <2>1. /\ BeatFields \subseteq DOMAIN s /\ s.id = beat[b].id /\ s.outcome = beat[b].outcome
        /\ s.sourced = beat[b].sourced /\ s.pc \in {"create", "stop", "touch"}
    <3>1. CASE i = 0
      BY <1>0, <1>3, <3>1 DEF Chosen, BeatFields
    <3>2. CASE i # 0
      BY <1>0, <1>3, <3>2 DEF Chosen, BeatFields
    <3> QED
      BY <3>1, <3>2
  <2> QED
    BY <2>1, GoesOn DEF Advancing
<1>4. \/ s = Closing(beat[b], "no_action", TRUE) \/ s = [beat[b] EXCEPT !.pc = "intent"]
      \/ \E kind, topic, i : s = Chosen(beat[b], ts, kind, topic, i)
  BY ZenonT(40) DEF Attended
<1> QED
  BY <1>1, <1>2, <1>3, <1>4

LEMMA AttendKeeps == ASSUME RecordsInv, NEW b \in Beats, AssembleAndAttend(b) PROVE RecordsInv'
<1>1. beat[b].pc = "context" /\ UNCHANGED <<traces, steps, closures, events, disk>>
  BY DEF AssembleAndAttend, tables
<1>2. BeatFields \subseteq DOMAIN beat[b] /\ beat[b].thread = 0
  BY <1>1, Known DEF Sound
<1>3. Keeps(b, Closing(beat[b], "no_action", TRUE))
  <2> DEFINE s == Closing(beat[b], "no_action", TRUE)
  <2>1. /\ BeatFields \subseteq DOMAIN s /\ s.id = beat[b].id /\ s.outcome = "no_action"
        /\ s.sourced = TRUE /\ s.pc = "lookup" /\ s.thread = 0
    BY <1>2 DEF Closing, BeatFields
  <2> QED
    BY <1>1, <2>1, GivesUp
<1>4. \E s : Keeps(b, s) /\ (GoTo(b, s) \/ FailTo(b, s))
  BY <1>1, <1>3, AttendedKeeps, IdleKeeps DEF AssembleAndAttend
<1> QED
  BY <1>1, <1>4, MoveKeeps

-----------------------------------------------------------------------------
\* A beat that gives its thread up goes on to the intent without it.
LEMMA UnadvancedKeeps ==
    ASSUME RecordsInv, NEW b \in Beats, UNCHANGED <<traces, closures, events>>,
           beat[b].pc \in Advancing \/ beat[b].pc = "progress", UNCHANGED steps
    PROVE  Keeps(b, Unadvanced(beat[b]))
<1>1. Sound(beat[b], traces, steps, closures, events) /\ BeatFields \subseteq DOMAIN beat[b]
  BY Known
<1> DEFINE s == Unadvanced(beat[b])
<1>2. /\ BeatFields \subseteq DOMAIN s /\ s.id = beat[b].id /\ s.outcome = beat[b].outcome
      /\ s.sourced = beat[b].sourced /\ s.pc = "intent" /\ s.thread = 0
  BY <1>1 DEF Unadvanced, Advanced, BeatFields
<1> HIDE DEF s
<1>3. Keeps(b, s)
  BY <1>1, <1>2 DEF Keeps, SoundNext, Sound, Active, Working, Advancing
<1> QED
  BY <1>3 DEF s

LEMMA ThreadKeeps ==
    ASSUME RecordsInv, NEW b \in Beats,
           StopThread(b) \/ TouchThread(b) \/ RereadThread(b) \/ CreateThread(b)
    PROVE  RecordsInv'
<1>1. /\ UNCHANGED <<traces, steps, closures, events, disk>>
      /\ beat[b].pc \in {"stop", "touch", "reread", "create"}
  BY DEF StopThread, TouchThread, RereadThread, CreateThread, tables
<1>2. BeatFields \subseteq DOMAIN beat[b]
  BY Known
<1>3. Keeps(b, Unadvanced(beat[b]))
  BY <1>1, UnadvancedKeeps DEF Advancing
<1>4. ASSUME NEW s, BeatFields \subseteq DOMAIN s, s.id = beat[b].id, s.outcome = beat[b].outcome,
             s.sourced = beat[b].sourced, s.pc \in {"reread", "append"}
      PROVE  Keeps(b, s)
  BY <1>1, <1>4, GoesOn DEF Advancing
<1>5. Keeps(b, [beat[b] EXCEPT !.pc = "reread"])
  BY <1>2, <1>4 DEF BeatFields
<1>6. Keeps(b, [beat[b] EXCEPT !.pc = "append", !.row = threads[beat[b].thread]])
  <2> DEFINE s == [beat[b] EXCEPT !.pc = "append", !.row = threads[beat[b].thread]]
  <2>1. /\ BeatFields \subseteq DOMAIN s /\ s.id = beat[b].id /\ s.outcome = beat[b].outcome
        /\ s.sourced = beat[b].sourced /\ s.pc = "append"
    BY <1>2 DEF BeatFields
  <2> QED
    BY <1>4, <2>1
<1>7. ASSUME NEW i, NEW row PROVE Keeps(b, [beat[b] EXCEPT !.pc = "append", !.thread = i, !.row = row])
  <2> DEFINE s == [beat[b] EXCEPT !.pc = "append", !.thread = i, !.row = row]
  <2>1. /\ BeatFields \subseteq DOMAIN s /\ s.id = beat[b].id /\ s.outcome = beat[b].outcome
        /\ s.sourced = beat[b].sourced /\ s.pc = "append"
    BY <1>2 DEF BeatFields
  <2> QED
    BY <1>4, <2>1
<1>8. \E s : Keeps(b, s) /\ (GoTo(b, s) \/ FailTo(b, s))
  <2>1. CASE StopThread(b)
    BY <1>3, <2>1 DEF StopThread
  <2>2. CASE TouchThread(b)
    BY <1>3, <1>5, <2>2 DEF TouchThread
  <2>3. CASE RereadThread(b)
    BY <1>3, <1>6, <2>3 DEF RereadThread
  <2>4. CASE CreateThread(b)
    BY <1>3, <1>7, <2>4 DEF CreateThread
  <2> QED
    BY <2>1, <2>2, <2>3, <2>4
<1> QED
  BY <1>1, <1>8, MoveKeeps

\* The step a beat appends is the first of its cycle.
LEMMA AppendKeeps == ASSUME RecordsInv, NEW b \in Beats, AppendStep(b) PROVE RecordsInv'
<1> DEFINE x == [thread |-> beat[b].thread, cycle |-> beat[b].id]
           s == [beat[b] EXCEPT !.pc = "progress"]
<1>1. /\ UNCHANGED <<traces, closures, events, disk>> /\ beat[b].pc = "append"
      /\ BeatFields \subseteq DOMAIN beat[b] /\ Sound(beat[b], traces, steps, closures, events)
      /\ Agree(traces, steps, closures, events)
  BY Known DEF AppendStep
<1>2. CASE UNCHANGED steps /\ FailTo(b, Unadvanced(beat[b]))
  BY <1>1, <1>2, UnadvancedKeeps, MoveKeeps DEF Advancing
<1>3. CASE steps' = steps \cup {x} /\ GoTo(b, s)
  <2>1. /\ BeatFields \subseteq DOMAIN s /\ s.pc = "progress" /\ s.id = beat[b].id
        /\ s.thread = beat[b].thread /\ s.outcome = beat[b].outcome /\ s.sourced = beat[b].sourced
    BY <1>1 DEF BeatFields
  <2>2. x.cycle = beat[b].id /\ x = [thread |-> s.thread, cycle |-> s.id]
    BY <2>1
  <2> HIDE DEF s, x
  <2>3. Active(beat[b]) /\ beat[b].id \in traces /\ \A y \in steps : y.cycle # beat[b].id
    BY <1>1 DEF Sound, Active, Working, Advancing
  <2>4. SoundNext(s)
    BY <1>1, <1>3, <2>1, <2>2 DEF SoundNext, Sound, Active, Working, Advancing
  <2>5. Keeps(b, s)
    BY <2>1, <2>3, <2>4 DEF Keeps
  <2>6. Agree(traces', steps', closures', events')
    BY <1>1, <1>3, <2>2, <2>3 DEF Agree
  <2>7. GrowFor(beat[b].id)
    BY <1>1, <1>3, <2>2 DEF GrowFor
  <2> QED
    BY <1>1, <1>3, <2>3, <2>5, <2>6, <2>7, BeatKeeps DEF GoTo
<1> QED
  BY <1>2, <1>3 DEF AppendStep

LEMMA ProgressKeeps == ASSUME RecordsInv, NEW b \in Beats, ProgressThread(b) PROVE RecordsInv'
<1> DEFINE s == Advanced(beat[b], beat[b].thread)
<1>1. /\ UNCHANGED <<traces, steps, closures, events, disk>> /\ beat[b].pc = "progress"
      /\ BeatFields \subseteq DOMAIN beat[b] /\ Sound(beat[b], traces, steps, closures, events)
  BY Known DEF ProgressThread
<1>2. Keeps(b, s)
  <2>1. /\ BeatFields \subseteq DOMAIN s /\ s.pc = "intent" /\ s.id = beat[b].id
        /\ s.thread = beat[b].thread /\ s.outcome = beat[b].outcome /\ s.sourced = beat[b].sourced
    BY <1>1 DEF Advanced, BeatFields
  <2> HIDE DEF s
  <2> QED
    BY <1>1, <2>1 DEF Keeps, SoundNext, Sound, Active, Working, Advancing
<1>3. Keeps(b, Unadvanced(beat[b]))
  BY <1>1, UnadvancedKeeps
<1>4. \E t : Keeps(b, t) /\ (GoTo(b, t) \/ FailTo(b, t))
  BY <1>2, <1>3 DEF ProgressThread
<1> QED
  BY <1>1, <1>4, MoveKeeps

LEMMA IntentKeeps == ASSUME RecordsInv, NEW b \in Beats, ResolveIntent(b) PROVE RecordsInv'
<1>1. /\ UNCHANGED <<traces, steps, closures, events, disk>> /\ beat[b].pc = "intent"
      /\ BeatFields \subseteq DOMAIN beat[b] /\ Sound(beat[b], traces, steps, closures, events)
  BY Known DEF ResolveIntent, tables
<1>2. ASSUME NEW outcome \in {"no_action", "undispatched", "policy"}, NEW sourced \in BOOLEAN,
             outcome = "no_action" => sourced = TRUE
      PROVE  Keeps(b, Closing(beat[b], outcome, sourced))
  <2> DEFINE s == Closing(beat[b], outcome, sourced)
  <2>1. /\ BeatFields \subseteq DOMAIN s /\ s.pc = "lookup" /\ s.id = beat[b].id
        /\ s.thread = beat[b].thread /\ s.outcome = outcome /\ s.sourced = sourced
    BY <1>1 DEF Closing, BeatFields
  <2> HIDE DEF s
  <2>2. Keeps(b, s)
    BY <1>1, <1>2, <2>1 DEF Keeps, SoundNext, Sound, Active, Working, Advancing, Outcomes
  <2> QED
    BY <2>2 DEF s
<1>3. \E s : Keeps(b, s) /\ (GoTo(b, s) \/ FailTo(b, s))
  BY <1>2, IdleKeeps DEF ResolveIntent
<1> QED
  BY <1>1, <1>3, MoveKeeps

-----------------------------------------------------------------------------
\* The state after the recorder has answered.
LEMMA RecordedIs ==
    ASSUME NEW s, NEW isClosed, BeatFields \subseteq DOMAIN s
    PROVE  LET r == Recorded(s, isClosed)
           IN  /\ BeatFields \subseteq DOMAIN r /\ r.id = s.id /\ r.outcome = s.outcome
               /\ r.sourced = s.sourced /\ r.failed = s.failed /\ r.thread = 0
               /\ s.outcome \in {"fallback", "undispatched"} => r.pc = "flush"
               /\ s.outcome \notin {"fallback", "undispatched"} => r.pc = "event" /\ r.closed = isClosed
<1>1. CASE s.outcome \in {"fallback", "undispatched"}
  BY <1>1 DEF Recorded, BeatFields
<1>2. CASE s.outcome \notin {"fallback", "undispatched"}
  BY <1>2 DEF Recorded, BeatFields
<1> QED
  BY <1>1, <1>2

\* A closure that was not written, because it has no source or a call failed,
\* and what is then known of the cycle.
LEMMA UnrecordedKeeps ==
    ASSUME RecordsInv, NEW b \in Beats, beat[b].pc \in {"lookup", "insert"}, NEW s,
           UNCHANGED <<traces, steps, closures, events>>,
           \/ s = [Recorded(beat[b], FALSE) EXCEPT !.failed = TRUE]
           \/ s = Recorded(beat[b], FALSE) /\ beat[b].sourced = FALSE
    PROVE  Keeps(b, s)
<1>1. Sound(beat[b], traces, steps, closures, events) /\ BeatFields \subseteq DOMAIN beat[b]
  BY Known
<1> DEFINE r == Recorded(beat[b], FALSE)
<1>2. /\ BeatFields \subseteq DOMAIN r /\ r.id = beat[b].id /\ r.outcome = beat[b].outcome
      /\ r.sourced = beat[b].sourced /\ r.failed = beat[b].failed /\ r.thread = 0
      /\ beat[b].outcome \in {"fallback", "undispatched"} => r.pc = "flush"
      /\ beat[b].outcome \notin {"fallback", "undispatched"} => r.pc = "event" /\ r.closed = FALSE
  BY <1>1, RecordedIs
<1> HIDE DEF r
<1>3. /\ BeatFields \subseteq DOMAIN s /\ s.id = beat[b].id /\ s.outcome = beat[b].outcome
      /\ s.sourced = beat[b].sourced /\ s.thread = 0
      /\ beat[b].outcome \in {"fallback", "undispatched"} => s.pc = "flush"
      /\ beat[b].outcome \notin {"fallback", "undispatched"} => s.pc = "event" /\ s.closed = FALSE
      /\ s.failed = TRUE \/ s.sourced = FALSE
  BY <1>2 DEF BeatFields, r
<1> QED
  BY <1>1, <1>3 DEF Keeps, SoundNext, Sound, Active, Working, Advancing, Outcomes

LEMMA LookupKeeps == ASSUME RecordsInv, NEW b \in Beats, LookupClosure(b) PROVE RecordsInv'
<1>1. /\ UNCHANGED <<traces, steps, closures, events, disk>> /\ beat[b].pc = "lookup"
      /\ BeatFields \subseteq DOMAIN beat[b] /\ Sound(beat[b], traces, steps, closures, events)
  BY Known DEF LookupClosure, tables
<1>2. ~\E r \in closures : r.cycle = beat[b].id
  BY <1>1 DEF Sound, Working
<1>3. CASE FailTo(b, Recorded(beat[b], FALSE))
  <2> DEFINE s == [Recorded(beat[b], FALSE) EXCEPT !.failed = TRUE]
  <2>1. Keeps(b, s)
    BY <1>1, UnrecordedKeeps
  <2>2. beat' = [beat EXCEPT ![b] = s]
    BY <1>3 DEF FailTo
  <2> HIDE DEF s
  <2> QED
    BY <1>1, <2>1, <2>2, StayKeeps
<1>4. CASE ~beat[b].sourced /\ GoTo(b, Recorded(beat[b], FALSE))
  <2>1. beat[b].sourced = FALSE
    BY <1>1, <1>4 DEF Sound
  <2> QED
    BY <1>1, <1>4, UnrecordedKeeps, MoveKeeps, <2>1
<1>5. CASE beat[b].sourced /\ GoTo(b, [beat[b] EXCEPT !.pc = "insert"])
  <2> DEFINE s == [beat[b] EXCEPT !.pc = "insert"]
  <2>1. /\ BeatFields \subseteq DOMAIN s /\ s.pc = "insert" /\ s.id = beat[b].id
        /\ s.thread = beat[b].thread /\ s.outcome = beat[b].outcome /\ s.sourced = beat[b].sourced
        /\ s.failed = beat[b].failed
    BY <1>1 DEF BeatFields
  <2> HIDE DEF s
  <2>2. Keeps(b, s)
    BY <1>1, <2>1 DEF Keeps, SoundNext, Sound, Active, Working, Advancing
  <2> QED
    BY <1>1, <1>5, <2>2, MoveKeeps DEF s
<1> QED
  BY <1>2, <1>3, <1>4, <1>5 DEF LookupClosure

\* The closure a beat inserts is the first of its cycle, and names the step the
\* same cycle added.
LEMMA InsertKeeps == ASSUME RecordsInv, NEW b \in Beats, InsertClosure(b) PROVE RecordsInv'
<1> DEFINE r == ClosureOf(beat[b])
           s == Recorded(beat[b], TRUE)
<1>1. /\ UNCHANGED <<traces, steps, events, disk>> /\ beat[b].pc = "insert"
      /\ BeatFields \subseteq DOMAIN beat[b] /\ Sound(beat[b], traces, steps, closures, events)
      /\ Agree(traces, steps, closures, events)
  BY Known DEF InsertClosure
<1>2. CASE UNCHANGED closures /\ FailTo(b, Recorded(beat[b], FALSE))
  <2> DEFINE t == [Recorded(beat[b], FALSE) EXCEPT !.failed = TRUE]
  <2>1. Keeps(b, t)
    BY <1>1, <1>2, UnrecordedKeeps
  <2>2. beat' = [beat EXCEPT ![b] = t]
    BY <1>2 DEF FailTo
  <2> HIDE DEF t
  <2> QED
    BY <1>1, <1>2, <2>1, <2>2, StayKeeps
<1>3. CASE ~UNCHANGED closures \/ ~FailTo(b, Recorded(beat[b], FALSE))
  <2>1. /\ \A x \in closures : x.cycle # beat[b].id
        /\ Active(beat[b]) /\ beat[b].id \in traces
    BY <1>1 DEF Sound, Working, Active
  <2>2. r.cycle = beat[b].id /\ r.thread = beat[b].thread
    BY DEF ClosureOf
  <2>3. ~ClosureTaken(r)
    BY <2>1, <2>2 DEF ClosureTaken
  <2>4. closures' = closures \cup {r} /\ beat' = [beat EXCEPT ![b] = s]
    BY <1>3, <2>3 DEF InsertClosure, GoTo
  <2> HIDE DEF r
  <2>5. /\ BeatFields \subseteq DOMAIN s /\ s.id = beat[b].id /\ s.outcome = beat[b].outcome
        /\ s.sourced = beat[b].sourced /\ s.failed = beat[b].failed /\ s.thread = 0
        /\ beat[b].outcome \in {"fallback", "undispatched"} => s.pc = "flush"
        /\ beat[b].outcome \notin {"fallback", "undispatched"} => s.pc = "event" /\ s.closed = TRUE
    BY <1>1, RecordedIs
  <2> HIDE DEF s
  <2>6. SoundNext(s)
    BY <1>1, <2>1, <2>2, <2>4, <2>5 DEF SoundNext, Sound, Active, Working, Advancing, Outcomes
  <2>7. Keeps(b, s)
    BY <2>1, <2>5, <2>6 DEF Keeps
  <2>8. r.thread # 0 => \E x \in steps : x.cycle = r.cycle /\ x.thread = r.thread
    BY <1>1, <2>2 DEF Sound
  <2>9. Agree(traces', steps', closures', events')
    BY <1>1, <2>1, <2>2, <2>4, <2>8 DEF Agree
  <2>10. GrowFor(beat[b].id)
    BY <1>1, <2>2, <2>4 DEF GrowFor
  <2> QED
    BY <1>1, <2>1, <2>4, <2>7, <2>9, <2>10, BeatKeeps
<1> QED
  BY <1>2, <1>3

\* The closing event is the first of its cycle, and "completed" only of one that
\* has its closure.
LEMMA EventKeeps == ASSUME RecordsInv, NEW b \in Beats, RecordClosing(b) PROVE RecordsInv'
<1> DEFINE e == [cycle |-> beat[b].id, status |-> ClosingStatus(beat[b])]
           s == AfterClosing(beat[b])
           t == [s EXCEPT !.failed = TRUE]
<1>1. /\ UNCHANGED <<traces, steps, closures, disk>> /\ beat[b].pc = "event"
      /\ BeatFields \subseteq DOMAIN beat[b] /\ Sound(beat[b], traces, steps, closures, events)
      /\ Agree(traces, steps, closures, events)
  BY Known DEF RecordClosing
<1>2. /\ beat[b].outcome \in {"no_action", "policy"} /\ beat[b].thread = 0
      /\ \A x \in events : x.cycle # beat[b].id
      /\ Active(beat[b]) /\ beat[b].id \in traces /\ beat[b].closed \in BOOLEAN
      /\ beat[b].sourced \in BOOLEAN
      /\ beat[b].closed = TRUE <=> \E r \in closures : r.cycle = beat[b].id
  BY <1>1 DEF Sound, Active, Working
<1>3. /\ BeatFields \subseteq DOMAIN s /\ s.id = beat[b].id /\ s.thread = 0 /\ s.failed = beat[b].failed
      /\ s.pc = IF beat[b].outcome = "policy" /\ beat[b].closed = FALSE THEN "lookup" ELSE "flush"
      /\ s.outcome = IF s.pc = "lookup" THEN "fallback" ELSE beat[b].outcome
      /\ s.sourced = IF s.pc = "lookup" THEN TRUE ELSE beat[b].sourced
  <2>1. CASE beat[b].outcome = "policy" /\ beat[b].closed = FALSE
    BY <1>1, <1>2, <2>1 DEF AfterClosing, Closing, BeatFields
  <2>2. CASE ~(beat[b].outcome = "policy" /\ beat[b].closed = FALSE)
    BY <1>1, <1>2, <2>2 DEF AfterClosing, BeatFields
  <2> QED
    BY <2>1, <2>2
<1> HIDE DEF s
<1>4. CASE UNCHANGED events /\ FailTo(b, s)
  <2>1. /\ BeatFields \subseteq DOMAIN t /\ t.id = s.id /\ t.thread = s.thread /\ t.pc = s.pc
        /\ t.outcome = s.outcome /\ t.sourced = s.sourced /\ t.failed = TRUE
    BY <1>3 DEF BeatFields
  <2>2. beat' = [beat EXCEPT ![b] = t]
    BY <1>4 DEF FailTo
  <2> HIDE DEF t
  <2>3. Keeps(b, t)
    BY <1>1, <1>2, <1>3, <1>4, <2>1 DEF Keeps, SoundNext, Sound, Active, Working, Advancing, Outcomes
  <2> QED
    BY <1>1, <1>4, <2>2, <2>3, StayKeeps
<1>5. CASE events' = events \cup {e} /\ GoTo(b, s)
  <2>1. e.cycle = beat[b].id /\ (e.status = "completed" => beat[b].closed = TRUE)
    BY <1>2 DEF ClosingStatus
  <2> HIDE DEF e
  <2>2. SoundNext(s)
    BY <1>1, <1>2, <1>3, <1>5, <2>1 DEF SoundNext, Sound, Active, Working, Advancing, Outcomes
  <2>3. Keeps(b, s)
    BY <1>2, <1>3, <2>2 DEF Keeps
  <2>4. Agree(traces', steps', closures', events')
    BY <1>1, <1>2, <1>5, <2>1 DEF Agree
  <2>5. GrowFor(beat[b].id)
    BY <1>1, <1>5, <2>1 DEF GrowFor
  <2> QED
    BY <1>1, <1>2, <1>5, <2>3, <2>4, <2>5, BeatKeeps DEF GoTo
<1>6. ~\E x \in events : x.cycle = beat[b].id
  BY <1>2
<1> QED
  BY <1>4, <1>5, <1>6 DEF RecordClosing, s

\* The image takes over tables that agree; the beat is outside of any cycle.
LEMMA FlushKeeps ==
    ASSUME RecordsInv, NEW b \in Beats, Flush(b)
    PROVE  /\ RecordsInv' /\ UNCHANGED <<traces, closures>>
           /\ (disk'.traces = traces /\ disk'.closures = closures) \/ disk' = disk
<1>1. UNCHANGED <<traces, steps, closures, events>>
  BY DEF Flush, tables
<1>2. CASE UNCHANGED disk /\ FailTo(b, Idle)
  BY <1>1, <1>2, IdleKeeps, MoveKeeps
<1>3. CASE disk' = Image /\ GoTo(b, Idle)
  <2>1. /\ disk'.traces = traces /\ disk'.steps = steps /\ disk'.closures = closures
        /\ disk'.events = events
    BY <1>3 DEF Image
  <2>2. /\ beat' = [beat EXCEPT ![b] = Idle] /\ ~Active(Idle) /\ BeatFields \subseteq DOMAIN Idle
        /\ Sound(Idle, traces, steps, closures, events)
    BY <1>3 DEF GoTo, Idle, BeatFields, Active, Sound, Working, Advancing
  <2>3. Shaped'
    BY <2>2 DEF RecordsInv, Shaped
  <2>4. \A c \in Beats : beat'[c] = Idle \/ (c # b /\ beat'[c] = beat[c])
    BY <2>2 DEF RecordsInv, Shaped
  <2>5. \A c \in Beats : Sound(beat'[c], traces, steps, closures, events)
    BY <2>2, <2>4 DEF RecordsInv
  <2>6. \A c, d \in Beats :
           Active(beat'[c]) /\ Active(beat'[d]) /\ beat'[c].id = beat'[d].id => c = d
    <3> TAKE c, d \in Beats
    <3>1. CASE beat'[c] = Idle \/ beat'[d] = Idle
      BY <2>2, <3>1
    <3>2. CASE beat'[c] = beat[c] /\ beat'[d] = beat[d]
      BY <3>2 DEF RecordsInv
    <3> QED
      BY <2>4, <3>1, <3>2
  <2>7. (\A c, d \in Beats : Active(beat[c]) /\ Active(beat[d]) /\ beat[c].id = beat[d].id => c = d)'
    BY <2>6 DEF Active
  <2>8. (\A c \in Beats : Sound(beat[c], traces, steps, closures, events))'
    BY <1>1, <2>5
  <2> QED
    BY <1>1, <2>1, <2>3, <2>7, <2>8 DEF RecordsInv
<1> QED
  BY <1>1, <1>2, <1>3 DEF Flush

\* After a crash no cycle is open, and the tables are those of the file.
LEMMA CrashKeeps == RecordsInv /\ Crash => RecordsInv'
<1> SUFFICES ASSUME RecordsInv, Crash PROVE RecordsInv'
  OBVIOUS
<1>1. /\ traces' = disk.traces /\ steps' = disk.steps /\ closures' = disk.closures
      /\ events' = disk.events /\ disk' = disk /\ beat' = [b \in Beats |-> Idle]
  BY DEF Crash
<1>2. /\ BeatFields \subseteq DOMAIN Idle /\ ~Active(Idle)
      /\ \A tr, st, cl, ev : Sound(Idle, tr, st, cl, ev)
  BY DEF Idle, BeatFields, Active, Sound, Working, Advancing
<1>3. Shaped'
  BY <1>1, <1>2 DEF Shaped
<1>4. (\A b \in Beats : Sound(beat[b], traces, steps, closures, events))'
  BY <1>1, <1>2
<1>5. (\A c, d \in Beats : Active(beat[c]) /\ Active(beat[d]) /\ beat[c].id = beat[d].id => c = d)'
  BY <1>1, <1>2 DEF Active
<1> QED
  BY <1>1, <1>3, <1>4, <1>5 DEF RecordsInv

LEMMA RecordsStep == RecordsInv /\ [Next]_vars => RecordsInv'
<1> SUFFICES ASSUME RecordsInv, [Next]_vars PROVE RecordsInv'
  OBVIOUS
<1>1. CASE UNCHANGED vars
  BY <1>1 DEF vars, RecordsInv, Shaped, Agree, Sound, Active
<1> QED
  BY <1>1, BeginKeeps, TraceKeeps, AttendKeeps, ThreadKeeps, AppendKeeps, ProgressKeeps,
     IntentKeeps, LookupKeeps, InsertKeeps, EventKeeps, FlushKeeps, CrashKeeps
  DEF Next, Step, Advance
-----------------------------------------------------------------------------
\* The invariant the theorems rest on.
LEMMA Inductive == Spec => []RecordsInv
  BY RecordsInit, RecordsStep, PTL DEF Spec

\* What is recorded of a cycle agrees with what was done in it, however many
\* heartbeats overlap, fail and crash (runV9HeartbeatCycle, closeWithNoAction,
\* recordV9ActionClosure).
THEOREM RecordsAlwaysAgree == Spec => []RecordsAgree
<1>1. RecordsInv => RecordsAgree
  <2> SUFFICES ASSUME RecordsInv PROVE RecordsAgree
    OBVIOUS
  <2>1. AtMostOneClosure /\ EventTellsTruth
    BY DEF RecordsInv, Agree, AtMostOneClosure, EventTellsTruth
  <2>2. ClosureNamesOwnStep
    <3>1. Image.closures = closures /\ Image.steps = steps
      BY DEF Image
    <3> QED
      BY <3>1 DEF RecordsInv, Agree, ClosureNamesOwnStep
  <2>3. ASSUME NEW b \in Beats, beat[b].pc = "flush", beat[b].outcome # "none", ~beat[b].failed
        PROVE  /\ (\E r \in closures : r.cycle = beat[b].id)
                     \/ (beat[b].outcome = "undispatched" /\ ~beat[b].sourced)
               /\ beat[b].outcome # "undispatched" => \E e \in events : e.cycle = beat[b].id
    BY <2>3 DEF RecordsInv, Sound
  <2>4. ClosedUnlessFailed /\ OrphansOnlyByFailure
    BY <2>3 DEF ClosedUnlessFailed, OrphansOnlyByFailure
  <2> QED
    BY <2>1, <2>2, <2>4 DEF RecordsAgree
<1> QED
  BY <1>1, Inductive, PTL

\* One heartbeat adds at most one step to one thread (advanceActivityThread).
THEOREM AtMostOneStep == Spec => []OneStepPerCycle
<1>1. RecordsInv => OneStepPerCycle
  BY DEF RecordsInv, Agree, OneStepPerCycle
<1> QED
  BY <1>1, Inductive, PTL

-----------------------------------------------------------------------------
\* Every step of the heartbeat begins a cycle, closes one, keeps the ledger,
\* loses what was not kept, or leaves it alone.
LEMMA LedgerSteps == RecordsInv /\ [Next]_vars => [Ledger!LedgerNext]_(Ledger!ledger)
<1> SUFFICES ASSUME RecordsInv, [Next]_vars PROVE [Ledger!LedgerNext]_(Ledger!ledger)
  OBVIOUS
<1>1. CASE UNCHANGED <<traces, closures, disk>>
  BY <1>1 DEF Ledger!ledger
<1>2. ASSUME NEW b \in Beats, StartCycleTrace(b) PROVE [Ledger!LedgerNext]_(Ledger!ledger)
  <2>1. CASE traces' = traces \cup {beat[b].id} /\ beat[b].id \notin traces
    <3>1. closures' = closures /\ disk' = disk
      BY <1>2 DEF StartCycleTrace
    <3> QED
      BY <2>1, <3>1 DEF Ledger!LedgerNext, Ledger!BeginCycle
  <2> QED
    BY <1>1, <1>2, <2>1 DEF StartCycleTrace, TraceTaken
<1>3. ASSUME NEW b \in Beats, InsertClosure(b) PROVE [Ledger!LedgerNext]_(Ledger!ledger)
  <2> DEFINE r == ClosureOf(beat[b])
  <2>1. traces' = traces /\ disk' = disk /\ r.cycle = beat[b].id
    BY <1>3 DEF InsertClosure, ClosureOf
  <2>2. closures' = closures \cup {r} \/ closures' = closures
    BY <1>3 DEF InsertClosure
  <2>3. Ledger!Unclosed(r.cycle)
    <3>1. beat[b].pc = "insert" /\ Sound(beat[b], traces, steps, closures, events)
      BY <1>3, Known DEF InsertClosure
    <3> QED
      BY <2>1, <3>1 DEF Sound, Active, Working, Ledger!Unclosed
  <2> HIDE DEF r
  <2>4. CASE closures' = closures \cup {r} /\ r \notin closures
    BY <2>1, <2>3, <2>4 DEF Ledger!LedgerNext, Ledger!CloseCycle
  <2> QED
    BY <1>1, <2>1, <2>2, <2>4
<1>4. ASSUME NEW b \in Beats, Flush(b) PROVE [Ledger!LedgerNext]_(Ledger!ledger)
  <2>1. UNCHANGED <<traces, closures>>
    BY <1>4, FlushKeeps
  <2>2. CASE disk'.traces = traces /\ disk'.closures = closures
    BY <2>1, <2>2 DEF Ledger!LedgerNext, Ledger!KeepLedger
  <2> QED
    BY <1>1, <1>4, <2>1, <2>2, FlushKeeps
<1>5. CASE Crash
  BY <1>5 DEF Crash, Ledger!LedgerNext, Ledger!LoseLedger
<1>6. ASSUME NEW b \in Beats,
             \/ Begin(b) \/ AssembleAndAttend(b) \/ Advance(b) \/ ResolveIntent(b)
             \/ LookupClosure(b) \/ RecordClosing(b)
      PROVE  UNCHANGED <<traces, closures, disk>>
  BY <1>6 DEF Begin, AssembleAndAttend, Advance, StopThread, TouchThread, RereadThread, CreateThread,
              AppendStep, ProgressThread, ResolveIntent, LookupClosure, RecordClosing, tables
<1>7. CASE UNCHANGED vars
  BY <1>1, <1>7 DEF vars
<1> QED
  BY <1>1, <1>2, <1>3, <1>4, <1>5, <1>6, <1>7 DEF Next, Step

\* The v9 heartbeat implements CycleLedger too: every cycle is begun once and
\* closed at most once, after it began, and a restart goes back to the ledger of
\* the last flush (runV9HeartbeatCycle).
THEOREM V9ImplementsLedger == Spec => LedgerRefined
<1>1. Init => Ledger!LedgerInit
  BY DEF Init, Image, Ledger!LedgerInit
<1>2. RecordsInv /\ [Next]_vars => [Ledger!LedgerNext]_(Ledger!ledger)
  BY LedgerSteps
<1> QED
  BY <1>1, <1>2, Inductive, PTL DEF Spec, LedgerRefined, Ledger!LedgerSpec

-----------------------------------------------------------------------------
BeatState == [pc : PCs, id : CycleId, kind : StepKinds \cup {"none"}, topic : Topics \cup {"none"},
              thread : Nat, row : ThreadRow \cup {NoRow},
              outcome : Outcomes \cup {"none"}, sourced : BOOLEAN,
              closed : BOOLEAN, failed : BOOLEAN]

\* The tables in memory and their image on disk: sets and a sequence of rows,
\* with a bound on the numbers of the cycles, so that there is a largest one.
Tables == [traces   : SUBSET CycleId,
           threads  : Seq(ThreadRow),
           steps    : SUBSET [thread : Nat, cycle : CycleId],
           closures : SUBSET [cycle : CycleId, kind : {"no_action", "policy"}, thread : Nat],
           events   : SUBSET [cycle : CycleId, status : {"completed", "failed"}]]

Numbered(tr) == \E n \in Nat : \A t \in tr : t.seq <= n

\* A beat on its way through a thread holds a thread there is, and its row.
Holding(s, ts) ==
    /\ s.pc \in {"stop", "touch", "reread", "append", "progress"} => s.thread \in DOMAIN ts
    /\ s.pc \in {"stop", "append", "progress"} => s.row \in ThreadRow
    /\ s.pc = "create" => s.topic \in Topics
    /\ s.pc \in {"lookup", "insert", "event"} => s.outcome # "none"

TypeInv ==
    /\ Image \in Tables /\ disk \in Tables
    /\ Numbered(traces) /\ Numbered(disk.traces)
    /\ beat \in [Beats -> BeatState]
    /\ \A b \in Beats : Holding(beat[b], threads)
    /\ {clock, begun, overlaps, failures, crashes} \subseteq Nat

LEMMA Typed ==
    ASSUME TypeInv
    PROVE  /\ traces \subseteq CycleId /\ threads \in Seq(ThreadRow)
           /\ steps \subseteq [thread : Nat, cycle : CycleId]
           /\ closures \subseteq [cycle : CycleId, kind : {"no_action", "policy"}, thread : Nat]
           /\ events \subseteq [cycle : CycleId, status : {"completed", "failed"}]
           /\ Len(threads) \in Nat /\ DOMAIN threads = 1..Len(threads)
           /\ \A i \in DOMAIN threads : threads[i] \in ThreadRow
           /\ beat \in [Beats -> BeatState] /\ \A b \in Beats : beat[b] \in BeatState
  BY DEF TypeInv, Image, Tables

LEMMA TypeFollows == TypeInv => TypeOK
<1> SUFFICES ASSUME TypeInv PROVE TypeOK
  OBVIOUS
<1>1. DOMAIN disk = DOMAIN Image
  <2>1. disk \in Tables /\ Image \in Tables
    BY DEF TypeInv
  <2> QED
    BY <2>1 DEF Tables
<1> QED
  BY <1>1, Typed DEF TypeInv, TypeOK, BeatState

LEMMA IdleTyped == Idle \in BeatState /\ Idle.pc = "idle"
<1>1. NoCycle \in CycleId
  BY DEF NoCycle, CycleId
<1> QED
  BY <1>1 DEF Idle, BeatState, PCs

LEMMA TypeStarts == Init => TypeInv
<1> SUFFICES ASSUME Init PROVE TypeInv
  OBVIOUS
<1>1. Image \in Tables
  BY DEF Init, Image, Tables
<1>2. Numbered(traces)
  BY DEF Init, Numbered
<1>3. beat \in [Beats -> BeatState] /\ \A b \in Beats : Holding(beat[b], threads)
  BY IdleTyped DEF Init, Holding
<1>4. disk = Image /\ disk.traces = traces
  BY DEF Init, Image
<1> QED
  BY <1>1, <1>2, <1>3, <1>4 DEF TypeInv, Init

\* What a step may do to the tables.
Grown ==
    /\ traces' \subseteq CycleId /\ Numbered(traces')
    /\ threads' \in Seq(ThreadRow) /\ DOMAIN threads \subseteq DOMAIN threads'
    /\ steps' \subseteq [thread : Nat, cycle : CycleId]
    /\ closures' \subseteq [cycle : CycleId, kind : {"no_action", "policy"}, thread : Nat]
    /\ events' \subseteq [cycle : CycleId, status : {"completed", "failed"}]

LEMMA GrownStays == ASSUME TypeInv, UNCHANGED tables PROVE Grown
  BY Typed DEF Grown, tables, TypeInv

\* A step of one beat to a state s, with or without a failed call.
LEMMA TypeStep ==
    ASSUME TypeInv, NEW b \in Beats, NEW s \in BeatState, GoTo(b, s) \/ FailTo(b, s), Grown,
           Holding(s, threads'), disk' \in {disk, Image}, {clock', begun', overlaps', crashes'} \subseteq Nat
    PROVE  TypeInv'
<1>1. failures' \in Nat
  BY DEF GoTo, FailTo, TypeInv
<1>2. Image' \in Tables /\ Numbered(traces')
  BY DEF Grown, Image, Tables
<1>3. disk' \in Tables /\ Numbered(disk.traces')
  <2>1. Image.traces = traces
    BY DEF Image
  <2> QED
    BY <2>1 DEF TypeInv
<1> DEFINE t == [s EXCEPT !.failed = TRUE]
<1>4. t \in BeatState /\ Holding(t, threads')
  <2>1. t \in BeatState
    BY DEF BeatState
  <2>2. t.pc = s.pc /\ t.thread = s.thread /\ t.row = s.row /\ t.topic = s.topic /\ t.outcome = s.outcome
    BY DEF BeatState
  <2> HIDE DEF t
  <2> QED
    BY <2>1, <2>2 DEF Holding
<1> HIDE DEF t
<1>5. \E u \in BeatState : beat' = [beat EXCEPT ![b] = u] /\ Holding(u, threads')
  BY <1>4 DEF GoTo, FailTo, t
<1>6. beat' \in [Beats -> BeatState] /\ \A c \in Beats : Holding(beat'[c], threads')
  <2>1. \A c \in Beats : Holding(beat[c], threads')
    BY DEF TypeInv, Holding, Grown
  <2> QED
    BY <1>5, <2>1, Typed
<1> QED
  BY <1>1, <1>2, <1>3, <1>6 DEF TypeInv

\* The updates the steps make of a beat's state.
LEMMA StateUpdates ==
    ASSUME NEW s \in BeatState
    PROVE  /\ \A p \in PCs : [s EXCEPT !.pc = p] \in BeatState
           /\ \A i \in Nat : Advanced(s, i) \in BeatState /\ Advanced(s, i).pc = "intent"
           /\ \A o \in Outcomes, q \in BOOLEAN :
                 Closing(s, o, q) \in BeatState /\ Closing(s, o, q).pc = "lookup" /\ Closing(s, o, q).outcome = o
           /\ \A q \in BOOLEAN : /\ Recorded(s, q) \in BeatState /\ Recorded(s, q).pc \in {"flush", "event"}
                                 /\ Recorded(s, q).outcome = s.outcome
           /\ AfterClosing(s) \in BeatState
           /\ AfterClosing(s).pc = "flush" \/ (AfterClosing(s).pc = "lookup" /\ AfterClosing(s).outcome # "none")
<1>1. \A p \in PCs : [s EXCEPT !.pc = p] \in BeatState
  BY DEF BeatState
<1>2. \A i \in Nat : Advanced(s, i) \in BeatState /\ Advanced(s, i).pc = "intent"
  BY DEF BeatState, Advanced, PCs
<1>3. \A o \in Outcomes, q \in BOOLEAN :
         Closing(s, o, q) \in BeatState /\ Closing(s, o, q).pc = "lookup" /\ Closing(s, o, q).outcome = o
  BY ZenonT(40) DEF BeatState, Closing, PCs
<1>4. ASSUME NEW q \in BOOLEAN
      PROVE  /\ Recorded(s, q) \in BeatState /\ Recorded(s, q).pc \in {"flush", "event"}
             /\ Recorded(s, q).outcome = s.outcome
  BY DEF BeatState, Recorded, PCs
<1>5. /\ AfterClosing(s) \in BeatState
      /\ AfterClosing(s).pc = "flush" \/ (AfterClosing(s).pc = "lookup" /\ AfterClosing(s).outcome # "none")
  <2>1. CASE s.outcome = "policy" /\ ~s.closed
    BY <1>3, <2>1 DEF AfterClosing, Outcomes
  <2>2. CASE ~(s.outcome = "policy" /\ ~s.closed)
    BY <2>2 DEF BeatState, AfterClosing, PCs
  <2> QED
    BY <2>1, <2>2
<1> QED
  BY <1>1, <1>2, <1>3, <1>4, <1>5

LEMMA LastSequenceTyped == ASSUME TypeInv PROVE LastSequence \in Nat
<1> DEFINE S == {0} \cup {t.seq : t \in traces}
<1>1. S \subseteq Nat /\ S # {}
  BY Typed DEF CycleId
<1>2. PICK n \in Nat : \A t \in traces : t.seq <= n
  BY DEF TypeInv, Numbered
<1>3. \A m \in S : m <= n
  BY <1>2
<1> HIDE DEF S
<1>4. \E x \in S : \A y \in S : y <= x
  BY <1>1, <1>3, LargestNat
<1>5. \E x \in S : \A y \in S : x >= y
  BY <1>1, <1>4
<1>6. Max(S) \in S
  BY <1>5 DEF Max
<1> QED
  BY <1>1, <1>6 DEF LastSequence, S

LEMMA TypeBegin == ASSUME TypeInv, NEW b \in Beats, Begin(b) PROVE TypeInv'
<1> DEFINE numbered(n) == [Idle EXCEPT !.pc = "trace", !.id = [at |-> clock', seq |-> n]]
<1>1. {clock', begun', overlaps', crashes'} \subseteq Nat
  BY DEF TypeInv, Begin
<1>2. \A n \in Nat : numbered(n) \in BeatState /\ numbered(n).pc = "trace"
  BY <1>1, IdleTyped DEF BeatState, CycleId, PCs
<1>3. [Idle EXCEPT !.pc = "flush"] \in BeatState /\ [Idle EXCEPT !.pc = "flush"].pc = "flush"
  BY IdleTyped, StateUpdates DEF PCs, BeatState
<1>4. LastSequence + 1 \in Nat
  BY LastSequenceTyped
<1>5. PICK s \in BeatState : (GoTo(b, s) \/ FailTo(b, s)) /\ s.pc \in {"trace", "flush"}
  <2>1. \/ GoTo(b, numbered(LastSequence + 1)) \/ FailTo(b, numbered(1))
        \/ GoTo(b, [Idle EXCEPT !.pc = "flush"])
    BY DEF Begin
  <2> HIDE DEF numbered
  <2> QED
    BY <1>2, <1>3, <1>4, <2>1
<1>6. Holding(s, threads') /\ Grown /\ disk' = disk
  BY <1>5, GrownStays DEF Begin, Holding
<1> QED
  BY <1>1, <1>5, <1>6, TypeStep

LEMMA TypeTrace == ASSUME TypeInv, NEW b \in Beats, StartCycleTrace(b) PROVE TypeInv'
<1>1. /\ traces' \in {traces, traces \cup {beat[b].id}} /\ UNCHANGED <<threads, steps, closures, events, disk>>
      /\ {clock', begun', overlaps', crashes'} \subseteq Nat /\ beat[b].id \in CycleId
  BY Typed DEF TypeInv, StartCycleTrace, BeatState
<1>2. \E p \in {"context", "flush"} :
         LET s == [beat[b] EXCEPT !.pc = p] IN GoTo(b, s) \/ FailTo(b, s)
  BY DEF StartCycleTrace
<1>3. PICK s \in BeatState : (GoTo(b, s) \/ FailTo(b, s)) /\ s.pc \in {"context", "flush"}
  <2>1. \A p \in {"context", "flush"} : [beat[b] EXCEPT !.pc = p].pc = p
    BY Typed DEF BeatState
  <2> QED
    BY <1>2, <2>1, Typed, StateUpdates DEF PCs
<1>4. Numbered(traces')
  <2>1. PICK n \in Nat : \A t \in traces : t.seq <= n
    BY DEF TypeInv, Numbered
  <2>2. beat[b].id.seq \in Nat /\ \A t \in traces : t.seq \in Nat
    BY <1>1, Typed DEF CycleId
  <2>3. PICK m \in Nat : n <= m /\ beat[b].id.seq <= m
    <3>1. n <= n + beat[b].id.seq /\ beat[b].id.seq <= n + beat[b].id.seq /\ n + beat[b].id.seq \in Nat
      BY <2>2
    <3> QED
      BY <3>1
  <2>4. \A t \in traces' : t.seq <= m
    BY <1>1, <2>1, <2>2, <2>3
  <2> QED
    BY <2>4 DEF Numbered
<1>5. Grown /\ Holding(s, threads')
  BY <1>1, <1>3, <1>4, Typed DEF Grown, Holding
<1> QED
  BY <1>1, <1>3, <1>5, TypeStep

LEMMA AttendedTyped ==
    ASSUME TypeInv, NEW b \in Beats, NEW ts, ts = threads \/ ts = <<>>, NEW s \in Attended(beat[b], ts)
    PROVE  s \in BeatState /\ Holding(s, threads)
<1>1. beat[b] \in BeatState
  BY Typed
<1>2. CASE s = Closing(beat[b], "no_action", TRUE)
  BY <1>1, <1>2, StateUpdates, ZenonT(40) DEF Holding, Outcomes
<1>3. CASE s = [beat[b] EXCEPT !.pc = "intent"]
  <2>1. s \in BeatState /\ s.pc = "intent"
    BY <1>1, <1>3 DEF PCs, BeatState
  <2> QED
    BY <2>1 DEF Holding
<1>4. ASSUME NEW kind \in StepKinds, NEW topic \in Topics, NEW i \in DOMAIN ts \cup {0},
             s = Chosen(beat[b], ts, kind, topic, i)
      PROVE  s \in BeatState /\ Holding(s, threads)
  <2>1. CASE i = 0
    <3>1. s = [beat[b] EXCEPT !.pc = "create", !.kind = kind, !.topic = topic]
      BY <1>4, <2>1 DEF Chosen
    <3>2. s \in BeatState /\ s.pc = "create" /\ s.topic = topic
      BY <1>1, <3>1 DEF BeatState, PCs
    <3> QED
      BY <3>2 DEF Holding
  <2>2. CASE i # 0
    <3>1. i \in DOMAIN threads /\ i \in Nat /\ ts[i] = threads[i] /\ threads[i] \in ThreadRow
      BY <2>2, Typed
    <3>2. PICK p \in {"stop", "touch"} :
             s = [beat[b] EXCEPT !.kind = kind, !.thread = i, !.row = ts[i], !.pc = p]
      BY <1>4, <2>2 DEF Chosen
    <3>3. s \in BeatState /\ s.pc = p /\ s.thread = i /\ s.row = threads[i]
      BY <1>1, <3>1, <3>2 DEF BeatState, PCs
    <3> QED
      BY <3>1, <3>3 DEF Holding
  <2> QED
    BY <2>1, <2>2
<1>5. \/ s = Closing(beat[b], "no_action", TRUE) \/ s = [beat[b] EXCEPT !.pc = "intent"]
      \/ \E kind \in StepKinds, topic \in Topics, i \in DOMAIN ts \cup {0} : s = Chosen(beat[b], ts, kind, topic, i)
  BY DEF Attended, StepKinds
<1> QED
  BY <1>2, <1>3, <1>4, <1>5

LEMMA TypeAttend == ASSUME TypeInv, NEW b \in Beats, AssembleAndAttend(b) PROVE TypeInv'
<1>1. /\ UNCHANGED <<tables, disk>> /\ {clock', begun', overlaps', crashes'} \subseteq Nat
  BY DEF TypeInv, AssembleAndAttend
<1>2. PICK s \in BeatState : (GoTo(b, s) \/ FailTo(b, s)) /\ Holding(s, threads)
  <2>1. Closing(beat[b], "no_action", TRUE) \in BeatState /\ Holding(Closing(beat[b], "no_action", TRUE), threads)
    BY Typed, StateUpdates, ZenonT(40) DEF Holding, Outcomes
  <2>2. Idle \in BeatState /\ Holding(Idle, threads)
    BY IdleTyped DEF Holding
  <2> QED
    BY <2>1, <2>2, AttendedTyped DEF AssembleAndAttend
<1>3. Grown /\ threads' = threads
  BY <1>1, GrownStays DEF tables
<1> QED
  BY <1>1, <1>2, <1>3, TypeStep

\* Changing the fields of one row of the threads keeps their type and number.
LEMMA ThreadWritten ==
    ASSUME NEW ts \in Seq(ThreadRow), NEW i \in DOMAIN ts, NEW row \in ThreadRow, NEW new,
           new = [ts EXCEPT ![i] = row]
    PROVE  new \in Seq(ThreadRow) /\ DOMAIN new = DOMAIN ts /\ Len(new) = Len(ts)
  BY ExceptSeq

LEMMA TypeThread ==
    ASSUME TypeInv, NEW b \in Beats, Advance(b)
    PROVE  TypeInv'
<1> DEFINE s == beat[b]
           i == s.thread
           un == Unadvanced(s)
<1>1. s \in BeatState /\ Holding(s, threads) /\ i \in Nat /\ s.id.seq \in Nat /\ s.id \in CycleId
  BY Typed DEF TypeInv, BeatState, CycleId
<1>2. {clock', begun', overlaps', crashes'} \subseteq Nat /\ disk' = disk
  BY DEF TypeInv, Advance, StopThread, TouchThread, RereadThread, CreateThread, AppendStep, ProgressThread
<1>3. un \in BeatState /\ un.pc = "intent" /\ \A ts : Holding(un, ts)
  <2>1. un \in BeatState /\ un.pc = "intent"
    <3>1. 0 \in Nat
      OBVIOUS
    <3> QED
      BY <1>1, <3>1, StateUpdates DEF Unadvanced
  <2> HIDE DEF un
  <2> QED
    BY <2>1 DEF Holding
<1>4. ASSUME UNCHANGED <<traces, threads, closures, events>>, NEW u, steps' = steps \/ steps' = steps \cup {u},
             u \in [thread : Nat, cycle : CycleId]
      PROVE  Grown
  BY <1>4, Typed DEF Grown, TypeInv
<1>5. ASSUME UNCHANGED <<traces, steps, closures, events>>, threads' \in Seq(ThreadRow), DOMAIN threads \subseteq DOMAIN threads'
      PROVE  Grown
  BY <1>5, Typed DEF Grown, TypeInv
<1>6. CASE StopThread(b)
  <2> DEFINE over == s.row.count >= MaxSteps
             row == [threads[i] EXCEPT !.status = IF over THEN "blocked" ELSE "paused", !.last = s.id.seq]
             stopped == [threads EXCEPT ![i].status = IF over THEN "blocked" ELSE "paused", ![i].last = s.id.seq]
  <2>1. i \in DOMAIN threads /\ threads[i] \in ThreadRow
    BY <1>1, <1>6, Typed DEF StopThread, Holding
  <2>2. row \in ThreadRow
    BY <1>1, <2>1 DEF ThreadRow
  <2>3. stopped = [threads EXCEPT ![i] = row]
    BY <2>1, Typed
  <2>4. threads' \in {threads, stopped} /\ UNCHANGED <<traces, steps, closures, events>> /\ (GoTo(b, un) \/ FailTo(b, un))
    BY <1>6 DEF StopThread
  <2> HIDE DEF row, stopped
  <2>5. threads' \in Seq(ThreadRow) /\ DOMAIN threads' = DOMAIN threads
    BY <2>1, <2>2, <2>3, <2>4, Typed, ThreadWritten
  <2> HIDE DEF un
  <2> QED
    BY <1>2, <1>3, <1>5, <2>4, <2>5, TypeStep
<1>7. CASE TouchThread(b)
  <2> DEFINE row == [threads[i] EXCEPT !.last = s.id.seq]
             touched == [threads EXCEPT ![i].last = s.id.seq]
             t == [s EXCEPT !.pc = "reread"]
  <2>1. i \in DOMAIN threads /\ threads[i] \in ThreadRow
    BY <1>1, <1>7, Typed DEF TouchThread, Holding
  <2>2. row \in ThreadRow /\ touched = [threads EXCEPT ![i] = row]
    BY <1>1, <2>1, Typed DEF ThreadRow
  <2>3. /\ threads' \in {threads, touched} /\ UNCHANGED <<traces, steps, closures, events>>
        /\ GoTo(b, t) \/ FailTo(b, un)
    BY <1>7 DEF TouchThread
  <2>4. t \in BeatState /\ t.pc = "reread" /\ t.thread = i
    BY <1>1 DEF BeatState, PCs
  <2> HIDE DEF row, touched, un, t
  <2>5. threads' \in Seq(ThreadRow) /\ DOMAIN threads' = DOMAIN threads
    BY <2>1, <2>2, <2>3, Typed, ThreadWritten
  <2>6. Holding(t, threads')
    BY <2>1, <2>4, <2>5 DEF Holding
  <2> QED
    BY <1>2, <1>3, <1>5, <2>3, <2>4, <2>5, <2>6, TypeStep
<1>8. CASE RereadThread(b)
  <2> DEFINE t == [s EXCEPT !.pc = "append", !.row = threads[i]]
  <2>1. i \in DOMAIN threads /\ threads[i] \in ThreadRow
    BY <1>1, <1>8, Typed DEF RereadThread, Holding
  <2>2. UNCHANGED <<traces, threads, steps, closures, events>> /\ (GoTo(b, t) \/ FailTo(b, un))
    BY <1>8 DEF RereadThread, tables
  <2>3. t \in BeatState /\ t.pc = "append" /\ t.thread = i /\ t.row = threads[i]
    BY <1>1, <2>1 DEF BeatState, PCs
  <2> HIDE DEF un, t
  <2>4. Holding(t, threads)
    BY <2>1, <2>3 DEF Holding
  <2> QED
    BY <1>2, <1>3, <1>5, <2>2, <2>3, <2>4, Typed, TypeStep
<1>9. CASE CreateThread(b)
  <2> DEFINE row == [topic |-> s.topic, status |-> "active", count |-> 0, last |-> s.id.seq]
             n == Len(threads) + 1
             t == [s EXCEPT !.pc = "append", !.thread = n, !.row = row]
  <2>1. row \in ThreadRow /\ n \in Nat
    BY <1>1, <1>9, Typed DEF CreateThread, Holding, ThreadRow
  <2>2. t \in BeatState /\ t.pc = "append" /\ t.thread = n /\ t.row = row
    BY <1>1, <2>1 DEF BeatState, PCs
  <2>3. \/ threads' = Append(threads, row) /\ GoTo(b, t)
        \/ threads' = threads /\ FailTo(b, un)
    BY <1>9 DEF CreateThread
  <2>4. UNCHANGED <<traces, steps, closures, events>>
    BY <1>9 DEF CreateThread
  <2> HIDE DEF un, t, row
  <2>5. CASE threads' = Append(threads, row) /\ GoTo(b, t)
    <3>1. threads' \in Seq(ThreadRow) /\ DOMAIN threads' = 1..n /\ DOMAIN threads = 1..Len(threads) /\ Len(threads) \in Nat
      BY <2>1, <2>5, Typed
    <3>2. Holding(t, threads') /\ DOMAIN threads \subseteq DOMAIN threads'
      BY <2>1, <2>2, <3>1 DEF Holding
    <3> QED
      BY <1>2, <1>5, <2>2, <2>4, <2>5, <3>1, <3>2, TypeStep
  <2>6. CASE threads' = threads /\ FailTo(b, un)
    BY <1>2, <1>3, <1>5, <2>4, <2>6, Typed, TypeStep
  <2> QED
    BY <2>3, <2>5, <2>6
<1>10. CASE AppendStep(b)
  <2> DEFINE t == [s EXCEPT !.pc = "progress"]
             u == [thread |-> i, cycle |-> s.id]
  <2>1. i \in DOMAIN threads /\ s.row \in ThreadRow
    BY <1>1, <1>10 DEF AppendStep, Holding
  <2>2. u \in [thread : Nat, cycle : CycleId]
    BY <1>1
  <2>3. /\ UNCHANGED <<traces, threads, closures, events>> /\ (steps' = steps \/ steps' = steps \cup {u})
        /\ GoTo(b, t) \/ FailTo(b, un)
    BY <1>10 DEF AppendStep
  <2>4. t \in BeatState /\ t.pc = "progress" /\ t.thread = i /\ t.row = s.row
    BY <1>1 DEF BeatState, PCs
  <2> HIDE DEF un, t, u
  <2>5. Holding(t, threads)
    BY <2>1, <2>4 DEF Holding
  <2> QED
    BY <1>2, <1>3, <1>4, <2>2, <2>3, <2>4, <2>5, TypeStep
<1>11. CASE ProgressThread(b)
  <2> DEFINE row == [threads[i] EXCEPT !.status = NextStatus(s), !.last = s.id.seq, !.count = s.row.count + 1]
             ad == Advanced(s, i)
  <2>1. i \in DOMAIN threads /\ threads[i] \in ThreadRow /\ s.row \in ThreadRow
    BY <1>1, <1>11, Typed DEF ProgressThread, Holding
  <2>2. NextStatus(s) \in {"active", "paused", "blocked", "completed"} /\ s.row.count \in Nat
    BY <2>1 DEF NextStatus, ThreadRow
  <2>3. row \in ThreadRow /\ Progressed(s) = [threads EXCEPT ![i] = row]
    <3>1. s.row.count + 1 \in Nat
      BY <2>2
    <3>2. row \in ThreadRow
      BY <1>1, <2>1, <2>2, <3>1 DEF ThreadRow
    <3>3. Progressed(s) = [threads EXCEPT ![i] = row]
      BY <2>1, Typed DEF Progressed
    <3> QED
      BY <3>2, <3>3
  <2>4. /\ threads' \in {threads, Progressed(s)} /\ UNCHANGED <<traces, steps, closures, events>>
        /\ GoTo(b, ad) \/ FailTo(b, un)
    BY <1>11 DEF ProgressThread
  <2>5. ad \in BeatState /\ ad.pc = "intent"
    BY <1>1, StateUpdates
  <2> HIDE DEF un, ad, row
  <2>6. threads' \in Seq(ThreadRow) /\ DOMAIN threads' = DOMAIN threads
    BY <2>1, <2>3, <2>4, Typed, ThreadWritten
  <2>7. Holding(ad, threads')
    BY <2>5 DEF Holding
  <2> QED
    BY <1>2, <1>3, <1>5, <2>4, <2>5, <2>6, <2>7, TypeStep
<1> QED
  BY <1>6, <1>7, <1>8, <1>9, <1>10, <1>11 DEF Advance

LEMMA TypeClose ==
    ASSUME TypeInv, NEW b \in Beats,
           ResolveIntent(b) \/ LookupClosure(b) \/ InsertClosure(b) \/ RecordClosing(b)
    PROVE  TypeInv'
<1> DEFINE s == beat[b]
<1>1. /\ s \in BeatState /\ Holding(s, threads) /\ s.id \in CycleId /\ s.thread \in Nat
      /\ s.pc \in {"lookup", "insert", "event"} => s.outcome # "none"
  BY Typed DEF TypeInv, BeatState, Holding
<1>2. {clock', begun', overlaps', crashes'} \subseteq Nat /\ disk' = disk /\ UNCHANGED <<traces, threads, steps>>
  BY DEF TypeInv, ResolveIntent, LookupClosure, InsertClosure, RecordClosing, tables
<1>3. PICK t \in BeatState : (GoTo(b, t) \/ FailTo(b, t))
         /\ t.pc \notin {"stop", "touch", "reread", "append", "progress", "create"}
         /\ (t.pc \in {"lookup", "insert", "event"} => t.outcome # "none")
  <2>1. CASE ResolveIntent(b)
    <3>1. \/ \E o \in Outcomes, q \in BOOLEAN : GoTo(b, Closing(s, o, q))
          \/ FailTo(b, Idle)
      BY <2>1 DEF ResolveIntent, Outcomes
    <3>2. \A o \in Outcomes, q \in BOOLEAN :
             Closing(s, o, q) \in BeatState /\ Closing(s, o, q).pc = "lookup" /\ Closing(s, o, q).outcome # "none"
      BY <1>1, StateUpdates DEF Outcomes
    <3> QED
      BY <3>1, <3>2, IdleTyped
  <2>2. CASE LookupClosure(b)
    <3>1. \/ \E q \in BOOLEAN : GoTo(b, Recorded(s, q)) \/ FailTo(b, Recorded(s, q))
          \/ GoTo(b, [s EXCEPT !.pc = "insert"])
      BY <2>2 DEF LookupClosure
    <3>2. s.outcome # "none"
      BY <1>1, <2>2 DEF LookupClosure
    <3>3. \A q \in BOOLEAN : /\ Recorded(s, q) \in BeatState /\ Recorded(s, q).pc \in {"flush", "event"}
                             /\ Recorded(s, q).outcome = s.outcome
      BY <1>1, StateUpdates
    <3>4. LET t == [s EXCEPT !.pc = "insert"] IN t \in BeatState /\ t.pc = "insert" /\ t.outcome = s.outcome
      BY <1>1 DEF BeatState, PCs
    <3> QED
      BY <3>1, <3>2, <3>3, <3>4
  <2>3. CASE InsertClosure(b)
    <3>1. \E q \in BOOLEAN : GoTo(b, Recorded(s, q)) \/ FailTo(b, Recorded(s, q))
      BY <2>3 DEF InsertClosure
    <3>2. s.outcome # "none"
      BY <1>1, <2>3 DEF InsertClosure
    <3>3. \A q \in BOOLEAN : /\ Recorded(s, q) \in BeatState /\ Recorded(s, q).pc \in {"flush", "event"}
                             /\ Recorded(s, q).outcome = s.outcome
      BY <1>1, StateUpdates
    <3> QED
      BY <3>1, <3>2, <3>3
  <2>4. CASE RecordClosing(b)
    <3>1. GoTo(b, AfterClosing(s)) \/ FailTo(b, AfterClosing(s))
      BY <2>4 DEF RecordClosing
    <3>2. /\ AfterClosing(s) \in BeatState
          /\ AfterClosing(s).pc = "flush" \/ (AfterClosing(s).pc = "lookup" /\ AfterClosing(s).outcome # "none")
      BY <1>1, StateUpdates
    <3> QED
      BY <3>1, <3>2
  <2> QED
    BY <2>1, <2>2, <2>3, <2>4
<1>4. Holding(t, threads')
  BY <1>3 DEF Holding
<1>5. closures' \subseteq [cycle : CycleId, kind : {"no_action", "policy"}, thread : Nat]
  <2>1. ClosureOf(s) \in [cycle : CycleId, kind : {"no_action", "policy"}, thread : Nat]
    BY <1>1 DEF ClosureOf
  <2>2. closures' \subseteq closures \cup {ClosureOf(s)}
    BY DEF ResolveIntent, LookupClosure, InsertClosure, RecordClosing, tables
  <2> QED
    BY <2>1, <2>2, Typed
<1>6. events' \subseteq [cycle : CycleId, status : {"completed", "failed"}]
  <2>1. [cycle |-> s.id, status |-> ClosingStatus(s)] \in [cycle : CycleId, status : {"completed", "failed"}]
    BY <1>1 DEF ClosingStatus
  <2>2. events' \subseteq events \cup {[cycle |-> s.id, status |-> ClosingStatus(s)]}
    BY DEF ResolveIntent, LookupClosure, InsertClosure, RecordClosing, tables
  <2> QED
    BY <2>1, <2>2, Typed
<1>7. Grown
  BY <1>2, <1>5, <1>6, Typed DEF Grown, TypeInv
<1> QED
  BY <1>2, <1>3, <1>4, <1>7, TypeStep

LEMMA TypeNext == TypeInv /\ [Next]_vars => TypeInv'
<1> SUFFICES ASSUME TypeInv, [Next]_vars PROVE TypeInv'
  OBVIOUS
<1>1. ASSUME NEW b \in Beats, Flush(b) PROVE TypeInv'
  <2>1. (GoTo(b, Idle) \/ FailTo(b, Idle)) /\ disk' \in {disk, Image} /\ UNCHANGED tables
        /\ {clock', begun', overlaps', crashes'} \subseteq Nat
    BY <1>1 DEF Flush, TypeInv
  <2>2. Holding(Idle, threads')
    BY IdleTyped DEF Holding
  <2> QED
    BY <2>1, <2>2, IdleTyped, GrownStays, TypeStep
<1>2. CASE Crash
  <2>1. /\ Image' = disk /\ disk' = disk /\ traces' = disk.traces
    <3>1. disk \in Tables
      BY DEF TypeInv
    <3> QED
      BY <1>2, <3>1 DEF Crash, Image, Tables
  <2>2. beat' \in [Beats -> BeatState] /\ \A b \in Beats : beat'[b].pc = "idle"
    BY <1>2, IdleTyped DEF Crash
  <2>3. {clock', begun', overlaps', failures', crashes'} \subseteq Nat
    BY <1>2 DEF Crash, TypeInv
  <2>4. \A b \in Beats : Holding(beat'[b], threads')
    BY <2>2 DEF Holding
  <2> QED
    BY <2>1, <2>2, <2>3, <2>4 DEF TypeInv
<1>3. CASE UNCHANGED vars
  BY <1>3 DEF vars, tables, TypeInv, Image, Holding
<1> QED
  BY <1>1, <1>2, <1>3, TypeBegin, TypeTrace, TypeAttend, TypeThread, TypeClose DEF Next, Step

\* The variables keep their types, the image on disk included, whatever the
\* overlaps, the failures and the crashes.
THEOREM TypeCorrect == Spec => []TypeOK
  BY TypeStarts, TypeNext, TypeFollows, PTL DEF Spec

-----------------------------------------------------------------------------
\* What may leave a count behind; the beats that may still come to write one;
\* those that are about to, for thread i; and the steps of thread i.
Lost == failures + overlaps + crashes
GoingPCs == Advancing \cup {"trace", "progress"}
Going(bt) == {b \in Beats : bt[b].pc \in GoingPCs}
Writes(s, i) == s.pc = "progress" /\ s.thread = i
Writing(bt, i) == {b \in Beats : Writes(bt[b], i)}
Taken(st, i) == Cardinality({x \in st : x.thread = i})

\* How far a count read now may be behind when it is written back, less one.
Room(e, bt, i) == e + Cardinality(Writing(bt, i)) - Cardinality(Going(bt))

\* A thread with n steps counts c of them, after e losses, with w of the g
\* beats on their way about to write its count.
Counted(c, n, e, w, g) ==
    /\ c <= n /\ n <= c + e + w
    /\ g > 0 => n <= c + e + w - g + 1
    /\ n <= MaxSteps + e

\* What a beat knows of its thread, which has n steps and the room r.
Aware(s, n, r) ==
    /\ s.pc \in {"append", "progress"} => s.row.count <= n /\ n <= s.row.count + r + 1
    /\ s.pc = "progress" => s.row.count + 1 <= n
    /\ s.pc \in {"touch", "reread", "append"} => n <= MaxSteps + r

LagInv ==
    /\ IsFiniteSet(Going(beat)) /\ IsFiniteSet(steps) /\ IsFiniteSet(disk.steps)
    /\ Cardinality(Going(beat)) <= Lost + 1
    /\ \A x \in steps : x.thread \in DOMAIN threads
    /\ \A x \in disk.steps : x.thread \in DOMAIN disk.threads
    /\ \A i \in DOMAIN threads :
           Counted(threads[i].count, Taken(steps, i), Lost, Cardinality(Writing(beat, i)), Cardinality(Going(beat)))
    /\ \A i \in DOMAIN disk.threads :
           Counted(disk.threads[i].count, Taken(disk.steps, i), Lost + 1, 0, 0)
    /\ \A b \in Beats : Aware(beat[b], Taken(steps, beat[b].thread), Room(Lost, beat, beat[b].thread))

LEMMA Numbers ==
    ASSUME TypeInv, LagInv
    PROVE  /\ Lost \in Nat /\ MaxSteps \in Nat \ {0} /\ Cardinality(Going(beat)) \in Nat
           /\ \A i : /\ Taken(steps, i) \in Nat
                     /\ IsFiniteSet(Writing(beat, i)) /\ Cardinality(Writing(beat, i)) \in Nat
                     /\ Cardinality(Writing(beat, i)) <= Cardinality(Going(beat))
                     /\ Room(Lost, beat, i) \in Int
           /\ \A i \in DOMAIN threads : threads[i].count \in Nat
<1>1. Lost \in Nat /\ MaxSteps \in Nat \ {0} /\ Cardinality(Going(beat)) \in Nat
  BY FS_CardinalityType, V9Assumption DEF TypeInv, LagInv, Lost
<1>2. ASSUME NEW i
      PROVE  /\ Taken(steps, i) \in Nat
             /\ IsFiniteSet(Writing(beat, i)) /\ Cardinality(Writing(beat, i)) \in Nat
             /\ Cardinality(Writing(beat, i)) <= Cardinality(Going(beat))
             /\ Room(Lost, beat, i) \in Int
  <2>1. {x \in steps : x.thread = i} \in SUBSET steps /\ Writing(beat, i) \in SUBSET Going(beat)
    BY DEF Writing, Writes, Going, GoingPCs
  <2>2. IsFiniteSet({x \in steps : x.thread = i}) /\ IsFiniteSet(Writing(beat, i)) /\ Cardinality(Writing(beat, i)) <= Cardinality(Going(beat))
    BY <2>1, FS_Subset DEF LagInv
  <2>3. Taken(steps, i) \in Nat /\ Cardinality(Writing(beat, i)) \in Nat
    BY <2>2, FS_CardinalityType DEF Taken
  <2> QED
    BY <1>1, <2>2, <2>3 DEF Room
<1>3. \A i \in DOMAIN threads : threads[i].count \in Nat
  BY Typed DEF ThreadRow
<1> QED
  BY <1>1, <1>2, <1>3

\* A beat's step moves at most that beat in and out of the sets.
LEMMA BeatMoved ==
    ASSUME TypeInv, LagInv, NEW b \in Beats, NEW t, beat' = [beat EXCEPT ![b] = t]
    PROVE  /\ IsFiniteSet(Going(beat')) /\ Cardinality(Going(beat')) \in Nat
           /\ (beat[b].pc \in GoingPCs <=> t.pc \in GoingPCs) => Cardinality(Going(beat')) = Cardinality(Going(beat))
           /\ beat[b].pc \in GoingPCs /\ t.pc \notin GoingPCs => Cardinality(Going(beat')) = Cardinality(Going(beat)) - 1
           /\ beat[b].pc \notin GoingPCs /\ t.pc \in GoingPCs => Cardinality(Going(beat')) = Cardinality(Going(beat)) + 1
<1>1. beat'[b] = t /\ \A c \in Beats \ {b} : beat'[c] = beat[c]
  BY Typed
<1>2. /\ Going(beat') \ {b} = Going(beat) \ {b}
      /\ b \in Going(beat') <=> t.pc \in GoingPCs
      /\ b \in Going(beat) <=> beat[b].pc \in GoingPCs
  BY <1>1 DEF Going
<1>3. IsFiniteSet(Going(beat))
  BY DEF LagInv
<1>4. /\ IsFiniteSet(Going(beat'))
      /\ (b \in Going(beat) <=> b \in Going(beat')) => Cardinality(Going(beat')) = Cardinality(Going(beat))
      /\ b \in Going(beat) /\ b \notin Going(beat') => Cardinality(Going(beat')) = Cardinality(Going(beat)) - 1
      /\ b \notin Going(beat) /\ b \in Going(beat') => Cardinality(Going(beat')) = Cardinality(Going(beat)) + 1
  BY <1>2, <1>3, SetMove
<1>5. Cardinality(Going(beat')) \in Nat
  BY <1>4, FS_CardinalityType
<1> QED
  BY <1>2, <1>4, <1>5

LEMMA WriterMoved ==
    ASSUME TypeInv, LagInv, NEW b \in Beats, NEW t, beat' = [beat EXCEPT ![b] = t], NEW i
    PROVE  /\ Cardinality(Writing(beat', i)) \in Nat
           /\ (Writes(beat[b], i) <=> Writes(t, i)) => Cardinality(Writing(beat', i)) = Cardinality(Writing(beat, i))
           /\ Writes(beat[b], i) /\ ~Writes(t, i) => Cardinality(Writing(beat', i)) = Cardinality(Writing(beat, i)) - 1
           /\ ~Writes(beat[b], i) /\ Writes(t, i) => Cardinality(Writing(beat', i)) = Cardinality(Writing(beat, i)) + 1
<1>1. beat'[b] = t /\ \A c \in Beats \ {b} : beat'[c] = beat[c]
  BY Typed
<1>2. /\ Writing(beat', i) \ {b} = Writing(beat, i) \ {b}
      /\ b \in Writing(beat', i) <=> Writes(t, i)
      /\ b \in Writing(beat, i) <=> Writes(beat[b], i)
  BY <1>1 DEF Writing
<1>3. IsFiniteSet(Writing(beat, i))
  BY Numbers
<1>4. /\ IsFiniteSet(Writing(beat', i))
      /\ (b \in Writing(beat, i) <=> b \in Writing(beat', i)) => Cardinality(Writing(beat', i)) = Cardinality(Writing(beat, i))
      /\ b \in Writing(beat, i) /\ b \notin Writing(beat', i) => Cardinality(Writing(beat', i)) = Cardinality(Writing(beat, i)) - 1
      /\ b \notin Writing(beat, i) /\ b \in Writing(beat', i) => Cardinality(Writing(beat', i)) = Cardinality(Writing(beat, i)) + 1
  BY <1>2, <1>3, SetMove
<1>5. Cardinality(Writing(beat', i)) \in Nat
  BY <1>4, FS_CardinalityType
<1> QED
  BY <1>2, <1>4, <1>5

\* What others know lasts as long as their thread gets no more steps than room.
LEMMA StillAware ==
    ASSUME NEW s, s.pc \in {"append", "progress"} => s.row.count \in Nat,
           NEW n \in Nat, NEW r \in Int, NEW m \in Nat, NEW q \in Int, MaxSteps \in Nat,
           n <= m, r - n <= q - m, Aware(s, n, r)
    PROVE  Aware(s, m, q)
  BY DEF Aware

\* A beat's step keeps the invariant when no thread gets more steps than room,
\* its counts are right, and so is what the beat knows afterwards.
LEMMA LagStep ==
    ASSUME TypeInv, LagInv, NEW b \in Beats, NEW t, beat' = [beat EXCEPT ![b] = t],
           disk' \in {disk, Image}, Lost' \in Nat, Lost <= Lost', IsFiniteSet(steps'),
           \A x \in steps' : x.thread \in DOMAIN threads',
           Cardinality(Going(beat')) <= Lost' + 1,
           \A i \in DOMAIN threads : /\ Taken(steps', i) \in Nat /\ Taken(steps, i) <= Taken(steps', i)
                                     /\ Going(beat) = {} \/ Room(Lost, beat, i) - Taken(steps, i) <= Room(Lost', beat', i) - Taken(steps', i),
           \A i \in DOMAIN threads' :
               Counted(threads'[i].count, Taken(steps', i), Lost', Cardinality(Writing(beat', i)), Cardinality(Going(beat'))),
           Aware(t, Taken(steps', t.thread), Room(Lost', beat', t.thread))
    PROVE  LagInv'
<1>1. beat'[b] = t /\ \A c \in Beats \ {b} : beat'[c] = beat[c]
  BY Typed
<1>2. IsFiniteSet(Going(beat')) /\ Cardinality(Going(beat')) \in Nat /\ \A i : Cardinality(Writing(beat', i)) \in Nat
  BY BeatMoved, WriterMoved
<1>3. ASSUME NEW c \in Beats PROVE Aware(beat'[c], Taken(steps', beat'[c].thread), Room(Lost', beat', beat'[c].thread))
  <2>1. CASE c = b
    BY <1>1, <2>1
  <2>2. CASE c # b /\ beat[c].pc \in {"touch", "reread", "append", "progress"}
    <3>0. PICK i : i = beat[c].thread
      OBVIOUS
    <3>1. i \in DOMAIN threads /\ (beat[c].pc \in {"append", "progress"} => beat[c].row.count \in Nat)
      BY <2>2, <3>0 DEF TypeInv, Holding, ThreadRow
    <3>2. Going(beat) # {}
      BY <2>2 DEF Going, GoingPCs, Advancing
    <3>3. Aware(beat[c], Taken(steps, i), Room(Lost, beat, i))
      BY <3>0 DEF LagInv
    <3>4. Room(Lost', beat', i) \in Int
      <4>1. Cardinality(Going(beat')) \in Nat /\ Cardinality(Writing(beat', i)) \in Nat
        BY <1>2
      <4> QED
        BY <4>1 DEF Room
    <3>5. Taken(steps', i) \in Nat /\ Taken(steps, i) <= Taken(steps', i) /\ Room(Lost, beat, i) - Taken(steps, i) <= Room(Lost', beat', i) - Taken(steps', i)
      BY <3>1, <3>2
    <3>6. Aware(beat[c], Taken(steps', i), Room(Lost', beat', i))
      BY <3>1, <3>3, <3>4, <3>5, Numbers, StillAware
    <3> QED
      BY <1>1, <2>2, <3>0, <3>6
  <2>3. CASE c # b /\ beat[c].pc \notin {"touch", "reread", "append", "progress"}
    BY <1>1, <2>3 DEF Aware
  <2> QED
    BY <2>1, <2>2, <2>3
<1>4. /\ IsFiniteSet(disk'.steps) /\ \A x \in disk'.steps : x.thread \in DOMAIN disk'.threads
      /\ \A i \in DOMAIN disk'.threads :
             Counted(disk'.threads[i].count, Taken(disk'.steps, i), Lost' + 1, 0, 0)
  <2>1. CASE disk' = disk
    <3>1. ASSUME NEW i \in DOMAIN disk.threads
          PROVE  Counted(disk.threads[i].count, Taken(disk.steps, i), Lost' + 1, 0, 0)
      <4>1. disk.threads[i].count \in Nat
        <5>1. disk.threads \in Seq(ThreadRow)
          BY DEF TypeInv, Tables
        <5>2. disk.threads[i] \in ThreadRow
          BY <5>1
        <5> QED
          BY <5>2 DEF ThreadRow
      <4>2. Taken(disk.steps, i) \in Nat
        <5>1. IsFiniteSet({x \in disk.steps : x.thread = i})
          <6>1. {x \in disk.steps : x.thread = i} \in SUBSET disk.steps
            OBVIOUS
          <6> QED
            BY <6>1, FS_Subset DEF LagInv
        <5> QED
          BY <5>1, FS_CardinalityType DEF Taken
      <4>3. Counted(disk.threads[i].count, Taken(disk.steps, i), Lost + 1, 0, 0)
        BY DEF LagInv
      <4> QED
        BY <4>1, <4>2, <4>3, Numbers DEF Counted
    <3> QED
      BY <2>1, <3>1 DEF LagInv
  <2>2. CASE disk' = Image
    <3>1. disk'.steps = steps /\ disk'.threads = threads
      BY <2>2 DEF Image
    <3>2. ASSUME NEW i \in DOMAIN threads
          PROVE  Counted(threads[i].count, Taken(steps, i), Lost' + 1, 0, 0)
      <4>1. Counted(threads[i].count, Taken(steps, i), Lost, Cardinality(Writing(beat, i)), Cardinality(Going(beat)))
        BY DEF LagInv
      <4> QED
        BY <4>1, Numbers DEF Counted
    <3> QED
      BY <3>1, <3>2 DEF LagInv, Taken, StepsOf
  <2> QED
    BY <2>1, <2>2
<1> QED
  BY <1>2, <1>3, <1>4 DEF LagInv

LEMMA QuietRoom ==
    ASSUME NEW e \in Nat, NEW d \in Nat, NEW w \in Nat, NEW v \in Nat, NEW g \in Nat, NEW h \in Nat,
           h <= g, e <= d, v = w \/ (v = w - 1 /\ h = g - 1 /\ e + 1 <= d)
    PROVE  e + w <= d + v /\ e + w - g <= d + v - h /\ d + v - h \in Int
  OBVIOUS

\* A step that takes no step of a thread and counts none, and whose beat does
\* not come back to its way: if it leaves a count unwritten, that is a loss.
LEMMA QuietLag ==
    ASSUME TypeInv, LagInv, NEW b \in Beats, NEW t, beat' = [beat EXCEPT ![b] = t],
           disk' \in {disk, Image}, Lost' \in Nat, Lost <= Lost', steps' = steps,
           DOMAIN threads' = DOMAIN threads,
           \A i \in DOMAIN threads : threads'[i].count = threads[i].count,
           t.pc \in GoingPCs => beat[b].pc \in GoingPCs,
           t.pc # "progress",
           beat[b].pc = "progress" => t.pc \notin GoingPCs /\ Lost + 1 <= Lost',
           t.pc \in {"touch", "reread", "append"} => t.thread \in DOMAIN threads,
           t.pc = "append" => t.row.count \in Nat,
           Aware(t, Taken(steps, t.thread), Room(Lost, beat, t.thread))
    PROVE  LagInv'
<1>1. "progress" \in GoingPCs
  BY DEF GoingPCs
<1>2. Cardinality(Going(beat')) \in Nat /\ Cardinality(Going(beat')) <= Cardinality(Going(beat))
  <2>1. /\ Cardinality(Going(beat')) \in Nat
        /\ \/ Cardinality(Going(beat')) = Cardinality(Going(beat))
           \/ Cardinality(Going(beat')) = Cardinality(Going(beat)) - 1
    BY BeatMoved
  <2>2. Cardinality(Going(beat)) \in Nat
    BY Numbers
  <2> QED
    BY <2>1, <2>2
<1>3. \A i : Taken(steps', i) = Taken(steps, i)
  BY DEF Taken, StepsOf
<1>4. ASSUME NEW i
      PROVE  /\ Room(Lost', beat', i) \in Int /\ Room(Lost, beat, i) <= Room(Lost', beat', i)
             /\ Lost + Cardinality(Writing(beat, i)) <= Lost' + Cardinality(Writing(beat', i))
             /\ Cardinality(Writing(beat', i)) \in Nat
  <2> DEFINE g == Cardinality(Going(beat))
             h == Cardinality(Going(beat'))
             w == Cardinality(Writing(beat, i))
             v == Cardinality(Writing(beat', i))
  <2>1. g \in Nat /\ h \in Nat /\ w \in Nat /\ v \in Nat /\ Lost \in Nat /\ Lost' \in Nat /\ Lost <= Lost' /\ h <= g
    BY <1>2, WriterMoved, Numbers
  <2>2. CASE beat[b].pc = "progress"
    <3>1. h = g - 1 /\ Lost + 1 <= Lost'
      BY <1>1, <2>2, BeatMoved
    <3>2. v = w \/ v = w - 1
      <4>1. ~Writes(t, i)
        BY DEF Writes
      <4> QED
        BY <4>1, WriterMoved
    <3> HIDE DEF g, h, v, w
    <3>3. Lost + w <= Lost' + v /\ Lost + w - g <= Lost' + v - h /\ Lost' + v - h \in Int
      <4> DEFINE e == Lost
                 d == Lost'
      <4>1. e \in Nat /\ d \in Nat /\ e <= d /\ e + 1 <= d
        BY <2>1, <3>1
      <4> HIDE DEF e, d
      <4>2. e + w <= d + v /\ e + w - g <= d + v - h /\ d + v - h \in Int
        BY <2>1, <3>1, <3>2, <4>1, QuietRoom
      <4> QED
        BY <4>2 DEF e, d
    <3> QED
      BY <2>1, <3>3 DEF Room, g, h, v, w
  <2>3. CASE beat[b].pc # "progress"
    <3>1. v = w
      <4>1. ~Writes(t, i) /\ ~Writes(beat[b], i)
        BY <2>3 DEF Writes
      <4> QED
        BY <4>1, WriterMoved
    <3> HIDE DEF g, h, v, w
    <3>2. Lost + w <= Lost' + v /\ Lost + w - g <= Lost' + v - h /\ Lost' + v - h \in Int
      BY <2>1, <3>1, QuietRoom
    <3> QED
      BY <2>1, <3>2 DEF Room, g, h, v, w
  <2> QED
    BY <2>2, <2>3
<1>5. Cardinality(Going(beat')) <= Lost' + 1
  BY <1>2, Numbers DEF LagInv
<1>6. ASSUME NEW i \in DOMAIN threads
      PROVE  Counted(threads'[i].count, Taken(steps', i), Lost', Cardinality(Writing(beat', i)), Cardinality(Going(beat')))
  <2>1. Counted(threads[i].count, Taken(steps, i), Lost, Cardinality(Writing(beat, i)), Cardinality(Going(beat)))
    BY DEF LagInv
  <2>2. Room(Lost, beat, i) <= Room(Lost', beat', i)
    BY <1>4
  <2>3. Lost + Cardinality(Writing(beat, i)) <= Lost' + Cardinality(Writing(beat', i))
    BY <1>4
  <2>4. Room(Lost, beat, i) = Lost + Cardinality(Writing(beat, i)) - Cardinality(Going(beat))
        /\ Room(Lost', beat', i) = Lost' + Cardinality(Writing(beat', i)) - Cardinality(Going(beat'))
    BY DEF Room
  <2>5. threads[i].count \in Nat /\ threads'[i].count = threads[i].count /\ Cardinality(Writing(beat', i)) \in Nat
    <3>1. Cardinality(Writing(beat', i)) \in Nat
      BY <1>4
    <3>2. threads[i].count \in Nat
      BY Numbers
    <3> QED
      BY <3>1, <3>2
  <2> QED
    BY <1>2, <1>3, <2>1, <2>2, <2>3, <2>4, <2>5, Numbers DEF Counted
<1>7. Aware(t, Taken(steps', t.thread), Room(Lost', beat', t.thread))
  <2>1. Taken(steps', t.thread) = Taken(steps, t.thread) /\ Room(Lost, beat, t.thread) <= Room(Lost', beat', t.thread) /\ Room(Lost', beat', t.thread) \in Int
    BY <1>3, <1>4
  <2>2. t.pc \in {"append", "progress"} => t.row.count \in Nat
    OBVIOUS
  <2>3. Taken(steps, t.thread) \in Nat /\ Room(Lost, beat, t.thread) \in Int /\ MaxSteps \in Nat
    BY Numbers
  <2>4. Room(Lost, beat, t.thread) - Taken(steps, t.thread) <= Room(Lost', beat', t.thread) - Taken(steps, t.thread)
    BY <2>1, <2>3
  <2>5. Aware(t, Taken(steps, t.thread), Room(Lost', beat', t.thread))
    BY <2>1, <2>2, <2>3, <2>4, StillAware
  <2> QED
    BY <2>1, <2>5
<1>8. \A i \in DOMAIN threads : /\ Taken(steps', i) \in Nat /\ Taken(steps, i) <= Taken(steps', i)
                                /\ Going(beat) = {} \/ Room(Lost, beat, i) - Taken(steps, i) <= Room(Lost', beat', i) - Taken(steps', i)
  <2> SUFFICES ASSUME NEW i \in DOMAIN threads
               PROVE  /\ Taken(steps', i) \in Nat /\ Taken(steps, i) <= Taken(steps', i)
                      /\ Room(Lost, beat, i) - Taken(steps, i) <= Room(Lost', beat', i) - Taken(steps', i)
    OBVIOUS
  <2>1. Room(Lost, beat, i) <= Room(Lost', beat', i) /\ Room(Lost', beat', i) \in Int
    BY <1>4
  <2>2. Taken(steps, i) \in Nat /\ Taken(steps', i) = Taken(steps, i) /\ Room(Lost, beat, i) \in Int
    BY <1>3, Numbers
  <2> QED
    BY <2>1, <2>2
<1>9. IsFiniteSet(steps') /\ \A x \in steps' : x.thread \in DOMAIN threads'
  BY DEF LagInv
<1> QED
  BY <1>5, <1>6, <1>7, <1>8, <1>9, LagStep

\* The same of a step to t, with or without a failed call.
LEMMA QuietMove ==
    ASSUME TypeInv, LagInv, NEW b \in Beats, NEW t \in BeatState, GoTo(b, t) \/ FailTo(b, t),
           disk' \in {disk, Image}, UNCHANGED <<steps, overlaps, crashes>>,
           DOMAIN threads' = DOMAIN threads,
           \A i \in DOMAIN threads : threads'[i].count = threads[i].count,
           t.pc \in GoingPCs \ {"progress"} => beat[b].pc \in GoingPCs,
           t.pc # "progress",
           beat[b].pc = "progress" => t.pc \notin GoingPCs /\ FailTo(b, t),
           Holding(t, threads),
           Aware(t, Taken(steps, t.thread), Room(Lost, beat, t.thread))
    PROVE  LagInv'
<1>1. PICK u : /\ beat' = [beat EXCEPT ![b] = u]
               /\ u.pc = t.pc /\ u.thread = t.thread /\ u.row = t.row
  <2>1. CASE GoTo(b, t)
    BY <2>1 DEF GoTo
  <2>2. CASE FailTo(b, t)
    <3> DEFINE u == [t EXCEPT !.failed = TRUE]
    <3>1. u.pc = t.pc /\ u.thread = t.thread /\ u.row = t.row
      BY DEF BeatState
    <3> HIDE DEF u
    <3> QED
      BY <2>2, <3>1 DEF FailTo, u
  <2> QED
    BY <2>1, <2>2
<1>2. Lost' \in Nat /\ Lost <= Lost' /\ (FailTo(b, t) => Lost + 1 <= Lost')
  BY DEF Lost, GoTo, FailTo, TypeInv
<1>3. Aware(u, Taken(steps, u.thread), Room(Lost, beat, u.thread))
  BY <1>1 DEF Aware
<1>4. u.pc = "append" => u.row.count \in Nat
  BY <1>1 DEF Holding, ThreadRow
<1> QED
  BY <1>1, <1>2, <1>3, <1>4, QuietLag DEF Holding

\* A beat that is not on its way knows nothing of a thread.
LEMMA AwayAware ==
    ASSUME NEW t, t.pc \notin {"touch", "reread", "append", "progress"}, NEW n, NEW r
    PROVE  Aware(t, n, r)
  BY DEF Aware

LEMMA AttendLag == ASSUME TypeInv, LagInv, NEW b \in Beats, AssembleAndAttend(b) PROVE LagInv'
<1>1. /\ UNCHANGED <<threads, steps, disk, overlaps, crashes>> /\ beat[b].pc = "context"
  BY DEF AssembleAndAttend, tables
<1>2. beat[b] \in BeatState
  BY Typed
<1>3. ASSUME NEW t \in BeatState, GoTo(b, t) \/ FailTo(b, t), Holding(t, threads),
             t.pc \in {"lookup", "intent", "create", "stop", "idle"}
      PROVE  LagInv'
  <2>1. t.pc # "progress" /\ Aware(t, Taken(steps, t.thread), Room(Lost, beat, t.thread))
    BY <1>3, AwayAware
  <2>2. beat[b].pc \in GoingPCs /\ beat[b].pc # "progress"
    BY <1>1 DEF GoingPCs, Advancing
  <2> QED
    BY <1>1, <1>3, <2>1, <2>2, QuietMove
<1>4. ASSUME NEW t \in BeatState, GoTo(b, t) \/ FailTo(b, t), Holding(t, threads), t.pc = "touch",
             threads[t.thread].count < MaxSteps
      PROVE  LagInv'
  <2>1. PICK i : i = t.thread
    OBVIOUS
  <2>2. i \in DOMAIN threads
    BY <1>4, <2>1 DEF Holding
  <2>3. Taken(steps, i) <= MaxSteps + Room(Lost, beat, i)
    <3>1. b \in Going(beat)
      BY <1>1 DEF Going, GoingPCs, Advancing
    <3>2. Cardinality(Going(beat)) > 0
      BY <3>1, Numbers, FS_EmptySet DEF LagInv
    <3>3. Counted(threads[i].count, Taken(steps, i), Lost, Cardinality(Writing(beat, i)), Cardinality(Going(beat)))
      BY <2>2 DEF LagInv
    <3>4. threads[i].count + 1 <= MaxSteps /\ threads[i].count \in Nat
      BY <1>4, <2>1, <2>2, Numbers
    <3>5. /\ Taken(steps, i) \in Nat /\ Cardinality(Writing(beat, i)) \in Nat /\ Cardinality(Going(beat)) \in Nat
          /\ Lost \in Nat /\ MaxSteps \in Nat
      BY Numbers
    <3> QED
      BY <3>2, <3>3, <3>4, <3>5 DEF Counted, Room
  <2>4. Aware(t, Taken(steps, t.thread), Room(Lost, beat, t.thread))
    BY <1>4, <2>1, <2>3 DEF Aware
  <2>5. beat[b].pc \in GoingPCs /\ beat[b].pc # "progress"
    BY <1>1 DEF GoingPCs, Advancing
  <2> QED
    BY <1>1, <1>4, <2>4, <2>5, QuietMove
<1>5. ASSUME NEW ts, ts = threads \/ ts = <<>>, NEW t \in Attended(beat[b], ts), GoTo(b, t) \/ FailTo(b, t)
      PROVE  LagInv'
  <2>1. t \in BeatState /\ Holding(t, threads)
    BY <1>1, <1>5, AttendedTyped
  <2>2. \/ t.pc \in {"lookup", "intent", "create", "stop"}
        \/ t.pc = "touch" /\ threads[t.thread].count < MaxSteps
    <3>1. CASE t = Closing(beat[b], "no_action", TRUE)
      BY <1>2, <3>1 DEF Closing, BeatState
    <3>2. CASE t = [beat[b] EXCEPT !.pc = "intent"]
      BY <1>2, <3>2 DEF BeatState
    <3>3. ASSUME NEW kind, NEW topic, NEW i \in DOMAIN ts \cup {0}, t = Chosen(beat[b], ts, kind, topic, i)
          PROVE  \/ t.pc \in {"lookup", "intent", "create", "stop"}
                 \/ t.pc = "touch" /\ threads[t.thread].count < MaxSteps
      <4>1. CASE i = 0
        BY <1>2, <3>3, <4>1 DEF Chosen, BeatState
      <4>2. CASE i # 0
        <5>1. i \in DOMAIN threads /\ ts = threads
          BY <1>5, <4>2
        <5>2. PICK p : /\ p = IF ShouldStop(threads[i], beat[b].id.seq) THEN "stop" ELSE "touch"
                       /\ t = [beat[b] EXCEPT !.kind = kind, !.thread = i, !.row = threads[i], !.pc = p]
          BY <3>3, <4>2, <5>1 DEF Chosen
        <5>3. t.pc = p /\ t.thread = i
          BY <1>2, <5>2 DEF BeatState
        <5>4. threads[i].count \in Nat /\ MaxSteps \in Nat
          BY <5>1, Numbers
        <5> QED
          BY <5>2, <5>3, <5>4 DEF ShouldStop
      <4> QED
        BY <4>1, <4>2
    <3> QED
      BY <3>1, <3>2, <3>3 DEF Attended
  <2> QED
    BY <1>3, <1>4, <1>5, <2>1, <2>2
<1>6. Closing(beat[b], "no_action", TRUE) \in BeatState /\ Closing(beat[b], "no_action", TRUE).pc = "lookup"
      /\ Closing(beat[b], "no_action", TRUE).outcome # "none"
  BY <1>2, StateUpdates DEF Outcomes
<1>7. LET t == Closing(beat[b], "no_action", TRUE)
      IN  GoTo(b, t) \/ FailTo(b, t) => LagInv'
  BY <1>3, <1>6 DEF Holding
<1>8. FailTo(b, Idle) => LagInv'
  BY <1>3, IdleTyped DEF Holding
<1> QED
  BY <1>5, <1>7, <1>8 DEF AssembleAndAttend

\* The steps that close a cycle, trace one or end the call are not about threads.
LEMMA CloseLag ==
    ASSUME TypeInv, LagInv, NEW b \in Beats,
           \/ StartCycleTrace(b) \/ ResolveIntent(b) \/ LookupClosure(b) \/ InsertClosure(b)
           \/ RecordClosing(b) \/ Flush(b)
    PROVE  LagInv'
<1> DEFINE s == beat[b]
<1>1. /\ UNCHANGED <<threads, steps, overlaps, crashes>> /\ disk' \in {disk, Image} /\ s \in BeatState
      /\ s.pc # "progress"
  BY Typed DEF StartCycleTrace, ResolveIntent, LookupClosure, InsertClosure, RecordClosing, Flush, tables
<1>2. s.pc \in {"lookup", "insert", "event"} => s.outcome # "none"
  BY DEF TypeInv, Holding
<1>3. PICK t \in BeatState :
         /\ GoTo(b, t) \/ FailTo(b, t)
         /\ t.pc \notin {"stop", "touch", "reread", "append", "progress", "create"}
         /\ t.pc \in {"lookup", "insert", "event"} => t.outcome # "none"
         /\ t.pc \in GoingPCs => s.pc \in GoingPCs
  <2>0. ASSUME NEW t, t.pc \in {"lookup", "insert", "event", "flush", "idle"} PROVE t.pc \notin GoingPCs
    BY <2>0 DEF GoingPCs, Advancing
  <2>1. CASE ResolveIntent(b)
    <3>1. \/ \E o \in Outcomes, q \in BOOLEAN : GoTo(b, Closing(s, o, q))
          \/ FailTo(b, Idle)
      BY <2>1 DEF ResolveIntent, Outcomes
    <3>2. \A o \in Outcomes, q \in BOOLEAN :
             Closing(s, o, q) \in BeatState /\ Closing(s, o, q).pc = "lookup" /\ Closing(s, o, q).outcome # "none"
      <4>1. s \in BeatState
        BY <1>1
      <4> QED
        BY <4>1, StateUpdates DEF Outcomes
    <3> QED
      BY <2>0, <3>1, <3>2, IdleTyped
  <2>2. CASE LookupClosure(b) \/ InsertClosure(b)
    <3>1. \/ \E q \in BOOLEAN : GoTo(b, Recorded(s, q)) \/ FailTo(b, Recorded(s, q))
          \/ GoTo(b, [s EXCEPT !.pc = "insert"])
      BY <2>2 DEF LookupClosure, InsertClosure
    <3>2. s.outcome # "none"
      BY <1>2, <2>2 DEF LookupClosure, InsertClosure
    <3>3. \A q \in BOOLEAN : /\ Recorded(s, q) \in BeatState /\ Recorded(s, q).pc \in {"flush", "event"}
                             /\ Recorded(s, q).outcome = s.outcome
      BY <1>1, StateUpdates
    <3> DEFINE t == [s EXCEPT !.pc = "insert"]
    <3>4. t \in BeatState /\ t.pc = "insert" /\ t.outcome = s.outcome
      BY <1>1 DEF BeatState, PCs
    <3> HIDE DEF t
    <3>5. CASE GoTo(b, t)
      BY <2>0, <3>2, <3>4, <3>5
    <3>6. CASE \E q \in BOOLEAN : GoTo(b, Recorded(s, q)) \/ FailTo(b, Recorded(s, q))
      BY <2>0, <3>2, <3>3, <3>6
    <3> QED
      BY <3>1, <3>5, <3>6 DEF t
  <2>3. CASE RecordClosing(b)
    <3>1. GoTo(b, AfterClosing(s)) \/ FailTo(b, AfterClosing(s))
      BY <2>3 DEF RecordClosing
    <3>2. /\ AfterClosing(s) \in BeatState
          /\ AfterClosing(s).pc = "flush" \/ (AfterClosing(s).pc = "lookup" /\ AfterClosing(s).outcome # "none")
      BY <1>1, StateUpdates
    <3> QED
      BY <2>0, <3>1, <3>2
  <2>4. CASE Flush(b)
    BY <2>0, <2>4, IdleTyped DEF Flush
  <2>5. CASE StartCycleTrace(b)
    <3> DEFINE t == [s EXCEPT !.pc = "context"]
               lost == [s EXCEPT !.pc = "flush"]
    <3>1. t \in BeatState /\ t.pc = "context" /\ lost \in BeatState /\ lost.pc = "flush"
      BY <1>1 DEF BeatState, PCs
    <3>2. GoTo(b, t) \/ GoTo(b, lost) \/ FailTo(b, lost)
      BY <2>5 DEF StartCycleTrace
    <3>3. s.pc \in GoingPCs
      BY <2>5 DEF StartCycleTrace, GoingPCs
    <3> HIDE DEF t, lost
    <3> QED
      BY <2>0, <3>1, <3>2, <3>3
  <2> QED
    BY <2>1, <2>2, <2>3, <2>4, <2>5
<1>4. Holding(t, threads) /\ Aware(t, Taken(steps, t.thread), Room(Lost, beat, t.thread))
  BY <1>3, AwayAware DEF Holding
<1> QED
  BY <1>1, <1>3, <1>4, QuietMove

\* Stopping, touching and reading a thread again leave its count alone, and so
\* does whatever fails.
LEMMA TouchLag ==
    ASSUME TypeInv, LagInv, NEW b \in Beats,
           \/ StopThread(b) \/ TouchThread(b) \/ RereadThread(b)
           \/ (CreateThread(b) \/ AppendStep(b) \/ ProgressThread(b)) /\ UNCHANGED <<threads, steps>>
              /\ FailTo(b, Unadvanced(beat[b]))
    PROVE  LagInv'
<1> DEFINE s == beat[b]
           i == s.thread
           un == Unadvanced(s)
<1>1. /\ UNCHANGED <<steps, overlaps, crashes, disk>> /\ s \in BeatState /\ Holding(s, threads)
      /\ Aware(s, Taken(steps, i), Room(Lost, beat, i))
      /\ s.pc \in {"stop", "touch", "reread", "create", "append", "progress"} /\ s.pc \in GoingPCs
  BY Typed DEF TypeInv, LagInv, StopThread, TouchThread, RereadThread, CreateThread, AppendStep, ProgressThread, tables,
               GoingPCs, Advancing
<1>2. un \in BeatState /\ un.pc = "intent" /\ un.pc \notin GoingPCs
  <2>1. 0 \in Nat /\ "intent" \notin GoingPCs
    BY DEF GoingPCs, Advancing
  <2> QED
    BY <1>1, <2>1, StateUpdates DEF Unadvanced
<1>3. Holding(un, threads) /\ Aware(un, Taken(steps, un.thread), Room(Lost, beat, un.thread))
  BY <1>2, AwayAware DEF Holding
<1>4. DOMAIN threads' = DOMAIN threads /\ \A j \in DOMAIN threads : threads'[j].count = threads[j].count
  <2>1. CASE UNCHANGED threads
    BY <2>1
  <2>2. CASE StopThread(b)
    <3>1. \A j \in DOMAIN threads : threads[j] \in ThreadRow
      BY Typed
    <3> DEFINE stopped == [threads EXCEPT ![i].status = IF s.row.count >= MaxSteps THEN "blocked" ELSE "paused",
                                          ![i].last = s.id.seq]
    <3>2. threads' = threads \/ threads' = stopped
      BY <2>2 DEF StopThread
    <3>3. DOMAIN stopped = DOMAIN threads /\ \A j \in DOMAIN threads : stopped[j].count = threads[j].count
      BY <3>1 DEF ThreadRow
    <3> HIDE DEF stopped
    <3> QED
      BY <3>2, <3>3
  <2>3. CASE TouchThread(b)
    <3>1. \A j \in DOMAIN threads : threads[j] \in ThreadRow
      BY Typed
    <3> DEFINE touched == [threads EXCEPT ![i].last = s.id.seq]
    <3>2. threads' = threads \/ threads' = touched
      BY <2>3 DEF TouchThread
    <3>3. DOMAIN touched = DOMAIN threads /\ \A j \in DOMAIN threads : touched[j].count = threads[j].count
      BY <3>1 DEF ThreadRow
    <3> HIDE DEF touched
    <3> QED
      BY <3>2, <3>3
  <2>4. RereadThread(b) => UNCHANGED threads
    BY DEF RereadThread, tables
  <2> QED
    BY <2>1, <2>2, <2>3, <2>4
<1> HIDE DEF un
<1>5. CASE FailTo(b, un)
  BY <1>1, <1>2, <1>3, <1>4, <1>5, QuietMove
<1>6. CASE StopThread(b) /\ GoTo(b, un)
  <2>1. s.pc = "stop"
    BY <1>6 DEF StopThread
  <2> QED
    BY <1>1, <1>2, <1>3, <1>4, <1>6, <2>1, QuietMove
<1>7. ASSUME NEW t \in BeatState, GoTo(b, t), t.thread = i, i \in DOMAIN threads, s.pc \in {"touch", "reread"},
             \/ t.pc = "reread"
             \/ t.pc = "append" /\ t.row \in ThreadRow /\ t.row.count = threads[i].count
      PROVE  LagInv'
  <2>1. Taken(steps, i) <= MaxSteps + Room(Lost, beat, i)
    BY <1>1, <1>7 DEF Aware
  <2>2. t.pc = "append" => t.row.count <= Taken(steps, i) /\ Taken(steps, i) <= t.row.count + Room(Lost, beat, i) + 1
    <3>1. b \in Going(beat)
      BY <1>1 DEF Going
    <3>2. Cardinality(Going(beat)) > 0
      BY <3>1, Numbers, FS_EmptySet DEF LagInv
    <3>3. Counted(threads[i].count, Taken(steps, i), Lost, Cardinality(Writing(beat, i)), Cardinality(Going(beat)))
      BY <1>7 DEF LagInv
    <3>4. threads[i].count \in Nat
      BY <1>7, Numbers
    <3>5. /\ Taken(steps, i) \in Nat /\ Cardinality(Writing(beat, i)) \in Nat /\ Cardinality(Going(beat)) \in Nat
          /\ Lost \in Nat
      BY Numbers
    <3> HIDE DEF i
    <3>6. /\ threads[i].count <= Taken(steps, i)
          /\ Taken(steps, i) <= threads[i].count + Room(Lost, beat, i) + 1
      BY <3>2, <3>3, <3>4, <3>5 DEF Counted, Room
    <3> QED
      BY <1>7, <3>6
  <2>3. Aware(t, Taken(steps, t.thread), Room(Lost, beat, t.thread))
    <3> HIDE DEF i
    <3> QED
      BY <1>7, <2>1, <2>2 DEF Aware
  <2>4. Holding(t, threads) /\ t.pc # "progress" /\ s.pc # "progress"
    BY <1>7 DEF Holding
  <2> QED
    BY <1>1, <1>4, <1>7, <2>3, <2>4, QuietMove
<1>8. CASE TouchThread(b) /\ ~FailTo(b, un)
  <2> DEFINE t == [s EXCEPT !.pc = "reread"]
  <2>1. GoTo(b, t) /\ s.pc = "touch" /\ i \in DOMAIN threads
    BY <1>1, <1>8 DEF TouchThread, Holding, un
  <2>2. t \in BeatState /\ t.pc = "reread" /\ t.thread = i
    BY <1>1 DEF BeatState, PCs
  <2> HIDE DEF t
  <2> QED
    BY <1>7, <2>1, <2>2
<1>9. CASE RereadThread(b) /\ ~FailTo(b, un)
  <2> DEFINE t == [s EXCEPT !.pc = "append", !.row = threads[i]]
  <2>1. GoTo(b, t) /\ s.pc = "reread" /\ i \in DOMAIN threads
    BY <1>1, <1>9 DEF RereadThread, Holding, un
  <2>2. threads[i] \in ThreadRow
    BY <2>1, Typed
  <2>3. t \in BeatState /\ t.pc = "append" /\ t.thread = i /\ t.row = threads[i]
    BY <1>1, <2>2 DEF BeatState, PCs
  <2> HIDE DEF t
  <2> QED
    BY <1>7, <2>1, <2>2, <2>3
<1> QED
  BY <1>5, <1>6, <1>8, <1>9 DEF StopThread, un

\* A heartbeat that begins inside another one is a loss, the first one finds
\* nobody on the way.
LEMMA CountedLater ==
    ASSUME NEW c \in Nat, NEW n \in Nat, NEW e \in Nat, NEW d \in Nat, NEW w \in Nat, NEW g \in Nat, NEW h \in Nat,
           MaxSteps \in Nat, w <= g, h = g \/ h = g + 1, e <= d, g = 0 \/ e + 1 <= d,
           Counted(c, n, e, w, g)
    PROVE  Counted(c, n, d, w, h)
<1>1. CASE g = 0
  BY <1>1 DEF Counted
<1>2. CASE e + 1 <= d
  BY <1>2 DEF Counted
<1> QED
  BY <1>1, <1>2

LEMMA CountedNew ==
    ASSUME NEW e \in Nat, NEW w \in Nat, NEW g \in Nat, MaxSteps \in Nat, g <= e + 1
    PROVE  Counted(0, 0, e, w, g)
  BY DEF Counted

LEMMA BeginLag == ASSUME TypeInv, LagInv, NEW b \in Beats, Begin(b) PROVE LagInv'
<1>1. /\ UNCHANGED <<traces, threads, steps, disk, crashes>> /\ beat[b].pc = "idle"
      /\ overlaps' = IF \A c \in Beats : beat[c].pc = "idle" THEN overlaps ELSE overlaps + 1
  BY DEF Begin, tables
<1>2. PICK t : beat' = [beat EXCEPT ![b] = t] /\ t.pc \in {"trace", "flush"}
  <2> DEFINE numbered(n) == [Idle EXCEPT !.pc = "trace", !.id = [at |-> clock', seq |-> n]]
             carrier == [Idle EXCEPT !.pc = "flush"]
  <2>1. ASSUME NEW s, s = carrier \/ \E n : s = numbered(n)
        PROVE  s.pc \in {"trace", "flush"} /\ [s EXCEPT !.failed = TRUE].pc = s.pc
    BY <2>1 DEF Idle
  <2> HIDE DEF numbered, carrier
  <2>2. \E s : (s = carrier \/ \E n : s = numbered(n)) /\ (GoTo(b, s) \/ FailTo(b, s))
    BY DEF Begin, numbered, carrier
  <2> QED
    BY <2>1, <2>2 DEF GoTo, FailTo
<1>3. failures' \in Nat /\ failures <= failures'
  BY DEF Begin, GoTo, FailTo, TypeInv
<1>4. Lost' \in Nat /\ Lost <= Lost' /\ (Going(beat) # {} => Lost + 1 <= Lost')
  <2>1. Going(beat) # {} => overlaps' = overlaps + 1
    BY <1>1 DEF Going, GoingPCs, Advancing
  <2> QED
    BY <1>1, <1>3, <2>1 DEF Lost, TypeInv
<1>5. /\ beat[b].pc \notin GoingPCs /\ t.pc # "progress" /\ beat[b].pc # "progress"
  BY <1>1, <1>2 DEF GoingPCs, Advancing
<1>6. /\ Cardinality(Going(beat')) \in Nat /\ Cardinality(Going(beat)) \in Nat /\ Lost \in Nat
      /\ \/ Cardinality(Going(beat')) = Cardinality(Going(beat))
         \/ Cardinality(Going(beat')) = Cardinality(Going(beat)) + 1
      /\ Going(beat) = {} => Cardinality(Going(beat)) = 0
      /\ Cardinality(Going(beat)) <= Lost + 1
  <2>1. /\ Cardinality(Going(beat')) \in Nat
        /\ \/ Cardinality(Going(beat')) = Cardinality(Going(beat))
           \/ Cardinality(Going(beat')) = Cardinality(Going(beat)) + 1
    BY <1>2, <1>5, BeatMoved
  <2> QED
    BY <2>1, Numbers, FS_EmptySet DEF LagInv
<1>7. ASSUME NEW i
      PROVE  /\ Cardinality(Writing(beat', i)) = Cardinality(Writing(beat, i))
             /\ Cardinality(Writing(beat, i)) \in Nat /\ Cardinality(Writing(beat, i)) <= Cardinality(Going(beat))
             /\ Taken(steps, i) \in Nat
  <2>1. ~Writes(beat[b], i) /\ ~Writes(t, i)
    BY <1>5 DEF Writes
  <2> QED
    BY <1>2, <2>1, WriterMoved, Numbers
<1>8. Cardinality(Going(beat')) <= Lost' + 1
  BY <1>4, <1>6
<1>9. ASSUME NEW i \in DOMAIN threads
      PROVE  Counted(threads'[i].count, Taken(steps', i), Lost', Cardinality(Writing(beat', i)), Cardinality(Going(beat')))
  <2>1. Counted(threads[i].count, Taken(steps, i), Lost, Cardinality(Writing(beat, i)), Cardinality(Going(beat)))
    BY DEF LagInv
  <2>2. threads[i].count \in Nat /\ MaxSteps \in Nat
    BY Numbers
  <2>3. threads' = threads /\ steps' = steps
    BY <1>1
  <2> DEFINE w == Cardinality(Writing(beat, i))
             g == Cardinality(Going(beat))
             h == Cardinality(Going(beat'))
             n == Taken(steps, i)
             c == threads[i].count
  <2>4. /\ w \in Nat /\ w <= g /\ n \in Nat /\ Cardinality(Writing(beat', i)) = w /\ c \in Nat
        /\ h \in Nat /\ (h = g \/ h = g + 1)
        /\ g \in Nat /\ (g = 0 \/ Lost + 1 <= Lost')
        /\ Lost \in Nat /\ Lost' \in Nat /\ Lost <= Lost'
    <3>1. Going(beat) = {} => g = 0
      BY <1>6
    <3> QED
      BY <1>4, <1>6, <1>7, <2>2, <3>1
  <2> HIDE DEF w, g, h, n, c
  <2>5. Counted(c, n, Lost, w, g) => Counted(c, n, Lost', w, h)
    BY <2>2, <2>4, CountedLater
  <2> QED
    BY <2>1, <2>3, <2>4, <2>5 DEF w, g, h, n, c
<1>10. \A i \in DOMAIN threads :
           /\ Taken(steps', i) \in Nat /\ Taken(steps, i) <= Taken(steps', i)
           /\ Going(beat) = {} \/ Room(Lost, beat, i) - Taken(steps, i) <= Room(Lost', beat', i) - Taken(steps', i)
  <2> SUFFICES ASSUME NEW i \in DOMAIN threads
               PROVE  /\ Taken(steps', i) \in Nat /\ Taken(steps, i) <= Taken(steps', i)
                      /\ \/ Going(beat) = {}
                         \/ Room(Lost, beat, i) - Taken(steps, i) <= Room(Lost', beat', i) - Taken(steps', i)
    OBVIOUS
  <2>1. steps' = steps
    BY <1>1
  <2> QED
    BY <1>4, <1>6, <1>7, <2>1 DEF Room
<1>11. Aware(t, Taken(steps', t.thread), Room(Lost', beat', t.thread))
  BY <1>2, AwayAware
<1>12. IsFiniteSet(steps') /\ \A x \in steps' : x.thread \in DOMAIN threads'
  BY <1>1 DEF LagInv
<1> QED
  BY <1>1, <1>2, <1>4, <1>8, <1>9, <1>10, <1>11, <1>12, LagStep

\* A beat on its way that goes on to append a step, to a new thread or to one
\* it has appended to: neither the losses nor the beats on their way change.
LEMMA SameGoing ==
    ASSUME TypeInv, LagInv, NEW b \in Beats, NEW t, GoTo(b, t),
           beat[b].pc \in GoingPCs, t.pc \in GoingPCs, UNCHANGED <<overlaps, crashes>>
    PROVE  /\ beat' = [beat EXCEPT ![b] = t]
           /\ Lost' = Lost /\ Lost \in Nat
           /\ Cardinality(Going(beat')) = Cardinality(Going(beat)) /\ Cardinality(Going(beat)) \in Nat
           /\ Cardinality(Going(beat)) > 0 /\ Cardinality(Going(beat)) <= Lost + 1
<1>1. beat' = [beat EXCEPT ![b] = t] /\ Lost' = Lost
  BY DEF GoTo, Lost
<1>2. Cardinality(Going(beat')) = Cardinality(Going(beat))
  BY <1>1, BeatMoved
<1>3. b \in Going(beat)
  BY DEF Going
<1>4. Cardinality(Going(beat)) # 0
  BY <1>3, FS_EmptySet DEF LagInv
<1> QED
  BY <1>1, <1>2, <1>4, Numbers DEF LagInv

LEMMA CreateLag == ASSUME TypeInv, LagInv, NEW b \in Beats, CreateThread(b) PROVE LagInv'
<1> DEFINE s == beat[b]
           row == [topic |-> s.topic, status |-> "active", count |-> 0, last |-> s.id.seq]
           new == Len(threads) + 1
           t == [s EXCEPT !.pc = "append", !.thread = new, !.row = row]
<1>1. CASE UNCHANGED threads /\ FailTo(b, Unadvanced(s))
  BY <1>1, TouchLag DEF CreateThread
<1>2. CASE threads' = Append(threads, row) /\ GoTo(b, t)
  <2>1. s \in BeatState /\ s.pc = "create" /\ UNCHANGED <<steps, disk, overlaps, crashes>>
    BY Typed DEF CreateThread
  <2>2. t.pc = "append" /\ t.thread = new /\ t.row = row /\ row.count = 0
    BY <2>1 DEF BeatState
  <2>3. s.pc \in GoingPCs /\ t.pc \in GoingPCs
    BY <2>1, <2>2 DEF GoingPCs, Advancing
  <2>4. /\ DOMAIN threads = 1..Len(threads) /\ Len(threads) \in Nat /\ DOMAIN threads' = DOMAIN threads \cup {new}
        /\ \A i \in DOMAIN threads : threads'[i] = threads[i]
        /\ threads'[new] = row /\ new \notin DOMAIN threads
    <3>1. threads \in Seq(ThreadRow) /\ Len(threads) \in Nat /\ DOMAIN threads = 1..Len(threads)
      BY Typed
    <3> HIDE DEF row, t
    <3> QED
      BY <1>2, <3>1
  <2> HIDE DEF t, new, row
  <2>5. /\ beat' = [beat EXCEPT ![b] = t]
        /\ Lost' = Lost /\ Lost \in Nat
        /\ Cardinality(Going(beat')) = Cardinality(Going(beat)) /\ Cardinality(Going(beat)) \in Nat
        /\ Cardinality(Going(beat)) > 0 /\ Cardinality(Going(beat)) <= Lost + 1
    BY <1>2, <2>1, <2>3, SameGoing
  <2>6. ASSUME NEW i
        PROVE  Cardinality(Writing(beat', i)) = Cardinality(Writing(beat, i)) /\ Cardinality(Writing(beat, i)) \in Nat
    <3>1. ~Writes(s, i) /\ ~Writes(t, i)
      BY <2>1, <2>2 DEF Writes
    <3> QED
      BY <2>5, <3>1, WriterMoved, Numbers
  <2>7. ASSUME NEW i PROVE Room(Lost', beat', i) = Room(Lost, beat, i)
    BY <2>5, <2>6 DEF Room
  <2>8. Taken(steps', new) = 0
    <3>1. {x \in steps' : x.thread = new} = {}
      BY <2>1, <2>4 DEF LagInv
    <3> QED
      BY <3>1, FS_EmptySet DEF Taken
  <2>9. MaxSteps \in Nat \ {0} /\ \A i : Taken(steps, i) \in Nat /\ Room(Lost, beat, i) \in Int
    BY Numbers
  <2>10. ASSUME NEW i \in DOMAIN threads'
         PROVE  Counted(threads'[i].count, Taken(steps', i), Lost', Cardinality(Writing(beat', i)), Cardinality(Going(beat')))
    <3>1. CASE i \in DOMAIN threads
      BY <2>1, <2>4, <2>5, <2>6, <3>1 DEF LagInv
    <3>2. CASE i = new
      <4>1. threads'[new].count = 0 /\ Taken(steps', new) = 0
        BY <2>2, <2>4, <2>8
      <4>2. /\ Lost' \in Nat /\ Cardinality(Writing(beat', new)) \in Nat /\ Cardinality(Going(beat')) \in Nat
            /\ Cardinality(Going(beat')) <= Lost' + 1 /\ MaxSteps \in Nat
        BY <2>5, <2>6, <2>9
      <4> QED
        BY <3>2, <4>1, <4>2, CountedNew
    <3> QED
      BY <2>4, <3>1, <3>2
  <2>11. Aware(t, Taken(steps', t.thread), Room(Lost', beat', t.thread))
    <3>1. Lost + 1 >= Cardinality(Going(beat)) /\ Cardinality(Writing(beat', new)) \in Nat
      BY <2>5, <2>6
    <3>2. Room(Lost', beat', new) >= 0 - 1 /\ Room(Lost', beat', new) \in Int
      BY <2>5, <3>1 DEF Room
    <3> QED
      BY <2>2, <2>8, <2>9, <3>2 DEF Aware
  <2>12. \A i \in DOMAIN threads :
             /\ Taken(steps', i) \in Nat /\ Taken(steps, i) <= Taken(steps', i)
             /\ Going(beat) = {} \/ Room(Lost, beat, i) - Taken(steps, i) <= Room(Lost', beat', i) - Taken(steps', i)
    BY <2>1, <2>7, <2>9
  <2>13. IsFiniteSet(steps') /\ \A x \in steps' : x.thread \in DOMAIN threads'
    BY <2>1, <2>4 DEF LagInv
  <2>14. Cardinality(Going(beat')) <= Lost' + 1 /\ Lost' \in Nat /\ Lost <= Lost'
    BY <2>5
  <2> QED
    BY <2>1, <2>5, <2>10, <2>11, <2>12, <2>13, <2>14, LagStep
<1> QED
  BY <1>1, <1>2 DEF CreateThread

LEMMA AppendLag == ASSUME RecordsInv, TypeInv, LagInv, NEW b \in Beats, AppendStep(b) PROVE LagInv'
<1> DEFINE s == beat[b]
           i == s.thread
           u == [thread |-> i, cycle |-> s.id]
           t == [s EXCEPT !.pc = "progress"]
<1>1. CASE UNCHANGED steps /\ FailTo(b, Unadvanced(s))
  BY <1>1, TouchLag DEF AppendStep
<1>2. CASE steps' = steps \cup {u} /\ GoTo(b, t)
  <2>1. s \in BeatState /\ s.pc = "append" /\ UNCHANGED <<threads, disk, overlaps, crashes>>
    BY <1>2, Typed DEF AppendStep
  <2>2. t.pc = "progress" /\ t.thread = i /\ t.row = s.row
    BY <2>1 DEF BeatState
  <2>3. s.pc \in GoingPCs /\ t.pc \in GoingPCs
    BY <2>1, <2>2 DEF GoingPCs, Advancing
  <2>4. i \in DOMAIN threads /\ s.row.count \in Nat /\ Aware(s, Taken(steps, i), Room(Lost, beat, i))
    BY <2>1 DEF TypeInv, Holding, ThreadRow, LagInv
  <2>5. u \notin steps
    <3>1. \A x \in steps : x.cycle # s.id
      BY <2>1, Known DEF Sound, Advancing
    <3> QED
      BY <3>1
  <2>6. u.thread = i
    OBVIOUS
  <2> HIDE DEF t, u
  <2>7. /\ beat' = [beat EXCEPT ![b] = t]
        /\ Lost' = Lost /\ Lost \in Nat
        /\ Cardinality(Going(beat')) = Cardinality(Going(beat)) /\ Cardinality(Going(beat)) \in Nat
        /\ Cardinality(Going(beat)) > 0 /\ Cardinality(Going(beat)) <= Lost + 1
    BY <1>2, <2>1, <2>3, SameGoing
  <2>8. MaxSteps \in Nat \ {0} /\ \A j : /\ Taken(steps, j) \in Nat /\ Room(Lost, beat, j) \in Int
                                         /\ Cardinality(Writing(beat, j)) \in Nat
    BY Numbers
  <2>9. ASSUME NEW j
        PROVE  /\ j # i => /\ Cardinality(Writing(beat', j)) = Cardinality(Writing(beat, j))
                           /\ Taken(steps', j) = Taken(steps, j)
               /\ j = i => /\ Cardinality(Writing(beat', j)) = Cardinality(Writing(beat, j)) + 1
                           /\ Taken(steps', j) = Taken(steps, j) + 1
    <3>1. ~Writes(s, j) /\ (Writes(t, j) <=> j = i)
      BY <2>1, <2>2 DEF Writes
    <3>2. /\ j # i => Cardinality(Writing(beat', j)) = Cardinality(Writing(beat, j))
          /\ j = i => Cardinality(Writing(beat', j)) = Cardinality(Writing(beat, j)) + 1
      BY <2>7, <3>1, WriterMoved
    <3>3. ASSUME j # i PROVE Taken(steps', j) = Taken(steps, j)
      <4>1. {x \in steps' : x.thread = j} = {x \in steps : x.thread = j}
        BY <1>2, <2>6, <3>3
      <4> QED
        BY <4>1 DEF Taken
    <3>4. ASSUME j = i PROVE Taken(steps', j) = Taken(steps, j) + 1
      <4> DEFINE mine == {x \in steps : x.thread = j}
      <4>1. {x \in steps' : x.thread = j} = mine \cup {u} /\ u \notin mine /\ mine \in SUBSET steps
        BY <1>2, <2>5, <2>6, <3>4
      <4>2. IsFiniteSet(mine)
        BY <4>1, FS_Subset DEF LagInv
      <4>3. Cardinality(mine \cup {u}) = Cardinality(mine) + 1
        <5> HIDE DEF mine
        <5> QED
          BY <4>1, <4>2, FS_AddElement
      <4> QED
        BY <4>1, <4>3 DEF Taken
    <3> QED
      BY <3>2, <3>3, <3>4
  <2>10. Cardinality(Writing(beat, i)) + 1 <= Cardinality(Going(beat))
    <3>1. Writing(beat, i) \in SUBSET (Going(beat) \ {b})
      BY <2>1 DEF Writing, Writes, Going, GoingPCs
    <3>2. b \in Going(beat) /\ IsFiniteSet(Going(beat))
      BY <2>3 DEF Going, LagInv
    <3>3. IsFiniteSet(Going(beat) \ {b}) /\ Cardinality(Going(beat) \ {b}) = Cardinality(Going(beat)) - 1
      BY <3>2, FS_RemoveElement
    <3>4. Cardinality(Writing(beat, i)) <= Cardinality(Going(beat) \ {b})
      BY <3>1, <3>3, FS_Subset
    <3> QED
      BY <2>7, <2>8, <3>3, <3>4
  <2> DEFINE n == Taken(steps, i)
             r == Room(Lost, beat, i)
             w == Cardinality(Writing(beat, i))
             g == Cardinality(Going(beat))
  <2>11. r = Lost + w - g /\ n \in Nat /\ w \in Nat /\ g \in Nat /\ g > 0 /\ w + 1 <= g /\ Lost \in Nat /\ MaxSteps \in Nat
    BY <2>7, <2>8, <2>10 DEF Room
  <2>12. /\ Taken(steps', i) = n + 1 /\ Cardinality(Writing(beat', i)) = w + 1 /\ Cardinality(Going(beat')) = g
         /\ Room(Lost', beat', i) = r + 1
    <3>1. Taken(steps', i) = n + 1 /\ Cardinality(Writing(beat', i)) = w + 1 /\ Cardinality(Going(beat')) = g /\ Lost' = Lost
      BY <2>7, <2>9
    <3>2. Room(Lost', beat', i) = Lost' + Cardinality(Writing(beat', i)) - Cardinality(Going(beat'))
      BY DEF Room
    <3> HIDE DEF n, r, w, g
    <3> QED
      BY <2>11, <3>1, <3>2
  <2>13. Aware(s, n, r) /\ \A j \in DOMAIN threads : threads[j].count \in Nat
    BY <2>4, Numbers
  <2>14. Counted(threads[i].count, n, Lost, w, g)
    BY <2>4 DEF LagInv
  <2>15. \A j \in DOMAIN threads :
             /\ Taken(steps', j) \in Nat /\ Taken(steps, j) <= Taken(steps', j)
             /\ Going(beat) = {} \/ Room(Lost, beat, j) - Taken(steps, j) <= Room(Lost', beat', j) - Taken(steps', j)
    <3> SUFFICES ASSUME NEW j \in DOMAIN threads
                 PROVE  /\ Taken(steps', j) \in Nat /\ Taken(steps, j) <= Taken(steps', j)
                        /\ Room(Lost, beat, j) - Taken(steps, j) <= Room(Lost', beat', j) - Taken(steps', j)
      OBVIOUS
    <3>1. CASE j = i
      <4> HIDE DEF i
      <4> QED
        BY <2>11, <2>12, <3>1
    <3>2. CASE j # i
      <4>1. Room(Lost', beat', j) = Room(Lost, beat, j) /\ Taken(steps', j) = Taken(steps, j)
        BY <2>7, <2>9, <3>2 DEF Room
      <4> QED
        BY <2>8, <4>1
    <3> QED
      BY <3>1, <3>2
  <2> HIDE DEF n, r, w, g
  <2>16. Counted(threads[i].count, n + 1, Lost, w + 1, g)
    <3>1. n + 1 <= MaxSteps + Lost
      BY <2>1, <2>11, <2>13 DEF Aware
    <3> QED
      BY <2>4, <2>11, <2>13, <2>14, <3>1 DEF Counted
  <2>17. Aware(t, n + 1, r + 1)
    BY <2>1, <2>2, <2>4, <2>11, <2>13 DEF Aware
  <2>18. ASSUME NEW j \in DOMAIN threads
         PROVE  Counted(threads'[j].count, Taken(steps', j), Lost', Cardinality(Writing(beat', j)), Cardinality(Going(beat')))
    <3>1. CASE j = i
      <4> HIDE DEF i
      <4> QED
        BY <2>1, <2>7, <2>12, <2>16, <3>1
    <3>2. CASE j # i
      <4>1. Counted(threads[j].count, Taken(steps, j), Lost, Cardinality(Writing(beat, j)), Cardinality(Going(beat)))
        BY DEF LagInv
      <4> QED
        BY <2>1, <2>7, <2>9, <3>2, <4>1
    <3> QED
      BY <3>1, <3>2
  <2>19. Aware(t, Taken(steps', t.thread), Room(Lost', beat', t.thread))
    BY <2>2, <2>12, <2>17
  <2>20. IsFiniteSet(steps') /\ \A x \in steps' : x.thread \in DOMAIN threads'
    BY <1>2, <2>1, <2>4, <2>6, FS_AddElement DEF LagInv
  <2>21. Cardinality(Going(beat')) <= Lost' + 1 /\ Lost' \in Nat /\ Lost <= Lost'
    BY <2>7
  <2>22. DOMAIN threads' = DOMAIN threads /\ disk' \in {disk, Image}
    BY <2>1
  <2> QED
    BY <2>7, <2>15, <2>18, <2>19, <2>20, <2>21, <2>22, LagStep
<1> QED
  BY <1>1, <1>2 DEF AppendStep

\* The count written back is one more than the count read: the steps that were
\* added since are within the room the beat knew of.
LEMMA CountedWritten ==
    ASSUME NEW s, s.pc = "progress", s.row.count \in Nat, NEW n \in Nat, NEW e \in Nat, NEW d \in Nat,
           NEW w \in Nat, NEW v \in Nat, NEW g \in Nat, NEW h \in Nat, MaxSteps \in Nat, e <= d,
           v = w - 1, h = g - 1, w <= g, n <= MaxSteps + e, Aware(s, n, e + w - g)
    PROVE  Counted(s.row.count + 1, n, d, v, h)
<1>1. s.row.count + 1 <= n /\ n <= s.row.count + (e + w - g) + 1
  BY DEF Aware
<1>2. n <= s.row.count + 1 + d + v /\ (h > 0 => n <= s.row.count + 1 + d + v - h + 1) /\ n <= MaxSteps + d
  BY <1>1
<1> QED
  BY <1>1, <1>2 DEF Counted

LEMMA CountedUnwritten ==
    ASSUME NEW c \in Nat, NEW n \in Nat, NEW e \in Nat, NEW d \in Nat, NEW w \in Nat, NEW g \in Nat, NEW h \in Nat,
           MaxSteps \in Nat, e <= d, h = g - 1, Counted(c, n, e, w, g)
    PROVE  Counted(c, n, d, w, h)
  BY DEF Counted

LEMMA ProgressLag == ASSUME TypeInv, LagInv, NEW b \in Beats, ProgressThread(b) PROVE LagInv'
<1> DEFINE s == beat[b]
           i == s.thread
<1>1. /\ UNCHANGED <<steps, disk, overlaps, crashes>> /\ s \in BeatState /\ s.pc = "progress"
      /\ i \in DOMAIN threads /\ s.row \in ThreadRow /\ i \in Nat
      /\ Aware(s, Taken(steps, i), Room(Lost, beat, i))
  <2>1. s \in BeatState /\ s.pc = "progress" /\ Holding(s, threads) /\ Aware(s, Taken(steps, i), Room(Lost, beat, i))
    BY Typed DEF ProgressThread, TypeInv, LagInv
  <2> QED
    BY <2>1 DEF ProgressThread, Holding, BeatState
<1>2. CASE UNCHANGED threads /\ FailTo(b, Unadvanced(s))
  BY <1>1, <1>2, TouchLag
<1>3. CASE threads' = Progressed(s) /\ (GoTo(b, Advanced(s, i)) \/ FailTo(b, Unadvanced(s)))
  <2>1. PICK t : beat' = [beat EXCEPT ![b] = t] /\ t.pc = "intent"
    <3>1. ASSUME NEW j \in Nat
          PROVE  Advanced(s, j).pc = "intent" /\ [Advanced(s, j) EXCEPT !.failed = TRUE].pc = "intent"
      <4>1. Advanced(s, j) \in BeatState /\ Advanced(s, j).pc = "intent"
        BY <1>1, StateUpdates
      <4> QED
        BY <4>1 DEF BeatState
    <3>2. 0 \in Nat
      OBVIOUS
    <3> QED
      BY <1>1, <1>3, <3>1, <3>2 DEF GoTo, FailTo, Unadvanced
  <2>2. /\ Lost \in Nat /\ Lost' \in Nat /\ Lost <= Lost' /\ MaxSteps \in Nat
    <3>1. failures' \in Nat /\ failures <= failures'
      BY <1>3 DEF GoTo, FailTo, TypeInv
    <3> QED
      BY <1>1, <3>1, Numbers DEF Lost, TypeInv
  <2>3. "progress" \in GoingPCs /\ "intent" \notin GoingPCs
    BY DEF GoingPCs, Advancing
  <2>4. /\ Cardinality(Going(beat')) = Cardinality(Going(beat)) - 1
        /\ Cardinality(Going(beat')) \in Nat /\ Cardinality(Going(beat)) \in Nat
    BY <1>1, <2>1, <2>3, BeatMoved, Numbers
  <2>5. ASSUME NEW j
        PROVE  /\ j # i => Cardinality(Writing(beat', j)) = Cardinality(Writing(beat, j))
               /\ j = i => Cardinality(Writing(beat', j)) = Cardinality(Writing(beat, j)) - 1
               /\ Cardinality(Writing(beat', j)) \in Nat /\ Cardinality(Writing(beat, j)) \in Nat
    <3>1. ~Writes(t, j) /\ (Writes(s, j) <=> j = i)
      BY <1>1, <2>1 DEF Writes
    <3> QED
      BY <2>1, <3>1, WriterMoved, Numbers
  <2>6. /\ DOMAIN threads' = DOMAIN threads /\ threads'[i].count = s.row.count + 1
        /\ \A j \in DOMAIN threads : j # i => threads'[j].count = threads[j].count
    <3>1. \A j \in DOMAIN threads : threads[j] \in ThreadRow
      BY Typed
    <3>2. threads' = [threads EXCEPT ![i].status = NextStatus(s), ![i].last = s.id.seq, ![i].count = s.row.count + 1]
      BY <1>3 DEF Progressed
    <3>3. DOMAIN threads' = DOMAIN threads /\ \A j \in DOMAIN threads : j # i => threads'[j] = threads[j]
      BY <3>2
    <3>4. threads'[i].count = s.row.count + 1
      <4>1. threads'[i] = [threads[i] EXCEPT !.status = NextStatus(s), !.last = s.id.seq, !.count = s.row.count + 1]
        BY <1>1, <3>2
      <4>2. DOMAIN threads[i] = {"topic", "status", "count", "last"}
        BY <1>1, <3>1 DEF ThreadRow
      <4> QED
        BY <4>1, <4>2
    <3> QED
      BY <3>3, <3>4
  <2>7. s.row.count \in Nat /\ \A j \in DOMAIN threads : threads[j].count \in Nat
    BY <1>1, Numbers DEF ThreadRow
  <2>8. \A j : Taken(steps', j) = Taken(steps, j) /\ Taken(steps, j) \in Nat
    BY <1>1, Numbers
  <2>9. ASSUME NEW j \in DOMAIN threads'
        PROVE  Counted(threads'[j].count, Taken(steps', j), Lost', Cardinality(Writing(beat', j)), Cardinality(Going(beat')))
    <3>1. Counted(threads[j].count, Taken(steps, j), Lost, Cardinality(Writing(beat, j)), Cardinality(Going(beat)))
      BY <2>6 DEF LagInv
    <3>2. CASE j = i
      <4>1. Room(Lost, beat, j) = Lost + Cardinality(Writing(beat, j)) - Cardinality(Going(beat))
        BY DEF Room
      <4>2. Aware(s, Taken(steps, j), Lost + Cardinality(Writing(beat, j)) - Cardinality(Going(beat)))
        BY <1>1, <3>2, <4>1
      <4>3. Taken(steps, j) <= MaxSteps + Lost
        BY <3>1 DEF Counted
      <4>4. Cardinality(Writing(beat, j)) <= Cardinality(Going(beat))
        BY Numbers
      <4>5. Cardinality(Writing(beat', j)) = Cardinality(Writing(beat, j)) - 1
        BY <2>5, <3>2
      <4>6. Counted(s.row.count + 1, Taken(steps, j), Lost', Cardinality(Writing(beat', j)), Cardinality(Going(beat')))
        BY <1>1, <2>2, <2>4, <2>5, <2>7, <2>8, <4>2, <4>3, <4>4, <4>5, CountedWritten
      <4> QED
        BY <2>6, <2>8, <3>2, <4>6
    <3>3. CASE j # i
      <4>1. threads'[j].count = threads[j].count /\ threads[j].count \in Nat
        BY <2>6, <2>7, <3>3
      <4>2. Cardinality(Writing(beat', j)) = Cardinality(Writing(beat, j))
        BY <2>5, <3>3
      <4>3. Cardinality(Writing(beat, j)) \in Nat /\ Taken(steps, j) \in Nat /\ Taken(steps', j) = Taken(steps, j)
        BY <2>5, <2>8
      <4> QED
        BY <2>2, <2>4, <3>1, <4>1, <4>2, <4>3, CountedUnwritten
    <3> QED
      BY <3>2, <3>3
  <2>10. \A j \in DOMAIN threads :
             /\ Taken(steps', j) \in Nat /\ Taken(steps, j) <= Taken(steps', j)
             /\ Going(beat) = {} \/ Room(Lost, beat, j) - Taken(steps, j) <= Room(Lost', beat', j) - Taken(steps', j)
    <3> SUFFICES ASSUME NEW j \in DOMAIN threads
                 PROVE  /\ Taken(steps', j) \in Nat /\ Taken(steps, j) <= Taken(steps', j)
                        /\ Room(Lost, beat, j) - Taken(steps, j) <= Room(Lost', beat', j) - Taken(steps', j)
      OBVIOUS
    <3>1. /\ Cardinality(Writing(beat', j)) \in Nat /\ Cardinality(Writing(beat, j)) \in Nat
          /\ \/ Cardinality(Writing(beat', j)) = Cardinality(Writing(beat, j))
             \/ Cardinality(Writing(beat', j)) = Cardinality(Writing(beat, j)) - 1
      BY <2>5
    <3>2. Taken(steps, j) \in Nat /\ Taken(steps', j) = Taken(steps, j)
      BY <2>8
    <3> QED
      BY <2>2, <2>4, <3>1, <3>2 DEF Room
  <2>11. Cardinality(Going(beat')) <= Lost' + 1
    BY <2>2, <2>4 DEF LagInv
  <2>12. IsFiniteSet(steps') /\ \A x \in steps' : x.thread \in DOMAIN threads'
    BY <1>1, <2>6 DEF LagInv
  <2>13. Aware(t, Taken(steps', t.thread), Room(Lost', beat', t.thread))
    BY <2>1, AwayAware
  <2> QED
    BY <1>1, <2>1, <2>2, <2>9, <2>10, <2>11, <2>12, <2>13, LagStep
<1> QED
  BY <1>1, <1>2, <1>3 DEF ProgressThread

LEMMA LagStarts == Init => LagInv
<1> SUFFICES ASSUME Init PROVE LagInv
  OBVIOUS
<1>1. \A b \in Beats : beat[b].pc = "idle"
  BY DEF Init, Idle
<1>2. Going(beat) = {} /\ IsFiniteSet(Going(beat)) /\ Cardinality(Going(beat)) = 0
  <2>1. Going(beat) = {}
    BY <1>1 DEF Going, GoingPCs, Advancing
  <2> QED
    BY <2>1, FS_EmptySet
<1>3. /\ steps = {} /\ disk.steps = {} /\ threads = <<>> /\ disk.threads = <<>> /\ Lost = 0
  BY DEF Init, Image, Lost
<1>4. \A b \in Beats : Aware(beat[b], Taken(steps, beat[b].thread), Room(Lost, beat, beat[b].thread))
  BY <1>1, AwayAware
<1> QED
  BY <1>2, <1>3, <1>4, FS_EmptySet DEF LagInv

\* After a crash the tables are those of the last flush, which is one loss more.
LEMMA CrashLag == ASSUME TypeInv, LagInv, Crash PROVE LagInv'
<1>1. /\ threads' = disk.threads /\ steps' = disk.steps /\ disk' = disk
      /\ \A b \in Beats : beat'[b].pc = "idle"
  BY DEF Crash, Idle
<1>2. Lost' = Lost + 1 /\ Lost \in Nat
  BY Numbers DEF Crash, Lost, TypeInv
<1>3. /\ Going(beat') = {} /\ IsFiniteSet(Going(beat')) /\ Cardinality(Going(beat')) = 0
      /\ \A i : Cardinality(Writing(beat', i)) = 0
  <2>1. Going(beat') = {} /\ \A i : Writing(beat', i) = {}
    BY <1>1 DEF Going, GoingPCs, Advancing, Writing, Writes
  <2> QED
    BY <2>1, FS_EmptySet
<1>4. \A b \in Beats : Aware(beat'[b], Taken(steps', beat'[b].thread), Room(Lost', beat', beat'[b].thread))
  BY <1>1, AwayAware
<1>5. \A i \in DOMAIN threads' :
          Counted(threads'[i].count, Taken(steps', i), Lost', Cardinality(Writing(beat', i)), Cardinality(Going(beat')))
  BY <1>1, <1>2, <1>3 DEF LagInv
<1>6. ASSUME NEW i \in DOMAIN disk'.threads
      PROVE  Counted(disk'.threads[i].count, Taken(disk'.steps, i), Lost' + 1, 0, 0)
  <2>1. Counted(disk.threads[i].count, Taken(disk.steps, i), Lost + 1, 0, 0)
    BY <1>1, <1>6 DEF LagInv
  <2>2. disk.threads[i].count \in Nat
    <3>1. disk.threads \in Seq(ThreadRow) /\ i \in DOMAIN disk.threads
      BY <1>1, <1>6 DEF TypeInv, Tables
    <3>2. disk.threads[i] \in ThreadRow
      BY <3>1
    <3> QED
      BY <3>2 DEF ThreadRow
  <2>3. Taken(disk.steps, i) \in Nat
    <3>1. {x \in disk.steps : x.thread = i} \in SUBSET disk.steps
      OBVIOUS
    <3>2. IsFiniteSet({x \in disk.steps : x.thread = i})
      BY <3>1, FS_Subset DEF LagInv
    <3> QED
      BY <3>2, FS_CardinalityType DEF Taken
  <2>4. MaxSteps \in Nat
    BY Numbers
  <2>5. Counted(disk.threads[i].count, Taken(disk.steps, i), Lost + 1 + 1, 0, 0)
    BY <1>2, <2>1, <2>2, <2>3, <2>4 DEF Counted
  <2> QED
    BY <1>1, <1>2, <2>5
<1>7. Cardinality(Going(beat')) <= Lost' + 1 /\ IsFiniteSet(steps') /\ IsFiniteSet(disk'.steps)
  BY <1>1, <1>2, <1>3 DEF LagInv
<1>8. (\A x \in steps' : x.thread \in DOMAIN threads') /\ \A x \in disk'.steps : x.thread \in DOMAIN disk'.threads
  BY <1>1 DEF LagInv
<1> QED
  BY <1>3, <1>4, <1>5, <1>6, <1>7, <1>8 DEF LagInv

LEMMA LagNext == RecordsInv /\ TypeInv /\ LagInv /\ [Next]_vars => LagInv'
<1> SUFFICES ASSUME RecordsInv, TypeInv, LagInv, [Next]_vars PROVE LagInv'
  OBVIOUS
<1>1. CASE UNCHANGED vars
  BY <1>1 DEF vars, tables, LagInv, Lost
<1>2. ASSUME NEW b \in Beats, Advance(b) PROVE LagInv'
  BY <1>2, TouchLag, CreateLag, AppendLag, ProgressLag DEF Advance
<1>3. ASSUME NEW b \in Beats, Begin(b) \/ Step(b) PROVE LagInv'
  BY <1>2, <1>3, BeginLag, AttendLag, CloseLag DEF Step
<1>4. CASE Crash
  BY <1>4, CrashLag
<1> QED
  BY <1>1, <1>3, <1>4 DEF Next

LEMMA LagFollows == TypeInv /\ LagInv => CountLags /\ StepsBounded
<1> SUFFICES ASSUME TypeInv, LagInv, NEW i \in DOMAIN threads
             PROVE  LET n == Cardinality(StepsOf(i))
                        writing == {b \in Beats : beat[b].pc = "progress" /\ beat[b].thread = i}
                    IN  /\ threads[i].count <= n
                        /\ n <= threads[i].count + failures + overlaps + crashes + Cardinality(writing)
                        /\ n <= MaxSteps + failures + overlaps + crashes
  BY DEF CountLags, StepsBounded
<1>1. StepsOf(i) = {x \in steps : x.thread = i} /\ Cardinality(StepsOf(i)) = Taken(steps, i)
  BY DEF StepsOf, Taken
<1>2. Writing(beat, i) = {b \in Beats : beat[b].pc = "progress" /\ beat[b].thread = i}
  BY DEF Writing, Writes
<1>3. Counted(threads[i].count, Taken(steps, i), Lost, Cardinality(Writing(beat, i)), Cardinality(Going(beat)))
  BY DEF LagInv
<1>4. /\ threads[i].count \in Nat /\ Taken(steps, i) \in Nat /\ Cardinality(Writing(beat, i)) \in Nat /\ MaxSteps \in Nat
      /\ failures \in Nat /\ overlaps \in Nat /\ crashes \in Nat
  BY Numbers DEF TypeInv
<1>5. /\ threads[i].count <= Taken(steps, i)
      /\ Taken(steps, i) <= threads[i].count + failures + overlaps + crashes + Cardinality(Writing(beat, i))
      /\ Taken(steps, i) <= MaxSteps + failures + overlaps + crashes
  BY <1>3, <1>4 DEF Counted, Lost
<1> QED
  BY <1>1, <1>2, <1>5

\* A thread does not run away: one step for each heartbeat, a count that falls
\* behind by no more than the failures, overlaps and crashes explain, and no
\* more steps than the limit and those (advanceActivityThread, shouldStopThread).
THEOREM ThreadsBounded == Spec => []ThreadBounded
<1>1. Init /\ [][Next]_vars => [](TypeInv /\ LagInv /\ RecordsInv)
  BY TypeStarts, TypeNext, LagStarts, LagNext, RecordsInit, RecordsStep, PTL
<1>2. TypeInv /\ LagInv => CountLags /\ StepsBounded
  BY LagFollows
<1> QED
  BY <1>1, <1>2, AtMostOneStep, PTL DEF Spec, ThreadBounded
=============================================================================
