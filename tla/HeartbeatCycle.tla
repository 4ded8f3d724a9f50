--------------------------- MODULE HeartbeatCycle ---------------------------
(***************************************************************************)
(* One heartbeat of the living loop (runHeartbeatCycle): number the cycle, *)
(* turn pending evidence into perception cards, judge the cards, decide on *)
(* one action, and record how the cycle ended.  The daily rhythm it calls  *)
(* last is the module DailyRhythm; here it is a single step.               *)
(*                                                                         *)
(* A "beat" is one heartbeat command.  Beats overlap in one process, which *)
(* shares one in-memory database; a step is what runs between two awaited  *)
(* database calls.  A command flushes the database to disk when it ends    *)
(* and a crash brings back the last image.                                 *)
(***************************************************************************)
EXTENDS Integers, Sequences, FiniteSets, SequencesExt

CONSTANTS
    Beats,         \* the heartbeat commands that may run at once
    Evidence,      \* the evidence items the connectors may bring in
    Sensitive,     \* the items whose sensitivityHint is "sensitive"
    MaxEvidence,   \* PERCEPTION_MAX_EVIDENCE_PER_CYCLE
    MaxBegun,      \* bound: heartbeats begun
    MaxFailures,   \* bound: database calls that fail
    MaxCrashes     \* bound: process crashes

ASSUME HeartbeatAssumption ==
    /\ Sensitive \subseteq Evidence
    /\ MaxEvidence \in Nat \ {0}
    /\ {MaxBegun, MaxFailures, MaxCrashes} \subseteq Nat

VARIABLES
    arrived,    \* evidence_item, in the order of createdAt
    perceived,  \* the items whose lifecycle_status is "perceived"
    cards,      \* perception_card: item -> the cycle that wrote it
    verdicts,   \* judgment_verdict
    traces,     \* heartbeat_cycle_trace, in the order of insertion
    closures,   \* action_closure_record
    events,     \* loop_stage_event
    disk,       \* the last flushed image of the seven tables above
    beat,       \* the local state of each command
    clock, begun, failures, crashes

tables == <<arrived, perceived, cards, verdicts, traces, closures, events>>
vars == <<arrived, perceived, cards, verdicts, traces, closures, events,
          disk, beat, clock, begun, failures, crashes>>

CycleId == [at : Nat, seq : Nat]
NoCycle == [at |-> 0, seq |-> 0]
Stages == {"ingestion", "perception", "judgment", "policy", "execution", "closure"}
Reasons == {"evidence_batch_empty", "state_unreadable", "proposal_no_action",
            "policy_denied_high_risk"}

\* todo holds the items still to turn into cards, then the cards to judge;
\* act: some verdict asks for an action; degraded: the stage did not succeed;
\* failed (for the properties): a database call of this beat failed.
Idle == [pc |-> "idle", id |-> NoCycle, todo |-> <<>>, seen |-> <<>>, act |-> FALSE,
         reason |-> "none", degraded |-> FALSE, failed |-> FALSE]

PCs == {"idle", "sequence", "trace", "perceive", "card", "mark", "judge",
        "propose", "close", "rhythm", "flush"}

Image == [arrived |-> arrived, perceived |-> perceived, cards |-> cards,
          verdicts |-> verdicts, traces |-> traces, closures |-> closures,
          events |-> events]

Images ==
    [arrived   : Seq(Evidence),
     perceived : SUBSET Evidence,
     cards     : [Evidence -> CycleId],
     verdicts  : SUBSET [item : Evidence, cycle : CycleId, kind : {"watch", "notify_owner"}],
     traces    : Seq(CycleId),
     closures  : SUBSET [cycle : CycleId, status : {"no_action", "denied"}, reason : Reasons],
     events    : SUBSET [cycle : CycleId, stage : Stages,
                         status : {"started", "completed", "skipped", "failed"}]]

BeatStates ==
    [pc : PCs, id : CycleId, todo : Seq(Evidence), seen : Seq(Evidence), act : BOOLEAN,
     reason : Reasons \cup {"none"}, degraded : BOOLEAN, failed : BOOLEAN]

\* The types of the tables, in memory and as flushed, and of every beat.
TypeOK ==
    /\ Image \in Images /\ disk \in Images
    /\ beat \in [Beats -> BeatStates]
    /\ {clock, begun, failures, crashes} \subseteq Nat

-----------------------------------------------------------------------------
Init ==
    /\ arrived = <<>> /\ perceived = {}
    /\ cards = [e \in Evidence |-> NoCycle]
    /\ verdicts = {} /\ traces = <<>> /\ closures = {} /\ events = {}
    /\ disk = Image
    /\ beat = [b \in Beats |-> Idle]
    /\ clock = 1 /\ begun = 0 /\ failures = 0 /\ crashes = 0

\* A database call of beat b fails and the code goes on in state s.
FailTo(b, s) ==
    /\ failures < MaxFailures
    /\ failures' = failures + 1
    /\ beat' = [beat EXCEPT ![b] = [s EXCEPT !.failed = TRUE]]

GoTo(b, s) == beat' = [beat EXCEPT ![b] = s] /\ UNCHANGED failures

\* The event's id is evt_<cycle>_<stage>: the primary key lets only the first
\* event of a stage in, and the caller ignores a refused one.
Logged(log, id, stage, status) ==
    IF \E e \in log : e.cycle = id /\ e.stage = stage THEN log
    ELSE log \cup {[cycle |-> id, stage |-> stage, status |-> status]}

\* The cycle ends without an action for this reason.
NoAction(s, why, isDegraded) ==
    [s EXCEPT !.pc = "close", !.reason = why, !.act = FALSE, !.degraded = isDegraded]

-----------------------------------------------------------------------------
\* A connector result is normalised into an evidence row, status pending; a
\* second observation of the same row leaves its status alone.
Ingest(e) ==
    /\ ~Contains(arrived, e)
    /\ arrived' = Append(arrived, e)
    /\ UNCHANGED <<perceived, cards, verdicts, traces, closures, events,
                   disk, beat, clock, begun, failures, crashes>>

\* The command starts; two commands may start in the same millisecond.
Begin(b) ==
    /\ beat[b].pc = "idle" /\ begun < MaxBegun
    /\ clock' \in {clock, clock + 1}
    /\ begun' = begun + 1
    /\ GoTo(b, [Idle EXCEPT !.pc = "sequence", !.id.at = clock'])
    /\ UNCHANGED <<tables, disk, crashes>>

MutLastSequence == IF traces = <<>> THEN 0 ELSE Head(traces).seq

LastSequence == Max({0} \cup {t.seq : t \in Range(traces)})

\* The sequence is the largest one stored plus one; an unreadable table
\* counts as an empty one.
NextSequence(b) ==
    LET numbered(n) == [beat[b] EXCEPT !.pc = "trace", !.id.seq = n]
    IN  /\ beat[b].pc = "sequence"
        /\ \/ GoTo(b, numbered(LastSequence + 1))
           \/ FailTo(b, numbered(1))
        /\ UNCHANGED <<tables, disk, clock, begun, crashes>>

MutTraceTaken(id) == FALSE

\* The trace row carries the cycle's id as primary key.  Without it the
\* command returns a degraded result and records nothing else.
TraceTaken(id) == Contains(traces, id)

WriteTrace(b) ==
    LET id   == beat[b].id
        lost == [beat[b] EXCEPT !.pc = "flush", !.reason = "state_unreadable",
                                !.degraded = TRUE]
    IN  /\ beat[b].pc = "trace"
        /\ \/ /\ ~TraceTaken(id)
              /\ traces' = Append(traces, id)
              /\ events' = Logged(events, id, "ingestion", "started")
              /\ GoTo(b, [beat[b] EXCEPT !.pc = "perceive"])
           \/ /\ TraceTaken(id)
              /\ UNCHANGED <<traces, events>>
              /\ GoTo(b, lost)
           \/ UNCHANGED <<traces, events>> /\ FailTo(b, lost)
        /\ UNCHANGED <<arrived, perceived, cards, verdicts, closures, disk, clock,
                       begun, crashes>>

\* The pending ones among the first n items to arrive, the newest first.
PendingOf[n \in 0..Len(arrived)] ==
    IF n = 0 THEN <<>>
    ELSE IF arrived[n] \in perceived THEN PendingOf[n - 1]
    ELSE <<arrived[n]>> \o PendingOf[n - 1]

\* The newest pending items, at most MaxEvidence of them.
PendingBatch ==
    LET pending == PendingOf[Len(arrived)]
    IN  SubSeq(pending, 1, IF Len(pending) < MaxEvidence THEN Len(pending) ELSE MaxEvidence)

\* Perception failed: the cycle is closed without an action.
MutPerceptionFailed(s) == NoAction(s, "none", TRUE)

PerceptionFailed(s) == NoAction(s, "state_unreadable", TRUE)

ReadPending(b) ==
    LET id == beat[b].id
    IN  /\ beat[b].pc = "perceive"
        /\ \/ /\ PendingBatch # <<>>
              /\ UNCHANGED events
              /\ GoTo(b, [beat[b] EXCEPT !.pc = "card", !.todo = PendingBatch])
           \/ /\ PendingBatch = <<>>
              /\ events' = Logged(Logged(events, id, "perception", "completed"),
                                  id, "judgment", "skipped")
              /\ GoTo(b, NoAction(beat[b], "evidence_batch_empty", FALSE))
           \/ /\ events' = Logged(events, id, "perception", "failed")
              /\ FailTo(b, PerceptionFailed(beat[b]))
        /\ UNCHANGED <<arrived, perceived, cards, verdicts, traces, closures, disk,
                       clock, begun, crashes>>

MutCardTaken(e) == FALSE

\* The card's id is per_<evidence>: a second card for the same item violates
\* the primary key, which the builder reports as an unreadable state, giving
\* up the whole batch.
CardTaken(e) == cards[e] # NoCycle

WriteCard(b) ==
    LET e == Head(beat[b].todo)
    IN  /\ beat[b].pc = "card"
        /\ \/ /\ ~CardTaken(e)
              /\ cards' = [cards EXCEPT ![e] = beat[b].id]
              /\ UNCHANGED events
              /\ GoTo(b, [beat[b] EXCEPT !.pc = "mark"])
           \/ /\ CardTaken(e)
              /\ UNCHANGED cards
              /\ events' = Logged(events, beat[b].id, "perception", "failed")
              /\ GoTo(b, PerceptionFailed(beat[b]))
           \/ /\ UNCHANGED cards
              /\ events' = Logged(events, beat[b].id, "perception", "failed")
              /\ FailTo(b, PerceptionFailed(beat[b]))
        /\ UNCHANGED <<arrived, perceived, verdicts, traces, closures, disk, clock,
                       begun, crashes>>

MutMarkPerceived(b) ==
    LET s    == beat[b]
        next == [s EXCEPT !.pc = "judge", !.todo = Append(s.seen, Head(s.todo)), !.seen = <<>>]
    IN  /\ s.pc = "mark"
        /\ perceived' = perceived \cup Range(s.todo) /\ GoTo(b, next)
        /\ events' = Logged(events, s.id, "perception", "completed")
        /\ UNCHANGED <<arrived, cards, verdicts, traces, closures, disk, clock, begun,
                       crashes>>

MutNeverPerceived(b) ==
    LET s    == beat[b]
        seen == Append(s.seen, Head(s.todo))
        next == IF Tail(s.todo) = <<>>
                THEN [s EXCEPT !.pc = "judge", !.todo = seen, !.seen = <<>>]
                ELSE [s EXCEPT !.pc = "card", !.todo = Tail(s.todo), !.seen = seen]
    IN  s.pc = "mark" /\ GoTo(b, next)
        /\ UNCHANGED <<tables, disk, clock, begun, crashes>>

\* The item is marked perceived; nobody looks at the answer.  After the last
\* one the cards go to judgment.
MarkPerceived(b) ==
    LET s    == beat[b]
        e    == Head(s.todo)
        seen == Append(s.seen, e)
        next == IF Tail(s.todo) = <<>>
                THEN [s EXCEPT !.pc = "judge", !.todo = seen, !.seen = <<>>]
                ELSE [s EXCEPT !.pc = "card", !.todo = Tail(s.todo), !.seen = seen]
    IN  /\ s.pc = "mark"
        /\ \/ perceived' = perceived \cup {e} /\ GoTo(b, next)
           \/ perceived' = perceived /\ FailTo(b, next)
        /\ events' = IF next.pc = "judge"
                     THEN Logged(events, s.id, "perception", "completed") ELSE events
        /\ UNCHANGED <<arrived, cards, verdicts, traces, closures, disk, clock, begun,
                       crashes>>

\* What runAgentJudgment makes of a card that buildCardFromEvidence wrote: a
\* sensitive item is relevant but blocked, so the owner is notified; for any
\* other the first possible intent is "watch".  (An accepted projection only
\* changes a verdict "ignore", which no such card gets.)
VerdictKind(e) == IF e \in Sensitive THEN "notify_owner" ELSE "watch"

MutJudge(b) ==
    LET s == beat[b]
        e == Head(s.todo)
        kind == VerdictKind(e)
    IN  /\ s.pc = "judge" /\ s.todo # <<>>
        /\ verdicts' = verdicts \cup {[item |-> e, cycle |-> s.id, kind |-> kind]}
        /\ GoTo(b, [s EXCEPT !.todo = Tail(s.todo), !.act = kind = "notify_owner"])
        /\ UNCHANGED <<arrived, perceived, cards, traces, closures, events, disk, clock,
                       begun, crashes>>

Judge(b) ==
    LET s == beat[b]
        e == Head(s.todo)
        kind == VerdictKind(e)
        unjudged == [s EXCEPT !.todo = Tail(s.todo), !.degraded = TRUE]
        judged == [s EXCEPT !.todo = Tail(s.todo), !.act = s.act \/ kind = "notify_owner"]
    IN  /\ s.pc = "judge" /\ s.todo # <<>>
        /\ \/ /\ verdicts' = verdicts \cup {[item |-> e, cycle |-> s.id, kind |-> kind]}
              /\ GoTo(b, judged)
           \/ UNCHANGED verdicts /\ FailTo(b, unjudged)
        /\ UNCHANGED <<arrived, perceived, cards, traces, closures, events, disk, clock,
                       begun, crashes>>

\* All cards are judged.  The first verdict that is not ignore or watch
\* becomes the cycle's proposal; the others are left.
Choose(b) ==
    LET s == beat[b]
    IN  /\ s.pc = "judge" /\ s.todo = <<>>
        /\ events' = Logged(Logged(events, s.id, "judgment",
                                   IF s.degraded THEN "failed" ELSE "completed"),
                            s.id, "policy", "started")
        /\ GoTo(b, IF s.act THEN [s EXCEPT !.pc = "propose", !.degraded = FALSE]
                            ELSE NoAction(s, "proposal_no_action", FALSE))
        /\ UNCHANGED <<arrived, perceived, cards, verdicts, traces, closures, disk, clock,
                       begun, crashes>>

\* The verdict is read back and made a proposal; the policy denies a blocked
\* risk and nothing is dispatched.
Propose(b) ==
    LET s == beat[b]
        denied == [s EXCEPT !.pc = "close", !.reason = "policy_denied_high_risk"]
    IN  /\ s.pc = "propose"
        /\ \/ /\ events' = Logged(Logged(events, s.id, "policy", "completed"),
                                  s.id, "execution", "started")
              /\ GoTo(b, denied)
           \/ /\ events' = Logged(events, s.id, "policy", "failed")
              /\ FailTo(b, NoAction(s, "state_unreadable", TRUE))
        /\ UNCHANGED <<arrived, perceived, cards, verdicts, traces, closures, disk, clock,
                       begun, crashes>>

\* Both recorders insert a row whose id is made from the status and the cycle;
\* only the one for no_action first looks for an earlier row.
ClosureOf(s) ==
    [cycle |-> s.id, status |-> IF s.act THEN "denied" ELSE "no_action", reason |-> s.reason]

ClosureTaken(r) == \E x \in closures : x.cycle = r.cycle /\ x.status = r.status

\* The closing events: the execution event only of a cycle that had a
\* proposal; a closure that could not be written makes both "failed", except
\* that a cycle without evidence always reports "completed".
ClosingEvents(s, ok) ==
    LET status == IF s.reason = "evidence_batch_empty" \/ (ok /\ ~s.degraded)
                  THEN "completed" ELSE "failed"
        log == IF s.act THEN Logged(events, s.id, "execution", status) ELSE events
    IN  Logged(log, s.id, "closure", status)

MutWriteClosure(b) ==
    LET s == beat[b]
    IN  /\ s.pc = "close"
        /\ closures' = IF s.act THEN closures \cup {ClosureOf(s)} ELSE closures
        /\ events' = ClosingEvents(s, TRUE)
        /\ GoTo(b, [s EXCEPT !.pc = "rhythm"])
        /\ UNCHANGED <<arrived, perceived, cards, verdicts, traces, disk, clock, begun,
                       crashes>>

WriteClosure(b) ==
    LET s == beat[b]
        r == ClosureOf(s)
        next == [s EXCEPT !.pc = "rhythm"]
    IN  /\ s.pc = "close"
        /\ \/ /\ closures' = IF ClosureTaken(r) THEN closures ELSE closures \cup {r}
              /\ events' = ClosingEvents(s, ~(s.act /\ ClosureTaken(r)))
              /\ GoTo(b, next)
           \/ /\ UNCHANGED closures
              /\ events' = ClosingEvents(s, FALSE)
              /\ FailTo(b, next)
        /\ UNCHANGED <<arrived, perceived, cards, verdicts, traces, disk, clock, begun,
                       crashes>>

\* The daily rhythm is checked (module DailyRhythm has its tables); its own
\* event, stage "quiet", is left out.
AdvanceRhythm(b) ==
    /\ beat[b].pc = "rhythm"
    /\ GoTo(b, [beat[b] EXCEPT !.pc = "flush"])
    /\ UNCHANGED <<tables, disk, clock, begun, crashes>>

MutFlushEarly(b) ==
    /\ beat[b].pc \in {"trace", "card", "judge", "flush"}
    /\ disk' = Image
    /\ IF beat[b].pc = "flush" THEN GoTo(b, Idle) ELSE UNCHANGED <<beat, failures>>
    /\ UNCHANGED <<tables, clock, begun, crashes>>

\* The command writes the whole database, other beats' rows included, to the
\* file; a failed write is swallowed.
Flush(b) ==
    /\ beat[b].pc = "flush"
    /\ \/ disk' = Image /\ GoTo(b, Idle)
       \/ UNCHANGED disk /\ FailTo(b, Idle)
    /\ UNCHANGED <<tables, clock, begun, crashes>>

Crash ==
    /\ crashes < MaxCrashes
    /\ crashes' = crashes + 1
    /\ arrived' = disk.arrived /\ perceived' = disk.perceived /\ cards' = disk.cards
    /\ verdicts' = disk.verdicts /\ traces' = disk.traces
    /\ closures' = disk.closures /\ events' = disk.events
    /\ beat' = [b \in Beats |-> Idle]
    /\ UNCHANGED <<disk, clock, begun, failures>>

Step(b) ==
    \/ NextSequence(b) \/ WriteTrace(b) \/ ReadPending(b) \/ WriteCard(b)
    \/ MarkPerceived(b) \/ Judge(b) \/ Choose(b) \/ Propose(b) \/ WriteClosure(b)
    \/ AdvanceRhythm(b) \/ Flush(b)

Next ==
    \/ \E e \in Evidence : Ingest(e)
    \/ \E b \in Beats : Begin(b) \/ Step(b)
    \/ Crash

Spec == Init /\ [][Next]_vars

-----------------------------------------------------------------------------
\* No cycle has two closures (AC-I6: "at most one terminal closure" for each
\* cycleId): the recorders do not look for each other's rows, so this rests
\* on every cycle having its own id.
AtMostOneClosure == \A x, y \in closures : x.cycle = y.cycle => x = y

\* A cycle that has got to the daily rhythm has recorded its closure unless
\* one of its own database calls failed (AC-I3), whatever the other beats did.
ClosedUnlessFailed ==
    \A b \in Beats : beat[b].pc = "rhythm" /\ ~beat[b].failed
                      => \E r \in closures : r.cycle = beat[b].id

\* Overlapping beats read the same pending items, yet an item is judged once
\* only, by the cycle that wrote its card.
JudgedOnce ==
    \A v \in verdicts : /\ v.cycle = cards[v.item]
                        /\ \A w \in verdicts : w.item = v.item => w = v

\* The tables never claim an item was perceived that has no card, in the file
\* a restart would read as well as in memory.
PerceivedHasCard ==
    \A e \in Evidence : /\ e \in perceived => cards[e] # NoCycle
                        /\ e \in disk.perceived => disk.cards[e] # NoCycle

\* A cycle that saw something sensitive does not report that there was
\* nothing to do.
SensitiveNotSilent ==
    \A r \in closures :
        r.reason \in {"proposal_no_action", "evidence_batch_empty"} =>
            ~\E v \in verdicts : v.cycle = r.cycle /\ v.kind = "notify_owner"

\* With one beat at a time and no failed call, cycles are numbered in the
\* order they are traced, across crashes too ("assigns a monotonically
\* increasing cycleSequence").
SequenceIncreasing ==
    \A i, j \in DOMAIN traces : i < j => traces[i].seq < traces[j].seq

\* Between beats every item that left the pending list has a verdict: nothing
\* that was perceived is forgotten, although a crash may come at any step.
NothingForgotten ==
    (\A b \in Beats : beat[b].pc = "idle") =>
        \A e \in perceived : \E v \in verdicts : v.item = e

\* A beat reports an unreadable state only if one of its own database calls
\* failed: what an earlier beat left behind does not block this one.
DegradedOnlyByFailure ==
    \A b \in Beats : beat[b].reason = "state_unreadable" => beat[b].failed

\* A heartbeat closes its cycle, and not as if nothing had been there when it
\* judged something sensitive.
ClosedAsJudged == ClosedUnlessFailed /\ SensitiveNotSilent

\* Overlapping heartbeats that read the same pending items give each one card
\* and one verdict.
EvidenceOnce == PerceivedHasCard /\ JudgedOnce

\* The heartbeat keeps the promises of CycleLedger: what overlapping beats,
\* failed calls and crashes do to a ledger of begun and closed cycles.
Ledger == INSTANCE CycleLedger WITH
    begun <- Range(traces),
    kept <- [begun |-> Range(disk.traces), closures |-> disk.closures]

LedgerRefined == Ledger!LedgerSpec
=============================================================================
