-------------------------- MODULE V9HeartbeatCycle --------------------------
(***************************************************************************)
(* One heartbeat of the v9 loop (runV9HeartbeatCycle): number the cycle,   *)
(* load the context, take an attention signal, advance at most one step of *)
(* an activity thread, resolve an intent, and record how the cycle ended.  *)
(*                                                                         *)
(* A "beat" is one call.  Beats overlap in one process on one in-memory    *)
(* database; a step is what runs between two awaited calls.  The attention *)
(* port, the intent resolver and the action port come from the caller:     *)
(* their answers are choices.  Stage events other than the closing one, and*)
(* the daily rhythm, change nothing here and are left out.                 *)
(***************************************************************************)
EXTENDS Integers, Sequences, FiniteSets, SequencesExt

CONSTANTS
    Beats,           \* the calls that may run at once
    Topics,          \* what a signal can be about (the sources it shares)
    MaxSteps,        \* ACTIVITY_THREAD_MAX_STEPS
    StaleHeartbeats, \* ACTIVITY_THREAD_STALE_HEARTBEATS
    MaxEvents        \* bound: heartbeats begun, heartbeats begun while another
                     \* is open, calls that fail and crashes, all together

ASSUME V9Assumption ==
    MaxSteps \in Nat \ {0} /\ StaleHeartbeats \in Nat /\ MaxEvents \in Nat

VARIABLES
    traces,    \* heartbeat_cycle_trace
    threads,   \* activity_thread, in the order of insertion
    steps,     \* activity_step
    closures,  \* action_closure_record
    events,    \* loop_stage_event, stage "closure"
    disk,      \* the last flushed image of the five tables above
    beat,      \* the local state of each call
    clock, begun, overlaps, failures, crashes

tables == <<traces, threads, steps, closures, events>>
vars == <<traces, threads, steps, closures, events, disk, beat,
          clock, begun, overlaps, failures, crashes>>

CycleId == [at : Nat, seq : Nat]
NoCycle == [at |-> 0, seq |-> 0]
NoRow == [topic |-> "none", status |-> "none", count |-> 0, last |-> 0]

StepKinds == {"advance", "pause", "complete"}
\* How a cycle ends: without an action (the reasons are left out), with an
\* intent the action port did not take, with one it did, or in the safety net.
Outcomes == {"no_action", "undispatched", "policy", "fallback"}
ThreadRow == [topic : Topics, status : {"active", "paused", "blocked", "completed"},
              count : Nat, last : Nat]

\* thread is the index of the thread the beat works on, row that thread as
\* last read, kind and topic what its signal says;
\* sourced: the closure has a source;
\* closed: it has a closureRef.
Idle == [pc |-> "idle", id |-> NoCycle, kind |-> "none", topic |-> "none",
         thread |-> 0, row |-> NoRow, outcome |-> "none", sourced |-> TRUE,
         closed |-> FALSE, failed |-> FALSE]

PCs == {"idle", "trace", "context", "stop", "touch", "reread",
        "create", "append", "progress", "intent", "lookup", "insert", "event", "flush"}

Image == [traces |-> traces, threads |-> threads, steps |-> steps, closures |-> closures,
          events |-> events]

TypeOK ==
    /\ traces \subseteq CycleId
    /\ threads \in Seq(ThreadRow)
    /\ steps \subseteq [thread : Nat, cycle : CycleId]
    /\ closures \subseteq [cycle : CycleId, kind : {"no_action", "policy"}, thread : Nat]
    /\ events \subseteq [cycle : CycleId, status : {"completed", "failed"}]
    /\ DOMAIN disk = DOMAIN Image
    /\ beat \in [Beats -> [pc : PCs, id : CycleId, kind : StepKinds \cup {"none"}, topic : Topics \cup {"none"},
                           thread : Nat, row : ThreadRow \cup {NoRow},
                           outcome : Outcomes \cup {"none"}, sourced : BOOLEAN,
                           closed : BOOLEAN, failed : BOOLEAN]]
    /\ {clock, begun, overlaps, failures, crashes} \subseteq Nat

-----------------------------------------------------------------------------
Init ==
    /\ traces = {} /\ threads = <<>> /\ steps = {} /\ closures = {} /\ events = {}
    /\ disk = Image
    /\ beat = [b \in Beats |-> Idle]
    /\ clock = 1 /\ begun = 0 /\ overlaps = 0 /\ failures = 0 /\ crashes = 0

\* A call made for beat b fails and the code goes on in state s.
FailTo(b, s) ==
    /\ begun + overlaps + failures + crashes < MaxEvents
    /\ failures' = failures + 1
    /\ beat' = [beat EXCEPT ![b] = [s EXCEPT !.failed = TRUE]]

GoTo(b, s) == beat' = [beat EXCEPT ![b] = s] /\ UNCHANGED failures

\* The beat has chosen how its cycle ends and goes to record it.
Closing(s, outcome, sourced) ==
    [s EXCEPT !.pc = "lookup", !.outcome = outcome, !.sourced = sourced]

-----------------------------------------------------------------------------
LastSequence == Max({0} \cup {t.seq : t \in traces})

\* The call starts, perhaps in the same millisecond as another, and reads the
\* largest sequence stored; an unreadable table counts as empty.  Without a
\* runtime it returns at once ("carrier_only").
Begin(b) ==
    LET numbered(n) == [Idle EXCEPT !.pc = "trace", !.id = [at |-> clock', seq |-> n]]
    IN  /\ beat[b].pc = "idle"
        /\ overlaps' = IF \A c \in Beats : beat[c].pc = "idle" THEN overlaps ELSE overlaps + 1
        /\ begun' = begun + 1
        /\ begun' + overlaps' + failures + crashes <= MaxEvents
        /\ clock' \in {clock, clock + IF begun = 0 THEN 0 ELSE 1}
        /\ \/ GoTo(b, numbered(LastSequence + 1))
           \/ FailTo(b, numbered(1)) /\ begun' + overlaps' + failures' + crashes <= MaxEvents
           \/ GoTo(b, [Idle EXCEPT !.pc = "flush"])
        /\ UNCHANGED <<tables, disk, crashes>>

MutTraceTaken(id) == FALSE

\* The trace's primary key is the cycle id; without a trace nothing more is
\* recorded and the call returns a degraded result.
TraceTaken(id) == id \in traces

StartCycleTrace(b) ==
    LET id == beat[b].id
        lost == [beat[b] EXCEPT !.pc = "flush"]
    IN  /\ beat[b].pc = "trace"
        /\ \/ /\ ~TraceTaken(id)
              /\ traces' = traces \cup {id}
              /\ GoTo(b, [beat[b] EXCEPT !.pc = "context"])
           \/ TraceTaken(id) /\ UNCHANGED traces /\ GoTo(b, lost)
           \/ UNCHANGED traces /\ FailTo(b, lost)
        /\ UNCHANGED <<threads, steps, closures, events, disk, clock, begun, overlaps, crashes>>

MutOpen(row) == TRUE

\* The context only loads threads that may go on.
Open(row) == row.status \in {"active", "paused"}

\* selectRelatedThread: the thread the signal names if it was loaded, else an
\* active one on the same topic (the code takes the one updated last), else 0.
Related(ts, name, topic) ==
    LET same == {i \in DOMAIN ts : ts[i].status = "active" /\ ts[i].topic = topic}
    IN  IF name \in DOMAIN ts /\ Open(ts[name]) THEN {name}
        ELSE IF same # {} THEN same
        ELSE {0}

MutShouldStop(row, seq) == seq - row.last > StaleHeartbeats

\* shouldStopThread, on the thread as the context has it.
ShouldStop(row, seq) == row.count >= MaxSteps \/ seq - row.last > StaleHeartbeats

\* The signal is for thread i of the loaded ones, or for a new one.
Chosen(s, ts, kind, topic, i) ==
    IF i = 0 THEN [s EXCEPT !.pc = "create", !.kind = kind, !.topic = topic]
    ELSE [s EXCEPT !.kind = kind, !.thread = i, !.row = ts[i],
                   !.pc = IF ShouldStop(ts[i], s.id.seq) THEN "stop" ELSE "touch"]

\* What the attention port may make of the loaded threads ts: nothing usable
\* (degraded, or without sources), nothing for a thread, or a signal; pausing
\* and completing need the name of a thread.
Attended(s, ts) ==
    {Closing(s, "no_action", TRUE), [s EXCEPT !.pc = "intent"]}
    \cup {Chosen(s, ts, x[1], x[2], x[3]) : x \in
             {y \in StepKinds \X Topics \X (DOMAIN ts \cup {0}) :
                 \E name \in DOMAIN ts : y[3] \in Related(ts, name, y[2])}
             \cup {y \in {"advance"} \X Topics \X (DOMAIN ts \cup {0}) :
                      y[3] \in Related(ts, 0, y[2])}}

\* The context is loaded and given to the attention port, which may throw and
\* so reject the call.  An unreadable slice leaves the context without threads,
\* a failed assembly ends the cycle.
AssembleAndAttend(b) ==
    LET s == beat[b]
    IN  /\ s.pc = "context"
        /\ \/ \E next \in Attended(s, threads) : GoTo(b, next)
           \/ \E next \in Attended(s, <<>>) \cup {Closing(s, "no_action", TRUE), Idle} :
                 FailTo(b, next)
        /\ UNCHANGED <<tables, disk, clock, begun, overlaps, crashes>>

-----------------------------------------------------------------------------
\* advanceActivityThread.  The beat goes on to the intent with the thread it
\* advanced; whatever fails on the way, it goes on without one ("degraded"),
\* keeping what was already written.
Advanced(s, i) ==
    [s EXCEPT !.pc = "intent", !.thread = i, !.kind = "none", !.topic = "none", !.row = NoRow]

MutUnadvanced(s) == Advanced(s, s.thread)

Unadvanced(s) == Advanced(s, 0)

\* An overlong thread is blocked, a stale one paused.
StopThread(b) ==
    LET s == beat[b]
        over == s.row.count >= MaxSteps
        stopped == [threads EXCEPT ![s.thread].status = IF over THEN "blocked" ELSE "paused",
                                   ![s.thread].last = s.id.seq]
    IN  /\ s.pc = "stop"
        /\ \/ threads' = stopped /\ GoTo(b, Unadvanced(s))
           \/ threads' \in {threads, stopped} /\ FailTo(b, Unadvanced(s))
        /\ UNCHANGED <<traces, steps, closures, events, disk, clock, begun, overlaps, crashes>>

TouchThread(b) ==
    LET s == beat[b]
    IN  /\ s.pc = "touch"
        /\ \/ /\ threads' = [threads EXCEPT ![s.thread].last = s.id.seq]
              /\ GoTo(b, [s EXCEPT !.pc = "reread"])
           \/ UNCHANGED threads /\ FailTo(b, Unadvanced(s))
        /\ UNCHANGED <<traces, steps, closures, events, disk, clock, begun, overlaps, crashes>>

RereadThread(b) ==
    LET s == beat[b]
    IN  /\ s.pc = "reread"
        /\ \/ GoTo(b, [s EXCEPT !.pc = "append", !.row = threads[s.thread]])
           \/ FailTo(b, Unadvanced(s))
        /\ UNCHANGED <<tables, disk, clock, begun, overlaps, crashes>>

CreateThread(b) ==
    LET s == beat[b]
        row == [topic |-> s.topic, status |-> "active", count |-> 0, last |-> s.id.seq]
    IN  /\ s.pc = "create"
        /\ \/ /\ threads' = Append(threads, row)
              /\ GoTo(b, [s EXCEPT !.pc = "append", !.thread = Len(threads) + 1, !.row = row])
           \/ UNCHANGED threads /\ FailTo(b, Unadvanced(s))
        /\ UNCHANGED <<traces, steps, closures, events, disk, clock, begun, overlaps, crashes>>

AppendStep(b) ==
    LET s == beat[b]
    IN  /\ s.pc = "append"
        /\ \/ /\ steps' = steps \cup {[thread |-> s.thread, cycle |-> s.id]}
              /\ GoTo(b, [s EXCEPT !.pc = "progress"])
           \/ UNCHANGED steps /\ FailTo(b, Unadvanced(s))
        /\ UNCHANGED <<traces, threads, closures, events, disk, clock, begun, overlaps, crashes>>

NextStatus(s) ==
    IF s.kind = "complete" THEN "completed"
    ELSE IF s.kind = "pause" THEN "paused" ELSE s.row.status

MutProgressed(s) ==
    [threads EXCEPT ![s.thread].status = NextStatus(s), ![s.thread].last = s.id.seq]

\* Status and count are written from the row as it was read before the step.
Progressed(s) ==
    [threads EXCEPT ![s.thread].status = NextStatus(s), ![s.thread].last = s.id.seq,
                    ![s.thread].count = s.row.count + 1]

ProgressThread(b) ==
    LET s == beat[b]
    IN  /\ s.pc = "progress"
        /\ \/ threads' = Progressed(s) /\ GoTo(b, Advanced(s, s.thread))
           \/ threads' \in {threads, Progressed(s)} /\ FailTo(b, Unadvanced(s))
        /\ UNCHANGED <<traces, steps, closures, events, disk, clock, begun, overlaps, crashes>>

-----------------------------------------------------------------------------
\* The resolver has no intent, or the action port does not dispatch it, or it
\* does, with an action kind of its own.  An intent may come without sources.
\* Either port may throw, which rejects the call.
ResolveIntent(b) ==
    LET s == beat[b]
    IN  /\ s.pc = "intent"
        /\ \/ GoTo(b, Closing(s, "no_action", TRUE))
           \/ \E outcome \in {"undispatched", "policy"}, sourced \in BOOLEAN :
                 GoTo(b, Closing(s, outcome, sourced))
           \/ FailTo(b, Idle)
        /\ UNCHANGED <<tables, disk, clock, begun, overlaps, crashes>>

\* The closing event comes next, except after the safety net and for an intent
\* that was not taken.
Recorded(s, isClosed) ==
    IF s.outcome \in {"fallback", "undispatched"}
    THEN [s EXCEPT !.pc = "flush", !.thread = 0]
    ELSE [s EXCEPT !.pc = "event", !.thread = 0, !.closed = isClosed]

\* A closure without sources is refused; otherwise the recorder first looks
\* for any closure of the cycle.
LookupClosure(b) ==
    LET s == beat[b]
        found == \E r \in closures : r.cycle = s.id
    IN  /\ s.pc = "lookup"
        /\ \/ GoTo(b, IF ~s.sourced THEN Recorded(s, FALSE)
                      ELSE IF found THEN Recorded(s, TRUE) ELSE [s EXCEPT !.pc = "insert"])
           \/ s.sourced /\ FailTo(b, Recorded(s, FALSE))
        /\ UNCHANGED <<tables, disk, clock, begun, overlaps, crashes>>

\* The row's id is cls_v9_<kind>_<cycle>.
ClosureTaken(r) == \E x \in closures : x.cycle = r.cycle /\ x.kind = r.kind

\* Only the outcome of a policy keeps the action kind.  The safety net does not
\* pass on the thread and the step.
ClosureOf(s) ==
    [cycle |-> s.id, kind |-> IF s.outcome = "policy" THEN "policy" ELSE "no_action",
     thread |-> s.thread]

InsertClosure(b) ==
    LET s == beat[b]
        r == ClosureOf(s)
    IN  /\ s.pc = "insert"
        /\ \/ /\ closures' = IF ClosureTaken(r) THEN closures ELSE closures \cup {r}
              /\ GoTo(b, Recorded(s, ~ClosureTaken(r)))
           \/ UNCHANGED closures /\ FailTo(b, Recorded(s, FALSE))
        /\ UNCHANGED <<traces, threads, steps, events, disk, clock, begun, overlaps, crashes>>

MutClosingStatus(s) == "completed"
MutClosingType(s) == "started"

\* evt_<cycle>_closure; a failed insert is swallowed.
ClosingStatus(s) == IF s.closed THEN "completed" ELSE "failed"

MutAfterClosing(s) == [s EXCEPT !.pc = "flush"]

\* The daily rhythm runs (module DailyRhythm).  Then, on the policy path only,
\* a cycle still without a closure gets a no-action closure.
AfterClosing(s) ==
    IF s.outcome = "policy" /\ ~s.closed THEN Closing(s, "fallback", TRUE)
    ELSE [s EXCEPT !.pc = "flush", !.closed = FALSE]

RecordClosing(b) ==
    LET s == beat[b]
        e == [cycle |-> s.id, status |-> ClosingStatus(s)]
    IN  /\ s.pc = "event"
        /\ \/ /\ events' = IF \E x \in events : x.cycle = s.id THEN events ELSE events \cup {e}
              /\ GoTo(b, AfterClosing(s))
           \/ UNCHANGED events /\ FailTo(b, AfterClosing(s))
        /\ UNCHANGED <<traces, threads, steps, closures, disk, clock, begun, overlaps, crashes>>

\* The caller's command ends and writes the whole database to the file.
Flush(b) ==
    /\ beat[b].pc = "flush"
    /\ \/ disk' = Image /\ GoTo(b, Idle)
       \/ UNCHANGED disk /\ FailTo(b, Idle)
    /\ UNCHANGED <<tables, clock, begun, overlaps, crashes>>

Crash ==
    /\ begun + overlaps + failures + crashes < MaxEvents
    /\ crashes' = crashes + 1
    /\ traces' = disk.traces /\ threads' = disk.threads /\ steps' = disk.steps
    /\ closures' = disk.closures /\ events' = disk.events
    /\ beat' = [b \in Beats |-> Idle]
    /\ UNCHANGED <<disk, clock, begun, overlaps, failures>>

Advance(b) ==
    StopThread(b) \/ TouchThread(b) \/ RereadThread(b) \/ CreateThread(b) \/ AppendStep(b)
    \/ ProgressThread(b)

Step(b) ==
    \/ StartCycleTrace(b) \/ AssembleAndAttend(b)
    \/ Advance(b) \/ ResolveIntent(b) \/ LookupClosure(b) \/ InsertClosure(b)
    \/ RecordClosing(b) \/ Flush(b)

Next == (\E b \in Beats : Begin(b) \/ Step(b)) \/ Crash

Spec == Init /\ [][Next]_vars

-----------------------------------------------------------------------------
StepsOf(i) == {x \in steps : x.thread = i}

\* No cycle has two closures ("exactly-one closure"): the insert does not
\* check what the lookup before it saw, no constraint on the cycle id backs
\* it, and so it rests on every traced cycle having its own id.
AtMostOneClosure == \A x, y \in closures : x.cycle = y.cycle => x = y

\* A heartbeat that comes to its end with a trace has closed its cycle unless
\* one of its own calls failed, or its intent had no sources and the action
\* port did not dispatch it, the one path without a safety net.
ClosedUnlessFailed ==
    \A b \in Beats :
        LET s == beat[b]
        IN  s.pc = "flush" /\ s.outcome # "none" /\ ~s.failed =>
                \/ \E r \in closures : r.cycle = s.id
                \/ s.outcome = "undispatched" /\ ~s.sourced

\* A closure names a thread only if that same cycle added a step to it, in
\* the file a restart would read as well as in memory.
ClosureNamesOwnStep ==
    \A image \in {Image, disk} : \A r \in image.closures :
        r.thread # 0 => \E x \in image.steps : x.cycle = r.cycle /\ x.thread = r.thread

\* The closing event says "completed" only of a cycle that has a closure.
EventTellsTruth ==
    \A e \in events : e.status = "completed" => \E r \in closures : r.cycle = e.cycle

\* What reconcileCycleClosure looks for, a closure without its event or an
\* event without a closure: a heartbeat leaves neither unless one of its calls
\* failed, or it took the path that records no event.
OrphansOnlyByFailure ==
    \A b \in Beats :
        LET s == beat[b]
        IN  s.pc = "flush" /\ ~s.failed /\ s.outcome \notin {"none", "undispatched"} =>
                ((\E r \in closures : r.cycle = s.id) <=> \E e \in events : e.cycle = s.id)

\* One heartbeat adds at most one step, to one thread ("Advances at most one
\* bounded ActivityStep per heartbeat").
OneStepPerCycle == \A x, y \in steps : x.cycle = y.cycle => x = y

\* The step count is a read-modify-write over several awaited calls: it never
\* runs ahead of the steps, and falls behind by no more than one for each
\* failure, crash, and heartbeat that began inside another.
CountLags ==
    \A i \in DOMAIN threads :
        LET n == Cardinality(StepsOf(i))
            writing == {b \in Beats : beat[b].pc = "progress" /\ beat[b].thread = i}
        IN  /\ threads[i].count <= n
            /\ n <= threads[i].count + failures + overlaps + crashes + Cardinality(writing)

\* "Runaway prevention": a thread takes MaxSteps steps, and beyond that one for
\* each failure, crash, and heartbeat that began inside another.
StepsBounded ==
    \A i \in DOMAIN threads :
        Cardinality(StepsOf(i)) <= MaxSteps + failures + overlaps + crashes

\* "Terminal lifecycle states are already stopped; do not mutate them": true
\* as long as no heartbeat has begun inside another.
TerminalStays ==
    [][\A i \in DOMAIN threads \cap DOMAIN threads' :
          threads[i].status \in {"completed", "blocked"} /\ overlaps = 0 /\ crashes' = 0
            => threads'[i].status = threads[i].status]_vars

\* The heartbeat keeps the promises of CycleLedger.
Ledger == INSTANCE CycleLedger WITH
    begun <- traces,
    kept <- [begun |-> disk.traces, closures |-> disk.closures]

LedgerRefined == Ledger!LedgerSpec
\* What is recorded of a cycle agrees with what was done in it: a heartbeat
\* closes its cycle, the closure names a step of that cycle, and the closing
\* event tells what became of it.
RecordsAgree ==
    AtMostOneClosure /\ ClosedUnlessFailed /\ ClosureNamesOwnStep /\ EventTellsTruth /\ OrphansOnlyByFailure

\* A thread does not run away, although its count is written from what was
\* read several calls before: one step for each heartbeat, and no more steps
\* than the limit and the overlaps, failures and crashes explain.
ThreadBounded == OneStepPerCycle /\ CountLags /\ StepsBounded
=============================================================================
