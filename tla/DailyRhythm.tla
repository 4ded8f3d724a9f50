----------------------------- MODULE DailyRhythm -----------------------------
(***************************************************************************)
(* The Quiet -> Dream -> long-term-memory chain that every heartbeat       *)
(* command runs after its cycle (checkDailyRhythm and what it calls).      *)
(*                                                                         *)
(* A "check" is one call of checkDailyRhythm.  Checks overlap: the plugin  *)
(* keeps one runtime, with one in-memory sql.js database, for every        *)
(* command of a process, and every database call is awaited.  A step below *)
(* is what runs between two awaits that another check can tell apart.      *)
(* The database reaches the disk only when a command flushes; a crash      *)
(* brings back the last flushed image.                                     *)
(***************************************************************************)
EXTENDS Integers, Sequences, FiniteSets

CONSTANTS
    Checks,           \* the commands that may be inside checkDailyRhythm at once
    LastDay,          \* bound: the days are 1..LastDay
    DreamInterval,    \* DREAM_DEFAULT_INTERVAL_DAYS
    Contents,         \* what a day's review may hold
    UpgradedDb,       \* may the file come from before Dream ran at once?
    MidnightOverlap,  \* may a check still run when the day changes?
    MaxFailures,      \* bound: database calls that fail
    MaxCrashes        \* bound: process crashes

ASSUME RhythmAssumption ==
    /\ LastDay \in Nat /\ LastDay > 0
    /\ DreamInterval \in Nat
    /\ Contents \subseteq {"placeholder", "sensitive", "partial", "full"}
    /\ UpgradedDb \in BOOLEAN /\ MidnightOverlap \in BOOLEAN
    /\ MaxFailures \in Nat /\ MaxCrashes \in Nat

VARIABLES
    today,     \* the day of `now`
    closures,  \* days with an action_closure_record
    review,    \* quiet_daily_review: day -> its content, or "none"
    runs,      \* dream_consolidation_run, in the order of creation
    row,       \* daily_rhythm_state: day -> its two statuses
    proj,      \* long_term_memory_projection: topic (the day) -> rows
    disk,      \* the last flushed image of the five tables above
    check,     \* the local state of each call
    failures, crashes

tables == <<closures, review, runs, row, proj>>
vars == <<today, closures, review, runs, row, proj, disk, check, failures, crashes>>

Days == 1..LastDay
RhythmStatus == {"due", "completed", "scheduled", "skipped", "blocked", "not_due"}
NoRow == [quiet |-> "none", dream |-> "none"]
Terminal == {"completed", "blocked"}

\* The candidates generateCandidatesFromReview yields and redactSensitive
\* leaves valid, in the order the scheduler accepts them.
ValidCandidates(content) ==
    CASE content = "full"    -> <<"summary", "signals">>
      [] content = "partial" -> <<"summary">>
      [] OTHER               -> <<>>

\* The status runDreamConsolidation returns: a placeholder review is refused
\* and a run whose candidates are all redacted is blocked.
RunOutcome(content) ==
    IF ValidCandidates(content) = <<>> THEN "blocked" ELSE "completed"

Idle == [pc |-> "idle", day |-> 1, quiet |-> "not_due", dream |-> "not_due",
         run |-> 0, todo |-> <<>>, active |-> 0]

PCs == {"idle", "quiet", "interval", "schedule", "settle", "stale", "repair",
        "accept", "supersede", "project", "delete", "insert", "flush"}

Tables ==
    [closures : SUBSET Days,
     review   : [Days -> Contents \cup {"none"}],
     runs     : Seq([day : Days, status : {"scheduled", "completed", "blocked"}]),
     row      : [Days -> [quiet : RhythmStatus, dream : RhythmStatus] \cup {NoRow}],
     proj     : [Days -> Seq([cand : {"summary", "signals"}, status : {"active", "superseded"}])]]

CheckStates ==
    [pc : PCs, day : Days, quiet : RhythmStatus, dream : RhythmStatus,
     run : Nat, todo : Seq({"summary", "signals"}), active : Nat]

Image == [closures |-> closures, review |-> review, runs |-> runs,
          row |-> row, proj |-> proj]

TypeOK ==
    /\ today \in Days
    /\ Image \in Tables
    /\ disk \in Tables
    /\ check \in [Checks -> CheckStates]
    /\ failures \in Nat
    /\ crashes \in Nat

-----------------------------------------------------------------------------
\* A database of an earlier release may hold a day whose Dream was scheduled
\* and never executed.
Init ==
    /\ today = 1
    /\ \/ /\ closures = {}
          /\ review = [d \in Days |-> "none"]
          /\ runs = <<>>
          /\ row = [d \in Days |-> NoRow]
       \/ /\ UpgradedDb
          /\ closures = {1}
          /\ \E k \in Contents : review = [d \in Days |-> IF d = 1 THEN k ELSE "none"]
          /\ runs = <<[day |-> 1, status |-> "scheduled"]>>
          /\ row = [d \in Days |-> IF d = 1 THEN [quiet |-> "completed", dream |-> "scheduled"]
                                            ELSE NoRow]
    /\ proj = [d \in Days |-> <<>>]
    /\ disk = Image
    /\ check = [c \in Checks |-> Idle]
    /\ failures = 0 /\ crashes = 0

\* What the scheduler does next once the Quiet status is known.
AfterQuiet(s) ==
    [s EXCEPT
        !.pc = CASE s.quiet = "completed" /\ s.dream = "scheduled" -> "stale"
                 [] s.quiet = "completed" /\ s.dream \notin Terminal \cup {"scheduled"} -> "interval"
                 [] OTHER -> "delete",
        !.dream = CASE s.quiet = "not_due"                 -> "not_due"
                    [] s.quiet \in {"blocked", "skipped"}  -> "blocked"
                    [] OTHER                               -> s.dream]

Become(c, s) == check' = [check EXCEPT ![c] = s]
Fail == failures < MaxFailures /\ failures' = failures + 1

\* A day without a row starts as not due.
MutRowOrDefault(d) == row[d]
RowOrDefault(d) ==
    IF row[d] = NoRow THEN [quiet |-> "not_due", dream |-> "not_due"] ELSE row[d]

\* "Already handled; don't re-run".
MutHandledOnce(quiet) == quiet \in Terminal \cup {"not_due"}
MutHandledBlocked(quiet) == quiet = "blocked"
Handled(quiet) == quiet \in Terminal

\* Reads the day's row and closures.  (Closures only grow, so reading both at
\* once loses no behaviour.)
Begin(c) ==
    LET r  == RowOrDefault(today)
        s0 == [Idle EXCEPT !.day = today, !.quiet = r.quiet, !.dream = r.dream]
    IN  /\ check[c].pc = "idle"
        /\ \/ /\ Handled(r.quiet)
              /\ Become(c, AfterQuiet(s0))
           \/ /\ ~Handled(r.quiet) /\ today \notin closures
              /\ Become(c, AfterQuiet([s0 EXCEPT !.quiet = "not_due"]))
           \/ /\ ~Handled(r.quiet) /\ today \in closures
              /\ Become(c, [s0 EXCEPT !.quiet = "due", !.pc = "quiet"])
        /\ UNCHANGED <<today, tables, disk, failures, crashes>>

\* The primary key of quiet_daily_review is quiet_<day>.
MutReviewConflict(d) == FALSE
ReviewConflict(d) == review[d] # "none"

\* buildQuietDailyReview: a second insert of the day meets the primary key, and
\* any failed read or write degrades the same way.
BuildQuiet(c) ==
    LET s == check[c] IN
    /\ s.pc = "quiet"
    /\ \/ /\ ~ReviewConflict(s.day)
          /\ \E k \in Contents : review' = [review EXCEPT ![s.day] = k]
          /\ Become(c, AfterQuiet([s EXCEPT !.quiet = "completed"]))
          /\ UNCHANGED failures
       \/ /\ ReviewConflict(s.day)
          /\ Become(c, AfterQuiet([s EXCEPT !.quiet = "blocked"]))
          /\ UNCHANGED <<review, failures>>
       \/ /\ Fail
          /\ Become(c, AfterQuiet([s EXCEPT !.quiet = "blocked"]))
          /\ UNCHANGED review
    /\ UNCHANGED <<today, closures, runs, row, proj, disk, crashes>>

\* isWithinDays compares instants: at exactly DreamInterval calendar days it
\* depends on the hour.
MaybeWithin(r, d) == d - r.day <= DreamInterval
MaybeOutside(r, d) == d - r.day >= DreamInterval

MutLatestCompleted(rs) ==
    {i \in DOMAIN rs : /\ rs[i].status = "completed"
                       /\ \A j \in DOMAIN rs : rs[j].status = "completed" => rs[j].day <= rs[i].day}
LatestTerminal(rs) ==
    {i \in DOMAIN rs : /\ rs[i].status \in Terminal
                       /\ \A j \in DOMAIN rs : rs[j].status \in Terminal => rs[j].day <= rs[i].day}

\* The global interval: the latest completed or blocked run of any day.
CheckInterval(c) ==
    LET s == check[c] IN
    /\ s.pc = "interval"
    /\ \/ /\ LatestTerminal(runs) = {}
          /\ Become(c, [s EXCEPT !.pc = "schedule", !.dream = "due"])
       \/ \E i \in LatestTerminal(runs) :
             \/ /\ MaybeWithin(runs[i], s.day)
                /\ Become(c, [s EXCEPT !.pc = "delete", !.dream = runs[i].status])
             \/ /\ MaybeOutside(runs[i], s.day)
                /\ Become(c, [s EXCEPT !.pc = "schedule", !.dream = "due"])
    /\ UNCHANGED <<today, tables, disk, failures, crashes>>

\* The release before T-DQ.R.7: the scheduled run is left for later.
MutScheduleOnly(c) ==
    LET s == check[c] IN
    /\ s.pc = "schedule"
    /\ runs' = Append(runs, [day |-> s.day, status |-> "scheduled"])
    /\ Become(c, [s EXCEPT !.pc = "delete", !.dream = "scheduled", !.run = Len(runs) + 1])
    /\ UNCHANGED <<today, closures, review, row, proj, disk, failures, crashes>>

\* scheduleDreamAfterQuiet: a failed read or insert is persisted as "blocked".
Schedule(c) ==
    LET s == check[c] IN
    /\ s.pc = "schedule"
    /\ \/ /\ review[s.day] # "none"
          /\ runs' = Append(runs, [day |-> s.day, status |-> "scheduled"])
          /\ Become(c, [s EXCEPT !.pc = "settle", !.dream = "scheduled", !.run = Len(runs) + 1])
          /\ UNCHANGED failures
       \/ /\ Fail
          /\ Become(c, [s EXCEPT !.pc = "delete", !.dream = "blocked"])
          /\ UNCHANGED runs
    /\ UNCHANGED <<today, closures, review, row, proj, disk, crashes>>

\* The run's new status and the candidates left to accept.
SettleRun(c, dreamStatus) ==
    LET s == check[c]
        content == review[s.day]
        outcome == RunOutcome(content)
    IN  /\ runs' = [runs EXCEPT ![s.run].status = outcome]
        /\ Become(c, [s EXCEPT !.dream = dreamStatus,
                               !.pc = IF outcome = "completed" THEN "accept" ELSE "delete",
                               !.todo = ValidCandidates(content)])
        /\ UNCHANGED <<today, closures, review, row, proj, disk, failures, crashes>>

MutSettleCompleted(c) == check[c].pc = "settle" /\ SettleRun(c, "completed")

\* runDreamConsolidation and updateDreamConsolidationRunStatus for the run
\* this check has just scheduled.
Settle(c) == check[c].pc = "settle" /\ SettleRun(c, RunOutcome(review[check[c].day]))

\* executeStaleScheduledDreams reads the day's run (OneRunPerDay: there is at
\* most one) and, when it is older than the threshold, executes it.
ReadStale(c) ==
    LET s == check[c] IN
    /\ s.pc = "stale"
    /\ \/ \E i \in DOMAIN runs :
             /\ runs[i].day = s.day
             /\ \/ /\ runs[i].status = "scheduled"
                   /\ Become(c, [s EXCEPT !.pc = "repair", !.run = i])
                \/ /\ runs[i].status = "completed"
                   /\ Become(c, [s EXCEPT !.pc = "delete", !.dream = "completed"])
       \/ \* no run, one already blocked, or one scheduled within the threshold
          /\ \A i \in DOMAIN runs : runs[i].day = s.day => runs[i].status # "completed"
          /\ Become(c, [s EXCEPT !.pc = "delete"])
    /\ UNCHANGED <<today, tables, disk, failures, crashes>>

\* A repaired run is reported as completed whatever its outcome.
Repair(c) == check[c].pc = "repair" /\ SettleRun(c, "completed")

ActiveRows(d) == {i \in DOMAIN proj[d] : proj[d][i].status = "active"}

\* acceptMemoryProjection, first await: find the topic's active projection.
Accept(c) ==
    LET s == check[c] IN
    /\ s.pc = "accept"
    /\ \/ s.todo = <<>> /\ Become(c, [s EXCEPT !.pc = "delete"])
       \/ /\ s.todo # <<>> /\ ActiveRows(s.day) = {}
          /\ Become(c, [s EXCEPT !.pc = "project"])
       \/ /\ s.todo # <<>>
          /\ \E i \in ActiveRows(s.day) : Become(c, [s EXCEPT !.pc = "supersede", !.active = i])
    /\ UNCHANGED <<today, tables, disk, failures, crashes>>

MutSupersedeSkips(c) ==
    /\ check[c].pc = "supersede"
    /\ Become(c, [check[c] EXCEPT !.pc = "project", !.active = 0])
    /\ UNCHANGED <<today, tables, disk, failures, crashes>>

MutSupersedeReturns(c) ==
    LET s == check[c] IN
    /\ s.pc = "supersede"
    /\ proj' = [proj EXCEPT ![s.day] = [@ EXCEPT ![s.active].status = "superseded"]]
    /\ Become(c, [s EXCEPT !.pc = "accept", !.active = 0, !.todo = Tail(@)])
    /\ UNCHANGED <<today, closures, review, runs, row, disk, failures, crashes>>

\* Second await: the projection found is superseded.
Supersede(c) ==
    LET s == check[c] IN
    /\ s.pc = "supersede"
    /\ proj' = [proj EXCEPT ![s.day] = [@ EXCEPT ![s.active].status = "superseded"]]
    /\ Become(c, [s EXCEPT !.pc = "project", !.active = 0])
    /\ UNCHANGED <<today, closures, review, runs, row, disk, failures, crashes>>

\* Third await: the new active projection is inserted.
Project(c) ==
    LET s == check[c] IN
    /\ s.pc = "project"
    /\ proj' = [proj EXCEPT ![s.day] = Append(@, [cand |-> Head(s.todo), status |-> "active"])]
    /\ Become(c, [s EXCEPT !.pc = "accept", !.todo = Tail(@)])
    /\ UNCHANGED <<today, closures, review, runs, row, disk, failures, crashes>>

\* writeDailyRhythmState is a DELETE and an INSERT, each awaited.
DeleteRow(c) ==
    LET s == check[c] IN
    /\ s.pc = "delete"
    /\ row' = [row EXCEPT ![s.day] = NoRow]
    /\ Become(c, [s EXCEPT !.pc = "insert"])
    /\ UNCHANGED <<today, closures, review, runs, proj, disk, failures, crashes>>

InsertRow(c) ==
    LET s == check[c] IN
    /\ s.pc = "insert"
    /\ row' = [row EXCEPT ![s.day] =
                 IF @ = NoRow THEN [quiet |-> s.quiet, dream |-> s.dream] ELSE @]
    /\ Become(c, [Idle EXCEPT !.pc = "flush"])
    /\ UNCHANGED <<today, closures, review, runs, proj, disk, failures, crashes>>

\* A failed database call makes the check return at once: the row of the day
\* is not persisted.
ReturnDegraded(c) ==
    /\ check[c].pc \in {"interval", "settle", "stale", "repair", "accept", "supersede",
                        "project", "delete", "insert"}
    /\ Fail
    /\ Become(c, [Idle EXCEPT !.pc = "flush"])
    /\ UNCHANGED <<today, tables, disk, crashes>>

\* The command returns: the database is exported to the file (a failure of the
\* export is swallowed).
Flush(c) ==
    /\ check[c].pc = "flush"
    /\ Become(c, Idle)
    /\ \/ disk' = Image /\ UNCHANGED failures
       \/ Fail /\ UNCHANGED disk
    /\ UNCHANGED <<today, tables, crashes>>

Step(c) ==
    \/ Begin(c) \/ BuildQuiet(c) \/ CheckInterval(c) \/ Schedule(c) \/ Settle(c)
    \/ ReadStale(c) \/ Repair(c) \/ Accept(c) \/ Supersede(c) \/ Project(c)
    \/ DeleteRow(c) \/ InsertRow(c) \/ ReturnDegraded(c) \/ Flush(c)

\* A heartbeat cycle of this process writes the closure of the day.
RecordClosure ==
    /\ today \notin closures
    /\ closures' = closures \cup {today}
    /\ UNCHANGED <<today, review, runs, row, proj, disk, check, failures, crashes>>

Tick ==
    /\ today < LastDay
    /\ MidnightOverlap \/ \A c \in Checks : check[c].pc \in {"idle", "flush"}
    /\ today' = today + 1
    /\ UNCHANGED <<tables, disk, check, failures, crashes>>

Crash ==
    /\ crashes < MaxCrashes
    /\ crashes' = crashes + 1
    /\ closures' = disk.closures /\ review' = disk.review /\ runs' = disk.runs
    /\ row' = disk.row /\ proj' = disk.proj
    /\ check' = [c \in Checks |-> Idle]
    /\ UNCHANGED <<today, disk, failures>>

Next == (\E c \in Checks : Step(c)) \/ RecordClosure \/ Tick \/ Crash

Spec == Init /\ [][Next]_vars

\* The event loop resumes every pending call, and the host keeps sending
\* heartbeats, so a check is always begun again.
FairSpec == Spec /\ \A c \in Checks : WF_vars(Step(c))

-----------------------------------------------------------------------------
\* A day is dreamt about at most once, however its checks overlap, fail or
\* crash: only the call that inserted the day's review may schedule a run.
\* (daily-rhythm-scheduler.ts, quiet-daily-review-builder.ts)
OneRunPerDay ==
    \A i, j \in DOMAIN runs : runs[i].day = runs[j].day => i = j

\* Two runs that ended are at least the Dream interval apart, across all
\* Quiet reviews (the global interval check), when no call runs across midnight:
\* checked with MidnightOverlap = FALSE.
DreamsApart ==
    \A i, j \in DOMAIN runs :
        /\ i # j
        /\ {runs[i].status, runs[j].status} \subseteq Terminal
        => runs[i].day - runs[j].day >= DreamInterval \/ runs[j].day - runs[i].day >= DreamInterval

\* A topic has at most one active projection: acceptance is not one
\* transaction, and is safe only because a single call accepts for a topic.
\* (memory-projection-lifecycle.ts)
OneActiveProjection ==
    \A d \in Days : \A i, j \in ActiveRows(d) : i = j

\* What the day's row reports has happened: a completed Quiet has a review, and
\* a completed Dream has a completed run not older than the interval; checked
\* with MidnightOverlap = FALSE, no call running across midnight.
BackedRow ==
    \A d \in Days :
        /\ row[d].quiet = "completed" => review[d] # "none"
        /\ row[d].dream = "completed" =>
              \E i \in DOMAIN runs : /\ runs[i].status = "completed"
                                    /\ d - runs[i].day \in 0..DreamInterval

\* The row of a day is never persisted with a scheduled Dream, which is the
\* only state from which executeStaleScheduledDreams is reached.
ScheduledNotPersisted == \A d \in Days : row[d].dream # "scheduled"

\* Without a failed database call no day's Quiet is reported as blocked.
BlockedOnlyByFailure ==
    failures = 0 => \A d \in Days : row[d].quiet # "blocked"

\* A topic that was remembered is not forgotten: once no call is accepting for
\* it, one of its projections is active.
TopicNotForgotten ==
    \A d \in Days :
        (proj[d] # <<>> /\ \A c \in Checks : check[c].day = d => check[c].pc # "project")
            => ActiveRows(d) # {}

\* One check at a time, with a crash at any step: Quiet is reported blocked only
\* after a failed call, and no topic that was remembered loses its projection.
Undisturbed == BlockedOnlyByFailure /\ TopicNotForgotten

\* Started on a database without a leftover, no run stays scheduled (T-DQ.R.7).
\* A leftover is repaired only by a check of its own day, so it may stay.
RunsSettle ==
    ScheduledNotPersisted =>
        \A i \in 1..LastDay :
            (i \in DOMAIN runs /\ runs[i].status = "scheduled")
                ~> (i \notin DOMAIN runs \/ runs[i].status \in Terminal)

\* A day with a closure gets its Quiet review, or ends (or loses the closure in
\* a crash before it was flushed).
EveryDayReviewed ==
    \A d \in Days :
        (d \in closures /\ today = d)
            ~> (review[d] # "none" \/ today > d \/ d \notin closures)
=============================================================================
