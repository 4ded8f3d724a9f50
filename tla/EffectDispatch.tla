--------------------------- MODULE EffectDispatch ---------------------------
(***************************************************************************)
(* The effect dispatcher of the older control plane: an allowed intent     *)
(* takes a lease, saves a checkpoint, writes a commit record, sends its    *)
(* effect, and records the outcome; a resume reads checkpoint and record   *)
(* to decide whether the intent must run again.  Every "await" lets        *)
(* another dispatch in.                                                    *)
(***************************************************************************)
EXTENDS Naturals, FiniteSets, SequencesExt

CONSTANTS
    Workers,        \* the callers that may be inside dispatchEffect at once
    Intents,        \* allowed intents
    Connector,      \* those sent to the platform through the connector executor
    Outreach,       \* those of class user_outreach
    Platform,       \* the lease scope of the one platform
    LeaseTime,      \* ticks a lease lasts
    MaxDispatches,  \* bound: leases asked for
    MaxTroubles     \* bound: calls that throw, and crashes

ASSUME DispatchAssumption ==
    /\ Connector \subseteq Intents /\ Outreach \subseteq Intents \ Connector
    /\ Platform \notin Intents
    /\ LeaseTime \in Nat \ {0} /\ MaxDispatches \in Nat /\ MaxTroubles \in Nat

VARIABLES
    jobs,       \* what each worker is doing
    leases,     \* the lease manager's map: who took a scope last, and the time left
    rows,       \* the intent commit records, in insertion order
    saved,      \* the intents with a checkpoint
    disk,       \* rows and checkpoints in the file on disk
    applied,    \* what the platform has carried out: records of intent and decision
    succeeded,  \* the decisions the connector answered "success" to
    decisions,  \* how many dispatches have been decided
    troubles    \* how many calls have failed, crashes included

dispatchVars == <<jobs, leases, rows, saved, disk, applied, succeeded, decisions, troubles>>

Idle == [at |-> "idle", intent |-> Platform, decision |-> 0, left |-> 0]
NoLease == [id |-> 0, left |-> 0]

Scopes == {Platform} \cup Outreach
Scope(i) == IF i \in Connector THEN Platform ELSE i
NeedsLease(i) == i \in Connector \cup Outreach

MutValidTransition(from, to) ==
    <<from, to>> \in {<<"planned", "dispatched">>, <<"planned", "aborted">>,
                      <<"dispatched", "aborted">>, <<"externally_acknowledged", "committed">>}

\* VALID_TRANSITIONS of the commit store.
ValidTransition(from, to) ==
    <<from, to>> \in {<<"planned", "dispatched">>, <<"planned", "aborted">>,
                      <<"dispatched", "externally_acknowledged">>, <<"dispatched", "aborted">>,
                      <<"externally_acknowledged", "committed">>,
                      <<"externally_acknowledged", "reconcile">>,
                      <<"externally_acknowledged", "aborted">>,
                      <<"reconcile", "planned">>, <<"reconcile", "aborted">>}

CommitStates == {"planned", "dispatched", "externally_acknowledged", "committed", "reconcile", "aborted"}

\* The record of a dispatch (its decision is its key), and the one a resume
\* finds: findFirst without an order returns the oldest record of the intent.
FirstRow(i) == SelectInSeq(rows, LAMBDA r : r.intent = i)
MutRowOf(d) == FirstRow(rows[CHOOSE k \in DOMAIN rows : rows[k].decision = d].intent)
RowOf(d) == CHOOSE k \in DOMAIN rows : rows[k].decision = d

DispatchInit ==
    /\ jobs = [w \in Workers |-> Idle]
    /\ leases = [s \in Scopes |-> NoLease]
    /\ rows = <<>> /\ saved = {} /\ disk = [rows |-> <<>>, saved |-> {}]
    /\ applied = {} /\ succeeded = {} /\ decisions = 0 /\ troubles = 0

MovesTo(w, at) == jobs' = [jobs EXCEPT ![w].at = at]

Holds(lease, d) == lease.id = d

\* The "finally" of dispatchEffect: the lease is given back only if the map
\* still holds this dispatch's own record.
MutKeptLease(d) == leases
MutReleased(d) == [s \in Scopes |-> IF \E w \in Workers :
    jobs[w].decision = d /\ NeedsLease(jobs[w].intent) /\ Scope(jobs[w].intent) = s
    THEN NoLease ELSE leases[s]]
Released(d) == [s \in Scopes |-> IF Holds(leases[s], d) THEN NoLease ELSE leases[s]]

Ends(w) == jobs' = [jobs EXCEPT ![w] = Idle] /\ leases' = Released(jobs[w].decision)

-----------------------------------------------------------------------------

Available(s) == leases[s].left = 0

\* acquire, synchronous from the lookup to the set; refused, the dispatch is
\* deferred and nothing else happens.
Acquire(w, i) ==
    /\ decisions < MaxDispatches /\ decisions' = decisions + 1
    /\ IF NeedsLease(i) /\ ~Available(Scope(i))
       THEN jobs' = [jobs EXCEPT ![w] = Idle] /\ UNCHANGED leases
       ELSE /\ jobs' = [jobs EXCEPT ![w] =
                   [at |-> "saving", intent |-> i, decision |-> decisions + 1,
                    left |-> IF NeedsLease(i) THEN LeaseTime ELSE 0]]
            /\ leases' = IF NeedsLease(i)
                         THEN [leases EXCEPT ![Scope(i)] = [id |-> decisions + 1, left |-> LeaseTime]]
                         ELSE leases
    /\ UNCHANGED <<rows, saved, disk, applied, succeeded, troubles>>

\* executeHeartbeatCycle under an "allow" verdict.
Dispatch(w) == jobs[w].at = "idle" /\ \E i \in Intents : Acquire(w, i)

\* A committed or an acknowledged record ends the resume; any other state, or
\* no record, means "ready to resume".
MayResume(i) ==
    FirstRow(i) # 0 => rows[FirstRow(i)].state \notin {"committed", "externally_acknowledged"}

\* resumeFromCheckpoint reads the checkpoint and the record; the dispatch that
\* follows is a later call.
Resume(w) ==
    /\ jobs[w].at = "idle"
    /\ \E i \in saved : MayResume(i) /\ jobs' = [jobs EXCEPT ![w].at = "resumed", ![w].intent = i]
    /\ UNCHANGED <<leases, rows, saved, disk, applied, succeeded, decisions, troubles>>

DispatchResumed(w) == jobs[w].at = "resumed" /\ Acquire(w, jobs[w].intent)

\* Every class but maintenance saves a checkpoint; here no intent is maintenance.
SaveCheckpoint(w) ==
    /\ jobs[w].at = "saving" /\ MovesTo(w, "creating")
    /\ saved' = saved \cup {jobs[w].intent}
    /\ UNCHANGED <<leases, rows, disk, applied, succeeded, decisions, troubles>>

CreateCommit(w) ==
    /\ jobs[w].at = "creating" /\ MovesTo(w, "marking")
    /\ rows' = Append(rows, [intent |-> jobs[w].intent, decision |-> jobs[w].decision,
                             state |-> "planned"])
    /\ UNCHANGED <<leases, saved, disk, applied, succeeded, decisions, troubles>>

SetState(d, s) == rows' = [rows EXCEPT ![RowOf(d)].state = s]

\* advanceIntentCommitState: a transition the table lacks throws, and so does
\* a record that a crash or a later image has taken away.
Advance(w, s, next) ==
    LET d == jobs[w].decision IN
    IF ValidTransition(rows[RowOf(d)].state, s)
    THEN SetState(d, s) /\ MovesTo(w, next)
    ELSE UNCHANGED rows /\ MovesTo(w, "aborting")

MarkDispatched(w) ==
    /\ jobs[w].at = "marking"
    /\ Advance(w, "dispatched", IF jobs[w].intent \in Connector THEN "sending" ELSE "committing")
    /\ UNCHANGED <<leases, saved, disk, applied, succeeded, decisions, troubles>>

\* What is done next for each answer of the connector executor.
MutAfterAnswer(answer) == IF answer = "terminal" THEN "refusing" ELSE "acking"
AfterAnswer(answer) ==
    [success |-> "acking", retryable |-> "reconciling", terminal |-> "refusing", throws |-> "aborting"][answer]

\* A success has been carried out; after a retryable failure (a timeout, say)
\* or a call that throws nobody knows; a terminal failure was refused.
Send(w) ==
    /\ jobs[w].at = "sending"
    /\ \E answer \in {"success", "retryable", "terminal", "throws"}, done \in BOOLEAN :
        /\ (answer = "success") => done
        /\ (answer = "terminal") => ~done
        /\ MovesTo(w, AfterAnswer(answer))
        /\ applied' = IF done THEN applied \cup {[intent |-> jobs[w].intent, decision |-> jobs[w].decision]}
                      ELSE applied
        /\ succeeded' = IF answer = "success" THEN succeeded \cup {jobs[w].decision} ELSE succeeded
    /\ UNCHANGED <<leases, rows, saved, disk, decisions, troubles>>

Acknowledge(w) ==
    /\ jobs[w].at = "acking" /\ Advance(w, "externally_acknowledged", "committing")
    /\ UNCHANGED <<leases, saved, disk, applied, succeeded, decisions, troubles>>

\* commitIntentOutcome sets the state without a look at the old one.
Commit(w) ==
    /\ jobs[w].at = "committing" /\ SetState(jobs[w].decision, "committed") /\ Ends(w)
    /\ UNCHANGED <<saved, disk, applied, succeeded, decisions, troubles>>

\* After a retryable failure the record is to become "reconcile", which the
\* table does not allow for a dispatched record: the call throws, and the
\* "catch" aborts the record.
Reconcile(w) ==
    /\ jobs[w].at = "reconciling" /\ Advance(w, "reconcile", "leaving")
    /\ UNCHANGED <<leases, saved, disk, applied, succeeded, decisions, troubles>>

Leave(w) ==
    IF jobs[w].at = "leaving" THEN Ends(w) /\ UNCHANGED rows
    ELSE jobs[w].at \in {"aborting", "refusing"} /\ SetState(jobs[w].decision, "aborted") /\ Ends(w)
Abort(w) == Leave(w) /\ UNCHANGED <<saved, disk, applied, succeeded, decisions, troubles>>

\* A call of the state store throws.  Before the "try" the lease stays behind;
\* inside it the record is aborted; when the abort throws too, the lease is
\* still released.
CallThrows(w) ==
    /\ troubles < MaxTroubles /\ troubles' = troubles + 1
    /\ \/ /\ jobs[w].at \in {"saving", "creating"} /\ jobs' = [jobs EXCEPT ![w] = Idle]
          /\ UNCHANGED leases
       \/ jobs[w].at \in {"marking", "acking", "committing", "refusing"} /\ MovesTo(w, "aborting") /\ UNCHANGED leases
       \/ jobs[w].at = "aborting" /\ Ends(w)
    /\ UNCHANGED <<rows, saved, disk, applied, succeeded, decisions>>

\* Time passes: a lease ends by itself, and its holder is not told.
MutLapse(x) == [x EXCEPT !.left = @ - 1]
Lapse(x) == IF x.left > 0 THEN [x EXCEPT !.left = @ - 1] ELSE x
Tick ==
    /\ \E s \in Scopes : leases[s].left > 0
    /\ leases' = [s \in Scopes |-> Lapse(leases[s])]
    /\ jobs' = [w \in Workers |-> Lapse(jobs[w])]
    /\ UNCHANGED <<rows, saved, disk, applied, succeeded, decisions, troubles>>

\* A command of the same process writes the whole database out.
FlushRows ==
    /\ disk # [rows |-> rows, saved |-> saved] /\ disk' = [rows |-> rows, saved |-> saved]
    /\ UNCHANGED <<jobs, leases, rows, saved, applied, succeeded, decisions, troubles>>

\* The process dies and starts again from the file; what the platform has
\* done stays done.
CrashDispatch ==
    /\ troubles < MaxTroubles /\ troubles' = troubles + 1
    /\ jobs' = [w \in Workers |-> Idle] /\ leases' = [s \in Scopes |-> NoLease]
    /\ rows' = disk.rows /\ saved' = disk.saved
    /\ UNCHANGED <<disk, applied, succeeded, decisions>>

WorkerStep(w) ==
    \/ Dispatch(w) \/ Resume(w) \/ DispatchResumed(w) \/ SaveCheckpoint(w) \/ CreateCommit(w)
    \/ MarkDispatched(w) \/ Send(w) \/ Acknowledge(w) \/ Commit(w) \/ Reconcile(w) \/ Abort(w)
    \/ CallThrows(w)

DispatchNext == (\E w \in Workers : WorkerStep(w)) \/ Tick \/ FlushRows \/ CrashDispatch

DispatchSpec == DispatchInit /\ [][DispatchNext]_dispatchVars
-----------------------------------------------------------------------------

Steps == {"idle", "resumed", "saving", "creating", "marking", "sending", "acking", "committing",
          "reconciling", "refusing", "aborting", "leaving"}
Row == [intent : Intents, decision : 1..MaxDispatches, state : CommitStates]

\* The types of the variables.
DispatchTypeOK ==
    /\ jobs \in [Workers -> [at : Steps, intent : Intents \cup {Platform},
                             decision : 0..MaxDispatches, left : 0..LeaseTime]]
    /\ leases \in [Scopes -> [id : 0..MaxDispatches, left : 0..LeaseTime]]
    /\ rows \in Seq(Row) /\ saved \subseteq Intents
    /\ disk.rows \in Seq(Row) /\ disk.saved \subseteq Intents
    /\ applied \subseteq [intent : Intents, decision : 1..MaxDispatches]
    /\ succeeded \subseteq 1..MaxDispatches
    /\ decisions \in 0..MaxDispatches /\ troubles \in 0..MaxTroubles

Inside(w) == jobs[w].at \notin {"idle", "resumed"}

\* Of the dispatches inside one scope at most one is still within its lease,
\* although a lease may lapse and be taken over while its first holder works
\* on, and the first holder then releases (lease-manager.ts acquire/release).
OneWithinLease ==
    \A v, w \in Workers :
        (/\ Inside(v) /\ Inside(w) /\ NeedsLease(jobs[v].intent) /\ NeedsLease(jobs[w].intent)
         /\ Scope(jobs[v].intent) = Scope(jobs[w].intent)
         /\ jobs[v].left > 0 /\ jobs[w].left > 0) => v = w

\* A lease that keeps others out is held by a dispatch at work; only a call
\* that throws before the "try" can leave one behind (dispatchEffect).
LeaseHasHolder ==
    \A s \in Scopes : leases[s].left > 0 =>
        \/ \E w \in Workers : Inside(w) /\ jobs[w].decision = leases[s].id
        \/ troubles > 0

\* A record that says the platform acknowledged, or the outcome was committed,
\* is one whose effect the platform did carry out (dispatchEffect).
AcknowledgedWasApplied ==
    \A k \in DOMAIN rows :
        (rows[k].intent \in Connector /\ rows[k].state \in {"externally_acknowledged", "committed"})
        => [intent |-> rows[k].intent, decision |-> rows[k].decision] \in applied

\* An effect the connector answered "success" to is, once its dispatch has
\* ended, recorded as committed, unless a call failed (dispatchEffect).
SuccessCommitted ==
    troubles = 0 => \A d \in succeeded :
        \/ \E w \in Workers : Inside(w) /\ jobs[w].decision = d
        \/ \E k \in DOMAIN rows : rows[k].decision = d /\ rows[k].state = "committed"

\* A committed or aborted record never changes again while the process lives,
\* although commit and abort write it without reading it (effect-commit-store.ts).
FinalStateStays ==
    [][CrashDispatch \/ \A k \in DOMAIN rows :
          rows[k].state \in {"committed", "aborted"} => rows'[k] = rows[k]]_dispatchVars

\* control-plane-system.detail.md: the planned, dispatched, acknowledged,
\* committed protocol keeps a resume from replaying an effect that succeeded
\* outside before it was committed.
NoGhostReplay ==
    \A w \in Workers : jobs[w].at = "resumed" => \A x \in applied : x.intent # jobs[w].intent
\* The commit records tell what the platform did, with dispatches, resumes, a
\* throw and a crash in any order.
RecordsTruthful == AcknowledgedWasApplied /\ SuccessCommitted
=============================================================================
