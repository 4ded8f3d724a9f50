# Second Nature in TLA+

TLA+ models of Second Nature, a background runtime that gives an agent a heartbeat: it perceives
evidence, judges it, acts within a policy, and once a day reviews what it did (Quiet) and
consolidates it into memory (Dream). The models are translated from the TypeScript source; they
are checked with TLC on small instances, and every invariant and action property checked there is
proved with TLAPS for every value of the constants. `PROJECT.json` gives, for every definition, the source lines it
stands for.

1. [The system](#1-the-system)
2. [Inventory](#2-inventory)
3. [Modules](#3-modules)
4. [Runs](#4-runs)
5. [Where the code differs from its documents](#5-where-the-code-differs-from-its-documents)
6. [Proofs](#6-proofs)
7. [What is not modelled](#7-what-is-not-modelled)
8. [Plan](#8-plan)

## 1. The system

One process holds one SQLite database *in memory* (sql.js). The plugin (`plugin/index.ts`,
`workspace-ops-bridge.ts`) opens one bridge and keeps it, so all tool calls of a host process
share this image; a command line process opens the same file for itself. A command is
dispatched, awaited, and followed by `flush()`, which exports the whole image over the file
(`src/cli/commands/index.ts` 288-316, `src/storage/db/index.ts` 817-822). Four consequences
shape every model:

- **Overlap.** Every store call is `await`ed, so two commands of one process interleave at each
  of them. Nothing in the runtime serialises commands: there is no lock around a heartbeat, a
  check of the daily rhythm, a connector call or a goal.
- **No transactions.** A logical update is several store calls (delete and insert; supersede and
  insert; card and status; replace and store). A step in between is visible to others, may be
  the last one before a crash, and may be what gets flushed.
- **Calls fail softly.** A store call that throws is turned into a "degraded" result. Some
  callers return at once, some carry on, some ignore it.
- **Crash = return to the last flush.** What was not flushed is gone, and a flush by *another*
  command may have saved half of an operation.

The path of one heartbeat (`src/cli/ops/heartbeat-surface.ts` 253-300):

    host command -> runHeartbeatCycle -> buildPerceptionCards -> runAgentJudgment
                         |                 -> proposal -> policy -> closure record
                         +-> checkDailyRhythm -> buildQuietDailyReview
                                              -> scheduleDreamAfterQuiet
                                              -> runDreamConsolidation
                                              -> acceptMemoryProjection ...
    -> flush
    connector call -> executeWithPolicy -> cooldown port -> runner -> cooldown port
    v7 heartbeat   -> connector call -> circuit breaker (outcome reported afterwards)

Around it stand the v9 heartbeat with its activity threads, and services that only their own
tables connect to the rest: character frames, tool routines, connector evolution, behaviour
promotions, goals, the effect dispatcher, the write queue. A part of these is called by nothing
but tests so far (the v9 heartbeat, frames' refresh and contest, routines, evolution,
promotions, the effect dispatcher, the write queue). They are modelled as their interfaces can
be called: by overlapping callers, as every store call is awaited.

## 2. Inventory

| Component | State | Operations | Hard part | What makes it correct | Module |
|---|---|---|---|---|---|
| Daily rhythm (`quiet-dream/`) | `daily_rhythm_state`, `quiet_daily_review`, `dream_consolidation_run`, `long_term_memory_projection` | check, build review, schedule, consolidate, repair stale run, accept projection | overlapping checks, several tables in several calls, day changes | a day is dreamt about once, Dreams keep their interval, a topic has one active memory, the day's row tells the truth, every run ends | `DailyRhythm` |
| Heartbeat cycle v8 (`control-plane/heartbeat-orchestrator.ts`, `perception/`, `action/`) | evidence, cards, verdicts, traces, stage events, closures | ingest, number, perceive, judge, propose, close | ten early returns, shared pending list, ids made of the cycle | one closure a cycle, none missing without a failure, an item judged once, nothing perceived is lost | `HeartbeatCycle` |
| Heartbeat v9, activity threads | v9 closures, threads, steps | advance thread, record closure, finalise | check-then-insert, read count then write | one closure a cycle, one step a cycle, at most eight steps a thread | `V9HeartbeatCycle` |
| Policy (`action/*policy*`) | none | build, evaluate, bound dispatch, gate | precedence of the rules in two versions | a write the evaluators or the gate look at only with an allow decision, the owner's consent and no open breaker | `ActionPolicy` |
| Connector policy (`connectors/base/policy-layer.ts`, cooldown port) | `connector_cooldown_state`, effect ledger (in memory) | check cooldown, plan, attempt, retry, mark failure | read-modify-write over three awaits, retries, waits | repeated failures close, a window is justified, kept, and ends | `ConnectorPolicy` |
| Circuit breaker (`body/circuit-breaker/`) | `circuit_breaker_state` | report success or failure, ask, reset with a probe | a probe between load and save | the row is consistent, an open breaker is closed by a probe only, nothing is disabled for ever | `CircuitBreaker` |
| Effect dispatcher, leases, resume (`orchestrator/`) | leases in memory, checkpoints, commit records | acquire, dispatch, release, resume | a lease that ends under its holder, lost answers | one dispatch within its lease, records that say no more than what happened | `EffectDispatch` |
| Character frames | `character_frame` | refresh, accept, contest, mark, load | supersede and accept apart, copies written back | the agent keeps a frame, the owner's decision stands | `CharacterFrames` |
| Connector evolution | `connector_version`, change ledger | gate, activate, canary, roll back, migrate | demotion, activation and ledger apart | one active version, never none, a ledger that tells | `ConnectorEvolution` |
| Tool routines | `tool_routine`, traces, change ledger | install, invoke, retire | two validations, ledger written after the row | steps within their guard, retired for good | `ToolRoutines` |
| Behaviour promotion | `behavior_promotion` | submit, approve, reject, expire | terms | decisions are final, a term is a term | `BehaviorPromotion` |
| Goals (`storage/goal/`) and snapshots (`restore-snapshot-store.ts`) | `agent_goal`, `restore_snapshot` | set, accept, reject, list, capture, restore | replace and store apart, check then act | the owner's goal is the one read, and there is one | `OwnerGoals` |
| State database | file, image, schema version | open, migrate, flush, die | two processes, torn writes, failed migration | a flushed row stays while one process writes; a file behind its version says so | `StateDatabase` |
| Write queue | requests in memory | enqueue, drain, retry | busy database | every request answered once, in order, truthfully | `WriteQueue` |
| Legacy heartbeat loop | - | decide, report | - | - | its reports: `CircuitBreaker` |
| Outreach, guidance | deliveries, fallbacks, proposals | judge, send, fall back | a failed record after a send | a message is sent or shown to the operator | - |
| Dream v7, Quiet v7 | artifacts, a schedule | sample, extract, validate, write | redaction before output | nothing sensitive in an accepted output | - |
| Observability | audit chain, ledgers, stage events | append, verify, aggregate | chain kept in memory | a chain verifies after a restart | - |
| Registry, manifests, probes, platforms | files, probe results | scan, trust, run | network | outside TLC's reach | - |
| Command line, router, read models, host checks, shared types | none of their own | parse, route, render | - | - | - |

The statuses and reasons for each part are in `PROJECT.json` ("components"); the places where
the code is hard to test are there under "hazards", each with the properties that would notice
if it went wrong, or why there is none.

## 3. Modules

Every module keeps to one granularity: a step is what runs between two awaits that another
command can tell apart. Reads that nothing can distinguish from the next step are merged with
it, and the comment on the action says so.

### DailyRhythm

A *check* is one call of `checkDailyRhythm`; its local variables are `check[c]` and its place in
the code is `check[c].pc`.

| Model | Code |
|---|---|
| `Begin` | read the row of the day, the closures, decide on Quiet (220-273) |
| `BuildQuiet` | `buildQuietDailyReview`; the review's id `quiet_<day>` is a primary key, so a second insert fails and the check reports Quiet blocked |
| `CheckInterval` | the latest completed or blocked run of *any* day; `isWithinDays` compares instants, so exactly at the interval both answers are possible |
| `Schedule`, `Settle` | insert the run, execute it at once and store its outcome |
| `ReadStale`, `Repair` | a row that says "scheduled" leads to `executeStaleScheduledDreams` |
| `Accept`, `Supersede`, `Project` | the three calls of `acceptMemoryProjection`, for each valid candidate |
| `DeleteRow`, `InsertRow` | the two statements of `writeDailyRhythmState` |
| `ReturnDegraded` | any of these calls fails: the check returns, the row is not written |
| `Flush`, `Crash`, `Tick`, `RecordClosure` | end of the command, loss of the process, next day, a heartbeat's closure |

What a review contains is one of four kinds, because that is all the run's outcome depends on: a
placeholder is refused, a sensitive one is redacted away, the others give one or two valid
candidates. `UpgradedDb` adds the initial states an earlier release left behind, where a Dream
was scheduled and not executed.

### HeartbeatCycle

A *beat* is one call of `runHeartbeatCycle`. `Ingest` is a connector storing evidence;
`NextSequence` and `WriteTrace` number the cycle; `ReadPending`, `WriteCard` and `MarkPerceived`
are `buildPerceptionCards` (the batch is the newest `MaxEvidence` pending items, a card's
primary key is the item's); `Judge`, `Choose` and `Propose` are judgment, the choice of the
first actionable verdict, and the policy's answer to it; `WriteClosure` is whichever recorder
the path leads to; `AdvanceRhythm` and `Flush` end the command. Ids are made of the cycle's
start and number as in the code, so that two cycles with the same number and different starts
keep different rows. Real perception yields cards for which only watching and a *blocked*
notification of the owner can be decided, so guidance, connector dispatch and remembering do not
appear.

### ConnectorPolicy

`executeWithPolicy`: `Check` the cooldown, `Plan` a route, `Run` an attempt, mark its failure
(`ReadRow`, `DeleteRow`, `InsertRow`), then return or sleep and `Wake` for the next attempt. Of
the twelve failure classes the layer tells apart four answers: success, a retryable failure
without a wait, one with a wait, a terminal failure. `applied` counts what the *platform* did,
`log` what it answered; both exist for the properties only. The effect ledger has no state: its
keys are unique to a call and nothing marks a record committed, so a lookup never finds one.

### CircuitBreaker

The row, its flushed image, and clients that execute a request and report its outcome (`Start`,
`Execute`, `Report`) or reset the breaker (`Reset`, `Probe`). A report loads and saves in one
go; a reset awaits its probe in between and saves the copy it loaded. `openedAt` is reduced to
unset, cooling and elapsed and the count is capped at the threshold, so the module is finite
without any bound on time. That failures reported to an open breaker do not restart its cooldown
is part of `Failed`.

### CycleLedger, the abstract heartbeat

What any heartbeat promises of its cycles: a cycle is begun once (`BeginCycle`), closed at most
once and only after it began (`CloseCycle`), and a restart (`LoseLedger`) goes back to the
ledger of the last flush (`KeepLedger`) and to no other. `HeartbeatCycle` and `V9HeartbeatCycle`
each state `LedgerRefined`: their traces are its `begun`, their closures its `closures`, the
tables of the flushed image its `kept`. Both refinements are checked and proved. v8 keeps the
promise by the primary key of the trace and of the closure; v9 has no UNIQUE on a closure's
cycle (the constraint its recorder's catch clause expects is missing) and keeps it because ids
are made of a cycle that the trace's key gave to one call.

### V9HeartbeatCycle

`runV9HeartbeatCycle`: `StartCycleTrace`, `AssembleAndAttend` (the context with its threads, and
the signal of the attention port), then the activity thread: `StopThread` and `TouchThread` for
a thread to be stopped or resumed, `RereadThread`, `CreateThread`, `AppendStep`,
`ProgressThread`; then `ResolveIntent`, and the closure: `LookupClosure`, `InsertClosure`,
`RecordClosing`, with the fallback closure the finalizer writes when the first failed. The
answers of the attention port, the intent resolver and the action port, whose implementations
the caller brings, are choices. Scores, Dream chunks and texts are left out.

### EffectDispatch

`dispatchEffect`: `Acquire` a lease of the scope, `SaveCheckpoint`, `CreateCommit`,
`MarkDispatched`, `Send`, and by the answer `Acknowledge` and `Commit`, `Reconcile`, or `Abort`.
`Tick` lets every lease and every dispatch's idea of its own lease run down; a lease at zero may
be taken by another, and `Released` looks at the holder as the code does. `Resume` reads the
oldest record of an intent *before* it takes a lease. `FlushRows` and `CrashDispatch` return to
the last image; leases are in memory and end with the process. `applied` is what the platform
did and exists for the properties only.

### Services

These modules share no row with each other, and `MCServices` visits them in one run (section 4).

An update of a frame, a version or a routine that the store refuses is turned into `undefined` by
`v9-state-stores.ts`, and no caller looks at the result: in `Written`, `Update`, `LinkLedger` and
`RetireRow` the row is written or not, and the call goes on in either case. Inserts and ledger
writes throw instead, which ends the call (`LoseEdit`, `HaltEvolution`, `DropCall`).

- `CharacterFrames`: a refresh writes a candidate, reads the frame that speaks, supersedes it
  and accepts its own, each an action; contests read, and write later. `BeginMark` reads a frame
  of any status, and `MarkSeen` writes back the status it read. `AcceptRefused` is an acceptance
  the store refuses. `voiced` is history: the agent has had a frame, and none of the calls that
  may take the last one did.
- `ConnectorEvolution`: a candidate through its gates, then row, demotion, ledger and canary; a
  rollback marks, restores and enters. A refused read of the active version finds none. One
  platform. Migrated versions of a platform bear one name; here one is migrated, by one caller at
  a time, and the read that looks for it by its name is not refused. `mishaps` and `served` are
  history.
- `ToolRoutines`: both validations as operators over small sets of capabilities (`GuardAdmits`,
  `SandboxAdmits`); installation in three calls, invocation with its trace, retirement in two.
  `trouble` records for each routine what befell the calls on it.
- `BehaviorPromotion`: four synchronous operations and a clock in days.
- `ActionPolicy`: the v8 and v9 builders and evaluators as functions of a proposal and a
  context, the bound dispatch and the connector's gate. `Evaluate` gives each evaluator the
  context its orchestrator passes and, for v9, every context its interface allows. `GateWrite`
  is given any intent: one of the three the gate lists (`IsWriteCapability`), another write
  ("task.claim", or one a manifest adds) or a read; the last two are executed at once.
- `OwnerGoals`: `goal set` in four steps, as `upsertAgentGoal` awaits them (select and start,
  replace each, look up, store); `goal accept` and `goal reject` in two, a check and a write
  that looks at nothing; capture and restore of snapshots with trimming, the fallback to the
  latest one, and rows that are put back over those of their ids. One kind and scope. `history`
  records what a promise may except: an overlap, a failed call, an acceptance, a restore, a
  rejection that met a goal set in the meantime.
- `StateDatabase`: files of every earlier release, `OpenDatabase` with the bootstrap, the
  defensive pass and the migration runner, whole-image writes in two steps (so that a death
  leaves a torn file), several processes.
- `WriteQueue`: a FIFO with one execution at a time, `ExecuteRequest`, `CommitRequest`, `Again`
  after a busy database, `GiveUp` and `Throw`.

## 4. Runs

| Run | Instance | Question |
|---|---|---|
| `RhythmOverlap` | 2 checks, 2 days, interval 2, 1 failed call, 1 crash, new database | Do overlapping, failing and crashing checks keep the tables consistent? |
| `RhythmSequential` | 1 check, 3 days, 1 crash, new or upgraded database, fairness | Without overlap, does every run end and every day with a closure get its review? |
| `HeartbeatOverlap` | 2 beats, 2 items (1 sensitive), 1 failed call, 1 crash; or alone: 3 beats, 3 items, batches of 2, 1 crash | Do beats close once, judge once, implement `CycleLedger` and, alone, count upwards and forget nothing? |
| `ConnectorOverlap` | 2 calls, 1 capability, 2 attempts, threshold 2, 1 failed call, fairness; or alone: 3 calls, 2 capabilities | Is every window justified, does it end, does every call return and, alone, do repeated failures close for a whole window? |
| `ThreadOverlap` | 2 v9 beats, 1 topic, limit of 2 steps, 4 events (beats, overlaps, failures, crashes) | Do closures, steps, threads and events agree, and does it implement `CycleLedger`? |
| `EffectOverlap` | 2 workers, 3 intents of the three kinds, 3 dispatches, 1 failure or crash | Do leases exclude, and do the commit records tell the truth? |
| `Services` | nine subjects, see below | What each of the services promises |
| five violation runs | see section 5 | |

**Two kinds of behaviour in one run.** `MCHeartbeatCycle` and `MCConnectorPolicy` have a
variable `alone` that the initial state chooses: overlapping actors with a failed call over the
smaller instance, or one actor at a time without a failed call over the larger one. A property
that needs the second kind says `alone =>`. `MCServices` has a variable `subject` that the
initial state chooses and never changes: the service whose steps the behaviour takes. As the
services share no row, every interleaving of theirs is, for each of them alone, one of these
behaviours; visiting them in turn loses nothing and costs a sum instead of a product.

What the properties say:

- Daily rhythm. `OneRunPerDay`, `DreamsApart`, `OneActiveProjection`: the primary key of the
  review is the only thing that separates two overlapping checks. The one that inserted it goes
  on to schedule, execute and accept; the other ends blocked. These three hold because of it and
  not because of any lock. `BackedRow` and `ScheduledNotPersisted` relate the row of a day to
  reviews and runs of that and of earlier days. One check at a time, `Undisturbed` (Quiet never
  reported blocked without a failure, no remembered topic without an active projection),
  `RunsSettle` and `EveryDayReviewed`; a leftover run is repaired only by a check of its own
  day, so `RunsSettle` speaks of behaviours that start without one.
- Heartbeat v8. `ClosedAsJudged` (a beat closes unless a call failed, and not as "nothing there"
  when it judged something sensitive) and `EvidenceOnce` (a perceived item has its card, and one
  verdict) hold for overlapping beats although they read the same pending items and may take the
  same number. `Undisturbed` (numbers grow, nothing perceived stays unjudged, no beat is
  degraded by an earlier one) needs one beat at a time.
- Heartbeat v9. `RecordsAgree`: a beat closes unless a call failed, a closure names a step of
  its own cycle, the closing event tells what was stored, and a step without a closure goes back
  to a failure. `ThreadBounded`: the step count lags, and the limit is passed, by no more than
  one for each overlap, failure and crash.
- Connector. `BlockJustified` and `BlockExpires` hold under overlap; `CooldownHolds` and
  `CooldownKept` need one call at a time. The first is not a repetition of the check: retries do
  not look at the cooldown again, and are kept out only by sleeping exactly as long as the
  window they opened. `CallsReturn`: every call ends.
- Effects. `OneWithinLease`: of the dispatches in a scope at most one is within its lease,
  through lapses, takeovers and late releases. `LeaseHasHolder`: without a failed call, a lease
  that keeps others out has a dispatch at work. `RecordsTruthful`: a record never says more than
  the platform did, and a success is committed.
- Services. `NeverSpeechless`: the agent keeps a frame to speak with, whatever overlaps, unless
  the last one is dismissed, marked with an older status, or superseded by one whose acceptance
  is lost. `VersionsConsistent`: a platform keeps an active version unless a restoration is lost
  or a demotion crosses a rollback (`NeverWithout`); the version activated last is the one that
  counts even if its predecessor could not be demoted, unless calls overlap (`ActivationCounts`);
  and where nothing went wrong one version is active between calls and the ledger tells which.
  `RoutinesConsistent`: a routine is what was admitted; one whose calls did not overlap and whose
  retirement was written is retired once and never run again, whatever died and whatever became
  of other routines; if nothing died either, the ledger tells its state. `PolicyRespected`: from
  a verdict to a platform no step lets through what another or the owner forbids, as far as the
  gate's three intents reach. `DatabaseKeeps`: what was flushed stays unless two processes have the file open or
  one dies writing it, a file behind its version is marked, an opened database has its columns.
  `QueueAnswers`: every request once, in order, "ok" exactly for a commit. `RecordConsistent`,
  `RestoredByProbe` and `NeverDisabled` hold for the breaker although resets save copies that
  are out of date. `NeverGoalless`: however commands overlap, an owner who has chosen a goal
  keeps an accepted one, except while a command is about to store its own, or after a failure, a
  restore, or a rejection that met a goal set in the meantime. `DecisionsStand`: a frame
  that was silenced speaks again only by a call that had read it before; decided promotions stay
  decided; the goal chosen last is the one read while commands do not overlap.

**Bounds.** Two overlapping actors are enough for each read-modify-write in these components:
each relates one actor's read to one other's write. Three clients in the breaker allow two
resets and a report in between. One failed call and one crash are placed by TLC at every step.
Two days with an interval of two days, and three in the sequential run, contain a Dream, a day
within the interval, and a day on its border. Three items and batches of two make one batch
overflow. `Threshold` 2 and two attempts are the values of the code; the time unit is one wait
the platform asks for, and the cooldown is longer than that. `MaxTime` bounds when a request may
begin; the clock goes on while a window or a sleep lasts, so that liveness is never decided by
the clock standing still. A thread limit of 2 instead of 8 is passed within the events allowed.
A lease of one tick lapses at every step of its dispatch. Four goal commands, two goals and one
kept snapshot let a set overlap a set, a rejection or a capture, and a snapshot be trimmed
between being found and being applied. Three frames and four edits contain two overlapping
refreshes with a mark and a contest; three versions or calls an activation, a successor, and a
rollback or a third call that overlaps. One routine is enough for what is said of each by itself;
that others do not matter is proved (section 6). Old files of
versions 0, 4, 9 and 10 stand for those without a version, before and between the migrations
that add columns, and up to date. Symmetry is used for interchangeable actors in safety runs
only. Contents are placeholder and full with overlap, and sensitive, partial and full one at a
time: placeholder and sensitive take the same path.

**Deadlock** is checked except in the runs with a bound on beats, calls or commands begun, whose
end is the bound and not the system's.

**Fairness.** Weak fairness of a call or check under way (`WF_vars(Step(c))`, in
`ConnectorPolicy` of the part of it within the run's kind): the event loop resumes every settled
promise, and every database call settles. In `DailyRhythm` it also makes a new check begin, as
the host sends heartbeats for ever. `WF(Tick)` in `ConnectorPolicy` and `WF_vars(Elapse)` in
`CircuitBreaker`: time passes. Ingesting, beginning a request, resetting the breaker, flushing
it and crashing are never fair. No strong fairness is used.

Each property of a passing run is paired with a mutant in `PROJECT.json`: a definition changed
as a plausible bug would change it (`Mut...` operators, written before the definition they
replace), under which TLC finds the property violated.

## 5. Where the code differs from its documents

Each has a run in which TLC finds the behaviour, and the quoted line in `PROJECT.json`.

- `RhythmRepairBlocked`: a stale run whose consolidation ends *blocked* is reported by the
  repair as completed, and the day's row says the Dream completed.
- `HeartbeatPoison`: an item whose card was stored and whose status was not updated stays
  pending; every later beat fails on the card's primary key and reports an unreadable state.
- `ConnectorLostCount`: overlapping terminal failures read the same count, so one is lost and
  the cooldown does not start.
- `EffectReplay`: an effect whose answer was lost cannot be moved to "reconcile", ends
  "aborted", and a resume is told that it may run again.
- `SchemaUpgrade`: the defensive pass adds the columns that the migration then adds again, so an
  upgrade from versions 4 to 9 is marked failed and stays below the newest version.

Others, which the modules exhibit or their text shows, without a run of their own:

- *Daily rhythm.* Overlapping checks report Quiet blocked without any failure; on an upgraded
  database two overlapping repairs leave two active projections; a run whose status update
  failed stays scheduled.
- *Heartbeat v8.* Overlapping beats take the same cycle number; the event that ends the
  execution stage has the id of the one that began it and is dropped.
- *Heartbeat v9.* An undispatched intent without sources leaves no closure, no fallback and no
  reason; an attention port or intent resolver that throws leaves an open trace; the fallback
  closure drops the thread and step; a paused thread never becomes active again; "terminal
  states are already stopped" fails under overlap.
- *Connector policy.* A request with a side effect is retried after a timeout without anything
  that tells the platform it is the same request (`policy-layer.ts` 228); a timeout writes the
  present time over a window another call opened; a success does not clear the count of terminal
  failures.
- *Circuit breaker.* Outcomes are reported to it, but nothing asks it (`heartbeat-loop.ts` 174),
  so an open breaker stops no request; failures reported to an open one do not restart its
  cooldown; a half-open one lets every request through.
- *Effects.* The lease stays taken until it lapses when saving the checkpoint or creating the
  record throws; a resume reads the oldest record of an intent, before it takes a lease;
  outreach is committed without being sent.
- *Character frames.* Two revisions of one frame may both be accepted, as may two overlapping
  refreshes. Marking the first injection writes back the status it read
  (`character-frame-lifecycle.ts` 470): a frame the owner retired in between is accepted again,
  against `.anws/v9/05A_TASKS.md` 507 ("rejected/retired/superseded never active"), and a
  candidate accepted in between is a candidate again, which may leave no frame to speak with.
- *Connector evolution.* A rollback looks at no status: rolling back a superseded version leaves
  two active ones, or activates one that passed no gate. Updates the store refuses are
  not noticed: a demotion then leaves two active versions behind an activation that is reported
  as done, and a rollback is entered in the ledger while the version before is not active (the
  engine's comment at 416 says "DB-level rollback already succeeded").
- *Tool routines.* A retirement the store refuses is entered in the ledger and answered "ok", and
  the routine can still be invoked (`tool-routine-install-invoke.test.ts` 196 has "retires active
  routine and blocks subsequent invocation"). Linking the ledger entry writes "active" and can revive a routine that was
  retired in the meantime; superseding does not retire the predecessor.
- *Action policy.* The gate before a platform (`policy-bound-write-dispatch.ts` 116-125) looks at
  the proof of three intents only; "task.claim" and the writes a manifest adds are executed at
  once, though its header (19) says it "does NOT execute write without valid policy proof". The
  v8 builder gives an unsourced verdict a reference to itself, so the rule
  for missing sources never fires; the comment in `v9-routine-validation.ts` 50-53 says the two
  inferences of side effects mirror each other, but unknown reads default to "none" in one and
  to "owner_attention" in the other; the default v9 port passes no routine status, so every
  routine is denied.
- *Promotions.* Approving does not look at the expiry, only the sweep does.
- *Goals.* `.anws`' state-memory design (246) has the upsert in one exclusive transaction; the
  code awaits between its calls, so overlapping sets may leave two accepted goals, of which only
  the one updated last is listed; `goal accept` replaces nothing; a rejection can overrule a
  goal set after its check; a set that fails between replacing and storing leaves none; a
  restore may bring back an accepted goal beside the present one, and uses the latest snapshot
  in place of one trimmed in the meantime.
- *State database.* A file without a version is stamped with the newest one and keeps lacking
  the columns only migrations add; the failure mark is never cleared; a second process's flush
  undoes the first's rows; a torn file cannot be opened.

## 6. Proofs

Proved by TLAPS with SMT, Zenon and PTL, with no assumption but those the modules state of their
constants (which TLC evaluates in the runs). Every invariant and every action property of the
passing runs has its theorem, for every value of the constants; only liveness is left to TLC
(see the end of this section). The theorems a reader should know are in `PROJECT.json`; an
inductive invariant was checked with TLC before it was proved.

| Module | Proves about | From |
|---|---|---|
| `NaturalFacts` | numbers and finite sets: a set of numbers has a least one, and what adding or taking one member does to a count | - |
| `DailyRhythm_proofs` | `DailyRhythm` | - |
| `HeartbeatCycle_proofs` | `HeartbeatCycle` and its refinement of `CycleLedger` | - |
| `HeartbeatAlone_proofs` | one heartbeat at a time, as in `MCHeartbeatCycle` | `HeartbeatCycle_proofs` |
| `V9HeartbeatCycle_proofs` | `V9HeartbeatCycle` and its refinement | - |
| `ConnectorPolicy_proofs` | `ConnectorPolicy`, and one request at a time, as in `MCConnectorPolicy` | - |
| `EffectDispatch_proofs` | `EffectDispatch` | - |
| `Services_proofs` | the eight services and the circuit breaker, and `MCServices` which composes them | - |

**DailyRhythm_proofs**, for any number of checks, days, failures and crashes. Each invariant
builds on those before it.

- `TypeCorrect`: `TypeOK` is not inductive, since the lists of candidates still to accept must
  hold candidates when `Project` takes the head; `TypeInv` adds `TodoOK`: a check that is
  superseding or projecting has a candidate left.
- `OneRunPerDayHolds`: "one run a day" follows from no single guard. `RunInv` adds, of the
  tables in memory *and* of the flushed image (a crash brings that back), that a run exists only
  for a day with a review and that a row whose Quiet completed has a Dream that ended or is
  scheduled, so that a later check cannot start again; and of the checks, that one that may
  still schedule (`MayDream`) finds a review and no run of its day and is the only one of the
  day. The review is a permit granted once by `BuildQuiet` and spent once by `Schedule`; a crash
  takes the checks and what was not flushed away together. Leftovers satisfy it as well, so the
  theorem covers upgraded databases.
- `DreamsKeptApart`, with `~MidnightOverlap` (a check that begins before midnight ends before
  it; without that a check reads the interval on one day and schedules on the next, as
  `MidnightOverlap` in the constants admits). `ApartInv` says of a check about to schedule that
  every run that ended is an interval away from *its* day. The check of the interval and the
  insert are awaits apart; what makes the reading still true is that on one day only one check
  has the permit of `RunInv`, and that days only grow.
- `NeverScheduled` and `OneActiveHolds`, with `~UpgradedDb` (a database that no earlier release
  left a scheduled Dream in; with one the second is false, as section 5 says), rest on `MemInv`.
  An *owner* is a check between the end of its Quiet and the last of its candidates. `MemInv`
  says that a day has one owner at most and then a review, that only a check about to settle
  holds a scheduled Dream, and that what an owner found before it supersedes or projects is
  still so: `Accept` reads, `Supersede` and `Project` write several awaits later, and nobody
  else owns the topic in between.
- `RowsBacked`, with both hypotheses. `BackInv` says that what a row tells, or a check is about
  to write into one, has happened (`Told`), and that a run that ended has the outcome its review
  calls for. With a leftover the repair tells "completed" of a blocked run (the finding of
  `RhythmRepairBlocked`), so `~UpgradedDb` cannot be dropped.
- `LoneUndisturbed`, with `Checks = {c}` and `MaxFailures = 0`, any number of days and crashes,
  upgraded or not, over midnight or not. `LoneInv` is stated for a state of a check and a set of
  tables, and holds of the one check with the memory and of an idle one with the file: only the
  writer of a review knows of it before the row does, and a topic is without an active
  projection only between the two writes that replace it. A flush comes only when the check is
  done, which is why a crash in between returns to a file where neither gap is open.

**HeartbeatCycle_proofs**, for any number of beats, items, failures and crashes.

- `ClosedOnce` and `HeartbeatImplementsLedger` rest on `LedgerInv`. A beat between its trace and
  its closure *owns* the id of its cycle (`Owned`): no other such beat has it, because the
  trace's primary key let one in, and no closure bears it. That must be said of the flushed
  image too, since a crash brings it back (and ends every owner). The refinement then goes
  action by action: `WriteTrace` is `BeginCycle`, `WriteClosure` is `CloseCycle` or a stutter,
  `Flush` and `Crash` are `KeepLedger` and `LoseLedger`, everything else stutters.
- `TypeCorrect`: the batch a beat reads comes from the recursive function `PendingOf`. That it
  lists pending items only, each once, is proved by the least number for which it would not
  (`LeastNat`): induction over numbers without the library's induction theorems.
- `EvidenceHandledOnce` rests on `EvidenceInv`: the items a beat *holds*, from the card it wrote
  to the verdict, bear its cycle's id and have no verdict (`Holding`), and filed verdicts are of
  carded items, one each (`Filed`), in memory and on disk. Two beats may read the same pending
  item; the card's key lets one hold it.
- `ClosedAsItJudged` rests on `SilentInv`: a beat that has taken no action so far knows that
  its cycle's verdicts ask for none (`Informed`), so that a closure that reports silence is
  right when it is written (`Honest`) and stays so, as verdicts are added only by beats that own
  an open cycle.

**HeartbeatAlone_proofs**, for the behaviours of `MCHeartbeatCycle` with one beat at a time and
no failed call, any number of items, beats and crashes.

- `AloneUndisturbed` rests on `AloneInv`: every item with a card is perceived, or is the one
  being marked; every perceived one has its verdict, or waits for it in the beat's hands
  (`Settled`). Between beats, and so in every file, nothing is waiting. Hence a pending item has
  no card, no batch is given up, and no number is taken twice.

**V9HeartbeatCycle_proofs**, for any number of beats, topics, failures and crashes.

- `RecordsAlwaysAgree`, `AtMostOneStep` and `V9ImplementsLedger` rest on `RecordsInv`: the
  tables agree with one another, in memory and on disk (`Agree`), and each beat knows the truth
  about the rows of its own cycle at every place in its code (`Sound`): no step before it
  appended one, its step from then on, no closure before it inserted one, no closing event
  before it recorded one. The lookup before the insert is not what excludes a second closure;
  that nobody else has the id is.
- `ThreadsBounded` rests on `LagInv`, which counts. For each thread: the steps exceed the stored
  count by no more than what was lost (failures, overlaps, crashes) and the beats about to write
  it; and while beats are under way each of them uses up a share of that room (`Room`), because
  each but one is itself an overlap. A beat that read the count knows how far behind it was then
  and is now (`Aware`). A crash returns to a file that may be behind by one loss more, and is
  one itself.

**ConnectorPolicy_proofs**, for any number of calls and capabilities, any threshold and any
lengths.

- `TypeCorrect` and `BlocksAreJustified` rest on `JustInv`: a row, in the table or in the hands
  of a call about to write it, counts no more terminal failures than the platform has answered
  (overlapping calls lose counts, they never invent them), and its window goes back to one
  answer. Copies that are out of date keep both, because answers are only ever added.
- `CooldownsHold` and `CooldownsAreKept`, for the behaviours of `MCConnectorPolicy` with one
  request at a time and no failed call, rest on `AloneInv`: a capability has one row at most,
  which counts its terminal answers exactly and, after the one that counts, stays closed a whole
  cooldown (`Tells`), except while the call holds the row between its delete and its insert; and
  at every place where the call may attempt, its capability is open (`Fits`). A retry does not
  look at the table again; that it finds it open is because the window its failure wrote ends
  when its sleep does.

**EffectDispatch_proofs**, for any number of workers and intents, any lease time, failures and
crashes.

- `DispatchTyped`, `LeaseExcludes`, `LeaseHeld`, `RecordsAreTruthful` rest on `RecordInv`. Its
  first part relates a dispatch within its lease to the lease that bears its number with the
  same time left, so two cannot be within one lease whoever takes over or releases late. Its
  second says, of the records in memory and on disk, that a decision has one record which says
  no more than the platform did, and of each dispatch what its own record says at its place in
  the code. Its third, that without a failed call a success is being recorded or is.

**Services_proofs**, for any number of callers, rows and calls.

- `QueueAnswersAll`: the numbers of the requests lie in order through answered, executed and
  waiting (`QueueShape`), so every answer is the next one's.
- `PolicyIsRespected`: `PolicyInv` keeps, along the path from intent to gate, that the proposal
  is one a builder builds, the decision the one its evaluator gives and the outcome the one the
  dispatch or the gate gives it, for every intent; then one lemma for each
  evaluator (`AllowedV8`, `AllowedV9`, `AllowedRoutine`, `DowngradeMild`) states what "allowed"
  means.
- `PromotionsStand`: the dates of a row fit its status.
- `RoutinesAreConsistent`: for each routine `Apart` (the one call on it: what its row and ledger
  say at its place in the code), unless calls on it overlapped or its retirement was refused, and
  `Told` (the ledger follows the row, except for the entry a call still owes), unless one died
  too. `Elsewhere` is the lemma that a call on one routine leaves what holds of the others.
- `GoalsAreKept`: `GoalInv` says that after a choice a goal is accepted or some command *will
  store*: it is replacing, looking or updating, or it is inserting and its id is still free. The
  last clause is what the promise itself lacks: an insert that finds its id taken throws and
  stores nothing, but an id is taken during it only by a goal that was accepted, and the command
  that replaces that one will in turn store its own.
- `LatestGoalCounts`: while nothing overlaps, fails or is restored, `Due` says at each place of a
  command where the accepted goals stand: between commands the chosen goal is accepted and
  updated later than any other accepted one; a command that replaces has all the others in its
  list; one that stores finds no other. `GoalBooks` adds what the types need: that moments do
  not repeat, so neither do snapshots.
- `BreakerTypeCorrect`, `BreakerConsistent`, `OnlyProbeRestores`: the strengthening is
  `CopiesConsistent`: the copy a reset holds across its probe is itself consistent and not
  closed. So saving it whole, however old it is, restores a consistent row, and only the probe's
  answer can make it a closed one.
- `DatabaseKept`: an image that was opened is up to date, or says that it is not (`UpToDate`),
  whatever migration was refused, and so is every file a process leaves that is not torn
  (`FileTrue`); as long as processes come one after the other, each has every row that was
  written. It uses `DefensiveAssumption`, that the
  defensive pass covers the last of the migrations that add columns, as it does in the schema:
  the migration that fails because its column is already there is met only after those whose
  columns the pass leaves to them.
- `FramesNeverSpeechless` and `FramesStaySilenced`: `Voiced` (while the history says so, a frame
  is accepted or a call is about to accept its own in place of the one it superseded) needs that
  the superseding call's own frame is not the one it supersedes (`EditShape`); the second needs
  that a call about to accept its frame had read it as a candidate, and that a dismissal writes a
  silent status.
- `VersionsFitTogether`: `EvolutionInv` has a part for each promise. `InOrder`, while nothing has
  gone wrong: at each of the nine places of a call, `InTurn` says which versions are active and
  which one the ledger tells of; in a demotion two are, in a rollback none, and nowhere else.
  `Served`: a version is active, or one is being restored. `Newest`, while no calls overlapped:
  the version of a call between its activation and its canary is active and younger than every
  other, so what is active beside it does not count.
- `ServicesTyped`, `OwnerDecisionsStand`: a behaviour of `MCServices` satisfies the
  specification of *each* service (`ServicesRun`: a step of one is a stutter of the others),
  so each service's theorems hold in the composition. The type of the composition needs of each
  service how long its logs can be (`CountInv` for the ledger of routines: entries and those
  that still owe one are no more than the calls begun).

**What is only model-checked.** The liveness properties: `RunsSettle`, `EveryDayReviewed`,
`CallsReturn`, `BlockExpires`, `NeverDisabled`. They rest on fairness, which means ENABLED, and
TLAPS has no rules for it. What the recursive `PendingOf` does is proved by its least
counterexample; the induction theorems of the library, which take a predicate as a parameter,
are out of the provers' reach. The violations of section 5 are of course only exhibited.

## 7. What is not modelled

- *Text*: what cards, reviews, candidates and messages say; sensitivity and relevance are
  inputs.
- *Network and files*: runners, manifests and their locks, host probes, rendering. Much of
  the source is of this kind, or types, or a second, compiled copy of it under `plugin/`.
- *Paths nobody calls*: `forceQuiet`, an unavailable scheduler, rejecting a projection, the goal
  lifecycle store and policy (which have rules the goal command does not use).
- *Latent branches*: guidance, dispatch and remembering in the v8 cycle (no verdict reaches
  them).
- *Fairness to evidence*: batches take the newest first, so old evidence may wait for ever; a
  property would be decided by an assumption on arrivals alone.
- *The audit chain*: an append is synchronous, so nothing can come between reading the last hash
  and writing the next; what its verification compares is a function of the stored rows. After a
  restart nothing seeds the last hash of a family.
- *Outreach*: the message is sent before the attempt is recorded, and a failed record after a
  send throws; one caller, and no shared rows but its own.
- *Legacy heartbeat, v7 Dream and Quiet, tool affordance and experience, read models,
  credentials*: sequences of reads and one write, or decision functions of the legacy loop.

## 8. Plan

Done: `DailyRhythm`, `HeartbeatCycle`, `ConnectorPolicy`, `CircuitBreaker`, `ActionPolicy`,
`V9HeartbeatCycle` with `CycleLedger`, `StateDatabase`, `EffectDispatch`, `WriteQueue`,
`ToolRoutines`, `ConnectorEvolution`, `CharacterFrames`, `BehaviorPromotion`, `OwnerGoals`, with
their runs and the proofs of section 6.

Left, in this order:

1. Proofs: what an overlap *can* do, stated as theorems that need no `alone`: by how many a
   cooldown's count may fall behind the answers; what `Undisturbed` of the heartbeat keeps with
   failed calls but without overlap; an abstract specification of the daily rhythm (a day is
   reviewed, dreamt about and remembered once) with the refinement proved.
2. `Outreach`: send, attempt record and fallback with a crash between any two.
3. `GovernedAnchors` (`storage/services/governance-layer.ts`): approval and commit of proposals
   over the anchors.
4. The guards and candidate planner of the legacy loop as decision functions before
   `EffectDispatch`.
5. A second process in `DailyRhythm`, joining `StateDatabase` to it.
