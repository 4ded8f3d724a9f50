---------------------------- MODULE CircuitBreaker ----------------------------
(***************************************************************************)
(* The circuit breaker of one connector capability.  Requests report their *)
(* outcome to it (evaluateSuccess, evaluateFailure), whether they may be   *)
(* made is answered by canExecute, and it is reset through a wet probe     *)
(* (attemptReset).  Nothing calls the last two but tests: Resets says      *)
(* whether the model calls attemptReset, canExecute is part of properties. *)
(*                                                                         *)
(* Each report loads and saves the record in one go.  A reset loads it,    *)
(* awaits the probe, and saves the copy it loaded: what was reported in    *)
(* the meantime is overwritten.  The record is a row of the state database *)
(* and reaches the file when a command flushes it.                         *)
(*                                                                         *)
(* Of openedAt only matters whether it is set and whether the cooldown has *)
(* passed since, and of consecutiveFailures only the values up to the      *)
(* threshold.  failureCount and lastProbeAt decide nothing.                *)
(***************************************************************************)
EXTENDS Integers

CONSTANTS
    Clients,     \* the requests and resets that may be in progress at once
    Threshold,   \* failureThreshold
    Resets,      \* whether anybody calls attemptReset
    MaxCrashes   \* bound: crashes

ASSUME BreakerAssumption ==
    /\ Threshold \in Nat \ {0}
    /\ Resets \in BOOLEAN /\ MaxCrashes \in Nat

VARIABLES
    rec,       \* the row of circuit_breaker_state
    disk,      \* the flushed row
    client,    \* the local state of each request or reset
    crashes

vars == <<rec, disk, client, crashes>>

Opened == {"unset", "cooling", "elapsed"}
Record == [state : {"closed", "open", "half_open"}, failures : 0..Threshold, opened : Opened]

\* What loadRecord makes of a missing row.
Fresh == [state |-> "closed", failures |-> 0, opened |-> "unset"]

PCs == {"idle", "started", "succeeded", "failed", "probing"}
Idle == [pc |-> "idle", copy |-> Fresh]

TypeOK ==
    /\ rec \in Record /\ disk \in Record
    /\ client \in [Clients -> [pc : PCs, copy : Record]]
    /\ crashes \in 0..MaxCrashes

Init ==
    /\ rec = Fresh /\ disk = Fresh
    /\ client = [c \in Clients |-> Idle]
    /\ crashes = 0

-----------------------------------------------------------------------------
Become(c, pc, copy) == client' = [client EXCEPT ![c] = [pc |-> pc, copy |-> copy]]
Return(c) == client' = [client EXCEPT ![c] = Idle]

CanExecute ==
    \/ rec.state \in {"closed", "half_open"}
    \/ rec.state = "open" /\ rec.opened = "elapsed"

\* A request starts.  The heartbeat does not ask canExecute first.
Start(c) ==
    /\ client[c].pc = "idle"
    /\ Become(c, "started", Fresh)
    /\ UNCHANGED <<rec, disk, crashes>>

Execute(c) ==
    /\ client[c].pc = "started"
    /\ \E outcome \in {"succeeded", "failed"} : Become(c, outcome, Fresh)
    /\ UNCHANGED <<rec, disk, crashes>>

\* The threshold has to be passed, and the count stops at it.
MutFailedLate(r) ==
    IF r.state = "half_open" \/ (r.state = "closed" /\ r.failures = Threshold)
    THEN [state |-> "open", failures |-> Threshold, opened |-> "cooling"]
    ELSE [r EXCEPT !.failures = IF @ < Threshold THEN @ + 1 ELSE @]

\* The count is not limited to what the threshold tells apart.
MutFailedUncounted(r) ==
    [r EXCEPT !.state = IF r.failures >= Threshold THEN "open" ELSE @, !.failures = @ + 1]

\* One failure more closes nothing: the breaker opens at the threshold, opens
\* again from half-open, and stays open (and as long as before) when open.
Failed(r) ==
    LET n == IF r.failures < Threshold THEN r.failures + 1 ELSE Threshold
    IN  IF r.state = "half_open" \/ (r.state = "closed" /\ n = Threshold)
        THEN [state |-> "open", failures |-> n, opened |-> "cooling"]
        ELSE [r EXCEPT !.failures = n]

\* A success closes an open breaker too.
MutSucceeded(r) == Fresh

\* A success clears the count, unless the breaker is open.
Succeeded(r) ==
    CASE r.state = "half_open" -> Fresh
      [] r.state = "closed"    -> [r EXCEPT !.failures = 0]
      [] OTHER                 -> r

\* The outcome is reported, or the report fails and its error is only logged.
Report(c) ==
    /\ client[c].pc \in {"succeeded", "failed"}
    /\ rec' \in {rec, IF client[c].pc = "failed" THEN Failed(rec) ELSE Succeeded(rec)}
    /\ Return(c)
    /\ UNCHANGED <<disk, crashes>>

\* attemptReset, up to its await: a closed or cooling breaker is left alone, an
\* open one that has cooled is half-open from here on.
Reset(c) ==
    LET half == IF rec.state = "open" /\ rec.opened # "unset"
                THEN [rec EXCEPT !.state = "half_open"] ELSE rec
    IN  /\ Resets /\ client[c].pc = "idle"
        /\ rec.state # "closed" /\ ~(rec.state = "open" /\ rec.opened = "cooling")
        /\ rec' = half
        /\ Become(c, "probing", half)
        /\ UNCHANGED <<disk, crashes>>

\* A refused probe opens the breaker without a time.
MutProbed(r, answer) ==
    CASE answer = "available" -> Fresh
      [] answer = "refused"   -> [r EXCEPT !.state = "open", !.opened = "unset"]
      [] OTHER                -> r

\* attemptReset, after its await: the copy is changed by the probe's answer and
\* saved.  "denied" also stands for a probe that met no answer, "thrown" for one
\* whose result could not be stored.
Probed(r, answer) ==
    CASE answer = "available" -> Fresh
      [] answer = "refused"   -> [r EXCEPT !.state = "open", !.opened = "cooling"]
      [] OTHER                -> r

Probe(c) ==
    /\ client[c].pc = "probing"
    /\ \/ \E answer \in {"available", "refused", "denied"} :
             rec' = Probed(client[c].copy, answer)
       \/ rec' = rec \* thrown
    /\ Return(c)
    /\ UNCHANGED <<disk, crashes>>

\* The cooldown since the breaker opened passes.
Cooled == [rec EXCEPT !.opened = IF @ = "cooling" THEN "elapsed" ELSE @]
Elapse ==
    /\ rec.opened = "cooling"
    /\ rec' = Cooled
    /\ UNCHANGED <<disk, client, crashes>>

Flush == disk' = rec /\ UNCHANGED <<rec, client, crashes>>

Crash ==
    /\ crashes < MaxCrashes
    /\ crashes' = crashes + 1
    /\ rec' = disk
    /\ client' = [c \in Clients |-> Idle]
    /\ UNCHANGED disk

Next ==
    \/ \E c \in Clients : Start(c) \/ Execute(c) \/ Report(c) \/ Reset(c) \/ Probe(c)
    \/ Elapse \/ Flush \/ Crash

Spec == Init /\ [][Next]_vars
FairSpec == Spec /\ WF_vars(Elapse)

-----------------------------------------------------------------------------
\* However reports and stale resets overwrite each other, and whatever a crash
\* brings back, the row is consistent: it is closed just when fewer failures
\* than the threshold are counted, and one that is not closed knows when it
\* opened.  (circuit-breaker-manager.ts)
Consistent(r) ==
    /\ r.state = "closed" <=> r.failures < Threshold
    /\ r.state # "closed" <=> r.opened # "unset"
RecordConsistent == Consistent(rec) /\ Consistent(disk)

\* An open breaker is closed by a reset's probe and never by the report of a
\* request that was under way when it opened, unless a crash brings an older
\* row back.
RestoredByProbe ==
    [][(rec.state = "open" /\ rec'.state = "closed" /\ crashes' = crashes)
          => \E c \in Clients : client[c].pc = "probing" /\ client'[c].pc = "idle"]_vars

\* A capability is not disabled for good: again and again canExecute lets a
\* request through, even if nobody ever resets the breaker.
NeverDisabled == []<>CanExecute

\* While an open breaker cools no request is made of its capability.
OpenBlocks ==
    [][\A c \in Clients :
          (client[c].pc = "idle" /\ client'[c].pc = "started") => CanExecute]_vars
=============================================================================
