--------------------------- MODULE ConnectorPolicy ---------------------------
(***************************************************************************)
(* How a connector request reaches its platform (executeWithPolicy): the   *)
(* cooldown is checked, a route planned, the request attempted up to       *)
(* MaxRetries times, and every failure recorded in the cooldown table.     *)
(*                                                                         *)
(* Calls overlap and every database or network step is awaited.  Recording *)
(* a failure is three such steps: read the row, delete it, insert the new  *)
(* one.  The effect-commit ledger is looked up with a key no two calls     *)
(* share and nothing ever marks a record committed, so a lookup always     *)
(* finds a fresh record and lets the call go on: it has no state here.     *)
(***************************************************************************)
EXTENDS Integers, Sequences, FiniteSets

CONSTANTS
    Calls,          \* the requests that may be in progress at once
    Intents,        \* the capabilities of one platform that are requested
    MaxRetries,     \* retryPolicy.maxRetries
    Threshold,      \* TERMINAL_FAILURE_THRESHOLD
    Cooldown,       \* DEFAULT_COOLDOWN_MS
    RetryAfter,     \* the waits a rate-limited platform may ask for
    MaxTime,        \* bound: no request begins later
    MaxBegun,       \* bound: requests begun
    MaxFailures     \* bound: database calls that fail

ASSUME PolicyAssumption ==
    /\ Intents # {}
    /\ MaxRetries \in Nat \ {0} /\ Threshold \in Nat \ {0} /\ Cooldown \in Nat \ {0}
    /\ RetryAfter \subseteq Nat \ {0}
    /\ {MaxTime, MaxBegun, MaxFailures} \subseteq Nat

VARIABLES
    now,       \* the wall clock
    rows,      \* connector_cooldown_state, at most one row for an intent
    call,      \* the local state of each request
    log,       \* for the properties: what the platform answered, per intent
    begun, failures

vars == <<now, rows, call, log, begun, failures>>

NewRow(i, terminal, until) == [intent |-> i, terminal |-> terminal, until |-> until]
Row == [intent : Intents, terminal : Nat, until : Nat]

\* An answer: success, a failure that is retried (with a wait the platform asks
\* for, or without one, as a timeout) and a failure that is not.
Kinds == {"success", "timeout", "rate_limited", "terminal"}
Retryable == {"timeout", "rate_limited"}

AnyIntent == CHOOSE i \in Intents : TRUE
Idle == [pc |-> "idle", intent |-> AnyIntent, attempt |-> 0, kind |-> "success",
         wait |-> 0, wake |-> 0, new |-> NewRow(AnyIntent, 0, 0)]

PCs == {"idle", "check", "plan", "run", "read", "delete", "insert", "sleep"}

TypeOK ==
    /\ now \in Nat
    /\ rows \subseteq Row
    /\ call \in [Calls -> [pc : PCs, intent : Intents, attempt : Nat, kind : Kinds,
                           wait : Nat, wake : Nat, new : Row]]
    /\ log \in [Intents -> Seq([kind : Kinds, at : Nat, wait : Nat])]
    /\ begun \in Nat /\ failures \in Nat

Init ==
    /\ now = 0 /\ rows = {}
    /\ call = [c \in Calls |-> Idle]
    /\ log = [i \in Intents |-> <<>>]
    /\ begun = 0 /\ failures = 0

-----------------------------------------------------------------------------
\* The cooldown closes by the number of failures and not by the time.
MutBlocked(i) == \E r \in rows : r.intent = i /\ r.terminal >= Threshold

RowOf(i) == {r \in rows : r.intent = i}
Blocked(i) == \E r \in RowOf(i) : r.until > now

Become(c, s) == call' = [call EXCEPT ![c] = s]
Return(c) == Become(c, Idle)
Answered(i, kind, wait) ==
    log' = [log EXCEPT ![i] = Append(@, [kind |-> kind, at |-> now, wait |-> wait])]
FailDb == failures < MaxFailures /\ failures' = failures + 1

\* A caller asks for an intent.
Begin(c, i) ==
    /\ call[c].pc = "idle" /\ begun < MaxBegun /\ now < MaxTime
    /\ begun' = begun + 1
    /\ Become(c, [Idle EXCEPT !.pc = "check", !.intent = i])
    /\ UNCHANGED <<now, rows, log, failures>>

\* isBlocked: a cooldown in force, or one that cannot be read, ends the call.
Check(c) ==
    /\ call[c].pc = "check"
    /\ \/ /\ IF Blocked(call[c].intent) THEN Return(c)
             ELSE Become(c, [call[c] EXCEPT !.pc = "plan"])
          /\ UNCHANGED failures
       \/ FailDb /\ Return(c)
    /\ UNCHANGED <<now, rows, log, begun>>

\* No route, no credential, a degraded channel for a side effect, or a start
\* that telemetry cannot store: the call ends with no attempt and no mark.
Plan(c) ==
    /\ call[c].pc = "plan"
    /\ \/ Become(c, [call[c] EXCEPT !.pc = "run", !.attempt = 1])
       \/ Return(c)
    /\ UNCHANGED <<now, rows, log, begun, failures>>

\* The platform carries the request out and answers, or its answer is lost
\* (a timeout, after the effect or before it), or it refuses.  When telemetry
\* cannot store the outcome its error ends the call, with no mark.
Run(c) ==
    /\ call[c].pc = "run"
    /\ \E kind \in Kinds, wait \in RetryAfter \cup {0} :
          /\ wait # 0 <=> kind = "rate_limited"
          /\ \/ /\ kind = "success"
                /\ Return(c) /\ Answered(call[c].intent, kind, 0)
                /\ UNCHANGED failures
             \/ /\ kind # "success"
                /\ Become(c, [call[c] EXCEPT !.pc = "read", !.kind = kind, !.wait = wait])
                /\ UNCHANGED <<log, failures>>
             \/ FailDb /\ Return(c) /\ UNCHANGED log
    /\ UNCHANGED <<now, rows, begun>>

\* The count of an intent with no row is not set.
MutTerminalOf(old) == IF old = {} THEN -1 ELSE (CHOOSE r \in old : TRUE).terminal

\* The failure being marked counts twice.
MutMarkedEarly(kind, wait, terminal, until) ==
    CASE wait > 0                                       -> now + wait
      [] kind = "terminal" /\ terminal + 1 >= Threshold -> now + Cooldown
      [] OTHER                                          -> now

\* The threshold has to be passed.
MutMarkedLate(kind, wait, terminal, until) ==
    CASE wait > 0                                  -> now + wait
      [] kind = "terminal" /\ terminal > Threshold -> now + Cooldown
      [] OTHER                                     -> now

\* The row a failure leaves: a wait the platform asked for goes first, then
\* the cooldown of repeated terminal failures; a retryable failure opens the
\* window at once.
TerminalOf(old) == IF old = {} THEN 0 ELSE (CHOOSE r \in old : TRUE).terminal
UntilOf(old)    == IF old = {} THEN 0 ELSE (CHOOSE r \in old : TRUE).until

MarkedUntil(kind, wait, terminal, until) ==
    CASE wait > 0                                                -> now + wait
      [] wait = 0 /\ kind = "terminal" /\ terminal >= Threshold  -> now + Cooldown
      [] wait = 0 /\ kind \in Retryable                          -> now
      [] OTHER                                                   -> IF until > now THEN until ELSE now

Marked(i, kind, wait, old) ==
    LET terminal == TerminalOf(old) + (IF kind \in Retryable THEN 0 ELSE 1)
    IN  NewRow(i, terminal, MarkedUntil(kind, wait, terminal, UntilOf(old)))

\* markFailure reads the row; one it cannot read counts as none.
ReadRow(c) ==
    LET s == call[c]
    IN  /\ s.pc = "read"
        /\ \/ /\ Become(c, [s EXCEPT !.pc = "delete",
                                     !.new = Marked(s.intent, s.kind, s.wait, RowOf(s.intent))])
              /\ UNCHANGED failures
           \/ /\ FailDb
              /\ Become(c, [s EXCEPT !.pc = "delete",
                                     !.new = Marked(s.intent, s.kind, s.wait, {})])
        /\ Answered(s.intent, s.kind, s.wait)
        /\ UNCHANGED <<now, rows, begun>>

\* The retry does not wait as long as the platform asked.
MutAfterMark(c) ==
    LET s == call[c]
    IN  IF s.kind \in Retryable /\ s.attempt < MaxRetries
        THEN Become(c, [s EXCEPT !.pc = "sleep", !.wake = now])
        ELSE Return(c)

\* After the mark: a retryable failure with attempts left waits and tries
\* again, anything else ends the call.
AfterMark(c) ==
    LET s == call[c]
    IN  IF s.kind \in Retryable /\ s.attempt < MaxRetries
        THEN Become(c, [s EXCEPT !.pc = "sleep", !.wake = now + s.wait])
        ELSE Return(c)

\* A failed delete leaves the row; its answer is ignored.
DeleteRow(c) ==
    /\ call[c].pc = "delete"
    /\ \/ /\ rows' = rows \ RowOf(call[c].intent)
          /\ Become(c, [call[c] EXCEPT !.pc = "insert"])
          /\ UNCHANGED failures
       \/ FailDb /\ UNCHANGED rows /\ AfterMark(c)
    /\ UNCHANGED <<now, log, begun>>

\* An insert that meets another call's row is tried again.
MutInsertRow(c) ==
    /\ call[c].pc = "insert"
    /\ RowOf(call[c].intent) = {}
    /\ rows' = rows \cup {call[c].new}
    /\ AfterMark(c)
    /\ UNCHANGED <<now, log, begun, failures>>

\* An insert that meets another call's row fails on the primary key.
InsertRow(c) ==
    /\ call[c].pc = "insert"
    /\ \/ /\ rows' = IF RowOf(call[c].intent) = {} THEN rows \cup {call[c].new} ELSE rows
          /\ UNCHANGED failures
       \/ FailDb /\ UNCHANGED rows
    /\ AfterMark(c)
    /\ UNCHANGED <<now, log, begun>>

\* The next attempt does not wait.
MutWake(c) ==
    /\ call[c].pc = "sleep"
    /\ Become(c, [call[c] EXCEPT !.pc = "run", !.attempt = @ + 1])
    /\ UNCHANGED <<now, rows, log, begun, failures>>

\* The next attempt carries the same request; the cooldown is not looked at
\* again.  A start that telemetry cannot store ends the call.
Wake(c) ==
    /\ call[c].pc = "sleep" /\ call[c].wake <= now
    /\ \/ /\ Become(c, [call[c] EXCEPT !.pc = "run", !.attempt = @ + 1])
          /\ UNCHANGED failures
       \/ FailDb /\ Return(c)
    /\ UNCHANGED <<now, rows, log, begun>>

\* The clock runs while a request may begin, and on while one is waited for.
Tick ==
    /\ \/ now < MaxTime
       \/ \E r \in rows : r.until > now
       \/ \E c \in Calls : call[c].pc = "sleep" /\ call[c].wake > now
    /\ now' = now + 1
    /\ UNCHANGED <<rows, call, log, begun, failures>>

Step(c) ==
    \/ Check(c) \/ Plan(c) \/ Run(c) \/ ReadRow(c) \/ DeleteRow(c) \/ InsertRow(c)
    \/ Wake(c)

Next ==
    \/ \E c \in Calls, i \in Intents : Begin(c, i)
    \/ \E c \in Calls : Step(c)
    \/ Tick

Spec == Init /\ [][Next]_vars
FairSpec == Spec /\ WF_vars(Tick) /\ \A c \in Calls : WF_vars(Step(c))

-----------------------------------------------------------------------------
\* A cooldown in force goes back to an answer of the platform: a wait it
\* asked for, or the last of at least Threshold terminal failures.
BlockJustified ==
    \A r \in rows : r.until > now =>
        \E k \in DOMAIN log[r.intent] :
            LET e == log[r.intent][k]
            IN  \/ e.kind = "rate_limited" /\ r.until = e.at + e.wait
                \/ /\ e.kind = "terminal" /\ r.until = e.at + Cooldown
                   /\ Cardinality({m \in 1..k : log[r.intent][m].kind = "terminal"})
                        >= Threshold

\* Once nothing is in progress for an intent, its repeated terminal failures
\* have closed it for a whole cooldown from the last one.
RepeatedFailureBlocks ==
    \A i \in Intents :
        LET n == Len(log[i])
            terminal == {m \in 1..n : log[i][m].kind = "terminal"}
        IN  /\ \A c \in Calls : call[c].intent = i => call[c].pc \in {"idle", "check"}
            /\ n > 0 /\ n \in terminal /\ Cardinality(terminal) >= Threshold
            => \E r \in rows : r.intent = i /\ r.until >= log[i][n].at + Cooldown

\* No attempt, first or repeated, is made while the cooldown is in force.
NoAttemptInCooldown == \A c \in Calls : call[c].pc = "run" => ~Blocked(call[c].intent)

\* Every call returns, whatever waits and failures it meets.
CallsReturn == \A c \in Calls : call[c].pc # "idle" ~> call[c].pc = "idle"

\* A cooldown is bounded: no capability stays closed for ever.
BlockExpires == \A i \in Intents : Blocked(i) ~> ~Blocked(i)

=============================================================================
