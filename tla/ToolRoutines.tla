----------------------------- MODULE ToolRoutines -----------------------------
(***************************************************************************)
(* Tool routines: scripted sequences of capabilities the agent installs    *)
(* for itself.  A candidate passes the validation of its guard and of its  *)
(* steps, is stored active, entered in the change ledger and linked to its *)
(* entry; it is invoked, each invocation leaving a trace, and retired.     *)
(* Calls may overlap: every store call is awaited.  An update of a row the *)
(* store refuses is swallowed, and the call goes on as if it was written.  *)
(***************************************************************************)
EXTENDS Naturals, FiniteSets, Sequences

CONSTANTS
    Routines,       \* the ids of the routines
    Hands,          \* the callers that may be inside the registry at once
    ReadCaps,       \* capabilities without side effect
    WriteCaps,      \* capabilities that write outside
    MaxCalls        \* bound: calls begun

ASSUME RoutineAssumption == MaxCalls \in Nat /\ ReadCaps \cap WriteCaps = {}

VARIABLES
    routines,       \* the routine rows, by id
    hands,          \* what each caller is doing
    calls,          \* how many calls have begun
    routineLog,     \* ledger entries and traces, in the order they were written
    trouble         \* history, by routine: calls on it overlapped, one died, or its
                    \* retirement was refused by the store

routineVars == <<routines, hands, calls, routineLog, trouble>>

Troubles == {"overlap", "death", "refused"}

Caps == ReadCaps \cup WriteCaps
IdleHand == [op |-> "none", routine |-> "none"]

\* A candidate: where it may come from (trigger), what its guard allows and
\* denies, whether the ceiling of the guard is an external write, and the
\* capabilities of its steps.
Candidates == [trigger : SUBSET Caps, allowed : SUBSET Caps, denied : SUBSET Caps,
               mayWrite : BOOLEAN, steps : SUBSET Caps]
NoCandidate == [trigger |-> {}, allowed |-> {}, denied |-> {}, mayWrite |-> FALSE, steps |-> {}]
NoRoutine == [status |-> "absent", linked |-> FALSE, is |-> NoCandidate]

\* validateGuardSchema: the guard may not go beyond the routine's provenance.
GuardAdmits(c) ==
    /\ c.allowed \subseteq c.trigger
    /\ c.mayWrite => c.trigger \cap WriteCaps # {}

\* validateSandboxCompliance: an empty allow-list is not looked at.  Scriptable
\* steps, step counts and timeouts are refused here too; nothing else depends
\* on them, and they are left out.
SandboxAdmits(c) ==
    /\ c.allowed # {} => c.steps \subseteq c.allowed
    /\ c.steps \cap c.denied = {}
Admitted == {c \in Candidates : GuardAdmits(c) /\ SandboxAdmits(c)}

RoutinesInit ==
    /\ routines = [r \in Routines |-> NoRoutine] /\ hands = [h \in Hands |-> IdleHand]
    /\ calls = 0 /\ routineLog = <<>> /\ trouble = [r \in Routines |-> {}]

OnHands(r) == \E h \in Hands : hands[h].op # "none" /\ hands[h].routine = r
Befalls(what, r) == trouble' = [trouble EXCEPT ![r] = @ \cup {what}]
StartCall(h, op, r) ==
    /\ hands[h].op = "none" /\ calls < MaxCalls /\ calls' = calls + 1
    /\ hands' = [hands EXCEPT ![h] = [op |-> op, routine |-> r]]
    /\ IF OnHands(r) THEN Befalls("overlap", r) ELSE UNCHANGED trouble
EndCall(h) == hands' = [hands EXCEPT ![h] = IdleHand]
Log(kind, r) == routineLog' = Append(routineLog, [kind |-> kind, routine |-> r])
-----------------------------------------------------------------------------

\* installToolRoutine of a candidate the policy gate allows: what is not
\* admitted is refused without a trace; the rest is stored active.  A second
\* insert of an id throws.
Install(h) ==
    /\ \E r \in Routines :
        /\ routines[r].status = "absent" /\ StartCall(h, "entering", r)
        /\ \E c \in Admitted :
               routines' = [routines EXCEPT ![r] = [status |-> "active", linked |-> FALSE, is |-> c]]
    /\ UNCHANGED routineLog
EnterInstall(h) ==
    /\ hands[h].op = "entering" /\ hands' = [hands EXCEPT ![h].op = "linking"]
    /\ Log("install", hands[h].routine) /\ UNCHANGED <<routines, calls, trouble>>
\* The link to the ledger entry is written together with the status "active",
\* whatever has become of the routine, unless the store refuses both.
LinkLedger(h) ==
    /\ hands[h].op = "linking" /\ EndCall(h)
    /\ \/ routines' = [routines EXCEPT ![hands[h].routine].status = "active", ![hands[h].routine].linked = TRUE]
       \/ UNCHANGED routines
    /\ UNCHANGED <<calls, routineLog, trouble>>

\* invokeToolRoutine and retireToolRoutine read the row and go on only with
\* an active one; an invocation the caller's policy refused leaves a denied
\* trace.
Usable(r) == routines[r].status = "active"
Invoke(h) ==
    /\ \E r \in Routines : /\ Usable(r)
                           /\ \E op \in {"running", "refusing"} : StartCall(h, op, r)
    /\ UNCHANGED <<routines, routineLog>>
WriteTrace(h) ==
    /\ hands[h].op \in {"running", "refusing"} /\ EndCall(h)
    /\ Log(IF hands[h].op = "running" THEN "executed" ELSE "denied", hands[h].routine)
    /\ UNCHANGED <<routines, calls, trouble>>

\* A retired routine is retired again.
MutRetirable(r) == routines[r].status # "absent"
Retirable(r) == Usable(r)
BeginRetire(h) ==
    /\ \E r \in Routines : Retirable(r) /\ StartCall(h, "retiring", r)
    /\ UNCHANGED <<routines, routineLog>>
\* The row is retired, or the store refuses; the entry is written in either case.
RetireRow(h) ==
    /\ hands[h].op = "retiring" /\ hands' = [hands EXCEPT ![h].op = "noting"]
    /\ \/ routines' = [routines EXCEPT ![hands[h].routine].status = "retired"] /\ UNCHANGED trouble
       \/ UNCHANGED routines /\ Befalls("refused", hands[h].routine)
    /\ UNCHANGED <<calls, routineLog>>
EnterRetire(h) ==
    /\ hands[h].op = "noting" /\ EndCall(h) /\ Log("retire", hands[h].routine)
    /\ UNCHANGED <<routines, calls, trouble>>

\* A store call throws, or the process dies.
DropCall(h) ==
    /\ hands[h].op # "none" /\ Befalls("death", hands[h].routine) /\ EndCall(h)
    /\ UNCHANGED <<routines, calls, routineLog>>

RoutineStep(h) ==
    \/ Install(h) \/ EnterInstall(h) \/ LinkLedger(h) \/ Invoke(h) \/ WriteTrace(h)
    \/ BeginRetire(h) \/ RetireRow(h) \/ EnterRetire(h) \/ DropCall(h)
RoutinesNext == \E h \in Hands : RoutineStep(h)
RoutinesSpec == RoutinesInit /\ [][RoutinesNext]_routineVars
-----------------------------------------------------------------------------

Entries(kind, r) == {i \in DOMAIN routineLog : routineLog[i] = [kind |-> kind, routine |-> r]}

\* The types of the variables; what is linked has its entry.
RoutinesTypeOK ==
    /\ \A r \in Routines : /\ routines[r].status \in {"absent", "active", "retired"}
                           /\ routines[r].is \in Candidates
                           /\ routines[r].linked => Entries("install", r) # {}
    /\ calls \in 0..MaxCalls /\ Len(routineLog) <= calls /\ trouble \in [Routines -> SUBSET Troubles]

\* The steps of an installed routine use only capabilities its provenance has
\* and its guard does not deny, provided the guard names what it allows
\* (validateGuardSchema, validateSandboxCompliance).
StepsWithinProvenance ==
    \A r \in Routines : LET c == routines[r].is IN
        /\ c.steps \cap c.denied = {}
        /\ c.allowed # {} => c.steps \subseteq c.trigger
        /\ c.mayWrite => c.trigger \cap WriteCaps # {}

\* A routine whose calls did not overlap and whose retirement the store took is
\* retired once, and nothing runs it after that, whatever calls died and whatever
\* became of the other routines (retireToolRoutine, invokeToolRoutine).
RetiredOnceForAll ==
    \A r \in Routines : trouble[r] \subseteq {"death"} =>
        /\ Cardinality(Entries("retire", r)) <= 1
        /\ \A i \in Entries("retire", r), j \in Entries("executed", r) : j < i

\* When no call on it is under way the ledger tells the state of a routine,
\* unless trouble has befallen it (installToolRoutine, retireToolRoutine).
LedgerTellsStatus ==
    \A r \in Routines : trouble[r] = {} /\ ~OnHands(r) =>
        routines[r].status = IF Entries("retire", r) # {} THEN "retired"
                             ELSE IF Entries("install", r) # {} THEN "active" ELSE "absent"

\* A routine is what was admitted, ends when it is retired, and the ledger
\* tells its state.
RoutinesConsistent == StepsWithinProvenance /\ RetiredOnceForAll /\ LedgerTellsStatus
=============================================================================
