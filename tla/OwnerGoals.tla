----------------------------- MODULE OwnerGoals -----------------------------
(***************************************************************************)
(* The owner's goals of one kind and scope: setting a goal replaces the    *)
(* accepted ones and stores its own, a proposal is accepted or rejected,   *)
(* and snapshots of the table are captured and restored.  A command reads  *)
(* first and writes later, and commands may overlap.                       *)
(***************************************************************************)
EXTENDS Naturals, FiniteSets

CONSTANTS
    Owners,         \* the callers that may be inside a command at once
    Goals,          \* the ids of the goals
    SnapshotsKept,  \* DEFAULT_RETENTION_COUNT
    MaxCommands     \* bound: commands begun

ASSUME GoalAssumption == SnapshotsKept \in Nat \ {0} /\ MaxCommands \in Nat

VARIABLES
    goals,      \* the rows of agent_goal, by id
    snapshots,  \* the rows of restore_snapshot: the goals at a time
    commands,   \* what each caller is doing
    begunCommands,  \* how many commands have begun
    goalClock,  \* the clock of updatedAt and capturedAt: stamps given out
    chosen,     \* the goal last set or accepted by the owner, {} before
    history     \* what has happened that a promise may except

goalVars == <<goals, snapshots, commands, begunCommands, goalClock, chosen, history>>

NoGoal == [status |-> "absent", at |-> 0]
NoCommand == [op |-> "none", goal |-> "", at |-> 0, old |-> {}]

\* Nothing in the repository stores a proposal; a database may bring some.
GoalsInit ==
    /\ goals \in [Goals -> {NoGoal, [status |-> "proposal", at |-> 0]}]
    /\ snapshots = {} /\ commands = [c \in Owners |-> NoCommand]
    /\ begunCommands = 0 /\ goalClock = 0 /\ chosen = {} /\ history = {}

AcceptedGoals == {g \in Goals : goals[g].status = "accepted"}

\* listAgentGoals for the heartbeat: of the accepted goals of one kind and
\* scope only the one updated last is listed.
Listed == {g \in AcceptedGoals : \A h \in AcceptedGoals : goals[h].at <= goals[g].at}

CommandOpen == \E c \in Owners : commands[c].op # "none"
StartCommand(c, command) ==
    /\ commands[c].op = "none" /\ begunCommands < MaxCommands /\ begunCommands' = begunCommands + 1
    /\ commands' = [commands EXCEPT ![c] = command]
    /\ history' = history \cup (IF CommandOpen THEN {"overlap"} ELSE {})
CommandTo(c, op) == commands' = [commands EXCEPT ![c].op = op]
EndCommand(c) == commands' = [commands EXCEPT ![c] = NoCommand]
Stamp == goalClock' = goalClock + 1
-----------------------------------------------------------------------------

\* The other accepted goals give way to the one that is set.
ToReplace(g) == AcceptedGoals \ {g}

\* goal set: one stamp for the whole command, and the goals to replace.
SetGoal(c) ==
    /\ \E g \in Goals :
        StartCommand(c, [op |-> IF ToReplace(g) = {} THEN "looking" ELSE "replacing",
                          goal |-> g, at |-> goalClock + 1, old |-> ToReplace(g)])
    /\ Stamp /\ UNCHANGED <<goals, snapshots, chosen>>

\* The goals found are replaced one by one, whatever they are by now.
ReplaceGoal(c) ==
    /\ commands[c].op = "replacing"
    /\ \E g \in commands[c].old :
        /\ goals' = [goals EXCEPT ![g] = [status |-> "replaced", at |-> commands[c].at]]
        /\ commands' = [commands EXCEPT ![c].old = @ \ {g},
                                        ![c].op = IF commands[c].old = {g} THEN "looking" ELSE "replacing"]
    /\ UNCHANGED <<snapshots, begunCommands, goalClock, chosen, history>>

\* Is there a row to update?
LookUpGoal(c) ==
    /\ commands[c].op = "looking"
    /\ CommandTo(c, IF goals[commands[c].goal] = NoGoal THEN "inserting" ELSE "updating")
    /\ UNCHANGED <<goals, snapshots, begunCommands, goalClock, chosen, history>>

\* The goals of a caller who stores a row under the id of its command.
GoalStored(c, row) == goals' = [goals EXCEPT ![commands[c].goal] = row]

MutStoreGoal(c) ==
    /\ commands[c].op \in {"inserting", "updating"} /\ EndCommand(c) /\ chosen' = {commands[c].goal}
    /\ GoalStored(c, [status |-> IF commands[c].op = "inserting" THEN "accepted" ELSE goals[commands[c].goal].status,
                      at |-> commands[c].at])
    /\ UNCHANGED <<snapshots, begunCommands, goalClock, history>>
\* An insert under an id that is taken by now throws.
StoreGoal(c) ==
    /\ commands[c].op \in {"inserting", "updating"} /\ EndCommand(c)
    /\ IF commands[c].op = "inserting" /\ goals[commands[c].goal] # NoGoal
       THEN UNCHANGED <<goals, chosen>>
       ELSE /\ GoalStored(c, [status |-> "accepted", at |-> commands[c].at])
            /\ chosen' = {commands[c].goal}
    /\ UNCHANGED <<snapshots, begunCommands, goalClock, history>>

\* goal accept and goal reject: only a proposal is decided.
DecideGoal(c) ==
    /\ \E g \in Goals, op \in {"accepting", "rejecting"} :
        /\ goals[g].status = "proposal"
        /\ StartCommand(c, [NoCommand EXCEPT !.op = op, !.goal = g])
    /\ UNCHANGED <<goals, snapshots, goalClock, chosen>>

\* transitionGoalStatus writes without looking again; accepting replaces nothing.
AcceptGoal(c) ==
    /\ commands[c].op = "accepting" /\ EndCommand(c) /\ Stamp
    /\ GoalStored(c, [status |-> "accepted", at |-> goalClock + 1])
    /\ chosen' = {commands[c].goal} /\ history' = history \cup {"accept"}
    /\ UNCHANGED <<snapshots, begunCommands>>
RejectGoal(c) ==
    /\ commands[c].op = "rejecting" /\ EndCommand(c) /\ Stamp
    /\ GoalStored(c, [status |-> "rejected", at |-> goalClock + 1])
    /\ history' = history \cup
           (IF goals[commands[c].goal].status = "proposal" THEN {} ELSE {"overruled"})
    /\ UNCHANGED <<snapshots, begunCommands, chosen>>
-----------------------------------------------------------------------------

\* snapshot:capture takes its time first, appends to the narrative timeline,
\* and reads and stores the rows later; the oldest snapshots are dropped.
BeginCapture(c) ==
    /\ StartCommand(c, [NoCommand EXCEPT !.op = "capturing", !.at = goalClock + 1])
    /\ Stamp /\ UNCHANGED <<goals, snapshots, chosen>>
Trimmed(rows) == {s \in rows : Cardinality({t \in rows : t.at > s.at}) < SnapshotsKept}
CaptureSnapshot(c) ==
    /\ commands[c].op = "capturing" /\ EndCommand(c)
    /\ snapshots' = Trimmed(snapshots \cup {[at |-> commands[c].at, rows |-> goals]})
    /\ UNCHANGED <<goals, begunCommands, goalClock, chosen, history>>

\* restore finds the snapshot by its id, or is given a target it does not check.
BeginRestore(c) ==
    /\ \E at \in {0} \cup {s.at : s \in snapshots} :
        StartCommand(c, [NoCommand EXCEPT !.op = "restoring", !.at = at])
    /\ UNCHANGED <<goals, snapshots, goalClock, chosen>>
LatestSnapshots == {s \in snapshots : \A t \in snapshots : t.at <= s.at}
SnapshotFor(at) ==
    IF \E s \in snapshots : s.at = at THEN {s \in snapshots : s.at = at} ELSE LatestSnapshots
\* The target, or the latest snapshot in its place: its rows replace those of
\* their ids, and the rows it does not have stay.
ApplyRestore(c) ==
    /\ commands[c].op = "restoring" /\ EndCommand(c) /\ history' = history \cup {"restore"}
    /\ IF snapshots = {} THEN UNCHANGED goals
       ELSE \E s \in SnapshotFor(commands[c].at) :
              goals' = [g \in Goals |-> IF s.rows[g] = NoGoal THEN goals[g] ELSE s.rows[g]]
    /\ UNCHANGED <<snapshots, begunCommands, goalClock, chosen>>

\* A store call throws: the command ends, and what is written stays.
FailCommand(c) ==
    /\ commands[c].op # "none" /\ "failure" \notin history /\ EndCommand(c)
    /\ history' = history \cup {"failure"}
    /\ UNCHANGED <<goals, snapshots, begunCommands, goalClock, chosen>>

GoalStep(c) ==
    \/ SetGoal(c) \/ ReplaceGoal(c) \/ LookUpGoal(c) \/ StoreGoal(c)
    \/ DecideGoal(c) \/ AcceptGoal(c) \/ RejectGoal(c)
    \/ BeginCapture(c) \/ CaptureSnapshot(c) \/ BeginRestore(c) \/ ApplyRestore(c)
    \/ FailCommand(c)
GoalsNext == \E c \in Owners : GoalStep(c)

GoalsSpec == GoalsInit /\ [][GoalsNext]_goalVars
-----------------------------------------------------------------------------

GoalStatuses == {"absent", "proposal", "accepted", "rejected", "replaced"}

\* The types of the variables.
GoalsTypeOK ==
    /\ goals \in [Goals -> [status : GoalStatuses, at : 0..goalClock]]
    /\ \A s \in snapshots : s.at \in 1..goalClock /\ s.rows \in [Goals -> [status : GoalStatuses, at : 0..goalClock]]
    /\ Cardinality(snapshots) <= SnapshotsKept
    /\ \A c \in Owners : commands[c].at \in 0..goalClock /\ commands[c].old \subseteq Goals
    /\ begunCommands \in 0..MaxCommands /\ goalClock \in 0..begunCommands /\ chosen \subseteq Goals

\* Commands that overlap may leave two accepted goals, never none: once the
\* owner has chosen a goal, the heartbeat has one to read except while a
\* command is between replacing and storing.  A failed command, a rejection that
\* meets a goal set in the meantime, and a restore may take it away
\* (agent-goal-store.ts upsertAgentGoal).
NeverGoalless ==
    (chosen # {} /\ history \cap {"failure", "overruled", "restore"} = {}) =>
        \/ AcceptedGoals # {}
        \/ \E c \in Owners : commands[c].op \in {"replacing", "looking", "inserting", "updating"}

\* One command at a time, the heartbeat reads the goal chosen last, although
\* accepting a proposal leaves the goal before it accepted, and goals that are
\* only ever set leave one accepted goal (05A_TASKS.md: only the latest
\* accepted goal of a kind and scope counts).
LatestCounts ==
    (~CommandOpen /\ history \cap {"overlap", "failure", "restore"} = {}) =>
        /\ chosen # {} => Listed = chosen
        /\ "accept" \notin history => Cardinality(AcceptedGoals) <= 1
=============================================================================
