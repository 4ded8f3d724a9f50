------------------------- MODULE ConnectorEvolution -------------------------
(***************************************************************************)
(* How the agent changes a connector by itself: an evolution plan becomes  *)
(* a version that passes six gates, is activated, entered in the ledger    *)
(* and watched by a canary; a failed canary, or the owner, rolls a version *)
(* back to the one before it; old manifests are migrated to candidates.    *)
(* One platform; calls may overlap.  What the store refuses is swallowed:  *)
(* a refused update changes nothing, a refused read finds nothing, and the *)
(* call goes on and reports success.                                       *)
(***************************************************************************)
EXTENDS Naturals, FiniteSets, Sequences

CONSTANTS
    Engines,        \* the callers that may be inside the engine at once
    MaxVersions     \* bound: versions derived, and calls that derive none

ASSUME EvolutionAssumption == MaxVersions \in Nat

VARIABLES
    versions,   \* the version rows; "born" orders them by createdAt
    evolving,   \* what each caller is doing
    born,       \* how many calls have begun
    changes,    \* the change ledger: activations and rollbacks of versions
    mishaps,    \* history: what has gone other than the engine expects
    served      \* history: TRUE from an activation until a failure or a crossed
                \* demotion that leaves no version active

evolutionVars == <<versions, evolving, born, changes, mishaps, served>>

\* Two calls overlapped; the owner rolled back a version that was not active; a
\* call died between its writes; the store refused an update or a read.
Mishaps == {"overlap", "stray", "death", "refused"}

VersionStates == {"candidate", "active", "rolled_back"}
NoEvolution == [op |-> "none", row |-> 0, prev |-> 0, born |-> 0]

EvolutionInit ==
    /\ versions = <<>> /\ evolving = [n \in Engines |-> NoEvolution] /\ born = 0
    /\ changes = <<>> /\ mishaps = {} /\ served = FALSE

\* readActiveConnectorVersion: the active version with the latest createdAt.
ActiveVersions == {v \in DOMAIN versions : versions[v].status = "active"}
ActiveVersion ==
    IF ActiveVersions = {} THEN 0
    ELSE CHOOSE v \in ActiveVersions : \A u \in ActiveVersions : versions[u].born <= versions[v].born

Engaged == \E n \in Engines : evolving[n].op # "none"
When(condition, mishap) == IF condition THEN {mishap} ELSE {}
StartEvolution(n, next, mishap) ==
    /\ evolving[n].op = "none" /\ born < MaxVersions /\ born' = born + 1
    /\ evolving' = [evolving EXCEPT ![n] = [next EXCEPT !.born = born + 1]]
    /\ mishaps' = mishaps \cup When(Engaged, "overlap") \cup mishap
EndEvolution(n) == evolving' = [evolving EXCEPT ![n] = NoEvolution]
GoOn(n, op) == evolving' = [evolving EXCEPT ![n].op = op]

Row(status, n) == [status |-> status, prev |-> evolving[n].prev, born |-> evolving[n].born, migrated |-> evolving[n].op = "migrating"]
SetStatus(v, status) == versions' = [versions EXCEPT ![v].status = status]
\* updateConnectorVersionStatus: written, or refused by the store and swallowed.
Update(v, status) ==
    \/ SetStatus(v, status) /\ UNCHANGED mishaps
    \/ UNCHANGED versions /\ mishaps' = mishaps \cup {"refused"}
SomeActive == \E v \in DOMAIN versions : versions[v].status = "active"
StillServed == served' = (served /\ SomeActive')
Enter(kind, v) == changes' = Append(changes, [kind |-> kind, version |-> v])
-----------------------------------------------------------------------------

\* applyConnectorEvolution: the version before this one is the active one, or
\* else the one the plan names; nothing checks that one's status.  A refused
\* read takes the active one for missing ("row" remembers the one seen).
ApplyEvolution(n) ==
    /\ \E seen \in {0, ActiveVersion}, named \in {0} \cup DOMAIN versions :
        StartEvolution(n, [NoEvolution EXCEPT !.op = "gating", !.row = seen,
                                              !.prev = IF seen # 0 THEN seen ELSE named],
                       When(seen # ActiveVersion, "refused"))
    /\ UNCHANGED <<versions, changes, served>>

\* The six gates before activation: the first that fails blocks the version,
\* which is stored as a candidate.
GateFails(n) ==
    /\ evolving[n].op = "gating" /\ EndEvolution(n)
    /\ versions' = Append(versions, Row("candidate", n))
    /\ UNCHANGED <<born, changes, mishaps, served>>

\* All gates passed: the version is stored as active, and only then is the
\* version that was active when the call began marked rolled back.
MutAfterGates(n) == "entering"
AfterGates(n) == IF evolving[n].row = 0 THEN "entering" ELSE "demoting"
GatedStatus == "active"
GatesPass(n) ==
    /\ evolving[n].op = "gating" /\ served' = TRUE
    /\ versions' = Append(versions, Row(GatedStatus, n))
    /\ evolving' = [evolving EXCEPT ![n].op = AfterGates(n), ![n].row = Len(versions) + 1]
    /\ UNCHANGED <<born, changes, mishaps>>

\* The predecessor is demoted whatever has become meanwhile of the version that
\* takes its place: rolled back by another call, it leaves none.
Demote(n) ==
    /\ evolving[n].op = "demoting" /\ GoOn(n, "entering") /\ Update(evolving[n].prev, "rolled_back")
    /\ served' = (served /\ (versions[evolving[n].row].status = "active" \/ SomeActive'))
    /\ UNCHANGED <<born, changes>>

EnterActivation(n) ==
    /\ evolving[n].op = "entering" /\ GoOn(n, "canary") /\ Enter("activated", evolving[n].row)
    /\ UNCHANGED <<versions, born, mishaps, served>>

\* The canary looks at the version after it has become active.
Canary(n) ==
    /\ evolving[n].op = "canary"
    /\ \/ EndEvolution(n)
       \/ GoOn(n, "loading")
    /\ UNCHANGED <<versions, born, changes, mishaps, served>>

\* rollbackConnectorVersion of any version, whatever its status.
RollbackByHand(n) ==
    /\ \E v \in DOMAIN versions :
        StartEvolution(n, [NoEvolution EXCEPT !.op = "loading", !.row = v],
                       When(versions[v].status # "active", "stray"))
    /\ UNCHANGED <<versions, changes, served>>

\* Without a version before it, or when the store refuses to read either of the
\* two, a rollback is blocked.
LoadVersions(n) ==
    /\ evolving[n].op = "loading"
    /\ \/ EndEvolution(n)
       \/ /\ versions[evolving[n].row].prev # 0
          /\ evolving' = [evolving EXCEPT ![n].op = "retracting", ![n].prev = versions[evolving[n].row].prev]
    /\ UNCHANGED <<versions, born, changes, mishaps, served>>

Retract(n) ==
    /\ evolving[n].op = "retracting" /\ GoOn(n, "restoring") /\ Update(evolving[n].row, "rolled_back")
    /\ UNCHANGED <<born, changes, served>>

Restore(n) ==
    /\ evolving[n].op = "restoring" /\ GoOn(n, "noting") /\ Update(evolving[n].prev, "active")
    /\ StillServed /\ UNCHANGED <<born, changes>>

\* The ledger entry; the asset files are then copied back, which is not
\* modelled here and whose failure the engine ignores.
EnterRollback(n) ==
    /\ evolving[n].op = "noting" /\ EndEvolution(n) /\ Enter("rolled_back", evolving[n].row)
    /\ UNCHANGED <<versions, born, mishaps, served>>

\* migrateV8ConnectorManifest: without an active version (or when the store
\* refuses to read it) and an earlier migration, a candidate with no version
\* before it.  All migrated versions of a platform have the same name; here
\* there is one: callers migrate one at a time, and the read by that name is
\* not refused.
Migrate(n) ==
    /\ \A v \in DOMAIN versions : ~versions[v].migrated
    /\ \A m \in Engines : evolving[m].op # "migrating"
    /\ StartEvolution(n, [NoEvolution EXCEPT !.op = "migrating"], When(ActiveVersion # 0, "refused"))
    /\ UNCHANGED <<versions, changes, served>>
WriteMigrated(n) ==
    /\ evolving[n].op = "migrating" /\ EndEvolution(n)
    /\ versions' = Append(versions, Row("candidate", n))
    /\ UNCHANGED <<born, changes, mishaps, served>>

\* A call throws (the ledger write, say), or the process dies.
HaltEvolution(n) ==
    /\ evolving[n].op # "none" /\ mishaps' = mishaps \cup {"death"} /\ EndEvolution(n)
    /\ UNCHANGED <<versions, born, changes>> /\ StillServed

EngineStep(n) ==
    \/ ApplyEvolution(n) \/ GateFails(n) \/ GatesPass(n) \/ Demote(n) \/ EnterActivation(n)
    \/ Canary(n) \/ RollbackByHand(n) \/ LoadVersions(n) \/ Retract(n) \/ Restore(n)
    \/ EnterRollback(n) \/ Migrate(n) \/ WriteMigrated(n) \/ HaltEvolution(n)
EvolutionNext == \E n \in Engines : EngineStep(n)

EvolutionSpec == EvolutionInit /\ [][EvolutionNext]_evolutionVars
-----------------------------------------------------------------------------

\* The types of the variables; a version's predecessor is an earlier row.
EvolutionTypeOK ==
    /\ versions \in Seq([status : VersionStates, prev : 0..MaxVersions, born : 1..MaxVersions, migrated : BOOLEAN])
    /\ \A v \in DOMAIN versions : versions[v].prev < v
    /\ \A n \in Engines : evolving[n].row \in 0..Len(versions) /\ evolving[n].prev \in 0..Len(versions)
    /\ born \in 0..MaxVersions /\ changes \in Seq([kind : {"activated", "rolled_back"}, version : DOMAIN versions])
    /\ mishaps \subseteq Mishaps /\ served \in BOOLEAN

\* Between calls at most one version of the platform is active, as long as the
\* store took every update and read, no call died or overlapped another, and
\* the owner rolled back active versions only (applyConnectorEvolution,
\* rollbackConnectorVersion).
OneActiveVersion == (~Engaged /\ mishaps = {}) => Cardinality(ActiveVersions) <= 1

\* Once a version has been activated the platform keeps an active one, however
\* calls overlap and whatever the store refused or the owner rolled back before:
\* activation comes before demotion, and only a rollback is, for one step,
\* without one.  What may take the last one is a restoration lost to a death or
\* to a refusing store, and a demotion by a call whose own version was rolled
\* back meanwhile (applyConnectorEvolution, rollbackConnectorVersion).
NeverWithout ==
    served =>
        \/ ActiveVersions # {}
        \/ \E n \in Engines : evolving[n].op = "restoring"

\* A call that activated a version runs its canary against that version: it is
\* the one readActiveConnectorVersion finds, even when the predecessor could not
\* be demoted or stray versions are active beside it, unless calls overlapped.
ActivationCounts ==
    "overlap" \notin mishaps =>
        \A n \in Engines : evolving[n].op = "canary" => ActiveVersion = evolving[n].row

\* Between calls the last entry of the ledger tells which version is active, the
\* activated one or the one before the version that was rolled back, under the
\* conditions of OneActiveVersion.
LedgerTellsActive ==
    (~Engaged /\ mishaps = {} /\ changes # <<>>) =>
        LET last == changes[Len(changes)] IN
        ActiveVersion = IF last.kind = "activated" THEN last.version ELSE versions[last.version].prev

\* The versions of a platform fit together: one is active once there has been one,
\* the newest activation counts, and the ledger tells which it is, each as long as
\* nothing its comment excepts has happened.
VersionsConsistent == OneActiveVersion /\ NeverWithout /\ ActivationCounts /\ LedgerTellsActive
=============================================================================
