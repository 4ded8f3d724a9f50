---------------------------- MODULE StateDatabase ----------------------------
(***************************************************************************)
(* The state database: every process reads the whole file once, brings its *)
(* schema up to date, works on its image in memory and writes the whole    *)
(* image back over the file at the end of every command and when it        *)
(* closes.  A database left by an earlier release is upgraded on opening.  *)
(***************************************************************************)
EXTENDS Naturals, FiniteSets

CONSTANTS
    Processes,      \* the processes that may have the database open
    Latest,         \* the version of the newest migration
    Adding,         \* the migrations that add columns to existing tables
    Defended,       \* those whose columns the defensive pass adds as well
    OldVersions,    \* the versions a file of an earlier release may be at
    MaxChanges,     \* bound: rows written
    MaxOpenings     \* bound: times the database is opened

ASSUME DatabaseAssumption ==
    /\ Latest \in Nat \ {0} /\ Defended \subseteq Adding /\ Adding \subseteq 1..Latest
    /\ OldVersions \subseteq 0..Latest /\ MaxChanges \in Nat /\ MaxOpenings \in Nat
\* The defensive pass was written for the last of the migrations.
ASSUME DefensiveAssumption == \A m \in Adding \ Defended, d \in Defended : m < d

VARIABLES
    file,       \* the image on disk
    memory,     \* the image of each process
    doing,      \* what each process is doing
    written,    \* the rows ever written by a process that flushed or closed since
    openings,   \* how many times the database has been opened
    shared,     \* TRUE once two processes had the database open together
    torn,       \* TRUE while the file holds part of an image
    cut         \* TRUE once a process has died while it wrote the file

databaseVars == <<file, memory, doing, written, openings, shared, torn, cut>>

\* An image: its version (0 when none is recorded), the migrations whose
\* columns it has, its rows, its failure mark, and whether it is an old file
\* that was taken for a new one.
NoImage == [exists |-> FALSE, version |-> 0, columns |-> {}, rows |-> {},
            failed |-> FALSE, stamped |-> FALSE]
\* What an earlier release leaves: the columns of the migrations it knew.
OldImage(v) == [exists |-> TRUE, version |-> v, columns |-> Adding \cap 1..v, rows |-> {},
            failed |-> FALSE, stamped |-> FALSE]

DatabaseInit ==
    /\ file \in {NoImage} \cup {OldImage(v) : v \in OldVersions}
    /\ memory = [p \in Processes |-> NoImage] /\ doing = [p \in Processes |-> "closed"]
    /\ written = {} /\ openings = 0 /\ shared = FALSE /\ torn = FALSE /\ cut = FALSE

\* STATE_SCHEMA_SQL creates what is missing: the tables of a new file have all
\* columns, those of an old file stay as they are.
Created(image) ==
    [image EXCEPT !.exists = TRUE, !.columns = IF image.exists THEN @ ELSE Adding]
\* applyStateSchemaMigrations adds the columns it knows of to the old tables.
Defend(image) == [image EXCEPT !.columns = @ \cup Defended]
\* bootstrapStateSchema, up to the migrations: a file without a version is taken
\* for a new one.
MutBootstrapped(image) == Defend([Created(image) EXCEPT !.version = Latest])
Bootstrapped(image) ==
    Defend([Created(image) EXCEPT !.version = IF @ = 0 THEN Latest ELSE @,
                                  !.stamped = @ \/ (image.exists /\ image.version = 0)])

\* runMigrations: a migration fails when one of its columns is there already;
\* it is rolled back, the mark is set, and the rest is not tried.
Refusals(image) == {m \in Adding : m > image.version /\ m \in image.columns}
FirstRefusal(image) == CHOOSE m \in Refusals(image) : \A k \in Refusals(image) : m <= k
MutMigrated(image) ==
    LET last == IF Refusals(image) = {} THEN Latest ELSE FirstRefusal(image) - 1 IN
    [image EXCEPT !.version = last, !.columns = @ \cup (Adding \cap (image.version + 1)..last)]
Migrated(image) ==
    LET last == IF Refusals(image) = {} THEN Latest ELSE FirstRefusal(image) - 1 IN
    [image EXCEPT !.version = last, !.columns = @ \cup (Adding \cap (image.version + 1)..last),
                  !.failed = @ \/ Refusals(image) # {}]
-----------------------------------------------------------------------------

\* createStateDatabase reads the file and upgrades its image, in one go; a
\* torn file cannot be opened.
MutRead == NoImage
Read == file
OpenDatabase(p) ==
    /\ doing[p] = "closed" /\ ~torn /\ openings < MaxOpenings /\ openings' = openings + 1
    /\ memory' = [memory EXCEPT ![p] = Migrated(Bootstrapped(Read))]
    /\ doing' = [doing EXCEPT ![p] = "open"]
    /\ shared' = (shared \/ \E q \in Processes : doing[q] # "closed")
    /\ UNCHANGED <<file, written, torn, cut>>

\* Some store writes a row.
Change(p) ==
    /\ doing[p] = "open"
    /\ \E r \in 1..MaxChanges : (\A q \in Processes : r \notin memory[q].rows) /\ r \notin written /\
           memory' = [memory EXCEPT ![p].rows = @ \cup {r}]
    /\ UNCHANGED <<file, doing, written, openings, shared, torn, cut>>

\* flush and close: the image is exported and written over the file in place.
BeginWrite(p) ==
    /\ doing[p] = "open" /\ \E how \in {"flushing", "closing"} : doing' = [doing EXCEPT ![p] = how]
    /\ torn' = TRUE /\ UNCHANGED <<file, memory, written, openings, shared, cut>>
MutEndWrite(p) ==
    /\ doing[p] \in {"flushing", "closing"} /\ file' = memory[p]
    /\ torn' = (\E q \in Processes \ {p} : doing[q] \in {"flushing", "closing"})
    /\ written' = written \cup memory[p].rows
    /\ doing' = [doing EXCEPT ![p] = IF @ = "flushing" THEN "open" ELSE "closed"]
    /\ UNCHANGED <<memory, openings, shared, cut>>
EndWrite(p) ==
    /\ doing[p] \in {"flushing", "closing"} /\ file' = memory[p]
    /\ torn' = (\E q \in Processes \ {p} : doing[q] \in {"flushing", "closing"})
    /\ written' = written \cup memory[p].rows
    /\ doing' = [doing EXCEPT ![p] = IF @ = "flushing" THEN "open" ELSE "closed"]
    /\ memory' = [memory EXCEPT ![p] = IF doing[p] = "closing" THEN NoImage ELSE @]
    /\ UNCHANGED <<openings, shared, cut>>

\* The process dies; in the middle of a write it leaves a part of an image.
Die(p) ==
    /\ doing[p] # "closed" /\ doing' = [doing EXCEPT ![p] = "closed"]
    /\ memory' = [memory EXCEPT ![p] = NoImage] /\ cut' = (cut \/ doing[p] # "open")
    /\ UNCHANGED <<file, written, openings, shared, torn>>

DatabaseNext ==
    \E p \in Processes : OpenDatabase(p) \/ Change(p) \/ BeginWrite(p) \/ EndWrite(p) \/ Die(p)
DatabaseSpec == DatabaseInit /\ [][DatabaseNext]_databaseVars
-----------------------------------------------------------------------------

HaveOpen == {p \in Processes : doing[p] # "closed"}

\* The types of the variables.
DatabaseTypeOK ==
    /\ \A image \in {file} \cup {memory[p] : p \in Processes} :
           image.version \in 0..Latest /\ image.columns \subseteq Adding /\ image.rows \subseteq 1..MaxChanges
    /\ \A p \in Processes : doing[p] # "closed" <=> memory[p].exists
    /\ openings \in 0..MaxOpenings

\* A row that was flushed is in the file for good, as long as no two processes
\* have the database open together and none dies while it writes the file
\* (createStateDatabase: every process writes its whole image).
FlushedIsKept == (~shared /\ ~cut) => written \subseteq file.rows

\* A database that cannot be brought to the newest version says so, and keeps
\* saying it in every image (runMigrations, markMigrationFailed).
BehindIsMarked == \A p \in HaveOpen : memory[p].version < Latest => memory[p].failed

\* An opened database whose file recorded a version has every column, although
\* its last migration may have been refused (applyStateSchemaMigrations).
ColumnsComplete ==
    \A p \in HaveOpen : ~memory[p].stamped => memory[p].columns = Adding

\* tests/integration/storage/schema-migration.test.ts: a database of an
\* earlier release is upgraded without a failed migration.
UpgradeSucceeds == \A p \in HaveOpen : ~memory[p].failed
\* The file keeps what was flushed, says when it is behind, and has the columns
\* its version promises.
DatabaseKeeps == FlushedIsKept /\ BehindIsMarked /\ ColumnsComplete
=============================================================================
