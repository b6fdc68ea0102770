---------------------------- MODULE ProfileRecovery ----------------------------
(***************************************************************************)
(* The files of a profile and the two programs that change them, one at a  *)
(* time because each holds the profile's flock:                            *)
(*   - normal startup: doctor, pre-migration restore point, open_profile   *)
(*     with its migration journal, then the planner's edits (main.rs,      *)
(*     migration.rs);                                                      *)
(*   - recovery: backup, and a restore with its quarantine, installation   *)
(*     and roll-back (recovery.rs).                                        *)
(* A process may die between any two steps, and any step may fail.         *)
(*                                                                         *)
(* Abstraction.  A database image is its schema version, the edits it      *)
(* holds and whether it passes inspect_database.  A restore point counts   *)
(* from the moment its manifest is renamed into place, when list_backup_ids*)
(* first sees it.  The -shm file is left out: SQLite rebuilds it.  Files   *)
(* reach the disk in the order they are written (the code fsyncs).         *)
(***************************************************************************)
EXTENDS Naturals

CONSTANTS
  Edits,    \* edits a user may make, each at most once
  Latest,   \* CURRENT_SCHEMA_VERSION; one migration leads to each version
  NoFile    \* there is no such file

ASSUME LatestAssumption == Latest \in Nat \ {0}

Image == [schema : 0..Latest, edits : SUBSET Edits, sound : BOOLEAN]

\* A write-ahead log: the database file it was written over, and the image the
\* two give together.
Log == [base : Image, image : Image]

\* "torn": write_private_file truncates the file before it writes it.
Journal == {"prepared", "completed", "restored-after-failure", "torn"}

Files == [main : Image \cup {NoFile}, wal : Log \cup {NoFile},
          journal : Journal \cup {NoFile}]
FileName == {"main", "wal", "journal"}
NoFiles == [main |-> NoFile, wal |-> NoFile, journal |-> NoFile]

ASSUME NoFileAssumption == NoFile \notin Image \cup Log \cup Journal

Phase == {"off", "checked", "opened", "prepared", "failed", "completed",
          "running", "quarantine", "installed", "rollback"}

VARIABLES
  root,    \* profile.db, profile.db-wal and migration-journal.json
  points,  \* images of the restore points that verify_restore_point accepts
  phase,   \* how far the running process has got, "off" when there is none
  held,    \* the quarantine directory of the restore that is running
  saved,   \* the migration's own backup (migration_backup), NoFile if none
  target,  \* the verified copy that a restore is about to install
  before,  \* history: root when the process began
  acked    \* history: edits that were committed, less those a damage took

vars == <<root, points, phase, held, saved, target, before, acked>>

TypeOK ==
  /\ root \in Files
  /\ points \in SUBSET Image
  /\ phase \in Phase
  /\ held \in Files
  /\ saved \in Image \cup {NoFile}
  /\ target \in Image \cup {NoFile}
  /\ before \in Files
  /\ acked \in SUBSET Edits

-----------------------------------------------------------------------------
(* What is in the files.                                                   *)

\* What a connection reads: the database with its log replayed.  A log over
\* another database than its own corrupts it.
Content(files) ==
  IF files.main = NoFile \/ files.wal = NoFile THEN files.main
  ELSE IF files.wal.base = files.main THEN files.wal.image
  ELSE [files.main EXCEPT !.sound = FALSE]

Sound(files) == files.main # NoFile /\ files.main.sound /\ Content(files).sound

\* Edits that can be read from the files.
Readable(files) == IF Sound(files) THEN Content(files).edits ELSE {}

PointEdits == UNION {p.edits : p \in points}

\* The doctor asks for safe mode: a database that fails inspect_database, or a
\* journal in any state but "completed".
JournalBlocks == root.journal \in Journal \ {"completed"}
SafeModeRequired == (root.main # NoFile /\ ~ Sound(root)) \/ JournalBlocks

Unmigrated(image) == image.schema < Latest

\* Mutants: no restore point before a migration; none before a restore.
NoPreMigrationPoint(files) == {}
NoPreRestorePoint(files) == {}

\* create_pre_migration_backup: a database that is about to be migrated.
PreMigrationPoint(files) ==
  IF files.main # NoFile /\ Unmigrated(Content(files))
  THEN {Content(files)} ELSE {}

\* try_pre_restore_backup: a database that is sound.
PreRestorePoint(files) ==
  IF Sound(files) THEN {Content(files)} ELSE {}

\* A write through a connection goes to the log.
Written(files, image) ==
  [files EXCEPT !.wal = [base |-> files.main, image |-> image]]

-----------------------------------------------------------------------------

\* A fresh installation, or a profile left by an earlier release.
Init ==
  /\ \E main \in {NoFile} \cup {image \in Image : Unmigrated(image) /\ image.sound} :
       /\ root = [NoFiles EXCEPT !.main = main]
       /\ acked = Readable(root)
  /\ points = {}
  /\ phase = "off"
  /\ held = NoFiles
  /\ saved = NoFile
  /\ target = NoFile
  /\ before = NoFiles

-----------------------------------------------------------------------------
(* Normal startup and the open profile.                                    *)

\* The preflight of run(): doctor, then create_pre_migration_backup.
Start ==
  /\ phase = "off"
  /\ ~ SafeModeRequired
  /\ points' = points \cup PreMigrationPoint(root)
  /\ phase' = "checked"
  /\ before' = root
  /\ UNCHANGED <<root, held, saved, target, acked>>

\* Connection::open.  SQLite creates a database that is missing, and then
\* deletes a log it finds beside it.
OpenDatabase ==
  /\ phase = "checked"
  /\ root' = IF root.main # NoFile THEN root
             ELSE [root EXCEPT
                     !.main = [schema |-> 0, edits |-> {}, sound |-> TRUE],
                     !.wal = NoFile]
  /\ phase' = "opened"
  /\ UNCHANGED <<points, held, saved, target, before, acked>>

\* migrate_if_needed finds nothing to do.
SkipMigration ==
  /\ phase = "opened"
  /\ ~ Unmigrated(Content(root))
  /\ phase' = "running"
  /\ UNCHANGED <<root, points, held, saved, target, before, acked>>

\* The migration's own backup, if the database existed before it was opened,
\* then the journal.
PrepareMigration ==
  /\ phase = "opened"
  /\ Unmigrated(Content(root))
  /\ saved' = IF before.main # NoFile THEN Content(root) ELSE NoFile
  /\ root' = [root EXCEPT !.journal = "prepared"]
  /\ phase' = "prepared"
  /\ UNCHANGED <<points, held, target, before, acked>>

\* One apply_v<n>_to_v<n+1>: a transaction.
MigrateStep ==
  /\ phase = "prepared"
  /\ Unmigrated(Content(root))
  /\ root' = Written(root, [Content(root) EXCEPT !.schema = @ + 1])
  /\ UNCHANGED <<points, phase, held, saved, target, before, acked>>

\* Mutant of FailMigration: what was migrated so far is left as it is.
LeaveHalfMigrated ==
  /\ phase = "prepared"
  /\ phase' = "failed"
  /\ UNCHANGED <<root, points, held, saved, target, before, acked>>

\* A migration step or the integrity check after them fails: the backup, if
\* there is one, is restored.
FailMigration ==
  /\ phase = "prepared"
  /\ root' = IF saved = NoFile THEN root ELSE Written(root, saved)
  /\ phase' = "failed"
  /\ UNCHANGED <<points, held, saved, target, before, acked>>

\* No process, and nothing left of what it knew.
Ended ==
  /\ phase' = "off"
  /\ held' = NoFiles
  /\ saved' = NoFile
  /\ target' = NoFile
  /\ before' = NoFiles

\* The journal says so whether or not anything was restored.
ReportFailure ==
  /\ phase = "failed"
  /\ root' = [root EXCEPT !.journal = "restored-after-failure"]
  /\ Ended
  /\ UNCHANGED <<points, acked>>

CompleteMigration ==
  /\ phase = "prepared"
  /\ ~ Unmigrated(Content(root))
  /\ root' = [root EXCEPT !.journal = "completed"]
  /\ phase' = "completed"
  /\ UNCHANGED <<points, held, saved, target, before, acked>>

\* A journal that cannot be removed is left behind.
RemoveJournal ==
  /\ phase = "completed"
  /\ \E left \in {NoFile, "completed"} : root' = [root EXCEPT !.journal = left]
  /\ phase' = "running"
  /\ UNCHANGED <<points, held, saved, target, before, acked>>

\* The process dies, or the disk is full, while a journal is being written.
TearJournal ==
  /\ \/ phase = "opened" /\ Unmigrated(Content(root))
     \/ phase = "prepared" /\ ~ Unmigrated(Content(root))
     \/ phase = "failed"
  /\ root' = [root EXCEPT !.journal = "torn"]
  /\ Ended
  /\ UNCHANGED <<points, acked>>

Edit(e) ==
  /\ phase = "running"
  /\ e \notin acked
  /\ root' = Written(root, [Content(root) EXCEPT !.edits = @ \cup {e}])
  /\ acked' = acked \cup {e}
  /\ UNCHANGED <<points, phase, held, saved, target, before>>

\* SQLite moves the log into the database, at the latest when the last
\* connection is closed; a process that dies leaves its log behind.
Checkpoint ==
  /\ phase \in {"opened", "prepared", "failed", "completed", "running"}
  /\ root.wal # NoFile
  /\ root' = [root EXCEPT !.main = Content(root), !.wal = NoFile]
  /\ UNCHANGED <<points, phase, held, saved, target, before, acked>>

\* The process ends, dies, or returns from an error it does not repair.
Stop ==
  /\ phase # "off"
  /\ Ended
  /\ UNCHANGED <<root, points, acked>>

-----------------------------------------------------------------------------
(* Recovery.                                                               *)

\* create_manual_backup.
Backup ==
  /\ phase = "off"
  /\ root.main # NoFile
  /\ ~ SafeModeRequired
  /\ points' = points \cup {Content(root)}
  /\ UNCHANGED <<root, phase, held, saved, target, before, acked>>

\* restore up to the quarantine: the chosen point is copied and verified, and
\* a database that is sound becomes a restore point itself.
BeginRestore(p) ==
  /\ phase = "off"
  /\ p \in points
  /\ points' = points \cup PreRestorePoint(root)
  /\ target' = p
  /\ before' = root
  /\ phase' = "quarantine"
  /\ UNCHANGED <<root, held, saved, acked>>

\* Mutant of Recovered: the log is forgotten.
RecoveredWithoutLog == {"main", "journal"}

\* The files that are quarantined and rolled back, in this order.
Recovered == FileName
Earlier(f) == CASE f = "main"    -> {}
                [] f = "wal"     -> {"main"}
                [] f = "journal" -> {"main", "wal"}

IsNext(files, f) ==
  /\ files[f] # NoFile
  /\ \A g \in Earlier(f) \cap Recovered : files[g] = NoFile

NoneLeft(files) == \A f \in Recovered : files[f] = NoFile

\* quarantine_current_profile: one rename.
Quarantine(f) ==
  /\ phase = "quarantine"
  /\ IsNext(root, f)
  /\ held' = [held EXCEPT ![f] = root[f]]
  /\ root' = [root EXCEPT ![f] = NoFile]
  /\ UNCHANGED <<points, phase, saved, target, before, acked>>

\* A rename or the fsync after the last one fails: the files are moved back,
\* as far as that succeeds.
FailQuarantine ==
  /\ phase = "quarantine"
  /\ \E back \in SUBSET {f \in Recovered : held[f] # NoFile} :
       root' = [main    |-> IF "main" \in back THEN held.main ELSE root.main,
                wal     |-> IF "wal" \in back THEN held.wal ELSE root.wal,
                journal |-> IF "journal" \in back THEN held.journal
                                                  ELSE root.journal]
  /\ Ended
  /\ UNCHANGED <<points, acked>>

InstallSnapshot ==
  /\ phase = "quarantine"
  /\ NoneLeft(root)
  /\ root' = [root EXCEPT !.main = target]
  /\ phase' = "installed"
  /\ UNCHANGED <<points, held, saved, target, before, acked>>

FailInstall ==
  /\ phase = "quarantine"
  /\ NoneLeft(root)
  /\ phase' = "rollback"
  /\ UNCHANGED <<root, points, held, saved, target, before, acked>>

FinishRestore ==
  /\ phase = "installed"
  /\ Ended
  /\ UNCHANGED <<root, points, acked>>

\* The check after the installation fails: what was installed is moved away.
RejectInstalled ==
  /\ phase = "installed"
  /\ root' = [root EXCEPT !.main = NoFile]
  /\ phase' = "rollback"
  /\ UNCHANGED <<points, held, saved, target, before, acked>>

\* Mutant of RollBack: the journal is not put back.
RollBackWithoutJournal(f) ==
  /\ phase = "rollback"
  /\ IsNext(held, f)
  /\ root' = IF f = "journal" THEN root ELSE [root EXCEPT ![f] = held[f]]
  /\ held' = [held EXCEPT ![f] = NoFile]
  /\ UNCHANGED <<points, phase, saved, target, before, acked>>

\* rollback_quarantine: one rename.
RollBack(f) ==
  /\ phase = "rollback"
  /\ IsNext(held, f)
  /\ root' = [root EXCEPT ![f] = held[f]]
  /\ held' = [held EXCEPT ![f] = NoFile]
  /\ UNCHANGED <<points, phase, saved, target, before, acked>>

-----------------------------------------------------------------------------

\* The disk damages the database.  Edits that are in no restore point are lost
\* through no fault of the program.
Damage ==
  /\ phase = "off"
  /\ Sound(root)
  /\ root' = [root EXCEPT !.main.sound = FALSE]
  /\ acked' = acked \cap PointEdits
  /\ UNCHANGED <<points, phase, held, saved, target, before>>

Startup ==
  \/ Start
  \/ OpenDatabase
  \/ SkipMigration
  \/ PrepareMigration
  \/ MigrateStep
  \/ FailMigration
  \/ ReportFailure
  \/ CompleteMigration
  \/ RemoveJournal
  \/ TearJournal
  \/ \E e \in Edits : Edit(e)
  \/ Checkpoint
  \/ Stop

Recovery ==
  \/ Backup
  \/ \E p \in points : BeginRestore(p)
  \/ \E f \in Recovered : Quarantine(f)
  \/ FailQuarantine
  \/ InstallSnapshot
  \/ FailInstall
  \/ FinishRestore
  \/ RejectInstalled
  \/ \E f \in Recovered : RollBack(f)

Next == Startup \/ Recovery \/ Damage

Spec == Init /\ [][Next]_vars

-----------------------------------------------------------------------------

\* Whatever fails, dies or is restored: every edit that was committed can be
\* read from the profile or from a verified restore point (and what a damage
\* of the disk took was in neither).
EditsHaveAWayBack == acked \subseteq Readable(root) \cup PointEdits

\* A log never lies beside a database that is not its own, as it would if a
\* restore left it there: SQLite would replay it over the restored database.
LogMatchesDatabase ==
  (root.main # NoFile /\ root.main.sound /\ root.wal # NoFile)
    => root.wal.base = root.main

\* A profile that a journal keeps from starting and that holds edits has a
\* verified restore point with at least these edits, so `restore` gets the
\* user back to work without loss.
BlockedProfileIsRestorable ==
  (JournalBlocks /\ Readable(root) # {}) =>
    \E p \in points : Readable(root) \subseteq p.edits

\* A restore that is rolled back to the end leaves every file, the log and
\* the journal included, as it found it.
RollbackIsComplete == (phase = "rollback" /\ NoneLeft(held)) => root = before

\* A migration that fails leaves an existing profile at the version and with
\* the edits it had before.
FailedMigrationIsUndone ==
  (phase = "failed" /\ before.main # NoFile) => Content(root) = Content(before)

\* Of a profile whose process has ended and whose journal keeps every later
\* start in safe mode: "user can recover without WebView/Docker".  `restore`,
\* the only way out, needs a restore point, and a crash in the first migration
\* of a fresh profile leaves none.
BlockedProfileHasAPoint == (phase = "off" /\ JournalBlocks) => points # {}

=============================================================================
