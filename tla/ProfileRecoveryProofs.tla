------------------------- MODULE ProfileRecoveryProofs -------------------------
(***************************************************************************)
(* Proofs about ProfileRecovery, for every set of edits and every number   *)
(* of schema versions.  The invariant below relates the files to `before`, *)
(* what the running process found, phase by phase.                         *)
(***************************************************************************)
EXTENDS ProfileRecovery, TLAPS

\* A log was written over a sound database, lost none of its edits, and lies
\* beside no other sound database.
Good(files) ==
  files.wal # NoFile =>
    /\ files.wal.base.sound
    /\ files.wal.image.sound
    /\ files.wal.base.edits \subseteq files.wal.image.edits
    /\ (files.main # NoFile /\ files.main.sound) => files.wal.base = files.main

Restoring == {"quarantine", "installed", "rollback"}

PointsAreSound == \A p \in points : p.sound

LogsAreGood == Good(root) /\ Good(before)

\* A file is in one of the two places.
OneOf(file, here, there) == \/ here = file /\ there = NoFile
                            \/ here = NoFile /\ there = file

Shared(files, here, there) ==
  /\ OneOf(files.main, here.main, there.main)
  /\ OneOf(files.wal, here.wal, there.wal)
  /\ OneOf(files.journal, here.journal, there.journal)

\* While files are moved none is lost and none is copied.
FilesAreSomewhere ==
  /\ phase \in {"quarantine", "rollback"} => Shared(before, root, held)
  /\ phase = "installed" =>
       /\ root = [main |-> target, wal |-> NoFile, journal |-> NoFile]
       /\ held = before
  /\ phase \notin Restoring => held = NoFiles

\* A restore starts when all it is about to move is in a restore point.
RestoreIsInsured ==
  phase \in Restoring =>
    /\ acked \subseteq PointEdits
    /\ Sound(before) => Content(before) \in points
    /\ target \in points

CheckedIsInsured ==
  phase = "checked" =>
    /\ root = before
    /\ ~ SafeModeRequired
    /\ PreMigrationPoint(root) \subseteq points

OpenedIsInsured ==
  phase = "opened" =>
    /\ Sound(root)
    /\ ~ JournalBlocks
    /\ before.main # NoFile => Content(root) = Content(before)
    /\ (Unmigrated(Content(root)) /\ Content(root).edits # {})
         => Content(root) \in points

MigrationIsInsured ==
  /\ phase = "prepared" =>
       /\ Sound(root)
       /\ JournalBlocks
       /\ saved # NoFile =>
            saved.sound /\ saved.edits = Content(root).edits
       /\ before.main # NoFile => saved = Content(before)
  /\ phase = "failed" =>
       /\ Sound(root)
       /\ JournalBlocks
       /\ before.main # NoFile => Content(root) = Content(before)

RunningIsSound ==
  phase \in {"completed", "running"} => Sound(root) /\ ~ JournalBlocks

IInv ==
  /\ TypeOK
  /\ PointsAreSound
  /\ LogsAreGood
  /\ FilesAreSomewhere
  /\ RestoreIsInsured
  /\ CheckedIsInsured
  /\ OpenedIsInsured
  /\ MigrationIsInsured
  /\ RunningIsSound
  /\ EditsHaveAWayBack
  /\ BlockedProfileIsRestorable

-----------------------------------------------------------------------------
(* What the files hold.                                                    *)

LEMMA ImageIsNoFile == /\ NoFile \notin Image
                       /\ NoFile \notin Log
                       /\ NoFile \notin Journal
  BY NoFileAssumption

LEMMA SoundContent ==
  ASSUME NEW files \in Files, Good(files),
         files.main # NoFile, files.main.sound
  PROVE  /\ Sound(files)
         /\ Content(files) = IF files.wal = NoFile THEN files.main
                                                   ELSE files.wal.image
         /\ Content(files) \in Image
         /\ Content(files).sound
         /\ files.main.edits \subseteq Content(files).edits
  BY ImageIsNoFile DEF Files, Good, Sound, Content, Log, Image

LEMMA WrittenOver ==
  ASSUME NEW files \in Files, Good(files), Sound(files),
         NEW image \in Image, image.sound,
         Content(files).edits \subseteq image.edits
  PROVE  /\ Written(files, image) \in Files
         /\ Good(Written(files, image))
         /\ Sound(Written(files, image))
         /\ Content(Written(files, image)) = image
         /\ Written(files, image).journal = files.journal
<1> DEFINE n == Written(files, image)
<1>1. files.main # NoFile /\ files.main.sound
  BY DEF Sound
<1>2. files.main.edits \subseteq image.edits
  BY <1>1, SoundContent
<1>3. [base |-> files.main, image |-> image] \in Log
  BY <1>1 DEF Files, Log
<1>4. /\ n \in Files
      /\ n.main = files.main
      /\ n.wal = [base |-> files.main, image |-> image]
      /\ n.journal = files.journal
  BY <1>3 DEF Written, Files
<1> HIDE DEF n
<1>5. Good(n)
  BY <1>1, <1>2, <1>4 DEF Good
<1>6. Content(n) = image /\ Sound(n)
  BY <1>1, <1>3, <1>4, <1>5, ImageIsNoFile, SoundContent
<1> QED
  BY <1>4, <1>5, <1>6 DEF n

\* Some of the files of a profile, without the others.
LEMMA PartOfFiles ==
  ASSUME NEW files \in Files, NEW part \in Files, Good(files),
         part.main \in {files.main, NoFile},
         part.wal \in {files.wal, NoFile}
  PROVE  /\ Good(part)
         /\ Sound(part) => /\ Sound(files)
                           /\ Readable(part) \subseteq Content(files).edits
<1>1. Good(part)
  BY DEF Good
<1>2. ASSUME Sound(part)
      PROVE  /\ Sound(files)
             /\ Content(part).edits \subseteq Content(files).edits
  <2>1. part.main # NoFile /\ part.main.sound /\ part.main = files.main
    BY <1>2 DEF Sound
  <2>2. /\ Content(part) = IF part.wal = NoFile THEN part.main
                                                ELSE part.wal.image
        /\ Content(files) = IF files.wal = NoFile THEN files.main
                                                  ELSE files.wal.image
        /\ Sound(files)
        /\ files.main.edits \subseteq Content(files).edits
    BY <1>1, <2>1, SoundContent
  <2> QED
    BY <2>1, <2>2
<1> QED
  BY <1>1, <1>2 DEF Readable

LEMMA SoundFiles ==
  ASSUME NEW files \in Files, Good(files), Sound(files)
  PROVE  /\ files.main # NoFile
         /\ files.main.sound
         /\ Content(files) \in Image
         /\ Content(files).sound
         /\ Readable(files) = Content(files).edits
         /\ files.main.edits \subseteq Content(files).edits
         /\ Content(files) = IF files.wal = NoFile THEN files.main
                                                   ELSE files.wal.image
  BY SoundContent DEF Sound, Readable

LEMMA ContentType ==
  ASSUME NEW files \in Files
  PROVE  Content(files) \in Image \cup {NoFile}
<1>1. CASE files.main = NoFile \/ files.wal = NoFile
  BY <1>1 DEF Content, Files
<1>2. CASE files.main # NoFile /\ files.wal # NoFile
  <2>1. files.main \in Image /\ files.wal \in Log
    BY <1>2 DEF Files
  <2>2. files.wal.image \in Image
    BY <2>1 DEF Log
  <2>3. [files.main EXCEPT !.sound = FALSE] \in Image
    BY <2>1 DEF Image
  <2> QED
    BY <1>2, <2>2, <2>3 DEF Content
<1> QED
  BY <1>1, <1>2

LEMMA OtherJournal ==
  ASSUME NEW files \in Files, NEW journal \in Journal \cup {NoFile}
  PROVE  LET n == [files EXCEPT !.journal = journal]
         IN  /\ n \in Files
             /\ n.main = files.main
             /\ n.journal = journal
             /\ Content(n) = Content(files)
             /\ Good(n) <=> Good(files)
             /\ Sound(n) <=> Sound(files)
             /\ Readable(n) = Readable(files)
<1> DEFINE n == [files EXCEPT !.journal = journal]
<1>1. /\ n \in Files
      /\ n.main = files.main
      /\ n.wal = files.wal
      /\ n.journal = journal
  BY DEF Files
<1> HIDE DEF n
<1>2. Content(n) = Content(files) /\ (Good(n) <=> Good(files))
  BY <1>1 DEF Content, Good
<1>3. Sound(n) <=> Sound(files)
  BY <1>1, <1>2 DEF Sound
<1>4. Readable(n) = Readable(files)
  BY <1>2, <1>3 DEF Readable
<1> QED
  BY <1>1, <1>2, <1>3, <1>4 DEF n

LEMMA Checkpointed ==
  ASSUME NEW files \in Files, Good(files), Sound(files)
  PROVE  LET n == [files EXCEPT !.main = Content(files), !.wal = NoFile]
         IN  /\ n \in Files
             /\ n.journal = files.journal
             /\ Content(n) = Content(files)
             /\ Good(n)
             /\ Sound(n)
             /\ Readable(n) = Readable(files)
<1> DEFINE n == [files EXCEPT !.main = Content(files), !.wal = NoFile]
<1>1. /\ Content(files) \in Image
      /\ Content(files).sound
      /\ Readable(files) = Content(files).edits
  BY SoundFiles
<1>2. /\ n \in Files
      /\ n.main = Content(files)
      /\ n.wal = NoFile
      /\ n.journal = files.journal
  BY <1>1 DEF Files
<1> HIDE DEF n
<1>3. Good(n) /\ n.main # NoFile /\ n.main.sound
  BY <1>1, <1>2, ImageIsNoFile DEF Good
<1>4. Sound(n) /\ Content(n) = Content(files)
  BY <1>2, <1>3, SoundContent
<1>5. Readable(n) = Readable(files)
  BY <1>1, <1>4 DEF Readable
<1> QED
  BY <1>2, <1>3, <1>4, <1>5 DEF n

\* A database that has just been created.
LEMMA FreshDatabase ==
  ASSUME NEW files \in Files
  PROVE  LET empty == [schema |-> 0, edits |-> {}, sound |-> TRUE]
             n == [files EXCEPT !.main = empty, !.wal = NoFile]
         IN  /\ n \in Files
             /\ n.journal = files.journal
             /\ Content(n) = empty
             /\ Good(n)
             /\ Sound(n)
             /\ Readable(n) = {}
<1> DEFINE empty == [schema |-> 0, edits |-> {}, sound |-> TRUE]
           n == [files EXCEPT !.main = empty, !.wal = NoFile]
<1>1. empty \in Image /\ empty.sound /\ empty.edits = {}
  BY LatestAssumption DEF Image
<1>2. /\ n \in Files
      /\ n.main = empty
      /\ n.wal = NoFile
      /\ n.journal = files.journal
  BY <1>1 DEF Files
<1> HIDE DEF empty, n
<1>3. Content(n) = empty /\ Good(n)
  BY <1>2 DEF Content, Good
<1>4. Sound(n) /\ Readable(n) = {}
  BY <1>1, <1>2, <1>3, ImageIsNoFile DEF Sound, Readable
<1> QED
  BY <1>2, <1>3, <1>4 DEF empty, n

-----------------------------------------------------------------------------
(* Startup.                                                                *)

LEMMA StartKeeps == IInv /\ Start => IInv'
<1> SUFFICES ASSUME IInv, Start PROVE IInv'
  OBVIOUS
<1> USE DEF Start
<1>1. root \in Files /\ Good(root)
  BY DEF IInv, TypeOK, LogsAreGood
<1>2. Content(root) \in Image \cup {NoFile}
  BY <1>1, ContentType
<1>3. Sound(root) => Content(root) \in Image /\ Content(root).sound
  BY <1>1, SoundFiles
<1>4. /\ PreMigrationPoint(root) \subseteq Image
      /\ \A p \in PreMigrationPoint(root) : p.sound
  BY <1>2, <1>3 DEF PreMigrationPoint, SafeModeRequired
<1>5. TypeOK'
  BY <1>1, <1>4 DEF IInv, TypeOK, Phase
<1>6. PointsAreSound' /\ LogsAreGood' /\ FilesAreSomewhere'
  BY <1>4 DEF IInv, PointsAreSound, LogsAreGood, FilesAreSomewhere, Restoring
<1>7. RestoreIsInsured' /\ EditsHaveAWayBack'
  BY DEF IInv, RestoreIsInsured, EditsHaveAWayBack, PointEdits, Restoring
<1>8. CheckedIsInsured' /\ OpenedIsInsured'
  BY DEF CheckedIsInsured, OpenedIsInsured, JournalBlocks, SafeModeRequired
<1>9. MigrationIsInsured' /\ RunningIsSound'
  BY DEF MigrationIsInsured, RunningIsSound
<1>10. BlockedProfileIsRestorable'
  BY DEF BlockedProfileIsRestorable, JournalBlocks, SafeModeRequired
<1> QED
  BY <1>5, <1>6, <1>7, <1>8, <1>9, <1>10 DEF IInv

LEMMA OpenDatabaseKeeps == IInv /\ OpenDatabase => IInv'
<1> SUFFICES ASSUME IInv, OpenDatabase PROVE IInv'
  OBVIOUS
<1> USE DEF OpenDatabase
<1>1. root \in Files /\ Good(root)
  BY DEF IInv, TypeOK, LogsAreGood
<1>2. /\ root' \in Files /\ Good(root')
      /\ root'.journal = root.journal
      /\ root.main # NoFile => root' = root
      /\ root.main = NoFile =>
           Readable(root) = {} /\ Sound(root') /\ Content(root').edits = {}
  BY <1>1, FreshDatabase DEF Readable, Sound
<1>3. TypeOK'
  BY <1>2 DEF IInv, TypeOK, Phase
<1>4. root.main # NoFile =>
        /\ Sound(root) /\ Content(root) \in Image
        /\ Readable(root) = Content(root).edits
        /\ Unmigrated(Content(root)) => Content(root) \in points
  BY <1>1, SoundFiles DEF IInv, CheckedIsInsured, SafeModeRequired, PreMigrationPoint
<1>5. PointsAreSound' /\ LogsAreGood' /\ FilesAreSomewhere'
  BY <1>2 DEF IInv, PointsAreSound, LogsAreGood, FilesAreSomewhere, Restoring
<1>6. RestoreIsInsured' /\ EditsHaveAWayBack'
  BY <1>2 DEF IInv, RestoreIsInsured, EditsHaveAWayBack, PointEdits, Restoring
<1>7. CheckedIsInsured' /\ OpenedIsInsured'
  BY <1>2, <1>4 DEF IInv, CheckedIsInsured, OpenedIsInsured, JournalBlocks,
     SafeModeRequired
<1>8. MigrationIsInsured' /\ RunningIsSound'
  BY DEF MigrationIsInsured, RunningIsSound
<1>9. BlockedProfileIsRestorable'
  BY <1>2 DEF IInv, BlockedProfileIsRestorable, JournalBlocks, Readable
<1> QED
  BY <1>3, <1>5, <1>6, <1>7, <1>8, <1>9 DEF IInv

LEMMA SkipMigrationKeeps == IInv /\ SkipMigration => IInv'
<1> SUFFICES ASSUME IInv, SkipMigration PROVE IInv'
  OBVIOUS
<1> USE DEF SkipMigration
<1>1. TypeOK'
  BY IInv DEF IInv, TypeOK, Phase
<1>2. PointsAreSound' /\ LogsAreGood' /\ FilesAreSomewhere'
  BY DEF IInv, PointsAreSound, LogsAreGood, FilesAreSomewhere, Restoring
<1>3. RestoreIsInsured' /\ EditsHaveAWayBack'
  BY DEF IInv, RestoreIsInsured, EditsHaveAWayBack, PointEdits, Restoring
<1>4. CheckedIsInsured' /\ OpenedIsInsured'
  BY DEF CheckedIsInsured, OpenedIsInsured
<1>5. MigrationIsInsured' /\ RunningIsSound'
  BY DEF IInv, OpenedIsInsured, MigrationIsInsured, RunningIsSound,
     JournalBlocks
<1>6. BlockedProfileIsRestorable'
  BY DEF IInv, BlockedProfileIsRestorable, JournalBlocks
<1> QED
  BY <1>1, <1>2, <1>3, <1>4, <1>5, <1>6 DEF IInv

LEMMA PrepareMigrationKeeps == IInv /\ PrepareMigration => IInv'
<1> SUFFICES ASSUME IInv, PrepareMigration PROVE IInv'
  OBVIOUS
<1> USE DEF PrepareMigration
<1>1. root \in Files /\ Good(root)
  BY DEF IInv, TypeOK, LogsAreGood
<1>2. /\ root' \in Files /\ Good(root')
      /\ root'.journal = "prepared"
      /\ Content(root') = Content(root)
      /\ Sound(root') <=> Sound(root)
      /\ Readable(root') = Readable(root)
  BY <1>1, OtherJournal DEF Journal
<1>3. /\ Sound(root) /\ Content(root) \in Image /\ Content(root).sound
      /\ Readable(root) = Content(root).edits
  BY <1>1, SoundFiles DEF IInv, OpenedIsInsured
<1>4. TypeOK'
  BY <1>2, <1>3 DEF IInv, TypeOK, Phase
<1>5. PointsAreSound' /\ LogsAreGood' /\ FilesAreSomewhere'
  BY <1>2 DEF IInv, PointsAreSound, LogsAreGood, FilesAreSomewhere, Restoring
<1>6. RestoreIsInsured' /\ EditsHaveAWayBack'
  BY <1>2 DEF IInv, RestoreIsInsured, EditsHaveAWayBack, PointEdits, Restoring
<1>7. CheckedIsInsured' /\ OpenedIsInsured'
  BY DEF CheckedIsInsured, OpenedIsInsured
<1>8. MigrationIsInsured' /\ RunningIsSound'
  BY <1>2, <1>3 DEF IInv, OpenedIsInsured, MigrationIsInsured, RunningIsSound,
     JournalBlocks, Journal
<1>9. BlockedProfileIsRestorable'
  BY <1>2, <1>3 DEF IInv, OpenedIsInsured, BlockedProfileIsRestorable
<1> QED
  BY <1>4, <1>5, <1>6, <1>7, <1>8, <1>9 DEF IInv

LEMMA MigrateStepKeeps == IInv /\ MigrateStep => IInv'
<1> SUFFICES ASSUME IInv, MigrateStep PROVE IInv'
  OBVIOUS
<1> USE DEF MigrateStep
<1>1. root \in Files /\ Good(root)
  BY DEF IInv, TypeOK, LogsAreGood
<1> DEFINE image == [Content(root) EXCEPT !.schema = @ + 1]
<1>2. /\ Sound(root) /\ Content(root) \in Image /\ Content(root).sound
      /\ Readable(root) = Content(root).edits
  BY <1>1, SoundFiles DEF IInv, MigrationIsInsured
<1>3. image \in Image /\ image.sound /\ image.edits = Content(root).edits
  BY <1>2, LatestAssumption DEF Image, Unmigrated
<1> HIDE DEF image
<1>4. /\ root' \in Files /\ Good(root') /\ Sound(root')
      /\ Content(root') = image
      /\ root'.journal = root.journal
      /\ Readable(root') = Readable(root)
  <2>1. root' = Written(root, image)
    BY DEF image
  <2> QED
    BY <1>1, <1>2, <1>3, <2>1, WrittenOver DEF Readable
<1>5. TypeOK'
  BY <1>4 DEF IInv, TypeOK, Phase
<1>6. PointsAreSound' /\ LogsAreGood' /\ FilesAreSomewhere'
  BY <1>4 DEF IInv, PointsAreSound, LogsAreGood, FilesAreSomewhere
<1>7. RestoreIsInsured' /\ EditsHaveAWayBack'
  BY <1>4 DEF IInv, RestoreIsInsured, EditsHaveAWayBack, PointEdits
<1>8. CheckedIsInsured' /\ OpenedIsInsured'
  BY DEF CheckedIsInsured, OpenedIsInsured
<1>9. MigrationIsInsured' /\ RunningIsSound'
  BY <1>3, <1>4 DEF IInv, MigrationIsInsured, RunningIsSound, JournalBlocks
<1>10. BlockedProfileIsRestorable'
  BY <1>4 DEF IInv, BlockedProfileIsRestorable, JournalBlocks
<1> QED
  BY <1>5, <1>6, <1>7, <1>8, <1>9, <1>10 DEF IInv

LEMMA FailMigrationKeeps == IInv /\ FailMigration => IInv'
<1> SUFFICES ASSUME IInv, FailMigration PROVE IInv'
  OBVIOUS
<1> USE DEF FailMigration
<1>1. root \in Files /\ Good(root)
  BY DEF IInv, TypeOK, LogsAreGood
<1>2. /\ Sound(root) /\ Content(root) \in Image /\ Content(root).sound
      /\ Readable(root) = Content(root).edits
  BY <1>1, SoundFiles DEF IInv, MigrationIsInsured
<1>3. /\ root' \in Files /\ Good(root') /\ Sound(root')
      /\ root'.journal = root.journal
      /\ Content(root') = IF saved = NoFile THEN Content(root) ELSE saved
      /\ Readable(root') = Readable(root)
  <2>1. CASE saved = NoFile
    BY <1>1, <1>2, <2>1
  <2>2. CASE saved # NoFile
    <3>1. /\ saved \in Image
          /\ saved.sound
          /\ saved.edits = Content(root).edits
      BY <2>2 DEF IInv, TypeOK, MigrationIsInsured
    <3> QED
      BY <1>1, <1>2, <2>2, <3>1, WrittenOver DEF Readable
  <2> QED
    BY <2>1, <2>2
<1>4. before.main # NoFile => saved = Content(before) /\ saved # NoFile
  <2>1. ASSUME before.main # NoFile PROVE Content(before) # NoFile
    BY <2>1, ImageIsNoFile DEF IInv, TypeOK, Files, Content, Log, Image
  <2> QED
    BY <2>1 DEF IInv, MigrationIsInsured
<1>5. TypeOK'
  BY <1>3 DEF IInv, TypeOK, Phase
<1>6. PointsAreSound' /\ LogsAreGood' /\ FilesAreSomewhere'
  BY <1>3 DEF IInv, PointsAreSound, LogsAreGood, FilesAreSomewhere, Restoring
<1>7. RestoreIsInsured' /\ EditsHaveAWayBack'
  BY <1>3 DEF IInv, RestoreIsInsured, EditsHaveAWayBack, PointEdits, Restoring
<1>8. CheckedIsInsured' /\ OpenedIsInsured'
  BY DEF CheckedIsInsured, OpenedIsInsured
<1>9. MigrationIsInsured' /\ RunningIsSound'
  BY <1>3, <1>4 DEF IInv, MigrationIsInsured, RunningIsSound, JournalBlocks
<1>10. BlockedProfileIsRestorable'
  BY <1>3 DEF IInv, BlockedProfileIsRestorable, JournalBlocks
<1> QED
  BY <1>5, <1>6, <1>7, <1>8, <1>9, <1>10 DEF IInv
LEMMA ReportFailureKeeps == IInv /\ ReportFailure => IInv'
<1> SUFFICES ASSUME IInv, ReportFailure PROVE IInv'
  OBVIOUS
<1> USE DEF ReportFailure
<1>0. NoFiles \in Files /\ Good(NoFiles)
  BY DEF NoFiles, Files, Good
<1>1. root \in Files /\ Good(root)
  BY DEF IInv, TypeOK, LogsAreGood
<1>2. /\ root' \in Files /\ Good(root')
      /\ root'.journal = "restored-after-failure"
      /\ Content(root') = Content(root)
      /\ Sound(root') <=> Sound(root)
      /\ Readable(root') = Readable(root)
  BY <1>1, OtherJournal DEF Journal
<1>3. /\ Sound(root) /\ Content(root) \in Image /\ Content(root).sound
      /\ Readable(root) = Content(root).edits
  BY <1>1, SoundFiles DEF IInv, MigrationIsInsured
<1>4. TypeOK'
  BY <1>0, <1>2 DEF IInv, TypeOK, Phase, Ended
<1>5. PointsAreSound' /\ LogsAreGood' /\ FilesAreSomewhere'
  BY <1>0, <1>2 DEF IInv, PointsAreSound, LogsAreGood, FilesAreSomewhere,
     Ended
<1>6. RestoreIsInsured' /\ EditsHaveAWayBack'
  BY <1>2 DEF IInv, RestoreIsInsured, EditsHaveAWayBack, PointEdits,
     Restoring, Ended
<1>7. CheckedIsInsured' /\ OpenedIsInsured'
  BY DEF CheckedIsInsured, OpenedIsInsured, Ended
<1>8. MigrationIsInsured' /\ RunningIsSound'
  BY DEF MigrationIsInsured, RunningIsSound, Ended
<1>9. BlockedProfileIsRestorable'
  BY <1>2 DEF IInv, MigrationIsInsured, BlockedProfileIsRestorable
<1> QED
  BY <1>4, <1>5, <1>6, <1>7, <1>8, <1>9 DEF IInv

LEMMA CompleteMigrationKeeps == IInv /\ CompleteMigration => IInv'
<1> SUFFICES ASSUME IInv, CompleteMigration PROVE IInv'
  OBVIOUS
<1> USE DEF CompleteMigration
<1>1. root \in Files /\ Good(root)
  BY DEF IInv, TypeOK, LogsAreGood
<1>2. /\ root' \in Files /\ Good(root')
      /\ root'.journal = "completed"
      /\ Content(root') = Content(root)
      /\ Sound(root') <=> Sound(root)
      /\ Readable(root') = Readable(root)
  BY <1>1, OtherJournal DEF Journal
<1>3. TypeOK'
  BY <1>2 DEF IInv, TypeOK, Phase
<1>4. PointsAreSound' /\ LogsAreGood' /\ FilesAreSomewhere'
  BY <1>2 DEF IInv, PointsAreSound, LogsAreGood, FilesAreSomewhere, Restoring
<1>5. RestoreIsInsured' /\ EditsHaveAWayBack'
  BY <1>2 DEF IInv, RestoreIsInsured, EditsHaveAWayBack, PointEdits, Restoring
<1>6. CheckedIsInsured' /\ OpenedIsInsured'
  BY DEF CheckedIsInsured, OpenedIsInsured
<1>7. MigrationIsInsured' /\ RunningIsSound'
  BY <1>2 DEF IInv, MigrationIsInsured, RunningIsSound, JournalBlocks
<1>8. BlockedProfileIsRestorable'
  BY DEF BlockedProfileIsRestorable, JournalBlocks
<1> QED
  BY <1>3, <1>4, <1>5, <1>6, <1>7, <1>8 DEF IInv

LEMMA RemoveJournalKeeps == IInv /\ RemoveJournal => IInv'
<1> SUFFICES ASSUME IInv, RemoveJournal PROVE IInv'
  OBVIOUS
<1> USE DEF RemoveJournal
<1>1. root \in Files /\ Good(root)
  BY DEF IInv, TypeOK, LogsAreGood
<1>2. /\ root' \in Files /\ Good(root')
      /\ root'.journal \in {"completed", NoFile}
      /\ Content(root') = Content(root)
      /\ Sound(root') <=> Sound(root)
      /\ Readable(root') = Readable(root)
  BY <1>1, OtherJournal DEF Journal
<1>3. TypeOK'
  BY <1>2 DEF IInv, TypeOK, Phase
<1>4. NoFile \notin Journal
  BY ImageIsNoFile
<1>5. PointsAreSound' /\ LogsAreGood' /\ FilesAreSomewhere'
  BY <1>2 DEF IInv, PointsAreSound, LogsAreGood, FilesAreSomewhere, Restoring
<1>6. RestoreIsInsured' /\ EditsHaveAWayBack'
  BY <1>2 DEF IInv, RestoreIsInsured, EditsHaveAWayBack, PointEdits, Restoring
<1>7. CheckedIsInsured' /\ OpenedIsInsured'
  BY DEF CheckedIsInsured, OpenedIsInsured
<1>8. MigrationIsInsured' /\ RunningIsSound'
  BY <1>2, <1>4 DEF IInv, MigrationIsInsured, RunningIsSound, JournalBlocks
<1>9. BlockedProfileIsRestorable'
  BY <1>4 DEF BlockedProfileIsRestorable, JournalBlocks
<1> QED
  BY <1>3, <1>5, <1>6, <1>7, <1>8, <1>9 DEF IInv

LEMMA TearJournalKeeps == IInv /\ TearJournal => IInv'
<1> SUFFICES ASSUME IInv, TearJournal PROVE IInv'
  OBVIOUS
<1> USE DEF TearJournal
<1>0. NoFiles \in Files /\ Good(NoFiles)
  BY DEF NoFiles, Files, Good
<1>1. root \in Files /\ Good(root)
  BY DEF IInv, TypeOK, LogsAreGood
<1>2. /\ root' \in Files /\ Good(root')
      /\ root'.journal = "torn"
      /\ Content(root') = Content(root)
      /\ Sound(root') <=> Sound(root)
      /\ Readable(root') = Readable(root)
  BY <1>1, OtherJournal DEF Journal
<1>3. Sound(root) =>
      /\ Content(root) \in Image /\ Content(root).sound
      /\ Readable(root) = Content(root).edits
  BY <1>1, SoundFiles
<1>4. TypeOK'
  BY <1>0, <1>2 DEF IInv, TypeOK, Phase, Ended
<1>5. PointsAreSound' /\ LogsAreGood' /\ FilesAreSomewhere'
  BY <1>0, <1>2 DEF IInv, PointsAreSound, LogsAreGood, FilesAreSomewhere,
     Ended
<1>6. RestoreIsInsured' /\ EditsHaveAWayBack'
  BY <1>2 DEF IInv, RestoreIsInsured, EditsHaveAWayBack, PointEdits,
     Restoring, Ended
<1>7. CheckedIsInsured' /\ OpenedIsInsured'
  BY DEF CheckedIsInsured, OpenedIsInsured, Ended
<1>8. MigrationIsInsured' /\ RunningIsSound'
  BY DEF MigrationIsInsured, RunningIsSound, Ended
<1>9. BlockedProfileIsRestorable'
  BY <1>2, <1>3 DEF IInv, OpenedIsInsured, MigrationIsInsured,
     BlockedProfileIsRestorable
<1> QED
  BY <1>4, <1>5, <1>6, <1>7, <1>8, <1>9 DEF IInv

LEMMA CheckpointKeeps == IInv /\ Checkpoint => IInv'
<1> SUFFICES ASSUME IInv, Checkpoint PROVE IInv'
  OBVIOUS
<1> USE DEF Checkpoint
<1>1. root \in Files /\ Good(root)
  BY DEF IInv, TypeOK, LogsAreGood
<1>2. Sound(root)
  BY DEF IInv, OpenedIsInsured, MigrationIsInsured, RunningIsSound
<1>3. /\ root' \in Files /\ Good(root')
      /\ root'.journal = root.journal
      /\ Content(root') = Content(root)
      /\ Sound(root')
      /\ Readable(root') = Readable(root)
  BY <1>1, <1>2, Checkpointed
<1>4. TypeOK'
  BY <1>3 DEF IInv, TypeOK, Phase
<1>5. PointsAreSound' /\ LogsAreGood' /\ FilesAreSomewhere'
  BY <1>3 DEF IInv, PointsAreSound, LogsAreGood, FilesAreSomewhere
<1>6. RestoreIsInsured' /\ EditsHaveAWayBack'
  BY <1>3 DEF IInv, RestoreIsInsured, EditsHaveAWayBack, PointEdits
<1>7. CheckedIsInsured' /\ OpenedIsInsured'
  BY <1>3 DEF IInv, CheckedIsInsured, OpenedIsInsured, JournalBlocks
<1>8. MigrationIsInsured' /\ RunningIsSound'
  BY <1>3 DEF IInv, MigrationIsInsured, RunningIsSound, JournalBlocks
<1>9. BlockedProfileIsRestorable'
  BY <1>3 DEF IInv, BlockedProfileIsRestorable, JournalBlocks
<1> QED
  BY <1>4, <1>5, <1>6, <1>7, <1>8, <1>9 DEF IInv

LEMMA StopKeeps == IInv /\ Stop => IInv'
<1> SUFFICES ASSUME IInv, Stop PROVE IInv'
  OBVIOUS
<1> USE DEF Stop
<1>0. NoFiles \in Files /\ Good(NoFiles)
  BY DEF NoFiles, Files, Good
<1>1. TypeOK'
  BY <1>0 DEF IInv, TypeOK, Phase, Ended
<1>2. PointsAreSound' /\ LogsAreGood' /\ FilesAreSomewhere'
  BY <1>0 DEF IInv, PointsAreSound, LogsAreGood, FilesAreSomewhere, Ended
<1>3. RestoreIsInsured' /\ EditsHaveAWayBack'
  BY DEF IInv, RestoreIsInsured, EditsHaveAWayBack, PointEdits, Restoring,
     Ended
<1>4. CheckedIsInsured' /\ OpenedIsInsured'
  BY DEF CheckedIsInsured, OpenedIsInsured, Ended
<1>5. MigrationIsInsured' /\ RunningIsSound'
  BY DEF MigrationIsInsured, RunningIsSound, Ended
<1>6. BlockedProfileIsRestorable'
  BY DEF IInv, BlockedProfileIsRestorable, JournalBlocks
<1> QED
  BY <1>1, <1>2, <1>3, <1>4, <1>5, <1>6 DEF IInv

LEMMA EditKeeps == ASSUME IInv, NEW e \in Edits, Edit(e) PROVE IInv'
<1> USE DEF Edit
<1>1. root \in Files /\ Good(root)
  BY DEF IInv, TypeOK, LogsAreGood
<1> DEFINE image == [Content(root) EXCEPT !.edits = @ \cup {e}]
<1>2. /\ Sound(root) /\ Content(root) \in Image /\ Content(root).sound
      /\ Readable(root) = Content(root).edits
  BY <1>1, SoundFiles DEF IInv, RunningIsSound
<1>3. /\ image \in Image /\ image.sound
      /\ image.edits = Content(root).edits \cup {e}
  BY <1>2 DEF Image
<1> HIDE DEF image
<1>4. /\ root' \in Files /\ Good(root') /\ Sound(root')
      /\ Content(root') = image
      /\ root'.journal = root.journal
      /\ Readable(root') = Readable(root) \cup {e}
  <2>1. root' = Written(root, image)
    BY DEF image
  <2> QED
    BY <1>1, <1>2, <1>3, <2>1, WrittenOver DEF Readable
<1>5. TypeOK'
  BY <1>4 DEF IInv, TypeOK, Phase
<1>6. PointsAreSound' /\ LogsAreGood' /\ FilesAreSomewhere'
  BY <1>4 DEF IInv, PointsAreSound, LogsAreGood, FilesAreSomewhere
<1>7. RestoreIsInsured' /\ EditsHaveAWayBack'
  BY <1>4 DEF IInv, RestoreIsInsured, EditsHaveAWayBack, PointEdits, Restoring
<1>8. CheckedIsInsured' /\ OpenedIsInsured'
  BY DEF CheckedIsInsured, OpenedIsInsured
<1>9. MigrationIsInsured' /\ RunningIsSound'
  BY <1>4 DEF IInv, MigrationIsInsured, RunningIsSound, JournalBlocks
<1>10. BlockedProfileIsRestorable'
  BY <1>4 DEF IInv, RunningIsSound, BlockedProfileIsRestorable, JournalBlocks
<1> QED
  BY <1>5, <1>6, <1>7, <1>8, <1>9, <1>10 DEF IInv

-----------------------------------------------------------------------------
(* Recovery, and damage of the disk.                                       *)

LEMMA OnlyDatabase ==
  ASSUME NEW image \in Image
  PROVE  LET n == [main |-> image, wal |-> NoFile, journal |-> NoFile]
         IN  n \in Files /\ Good(n) /\ n.journal = NoFile
  BY DEF Files, Good

LEMMA BackupKeeps == IInv /\ Backup => IInv'
<1> SUFFICES ASSUME IInv, Backup PROVE IInv'
  OBVIOUS
<1> USE DEF Backup
<1>1. root \in Files /\ Good(root)
  BY DEF IInv, TypeOK, LogsAreGood
<1>2. /\ Sound(root) /\ Content(root) \in Image /\ Content(root).sound
      /\ Readable(root) = Content(root).edits
  BY <1>1, SoundFiles DEF SafeModeRequired
<1>3. TypeOK'
  BY <1>2 DEF IInv, TypeOK, Phase
<1>4. PointsAreSound' /\ LogsAreGood' /\ FilesAreSomewhere'
  BY <1>2 DEF IInv, PointsAreSound, LogsAreGood, FilesAreSomewhere
<1>5. RestoreIsInsured' /\ EditsHaveAWayBack'
  BY DEF IInv, RestoreIsInsured, EditsHaveAWayBack, PointEdits
<1>6. CheckedIsInsured' /\ OpenedIsInsured'
  BY DEF CheckedIsInsured, OpenedIsInsured
<1>7. MigrationIsInsured' /\ RunningIsSound'
  BY DEF MigrationIsInsured, RunningIsSound
<1>8. BlockedProfileIsRestorable'
  BY <1>2 DEF BlockedProfileIsRestorable
<1> QED
  BY <1>3, <1>4, <1>5, <1>6, <1>7, <1>8 DEF IInv

LEMMA BeginRestoreKeeps ==
  ASSUME IInv, NEW p \in points, BeginRestore(p) PROVE IInv'
<1> USE DEF BeginRestore
<1>1. root \in Files /\ Good(root)
  BY DEF IInv, TypeOK, LogsAreGood
<1>2. Sound(root) =>
      /\ Content(root) \in Image /\ Content(root).sound
      /\ Readable(root) = Content(root).edits
  BY <1>1, SoundFiles
<1>3. ~ Sound(root) => Readable(root) = {}
  BY DEF Readable
<1>4. Shared(root, root, NoFiles)
  BY DEF NoFiles, Shared, OneOf
<1>5. TypeOK'
  BY <1>2 DEF IInv, TypeOK, Phase, PreRestorePoint
<1>6. PointsAreSound' /\ LogsAreGood' /\ FilesAreSomewhere'
  BY <1>2, <1>4 DEF IInv, PointsAreSound, LogsAreGood, FilesAreSomewhere,
     Restoring, PreRestorePoint
<1>7. RestoreIsInsured' /\ EditsHaveAWayBack'
  BY <1>2, <1>3 DEF IInv, RestoreIsInsured, EditsHaveAWayBack, PointEdits,
     PreRestorePoint
<1>8. CheckedIsInsured' /\ OpenedIsInsured'
  BY DEF CheckedIsInsured, OpenedIsInsured
<1>9. MigrationIsInsured' /\ RunningIsSound'
  BY DEF MigrationIsInsured, RunningIsSound
<1>10. BlockedProfileIsRestorable'
  BY <1>2, <1>3 DEF BlockedProfileIsRestorable, PreRestorePoint
<1> QED
  BY <1>5, <1>6, <1>7, <1>8, <1>9, <1>10 DEF IInv

LEMMA QuarantineKeeps ==
  ASSUME IInv, NEW f \in Recovered, Quarantine(f) PROVE IInv'
<1> USE DEF Quarantine, Recovered
<1>1. root \in Files /\ Good(root)
  BY DEF IInv, TypeOK, LogsAreGood
<1>2. before \in Files /\ Good(before) /\ Shared(before, root, held)
  BY DEF IInv, TypeOK, LogsAreGood, FilesAreSomewhere
<1>3. root' \in Files /\ held' \in Files /\ Shared(before, root', held')
  <2>1. held \in Files
    BY DEF IInv, TypeOK
  <2>2. CASE f = "main"
    <3>1. root.main # NoFile /\ root' = [root EXCEPT !.main = NoFile]
      BY <2>2 DEF IsNext
    <3>2. held' = [held EXCEPT !.main = root.main]
      BY <2>2
    <3> QED
      BY <1>1, <1>2, <2>1, <3>1, <3>2 DEF Files, Shared, OneOf
  <2>3. CASE f = "wal"
    <3>1. root.wal # NoFile /\ root' = [root EXCEPT !.wal = NoFile]
      BY <2>3 DEF IsNext
    <3>2. held' = [held EXCEPT !.wal = root.wal]
      BY <2>3
    <3> QED
      BY <1>1, <1>2, <2>1, <3>1, <3>2 DEF Files, Shared, OneOf
  <2>4. CASE f = "journal"
    <3>1. root.journal # NoFile /\ root' = [root EXCEPT !.journal = NoFile]
      BY <2>4 DEF IsNext
    <3>2. held' = [held EXCEPT !.journal = root.journal]
      BY <2>4
    <3> QED
      BY <1>1, <1>2, <2>1, <3>1, <3>2 DEF Files, Shared, OneOf
  <2> QED
    BY <2>2, <2>3, <2>4 DEF FileName
<1>4. /\ Good(root')
      /\ Sound(root') => /\ Sound(before)
                         /\ Readable(root') \subseteq Content(before).edits
  BY <1>2, <1>3, PartOfFiles DEF Shared, OneOf
<1>5. TypeOK'
  BY <1>3 DEF IInv, TypeOK, Phase
<1>6. PointsAreSound' /\ LogsAreGood' /\ FilesAreSomewhere'
  BY <1>3, <1>4 DEF IInv, PointsAreSound, LogsAreGood, FilesAreSomewhere,
     Restoring
<1>7. RestoreIsInsured' /\ EditsHaveAWayBack'
  BY DEF IInv, RestoreIsInsured, EditsHaveAWayBack, PointEdits, Restoring
<1>8. CheckedIsInsured' /\ OpenedIsInsured'
  BY DEF CheckedIsInsured, OpenedIsInsured
<1>9. MigrationIsInsured' /\ RunningIsSound'
  BY DEF MigrationIsInsured, RunningIsSound
<1>10. BlockedProfileIsRestorable'
  BY <1>4 DEF IInv, RestoreIsInsured, BlockedProfileIsRestorable, Restoring,
     Readable
<1> QED
  BY <1>5, <1>6, <1>7, <1>8, <1>9, <1>10 DEF IInv

LEMMA RollBackKeeps ==
  ASSUME IInv, NEW f \in Recovered, RollBack(f) PROVE IInv'
<1> USE DEF RollBack, Recovered
<1>1. root \in Files /\ Good(root)
  BY DEF IInv, TypeOK, LogsAreGood
<1>2. before \in Files /\ Good(before) /\ Shared(before, root, held)
  BY DEF IInv, TypeOK, LogsAreGood, FilesAreSomewhere
<1>3. root' \in Files /\ held' \in Files /\ Shared(before, root', held')
  <2>1. held \in Files
    BY DEF IInv, TypeOK
  <2>2. CASE f = "main"
    <3>1. held.main # NoFile /\ held' = [held EXCEPT !.main = NoFile]
      BY <2>2 DEF IsNext
    <3>2. root' = [root EXCEPT !.main = held.main]
      BY <2>2
    <3> QED
      BY <1>1, <1>2, <2>1, <3>1, <3>2 DEF Files, Shared, OneOf
  <2>3. CASE f = "wal"
    <3>1. held.wal # NoFile /\ held' = [held EXCEPT !.wal = NoFile]
      BY <2>3 DEF IsNext
    <3>2. root' = [root EXCEPT !.wal = held.wal]
      BY <2>3
    <3> QED
      BY <1>1, <1>2, <2>1, <3>1, <3>2 DEF Files, Shared, OneOf
  <2>4. CASE f = "journal"
    <3>1. held.journal # NoFile /\ held' = [held EXCEPT !.journal = NoFile]
      BY <2>4 DEF IsNext
    <3>2. root' = [root EXCEPT !.journal = held.journal]
      BY <2>4
    <3> QED
      BY <1>1, <1>2, <2>1, <3>1, <3>2 DEF Files, Shared, OneOf
  <2> QED
    BY <2>2, <2>3, <2>4 DEF FileName
<1>4. /\ Good(root')
      /\ Sound(root') => /\ Sound(before)
                         /\ Readable(root') \subseteq Content(before).edits
  BY <1>2, <1>3, PartOfFiles DEF Shared, OneOf
<1>5. TypeOK'
  BY <1>3 DEF IInv, TypeOK, Phase
<1>6. PointsAreSound' /\ LogsAreGood' /\ FilesAreSomewhere'
  BY <1>3, <1>4 DEF IInv, PointsAreSound, LogsAreGood, FilesAreSomewhere,
     Restoring
<1>7. RestoreIsInsured' /\ EditsHaveAWayBack'
  BY DEF IInv, RestoreIsInsured, EditsHaveAWayBack, PointEdits, Restoring
<1>8. CheckedIsInsured' /\ OpenedIsInsured'
  BY DEF CheckedIsInsured, OpenedIsInsured
<1>9. MigrationIsInsured' /\ RunningIsSound'
  BY DEF MigrationIsInsured, RunningIsSound
<1>10. BlockedProfileIsRestorable'
  BY <1>4 DEF IInv, RestoreIsInsured, BlockedProfileIsRestorable, Restoring,
     Readable
<1> QED
  BY <1>5, <1>6, <1>7, <1>8, <1>9, <1>10 DEF IInv

LEMMA FailQuarantineKeeps == IInv /\ FailQuarantine => IInv'
<1> SUFFICES ASSUME IInv, FailQuarantine PROVE IInv'
  OBVIOUS
<1> USE DEF FailQuarantine
<1>0. NoFiles \in Files /\ Good(NoFiles)
  BY DEF NoFiles, Files, Good
<1>1. root \in Files /\ Good(root)
  BY DEF IInv, TypeOK, LogsAreGood
<1>2. before \in Files /\ Good(before) /\ Shared(before, root, held)
  BY DEF IInv, TypeOK, LogsAreGood, FilesAreSomewhere
<1>3. /\ root' \in Files
      /\ root'.main \in {before.main, NoFile}
      /\ root'.wal \in {before.wal, NoFile}
  BY <1>1, <1>2 DEF IInv, TypeOK, Files, Shared, OneOf
<1>4. /\ Good(root')
      /\ Sound(root') => /\ Sound(before)
                         /\ Readable(root') \subseteq Content(before).edits
  BY <1>2, <1>3, PartOfFiles
<1>5. TypeOK'
  BY <1>0, <1>3 DEF IInv, TypeOK, Phase, Ended
<1>6. PointsAreSound' /\ LogsAreGood' /\ FilesAreSomewhere'
  BY <1>0, <1>4 DEF IInv, PointsAreSound, LogsAreGood, FilesAreSomewhere,
     Ended
<1>7. RestoreIsInsured' /\ EditsHaveAWayBack'
  BY DEF IInv, RestoreIsInsured, EditsHaveAWayBack, PointEdits, Restoring,
     Ended
<1>8. CheckedIsInsured' /\ OpenedIsInsured'
  BY DEF CheckedIsInsured, OpenedIsInsured, Ended
<1>9. MigrationIsInsured' /\ RunningIsSound'
  BY DEF MigrationIsInsured, RunningIsSound, Ended
<1>10. BlockedProfileIsRestorable'
  BY <1>4 DEF IInv, RestoreIsInsured, BlockedProfileIsRestorable, Restoring,
     Readable
<1> QED
  BY <1>5, <1>6, <1>7, <1>8, <1>9, <1>10 DEF IInv

LEMMA InstallSnapshotKeeps == IInv /\ InstallSnapshot => IInv'
<1> SUFFICES ASSUME IInv, InstallSnapshot PROVE IInv'
  OBVIOUS
<1> USE DEF InstallSnapshot
<1>1. root \in Files /\ Good(root)
  BY DEF IInv, TypeOK, LogsAreGood
<1>2. before \in Files /\ Good(before) /\ Shared(before, root, held)
  BY DEF IInv, TypeOK, LogsAreGood, FilesAreSomewhere
<1>3. root.main = NoFile /\ root.wal = NoFile /\ root.journal = NoFile
  BY DEF NoneLeft, Recovered, FileName
<1>4. /\ root' = [main |-> target, wal |-> NoFile, journal |-> NoFile]
      /\ held' = before
      /\ target \in Image /\ target # NoFile
  BY <1>1, <1>2, <1>3, ImageIsNoFile DEF IInv, TypeOK, Files, Shared, OneOf, RestoreIsInsured, Restoring
<1>5. root' \in Files /\ Good(root') /\ root'.journal \notin Journal
  BY <1>4, OnlyDatabase, ImageIsNoFile
<1>6. TypeOK'
  BY <1>5 DEF IInv, TypeOK, Phase
<1>7. PointsAreSound' /\ LogsAreGood' /\ FilesAreSomewhere'
  BY <1>4, <1>5 DEF IInv, PointsAreSound, LogsAreGood, FilesAreSomewhere,
     Restoring
<1>8. RestoreIsInsured' /\ EditsHaveAWayBack'
  BY DEF IInv, RestoreIsInsured, EditsHaveAWayBack, PointEdits, Restoring
<1>9. CheckedIsInsured' /\ OpenedIsInsured'
  BY DEF CheckedIsInsured, OpenedIsInsured
<1>10. MigrationIsInsured' /\ RunningIsSound'
  BY DEF MigrationIsInsured, RunningIsSound
<1>11. BlockedProfileIsRestorable'
  BY <1>5 DEF BlockedProfileIsRestorable, JournalBlocks
<1> QED
  BY <1>6, <1>7, <1>8, <1>9, <1>10, <1>11 DEF IInv

LEMMA FailInstallKeeps == IInv /\ FailInstall => IInv'
<1> SUFFICES ASSUME IInv, FailInstall PROVE IInv'
  OBVIOUS
<1> USE DEF FailInstall
<1>1. TypeOK'
  BY IInv DEF IInv, TypeOK, Phase
<1>2. PointsAreSound' /\ LogsAreGood' /\ FilesAreSomewhere'
  BY DEF IInv, PointsAreSound, LogsAreGood, FilesAreSomewhere, Restoring
<1>3. RestoreIsInsured' /\ EditsHaveAWayBack'
  BY DEF IInv, RestoreIsInsured, EditsHaveAWayBack, PointEdits, Restoring
<1>4. CheckedIsInsured' /\ OpenedIsInsured'
  BY DEF CheckedIsInsured, OpenedIsInsured
<1>5. MigrationIsInsured' /\ RunningIsSound'
  BY DEF MigrationIsInsured, RunningIsSound
<1>6. BlockedProfileIsRestorable'
  BY DEF IInv, BlockedProfileIsRestorable, JournalBlocks
<1> QED
  BY <1>1, <1>2, <1>3, <1>4, <1>5, <1>6 DEF IInv

LEMMA FinishRestoreKeeps == IInv /\ FinishRestore => IInv'
<1> SUFFICES ASSUME IInv, FinishRestore PROVE IInv'
  OBVIOUS
<1> USE DEF FinishRestore
<1>0. NoFiles \in Files /\ Good(NoFiles)
  BY DEF NoFiles, Files, Good
<1>1. TypeOK'
  BY <1>0 DEF IInv, TypeOK, Phase, Ended
<1>2. PointsAreSound' /\ LogsAreGood' /\ FilesAreSomewhere'
  BY <1>0 DEF IInv, PointsAreSound, LogsAreGood, FilesAreSomewhere, Ended
<1>3. RestoreIsInsured' /\ EditsHaveAWayBack'
  BY DEF IInv, RestoreIsInsured, EditsHaveAWayBack, PointEdits, Restoring,
     Ended
<1>4. CheckedIsInsured' /\ OpenedIsInsured'
  BY DEF CheckedIsInsured, OpenedIsInsured, Ended
<1>5. MigrationIsInsured' /\ RunningIsSound'
  BY DEF MigrationIsInsured, RunningIsSound, Ended
<1>6. BlockedProfileIsRestorable'
  BY DEF IInv, BlockedProfileIsRestorable, JournalBlocks
<1> QED
  BY <1>1, <1>2, <1>3, <1>4, <1>5, <1>6 DEF IInv

LEMMA RejectInstalledKeeps == IInv /\ RejectInstalled => IInv'
<1> SUFFICES ASSUME IInv, RejectInstalled PROVE IInv'
  OBVIOUS
<1> USE DEF RejectInstalled
<1>1. root' = NoFiles /\ held' = before
  BY DEF IInv, FilesAreSomewhere, NoFiles
<1>2. /\ NoFiles \in Files /\ Good(NoFiles) /\ ~ Sound(NoFiles)
      /\ Shared(before, NoFiles, before)
  BY DEF NoFiles, Files, Good, Sound, Shared, OneOf
<1>3. TypeOK'
  BY <1>1, <1>2 DEF IInv, TypeOK, Phase
<1>4. PointsAreSound' /\ LogsAreGood' /\ FilesAreSomewhere'
  BY <1>1, <1>2 DEF IInv, PointsAreSound, LogsAreGood, FilesAreSomewhere,
     Restoring
<1>5. RestoreIsInsured' /\ EditsHaveAWayBack'
  BY DEF IInv, RestoreIsInsured, EditsHaveAWayBack, PointEdits, Restoring
<1>6. CheckedIsInsured' /\ OpenedIsInsured'
  BY DEF CheckedIsInsured, OpenedIsInsured
<1>7. MigrationIsInsured' /\ RunningIsSound'
  BY DEF MigrationIsInsured, RunningIsSound
<1>8. BlockedProfileIsRestorable'
  BY <1>1, <1>2 DEF BlockedProfileIsRestorable, Readable
<1> QED
  BY <1>3, <1>4, <1>5, <1>6, <1>7, <1>8 DEF IInv

LEMMA DamageKeeps == IInv /\ Damage => IInv'
<1> SUFFICES ASSUME IInv, Damage PROVE IInv'
  OBVIOUS
<1> USE DEF Damage
<1>1. root \in Files /\ Good(root)
  BY DEF IInv, TypeOK, LogsAreGood
<1>2. /\ root' \in Files
      /\ root'.main = [root.main EXCEPT !.sound = FALSE]
      /\ root'.wal = root.wal
  BY <1>1 DEF Files, Image, Sound
<1>3. Good(root') /\ ~ Sound(root')
  BY <1>1, <1>2 DEF Good, Sound, Files, Image
<1>4. TypeOK'
  BY <1>2 DEF IInv, TypeOK, Phase
<1>5. PointsAreSound' /\ LogsAreGood' /\ FilesAreSomewhere'
  BY <1>3 DEF IInv, PointsAreSound, LogsAreGood, FilesAreSomewhere
<1>6. RestoreIsInsured' /\ EditsHaveAWayBack'
  BY DEF RestoreIsInsured, EditsHaveAWayBack, PointEdits, Restoring
<1>7. CheckedIsInsured' /\ OpenedIsInsured'
  BY DEF CheckedIsInsured, OpenedIsInsured
<1>8. MigrationIsInsured' /\ RunningIsSound'
  BY DEF MigrationIsInsured, RunningIsSound
<1>9. BlockedProfileIsRestorable'
  BY <1>3 DEF BlockedProfileIsRestorable, Readable
<1> QED
  BY <1>4, <1>5, <1>6, <1>7, <1>8, <1>9 DEF IInv

-----------------------------------------------------------------------------
(* The invariant.                                                          *)

LEMMA InitIInv == Init => IInv
<1> SUFFICES ASSUME Init PROVE IInv
  OBVIOUS
<1>1. PICK main \in {NoFile} \cup {image \in Image : Unmigrated(image) /\ image.sound} :
        root = [NoFiles EXCEPT !.main = main] /\ acked = Readable(root)
  BY DEF Init
<1>2. /\ root \in Files /\ NoFiles \in Files
      /\ root.main = main
      /\ root.wal = NoFile
      /\ root.journal = NoFile
      /\ Good(root) /\ Good(NoFiles)
  BY <1>1 DEF Files, NoFiles, Good
<1>3. Readable(root) \in SUBSET Edits
  BY <1>2, SoundFiles DEF Readable, Image
<1>4. ~ JournalBlocks
  BY <1>2, ImageIsNoFile DEF JournalBlocks
<1>5. TypeOK
  BY <1>1, <1>2, <1>3 DEF Init, TypeOK, Phase
<1>6. PointsAreSound /\ LogsAreGood /\ FilesAreSomewhere /\ EditsHaveAWayBack
  BY <1>1, <1>2 DEF Init, PointsAreSound, LogsAreGood, FilesAreSomewhere,
                    Restoring, EditsHaveAWayBack
<1>7. RestoreIsInsured /\ CheckedIsInsured /\ OpenedIsInsured
  BY DEF Init, RestoreIsInsured, CheckedIsInsured, OpenedIsInsured, Restoring
<1>8. MigrationIsInsured /\ RunningIsSound /\ BlockedProfileIsRestorable
  BY <1>4 DEF Init, MigrationIsInsured, RunningIsSound, BlockedProfileIsRestorable
<1> QED
  BY <1>5, <1>6, <1>7, <1>8 DEF IInv

LEMMA StutterKeeps == IInv /\ UNCHANGED vars => IInv'
<1> SUFFICES ASSUME IInv, UNCHANGED vars PROVE IInv'
  OBVIOUS
<1> USE DEF vars
<1>1. /\ TypeOK' /\ PointsAreSound' /\ LogsAreGood' /\ FilesAreSomewhere'
      /\ RestoreIsInsured'
  BY DEF IInv, TypeOK, PointsAreSound, LogsAreGood, FilesAreSomewhere,
         RestoreIsInsured, PointEdits
<1>2. /\ CheckedIsInsured' /\ OpenedIsInsured' /\ MigrationIsInsured'
      /\ RunningIsSound'
  BY DEF IInv, CheckedIsInsured, OpenedIsInsured, MigrationIsInsured,
         RunningIsSound, JournalBlocks, SafeModeRequired
<1>3. EditsHaveAWayBack' /\ BlockedProfileIsRestorable'
  BY DEF IInv, EditsHaveAWayBack, BlockedProfileIsRestorable, PointEdits,
         JournalBlocks
<1> QED
  BY <1>1, <1>2, <1>3 DEF IInv

LEMMA NextKeeps == IInv /\ [Next]_vars => IInv'
<1> SUFFICES ASSUME IInv, [Next]_vars PROVE IInv'
  OBVIOUS
<1>1. CASE Startup
  BY <1>1, StartKeeps, OpenDatabaseKeeps, SkipMigrationKeeps,
     PrepareMigrationKeeps, MigrateStepKeeps, FailMigrationKeeps,
     ReportFailureKeeps, CompleteMigrationKeeps, RemoveJournalKeeps,
     TearJournalKeeps, EditKeeps, CheckpointKeeps, StopKeeps DEF Startup
<1>2. CASE Recovery
  BY <1>2, BackupKeeps, BeginRestoreKeeps, QuarantineKeeps, FailQuarantineKeeps,
     InstallSnapshotKeeps, FailInstallKeeps, FinishRestoreKeeps,
     RejectInstalledKeeps, RollBackKeeps DEF Recovery
<1>3. CASE Damage
  BY <1>3, DamageKeeps
<1>4. CASE UNCHANGED vars
  BY <1>4, StutterKeeps
<1> QED
  BY <1>1, <1>2, <1>3, <1>4 DEF Next

THEOREM Invariance == Spec => []IInv
  BY InitIInv, NextKeeps, PTL DEF Spec

\* Type correctness.
THEOREM ProfileTypeCorrect == Spec => []TypeOK
<1>1. IInv => TypeOK
  BY DEF IInv
<1> QED
  BY <1>1, Invariance, PTL

\* No crash, failure or restore takes an edit out of the profile that is in no
\* verified restore point.
THEOREM NoEditIsLost == Spec => []EditsHaveAWayBack
<1>1. IInv => EditsHaveAWayBack
  BY DEF IInv
<1> QED
  BY <1>1, Invariance, PTL

\* No interrupted restore leaves a log beside another database than its own.
THEOREM LogsStayWithDatabases == Spec => []LogMatchesDatabase
<1>1. IInv => LogMatchesDatabase
  BY DEF IInv, LogsAreGood, Good, LogMatchesDatabase
<1> QED
  BY <1>1, Invariance, PTL

\* A profile with edits that a journal blocks can be restored without loss.
THEOREM BlockedProfilesAreRestorable == Spec => []BlockedProfileIsRestorable
<1>1. IInv => BlockedProfileIsRestorable
  BY DEF IInv
<1> QED
  BY <1>1, Invariance, PTL

\* A roll-back that runs to its end restores every file.
THEOREM RollbacksAreComplete == Spec => []RollbackIsComplete
<1>1. IInv => RollbackIsComplete
  <2> SUFFICES ASSUME IInv, phase = "rollback", NoneLeft(held)
               PROVE  root = before
    BY DEF RollbackIsComplete
  <2>1. root \in Files /\ before \in Files /\ Shared(before, root, held)
    BY DEF IInv, TypeOK, FilesAreSomewhere
  <2>2. held.main = NoFile /\ held.wal = NoFile /\ held.journal = NoFile
    BY DEF NoneLeft, Recovered, FileName
  <2>3. /\ root.main = before.main
        /\ root.wal = before.wal
        /\ root.journal = before.journal
    BY <2>1, <2>2 DEF Shared, OneOf
  <2> QED
    BY <2>1, <2>3 DEF Files
<1> QED
  BY <1>1, Invariance, PTL

\* A failed migration leaves an existing profile as it was.
THEOREM FailedMigrationsAreUndone == Spec => []FailedMigrationIsUndone
<1>1. IInv => FailedMigrationIsUndone
  BY DEF IInv, MigrationIsInsured, FailedMigrationIsUndone
<1> QED
  BY <1>1, Invariance, PTL

=============================================================================
