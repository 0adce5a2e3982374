---------------------------- MODULE ReleaseProofs ----------------------------
(***************************************************************************)
(* Proofs of the safety properties of Release, for any two schemas, any    *)
(* writes and any number of activations, failures and crashes.             *)
(*                                                                         *)
(* The argument follows the installer.  Until it starts the new release,   *)
(* and again once it has put the snapshot back, the database fits the      *)
(* release that was there before (Untried), so no migration is pending;    *)
(* in between the snapshot holds all that is not on trial.                 *)
(***************************************************************************)
EXTENDS Release, TLAPS

ServicesOff == ~target.up /\ core = CoreOff /\ migrate = MigrateOff

\* The database is what a release left, or that of a host without any.
Fits(release) == IF release = None THEN db = NoFile
                 ELSE db.kind = "whole" /\ db.schema = SchemaOf(release)

CopiedWrites == UNION {file.writes : file \in copies}

\* Where the content of the database is, also while it is copied back.
Content == IF migrate.pc = "restoring" THEN migrate.copy.writes ELSE db.writes

\* The installer has not tried the new release, or has undone its trial.
Untried == \/ At("begin") /\ ~placed /\ current # "new"
           \/ Active /\ ~installer.mayHaveRun
           \/ installer.after \in {"undo_link", "undo_start", "undo_wait"}

\* The release that was there before.
Base == IF At("begin") THEN current ELSE installer.old

\* From the snapshot on until it is put back.
OnSnapshot == \/ installer.after \in {"switch", "start", "trial"}
              \/ installer.after \in {"undo_stop", "undo_database"} /\ installer.mayHaveRun

-----------------------------------------------------------------------------
(* The parts of the inductive invariant.                                   *)

OneAtATime ==
  /\ core.up => migrate = MigrateOff
  /\ migrate.pc # "off" => migrate.release = current /\ current # None

MigratesWhatItSaw ==
  migrate.pc = "opened" => migrate.existed = (db.kind \notin {"none", "empty"})

CopyWhileApplying ==
  migrate.pc = "applying" =>
    /\ db.kind = "whole"
    /\ IF migrate.existed
       THEN migrate.copy \in copies /\ migrate.copy # NoFile /\ migrate.copy.writes = db.writes
       ELSE migrate.copy = NoFile /\ db.writes = {}

CopyWhileRestoring ==
  migrate.pc = "restoring" => migrate.copy \in copies /\ migrate.copy # NoFile

\* Unless a restoration was cut, the database has all that was accepted.
DatabaseHasAll == ~cut => accepted \subseteq Content

AllSomewhere == accepted \subseteq db.writes \cup CopiedWrites

StoppedSteps ==
  installer.after \in {"snapshot", "switch", "start", "undo_database", "undo_link",
                       "undo_start"}
    => ServicesOff

StepsNoted ==
  /\ installer.after \in {"enable", "stop", "snapshot", "switch", "start"}
       => ~installer.mayHaveRun
  /\ At("trial") => installer.mayHaveRun
  /\ Active => /\ placed /\ installer.old # "new"
               /\ installer.dbExisted <=> installer.old # None
  /\ installer.after \in {"enable", "stop", "snapshot", "switch", "undo_start", "undo_wait"}
       => current = installer.old
  /\ At("undo_stop") /\ ~installer.mayHaveRun => current = installer.old \/ ServicesOff

\* The link exchanged leads to the one release or the other.
LinksNoted ==
  /\ Active => /\ current \in {installer.old, "new"}
               /\ onDisk.current \subseteq {installer.old, "new"}
  /\ At("begin") /\ ~placed => onDisk.current \subseteq {current, "new"}

EnablementNoted ==
  Active =>
    IF installer.after \in {"undo_start", "undo_wait"} /\ installer.old = None
    THEN ~target.enabled
    ELSE installer.wasEnabled => target.enabled

UntriedFits ==
  Untried => /\ Base # "new"
             /\ Fits(Base)
             /\ ~cut
             /\ migrate.pc \in {"off", "opened", "done"}

SnapshotHolds ==
  OnSnapshot => IF installer.dbExisted
                THEN /\ snapshot.kind = "whole"
                     /\ snapshot.schema = SchemaOf(installer.old)
                     /\ installer.old # "new"
                     /\ Kept \subseteq snapshot.writes
                ELSE Kept = {}

UndoneRests ==
  installer.ended = "undone" =>
    /\ At("begin") /\ ~placed
    /\ current = installer.old /\ current # "new"
    /\ IF installer.old = None THEN ~target.enabled
       ELSE installer.wasEnabled => target.enabled

Parts ==
  /\ OneAtATime /\ MigratesWhatItSaw
  /\ CopyWhileApplying /\ CopyWhileRestoring
  /\ DatabaseHasAll /\ AllSomewhere
  /\ StoppedSteps /\ StepsNoted
  /\ LinksNoted /\ EnablementNoted
  /\ UntriedFits /\ SnapshotHolds /\ UndoneRests

IInv == TypeOK /\ CoreFitsDatabase /\ Parts

-----------------------------------------------------------------------------
(* Files.                                                                  *)

\* What a file is made of; one that is not whole has no content.
LEMMA FileFields ==
  ASSUME NEW file \in Files
  PROVE  /\ file \in [kind : {"none", "empty", "torn", "whole"}, schema : 0..NewSchema,
                      writes : SUBSET Writes]
         /\ file.kind # "whole" => file.schema = 0 /\ file.writes = {}
         /\ file.kind = "none" => file = NoFile
BY MigrationAssumption DEF Files, Lost, Whole, NoFile

LEMMA NewFiles ==
  /\ NoFile \in Files
  /\ \A kind \in {"none", "empty", "torn"} : Lost(kind) \in Files
  /\ \A schema \in 0..NewSchema, writes \in SUBSET Writes : Whole(schema, writes) \in Files
BY DEF Files, NoFile

\* Before the new release is tried, what starts is the previous one, on its own
\* database.
LEMMA UntriedIsCurrent ==
  ASSUME IInv, Untried, migrate.pc # "off" \/ core.up
  PROVE  /\ current = Base /\ current # None
         /\ db.kind = "whole" /\ db.schema = SchemaOf(current)
BY DEF IInv, Parts, Untried, OneAtATime, UntriedFits, Fits, StoppedSteps, StepsNoted, Base,
   Active, Forward, Backward, At, ServicesOff, MigrateOff, CoreOff, CoreFitsDatabase, NoFile, Lost



-----------------------------------------------------------------------------
(* The migration.                                                          *)

LEMMA MigrateStartsKeeps ==
  ASSUME IInv, MigrateStarts,
         UNCHANGED <<placed, installer, onDisk, snapshot, tried, installs>>
  PROVE  IInv'
<1> USE DEF IInv, Parts, TypeOK, MigrationTypeOK, MigrateStarts, Installed, storage
<1>1. TypeOK'
  BY NewFiles DEF Releases, None
<1>2. (/\ CoreFitsDatabase /\ AllSomewhere /\ LinksNoted /\ EnablementNoted
      /\ SnapshotHolds /\ UndoneRests)'
  BY DEF CoreFitsDatabase, AllSomewhere, LinksNoted, EnablementNoted, SnapshotHolds,
     UndoneRests, SchemaOf, CopiedWrites, Active, At, None, OnSnapshot, Kept, Forward,
     Backward
<1>3. OneAtATime'
  BY DEF OneAtATime, MigrateOff, None
<1>4. MigratesWhatItSaw'
  BY DEF MigratesWhatItSaw
<1>5. CopyWhileApplying'
  BY DEF CopyWhileApplying
<1>6. CopyWhileRestoring'
  BY DEF CopyWhileRestoring
<1>7. DatabaseHasAll'
  BY DEF DatabaseHasAll, Content
<1>8. StoppedSteps'
  BY DEF StoppedSteps, ServicesOff, CoreOff, MigrateOff, None
<1>9. StepsNoted'
  BY DEF StepsNoted, At, Active, None, ServicesOff, Forward, Backward, CoreOff,
     MigrateOff
<1>10. UntriedFits'
  BY DEF UntriedFits, Untried, Base, Fits, At, Active, None, SchemaOf, Forward,
     Backward
<1> QED
  BY <1>1, <1>2, <1>3, <1>4, <1>5, <1>6, <1>7, <1>8, <1>9, <1>10

LEMMA RefuseKeeps ==
  ASSUME IInv, Refuse,
         UNCHANGED <<placed, installer, onDisk, snapshot, tried, installs>>
  PROVE  IInv'
<1>u. Untried => db.kind = "whole" /\ db.schema = SchemaOf(migrate.release)
  BY UntriedIsCurrent DEF Refuse, IInv, Parts, OneAtATime
<1> USE DEF IInv, Parts, TypeOK, MigrationTypeOK, Refuse, MayMigrate, storage
<1>1. TypeOK'
  BY NewFiles DEF Releases, None
<1>2. (/\ CoreFitsDatabase /\ AllSomewhere /\ LinksNoted /\ EnablementNoted
      /\ SnapshotHolds /\ UndoneRests)'
  BY DEF CoreFitsDatabase, AllSomewhere, LinksNoted, EnablementNoted, SnapshotHolds,
     UndoneRests, SchemaOf, CopiedWrites, Active, At, None, OnSnapshot, Kept, Forward,
     Backward
<1>3. OneAtATime'
  BY DEF OneAtATime, MigrateOff, None
<1>4. MigratesWhatItSaw'
  BY DEF MigratesWhatItSaw
<1>5. CopyWhileApplying'
  BY DEF CopyWhileApplying
<1>6. CopyWhileRestoring'
  BY DEF CopyWhileRestoring
<1>7. DatabaseHasAll'
  BY DEF DatabaseHasAll, Content
<1>8. StoppedSteps'
  BY DEF StoppedSteps, ServicesOff, CoreOff, MigrateOff, None
<1>9. StepsNoted'
  BY DEF StepsNoted, At, Active, None, ServicesOff, Forward, Backward, CoreOff,
     MigrateOff
<1>10. UntriedFits'
  <2>1. ~Untried
    BY <1>u, FileFields
  <2>2. ~Untried'
    BY <2>1 DEF Untried, At, Active
  <2> QED
    BY <2>2 DEF UntriedFits
<1> QED
  BY <1>1, <1>2, <1>3, <1>4, <1>5, <1>6, <1>7, <1>8, <1>9, <1>10

LEMMA NothingPendingKeeps ==
  ASSUME IInv, NothingPending,
         UNCHANGED <<placed, installer, onDisk, snapshot, tried, installs>>
  PROVE  IInv'
<1> USE DEF IInv, Parts, TypeOK, MigrationTypeOK, NothingPending, MayMigrate, Pending,
        storage
<1>1. TypeOK'
  BY NewFiles DEF Releases, None
<1>2. (/\ CoreFitsDatabase /\ AllSomewhere /\ LinksNoted /\ EnablementNoted
      /\ SnapshotHolds /\ UndoneRests)'
  BY DEF CoreFitsDatabase, AllSomewhere, LinksNoted, EnablementNoted, SnapshotHolds,
     UndoneRests, SchemaOf, CopiedWrites, Active, At, None, OnSnapshot, Kept, Forward,
     Backward
<1>3. OneAtATime'
  BY DEF OneAtATime, MigrateOff, None
<1>4. MigratesWhatItSaw'
  BY DEF MigratesWhatItSaw
<1>5. CopyWhileApplying'
  BY DEF CopyWhileApplying
<1>6. CopyWhileRestoring'
  BY DEF CopyWhileRestoring
<1>7. DatabaseHasAll'
  BY DEF DatabaseHasAll, Content
<1>8. StoppedSteps'
  BY DEF StoppedSteps, ServicesOff, CoreOff, MigrateOff, None
<1>9. StepsNoted'
  BY DEF StepsNoted, At, Active, None, ServicesOff, Forward, Backward, CoreOff,
     MigrateOff
<1>10. UntriedFits'
  BY DEF UntriedFits, Untried, Base, Fits, At, Active, None, SchemaOf, Forward,
     Backward
<1> QED
  BY <1>1, <1>2, <1>3, <1>4, <1>5, <1>6, <1>7, <1>8, <1>9, <1>10

\* A pending migration is not that of the previous release on its own database, so
\* the snapshot, or the absence of a database, was there before.
LEMMA BackUpKeeps ==
  ASSUME IInv, BackUp,
         UNCHANGED <<placed, installer, onDisk, snapshot, tried, installs>>
  PROVE  IInv'
<1>u. Untried => db.kind = "whole" /\ db.schema = SchemaOf(migrate.release)
  BY UntriedIsCurrent DEF BackUp, IInv, Parts, OneAtATime
<1> USE DEF IInv, Parts, TypeOK, MigrationTypeOK, BackUp, MayMigrate, Pending, CopyOf
<1>1. TypeOK'
  <2>1. db' \in Files /\ CopyOf \in Files
    BY NewFiles, MigrationAssumption
  <2> QED
    BY <2>1
<1>2. (/\ LinksNoted /\ EnablementNoted /\ SnapshotHolds /\ UndoneRests)'
  BY DEF LinksNoted, EnablementNoted, SnapshotHolds, UndoneRests, Active, At, None,
     OnSnapshot, SchemaOf, Kept, Forward, Backward
<1>3. CoreFitsDatabase'
  BY DEF CoreFitsDatabase, SchemaOf, OneAtATime, MigrateOff, None
<1>4. OneAtATime'
  BY DEF OneAtATime, MigrateOff, None
<1>5. MigratesWhatItSaw'
  BY DEF MigratesWhatItSaw
<1>6. CopyWhileApplying'
  BY NewFiles, FileFields DEF CopyWhileApplying, MigratesWhatItSaw, NoFile, Lost,
     Whole
<1>7. CopyWhileRestoring'
  BY DEF CopyWhileRestoring
<1>8. DatabaseHasAll'
  BY FileFields DEF DatabaseHasAll, Content, MigratesWhatItSaw, Whole
<1>9. AllSomewhere'
  BY FileFields DEF AllSomewhere, CopiedWrites, MigratesWhatItSaw, DatabaseHasAll,
     Whole, Content
<1>10. StoppedSteps'
  BY DEF StoppedSteps, ServicesOff, CoreOff, MigrateOff, None
<1>11. StepsNoted'
  BY DEF StepsNoted, At, Active, None, ServicesOff, Forward, Backward, CoreOff,
     MigrateOff
<1>12. UntriedFits'
  <2>1. ~Untried
    BY <1>u, FileFields
  <2>2. ~Untried'
    BY <2>1 DEF Untried, At, Active
  <2> QED
    BY <2>2 DEF UntriedFits
<1> QED
  BY <1>1, <1>2, <1>3, <1>4, <1>5, <1>6, <1>7, <1>8, <1>9, <1>10, <1>11, <1>12

LEMMA BackUpFailsKeeps ==
  ASSUME IInv, BackUpFails,
         UNCHANGED <<placed, installer, onDisk, snapshot, tried, installs>>
  PROVE  IInv'
<1>u. Untried => db.kind = "whole" /\ db.schema = SchemaOf(migrate.release)
  BY UntriedIsCurrent DEF BackUpFails, IInv, Parts, OneAtATime
<1> USE DEF IInv, Parts, TypeOK, MigrationTypeOK, BackUpFails, MayMigrate, Pending,
        Troubled, storage
<1>1. TypeOK'
  BY MigrationAssumption, NewFiles DEF Releases, None
<1>2. (/\ CoreFitsDatabase /\ AllSomewhere /\ LinksNoted /\ EnablementNoted
      /\ SnapshotHolds /\ UndoneRests)'
  BY DEF CoreFitsDatabase, AllSomewhere, LinksNoted, EnablementNoted, SnapshotHolds,
     UndoneRests, SchemaOf, CopiedWrites, Active, At, None, OnSnapshot, Kept, Forward,
     Backward
<1>3. OneAtATime'
  BY DEF OneAtATime, MigrateOff, None
<1>4. MigratesWhatItSaw'
  BY DEF MigratesWhatItSaw
<1>5. CopyWhileApplying'
  BY DEF CopyWhileApplying
<1>6. CopyWhileRestoring'
  BY DEF CopyWhileRestoring
<1>7. DatabaseHasAll'
  BY DEF DatabaseHasAll, Content
<1>8. StoppedSteps'
  BY DEF StoppedSteps, ServicesOff, CoreOff, MigrateOff, None
<1>9. StepsNoted'
  BY DEF StepsNoted, At, Active, None, ServicesOff, Forward, Backward, CoreOff,
     MigrateOff
<1>10. UntriedFits'
  <2>1. ~Untried
    BY <1>u, FileFields
  <2>2. ~Untried'
    BY <2>1 DEF Untried, At, Active
  <2> QED
    BY <2>2 DEF UntriedFits
<1> QED
  BY <1>1, <1>2, <1>3, <1>4, <1>5, <1>6, <1>7, <1>8, <1>9, <1>10

LEMMA ApplyNextKeeps ==
  ASSUME IInv, ApplyNext,
         UNCHANGED <<placed, installer, onDisk, snapshot, tried, installs>>
  PROVE  IInv'
<1> USE DEF IInv, Parts, TypeOK, MigrationTypeOK, ApplyNext, Pending, units
<1>1. TypeOK'
  <2>1. db.schema \in 0..NewSchema /\ db.schema + 1 \in 0..NewSchema
    BY FileFields, MigrationAssumption DEF SchemaOf
  <2>2. db' = Whole(db.schema + 1, db.writes)
    BY FileFields DEF CopyWhileApplying, Whole
  <2> QED
    BY <2>1, <2>2, FileFields, NewFiles
<1>2. (/\ OneAtATime /\ CopyWhileRestoring /\ StoppedSteps /\ StepsNoted
      /\ LinksNoted /\ EnablementNoted /\ SnapshotHolds /\ UndoneRests)'
  BY DEF OneAtATime, CopyWhileRestoring, StoppedSteps, StepsNoted, LinksNoted,
     EnablementNoted, SnapshotHolds, UndoneRests, MigrateOff, None, ServicesOff, At,
     Active, OnSnapshot, SchemaOf, Kept, CoreOff, Forward, Backward
<1>3. CoreFitsDatabase'
  BY DEF CoreFitsDatabase, SchemaOf, OneAtATime, MigrateOff, None
<1>4. MigratesWhatItSaw'
  BY DEF MigratesWhatItSaw
<1>5. CopyWhileApplying'
  BY DEF CopyWhileApplying
<1>6. DatabaseHasAll'
  BY DEF DatabaseHasAll, Content
<1>7. AllSomewhere'
  BY DEF AllSomewhere, CopiedWrites
<1>8. UntriedFits'
  BY DEF UntriedFits, Untried, Base, Fits, At, Active, None, SchemaOf, Forward,
     Backward
<1> QED
  BY <1>1, <1>2, <1>3, <1>4, <1>5, <1>6, <1>7, <1>8

LEMMA AllAppliedKeeps ==
  ASSUME IInv, AllApplied,
         UNCHANGED <<placed, installer, onDisk, snapshot, tried, installs>>
  PROVE  IInv'
<1> USE DEF IInv, Parts, TypeOK, MigrationTypeOK, AllApplied, Pending, storage
<1>1. TypeOK'
  BY NewFiles DEF Releases, None
<1>2. (/\ CoreFitsDatabase /\ AllSomewhere /\ LinksNoted /\ EnablementNoted
      /\ SnapshotHolds /\ UndoneRests)'
  BY DEF CoreFitsDatabase, AllSomewhere, LinksNoted, EnablementNoted, SnapshotHolds,
     UndoneRests, SchemaOf, CopiedWrites, Active, At, None, OnSnapshot, Kept, Forward,
     Backward
<1>3. OneAtATime'
  BY DEF OneAtATime, MigrateOff, None
<1>4. MigratesWhatItSaw'
  BY DEF MigratesWhatItSaw
<1>5. CopyWhileApplying'
  BY DEF CopyWhileApplying
<1>6. CopyWhileRestoring'
  BY DEF CopyWhileRestoring
<1>7. DatabaseHasAll'
  BY DEF DatabaseHasAll, Content
<1>8. StoppedSteps'
  BY DEF StoppedSteps, ServicesOff, CoreOff, MigrateOff, None
<1>9. StepsNoted'
  BY DEF StepsNoted, At, Active, None, ServicesOff, Forward, Backward, CoreOff,
     MigrateOff
<1>10. UntriedFits'
  BY DEF UntriedFits, Untried, Base, Fits, At, Active, None, SchemaOf, Forward,
     Backward
<1> QED
  BY <1>1, <1>2, <1>3, <1>4, <1>5, <1>6, <1>7, <1>8, <1>9, <1>10

\* The copy that goes back has all that the database had.
LEMMA ApplyFailsKeeps ==
  ASSUME IInv, ApplyFails,
         UNCHANGED <<placed, installer, onDisk, snapshot, tried, installs>>
  PROVE  IInv'
<1> USE DEF IInv, Parts, TypeOK, MigrationTypeOK, ApplyFails, Troubled, UndoMigration
<1>1. TypeOK'
  BY MigrationAssumption, NewFiles DEF Releases, None
<1>2. (/\ LinksNoted /\ EnablementNoted /\ SnapshotHolds /\ UndoneRests)'
  BY DEF LinksNoted, EnablementNoted, SnapshotHolds, UndoneRests, Active, At, None,
     OnSnapshot, SchemaOf, Kept, Forward, Backward
<1>3. CoreFitsDatabase'
  BY DEF CoreFitsDatabase, SchemaOf, OneAtATime, MigrateOff, None
<1>4. OneAtATime'
  BY DEF OneAtATime, MigrateOff, None
<1>5. MigratesWhatItSaw'
  BY DEF MigratesWhatItSaw
<1>6. CopyWhileApplying'
  BY DEF CopyWhileApplying
<1>7. CopyWhileRestoring'
  BY DEF CopyWhileRestoring, CopyWhileApplying
<1>8. DatabaseHasAll'
  BY DEF DatabaseHasAll, Content, CopyWhileApplying, NoFile, Lost
<1>9. AllSomewhere'
  BY DEF AllSomewhere, CopiedWrites, CopyWhileApplying, NoFile, Lost
<1>10. StoppedSteps'
  BY DEF StoppedSteps, ServicesOff, CoreOff, MigrateOff, None
<1>11. StepsNoted'
  BY DEF StepsNoted, At, Active, None, ServicesOff, Forward, Backward, CoreOff,
     MigrateOff
<1>12. UntriedFits'
  BY DEF UntriedFits, Untried, Base, Fits, At, Active, None, SchemaOf, Forward,
     Backward
<1> QED
  BY <1>1, <1>2, <1>3, <1>4, <1>5, <1>6, <1>7, <1>8, <1>9, <1>10, <1>11, <1>12

LEMMA CopyBackKeeps ==
  ASSUME IInv, CopyBack,
         UNCHANGED <<placed, installer, onDisk, snapshot, tried, installs>>
  PROVE  IInv'
<1> USE DEF IInv, Parts, TypeOK, MigrationTypeOK, CopyBack
<1>1. TypeOK'
  BY NewFiles DEF Releases, None
<1>2. (/\ LinksNoted /\ EnablementNoted /\ SnapshotHolds /\ UndoneRests)'
  BY DEF LinksNoted, EnablementNoted, SnapshotHolds, UndoneRests, Active, At, None,
     OnSnapshot, SchemaOf, Kept, Forward, Backward
<1>3. CoreFitsDatabase'
  BY DEF CoreFitsDatabase, SchemaOf
<1>4. OneAtATime'
  BY DEF OneAtATime, MigrateOff, None
<1>5. MigratesWhatItSaw'
  BY DEF MigratesWhatItSaw
<1>6. CopyWhileApplying'
  BY DEF CopyWhileApplying
<1>7. CopyWhileRestoring'
  BY DEF CopyWhileRestoring
<1>8. DatabaseHasAll'
  BY DEF DatabaseHasAll, Content
<1>9. AllSomewhere'
  BY FileFields DEF AllSomewhere, CopiedWrites, CopyWhileRestoring, DatabaseHasAll,
     Lost, Content
<1>10. StoppedSteps'
  BY DEF StoppedSteps, ServicesOff, CoreOff, MigrateOff, None
<1>11. StepsNoted'
  BY DEF StepsNoted, At, Active, None, ServicesOff, Forward, Backward, CoreOff,
     MigrateOff
<1>12. UntriedFits'
  BY DEF UntriedFits, Untried, Base, Fits, At, Active, None, SchemaOf, Forward,
     Backward
<1> QED
  BY <1>1, <1>2, <1>3, <1>4, <1>5, <1>6, <1>7, <1>8, <1>9, <1>10, <1>11, <1>12

LEMMA CopyBackFailsKeeps ==
  ASSUME IInv, CopyBackFails,
         UNCHANGED <<placed, installer, onDisk, snapshot, tried, installs>>
  PROVE  IInv'
<1> USE DEF IInv, Parts, TypeOK, MigrationTypeOK, CopyBackFails, Troubled
<1>1. TypeOK'
  BY MigrationAssumption, NewFiles DEF Releases, None
<1>2. (/\ CoreFitsDatabase /\ AllSomewhere /\ LinksNoted /\ EnablementNoted
      /\ SnapshotHolds /\ UndoneRests)'
  BY DEF CoreFitsDatabase, AllSomewhere, LinksNoted, EnablementNoted, SnapshotHolds,
     UndoneRests, SchemaOf, CopiedWrites, Active, At, None, OnSnapshot, Kept, Forward,
     Backward
<1>3. OneAtATime'
  BY DEF OneAtATime, MigrateOff, None
<1>4. MigratesWhatItSaw'
  BY DEF MigratesWhatItSaw
<1>5. CopyWhileApplying'
  BY DEF CopyWhileApplying
<1>6. CopyWhileRestoring'
  BY DEF CopyWhileRestoring
<1>7. DatabaseHasAll'
  BY DEF DatabaseHasAll, Content
<1>8. StoppedSteps'
  BY DEF StoppedSteps, ServicesOff, CoreOff, MigrateOff, None
<1>9. StepsNoted'
  BY DEF StepsNoted, At, Active, None, ServicesOff, Forward, Backward, CoreOff,
     MigrateOff
<1>10. UntriedFits'
  BY DEF UntriedFits, Untried, Base, Fits, At, Active, None, SchemaOf, Forward,
     Backward
<1> QED
  BY <1>1, <1>2, <1>3, <1>4, <1>5, <1>6, <1>7, <1>8, <1>9, <1>10

-----------------------------------------------------------------------------
(* The core.                                                               *)

LEMMA CoreStartsKeeps ==
  ASSUME IInv, CoreStarts,
         UNCHANGED <<placed, installer, onDisk, snapshot, tried, installs>>
  PROVE  IInv'
<1> USE DEF IInv, Parts, TypeOK, MigrationTypeOK, CoreStarts, MigrateOff, storage,
        None
<1>1. TypeOK'
  BY NewFiles DEF Releases
<1>2. (/\ AllSomewhere /\ LinksNoted /\ EnablementNoted /\ SnapshotHolds
      /\ UndoneRests)'
  BY DEF AllSomewhere, LinksNoted, EnablementNoted, SnapshotHolds, UndoneRests,
     CopiedWrites, Active, At, OnSnapshot, SchemaOf, Kept, Forward, Backward
<1>3. CoreFitsDatabase'
  BY DEF CoreFitsDatabase, SchemaOf
<1>4. OneAtATime'
  BY DEF OneAtATime
<1>5. MigratesWhatItSaw'
  BY DEF MigratesWhatItSaw
<1>6. CopyWhileApplying'
  BY DEF CopyWhileApplying
<1>7. CopyWhileRestoring'
  BY DEF CopyWhileRestoring
<1>8. DatabaseHasAll'
  BY DEF DatabaseHasAll, Content
<1>9. StoppedSteps'
  BY DEF StoppedSteps, ServicesOff, CoreOff
<1>10. StepsNoted'
  BY DEF StepsNoted, At, Active, ServicesOff, Forward, Backward, CoreOff
<1>11. UntriedFits'
  BY DEF UntriedFits, Untried, Base, Fits, At, Active, SchemaOf, Forward, Backward
<1> QED
  BY <1>1, <1>2, <1>3, <1>4, <1>5, <1>6, <1>7, <1>8, <1>9, <1>10, <1>11

LEMMA CoreCrashesKeeps ==
  ASSUME IInv, CoreCrashes,
         UNCHANGED <<placed, installer, onDisk, snapshot, tried, installs>>
  PROVE  IInv'
<1> USE DEF IInv, Parts, TypeOK, MigrationTypeOK, CoreCrashes, Troubled, CoreOff,
        storage, None
<1>1. TypeOK'
  BY MigrationAssumption DEF Releases
<1>2. (/\ MigratesWhatItSaw /\ CopyWhileApplying /\ CopyWhileRestoring
      /\ DatabaseHasAll /\ AllSomewhere /\ LinksNoted /\ EnablementNoted
      /\ UntriedFits /\ SnapshotHolds /\ UndoneRests)'
  BY DEF MigratesWhatItSaw, CopyWhileApplying, CopyWhileRestoring, DatabaseHasAll,
     AllSomewhere, LinksNoted, EnablementNoted, UntriedFits, SnapshotHolds,
     UndoneRests, Content, CopiedWrites, Active, At, Untried, Base, Fits, OnSnapshot,
     SchemaOf, Kept, Forward, Backward
<1>3. CoreFitsDatabase'
  BY DEF CoreFitsDatabase, SchemaOf
<1>4. OneAtATime'
  BY DEF OneAtATime, MigrateOff
<1>5. StoppedSteps'
  BY DEF StoppedSteps, ServicesOff, MigrateOff
<1>6. StepsNoted'
  BY DEF StepsNoted, At, Active, ServicesOff, Forward, Backward, MigrateOff
<1> QED
  BY <1>1, <1>2, <1>3, <1>4, <1>5, <1>6

\* A write that is taken back with a trial does not count as kept.
LEMMA RecordKeeps ==
  ASSUME IInv, NEW write \in Writes, Record(write),
         tried' = IF OnTrial THEN tried \cup {write} ELSE tried,
         UNCHANGED <<placed, installer, onDisk, snapshot, installs>>
  PROVE  IInv'
<1>u. Untried => current = Base /\ current # None
  BY UntriedIsCurrent DEF Record
<1> USE DEF IInv, Parts, TypeOK, MigrationTypeOK, Record, OnTrial, units, At
<1>1. TypeOK'
  <2>1. db' = Whole(db.schema, db.writes \cup {write})
    BY FileFields DEF CoreFitsDatabase, Whole
  <2>2. db.schema \in 0..NewSchema /\ db.writes \cup {write} \in SUBSET Writes
    BY FileFields
  <2>3. Whole(db.schema, db.writes \cup {write}) \in Files
    BY <2>2, NewFiles
  <2>4. accepted' \subseteq Writes /\ tried' \subseteq accepted'
    OBVIOUS
  <2> QED
    BY <2>1, <2>3, <2>4
<1>2. (/\ OneAtATime /\ CopyWhileRestoring /\ StoppedSteps /\ StepsNoted
      /\ LinksNoted /\ EnablementNoted /\ UndoneRests)'
  BY DEF OneAtATime, CopyWhileRestoring, StoppedSteps, StepsNoted, LinksNoted,
     EnablementNoted, UndoneRests, MigrateOff, None, ServicesOff, Active, CoreOff,
     Forward, Backward
<1>3. CoreFitsDatabase'
  BY DEF CoreFitsDatabase, SchemaOf
<1>4. MigratesWhatItSaw'
  BY DEF MigratesWhatItSaw
<1>5. CopyWhileApplying'
  BY DEF CopyWhileApplying, OneAtATime, MigrateOff, None
<1>6. DatabaseHasAll'
  BY FileFields DEF DatabaseHasAll, Content, OneAtATime, MigrateOff, None
<1>7. AllSomewhere'
  BY DEF AllSomewhere, CopiedWrites
<1>8. UntriedFits'
  BY <1>u, FileFields DEF UntriedFits, Untried, Base, Fits, Active, None, SchemaOf,
     Forward, Backward, CoreFitsDatabase
<1>9. SnapshotHolds'
  BY DEF SnapshotHolds, OnSnapshot, SchemaOf, Kept, StoppedSteps, ServicesOff,
     CoreOff, MigrateOff, None
<1> QED
  BY <1>1, <1>2, <1>3, <1>4, <1>5, <1>6, <1>7, <1>8, <1>9

-----------------------------------------------------------------------------
(* The installer.                                                          *)

LEMMA WriteBackKeeps ==
  ASSUME IInv, WriteBack
  PROVE  IInv'
<1> USE DEF IInv, Parts, TypeOK, MigrationTypeOK, WriteBack, storage, units
<1>1. TypeOK'
  BY DEF Links
<1>2. (/\ CoreFitsDatabase /\ OneAtATime /\ MigratesWhatItSaw /\ CopyWhileApplying
      /\ CopyWhileRestoring /\ DatabaseHasAll /\ AllSomewhere /\ StoppedSteps
      /\ StepsNoted /\ EnablementNoted /\ UntriedFits /\ SnapshotHolds
      /\ UndoneRests)'
  BY DEF CoreFitsDatabase, OneAtATime, MigratesWhatItSaw, CopyWhileApplying,
     CopyWhileRestoring, DatabaseHasAll, AllSomewhere, StoppedSteps, StepsNoted,
     EnablementNoted, UntriedFits, SnapshotHolds, UndoneRests, SchemaOf, MigrateOff,
     None, Content, CopiedWrites, ServicesOff, At, Active, Untried, Base, Fits,
     OnSnapshot, Kept, CoreOff, Forward, Backward
<1>3. LinksNoted'
  BY DEF LinksNoted, Active, At, Forward, Backward
<1> QED
  BY <1>1, <1>2, <1>3

LEMMA BeginKeeps ==
  ASSUME IInv, Begin
  PROVE  IInv'
<1> USE DEF IInv, Parts, TypeOK, MigrationTypeOK, Begin, At, Idle, storage, units,
        None
<1>1. TypeOK'
  <2>1. installer' \in Installers
    BY DEF Installers, Forward, Backward, Releases, None
  <2> QED
    BY <2>1, ReleaseAssumption
<1>2. (/\ CoreFitsDatabase /\ OneAtATime /\ MigratesWhatItSaw /\ CopyWhileApplying
      /\ CopyWhileRestoring /\ DatabaseHasAll /\ AllSomewhere)'
  BY DEF CoreFitsDatabase, OneAtATime, MigratesWhatItSaw, CopyWhileApplying,
     CopyWhileRestoring, DatabaseHasAll, AllSomewhere, SchemaOf, MigrateOff, Content,
     CopiedWrites
<1>3. StoppedSteps'
  BY DEF StoppedSteps, ServicesOff, CoreOff, MigrateOff
<1>4. StepsNoted'
  <2>1. db.kind # "none" <=> current # None
    BY DEF UntriedFits, Untried, Base, Fits, NoFile, Lost
  <2>2. installer'.dbExisted <=> db.kind # "none"
    OBVIOUS
  <2> QED
    BY <2>1, <2>2 DEF StepsNoted, Active, Forward, Backward
<1>5. LinksNoted'
  BY DEF LinksNoted, Active, Forward, Backward
<1>6. EnablementNoted'
  BY DEF EnablementNoted, Active, Forward, Backward
<1>7. UntriedFits'
  BY DEF UntriedFits, Untried, Base, Fits, Active, SchemaOf, Forward, Backward
<1>8. SnapshotHolds'
  BY DEF SnapshotHolds, OnSnapshot, SchemaOf, Kept
<1>9. UndoneRests'
  BY DEF UndoneRests
<1> QED
  BY <1>1, <1>2, <1>3, <1>4, <1>5, <1>6, <1>7, <1>8, <1>9

LEMMA EnableKeeps ==
  ASSUME IInv, Enable
  PROVE  IInv'
<1> USE DEF IInv, Parts, TypeOK, MigrationTypeOK, Enable, At, Enablement, Go, storage
<1>1. TypeOK'
  <2>1. installer' \in Installers
    BY DEF Installers, Forward, Backward, Releases, None
  <2>2. target' \in [up : BOOLEAN, enabled : BOOLEAN] /\ onDisk' \in Links
    BY DEF Links
  <2> QED
    BY <2>1, <2>2
<1>2. (/\ CoreFitsDatabase /\ OneAtATime /\ MigratesWhatItSaw /\ CopyWhileApplying
      /\ CopyWhileRestoring /\ DatabaseHasAll /\ AllSomewhere)'
  BY DEF CoreFitsDatabase, OneAtATime, MigratesWhatItSaw, CopyWhileApplying,
     CopyWhileRestoring, DatabaseHasAll, AllSomewhere, SchemaOf, MigrateOff, None,
     Content, CopiedWrites
<1>3. StoppedSteps'
  BY DEF StoppedSteps, ServicesOff, CoreOff, MigrateOff, None
<1>4. StepsNoted'
  BY DEF StepsNoted, Active, None, ServicesOff, Forward, Backward, CoreOff, MigrateOff
<1>5. LinksNoted'
  BY DEF LinksNoted, Active, Forward, Backward
<1>6. EnablementNoted'
  BY DEF EnablementNoted, Active, None, Forward, Backward
<1>7. UntriedFits'
  BY DEF UntriedFits, Untried, Base, Fits, Active, None, SchemaOf, Forward, Backward
<1>8. SnapshotHolds'
  BY DEF SnapshotHolds, OnSnapshot, SchemaOf, Kept
<1>9. UndoneRests'
  BY DEF UndoneRests, None
<1> QED
  BY <1>1, <1>2, <1>3, <1>4, <1>5, <1>6, <1>7, <1>8, <1>9

LEMMA StopServicesKeeps ==
  ASSUME IInv, StopServices
  PROVE  IInv'
<1> USE DEF IInv, Parts, TypeOK, MigrationTypeOK, StopServices, At, Stopped, Go,
        NoProcesses, MigrateOff, CoreOff, None
<1>1. TypeOK'
  <2>1. installer' \in Installers
    BY DEF Installers, Forward, Backward, Releases, None
  <2>2. (migrate.pc = "restoring") \in BOOLEAN
    OBVIOUS
  <2>3. cut' \in BOOLEAN
    BY <2>2
  <2> QED
    BY <2>1, <2>3, NewFiles DEF Releases, None
<1>2. AllSomewhere'
  BY DEF AllSomewhere, CopiedWrites
<1>3. CoreFitsDatabase'
  BY DEF CoreFitsDatabase, SchemaOf
<1>4. OneAtATime'
  BY DEF OneAtATime
<1>5. MigratesWhatItSaw'
  BY DEF MigratesWhatItSaw
<1>6. CopyWhileApplying'
  BY DEF CopyWhileApplying
<1>7. CopyWhileRestoring'
  BY DEF CopyWhileRestoring
<1>8. DatabaseHasAll'
  BY DEF DatabaseHasAll, Content
<1>9. StoppedSteps'
  BY DEF StoppedSteps, ServicesOff
<1>10. StepsNoted'
  BY DEF StepsNoted, Active, ServicesOff, Forward, Backward
<1>11. LinksNoted'
  BY DEF LinksNoted, Active, Forward, Backward
<1>12. EnablementNoted'
  BY DEF EnablementNoted, Active, Forward, Backward
<1>13. UntriedFits'
  BY DEF UntriedFits, Untried, Base, Fits, Active, SchemaOf, Forward, Backward
<1>14. SnapshotHolds'
  BY DEF SnapshotHolds, OnSnapshot, SchemaOf, Kept
<1>15. UndoneRests'
  BY DEF UndoneRests
<1> QED
  BY <1>1, <1>2, <1>3, <1>4, <1>5, <1>6, <1>7, <1>8, <1>9, <1>10, <1>11, <1>12, <1>13,
     <1>14, <1>15

\* The new release was not tried yet, so the snapshot has all that was accepted.
LEMMA TakeSnapshotKeeps ==
  ASSUME IInv, TakeSnapshot
  PROVE  IInv'
<1> USE DEF IInv, Parts, TypeOK, MigrationTypeOK, TakeSnapshot, At, Go, storage, units
<1>1. TypeOK'
  <2>1. installer' \in Installers
    BY DEF Installers, Forward, Backward, Releases, None
  <2> QED
    BY <2>1, NewFiles DEF Releases, None
<1>2. (/\ CoreFitsDatabase /\ OneAtATime /\ MigratesWhatItSaw /\ CopyWhileApplying
      /\ CopyWhileRestoring /\ DatabaseHasAll /\ AllSomewhere)'
  BY DEF CoreFitsDatabase, OneAtATime, MigratesWhatItSaw, CopyWhileApplying,
     CopyWhileRestoring, DatabaseHasAll, AllSomewhere, SchemaOf, MigrateOff, None,
     Content, CopiedWrites
<1>3. StoppedSteps'
  BY DEF StoppedSteps, ServicesOff, CoreOff, MigrateOff, None
<1>4. StepsNoted'
  BY DEF StepsNoted, Active, None, ServicesOff, Forward, Backward, CoreOff, MigrateOff
<1>5. LinksNoted'
  BY DEF LinksNoted, Active, Forward, Backward
<1>6. EnablementNoted'
  BY DEF EnablementNoted, Active, None, Forward, Backward
<1>7. UntriedFits'
  BY DEF UntriedFits, Untried, Base, Fits, Active, None, SchemaOf, Forward, Backward
<1>8. SnapshotHolds'
  <2>1. Untried /\ migrate = MigrateOff /\ (installer.dbExisted <=> installer.old # None)
    BY DEF Untried, StepsNoted, StoppedSteps, ServicesOff, Active, Forward
  <2>2. Fits(installer.old) /\ accepted \subseteq db.writes /\ installer.old # "new"
    BY <2>1 DEF UntriedFits, Base, DatabaseHasAll, Content, MigrateOff
  <2>3. CASE installer.dbExisted
    BY <2>1, <2>2, <2>3 DEF SnapshotHolds, OnSnapshot, Fits, Kept, SchemaOf
  <2>4. CASE ~installer.dbExisted
    <3>1. accepted = {}
      BY <2>1, <2>2, <2>4 DEF Fits, NoFile, Lost
    <3> QED
      BY <3>1, <2>4 DEF SnapshotHolds, Kept
  <2> QED
    BY <2>3, <2>4
<1>9. UndoneRests'
  BY DEF UndoneRests, None
<1> QED
  BY <1>1, <1>2, <1>3, <1>4, <1>5, <1>6, <1>7, <1>8, <1>9

LEMMA SwitchKeeps ==
  ASSUME IInv, Switch
  PROVE  IInv'
<1> USE DEF IInv, Parts, TypeOK, MigrationTypeOK, Switch, At, LinkTo, Go, storage,
        units
<1>1. TypeOK'
  <2>1. installer' \in Installers
    BY DEF Installers, Forward, Backward, Releases, None
  <2>2. current' \in Releases \cup {None} /\ onDisk' \in Links
    BY DEF Links, Releases, None
  <2> QED
    BY <2>1, <2>2
<1>2. (/\ MigratesWhatItSaw /\ CopyWhileApplying /\ CopyWhileRestoring
      /\ DatabaseHasAll /\ AllSomewhere)'
  BY DEF MigratesWhatItSaw, CopyWhileApplying, CopyWhileRestoring, DatabaseHasAll,
     AllSomewhere, Content, CopiedWrites
<1>3. CoreFitsDatabase'
  BY DEF CoreFitsDatabase, SchemaOf, StoppedSteps, ServicesOff, CoreOff, MigrateOff,
     None
<1>4. OneAtATime'
  BY DEF OneAtATime, MigrateOff, None, StoppedSteps, ServicesOff, CoreOff
<1>5. StoppedSteps'
  BY DEF StoppedSteps, ServicesOff, CoreOff, MigrateOff, None
<1>6. StepsNoted'
  BY DEF StepsNoted, Active, None, ServicesOff, Forward, Backward, CoreOff, MigrateOff
<1>7. LinksNoted'
  BY DEF LinksNoted, Active, Forward, Backward
<1>8. EnablementNoted'
  BY DEF EnablementNoted, Active, None, Forward, Backward
<1>9. UntriedFits'
  BY DEF UntriedFits, Untried, Base, Fits, Active, None, SchemaOf, Forward, Backward
<1>10. SnapshotHolds'
  BY DEF SnapshotHolds, OnSnapshot, SchemaOf, Kept
<1>11. UndoneRests'
  BY DEF UndoneRests, None
<1> QED
  BY <1>1, <1>2, <1>3, <1>4, <1>5, <1>6, <1>7, <1>8, <1>9, <1>10, <1>11

LEMMA StartNewKeeps ==
  ASSUME IInv, StartNew
  PROVE  IInv'
<1> USE DEF IInv, Parts, TypeOK, MigrationTypeOK, StartNew, At, storage
<1>1. TypeOK'
  <2>1. installer' \in Installers
    BY DEF Installers, Forward, Backward, Releases, None
  <2> QED
    BY <2>1, NewFiles, MigrationAssumption, ReleaseAssumption DEF Releases, None
<1>2. (/\ CoreFitsDatabase /\ OneAtATime /\ MigratesWhatItSaw /\ CopyWhileApplying
      /\ CopyWhileRestoring /\ DatabaseHasAll /\ AllSomewhere)'
  BY DEF CoreFitsDatabase, OneAtATime, MigratesWhatItSaw, CopyWhileApplying,
     CopyWhileRestoring, DatabaseHasAll, AllSomewhere, SchemaOf, MigrateOff, None,
     Content, CopiedWrites
<1>3. StoppedSteps'
  BY DEF StoppedSteps, ServicesOff, CoreOff, MigrateOff, None
<1>4. StepsNoted'
  BY DEF StepsNoted, Active, None, ServicesOff, Forward, Backward, CoreOff, MigrateOff
<1>5. LinksNoted'
  BY DEF LinksNoted, Active, Forward, Backward
<1>6. EnablementNoted'
  BY DEF EnablementNoted, Active, None, Forward, Backward
<1>7. UntriedFits'
  BY DEF UntriedFits, Untried, Base, Fits, Active, None, SchemaOf, Forward, Backward
<1>8. SnapshotHolds'
  BY DEF SnapshotHolds, OnSnapshot, SchemaOf, Kept
<1>9. UndoneRests'
  BY DEF UndoneRests, None
<1> QED
  BY <1>1, <1>2, <1>3, <1>4, <1>5, <1>6, <1>7, <1>8, <1>9

LEMMA AcceptKeeps ==
  ASSUME IInv, Accept
  PROVE  IInv'
<1> USE DEF IInv, Parts, TypeOK, MigrationTypeOK, Accept, At, Idle, storage, units,
        None
<1>1. TypeOK'
  <2>1. installer' \in Installers
    BY DEF Installers, Forward, Backward, Releases, None
  <2> QED
    BY <2>1, NewFiles, MigrationAssumption, ReleaseAssumption DEF Releases, None
<1>2. (/\ CoreFitsDatabase /\ OneAtATime /\ MigratesWhatItSaw /\ CopyWhileApplying
      /\ CopyWhileRestoring /\ DatabaseHasAll /\ AllSomewhere)'
  BY DEF CoreFitsDatabase, OneAtATime, MigratesWhatItSaw, CopyWhileApplying,
     CopyWhileRestoring, DatabaseHasAll, AllSomewhere, SchemaOf, MigrateOff, Content,
     CopiedWrites
<1>3. StoppedSteps'
  BY DEF StoppedSteps, ServicesOff, CoreOff, MigrateOff
<1>4. StepsNoted'
  BY DEF StepsNoted, Active, ServicesOff, Forward, Backward, CoreOff, MigrateOff
<1>5. LinksNoted'
  BY DEF LinksNoted, Active, Forward, Backward, StepsNoted, ServicesOff, CoreOff,
     MigrateOff
<1>6. EnablementNoted'
  BY DEF EnablementNoted, Active, Forward, Backward
<1>7. UntriedFits'
  BY DEF UntriedFits, Untried, Base, Fits, Active, SchemaOf, Forward, Backward,
     StepsNoted, ServicesOff, CoreOff, MigrateOff
<1>8. SnapshotHolds'
  BY DEF SnapshotHolds, OnSnapshot, SchemaOf, Kept
<1>9. UndoneRests'
  BY DEF UndoneRests
<1> QED
  BY <1>1, <1>2, <1>3, <1>4, <1>5, <1>6, <1>7, <1>8, <1>9

LEMMA AbortKeeps ==
  ASSUME IInv, Abort
  PROVE  IInv'
<1> USE DEF IInv, Parts, TypeOK, MigrationTypeOK, Abort, Forward, Go, storage, units
<1>1. TypeOK'
  <2>1. installer' \in Installers
    BY DEF Installers, Forward, Backward, Releases, None
  <2> QED
    BY <2>1, NewFiles DEF Releases, None
<1>2. (/\ CoreFitsDatabase /\ OneAtATime /\ MigratesWhatItSaw /\ CopyWhileApplying
      /\ CopyWhileRestoring /\ DatabaseHasAll /\ AllSomewhere)'
  BY DEF CoreFitsDatabase, OneAtATime, MigratesWhatItSaw, CopyWhileApplying,
     CopyWhileRestoring, DatabaseHasAll, AllSomewhere, SchemaOf, MigrateOff, None,
     Content, CopiedWrites
<1>3. StoppedSteps'
  BY DEF StoppedSteps, ServicesOff, CoreOff, MigrateOff, None
<1>4. StepsNoted'
  BY DEF StepsNoted, At, Active, None, ServicesOff, Backward, CoreOff, MigrateOff,
     StoppedSteps
<1>5. LinksNoted'
  BY DEF LinksNoted, Active, At, Backward
<1>6. EnablementNoted'
  BY DEF EnablementNoted, Active, None, Backward
<1>7. UntriedFits'
  BY DEF UntriedFits, Untried, Base, Fits, At, Active, None, SchemaOf, Backward
<1>8. SnapshotHolds'
  BY DEF SnapshotHolds, OnSnapshot, SchemaOf, Kept, StepsNoted, At, Active, None,
     ServicesOff, Backward, CoreOff, MigrateOff
<1>9. UndoneRests'
  BY DEF UndoneRests, At, None
<1> QED
  BY <1>1, <1>2, <1>3, <1>4, <1>5, <1>6, <1>7, <1>8, <1>9

LEMMA UndoStopKeeps ==
  ASSUME IInv, UndoStop
  PROVE  IInv'
<1> USE DEF IInv, Parts, TypeOK, MigrationTypeOK, UndoStop, At, Stopped, Go,
        NoProcesses, MigrateOff, CoreOff, None
<1>1. TypeOK'
  <2>1. installer' \in Installers
    BY DEF Installers, Forward, Backward, Releases, None
  <2>2. (migrate.pc = "restoring") \in BOOLEAN
    OBVIOUS
  <2>3. cut' \in BOOLEAN
    BY <2>2
  <2> QED
    BY <2>1, <2>3, NewFiles DEF Releases, None
<1>2. AllSomewhere'
  BY DEF AllSomewhere, CopiedWrites
<1>3. CoreFitsDatabase'
  BY DEF CoreFitsDatabase, SchemaOf
<1>4. OneAtATime'
  BY DEF OneAtATime
<1>5. MigratesWhatItSaw'
  BY DEF MigratesWhatItSaw
<1>6. CopyWhileApplying'
  BY DEF CopyWhileApplying
<1>7. CopyWhileRestoring'
  BY DEF CopyWhileRestoring
<1>8. DatabaseHasAll'
  BY DEF DatabaseHasAll, Content
<1>9. StoppedSteps'
  BY DEF StoppedSteps, ServicesOff
<1>10. StepsNoted'
  BY DEF StepsNoted, Active, ServicesOff, Forward, Backward
<1>11. LinksNoted'
  BY DEF LinksNoted, Active, Forward, Backward
<1>12. EnablementNoted'
  BY DEF EnablementNoted, Active, Forward, Backward
<1>13. UntriedFits'
  BY DEF UntriedFits, Untried, Base, Fits, Active, SchemaOf, Forward, Backward
<1>14. SnapshotHolds'
  BY DEF SnapshotHolds, OnSnapshot, SchemaOf, Kept
<1>15. UndoneRests'
  BY DEF UndoneRests
<1> QED
  BY <1>1, <1>2, <1>3, <1>4, <1>5, <1>6, <1>7, <1>8, <1>9, <1>10, <1>11, <1>12, <1>13,
     <1>14, <1>15

\* Where the new release may have run, the snapshot is put back; elsewhere the
\* database was never touched.
LEMMA UndoDatabaseKeeps ==
  ASSUME IInv, UndoDatabase
  PROVE  IInv'
<1> USE DEF IInv, Parts, TypeOK, MigrationTypeOK, UndoDatabase, At, Restored, Go,
        units
<1>1. TypeOK'
  <2>1. installer' \in Installers
    BY DEF Installers, Forward, Backward, Releases, None
  <2>2. db' \in Files
    BY NewFiles
  <2>3. cut' \in BOOLEAN
    BY DEF Installers
  <2> QED
    BY <2>1, <2>2, <2>3
<1>2. (/\ OneAtATime /\ CopyWhileRestoring)'
  BY DEF OneAtATime, CopyWhileRestoring, MigrateOff, None
<1>3. CoreFitsDatabase'
  BY DEF CoreFitsDatabase, SchemaOf, StoppedSteps, ServicesOff, CoreOff, MigrateOff,
     None
<1>4. MigratesWhatItSaw'
  BY DEF MigratesWhatItSaw, StoppedSteps, ServicesOff, CoreOff, MigrateOff, None
<1>5. CopyWhileApplying'
  BY DEF CopyWhileApplying, StoppedSteps, ServicesOff, CoreOff, MigrateOff, None
<1>6. DatabaseHasAll'
  <2>1. Content = db.writes /\ Content' = db'.writes
    BY DEF Content, StoppedSteps, ServicesOff, MigrateOff
  <2>2. CASE installer.mayHaveRun
    BY <2>1, <2>2 DEF DatabaseHasAll, SnapshotHolds, OnSnapshot, Kept, NoFile, Lost
  <2>3. CASE ~installer.mayHaveRun
    BY <2>1, <2>3 DEF DatabaseHasAll
  <2> QED
    BY <2>2, <2>3
<1>7. AllSomewhere'
  <2>1. CASE installer.mayHaveRun
    BY <2>1 DEF AllSomewhere, SnapshotHolds, OnSnapshot, Kept, NoFile, Lost
  <2>2. CASE ~installer.mayHaveRun
    BY <2>2 DEF AllSomewhere, CopiedWrites
  <2> QED
    BY <2>1, <2>2
<1>8. StoppedSteps'
  BY DEF StoppedSteps, ServicesOff, CoreOff, MigrateOff, None
<1>9. StepsNoted'
  BY DEF StepsNoted, Active, None, ServicesOff, Forward, Backward, CoreOff, MigrateOff
<1>10. LinksNoted'
  BY DEF LinksNoted, Active, Forward, Backward
<1>11. EnablementNoted'
  BY DEF EnablementNoted, Active, None, Forward, Backward
<1>12. UntriedFits'
  <2>1. migrate.pc = "off" /\ Base = installer.old /\ Base' = installer.old
    BY DEF StoppedSteps, ServicesOff, MigrateOff, Base
  <2>2. CASE installer.mayHaveRun
    <3>1. installer.dbExisted <=> installer.old # None
      BY DEF StepsNoted, Active, Backward
    <3>2. Fits(installer.old)' /\ installer.old # "new"
      BY <2>2, <3>1 DEF Fits, SnapshotHolds, OnSnapshot, None
    <3>3. ~cut' /\ migrate'.pc = "off" /\ Base' = installer'.old
      BY <2>1, <2>2 DEF Installers
    <3> QED
      BY <3>2, <3>3 DEF UntriedFits, Fits
  <2>3. CASE ~installer.mayHaveRun
    BY <2>1, <2>3 DEF UntriedFits, Untried, Fits, Active, Backward
  <2> QED
    BY <2>2, <2>3
<1>13. SnapshotHolds'
  BY DEF SnapshotHolds, OnSnapshot, SchemaOf, Kept
<1>14. UndoneRests'
  BY DEF UndoneRests, None
<1> QED
  BY <1>1, <1>2, <1>3, <1>4, <1>5, <1>6, <1>7, <1>8, <1>9, <1>10, <1>11, <1>12, <1>13,
     <1>14

LEMMA UndoLinkKeeps ==
  ASSUME IInv, UndoLink
  PROVE  IInv'
<1> USE DEF IInv, Parts, TypeOK, MigrationTypeOK, UndoLink, At, None, Go, storage
<1>1. TypeOK'
  <2>1. installer' \in Installers
    BY DEF Installers, Forward, Backward, Releases, None
  <2>2. current' \in Releases \cup {None}
    BY DEF Installers
  <2>3. target' \in [up : BOOLEAN, enabled : BOOLEAN]
    BY DEF Installers
  <2>4. onDisk' \in Links
    BY <2>2, <2>3 DEF Links
  <2> QED
    BY <2>1, <2>2, <2>3, <2>4
<1>2. (/\ MigratesWhatItSaw /\ CopyWhileApplying /\ CopyWhileRestoring
      /\ DatabaseHasAll /\ AllSomewhere)'
  BY DEF MigratesWhatItSaw, CopyWhileApplying, CopyWhileRestoring, DatabaseHasAll,
     AllSomewhere, Content, CopiedWrites
<1>3. CoreFitsDatabase'
  BY DEF CoreFitsDatabase, SchemaOf, StoppedSteps, ServicesOff, CoreOff, MigrateOff
<1>4. OneAtATime'
  BY DEF OneAtATime, MigrateOff, StoppedSteps, ServicesOff, CoreOff
<1>5. StoppedSteps'
  BY DEF StoppedSteps, ServicesOff, CoreOff, MigrateOff
<1>6. StepsNoted'
  BY DEF StepsNoted, Active, ServicesOff, Forward, Backward, CoreOff, MigrateOff
<1>7. LinksNoted'
  BY DEF LinksNoted, Active, Forward, Backward
<1>8. EnablementNoted'
  <2>1. target'.enabled <=> target.enabled /\ installer.old # None
    OBVIOUS
  <2>2. installer'.old = installer.old /\ installer'.after = "undo_start"
    BY DEF Installers
  <2>3. installer'.wasEnabled = installer.wasEnabled
    BY DEF Installers
  <2>4. CASE installer.old = None
    BY <2>1, <2>2, <2>4 DEF EnablementNoted
  <2>5. CASE installer.old # None
    <3>1. installer.wasEnabled => target.enabled
      BY <2>5 DEF EnablementNoted, Active, Backward
    <3> QED
      BY <2>1, <2>2, <2>3, <2>5, <3>1 DEF EnablementNoted
  <2> QED
    BY <2>4, <2>5
<1>9. UntriedFits'
  BY DEF UntriedFits, Untried, Base, Fits, Active, SchemaOf, Forward, Backward
<1>10. SnapshotHolds'
  BY DEF SnapshotHolds, OnSnapshot, SchemaOf, Kept
<1>11. UndoneRests'
  BY DEF UndoneRests
<1> QED
  BY <1>1, <1>2, <1>3, <1>4, <1>5, <1>6, <1>7, <1>8, <1>9, <1>10, <1>11

LEMMA UndoStartKeeps ==
  ASSUME IInv, UndoStart
  PROVE  IInv'
<1> USE DEF IInv, Parts, TypeOK, MigrationTypeOK, UndoStart, At, Restarts, Go,
        storage, None
<1>1. TypeOK'
  <2>1. Restarts \in BOOLEAN
    BY DEF Installers
  <2>2. installer' \in Installers
    BY <2>1 DEF Installers, Forward, Backward, Releases, None
  <2>3. target' \in [up : BOOLEAN, enabled : BOOLEAN]
    BY <2>1
  <2>4. current' \in Releases \cup {None}
    BY DEF Installers
  <2> QED
    BY <2>2, <2>3, <2>4, ReleaseAssumption
<1>2. (/\ CoreFitsDatabase /\ OneAtATime /\ MigratesWhatItSaw /\ CopyWhileApplying
      /\ CopyWhileRestoring /\ DatabaseHasAll /\ AllSomewhere)'
  BY DEF CoreFitsDatabase, OneAtATime, MigratesWhatItSaw, CopyWhileApplying,
     CopyWhileRestoring, DatabaseHasAll, AllSomewhere, SchemaOf, MigrateOff, Content,
     CopiedWrites
<1>3. StoppedSteps'
  BY DEF StoppedSteps, ServicesOff, CoreOff, MigrateOff
<1>4. StepsNoted'
  BY DEF StepsNoted, Active, ServicesOff, Forward, Backward, CoreOff, MigrateOff
<1>5. LinksNoted'
  BY DEF LinksNoted, Active, Forward, Backward
<1>6. EnablementNoted'
  BY DEF EnablementNoted, Active, Forward, Backward
<1>7. UntriedFits'
  BY DEF UntriedFits, Untried, Base, Fits, Active, SchemaOf, Forward, Backward
<1>8. SnapshotHolds'
  BY DEF SnapshotHolds, OnSnapshot, SchemaOf, Kept
<1>9. UndoneRests'
  BY DEF UndoneRests
<1> QED
  BY <1>1, <1>2, <1>3, <1>4, <1>5, <1>6, <1>7, <1>8, <1>9

LEMMA UndoneKeeps ==
  ASSUME IInv, Undone
  PROVE  IInv'
<1> USE DEF IInv, Parts, TypeOK, MigrationTypeOK, Undone, At, Idle, storage, units,
        None
<1>1. TypeOK'
  <2>1. installer' \in Installers
    BY DEF Installers, Forward, Backward, Releases, None
  <2> QED
    BY <2>1, NewFiles
<1>2. (/\ CoreFitsDatabase /\ OneAtATime /\ MigratesWhatItSaw /\ CopyWhileApplying
      /\ CopyWhileRestoring /\ DatabaseHasAll /\ AllSomewhere)'
  BY DEF CoreFitsDatabase, OneAtATime, MigratesWhatItSaw, CopyWhileApplying,
     CopyWhileRestoring, DatabaseHasAll, AllSomewhere, SchemaOf, MigrateOff, Content,
     CopiedWrites
<1>3. StoppedSteps'
  BY DEF StoppedSteps, ServicesOff, CoreOff, MigrateOff
<1>4. StepsNoted'
  BY DEF StepsNoted, Active, ServicesOff, Forward, Backward, CoreOff, MigrateOff
<1>5. LinksNoted'
  BY DEF LinksNoted, Active, Forward, Backward, StepsNoted, ServicesOff, CoreOff,
     MigrateOff
<1>6. EnablementNoted'
  BY DEF EnablementNoted, Active, Forward, Backward
<1>7. UntriedFits'
  BY DEF UntriedFits, Untried, Base, Fits, Active, SchemaOf, Forward, Backward,
     StepsNoted, ServicesOff, CoreOff, MigrateOff
<1>8. SnapshotHolds'
  BY DEF SnapshotHolds, OnSnapshot, SchemaOf, Kept
<1>9. UndoneRests'
  <2>1. current = installer.old /\ current # "new"
    BY DEF StepsNoted, Active, Forward, Backward
  <2>2. IF installer.old = None THEN ~target.enabled
        ELSE installer.wasEnabled => target.enabled
    BY DEF EnablementNoted, Active, Forward, Backward
  <2> QED
    BY <2>1, <2>2 DEF UndoneRests
<1> QED
  BY <1>1, <1>2, <1>3, <1>4, <1>5, <1>6, <1>7, <1>8, <1>9

LEMMA GiveUpKeeps ==
  ASSUME IInv, GiveUp
  PROVE  IInv'
<1> USE DEF IInv, Parts, TypeOK, MigrationTypeOK, GiveUp, Backward, At, Troubled,
        Idle, storage, units, None
<1>1. TypeOK'
  <2>1. installer' \in Installers
    BY DEF Installers, Forward, Releases, None
  <2> QED
    BY <2>1, NewFiles, MigrationAssumption, ReleaseAssumption DEF Releases, None
<1>2. (/\ CoreFitsDatabase /\ OneAtATime /\ MigratesWhatItSaw /\ CopyWhileApplying
      /\ CopyWhileRestoring /\ DatabaseHasAll /\ AllSomewhere)'
  BY DEF CoreFitsDatabase, OneAtATime, MigratesWhatItSaw, CopyWhileApplying,
     CopyWhileRestoring, DatabaseHasAll, AllSomewhere, SchemaOf, MigrateOff, Content,
     CopiedWrites
<1>3. StoppedSteps'
  BY DEF StoppedSteps, ServicesOff, CoreOff, MigrateOff
<1>4. StepsNoted'
  BY DEF StepsNoted, Active, ServicesOff, Forward, CoreOff, MigrateOff
<1>5. LinksNoted'
  BY DEF LinksNoted, Active, Forward
<1>6. EnablementNoted'
  BY DEF EnablementNoted, Active, Forward
<1>7. UntriedFits'
  BY DEF UntriedFits, Untried, Base, Fits, Active, SchemaOf, Forward
<1>8. SnapshotHolds'
  BY DEF SnapshotHolds, OnSnapshot, SchemaOf, Kept
<1>9. UndoneRests'
  BY DEF UndoneRests
<1> QED
  BY <1>1, <1>2, <1>3, <1>4, <1>5, <1>6, <1>7, <1>8, <1>9

LEMMA KilledKeeps ==
  ASSUME IInv, Killed
  PROVE  IInv'
<1> USE DEF IInv, Parts, TypeOK, MigrationTypeOK, Killed, Active, Troubled, Idle,
        Settled, storage, units, Forward, Backward, None, At
<1>1. TypeOK'
  <2>1. installer' \in Installers
    BY DEF Installers, Releases, None
  <2> QED
    BY <2>1, NewFiles, MigrationAssumption, ReleaseAssumption DEF Releases, None
<1>2. (/\ CoreFitsDatabase /\ OneAtATime /\ MigratesWhatItSaw /\ CopyWhileApplying
      /\ CopyWhileRestoring /\ DatabaseHasAll /\ AllSomewhere)'
  BY DEF CoreFitsDatabase, OneAtATime, MigratesWhatItSaw, CopyWhileApplying,
     CopyWhileRestoring, DatabaseHasAll, AllSomewhere, SchemaOf, MigrateOff, Content,
     CopiedWrites
<1>3. StoppedSteps'
  BY DEF StoppedSteps, ServicesOff, CoreOff, MigrateOff
<1>4. StepsNoted'
  BY DEF StepsNoted, ServicesOff, CoreOff, MigrateOff
<1>5. LinksNoted'
  BY DEF LinksNoted
<1>6. EnablementNoted'
  BY DEF EnablementNoted
<1>7. UntriedFits'
  BY DEF UntriedFits, Untried, Base, Fits, SchemaOf
<1>8. SnapshotHolds'
  BY DEF SnapshotHolds, OnSnapshot, SchemaOf, Kept
<1>9. UndoneRests'
  BY DEF UndoneRests
<1> QED
  BY <1>1, <1>2, <1>3, <1>4, <1>5, <1>6, <1>7, <1>8, <1>9

LEMMA HostCrashKeeps ==
  ASSUME IInv, HostCrash
  PROVE  IInv'
<1> USE DEF IInv, Parts, TypeOK, MigrationTypeOK, HostCrash, Troubled, Installed,
        NoProcesses, Active, Idle, BroughtBack, Settled, MigrateOff, CoreOff, Forward,
        Backward, None, At
<1>1. TypeOK'
  <2>1. installer' \in Installers
    <3>1. [Idle EXCEPT !.after = "over", !.ended = "killed"] \in Installers
      BY DEF Installers, Releases
    <3>2. [installer EXCEPT !.ended = "killed"] \in Installers
      BY DEF Installers
    <3> QED
      BY <3>1, <3>2
  <2>2. (migrate.pc = "restoring") \in BOOLEAN
    OBVIOUS
  <2>3. cut' \in BOOLEAN
    BY <2>2
  <2>4. current' \in Releases \cup {None} /\ placed' \in BOOLEAN
    BY DEF Links
  <2>5. target' \in [up : BOOLEAN, enabled : BOOLEAN]
    BY DEF Links
  <2>6. onDisk' \in Links
    BY <2>4, <2>5 DEF Links
  <2> QED
    BY <2>1, <2>3, <2>4, <2>5, <2>6, NewFiles, MigrationAssumption DEF Releases, None
<1>2. AllSomewhere'
  BY DEF AllSomewhere, CopiedWrites
<1>3. CoreFitsDatabase'
  BY DEF CoreFitsDatabase, SchemaOf
<1>4. OneAtATime'
  BY DEF OneAtATime
<1>5. MigratesWhatItSaw'
  BY DEF MigratesWhatItSaw
<1>6. CopyWhileApplying'
  BY DEF CopyWhileApplying
<1>7. CopyWhileRestoring'
  BY DEF CopyWhileRestoring
<1>8. DatabaseHasAll'
  BY DEF DatabaseHasAll, Content
<1>9. StoppedSteps'
  BY DEF StoppedSteps, ServicesOff
<1>10. StepsNoted'
  BY DEF StepsNoted, ServicesOff
<1>11. LinksNoted'
  BY DEF LinksNoted
<1>12. EnablementNoted'
  BY DEF EnablementNoted
<1>13. UntriedFits'
  <2>1. Untried' => At("begin") /\ ~placed /\ current' # "new"
    BY DEF Untried
  <2>2. Untried' => current' = current
    BY <2>1 DEF LinksNoted
  <2> QED
    BY <2>1, <2>2 DEF UntriedFits, Untried, Base, Fits, SchemaOf
<1>14. SnapshotHolds'
  BY DEF SnapshotHolds, OnSnapshot, SchemaOf, Kept
<1>15. UndoneRests'
  BY DEF UndoneRests
<1> QED
  BY <1>1, <1>2, <1>3, <1>4, <1>5, <1>6, <1>7, <1>8, <1>9, <1>10, <1>11, <1>12, <1>13,
     <1>14, <1>15
-----------------------------------------------------------------------------
(* The invariant and what follows from it.                                 *)

LEMMA InitHolds == Init => IInv
<1> SUFFICES ASSUME Init PROVE IInv
  OBVIOUS
<1>1. \/ current = None /\ db = NoFile
      \/ current = "previous" /\ db = Whole(PreviousSchema, {})
  BY DEF Init, MigrationInit
<1>2. target \in [up : BOOLEAN, enabled : BOOLEAN]
  <2>1. [up |-> FALSE, enabled |-> FALSE] \in [up : BOOLEAN, enabled : BOOLEAN]
    OBVIOUS
  <2>2. \/ target = [up |-> FALSE, enabled |-> FALSE]
        \/ target \in [up : BOOLEAN, enabled : BOOLEAN]
    BY DEF Init, MigrationInit
  <2> QED
    BY <2>1, <2>2
<1>3. /\ copies = {} /\ migrate = MigrateOff /\ core = CoreOff /\ accepted = {} /\ cut = FALSE
      /\ troubles = 0 /\ installer = Idle /\ placed = FALSE /\ snapshot = NoFile /\ tried = {}
      /\ installs = 0 /\ onDisk = [current |-> {current}, enabled |-> {target.enabled}]
  BY DEF Init, MigrationInit
<1>4. TypeOK
  <2>1. PreviousSchema \in 0..NewSchema /\ {} \in SUBSET Writes
    BY MigrationAssumption
  <2>2. Whole(PreviousSchema, {}) \in Files
    BY <2>1, NewFiles
  <2>3. db \in Files /\ snapshot \in Files /\ copies \subseteq Files
    BY <1>1, <1>3, <2>2, NewFiles
  <2>4. installer \in Installers /\ current \in Releases \cup {None}
    BY <1>1, <1>3 DEF Idle, Installers, Releases, None
  <2>5. /\ migrate \in [pc : {"off", "opened", "applying", "restoring", "done", "failed"},
                        release : Releases \cup {None}, copy : Files, existed : BOOLEAN]
        /\ core \in [up : BOOLEAN, release : Releases \cup {None}]
    BY <1>3, NewFiles DEF MigrateOff, CoreOff
  <2>6. troubles \in 0..MaxTroubles /\ installs \in 0..MaxInstalls
    BY <1>3, MigrationAssumption, ReleaseAssumption
  <2>7. /\ accepted \subseteq Writes /\ tried \subseteq accepted
        /\ cut \in BOOLEAN /\ placed \in BOOLEAN
    BY <1>3
  <2>8. onDisk \in Links
    BY <1>2, <1>3, <2>4 DEF Links
  <2> QED
    BY <1>2, <2>3, <2>4, <2>5, <2>6, <2>7, <2>8
       DEF TypeOK, MigrationTypeOK
<1>5. /\ CoreFitsDatabase /\ OneAtATime /\ MigratesWhatItSaw /\ CopyWhileApplying
      /\ CopyWhileRestoring /\ DatabaseHasAll /\ AllSomewhere
  BY <1>3 DEF CoreFitsDatabase, OneAtATime, MigratesWhatItSaw, CopyWhileApplying,
     CopyWhileRestoring, DatabaseHasAll, AllSomewhere, CoreOff, MigrateOff
<1>6. /\ StoppedSteps /\ StepsNoted /\ LinksNoted /\ EnablementNoted
      /\ SnapshotHolds /\ UndoneRests
  BY <1>3 DEF StoppedSteps, StepsNoted, LinksNoted, EnablementNoted, SnapshotHolds,
     UndoneRests, Idle, At, Active, OnSnapshot, Forward, Backward, None
<1>7. UntriedFits
  <2>1. Base = current
    BY <1>3 DEF Base, At, Idle
  <2>2. Fits(current) /\ current # "new"
    BY <1>1 DEF Fits, SchemaOf, Whole, None
  <2> QED
    BY <1>3, <2>1, <2>2 DEF UntriedFits, Fits, MigrateOff
<1> QED
  BY <1>4, <1>5, <1>6, <1>7 DEF IInv, Parts

LEMMA NextKeeps == IInv /\ [Next]_vars => IInv'
<1> SUFFICES ASSUME IInv, [Next]_vars PROVE IInv'
  OBVIOUS
<1>1. CASE Services /\ UNCHANGED <<placed, installer, onDisk, snapshot, installs>>
  <2>1. CASE MigrationStep /\ UNCHANGED tried
    BY <1>1, <2>1, MigrateStartsKeeps, RefuseKeeps, NothingPendingKeeps, BackUpKeeps,
       BackUpFailsKeeps, ApplyNextKeeps, AllAppliedKeeps, ApplyFailsKeeps, CopyBackKeeps,
       CopyBackFailsKeeps, CoreStartsKeeps, CoreCrashesKeeps DEF MigrationStep
  <2>2. CASE \E write \in Writes :
               /\ Record(write)
               /\ tried' = IF OnTrial THEN tried \cup {write} ELSE tried
    BY <1>1, <2>2, RecordKeeps
  <2> QED
    BY <1>1, <2>1, <2>2 DEF Services
<1>2. CASE \/ WriteBack \/ Begin \/ Enable \/ StopServices \/ TakeSnapshot
           \/ Switch \/ StartNew \/ Accept \/ Abort
  BY <1>2, WriteBackKeeps, BeginKeeps, EnableKeeps, StopServicesKeeps, TakeSnapshotKeeps,
     SwitchKeeps, StartNewKeeps, AcceptKeeps, AbortKeeps
<1>3. CASE UndoStop \/ UndoDatabase \/ UndoLink \/ UndoStart \/ Undone \/ GiveUp
  BY <1>3, UndoStopKeeps, UndoDatabaseKeeps, UndoLinkKeeps, UndoStartKeeps, UndoneKeeps,
     GiveUpKeeps
<1>4. CASE Killed \/ HostCrash
  BY <1>4, KilledKeeps, HostCrashKeeps
<1>5. CASE UNCHANGED vars
  BY <1>5 DEF vars, IInv, TypeOK, MigrationTypeOK, CoreFitsDatabase, Parts, OneAtATime,
     MigratesWhatItSaw, CopyWhileApplying, CopyWhileRestoring, DatabaseHasAll, Content,
     AllSomewhere, CopiedWrites, StoppedSteps, ServicesOff, StepsNoted,
     LinksNoted, EnablementNoted, UntriedFits, Untried,
     Base, Fits, SnapshotHolds, OnSnapshot, Kept, UndoneRests, At, Active
<1> QED
  BY <1>1, <1>2, <1>3, <1>4, <1>5 DEF Next

LEMMA InvariantHolds == Spec => []IInv
BY InitHolds, NextKeeps, PTL DEF Spec

\* Every variable keeps its type, and what is on trial was accepted, whatever fails
\* or crashes in migrate_database, in install-release.sh or below them.
THEOREM TypeCorrect == Spec => []TypeOK
<1>1. IInv => TypeOK
  BY DEF IInv
<1> QED
  BY <1>1, InvariantHolds, PTL

\* A core runs on a whole database of its own schema only, and is of the release the
\* link leads to: verify_schema looks before it starts, and the installer exchanges
\* file and link only while it is stopped.
THEOREM CoreFits == Spec => []CoreFitsDatabase
<1>1. IInv => CoreFitsDatabase
  BY DEF IInv
<1> QED
  BY <1>1, InvariantHolds, PTL

\* A core that runs has all that was acknowledged outside a trial, unless a
\* migration died while it copied the old database back.
THEOREM CoreHasData == Spec => []CoreHasItsData
<1>1. IInv => CoreHasItsData
  BY DEF IInv, Parts, CoreHasItsData, Kept, DatabaseHasAll, Content, OneAtATime, MigrateOff
<1> QED
  BY <1>1, InvariantHolds, PTL

\* All of it is in the database, the snapshot or a copy at any time.
THEOREM NothingLost == Spec => []NothingIsGone
<1>1. IInv => NothingIsGone
  BY DEF IInv, Parts, NothingIsGone, Kept, AllSomewhere, CopiedWrites
<1> QED
  BY <1>1, InvariantHolds, PTL

\* An installer that says it has undone the activation has put back the link and the
\* schema that rollback_activation found, whatever crashed and whichever links came
\* back before, and the target comes up at boot if it did.
THEOREM UndoneSound == Spec => []UndoneIsUndone
<1>1. IInv => UndoneIsUndone
  BY DEF IInv, Parts, UndoneIsUndone, UndoneRests, UntriedFits, Untried, Base, Fits, At
<1> QED
  BY <1>1, InvariantHolds, PTL
=============================================================================
