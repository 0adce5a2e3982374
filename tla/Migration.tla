------------------------------ MODULE Migration ------------------------------
(***************************************************************************)
(* The database file, the one-shot migration service and the core as       *)
(* systemd runs them: migrate_database, verify_schema, and the units of    *)
(* signal-room.target.                                                     *)
(*                                                                         *)
(* Starting the target starts the migration; the core requires it.  The    *)
(* migration copies the database aside, applies the pending migrations in  *)
(* one transaction each, and when one fails copies the old file back over  *)
(* the new, in place.  Sqlite is trusted with its transactions: a process  *)
(* that dies loses the open one only.                                      *)
(***************************************************************************)
EXTENDS Naturals, FiniteSets

CONSTANTS
  PreviousSchema, NewSchema,  \* CURRENT_SCHEMA_VERSION of the two releases
  Writes,                     \* what the core may be asked to record
  MaxTroubles                 \* bound: failures and crashes

ASSUME MigrationAssumption == /\ PreviousSchema \in Nat \ {0}
                              /\ NewSchema \in Nat
                              /\ NewSchema >= PreviousSchema
                              /\ MaxTroubles \in Nat

VARIABLES
  db,        \* the file: none, empty (no bytes), torn, or whole with its schema and content
  copies,    \* what the directory pre-migration holds
  current,   \* the release the link "current" leads to
  placed,    \* whether the directory of the new release exists
  target,    \* signal-room.target: whether it is up, and whether it comes up at boot
  migrate,   \* signal-room-migrate.service
  core,      \* signal-room-core.service: whether it runs, and of which release
  accepted,  \* history: the writes acknowledged, but for those a rollback took back
  cut,       \* history: whether the migration was stopped while it restored
  troubles   \* how much of MaxTroubles is spent

storage == <<db, copies, accepted, cut>>
units == <<target, migrate, core>>

None == "none"
Releases == {"previous", "new"}
SchemaOf(release) == IF release = "new" THEN NewSchema ELSE PreviousSchema

Lost(kind) == [kind |-> kind, schema |-> 0, writes |-> {}]
NoFile == Lost("none")
Whole(schema, writes) == [kind |-> "whole", schema |-> schema, writes |-> writes]
Files == {Lost(kind) : kind \in {"none", "empty", "torn"}}
         \cup {Whole(schema, writes) : schema \in 0..NewSchema, writes \in SUBSET Writes}

MigrateOff == [pc |-> "off", release |-> None, copy |-> NoFile, existed |-> FALSE]
CoreOff == [up |-> FALSE, release |-> None]

\* Either the previous release is installed, with its database, up or not and
\* enabled or not; or nothing is.
MigrationInit ==
  /\ \/ /\ current = None
        /\ db = NoFile
        /\ target = [up |-> FALSE, enabled |-> FALSE]
     \/ /\ current = "previous"
        /\ db = Whole(PreviousSchema, {})
        /\ target \in [up : BOOLEAN, enabled : BOOLEAN]
  /\ placed = FALSE
  /\ copies = {}
  /\ migrate = MigrateOff
  /\ core = CoreOff
  /\ accepted = {}
  /\ cut = FALSE
  /\ troubles = 0

Troubled == /\ troubles < MaxTroubles
            /\ troubles' = troubles + 1

-----------------------------------------------------------------------------
(* The migration.                                                          *)

\* The link leads to a release that exists, and the links of the units lead through it.
Installed == current = "previous" \/ (current = "new" /\ placed)

\* The unit starts with the target, and again before each restart of the core.
MigrateStarts ==
  /\ target.up /\ ~core.up
  /\ migrate.pc = "off"
  /\ Installed
  /\ migrate' = [pc |-> "opened", release |-> current, copy |-> NoFile,
                 existed |-> db.kind \notin {"none", "empty"}]
  /\ UNCHANGED <<storage, current, target, core, troubles>>

\* The file can be read, and its schema is not newer than the release.
MayMigrate == /\ db.kind # "torn"
              /\ db.schema <= SchemaOf(migrate.release)

Pending == db.schema < SchemaOf(migrate.release)

Refuse ==
  /\ migrate.pc = "opened"
  /\ ~MayMigrate
  /\ migrate' = [migrate EXCEPT !.pc = "failed"]
  /\ UNCHANGED <<storage, current, target, core, troubles>>

NothingPending ==
  /\ migrate.pc = "opened"
  /\ MayMigrate /\ ~Pending
  /\ migrate' = [migrate EXCEPT !.pc = "done"]
  /\ UNCHANGED <<storage, current, target, core, troubles>>

\* The copy of an existing file, verified and published; of a new one there is none.
CopyOf == IF migrate.existed THEN db ELSE NoFile

BackUp ==
  /\ migrate.pc = "opened"
  /\ MayMigrate /\ Pending
  /\ migrate' = [migrate EXCEPT !.pc = "applying", !.copy = CopyOf]
  /\ copies' = copies \cup ({CopyOf} \ {NoFile})
  /\ db' = IF migrate.existed THEN db ELSE Whole(0, {})
  /\ UNCHANGED <<accepted, cut, current, target, core, troubles>>

\* The copy cannot be made: nothing has been touched.
BackUpFails ==
  /\ migrate.pc = "opened"
  /\ MayMigrate /\ Pending
  /\ Troubled
  /\ migrate' = [migrate EXCEPT !.pc = "failed"]
  /\ UNCHANGED <<storage, current, target, core>>

ApplyNext ==
  /\ migrate.pc = "applying"
  /\ Pending
  /\ db' = [db EXCEPT !.schema = @ + 1]
  /\ UNCHANGED <<copies, accepted, cut, units, current, troubles>>

AllApplied ==
  /\ migrate.pc = "applying"
  /\ ~Pending
  /\ migrate' = [migrate EXCEPT !.pc = "done"]
  /\ UNCHANGED <<storage, current, target, core, troubles>>

\* Faulty variant of UndoMigration: a file that existed is removed as a new one is.
UndoMigration_Removed == /\ migrate' = [migrate EXCEPT !.pc = "failed"]
                         /\ db' = NoFile

\* The copy goes back over the file, which first loses its bytes; a new file is removed.
UndoMigration ==
  IF migrate.copy # NoFile
  THEN /\ migrate' = [migrate EXCEPT !.pc = "restoring"]
       /\ db' = Lost("empty")
  ELSE /\ migrate' = [migrate EXCEPT !.pc = "failed"]
       /\ db' = IF migrate.existed THEN db ELSE NoFile

\* A migration, or the check after the last, fails; its transaction is rolled back.
ApplyFails ==
  /\ migrate.pc = "applying"
  /\ Troubled
  /\ UndoMigration
  /\ UNCHANGED <<copies, accepted, cut, current, target, core>>

CopyBack ==
  /\ migrate.pc = "restoring"
  /\ \/ /\ db.kind = "empty"
        /\ db' = Lost("torn")
        /\ UNCHANGED migrate
     \/ /\ db.kind = "torn"
        /\ db' = migrate.copy
        /\ migrate' = [migrate EXCEPT !.pc = "failed"]
  /\ UNCHANGED <<copies, accepted, cut, current, target, core, troubles>>

CopyBackFails ==
  /\ migrate.pc = "restoring"
  /\ Troubled
  /\ migrate' = [migrate EXCEPT !.pc = "failed"]
  /\ cut' = TRUE
  /\ UNCHANGED <<db, copies, accepted, current, target, core>>

-----------------------------------------------------------------------------
(* The core.                                                               *)

\* After the migration it requires, once verify_schema agrees.
CoreStarts ==
  /\ target.up /\ ~core.up
  /\ migrate.pc = "done"
  /\ db.kind = "whole" /\ db.schema = SchemaOf(current)
  /\ core' = [up |-> TRUE, release |-> current]
  /\ migrate' = MigrateOff
  /\ UNCHANGED <<storage, current, target, troubles>>

\* systemd restarts the core, and with it what it requires.
CoreCrashes ==
  /\ core.up
  /\ Troubled
  /\ core' = CoreOff
  /\ UNCHANGED <<storage, current, target, migrate>>

\* The transactions of the core, as far as they can get lost.
Record(write) ==
  /\ core.up
  /\ write \notin accepted
  /\ db' = [db EXCEPT !.writes = @ \cup {write}]
  /\ accepted' = accepted \cup {write}
  /\ UNCHANGED <<copies, cut, units, current, troubles>>

\* What is left when the processes are gone.
NoProcesses ==
  /\ migrate' = MigrateOff
  /\ core' = CoreOff
  /\ cut' = (cut \/ migrate.pc = "restoring")

MigrationStep ==
  \/ MigrateStarts \/ Refuse \/ NothingPending
  \/ BackUp \/ BackUpFails \/ ApplyNext \/ AllApplied \/ ApplyFails
  \/ CopyBack \/ CopyBackFails
  \/ CoreStarts \/ CoreCrashes

MigrationTypeOK ==
  /\ db \in Files
  /\ copies \subseteq Files
  /\ current \in Releases \cup {None}
  /\ placed \in BOOLEAN
  /\ target \in [up : BOOLEAN, enabled : BOOLEAN]
  /\ migrate \in [pc : {"off", "opened", "applying", "restoring", "done", "failed"},
                  release : Releases \cup {None}, copy : Files, existed : BOOLEAN]
  /\ core \in [up : BOOLEAN, release : Releases \cup {None}]
  /\ accepted \subseteq Writes
  /\ cut \in BOOLEAN
  /\ troubles \in 0..MaxTroubles
=============================================================================
