------------------------------- MODULE Release -------------------------------
(***************************************************************************)
(* install-release.sh from the moment the new release is in place to its   *)
(* end, over the services of Migration.  The installer enables the target, *)
(* stops the services, takes a snapshot of the database, switches the link *)
(* and tries the new release; whatever goes wrong, it undoes those steps.  *)
(* It forces no link to the disk: a crash of the host may bring an older   *)
(* one back, after the installer has ended too.                            *)
(*                                                                         *)
(* The checks before, of the bundle and of the new release on a copy of    *)
(* the database, change nothing that stays and are left out, as are the    *)
(* units of the other services and the timer of the daily backup, which    *)
(* stop and start with the target.                                         *)
(***************************************************************************)
EXTENDS Migration

CONSTANT MaxInstalls       \* bound: activations that are begun

ASSUME ReleaseAssumption == MaxInstalls \in Nat

VARIABLES
  installer,   \* where it is, and what it noted of what it found and did
  onDisk,      \* the links that a crash of the host may leave
  snapshot,    \* release-rollback.sqlite3
  tried,       \* history: the writes accepted while the new release was on trial
  installs     \* how much of MaxInstalls is spent

vars == <<db, copies, current, placed, target, migrate, core, accepted, cut, troubles,
          installer, onDisk, snapshot, tried, installs>>

Forward == {"enable", "stop", "snapshot", "switch", "start", "trial"}
Backward == {"undo_stop", "undo_database", "undo_link", "undo_start", "undo_wait"}

\* after: the step of the installer that comes next.  old: PREVIOUS.
\* wasEnabled: history, the script does not look.
Installers ==
  [after : Forward \cup Backward \cup {"begin", "over"}, old : Releases \cup {None},
   wasUp : BOOLEAN, wasEnabled : BOOLEAN, dbExisted : BOOLEAN, mayHaveRun : BOOLEAN,
   ended : {None, "installed", "undone", "critical", "killed"}]
Idle == [after |-> "begin", old |-> None, wasUp |-> FALSE, wasEnabled |-> FALSE,
         dbExisted |-> FALSE, mayHaveRun |-> FALSE, ended |-> None]

\* Where "current" may lead, and whether the target may be enabled.
Links == [current : SUBSET (Releases \cup {None}), enabled : SUBSET BOOLEAN]

Init ==
  /\ MigrationInit
  /\ installer = Idle
  /\ onDisk = [current |-> {current}, enabled |-> {target.enabled}]
  /\ snapshot = NoFile
  /\ tried = {}
  /\ installs = 0

Active == installer.after \in Forward \cup Backward
At(step) == installer.after = step
Go(step) == installer' = [installer EXCEPT !.after = step]

\* The link is exchanged; the old one is still on the disk.
LinkTo(release) ==
  /\ current' = release
  /\ onDisk' = [onDisk EXCEPT !.current = @ \cup {release}]

\* The target is enabled or not by another link.
Enablement(enabled) ==
  /\ target' = [target EXCEPT !.enabled = enabled]
  /\ onDisk' = [onDisk EXCEPT !.enabled = @ \cup {enabled}]

\* The host writes back what it has cached.
WriteBack ==
  /\ onDisk # [current |-> {current}, enabled |-> {target.enabled}]
  /\ onDisk' = [current |-> {current}, enabled |-> {target.enabled}]
  /\ UNCHANGED <<storage, current, placed, units, troubles, installer, snapshot, tried,
                 installs>>

\* The new release is in its place; it is refused if it is there already, or if the
\* link leads nowhere.
Begin ==
  /\ At("begin") /\ ~placed
  /\ current # "new"
  /\ installs < MaxInstalls
  /\ installs' = installs + 1
  /\ placed' = TRUE
  /\ installer' = [Idle EXCEPT !.after = "enable", !.old = current, !.wasUp = target.up,
                               !.wasEnabled = target.enabled,
                               !.dbExisted = db.kind # "none"]
  /\ UNCHANGED <<storage, current, units, troubles, onDisk, snapshot, tried>>

\* The units are linked and enabled, whatever was found.
Enable ==
  /\ At("enable")
  /\ Enablement(TRUE)
  /\ Go("stop")
  /\ UNCHANGED <<storage, current, placed, migrate, core, troubles, snapshot, tried, installs>>

\* Faulty variant of Stopped: the core stays.
Stopped_CoreStays == /\ target' = [target EXCEPT !.up = FALSE]
                     /\ migrate' = MigrateOff
                     /\ UNCHANGED <<core, cut>>

\* stop_release_services.
Stopped == target' = [target EXCEPT !.up = FALSE] /\ NoProcesses

StopServices ==
  /\ At("stop")
  /\ Stopped
  /\ Go("snapshot")
  /\ UNCHANGED <<db, copies, accepted, current, placed, troubles, onDisk, snapshot, tried,
                 installs>>

\* The snapshot is verified: of a file that is not whole there is none.
TakeSnapshot ==
  /\ At("snapshot")
  /\ installer.dbExisted => db.kind = "whole"
  /\ snapshot' = IF installer.dbExisted THEN db ELSE NoFile
  /\ Go("switch")
  /\ UNCHANGED <<storage, current, placed, units, troubles, onDisk, tried, installs>>

Switch ==
  /\ At("switch")
  /\ LinkTo("new")
  /\ Go("start")
  /\ UNCHANGED <<storage, placed, units, troubles, snapshot, tried, installs>>

StartNew ==
  /\ At("start")
  /\ installer' = [installer EXCEPT !.after = "trial", !.mayHaveRun = TRUE]
  /\ target' = [target EXCEPT !.up = TRUE]
  /\ UNCHANGED <<storage, current, placed, migrate, core, troubles, onDisk, snapshot, tried,
                 installs>>

\* The release answers, and the installer is through.
Accept ==
  /\ At("trial")
  /\ core.up
  /\ installer' = [Idle EXCEPT !.ended = "installed"]
  /\ snapshot' = NoFile
  /\ tried' = {}
  /\ UNCHANGED <<storage, current, placed, units, troubles, onDisk, installs>>

\* A step fails, the trial does, or the operator interrupts: on_exit.
Abort ==
  /\ installer.after \in Forward
  /\ Go("undo_stop")
  /\ UNCHANGED <<storage, current, placed, units, troubles, onDisk, snapshot, tried,
                 installs>>

-----------------------------------------------------------------------------
(* rollback_activation.                                                    *)

UndoStop ==
  /\ At("undo_stop")
  /\ Stopped
  /\ Go("undo_database")
  /\ UNCHANGED <<db, copies, accepted, current, placed, troubles, onDisk, snapshot, tried,
                 installs>>

\* Faulty variants of Restored: the database is left as the trial left it; or a
\* file is removed whether or not it existed before.
Restored_Left == db
Restored_Removed == IF installer.mayHaveRun THEN NoFile ELSE db

\* The file the rollback leaves, put in place by a rename.
Restored == IF ~installer.mayHaveRun THEN db
            ELSE IF installer.dbExisted THEN snapshot ELSE NoFile

UndoDatabase ==
  /\ At("undo_database")
  /\ db' = Restored
  /\ cut' = (cut /\ ~installer.mayHaveRun)
  /\ accepted' = accepted \ tried
  /\ tried' = {}
  /\ Go("undo_link")
  /\ UNCHANGED <<copies, current, placed, units, troubles, onDisk, snapshot, installs>>

\* The link is put back, or removed with the enablement if there was none.  What was
\* there and disabled stays enabled.
UndoLink ==
  /\ At("undo_link")
  /\ current' = installer.old
  /\ target' = [target EXCEPT !.enabled = @ /\ installer.old # None]
  /\ onDisk' = [current |-> onDisk.current \cup {current'},
                enabled |-> onDisk.enabled \cup {target'.enabled}]
  /\ Go("undo_start")
  /\ UNCHANGED <<storage, placed, migrate, core, troubles, snapshot, tried, installs>>

\* Faulty variant of Restarts: only if the new services had been started.
Restarts_AfterTrial == installer.old # None /\ installer.wasUp /\ installer.mayHaveRun

Restarts == installer.old # None /\ installer.wasUp

UndoStart ==
  /\ At("undo_start")
  /\ target' = [target EXCEPT !.up = Restarts]
  /\ Go("undo_wait")
  /\ UNCHANGED <<storage, current, placed, migrate, core, troubles, onDisk, snapshot, tried,
                 installs>>

\* The previous release answers again, if it did before; the new one is removed.
Undone ==
  /\ At("undo_wait")
  /\ target.up => core.up
  /\ installer' = [Idle EXCEPT !.ended = "undone", !.old = installer.old,
                               !.wasEnabled = installer.wasEnabled]
  /\ placed' = FALSE
  /\ snapshot' = NoFile
  /\ UNCHANGED <<storage, current, units, troubles, onDisk, tried, installs>>

\* A step of the rollback fails, and the installer ends with exit code 71.  It
\* removes its temporary files, the snapshot among them.
GiveUp ==
  /\ installer.after \in Backward
  /\ IF At("undo_wait") /\ migrate.pc = "failed" THEN UNCHANGED troubles ELSE Troubled
  /\ installer' = [Idle EXCEPT !.after = "over", !.ended = "critical"]
  /\ snapshot' = NoFile
  /\ UNCHANGED <<storage, current, placed, units, onDisk, tried, installs>>

-----------------------------------------------------------------------------
(* What nobody undoes.                                                     *)

\* What was recorded on a trial that nobody ends any more stays.
Settled == IF At("trial") THEN {} ELSE tried

\* The installer is killed; the second signal does that, for its trap is reset.
Killed ==
  /\ Active
  /\ Troubled
  /\ installer' = [Idle EXCEPT !.after = "over", !.ended = "killed"]
  /\ tried' = Settled
  /\ UNCHANGED <<storage, current, placed, units, onDisk, snapshot, installs>>

\* Something the crash brought back: a link, and the removed directory with it.
BroughtBack == <<current', placed', target'.enabled>> # <<current, placed, target.enabled>>

\* The host goes down and boots.  If that brings a link back, an installer that had
\* ended was interrupted like one that had not.
HostCrash ==
  /\ Troubled
  /\ current' \in onDisk.current
  /\ placed' \in {placed, placed \/ current' # current}
  /\ \E enabled \in onDisk.enabled :
       target' = [up |-> enabled /\ Installed', enabled |-> enabled]
  /\ onDisk' = [current |-> {current'}, enabled |-> {target'.enabled}]
  /\ NoProcesses
  /\ installer' = IF Active THEN [Idle EXCEPT !.after = "over", !.ended = "killed"]
                  ELSE IF BroughtBack THEN [installer EXCEPT !.ended = "killed"]
                  ELSE installer
  /\ tried' = Settled
  /\ UNCHANGED <<db, copies, accepted, snapshot, installs>>

-----------------------------------------------------------------------------

\* While the installer can still go back, what the new release records is on trial.
OnTrial == \/ At("trial")
           \/ At("undo_stop") /\ installer.mayHaveRun

Services ==
  \/ /\ MigrationStep
     /\ UNCHANGED tried
  \/ \E write \in Writes :
       /\ Record(write)
       /\ tried' = IF OnTrial THEN tried \cup {write} ELSE tried

Next ==
  \/ Services /\ UNCHANGED <<placed, installer, onDisk, snapshot, installs>>
  \/ WriteBack
  \/ Begin \/ Enable \/ StopServices \/ TakeSnapshot \/ Switch \/ StartNew \/ Accept \/ Abort
  \/ UndoStop \/ UndoDatabase \/ UndoLink \/ UndoStart \/ Undone \/ GiveUp
  \/ Killed \/ HostCrash

Spec == Init /\ [][Next]_vars

Running == MigrateStarts \/ Refuse \/ NothingPending \/ BackUp \/ ApplyNext \/ AllApplied
           \/ CopyBack \/ CoreStarts
Rolling == UndoStop \/ UndoDatabase \/ UndoLink \/ UndoStart \/ Undone \/ GiveUp

\* systemd and the installer go on as long as they live: every command of the
\* installer ends, the trial within the retries of curl.
Fairness ==
  /\ WF_vars(Running /\ UNCHANGED <<placed, installer, onDisk, snapshot, tried,
                                  installs>>)
  /\ WF_vars(Enable \/ StopServices \/ TakeSnapshot \/ Switch \/ StartNew \/ Accept \/ Abort)
  /\ WF_vars(Rolling)

FairSpec == Spec /\ Fairness

-----------------------------------------------------------------------------
(* What should hold.                                                       *)

\* Every variable keeps its type; what is on trial was accepted.
TypeOK ==
  /\ MigrationTypeOK
  /\ installer \in Installers
  /\ onDisk \in Links
  /\ snapshot \in Files
  /\ tried \subseteq accepted
  /\ installs \in 0..MaxInstalls

\* The core runs on a whole database of its own schema, and is of the release the
\* link leads to: neither file nor link is exchanged under a running core.
CoreFitsDatabase ==
  core.up => /\ db.kind = "whole"
             /\ db.schema = SchemaOf(core.release)
             /\ core.release = current

Kept == accepted \ tried

\* What the core acknowledged outside a trial is there whenever it runs: in the
\* new release after a migration, and in the previous one after a rollback, whatever
\* failed or crashed on the way.  Excepted is a migration that died while it
\* copied the old database back: the truncated file counts as a new one.
CoreHasItsData == (core.up /\ ~cut) => Kept \subseteq db.writes

\* Even then it is somewhere: in the database, the snapshot or a copy.
NothingIsGone ==
  Kept \subseteq UNION {file.writes : file \in {db, snapshot} \cup copies}

\* An installer that says it has undone the activation has: the link leads to the
\* release it found, the database has its schema, and a target that came up at boot still
\* does; of a first installation nothing is left.  That holds until the next
\* activation or until a crash of the host brings a link back.  A target
\* that was disabled may be enabled now.
UndoneIsUndone ==
  installer.ended = "undone" =>
    /\ current = installer.old /\ ~placed
    /\ IF installer.old = None THEN db = NoFile /\ ~target.enabled
       ELSE /\ db.kind = "whole"
            /\ db.schema = SchemaOf(installer.old)
            /\ installer.wasEnabled => target.enabled

\* An activation that stops a service that ran does not leave it stopped: a core
\* runs again, unless the installer ends with its critical message or is killed.
ServiceReturns ==
  (At("snapshot") /\ installer.wasUp) ~>
     (core.up \/ installer.ended \in {"critical", "killed"})
=============================================================================
