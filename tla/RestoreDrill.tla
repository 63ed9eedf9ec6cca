---------------------------- MODULE RestoreDrill ----------------------------
(***************************************************************************)
(* The weekly restore drill beside the backups: run-restore-smoke-drill.sh *)
(* calls restore-smoke-br-wissen.sh, which looks up the latest snapshot,   *)
(* restores the latest snapshot, loads the newest dump in it into a        *)
(* database of its own and counts what is there. check-restore-freshness   *)
(* reads the newest log of a drill and asks restic for the snapshot the    *)
(* log names.                                                              *)
(*                                                                         *)
(* Backups, the drill and the guards that list snapshots are kept apart by *)
(* the locks of the restic repository only. All of their timers are        *)
(* persistent: after an outage they start together.                        *)
(***************************************************************************)
EXTENDS Backup

CONSTANTS Drills,    \* runs of the drill
          Listings   \* guards that list the snapshots of the repository

ASSUME ReadersAssumption == Drills \cap Listings = {} /\ NoRunYet \notin Drills

NoSnapshotYet == NoRunYet

VARIABLES
  dpc,          \* progress of a drill
  resolved,     \* the snapshot its log names
  restored,     \* the snapshot it restored
  loaded,       \* how much of a database it loaded
  drillLog,     \* how far its log has come
  newestDrill   \* the drill whose log was written last

drillVars == <<dpc, resolved, restored, loaded, drillLog, newestDrill>>
allVars == <<vars, drillVars>>

DrillPhases == {"idle", "resolve", "restore", "restoring", "load", "done", "failed"}

\* A dump holds tables, then their data, then indexes, then foreign keys.
Loads == {"nothing", "data", "indexes", "all"}

DrillTypeOK ==
  /\ BackupTypeOK
  /\ readers \subseteq Drills \cup Listings
  /\ dpc \in [Drills -> DrillPhases]
  /\ resolved \in [Drills -> Runs \cup {NoSnapshotYet}]
  /\ restored \in [Drills -> Runs \cup {NoSnapshotYet}]
  /\ loaded \in [Drills -> Loads]
  /\ drillLog \in [Drills -> {"none", "started", "drill_ok"}]
  /\ newestDrill \in Drills \cup {NoRunYet}

DrillInit ==
  /\ Init
  /\ dpc = [d \in Drills |-> "idle"]
  /\ resolved = [d \in Drills |-> NoSnapshotYet]
  /\ restored = [d \in Drills |-> NoSnapshotYet]
  /\ loaded = [d \in Drills |-> "nothing"]
  /\ drillLog = [d \in Drills |-> "none"]
  /\ newestDrill = NoRunYet

-----------------------------------------------------------------------------
(* The drill. A failed command ends it: set -e, and pipefail beyond tee. *)

DrillGoto(d, phase) == dpc' = [dpc EXCEPT ![d] = phase]

\* restic's snapshot "latest" of this host and tag, as of the moment it is asked.
Latest == NewestSnapshots(1)
CanRead == ExclusiveLocks = {} /\ repo # {}

(* The log is begun; the guard of the storage capacity may refuse. *)
BeginDrill(d) ==
  /\ dpc[d] = "idle"
  /\ \E phase \in {"resolve", "failed"} : DrillGoto(d, phase)
  /\ drillLog' = [drillLog EXCEPT ![d] = "started"]
  /\ newestDrill' = d
  /\ UNCHANGED <<vars, resolved, restored, loaded>>

(* restic snapshots latest: the log names what it answers. *)
Resolve(d) ==
  /\ dpc[d] = "resolve" /\ CanRead
  /\ \E x \in Latest : resolved' = [resolved EXCEPT ![d] = x]
  /\ newestDrill' = d
  /\ DrillGoto(d, "restore")
  /\ UNCHANGED <<vars, restored, loaded, drillLog>>

(* The restore as a bug would have it: without a lock. *)
BeginRestoreNoLock(d) ==
  /\ dpc[d] = "restore" /\ CanRead
  /\ \E x \in Latest : restored' = [restored EXCEPT ![d] = x]
  /\ DrillGoto(d, "restoring")
  /\ UNCHANGED <<vars, resolved, loaded, drillLog, newestDrill>>

(* restic restore latest: a second question, with a shared lock from here on. *)
BeginRestore(d) ==
  /\ dpc[d] = "restore" /\ CanRead
  /\ \E x \in Latest : restored' = [restored EXCEPT ![d] = x]
  /\ readers' = readers \cup {d}
  /\ DrillGoto(d, "restoring")
  /\ UNCHANGED <<files, entered, pc, dumps, resticVars, log, newestLog, mishaps,
                 resolved, loaded, drillLog, newestDrill>>

(* The repository is being pruned, or empty. *)
DrillLockedOut(d) ==
  /\ dpc[d] \in {"resolve", "restore"} /\ ~CanRead
  /\ DrillGoto(d, "failed")
  /\ UNCHANGED <<vars, resolved, restored, loaded, drillLog, newestDrill>>

EndRestore(d) ==
  /\ dpc[d] = "restoring"
  /\ readers' = readers \ {d}
  /\ newestDrill' = d
  /\ DrillGoto(d, "load")
  /\ UNCHANGED <<files, entered, pc, dumps, resticVars, log, newestLog, mishaps,
                 resolved, restored, loaded, drillLog>>

HasDump(d) == snap[restored[d]].dumps # <<>>

(* What psql makes of a dump: of a partial one, whatever was written. *)
LoadOf(dump) == IF dump.complete THEN {"all"} ELSE {"data", "indexes"}

(* The counts are printed, not judged; rotation of the logs ends the drill. *)
LoadDump(d) ==
  /\ dpc[d] = "load" /\ HasDump(d)
  /\ \E much \in LoadOf(RestoredDump(restored[d])) : loaded' = [loaded EXCEPT ![d] = much]
  /\ drillLog' = [drillLog EXCEPT ![d] = "drill_ok"]
  /\ newestDrill' = d
  /\ DrillGoto(d, "done")
  /\ UNCHANGED <<vars, resolved, restored>>

(* No dump, a missing file, table or marker, a statement that is cut short. *)
LoadFails(d) ==
  /\ dpc[d] = "load"
  /\ newestDrill' = d
  /\ DrillGoto(d, "failed")
  /\ UNCHANGED <<vars, resolved, restored, loaded, drillLog>>

DrillDies(d) ==
  /\ dpc[d] \notin Ended
  /\ readers' = readers \ {d}
  /\ DrillGoto(d, "failed")
  /\ UNCHANGED <<files, entered, pc, dumps, resticVars, log, newestLog, mishaps,
                 resolved, restored, loaded, drillLog, newestDrill>>

(* A guard lists the snapshots; while the repository is pruned it cannot. *)
BeginListing(g) ==
  /\ g \notin readers /\ ExclusiveLocks = {}
  /\ readers' = readers \cup {g}
  /\ UNCHANGED <<files, entered, pc, dumps, resticVars, log, newestLog, mishaps, drillVars>>

EndListing(g) ==
  /\ g \in readers
  /\ readers' = readers \ {g}
  /\ UNCHANGED <<files, entered, pc, dumps, resticVars, log, newestLog, mishaps, drillVars>>

DrillStep(d) ==
  \/ BeginDrill(d) \/ Resolve(d) \/ BeginRestore(d) \/ DrillLockedOut(d) \/ EndRestore(d)
  \/ LoadDump(d) \/ LoadFails(d)

BackupNext == Next /\ UNCHANGED drillVars

DrillNext ==
  \/ BackupNext
  \/ \E d \in Drills : DrillStep(d) \/ DrillDies(d)
  \/ \E g \in Listings : BeginListing(g) \/ EndListing(g)

DrillSpec == DrillInit /\ [][DrillNext]_allVars

-----------------------------------------------------------------------------
(* check-restore-freshness.py, without ages, sizes, modes and helpers. *)

(* restic snapshots <id>: there is one, with the tags and paths of a backup. *)
ResolvedInRepository(d) == resolved[d] \in repo

RestoreFreshnessOk ==
  /\ newestDrill \in Drills
  /\ drillLog[newestDrill] = "drill_ok"
  /\ loaded[newestDrill] \in {"indexes", "all"}
  /\ ResolvedInRepository(newestDrill)

(***************************************************************************)
(* A snapshot is not pruned while a drill restores it, whatever backups    *)
(* and drills overlap: the prune needs the repository alone.               *)
(***************************************************************************)
RestoringSnapshotKept ==
  \A d \in Drills : dpc[d] = "restoring" => restored[d] \in repo

(***************************************************************************)
(* The snapshot the log of a drill names stays where the freshness check   *)
(* looks for it until keep-last newer ones are there, although backups     *)
(* prune between the drill and the check.                                  *)
(***************************************************************************)
DrilledSnapshotKept ==
  \A d \in Drills :
    resolved[d] \in Runs \ repo => Cardinality(NewerThan(resolved[d])) >= KeepLast

(***************************************************************************)
(* What an accepted drill loaded speaks only of exports whose files it     *)
(* restored, even when the newest dump in the snapshot was another run's   *)
(* and cut short.                                                          *)
(***************************************************************************)
RestoredExportsHaveFiles ==
  RestoreFreshnessOk =>
    LET x == restored[newestDrill] IN RestoredDump(x).holds \subseteq snap[x].files
=============================================================================
