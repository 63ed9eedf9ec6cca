------------------------------- MODULE Backup -------------------------------
(***************************************************************************)
(* backup-br-wissen.sh: guards as preflights, pg_dump into a local file,   *)
(* rotation of the local dumps, restic backup of the whole data directory, *)
(* restic forget --prune, and the log that check-backup-freshness.py reads.*)
(* A persistent timer, an operator and a restart can start it at any time: *)
(* nothing keeps two runs apart but restic's own repository locks. Exports *)
(* go on meanwhile.                                                        *)
(*                                                                         *)
(* Files are ordered by mtime, as the rotation and the freshness check     *)
(* order them: later in dumps is newer. STAMPs of runs are distinct.       *)
(***************************************************************************)
EXTENDS Naturals, FiniteSets, Sequences, SequencesExt

CONSTANTS Runs,       \* runs of the backup script in a behaviour
          Answers,    \* answers that are exported while backups run
          DumpKeep,   \* BR_LOCAL_DUMP_KEEP
          KeepLast    \* restic forget --keep-last

ASSUME KeepAssumption == DumpKeep \in Nat \ {0} /\ KeepLast \in Nat \ {0}

NoRunYet == "none"
ASSUME NoRunAssumption == NoRunYet \notin Runs

VARIABLES
  files,      \* answers whose export files are all on the disk
  entered,    \* answers whose paths are in the database
  pc,         \* progress of a run
  dumps,      \* backups/postgres-*.sql, oldest first
  began,      \* runs whose restic backup began: the order of snapshot times
  repo,       \* runs whose snapshot is in the repository
  snap,       \* what the snapshot of a run holds
  log,        \* how far the log of a run has come
  newestLog,  \* the log written last
  readers,    \* other processes that hold a shared lock of the repository
  mishaps     \* runs that ended for another reason than another run (history)

\* What a backup leaves to the exports and to the readers of the repository.
exportVars == <<files, entered, readers>>
resticVars == <<began, repo, snap>>
vars == <<exportVars, pc, dumps, resticVars, log, newestLog, mishaps>>

Dumps == [run : Runs, complete : BOOLEAN, holds : SUBSET Answers]
Snapshots == [dumps : Seq(Dumps), files : SUBSET Answers]
NoSnapshot == [dumps |-> <<>>, files |-> {}]

Phases == {"idle", "preflight", "dump", "dumping", "rotate", "restic", "scanning",
           "forget", "pruning", "done", "failed"}
LogContents == {"none", "started", "creating_db_dump", "snapshot_saved", "backup_done"}

BackupTypeOK ==
  /\ files \subseteq Answers
  /\ entered \subseteq Answers
  /\ pc \in [Runs -> Phases]
  /\ dumps \in Seq(Dumps)
  /\ began \in Seq(Runs)
  /\ repo \subseteq Runs
  /\ snap \in [Runs -> Snapshots]
  /\ log \in [Runs -> LogContents]
  /\ newestLog \in Runs \cup {NoRunYet}
  /\ IsFiniteSet(readers)
  /\ mishaps \subseteq Runs

Init ==
  /\ files = {}
  /\ entered = {}
  /\ pc = [x \in Runs |-> "idle"]
  /\ dumps = <<>>
  /\ began = <<>>
  /\ repo = {}
  /\ snap = [x \in Runs |-> NoSnapshot]
  /\ log = [x \in Runs |-> "none"]
  /\ newestLog = NoRunYet
  /\ readers = {}
  /\ mishaps = {}

-----------------------------------------------------------------------------
(* Exports, reduced to what AnswerExport promises: files before paths. *)

WriteFiles(a) ==
  /\ a \notin files
  /\ files' = files \cup {a}
  /\ UNCHANGED <<entered, readers, pc, dumps, resticVars, log, newestLog, mishaps>>

(* The export as a bug would have it: the paths are entered first. *)
EnterPathsEarly(a) ==
  /\ entered' = entered \cup {a}
  /\ UNCHANGED <<files, readers, pc, dumps, resticVars, log, newestLog, mishaps>>

EnterPaths(a) ==
  /\ a \in files \ entered
  /\ entered' = entered \cup {a}
  /\ UNCHANGED <<files, readers, pc, dumps, resticVars, log, newestLog, mishaps>>

-----------------------------------------------------------------------------
(* One run *)

Goto(x, phase) == pc' = [pc EXCEPT ![x] = phase]

(* Whatever a run prints makes its log the newest. *)
LogLine(x, content) == log' = [log EXCEPT ![x] = content] /\ newestLog' = x

Begin(x) ==
  /\ pc[x] = "idle"
  /\ Goto(x, "preflight")
  /\ LogLine(x, "started")
  /\ UNCHANGED <<exportVars, dumps, resticVars, mishaps>>

(* All of the guards pass, or the first that does not ends the run. *)
Preflight(x) ==
  /\ pc[x] = "preflight"
  /\ \/ Goto(x, "dump") /\ UNCHANGED mishaps
     \/ Goto(x, "failed") /\ mishaps' = mishaps \cup {x}
  /\ LogLine(x, "started")
  /\ UNCHANGED <<exportVars, dumps, resticVars>>

(* The shell creates the file; pg_dump reads the database as of now. *)
StartDump(x) ==
  /\ pc[x] = "dump"
  /\ dumps' = Append(dumps, [run |-> x, complete |-> FALSE, holds |-> entered])
  /\ Goto(x, "dumping")
  /\ LogLine(x, "creating_db_dump")
  /\ UNCHANGED <<exportVars, resticVars, mishaps>>

DumpsOf(x) == {i \in DOMAIN dumps : dumps[i].run = x}

(* A dump is written to: it becomes the newest. *)
Touched(i, complete) == Append(RemoveAt(dumps, i), [dumps[i] EXCEPT !.complete = complete])

(* pg_dump writes on; to no effect when a rotation has removed the file. *)
GrowDump(x) ==
  /\ pc[x] = "dumping"
  /\ \E i \in DumpsOf(x) : dumps' = Touched(i, FALSE)
  /\ UNCHANGED <<exportVars, pc, resticVars, log, newestLog, mishaps>>

(* The dump is complete; chmod finds it. *)
FinishDump(x) ==
  /\ pc[x] = "dumping"
  /\ \E i \in DumpsOf(x) : dumps' = Touched(i, TRUE)
  /\ Goto(x, "rotate")
  /\ LogLine(x, "creating_db_dump")
  /\ UNCHANGED <<exportVars, resticVars, mishaps>>

(* pg_dump fails and leaves what it has written... *)
FailDump(x) ==
  /\ pc[x] = "dumping"
  /\ Goto(x, "failed")
  /\ mishaps' = mishaps \cup {x}
  /\ UNCHANGED <<exportVars, dumps, resticVars, log, newestLog>>

(* ... or succeeds, and chmod does not find the file another run rotated out. *)
LoseDump(x) ==
  /\ pc[x] = "dumping" /\ DumpsOf(x) = {}
  /\ Goto(x, "failed")
  /\ UNCHANGED <<exportVars, dumps, resticVars, log, newestLog, mishaps>>

(* The newest DumpKeep dumps stay, complete or not, whoever writes them. *)
Rotate(x) ==
  /\ pc[x] = "rotate"
  /\ dumps' = IF Len(dumps) <= DumpKeep THEN dumps
              ELSE SubSeq(dumps, Len(dumps) - DumpKeep + 1, Len(dumps))
  /\ Goto(x, "restic")
  /\ LogLine(x, "creating_db_dump")
  /\ UNCHANGED <<exportVars, resticVars, mishaps>>

(* Restic's locks: a backup shares its own, forget --prune needs it alone. *)
SharedLocks == {x \in Runs : pc[x] = "scanning"} \cup readers
ExclusiveLocks == {x \in Runs : pc[x] = "pruning"}

(* The backup walks the data directory: backups/ comes before exports/. *)
ScanDumps(x) ==
  /\ pc[x] = "restic" /\ ExclusiveLocks = {}
  /\ began' = Append(began, x)
  /\ snap' = [snap EXCEPT ![x].dumps = dumps]
  /\ Goto(x, "scanning")
  /\ UNCHANGED <<exportVars, dumps, repo, log, newestLog, mishaps>>

(* The repository is locked: set -e ends the run, with no word in its log. *)
BackupLockedOut(x) ==
  /\ pc[x] = "restic" /\ ExclusiveLocks # {}
  /\ Goto(x, "failed")
  /\ UNCHANGED <<exportVars, dumps, resticVars, log, newestLog, mishaps>>

SaveSnapshot(x) ==
  /\ pc[x] = "scanning"
  /\ snap' = [snap EXCEPT ![x].files = files]
  /\ repo' = repo \cup {x}
  /\ Goto(x, "forget")
  /\ LogLine(x, "snapshot_saved")
  /\ UNCHANGED <<exportVars, dumps, began, mishaps>>

(* The lock as a bug would have it: a run that failed here leaves its own. *)
BeginForgetStaleLock(x) ==
  /\ pc[x] = "forget"
  /\ Goto(x, IF readers # {} \/ \E y \in Runs \ {x} :
                                      \/ pc[y] \in {"scanning", "pruning"}
                                      \/ pc[y] = "failed" /\ y \in repo
             THEN "failed" ELSE "pruning")
  /\ mishaps' = IF readers = {} THEN mishaps ELSE mishaps \cup {x}
  /\ UNCHANGED <<exportVars, dumps, resticVars, log, newestLog>>

(* Whoever reads or writes the repository keeps the prune from it. *)
BeginForget(x) ==
  /\ pc[x] = "forget"
  /\ Goto(x, IF SharedLocks \cup ExclusiveLocks = {} THEN "pruning" ELSE "failed")
  /\ mishaps' = IF readers = {} THEN mishaps ELSE mishaps \cup {x}
  /\ UNCHANGED <<exportVars, dumps, resticVars, log, newestLog>>

(* Snapshots are ordered by their time, which is when they began. *)
NewerThan(x) == {y \in repo : \E i, j \in DOMAIN began : i < j /\ began[i] = x /\ began[j] = y}
NewestSnapshots(n) == {x \in repo : Cardinality(NewerThan(x)) < n}

(* As a bug would have it: one snapshot less is kept. *)
PruneOneMore(x) ==
  /\ pc[x] = "pruning"
  /\ \E older \in SUBSET (repo \ NewestSnapshots(KeepLast - 1)) :
       repo' = (repo \cap NewestSnapshots(KeepLast - 1)) \cup older
  /\ Goto(x, "done")
  /\ LogLine(x, "backup_done")
  /\ UNCHANGED <<exportVars, dumps, began, snap, mishaps>>

(* forget keeps the last ones, and of the older ones some; the run is done. *)
Prune(x) ==
  /\ pc[x] = "pruning"
  /\ \E older \in SUBSET (repo \ NewestSnapshots(KeepLast)) :
       repo' = (repo \cap NewestSnapshots(KeepLast)) \cup older
  /\ Goto(x, "done")
  /\ LogLine(x, "backup_done")
  /\ UNCHANGED <<exportVars, dumps, began, snap, mishaps>>

Ended == {"idle", "done", "failed"}

(* The run is killed; restic drops the lock of a process that is gone. *)
Die(x) ==
  /\ pc[x] \notin Ended
  /\ Goto(x, "failed")
  /\ mishaps' = mishaps \cup {x}
  /\ UNCHANGED <<exportVars, dumps, resticVars, log, newestLog>>

RunStep(x) ==
  \/ Begin(x) \/ Preflight(x)
  \/ StartDump(x) \/ GrowDump(x) \/ FinishDump(x) \/ FailDump(x) \/ LoseDump(x)
  \/ Rotate(x)
  \/ ScanDumps(x) \/ BackupLockedOut(x) \/ SaveSnapshot(x)
  \/ BeginForget(x) \/ Prune(x)

Next ==
  \/ \E x \in Runs : RunStep(x) \/ Die(x)
  \/ \E a \in Answers : WriteFiles(a) \/ EnterPaths(a)

Spec == Init /\ [][Next]_vars

-----------------------------------------------------------------------------
(***************************************************************************)
(* check-backup-freshness.py, without ages and sizes: the newest log is    *)
(* done, names the newest dump on the disk, and names the snapshot that    *)
(* restic finds latest.                                                    *)
(***************************************************************************)

(* The check as a bug would have it: the dump is not compared with the log. *)
FreshnessOkAnyDump ==
  /\ newestLog \in Runs /\ log[newestLog] = "backup_done"
  /\ NewestSnapshots(1) = {newestLog}

FreshnessOk ==
  /\ newestLog \in Runs /\ log[newestLog] = "backup_done"
  /\ NewestSnapshots(1) = {newestLog}
  /\ dumps # <<>> /\ Last(dumps).run = newestLog

(* A restore takes the newest dump of the snapshot. *)
RestoredDump(x) == Last(snap[x].dumps)

(***************************************************************************)
(* Every complete dump in a snapshot finds its exports in the same         *)
(* snapshot: an answer whose paths it holds has its files there, although  *)
(* exports go on during the backup and dumps of other runs are swept in.   *)
(***************************************************************************)
SnapshotsSelfContained ==
  \A x \in repo : \A i \in DOMAIN snap[x].dumps :
    snap[x].dumps[i].complete => snap[x].dumps[i].holds \subseteq snap[x].files

(***************************************************************************)
(* A backup that the freshness check accepts can be restored: the newest   *)
(* dump in the latest snapshot is the complete one of that run, although   *)
(* other runs leave partial dumps, rotate files and prune snapshots.       *)
(***************************************************************************)
FreshMeansRestorable ==
  FreshnessOk =>
    /\ snap[newestLog].dumps # <<>>
    /\ RestoredDump(newestLog).run = newestLog
    /\ RestoredDump(newestLog).complete

(***************************************************************************)
(* Overlapping runs may lock each other out of the repository, but never   *)
(* all of them: when every run has ended and none for another reason, one  *)
(* has finished its backup.                                                *)
(***************************************************************************)
SomeoneFinishes ==
  (\A x \in Runs : pc[x] \in Ended) /\ (\E x \in Runs : pc[x] # "idle") /\ mishaps = {}
    => \E x \in Runs : pc[x] = "done"
=============================================================================
