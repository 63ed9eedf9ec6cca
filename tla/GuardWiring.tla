---------------------------- MODULE GuardWiring ----------------------------
(***************************************************************************)
(* How the guards are wired. Every guard is an entry of the registry in    *)
(* check-guard-coverage.py and is called by three surfaces: the status     *)
(* script, the preflights of the backup, the ExecStartPre lines of the     *)
(* health check. Which guard belongs where is written down again in the    *)
(* tables of other guards, in READINESS.md and in the guard of READINESS,  *)
(* which runs most guards once more. Some guards judge this wiring, and    *)
(* are themselves wired by it.                                             *)
(*                                                                         *)
(* The administrator edits one place at a time, for a new guard or by      *)
(* mistake, copies the units to /etc and reloads systemd. What the edits   *)
(* of single files mean to the guards is in SourceHardening.               *)
(***************************************************************************)
EXTENDS SourceHardening, Naturals, FiniteSets

CONSTANTS Editable,  \* files that may be edited
          Subjects,  \* guards whose wiring may be edited
          NewGuards, \* of these: guards that are not in place yet
          MaxEdits   \* bound: edits

ASSUME WiringAssumption ==
  /\ Editable \subseteq WatchedFiles
  /\ NewGuards \subseteq Subjects
  /\ MaxEdits \in Nat

StatusHelpers == {"check-container-images.sh", "check-image-pinning-readiness.sh"}

(* GUARDS, and those of them that the backup does without. *)
Registered == CheckScripts \ (StatusHelpers \cup Exceptions)
NotBeforeBackup ==
  {"check-runtime-log-markers.sh", "check-backup-freshness.py", "check-restore-freshness.py"}

(* Guards that check-readiness-doc.py does not run again. *)
NotRerun ==
  {"check-answer-export-safety.py", "check-audit-trail.py", "check-backup-freshness.py",
   "check-db-schema.py", "check-image-pinning-guard.sh", "check-project-artifacts.sh",
   "check-readiness-doc.py", "check-regression-freshness.py", "check-runtime-log-markers.sh",
   "check-storage-permissions.py"}

(* Calls of the status script that its guard does not expect by name. *)
NotExpectedInStatus ==
  {"check-runtime-log-markers.sh", "check-project-artifacts.sh", "check-restic-repository-check.py"}

(* The places that name guards. *)
Lists == {
  "disk",            \* scripts/
  "accounted",       \* check-source-hardening-coverage.py
  "registry",        \* check-guard-coverage.py
  "status",          \* status-br-wissen.sh
  "status table",    \* check-status-source-hardening.py
  "backup",          \* backup-br-wissen.sh
  "backup table",    \* check-backup-source-hardening.py
  "project unit",    \* systemd/br-wissen-healthcheck.service
  "unit table",      \* check-systemd-source-hardening.py
  "installed unit",  \* /etc/systemd/system/br-wissen-healthcheck.service
  "loaded unit",     \* what systemd runs
  "readiness",       \* docs/READINESS.md
  "rerun"}           \* check-readiness-doc.py

ListsOf(g) ==
  {l \in Lists :
     /\ l \in {"backup", "backup table"} => g \notin NotBeforeBackup
     /\ l = "status table" => g \notin NotExpectedInStatus
     /\ l = "rerun" => g \notin NotRerun}

(* The places where their order is judged. *)
Sequences ==
  {"registry", "backup", "backup table", "project unit", "unit table", "installed unit",
   "loaded unit"}

Orders == {"old", "new"}

VARIABLES
  edits,   \* what was edited in files
  listed,  \* the subjects each place names
  order,   \* the order it names guards in
  count    \* edits so far

vars == <<edits, listed, order, count>>

(* Only scripts are executed, only programs write and have an order. *)
KindsFor(f) ==
  IF f \in CheckScripts \cup OtherScripts THEN Kinds ELSE {"lost", "linked", "absent"}

Edits == [file : WatchedFiles, kind : Kinds]

WiringTypeOK ==
  /\ edits \subseteq Edits
  /\ \A d, e \in edits : d.file = e.file => d = e
  /\ listed \in [Lists -> SUBSET Subjects]
  /\ order \in [Sequences -> Orders]
  /\ count \in 0 .. MaxEdits

Init ==
  /\ edits = {}
  /\ listed = [l \in Lists |-> {g \in Subjects \ NewGuards : l \in ListsOf(g)}]
  /\ order = [l \in Sequences |-> "old"]
  /\ count = 0

-----------------------------------------------------------------------------
(* The verdicts of the guards that judge the wiring *)

(* One of these files was edited like this. *)
Edited(files, kinds) == \E e \in edits : e.file \in files /\ e.kind \in kinds

Guards == Registered \cup Subjects
Names(l) == {g \in Guards : g \in Subjects => g \in listed[l]}
Same(k, l) == listed[k] = listed[l] /\ order[k] = order[l]

Surfaces == {"status-br-wissen.sh", "backup-br-wissen.sh", "br-wissen-healthcheck.service"}
Registry == {"check-guard-coverage.py"}

(* check-guard-coverage.py: what is registered is there, and called by all. *)
GuardCoverageOk ==
  /\ ~Edited(Names("registry"), {"absent", "noexec"})
  /\ ~Edited(Surfaces \cup {"docs/READINESS.md"}, {"absent"})
  /\ listed["registry"] \subseteq
       listed["disk"] \cap listed["status"] \cap listed["project unit"]
         \cap listed["installed unit"] \cap listed["readiness"]
  /\ listed["registry"] \ NotBeforeBackup \subseteq listed["backup"]

(* The backup's preflights as a bug would have it: compared by number only. *)
SurfaceRegistryByCount ==
  /\ ~Edited(Surfaces \cup Registry, {"absent", "linked"})
  /\ Cardinality(listed["backup"]) = Cardinality(listed["registry"] \ NotBeforeBackup)
  /\ Same("project unit", "registry")

(* check-surface-registry.py: the surfaces call nothing else, in this order. *)
SurfaceRegistryOk ==
  /\ ~Edited(Surfaces \cup Registry, {"absent", "linked"})
  /\ ~Edited(Registry \cup {"check-surface-registry.py"}, {"writes"})
  /\ listed["status"] = listed["registry"]
  /\ listed["backup"] = listed["registry"] \ NotBeforeBackup
  /\ order["backup"] = order["registry"]
  /\ Same("project unit", "registry")
  /\ Same("installed unit", "registry")

(* check-guard-registry-integrity.py *)
RegistryIntegrityOk ==
  /\ ~Edited(Registry, {"absent", "linked", "swapped"})
  /\ ~Edited({"check-guard-registry-integrity.py"}, {"writes"})
  /\ ~Edited(Names("registry"), {"absent", "noexec"})
  /\ listed["registry"] \subseteq listed["disk"]

(* check-summary-contracts.py reads every registered guard. *)
SummaryContractsOk ==
  /\ ~Edited(Registry \cup Names("registry"), {"absent", "linked"})
  /\ ~Edited(Registry \cup {"check-summary-contracts.py"}, {"swapped"})
  /\ ~Edited({"check-summary-contracts.py"}, {"writes"})
  /\ listed["registry"] \subseteq listed["disk"]

(* check-source-hardening-coverage.py: every check script is accounted for. *)
HardeningCoverageOk ==
  /\ ~Edited(CheckScripts, {"absent"})
  /\ listed["disk"] = listed["accounted"]

(* check-status-, check-backup- and check-systemd-source-hardening.py *)
StatusTableOk == listed["status table"] \subseteq listed["status"]
BackupTableOk == Same("backup", "backup table")
UnitTableOk == Same("project unit", "unit table")

(* check-systemd-units.sh compares files, check-systemd-loaded-units.py asks systemd. *)
UnitsSynced == Same("project unit", "installed unit")
UnitsLoaded == Same("project unit", "loaded unit")

(* check-script-permission-policy.py *)
PermissionsOk ==
  /\ ~Edited(WatchedFiles, {"linked"})
  /\ ~Edited(CheckScripts \cup OtherScripts, {"noexec"})
  /\ ~Edited(Units \cup (DocTargets \ {"README.md"}), {"absent"})

-----------------------------------------------------------------------------
(* What a guard and what a surface says *)

Runs(g) ==
  /\ g \in Subjects => g \in listed["disk"]
  /\ ~Edited({g}, {"absent", "noexec"})

(* A guard whose text has changed may say ok whatever it should judge. *)
MayBeBlind(g) == Edited({g}, {"lost", "swapped"})

Reports(g) == g \in DOMAIN Watches /\ \E e \in edits : e.file \in Watches[g][e.kind]

JudgesWiring(g) ==
  CASE g = "check-guard-coverage.py" -> GuardCoverageOk
    [] g = "check-surface-registry.py" -> SurfaceRegistryOk
    [] g = "check-guard-registry-integrity.py" -> RegistryIntegrityOk
    [] g = "check-summary-contracts.py" -> SummaryContractsOk
    [] g = "check-source-hardening-coverage.py" -> HardeningCoverageOk
    [] g = "check-status-source-hardening.py" -> StatusTableOk
    [] g = "check-backup-source-hardening.py" -> BackupTableOk
    [] g = "check-systemd-source-hardening.py" -> UnitTableOk
    [] g = "check-systemd-units.sh" -> UnitsSynced
    [] g = "check-systemd-loaded-units.py" -> UnitsLoaded
    [] g = "check-script-permission-policy.py" -> PermissionsOk
    [] OTHER -> TRUE

SaysOk(g) == Runs(g) /\ (MayBeBlind(g) \/ (~Reports(g) /\ JudgesWiring(g)))

(* check-readiness-doc.py: it runs other guards, and reads READINESS.md. *)
ReadinessOk ==
  /\ Runs("check-readiness-doc.py")
  /\ \/ MayBeBlind("check-readiness-doc.py")
     \/ /\ ~Edited({"docs/READINESS.md"}, {"absent", "lost"})
        /\ \A g \in Names("rerun") \ NotRerun : SaysOk(g)

Accepts(names) ==
  \A g \in names : IF g = "check-readiness-doc.py" THEN ReadinessOk ELSE SaysOk(g)

(* A changed backup script may ignore its preflights. *)
BackupAccepts ==
  LET script == {"backup-br-wissen.sh"} IN
  /\ ~Edited(script, {"absent", "noexec"})
  /\ \/ Edited(script, {"lost", "swapped"})
     \/ Accepts(Names("backup") \ NotBeforeBackup)

HealthCheckRuns ==
  /\ ~Edited({"healthcheck-br-wissen-docker.sh"}, {"absent", "noexec"})
  /\ ~Edited({"healthcheck-br-wissen.py"}, {"absent"})

(* As a bug would have it: without a guard and the one that runs it again. *)
HealthCheckAcceptsShort ==
  /\ HealthCheckRuns
  /\ Accepts(Names("loaded unit") \ {"check-network-source-hardening.py", "check-readiness-doc.py"})

HealthCheckAccepts == HealthCheckRuns /\ Accepts(Names("loaded unit"))

Accepted == BackupAccepts /\ HealthCheckAccepts

-----------------------------------------------------------------------------
(* The administrator *)

Edit == count < MaxEdits /\ count' = count + 1

EditFile(f, kind) ==
  /\ Edit
  /\ edits' = {e \in edits : e.file # f} \cup {[file |-> f, kind |-> kind]}
  /\ UNCHANGED <<listed, order>>

(* git checkout *)
RestoreFile(f) ==
  /\ Edited({f}, Kinds)
  /\ edits' = {e \in edits : e.file # f}
  /\ UNCHANGED <<listed, order, count>>

EditedByHand == Lists \ {"loaded unit"}

AddTo(l, g) ==
  /\ Edit /\ g \notin listed[l]
  /\ listed' = [listed EXCEPT ![l] = @ \cup {g}]
  /\ UNCHANGED <<edits, order>>

DropFrom(l, g) ==
  /\ Edit /\ g \in listed[l]
  /\ listed' = [listed EXCEPT ![l] = @ \ {g}]
  /\ UNCHANGED <<edits, order>>

Reorder(l) ==
  /\ Edit
  /\ \E o \in Orders \ {order[l]} : order' = [order EXCEPT ![l] = o]
  /\ UNCHANGED <<edits, listed>>

CopyUnit(from, to) ==
  /\ listed' = [listed EXCEPT ![to] = listed[from]]
  /\ order' = [order EXCEPT ![to] = order[from]]
  /\ UNCHANGED <<edits, count>>

InstallUnit == CopyUnit("project unit", "installed unit")
DaemonReload == CopyUnit("installed unit", "loaded unit")

Next ==
  \/ \E f \in Editable : RestoreFile(f) \/ \E kind \in KindsFor(f) : EditFile(f, kind)
  \/ \E l \in EditedByHand, g \in Subjects : l \in ListsOf(g) /\ (AddTo(l, g) \/ DropFrom(l, g))
  \/ \E l \in Sequences \cap EditedByHand : Reorder(l)
  \/ InstallUnit \/ DaemonReload

Spec == Init /\ [][Next]_vars

-----------------------------------------------------------------------------
(***************************************************************************)
(* No edit slips through alone. While health check and backup accept, no   *)
(* script is a link or lacks its mode, and a line or a file that is gone,  *)
(* or a write in a guard that reads, comes with an edit of a guard that    *)
(* watches files. Out of reach are the lines of the seven guards that no   *)
(* table speaks of, and writes in the import pipeline's guard.             *)
(***************************************************************************)
WatchedForWrites == CoverageTargets \ ({"check-import-pipeline.py"} \cup DOMAIN Watches)

LossNeedsAccomplice ==
  Accepted =>
    \A e \in edits :
      /\ e.kind \notin {"linked", "noexec"}
      /\ \/ e.kind \in {"lost", "absent"} /\ e.file \notin UngroupedGuards
         \/ e.kind = "writes" /\ e.file \in WatchedForWrites
         => \E d \in edits \ {e} : d.file \in DOMAIN Watches

(***************************************************************************)
(* A guard is called by all surfaces or by none, in the registry's order:  *)
(* while health check and backup accept, a half-registered guard, a        *)
(* dropped call, a unit not yet installed or loaded, or another order is   *)
(* not there, although the guards that judge it are wired by what they     *)
(* judge.                                                                  *)
(***************************************************************************)
Callers == {"status", "backup", "project unit", "installed unit", "loaded unit"}

CalledByAllOrNone ==
  Accepted =>
    /\ \A l \in Callers : \A g \in Subjects :
         l \in ListsOf(g) => (g \in listed[l] <=> g \in listed["registry"])
    /\ \A l \in Callers \cap Sequences : order[l] = order["registry"]

(***************************************************************************)
(* No edit stops the backup alone: files and wiring that the health check  *)
(* accepts, the preflights of the backup do not refuse for what is in them.*)
(* It is said of one state of the files; what happens between a health     *)
(* check and a backup is a matter of Schedule.                             *)
(***************************************************************************)
HealthCheckForetellsBackup == HealthCheckAccepts => BackupAccepts
=============================================================================
