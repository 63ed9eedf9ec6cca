-------------------------- MODULE GuardWiringProofs --------------------------
(***************************************************************************)
(* Theorems of GuardWiring, for any subjects that are not themselves the   *)
(* judges of the wiring or of the files. Most of them need no history: the *)
(* tables of SourceHardening leave no file without a watcher other than    *)
(* itself. What it takes to silence a judge is counted by EditsInv.        *)
(***************************************************************************)
EXTENDS GuardWiring, FiniteSetTheorems, TLAPS

\* The guards that judge registry, installed units, and links and modes.
RegistryJudge == "check-surface-registry.py"
LoadJudge == "check-systemd-loaded-units.py"
ModeJudge == "check-script-permission-policy.py"
Judges == {RegistryJudge, LoadJudge, ModeJudge}

\* Places and their order as they were before any edit.
Untouched ==
  /\ listed = [l \in Lists |-> {g \in Subjects \ NewGuards : l \in ListsOf(g)}]
  /\ order = [l \in Sequences |-> "old"]

(* An edited file is one edit, and places that differ took another one.    *)
EditsInv ==
  /\ IsFiniteSet(edits)
  /\ Cardinality(edits) + (IF Untouched THEN 0 ELSE 1) <= count
  /\ \A e \in edits : e.kind \in KindsFor(e.file)

-----------------------------------------------------------------------------
(* Types and the number of edits *)

LEMMA WiringNextTyped == WiringTypeOK /\ [Next]_vars => WiringTypeOK'
  <1> SUFFICES ASSUME WiringTypeOK, [Next]_vars PROVE WiringTypeOK'
    OBVIOUS
  <1>0. ASSUME Edit PROVE count' \in 0 .. MaxEdits
    BY <1>0, WiringAssumption DEF Edit, WiringTypeOK
  <1>1. ASSUME NEW f \in Editable, RestoreFile(f) PROVE WiringTypeOK'
    BY <1>1 DEF RestoreFile, WiringTypeOK
  <1>2. ASSUME NEW f \in Editable, NEW kind \in KindsFor(f), EditFile(f, kind) PROVE WiringTypeOK'
    <2>1. [file |-> f, kind |-> kind] \in Edits
      BY WiringAssumption DEF Edits, KindsFor, Kinds
    <2>2. QED BY <1>0, <1>2, <2>1 DEF EditFile, WiringTypeOK
  <1>3. ASSUME NEW l \in EditedByHand, NEW g \in Subjects, AddTo(l, g) \/ DropFrom(l, g)
        PROVE  WiringTypeOK'
    <2>1. /\ Edit /\ UNCHANGED <<edits, order>>
          /\ \E names \in SUBSET Subjects : listed' = [listed EXCEPT ![l] = names]
      BY <1>3 DEF AddTo, DropFrom, EditedByHand, WiringTypeOK
    <2>2. QED BY <1>0, <2>1 DEF WiringTypeOK
  <1>4. ASSUME NEW l \in Sequences \cap EditedByHand, Reorder(l) PROVE WiringTypeOK'
    BY <1>0, <1>4 DEF Reorder, WiringTypeOK
  <1>5. CASE InstallUnit
    BY <1>5 DEF InstallUnit, CopyUnit, WiringTypeOK, Lists, Sequences
  <1>6. CASE DaemonReload
    BY <1>6 DEF DaemonReload, CopyUnit, WiringTypeOK, Lists, Sequences
  <1>7. CASE UNCHANGED vars
    BY <1>7 DEF vars, WiringTypeOK
  <1>8. QED BY <1>1, <1>2, <1>3, <1>4, <1>5, <1>6, <1>7 DEF Next

LEMMA WiringInitTyped == Init => WiringTypeOK
  BY WiringAssumption DEF Init, WiringTypeOK, Orders

(* A file has one edit at a time, of a known kind; places name subjects    *)
(* only; and nobody edits more often than the bound.                       *)
LEMMA WiringTypeCorrect == Spec => []WiringTypeOK
  BY WiringInitTyped, WiringNextTyped, PTL DEF Spec

(* Copying a unit that is as it was leaves the places as they were.        *)
LEMMA CopyUntouched ==
  ASSUME Untouched, InstallUnit \/ DaemonReload
  PROVE  Untouched'
  <1>1. /\ listed["installed unit"] = listed["project unit"]
        /\ listed["loaded unit"] = listed["project unit"]
        /\ order["installed unit"] = order["project unit"]
        /\ order["loaded unit"] = order["project unit"]
    BY DEF Untouched, ListsOf, Lists, Sequences
  <1>2. \E k, l \in {"project unit", "installed unit", "loaded unit"} :
          /\ listed[l] = listed[k] /\ listed' = [listed EXCEPT ![l] = listed[k]]
          /\ order[l] = order[k] /\ order' = [order EXCEPT ![l] = order[k]]
    BY <1>1 DEF InstallUnit, DaemonReload, CopyUnit
  <1>3. listed' = listed /\ order' = order
    BY <1>2 DEF Untouched
  <1>4. QED BY <1>3 DEF Untouched

LEMMA EditsStep == WiringTypeOK /\ EditsInv /\ [Next]_vars => EditsInv'
  <1> SUFFICES ASSUME WiringTypeOK, EditsInv, [Next]_vars PROVE EditsInv'
    OBVIOUS
  <1>0. Cardinality(edits) \in Nat /\ count \in Nat
    BY FS_CardinalityType, WiringAssumption DEF EditsInv, WiringTypeOK
  <1>1. ASSUME NEW f
        PROVE  LET rest == {e \in edits : e.file # f}
               IN  IsFiniteSet(rest) /\ Cardinality(rest) \in Nat /\ Cardinality(rest) <= Cardinality(edits)
    BY FS_Subset, FS_CardinalityType DEF EditsInv
  <1>2. ASSUME NEW f \in Editable, RestoreFile(f) PROVE EditsInv'
    <2>1. edits' = {e \in edits : e.file # f} /\ UNCHANGED <<listed, order, count>>
      BY <1>2 DEF RestoreFile
    <2>2. Untouched' = Untouched
      BY <2>1 DEF Untouched
    <2>3. IsFiniteSet(edits') /\ Cardinality(edits') \in Nat /\ Cardinality(edits') <= Cardinality(edits)
      BY <1>1, <2>1
    <2>4. \A e \in edits' : e.kind \in KindsFor(e.file)
      BY <2>1 DEF EditsInv
    <2>5. QED BY <1>0, <2>1, <2>2, <2>3, <2>4 DEF EditsInv
  <1>3. ASSUME NEW f \in Editable, NEW kind \in KindsFor(f), EditFile(f, kind) PROVE EditsInv'
    <2> DEFINE rest == {e \in edits : e.file # f}
               new == [file |-> f, kind |-> kind]
    <2>1. edits' = rest \cup {new} /\ UNCHANGED <<listed, order>> /\ count' = count + 1
      BY <1>3 DEF EditFile, Edit
    <2>2. Untouched' = Untouched
      BY <2>1 DEF Untouched
    <2>3. IsFiniteSet(rest) /\ Cardinality(rest) \in Nat /\ Cardinality(rest) <= Cardinality(edits)
      BY <1>1
    <2>4. \A e \in rest \cup {new} : e.kind \in KindsFor(e.file)
      BY DEF EditsInv
    <2> HIDE DEF rest, new
    <2>5. IsFiniteSet(rest \cup {new}) /\ Cardinality(rest \cup {new}) <= Cardinality(rest) + 1
      <3>1. /\ IsFiniteSet(rest \cup {new})
            /\ Cardinality(rest \cup {new}) = IF new \in rest THEN Cardinality(rest) ELSE Cardinality(rest) + 1
        BY <2>3, FS_AddElement
      <3>2. QED BY <2>3, <3>1
    <2>6. Cardinality(rest \cup {new}) \in Nat
      BY <2>5, FS_CardinalityType
    <2>7. Cardinality(edits') + (IF Untouched' THEN 0 ELSE 1) <= count'
      <3>1. Cardinality(edits') <= Cardinality(edits) + 1 /\ Cardinality(edits') \in Nat
        BY <1>0, <2>1, <2>3, <2>5, <2>6
      <3>2. QED BY <1>0, <2>1, <2>2, <3>1 DEF EditsInv
    <2>8. QED BY <2>1, <2>4, <2>5, <2>7 DEF EditsInv
  <1>4. ASSUME edits' = edits, count' = count + 1 PROVE EditsInv'
    BY <1>0, <1>4 DEF EditsInv
  <1>5. ASSUME edits' = edits, count' = count, Untouched => Untouched' PROVE EditsInv'
    BY <1>0, <1>5 DEF EditsInv
  <1>6. CASE InstallUnit \/ DaemonReload
    BY <1>5, <1>6, CopyUntouched DEF InstallUnit, DaemonReload, CopyUnit
  <1>7. CASE UNCHANGED vars
    BY <1>5, <1>7 DEF vars, Untouched
  <1>8. QED BY <1>2, <1>3, <1>4, <1>6, <1>7 DEF Next, AddTo, DropFrom, Reorder, Edit

LEMMA EditsInvariant == Spec => [](WiringTypeOK /\ EditsInv)
  <1>1. Init => EditsInv
    BY FS_EmptySet DEF Init, EditsInv, Untouched
  <1>2. QED BY <1>1, WiringInitTyped, WiringNextTyped, EditsStep, PTL DEF Spec

(* Two files edited use up two edits, and leave the places as they were.   *)
LEMMA TwoEdits ==
  ASSUME MaxEdits <= 2, WiringTypeOK, EditsInv, NEW d \in edits, NEW e \in edits, d # e
  PROVE  Untouched /\ edits = {d, e}
  <1>1. IsFiniteSet({d, e}) /\ Cardinality({d, e}) = 2
    <2>1. {d, e} = {d} \cup {e} /\ IsFiniteSet({d}) /\ Cardinality({d}) = 1
      BY FS_Singleton
    <2>2. QED BY <2>1, FS_AddElement
  <1>2. count <= 2 /\ count \in Nat /\ Cardinality(edits) \in Nat
    BY WiringAssumption, FS_CardinalityType DEF WiringTypeOK, EditsInv
  <1>3. Cardinality({d, e}) <= Cardinality(edits)
    BY FS_Subset DEF EditsInv
  <1>4. Untouched /\ Cardinality(edits) = 2
    BY <1>1, <1>2, <1>3 DEF EditsInv
  <1>5. edits = {d, e}
    BY <1>1, <1>4, FS_Subset DEF EditsInv
  <1>6. QED BY <1>4, <1>5
-----------------------------------------------------------------------------
(* Who watches which file *)

LEMMA WatchesOf ==
  /\ DOMAIN Watches = HardeningGuards
  /\ Watches["check-core-source-hardening.py"] = CoreSourceHardening
  /\ Watches["check-container-source-hardening.py"] = ContainerSourceHardening
  /\ Watches["check-network-source-hardening.py"] = NetworkSourceHardening
  /\ Watches["check-access-runtime-source-hardening.py"] = AccessRuntimeSourceHardening
  /\ Watches["check-compose-source-hardening.py"] = ComposeSourceHardening
  /\ Watches["check-import-source-hardening.py"] = ImportSourceHardening
  /\ Watches["check-data-integrity-source-hardening.py"] = DataIntegritySourceHardening
  /\ Watches["check-freshness-source-hardening.py"] = FreshnessSourceHardening
  /\ Watches["check-storage-source-hardening.py"] = StorageSourceHardening
  /\ Watches["check-regression-source-hardening.py"] = RegressionSourceHardening
  /\ Watches["check-backup-source-hardening.py"] = BackupSourceHardening
  /\ Watches["check-status-source-hardening.py"] = StatusSourceHardening
  /\ Watches["check-healthcheck-source-hardening.py"] = HealthcheckSourceHardening
  /\ Watches["check-systemd-source-hardening.py"] = SystemdSourceHardening
  /\ Watches["check-operational-wrapper-source-hardening.py"] = OperationalWrapperSourceHardening
  /\ Watches["check-doc-source-hardening.py"] = DocSourceHardening
  /\ Watches["check-meta-source-hardening.py"] = MetaSourceHardening
  /\ Watches["check-source-hardening-coverage.py"] = SourceHardeningCoverage
  BY DEF Watches, HardeningGuards, CoverageGuards, UngroupedGuards, CoverageItself
LEMMA HardeningNames ==
  {"check-core-source-hardening.py", "check-container-source-hardening.py",
   "check-network-source-hardening.py", "check-access-runtime-source-hardening.py",
   "check-compose-source-hardening.py", "check-import-source-hardening.py",
   "check-data-integrity-source-hardening.py", "check-freshness-source-hardening.py",
   "check-storage-source-hardening.py", "check-regression-source-hardening.py",
   "check-backup-source-hardening.py", "check-status-source-hardening.py",
   "check-healthcheck-source-hardening.py", "check-systemd-source-hardening.py",
   "check-operational-wrapper-source-hardening.py", "check-doc-source-hardening.py",
   "check-meta-source-hardening.py", "check-source-hardening-coverage.py"} \subseteq HardeningGuards
  BY DEF HardeningGuards, CoverageGuards, UngroupedGuards, CoverageItself

LEMMA HardeningRegistered ==
  /\ HardeningGuards \cup Judges \subseteq Registered
  /\ "check-readiness-doc.py" \notin HardeningGuards \cup Judges
  <1>1. HardeningGuards \cup Judges \subseteq CheckScripts
    BY DEF HardeningGuards, Judges, RegistryJudge, LoadJudge, ModeJudge, CheckScripts, CoverageTargets,
           CoverageItself, MetaTargets, MetaUnitTargets, MetaRegistryTargets
  <1>2. \A g \in HardeningGuards \cup Judges :
          g \notin StatusHelpers /\ g \notin Exceptions /\ g # "check-readiness-doc.py"
    BY DEF HardeningGuards, CoverageGuards, UngroupedGuards, CoverageItself, Judges, RegistryJudge,
           LoadJudge, ModeJudge, StatusHelpers, Exceptions
  <1>3. QED BY <1>1, <1>2 DEF Registered

LEMMA WatchingTargets ==
  ASSUME NEW targets, NEW ordered, NEW readOnly, NEW links
  PROVE  /\ Watching(targets, ordered, readOnly, links)["lost"] = targets
         /\ Watching(targets, ordered, readOnly, links)["absent"] = targets
         /\ Watching(targets, ordered, readOnly, links)["swapped"] = ordered
         /\ Watching(targets, ordered, readOnly, links)["writes"] = readOnly
  BY DEF Watching

\* Another guard reports this kind of edit of f.
ReportedByAnother(f, kind) == \E g \in HardeningGuards \ {f} : f \in Watches[g][kind]

(* No guard is the only one to watch itself: a lost line or a file that is *)
(* gone is reported by another one, but for the guards that no table       *)
(* speaks of.                                                              *)
LEMMA LossReported ==
  ASSUME NEW f \in WatchedFiles \ UngroupedGuards, NEW kind \in {"lost", "absent"}
  PROVE  ReportedByAnother(f, kind)
  <1>1. ASSUME NEW g \in HardeningGuards, NEW targets, NEW ordered, NEW readOnly, NEW links,
               Watches[g] = Watching(targets, ordered, readOnly, links), g \notin targets, f \in targets
        PROVE  ReportedByAnother(f, kind)
    BY <1>1, WatchingTargets DEF ReportedByAnother
  <1>2. CASE f \in CoreTargets
    BY <1>1, <1>2, HardeningNames, WatchesOf
    DEF CoreSourceHardening, CoreTargets, CoreHostTargets, CorePrivilegeTargets, CoreArtifactTargets
  <1>3. CASE f \in ContainerTargets
    BY <1>1, <1>3, HardeningNames, WatchesOf DEF ContainerSourceHardening, ContainerTargets
  <1>4. CASE f \in NetworkTargets
    <2>1. "check-network-source-hardening.py" \notin NetworkTargets
      BY DEF NetworkTargets, DnsTargets, PortTargets
    <2>2. QED BY <1>1, <1>4, <2>1, HardeningNames, WatchesOf DEF NetworkSourceHardening
  <1>5. CASE f \in AccessRuntimeTargets
    BY <1>1, <1>5, HardeningNames, WatchesOf DEF AccessRuntimeSourceHardening, AccessRuntimeTargets
  <1>6. CASE f \in ImportTargets \cup ImportUnits
    BY <1>1, <1>6, HardeningNames, WatchesOf DEF ImportSourceHardening, ImportTargets, ImportUnits
  <1>7. CASE f \in DataIntegrityTargets
    BY <1>1, <1>7, HardeningNames, WatchesOf DEF DataIntegritySourceHardening, DataIntegrityTargets
  <1>8. CASE f \in FreshnessPolicyTargets \cup FreshnessAgeTargets
    BY <1>1, <1>8, HardeningNames, WatchesOf
    DEF FreshnessSourceHardening, FreshnessPolicyTargets, FreshnessAgeTargets, BackupAgeTargets,
        RestoreAgeTargets
  <1>9. CASE f \in StorageTargets
    BY <1>1, <1>9, HardeningNames, WatchesOf DEF StorageSourceHardening, StorageTargets
  <1>10. CASE f \in RegressionTargets
    BY <1>1, <1>10, HardeningNames, WatchesOf DEF RegressionSourceHardening, RegressionTargets
  <1>11. CASE f \in StatusTargets
    BY <1>1, <1>11, HardeningNames, WatchesOf DEF StatusSourceHardening, StatusTargets
  <1>12. CASE f \in HealthcheckTargets
    BY <1>1, <1>12, HardeningNames, WatchesOf DEF HealthcheckSourceHardening, HealthcheckTargets
  <1>13. CASE f \in Units
    BY <1>1, <1>13, HardeningNames, WatchesOf DEF SystemdSourceHardening, Units, ServiceUnits, TimerUnits, ImportUnits
  <1>14. CASE f \in WrapperTargets
    BY <1>1, <1>14, HardeningNames, WatchesOf DEF OperationalWrapperSourceHardening, WrapperTargets
  <1>15. CASE f \in DocTargets
    BY <1>1, <1>15, HardeningNames, WatchesOf DEF DocSourceHardening, DocTargets, GuideTargets, OperationTargets
  <1>16. CASE f \in ComposeTargets
    BY <1>1, <1>16, HardeningNames, WatchesOf DEF ComposeSourceHardening, ComposeTargets
  <1>17. CASE f \in MetaTargets
    <2>1. "check-meta-source-hardening.py" \notin MetaTargets
      BY DEF MetaTargets, MetaWiringTargets, MetaUnitTargets, MetaRegistryTargets, MetaRecordTargets
    <2>2. QED BY <1>1, <1>17, <2>1, HardeningNames, WatchesOf DEF MetaSourceHardening
  <1>18. CASE f \in CoverageGuards
    <2>1. "check-source-hardening-coverage.py" \notin CoverageGuards
      BY DEF CoverageGuards
    <2>2. QED BY <1>1, <1>18, <2>1, HardeningNames, WatchesOf DEF SourceHardeningCoverage
  <1>19. QED
    BY <1>2, <1>3, <1>4, <1>5, <1>6, <1>7, <1>8, <1>9, <1>10, <1>11, <1>12, <1>13, <1>14, <1>15,
       <1>16, <1>17, <1>18
    DEF WatchedFiles, CheckScripts, CoverageTargets, OtherScripts, Exceptions, WrapperTargets,
        ImportTargets, RegressionTargets

(* Nor a write in a guard that no other one would report, as far as the    *)
(* groups of check-source-hardening-coverage.py go.                        *)
LEMMA WriteReported ==
  ASSUME NEW f \in WatchedForWrites
  PROVE  ReportedByAnother(f, "writes")
  <1>1. ASSUME NEW g \in HardeningGuards, NEW targets, NEW ordered, NEW readOnly, NEW links,
               Watches[g] = Watching(targets, ordered, readOnly, links), f \in readOnly
        PROVE  ReportedByAnother(f, "writes")
    BY <1>1, WatchingTargets, WatchesOf DEF ReportedByAnother, WatchedForWrites
  <1>3. CASE f \in CoreTargets
    BY <1>1, HardeningNames, <1>3, WatchesOf DEF CoreSourceHardening
  <1>4. CASE f \in ContainerTargets
    BY <1>1, HardeningNames, <1>4, WatchesOf DEF ContainerSourceHardening
  <1>5. CASE f \in NetworkTargets
    BY <1>1, HardeningNames, <1>5, WatchesOf DEF NetworkSourceHardening
  <1>6. CASE f \in AccessRuntimeTargets
    BY <1>1, HardeningNames, <1>6, WatchesOf DEF AccessRuntimeSourceHardening
  <1>7. CASE f \in DataIntegrityTargets
    BY <1>1, HardeningNames, <1>7, WatchesOf DEF DataIntegritySourceHardening
  <1>8. CASE f \in FreshnessPolicyTargets \cup FreshnessAgeTargets
    BY <1>1, HardeningNames, <1>8, WatchesOf DEF FreshnessSourceHardening
  <1>9. CASE f \in StorageTargets
    BY <1>1, HardeningNames, <1>9, WatchesOf DEF StorageSourceHardening
  <1>10. CASE f \in {"check-regression-freshness.py"}
    BY <1>1, HardeningNames, <1>10, WatchesOf DEF RegressionSourceHardening
  <1>11. CASE f \in MetaTargets
    BY <1>1, HardeningNames, <1>11, WatchesOf DEF MetaSourceHardening
  <1>12. QED
    BY <1>3, <1>4, <1>5, <1>6, <1>7, <1>8, <1>9, <1>10, <1>11 DEF WatchedForWrites, CoverageTargets
-----------------------------------------------------------------------------
(* What it takes that a guard says ok *)

\* The guards whose wiring is edited judge neither files nor wiring.
OrdinarySubjects == Subjects \cap (HardeningGuards \cup Judges) = {}

(* The health check calls every guard that is not a subject itself.        *)
LEMMA CalledAndOk ==
  ASSUME OrdinarySubjects, HealthCheckAccepts, NEW g \in HardeningGuards \cup Judges
  PROVE  SaysOk(g)
  <1>1. g \in Names("loaded unit")
    BY HardeningRegistered DEF OrdinarySubjects, Names, Guards
  <1>2. QED BY <1>1, HardeningRegistered DEF HealthCheckAccepts, Accepts

(* An edit goes unreported only if the guard that would report it is       *)
(* edited as well.                                                         *)
LEMMA ReporterIsBlind ==
  ASSUME OrdinarySubjects, HealthCheckAccepts, NEW e \in edits, NEW g \in HardeningGuards,
         e.file \in Watches[g][e.kind]
  PROVE  \E d \in edits : d.file = g /\ d.kind \in {"lost", "swapped"}
  <1>1. SaysOk(g) BY CalledAndOk
  <1>2. Reports(g) BY WatchesOf DEF Reports
  <1>3. QED BY <1>1, <1>2 DEF SaysOk, MayBeBlind, Edited

(* No guard is in the dark alone: a lost line, a file that is gone, or a   *)
(* write in a guard that reads needs an edit of a guard that watches files *)
(* (the files and guards that the tables leave out aside). However many    *)
(* edits there are.                                                        *)
LossHasAccomplice ==
  HealthCheckAccepts =>
    \A e \in edits :
      \/ e.kind \in {"lost", "absent"} /\ e.file \notin UngroupedGuards
      \/ e.kind = "writes" /\ e.file \in WatchedForWrites
      => \E d \in edits \ {e} : d.file \in DOMAIN Watches

THEOREM NoLossAlone == ASSUME OrdinarySubjects PROVE Spec => []LossHasAccomplice
  <1>1. WiringTypeOK => LossHasAccomplice
    <2>1. SUFFICES ASSUME WiringTypeOK, HealthCheckAccepts, NEW e \in edits,
                          \/ e.kind \in {"lost", "absent"} /\ e.file \notin UngroupedGuards
                          \/ e.kind = "writes" /\ e.file \in WatchedForWrites
                   PROVE  \E d \in edits \ {e} : d.file \in DOMAIN Watches
      BY DEF LossHasAccomplice
    <2>2. e.file \in WatchedFiles
      BY <2>1 DEF WiringTypeOK, Edits
    <2>3. ReportedByAnother(e.file, e.kind)
      BY <2>1, <2>2, LossReported, WriteReported
    <2>4. PICK g \in HardeningGuards \ {e.file} : e.file \in Watches[g][e.kind]
      BY <2>3 DEF ReportedByAnother
    <2>5. \E d \in edits : d.file = g
      BY <2>1, <2>4, ReporterIsBlind
    <2>6. QED BY <2>4, <2>5, WatchesOf
  <1>2. QED BY <1>1, WiringTypeCorrect, PTL

(* Whoever silences a guard of the wiring has to silence the one that      *)
(* watches it: two edits, and nothing else is edited.                      *)
LEMMA BlindJudge ==
  ASSUME MaxEdits <= 2, OrdinarySubjects, WiringTypeOK, EditsInv, HealthCheckAccepts,
         NEW g \in Judges, MayBeBlind(g)
  PROVE  Untouched /\ \A e \in edits : e.kind \in {"lost", "swapped"}
  <1>1. PICK e \in edits : e.file = g /\ e.kind \in {"lost", "swapped"}
    BY DEF MayBeBlind, Edited
  <1>2. g \in MetaTargets /\ g # "check-meta-source-hardening.py"
    BY DEF Judges, RegistryJudge, LoadJudge, ModeJudge, MetaTargets, MetaUnitTargets, MetaRegistryTargets
  <1>3. e.file \in Watches["check-meta-source-hardening.py"][e.kind]
    <2>1. /\ Watches["check-meta-source-hardening.py"]["lost"] = MetaTargets
          /\ Watches["check-meta-source-hardening.py"]["swapped"] = MetaTargets
      BY WatchesOf DEF MetaSourceHardening, Watching
    <2>2. CASE e.kind = "lost" BY <1>1, <1>2, <2>1, <2>2
    <2>3. CASE e.kind = "swapped" BY <1>1, <1>2, <2>1, <2>3
    <2>4. QED BY <1>1, <2>2, <2>3
  <1>4. PICK d \in edits : d.file = "check-meta-source-hardening.py" /\ d.kind \in {"lost", "swapped"}
    BY <1>3, ReporterIsBlind, HardeningNames
  <1>5. Untouched /\ edits = {e, d}
    BY <1>1, <1>2, <1>4, TwoEdits
  <1>6. QED BY <1>1, <1>4, <1>5

LEMMA JudgeTellsTruth ==
  ASSUME OrdinarySubjects, HealthCheckAccepts, NEW g \in Judges, ~MayBeBlind(g)
  PROVE  JudgesWiring(g)
  BY CalledAndOk DEF SaysOk

LEMMA NoLinkNoMode ==
  ASSUME MaxEdits <= 2, OrdinarySubjects, WiringTypeOK, EditsInv, HealthCheckAccepts, NEW e \in edits
  PROVE  e.kind \notin {"linked", "noexec"}
  <1>1. CASE MayBeBlind(ModeJudge)
    BY <1>1, BlindJudge DEF Judges
  <1>2. CASE ~MayBeBlind(ModeJudge)
    <2>1. PermissionsOk
      BY <1>2, JudgeTellsTruth DEF JudgesWiring, Judges, ModeJudge
    <2>2. e.file \in WatchedFiles /\ e.kind \in KindsFor(e.file)
      BY DEF WiringTypeOK, Edits, EditsInv
    <2>3. e.kind = "noexec" => e.file \in CheckScripts \cup OtherScripts
      BY <2>2 DEF KindsFor
    <2>4. QED BY <2>1, <2>2, <2>3 DEF PermissionsOk, Edited
  <1>3. QED BY <1>1, <1>2

(* No edit slips through alone: with one more edit there is no link and no *)
(* lost mode at all, and nothing is lost without an edit of a watcher.     *)
THEOREM LossesNeedAccomplices ==
  ASSUME MaxEdits <= 2, OrdinarySubjects
  PROVE  Spec => []LossNeedsAccomplice
  <1>1. WiringTypeOK /\ EditsInv /\ LossHasAccomplice => LossNeedsAccomplice
    BY NoLinkNoMode DEF LossHasAccomplice, LossNeedsAccomplice, Accepted
  <1>2. QED BY <1>1, NoLossAlone, EditsInvariant, PTL

(* The two judges of registry and loaded units, between them, see every    *)
(* caller; and nobody else was touched when one of them is blind.          *)
LEMMA CallersAgree ==
  ASSUME MaxEdits <= 2, OrdinarySubjects, WiringTypeOK, EditsInv, HealthCheckAccepts
  PROVE  \/ Untouched
         \/ /\ listed["status"] = listed["registry"]
            /\ listed["backup"] = listed["registry"] \ NotBeforeBackup
            /\ order["backup"] = order["registry"]
            /\ \A l \in {"project unit", "installed unit", "loaded unit"} : Same(l, "registry")
  <1>1. CASE MayBeBlind(RegistryJudge) \/ MayBeBlind(LoadJudge)
    BY <1>1, BlindJudge DEF Judges
  <1>2. CASE ~MayBeBlind(RegistryJudge) /\ ~MayBeBlind(LoadJudge)
    <2>1. SurfaceRegistryOk
      BY <1>2, JudgeTellsTruth DEF JudgesWiring, Judges, RegistryJudge
    <2>2. UnitsLoaded
      BY <1>2, JudgeTellsTruth DEF JudgesWiring, Judges, LoadJudge
    <2>3. QED BY <2>1, <2>2 DEF SurfaceRegistryOk, UnitsLoaded, Same
  <1>3. QED BY <1>1, <1>2

(* The surfaces call the same guards in the same order, although the       *)
(* guards that say so are called by the surfaces they judge.               *)
THEOREM SurfacesAgree ==
  ASSUME MaxEdits <= 2, OrdinarySubjects
  PROVE  Spec => []CalledByAllOrNone
  <1>1. WiringTypeOK /\ EditsInv => CalledByAllOrNone
    <2>1. SUFFICES ASSUME WiringTypeOK, EditsInv, HealthCheckAccepts
                   PROVE  /\ \A l \in Callers : \A g \in Subjects :
                               l \in ListsOf(g) => (g \in listed[l] <=> g \in listed["registry"])
                          /\ \A l \in Callers \cap Sequences : order[l] = order["registry"]
      BY DEF CalledByAllOrNone, Accepted
    <2>2. CASE Untouched
      <3>1. \A g \in Subjects : "registry" \in ListsOf(g)
        BY DEF ListsOf, Lists
      <3>2. Callers \subseteq Lists /\ "registry" \in Lists \cap Sequences
        BY DEF Callers, Lists, Sequences
      <3>3. QED BY <2>2, <3>1, <3>2 DEF Untouched
    <2>3. CASE ~Untouched
      <3>1. /\ listed["status"] = listed["registry"]
            /\ listed["backup"] = listed["registry"] \ NotBeforeBackup
            /\ order["backup"] = order["registry"]
            /\ \A l \in {"project unit", "installed unit", "loaded unit"} : Same(l, "registry")
        BY <2>1, <2>3, CallersAgree
      <3>2. \A g \in Subjects : "backup" \in ListsOf(g) => g \notin NotBeforeBackup
        BY DEF ListsOf
      <3>3. QED BY <3>1, <3>2 DEF Callers, Sequences, Same
    <2>4. QED BY <2>2, <2>3
  <1>2. QED BY <1>1, EditsInvariant, PTL

(* Files and wiring the health check accepts, the preflights of the backup *)
(* accept, too: its list has no other guards, and its script is there and  *)
(* may be executed.                                                        *)
THEOREM BackupAsAcceptable ==
  ASSUME MaxEdits <= 2, OrdinarySubjects
  PROVE  Spec => []HealthCheckForetellsBackup
  <1>1. WiringTypeOK /\ EditsInv => HealthCheckForetellsBackup
    <2>1. SUFFICES ASSUME WiringTypeOK, EditsInv, HealthCheckAccepts PROVE BackupAccepts
      BY DEF HealthCheckForetellsBackup
    <2>2. ~Edited({"backup-br-wissen.sh"}, {"absent", "noexec"})
      <3>1. SUFFICES ASSUME NEW e \in edits, e.file = "backup-br-wissen.sh", e.kind = "absent"
                     PROVE  FALSE
        BY <2>1, NoLinkNoMode DEF Edited
      <3>2. PICK c \in edits : c.file = "check-backup-source-hardening.py"
        <4>1. e.file \in Watches["check-backup-source-hardening.py"][e.kind]
          <5>1. Watches["check-backup-source-hardening.py"]["absent"] = BackupTargets
            BY WatchesOf DEF BackupSourceHardening, Watching
          <5>2. QED BY <3>1, <5>1 DEF BackupTargets
        <4>2. QED BY <2>1, <4>1, ReporterIsBlind, HardeningNames
      <3>3. PICK d \in edits : d.file = "check-operational-wrapper-source-hardening.py"
        <4>1. e.file \in Watches["check-operational-wrapper-source-hardening.py"][e.kind]
          <5>1. Watches["check-operational-wrapper-source-hardening.py"]["absent"] = WrapperTargets
            BY WatchesOf DEF OperationalWrapperSourceHardening, Watching
          <5>2. QED BY <3>1, <5>1 DEF WrapperTargets
        <4>2. QED BY <2>1, <4>1, ReporterIsBlind, HardeningNames
      <3>4. edits = {c, d}
        BY <2>1, <3>2, <3>3, TwoEdits
      <3>5. QED BY <3>1, <3>2, <3>3, <3>4
    <2>3. listed["backup"] \ NotBeforeBackup \subseteq listed["loaded unit"]
      <3>1. CASE Untouched
        <4>1. "backup" \in Lists /\ "loaded unit" \in Lists /\ \A g \in Subjects : "loaded unit" \in ListsOf(g)
          BY DEF Lists, ListsOf
        <4>2. QED BY <3>1, <4>1 DEF Untouched
      <3>2. CASE ~Untouched
        BY <2>1, <3>2, CallersAgree DEF Same
      <3>3. QED BY <3>1, <3>2
    <2>4. Names("backup") \ NotBeforeBackup \subseteq Names("loaded unit")
      BY <2>3 DEF Names
    <2>5. Accepts(Names("backup") \ NotBeforeBackup)
      BY <2>1, <2>4 DEF HealthCheckAccepts, Accepts
    <2>6. QED BY <2>2, <2>5 DEF BackupAccepts
  <1>2. QED BY <1>1, EditsInvariant, PTL
=============================================================================
