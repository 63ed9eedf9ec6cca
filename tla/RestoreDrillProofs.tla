-------------------------- MODULE RestoreDrillProofs --------------------------
(***************************************************************************)
(* Theorems of RestoreDrill, for any number of backups, drills, listings   *)
(* and answers. One invariant per question: LockInv says what restic's     *)
(* locks keep apart; CoverInv follows the exports a dump speaks of from    *)
(* the database through dump and snapshot into a restored directory;       *)
(* NewestInv is about the last dump, BlameInv about who ends whom, and     *)
(* OrderInv about which snapshots are newer than the one a drill took.     *)
(***************************************************************************)
EXTENDS RestoreDrill, FiniteSetTheorems, SequenceTheorems, TLAPS

-----------------------------------------------------------------------------
(* Sequences of dumps *)

\* Dumps that speak only of exports in F.
Within(F) == {e \in Dumps : e.holds \subseteq F}

LEMMA WithinGrows ==
  ASSUME NEW F, NEW G, F \subseteq G, NEW s \in Seq(Within(F))
  PROVE  s \in Seq(Within(G))
  <1>1. Within(F) \subseteq Within(G) BY DEF Within
  <1>2. QED BY <1>1, SeqMonotonic

LEMMA WithinTyped ==
  ASSUME NEW F, NEW s \in Seq(Within(F))
  PROVE  s \in Seq(Dumps)
  <1>1. Within(F) \subseteq Dumps BY DEF Within
  <1>2. QED BY <1>1, SeqMonotonic

(* Writing to a dump changes its place and its completeness, not what the  *)
(* dumps speak of.                                                         *)
LEMMA TouchedWithin ==
  ASSUME NEW F, dumps \in Seq(Within(F)), NEW i \in DOMAIN dumps, NEW complete \in BOOLEAN
  PROVE  Touched(i, complete) \in Seq(Within(F))
  <1> DEFINE S == Within(F)
             touched == [dumps[i] EXCEPT !.complete = complete]
  <1>1. Len(dumps) \in Nat /\ DOMAIN dumps = 1 .. Len(dumps) /\ i \in Int
    BY LenProperties
  <1>2. \A j \in 1 .. Len(dumps) : dumps[j] \in S
    BY ElementOfSeq
  <1> HIDE DEF S
  <1>3. SubSeq(dumps, 1, i - 1) \in Seq(S)
    <2>1. \A j \in 1 .. i - 1 : dumps[j] \in S BY <1>1, <1>2
    <2>2. QED BY <1>1, <2>1, SubSeqProperties
  <1>4. SubSeq(dumps, i + 1, Len(dumps)) \in Seq(S)
    <2>1. \A j \in i + 1 .. Len(dumps) : dumps[j] \in S BY <1>1, <1>2
    <2>2. QED BY <1>1, <2>1, SubSeqProperties
  <1>5. RemoveAt(dumps, i) \in Seq(S)
    BY <1>3, <1>4, ConcatProperties DEF RemoveAt
  <1>6. touched \in S
    BY <1>1, <1>2 DEF S, Within, Dumps
  <1>7. QED BY <1>5, <1>6, AppendProperties DEF Touched, S

(* A rotation keeps a part of the dumps. *)
LEMMA RotatedWithin ==
  ASSUME NEW F, dumps \in Seq(Within(F)), NEW x \in Runs, Rotate(x)
  PROVE  dumps' \in Seq(Within(F))
  <1> DEFINE S == Within(F)
  <1>1. Len(dumps) \in Nat /\ DumpKeep \in Nat
    BY LenProperties, KeepAssumption
  <1>2. \A j \in 1 .. Len(dumps) : dumps[j] \in S
    BY ElementOfSeq
  <1> HIDE DEF S
  <1>3. CASE Len(dumps) <= DumpKeep
    BY <1>3 DEF Rotate
  <1>4. CASE ~(Len(dumps) <= DumpKeep)
    <2>1. \A j \in Len(dumps) - DumpKeep + 1 .. Len(dumps) : dumps[j] \in S
      BY <1>1, <1>2, <1>4
    <2>2. SubSeq(dumps, Len(dumps) - DumpKeep + 1, Len(dumps)) \in Seq(S)
      BY <1>1, <2>1, SubSeqProperties
    <2>3. QED BY <1>4, <2>2 DEF Rotate, S
  <1>5. QED BY <1>3, <1>4

-----------------------------------------------------------------------------
(* Types *)

LEMMA DrillInitTyped == DrillInit => DrillTypeOK
  BY FS_EmptySet, EmptySeq
     DEF DrillInit, Init, DrillTypeOK, BackupTypeOK, Phases, LogContents, DrillPhases, Loads,
         NoSnapshot, Snapshots, NoSnapshotYet

(* Within every set of answers is a dump of this database. *)
LEMMA AllWithin == Seq(Within(Answers)) = Seq(Dumps)
  <1>1. Within(Answers) = Dumps BY DEF Within, Dumps
  <1>2. QED BY <1>1

LEMMA DumpsTyped ==
  ASSUME BackupTypeOK, NEW x \in Runs, RunStep(x)
  PROVE  dumps' \in Seq(Dumps)
  <1>1. CASE StartDump(x)
    <2>1. [run |-> x, complete |-> FALSE, holds |-> entered] \in Dumps
      BY DEF BackupTypeOK, Dumps
    <2>2. QED BY <1>1, <2>1, AppendProperties DEF StartDump, BackupTypeOK
  <1>2. CASE GrowDump(x) \/ FinishDump(x)
    <2>1. PICK i \in DumpsOf(x), c \in BOOLEAN : dumps' = Touched(i, c)
      BY <1>2 DEF GrowDump, FinishDump
    <2>2. i \in DOMAIN dumps BY <2>1 DEF DumpsOf
    <2>3. QED BY <2>1, <2>2, TouchedWithin, AllWithin DEF BackupTypeOK
  <1>3. CASE Rotate(x)
    BY <1>3, RotatedWithin, AllWithin DEF BackupTypeOK
  <1>4. CASE Begin(x) \/ Preflight(x) \/ FailDump(x) \/ LoseDump(x) \/ ScanDumps(x)
               \/ BackupLockedOut(x) \/ SaveSnapshot(x) \/ BeginForget(x) \/ Prune(x)
    BY <1>4 DEF BackupTypeOK, Begin, Preflight, FailDump, LoseDump, ScanDumps, BackupLockedOut,
                SaveSnapshot, BeginForget, Prune
  <1>5. QED BY <1>1, <1>2, <1>3, <1>4 DEF RunStep

LEMMA BackupStepTyped ==
  ASSUME BackupTypeOK, Next
  PROVE  BackupTypeOK'
  <1>1. ASSUME NEW x \in Runs, RunStep(x) PROVE BackupTypeOK'
    <2>0. dumps' \in Seq(Dumps) BY <1>1, DumpsTyped
    <2>1. CASE Begin(x) \/ Preflight(x)
      BY <2>0, <2>1 DEF BackupTypeOK, Begin, Preflight, Goto, LogLine, exportVars, resticVars,
                  Phases, LogContents
    <2>2. CASE StartDump(x) \/ GrowDump(x) \/ FinishDump(x) \/ Rotate(x)
      BY <2>0, <2>2 DEF BackupTypeOK, StartDump, GrowDump, FinishDump, Rotate, Goto, LogLine,
                  exportVars, resticVars, Phases, LogContents
    <2>3. CASE FailDump(x) \/ LoseDump(x) \/ BackupLockedOut(x) \/ BeginForget(x)
      BY <2>0, <2>3 DEF BackupTypeOK, FailDump, LoseDump, BackupLockedOut, BeginForget, Goto,
                  exportVars, resticVars, Phases
    <2>4. CASE ScanDumps(x)
      <3>1. began' \in Seq(Runs)
        BY <2>4, AppendProperties DEF BackupTypeOK, ScanDumps
      <3>2. snap' \in [Runs -> Snapshots]
        BY <2>4 DEF BackupTypeOK, ScanDumps, Snapshots
      <3>3. QED BY <2>0, <2>4, <3>1, <3>2 DEF BackupTypeOK, ScanDumps, Goto, exportVars, Phases
    <2>5. CASE SaveSnapshot(x)
      <3>1. snap' \in [Runs -> Snapshots]
        BY <2>5 DEF BackupTypeOK, SaveSnapshot, Snapshots
      <3>2. QED BY <2>0, <2>5, <3>1 DEF BackupTypeOK, SaveSnapshot, Goto, LogLine, exportVars,
                              Phases, LogContents
    <2>6. CASE Prune(x)
      BY <2>0, <2>6 DEF BackupTypeOK, Prune, Goto, LogLine, exportVars, Phases, LogContents
    <2>7. QED BY <1>1, <2>1, <2>2, <2>3, <2>4, <2>5, <2>6 DEF RunStep
  <1>2. ASSUME NEW x \in Runs, Die(x) PROVE BackupTypeOK'
    BY <1>2 DEF BackupTypeOK, Die, Goto, exportVars, resticVars, Phases
  <1>3. ASSUME NEW a \in Answers, WriteFiles(a) \/ EnterPaths(a) PROVE BackupTypeOK'
    BY <1>3 DEF BackupTypeOK, WriteFiles, EnterPaths, resticVars
  <1>4. QED BY <1>1, <1>2, <1>3 DEF Next

(* What a drill or a listing leaves of a backup: all but the readers. *)
LEMMA ReadersTyped ==
  ASSUME DrillTypeOK, NEW r \in Drills \cup Listings,
         \/ readers' = readers
         \/ readers' = readers \cup {r}
         \/ readers' = readers \ {r},
         UNCHANGED <<files, entered, pc, dumps, resticVars, log, newestLog, mishaps>>
  PROVE  BackupTypeOK' /\ readers' \subseteq Drills \cup Listings
  <1>1. IsFiniteSet(readers') /\ readers' \subseteq Drills \cup Listings
    BY FS_AddElement, FS_RemoveElement DEF DrillTypeOK, BackupTypeOK
  <1>2. QED BY <1>1 DEF DrillTypeOK, BackupTypeOK, resticVars

LEMMA DrillStepTyped ==
  ASSUME DrillTypeOK, NEW d \in Drills, DrillStep(d) \/ DrillDies(d)
  PROVE  DrillTypeOK'
  <1>1. /\ readers' \in {readers, readers \cup {d}, readers \ {d}}
        /\ UNCHANGED <<files, entered, pc, dumps, resticVars, log, newestLog, mishaps>>
    BY DEF DrillStep, DrillDies, BeginDrill, Resolve, BeginRestore, DrillLockedOut, EndRestore,
           LoadDump, LoadFails, vars, exportVars
  <1>2. BackupTypeOK' /\ readers' \subseteq Drills \cup Listings
    BY <1>1, ReadersTyped
  <1>3. Latest \subseteq Runs
    BY DEF Latest, NewestSnapshots, DrillTypeOK, BackupTypeOK
  <1>4. CASE BeginDrill(d) \/ Resolve(d) \/ BeginRestore(d)
    BY <1>2, <1>3, <1>4 DEF DrillTypeOK, BeginDrill, Resolve, BeginRestore, DrillGoto, DrillPhases
  <1>5. CASE DrillLockedOut(d) \/ EndRestore(d) \/ LoadFails(d) \/ DrillDies(d)
    BY <1>2, <1>5 DEF DrillTypeOK, DrillLockedOut, EndRestore, LoadFails, DrillDies, DrillGoto,
                      DrillPhases
  <1>6. CASE LoadDump(d)
    BY <1>2, <1>6 DEF DrillTypeOK, LoadDump, LoadOf, Loads, DrillGoto, DrillPhases
  <1>7. QED BY <1>4, <1>5, <1>6 DEF DrillStep

LEMMA ListingTyped ==
  ASSUME DrillTypeOK, NEW g \in Listings, BeginListing(g) \/ EndListing(g)
  PROVE  DrillTypeOK'
  <1>1. BackupTypeOK' /\ readers' \subseteq Drills \cup Listings
    BY ReadersTyped DEF BeginListing, EndListing
  <1>2. QED BY <1>1 DEF DrillTypeOK, BeginListing, EndListing, drillVars

LEMMA DrillNextTyped == DrillTypeOK /\ [DrillNext]_allVars => DrillTypeOK'
  <1> SUFFICES ASSUME DrillTypeOK, [DrillNext]_allVars PROVE DrillTypeOK'
    OBVIOUS
  <1>1. CASE BackupNext
    <2>1. BackupTypeOK' BY <1>1, BackupStepTyped DEF BackupNext, DrillTypeOK
    <2>2. readers' = readers
      BY <1>1 DEF BackupNext, Next, RunStep, Begin, Preflight, StartDump, GrowDump, FinishDump,
                  FailDump, LoseDump, Rotate, ScanDumps, BackupLockedOut, SaveSnapshot,
                  BeginForget, Prune, Die, WriteFiles, EnterPaths, exportVars
    <2>3. QED BY <1>1, <2>1, <2>2 DEF DrillTypeOK, BackupNext, drillVars
  <1>2. CASE UNCHANGED allVars
    BY <1>2 DEF allVars, vars, exportVars, resticVars, drillVars, DrillTypeOK, BackupTypeOK
  <1>3. QED BY <1>1, <1>2, DrillStepTyped, ListingTyped DEF DrillNext

(* Database, dumps, repository, logs and drills keep their types. *)
THEOREM DrillTypeCorrect == DrillSpec => []DrillTypeOK
  BY DrillInitTyped, DrillNextTyped, PTL DEF DrillSpec

-----------------------------------------------------------------------------
(* Locks: who restores holds one, and what it restores is there; who prunes *)
(* is alone.                                                                *)

Restoring == {d \in Drills : dpc[d] = "restoring"}

LockInv ==
  /\ \A d \in Restoring : d \in readers /\ restored[d] \in repo
  /\ readers # {} => ExclusiveLocks = {}

LEMMA BackupKeepsLocks ==
  ASSUME DrillTypeOK, LockInv, BackupNext
  PROVE  LockInv'
  <1>0. UNCHANGED <<dpc, restored>>
    BY DEF BackupNext, drillVars
  <1>1. ASSUME NEW x \in Runs, BeginForget(x) PROVE LockInv'
    BY <1>0, <1>1 DEF LockInv, Restoring, ExclusiveLocks, SharedLocks, BeginForget, Goto,
                exportVars, resticVars, DrillTypeOK, BackupTypeOK
  <1>2. ASSUME NEW x \in Runs, Prune(x) PROVE LockInv'
    <2>1. readers = {} /\ readers' = {}
      BY <1>2 DEF LockInv, ExclusiveLocks, Prune, exportVars
    <2>2. QED BY <1>0, <2>1 DEF LockInv, Restoring
  <1>3. ASSUME NEW x \in Runs, SaveSnapshot(x) PROVE LockInv'
    BY <1>0, <1>3 DEF LockInv, Restoring, ExclusiveLocks, SaveSnapshot, Goto, exportVars,
                DrillTypeOK, BackupTypeOK
  <1>4. ASSUME NEW x \in Runs,
               \/ Begin(x) \/ Preflight(x) \/ StartDump(x) \/ GrowDump(x) \/ FinishDump(x)
               \/ FailDump(x) \/ LoseDump(x) \/ Rotate(x) \/ ScanDumps(x)
               \/ BackupLockedOut(x) \/ Die(x)
        PROVE  LockInv'
    <2>1. repo' = repo /\ readers' = readers
      BY <1>4 DEF Begin, Preflight, StartDump, GrowDump, FinishDump, FailDump, LoseDump, Rotate,
                  ScanDumps, BackupLockedOut, Die, exportVars, resticVars
    <2>2. ExclusiveLocks' \subseteq ExclusiveLocks
      BY <1>4 DEF Begin, Preflight, StartDump, GrowDump, FinishDump, FailDump, LoseDump, Rotate,
                  ScanDumps, BackupLockedOut, Die, Goto, ExclusiveLocks, DrillTypeOK, BackupTypeOK
    <2>3. QED BY <1>0, <2>1, <2>2 DEF LockInv, Restoring
  <1>5. ASSUME NEW a \in Answers, WriteFiles(a) \/ EnterPaths(a) PROVE LockInv'
    BY <1>0, <1>5 DEF LockInv, Restoring, ExclusiveLocks, WriteFiles, EnterPaths, resticVars
  <1>6. QED BY <1>1, <1>2, <1>3, <1>4, <1>5 DEF BackupNext, Next, RunStep

LEMMA DrillKeepsLocks ==
  ASSUME DrillTypeOK, LockInv, NEW d \in Drills, DrillStep(d) \/ DrillDies(d)
  PROVE  LockInv'
  <1>1. CASE BeginRestore(d)
    <2>1. PICK x \in Latest : restored' = [restored EXCEPT ![d] = x]
      BY <1>1 DEF BeginRestore
    <2>2. x \in repo BY <2>1 DEF Latest, NewestSnapshots
    <2>3. QED BY <1>1, <2>1, <2>2 DEF LockInv, Restoring, ExclusiveLocks, BeginRestore, CanRead,
                              DrillGoto, resticVars, DrillTypeOK
  <1>2. CASE EndRestore(d) \/ DrillDies(d)
    BY <1>2 DEF LockInv, Restoring, ExclusiveLocks, EndRestore, DrillDies, DrillGoto, resticVars,
                DrillTypeOK
  <1>3. CASE BeginDrill(d) \/ Resolve(d) \/ DrillLockedOut(d) \/ LoadDump(d) \/ LoadFails(d)
    BY <1>3 DEF LockInv, Restoring, ExclusiveLocks, BeginDrill, Resolve, DrillLockedOut, LoadDump,
                LoadFails, DrillGoto, vars, exportVars, resticVars, DrillTypeOK
  <1>4. QED BY <1>1, <1>2, <1>3 DEF DrillStep

LEMMA ListingKeepsLocks ==
  ASSUME DrillTypeOK, LockInv, NEW g \in Listings, BeginListing(g) \/ EndListing(g)
  PROVE  LockInv'
  BY ReadersAssumption
     DEF LockInv, Restoring, ExclusiveLocks, BeginListing, EndListing, drillVars, resticVars

LEMMA LockInvariant == DrillSpec => []LockInv
  <1>1. DrillInit => LockInv
    BY DEF DrillInit, Init, LockInv, Restoring
  <1>2. DrillTypeOK /\ LockInv /\ [DrillNext]_allVars => LockInv'
    <2>1. ASSUME LockInv, UNCHANGED allVars PROVE LockInv'
      BY <2>1 DEF LockInv, Restoring, ExclusiveLocks, allVars, vars, exportVars, resticVars,
                  drillVars
    <2>2. QED BY <2>1, BackupKeepsLocks, DrillKeepsLocks, ListingKeepsLocks DEF DrillNext
  <1>3. QED BY <1>1, <1>2, DrillTypeCorrect, PTL DEF DrillSpec

(* No backup prunes the snapshot that a drill is restoring: restic's locks *)
(* keep the two apart, and a drill takes its lock with its answer.         *)
THEOREM NoPruneUnderRestore == DrillSpec => []RestoringSnapshotKept
  <1>1. LockInv => RestoringSnapshotKept
    BY DEF LockInv, Restoring, RestoringSnapshotKept
  <1>2. QED BY LockInvariant, <1>1, PTL

-----------------------------------------------------------------------------
(* Cover: what a dump speaks of is on the disk when the dump is taken, and *)
(* so in every snapshot that reads the disk after the dump.                *)

\* The snapshot of x has been saved, and holds the exports its dumps speak of.
Covered(x) ==
  /\ pc[x] \in {"forget", "pruning", "done", "failed"}
  /\ snap[x].dumps \in Seq(Within(snap[x].files))

SourceCover ==
  /\ entered \subseteq files
  /\ dumps \in Seq(Within(entered))
  /\ \A x \in Runs : pc[x] = "scanning" => snap[x].dumps \in Seq(Within(files))

RestoredCover ==
  \A d \in Drills :
    /\ restored[d] \in Runs => Covered(restored[d])
    /\ dpc[d] \in {"restoring", "load"} => restored[d] \in Runs
    /\ drillLog[d] = "drill_ok" => dpc[d] = "done" /\ restored[d] \in Runs /\ HasDump(d)

CoverInv == SourceCover /\ (\A x \in repo : Covered(x)) /\ RestoredCover

(* A backup is not over before its snapshot is settled: no later step of   *)
(* it or of another run touches what the snapshot holds.                   *)
LEMMA SettledStays ==
  ASSUME BackupTypeOK, Next, NEW y \in Runs, Covered(y)
  PROVE  Covered(y)' /\ snap'[y] = snap[y]
  <1>1. ASSUME NEW x \in Runs, RunStep(x) \/ Die(x)
        PROVE  /\ snap'[y] = snap[y]
               /\ pc'[y] \in {"forget", "pruning", "done", "failed"}
    <2>1. CASE Begin(x) \/ Preflight(x) \/ StartDump(x) \/ GrowDump(x) \/ FinishDump(x)
                 \/ FailDump(x) \/ LoseDump(x) \/ Rotate(x)
      BY <2>1 DEF Covered, Begin, Preflight, StartDump, GrowDump, FinishDump, FailDump, LoseDump,
                  Rotate, Goto, resticVars, BackupTypeOK
    <2>2. CASE ScanDumps(x) \/ BackupLockedOut(x) \/ SaveSnapshot(x)
      BY <2>2 DEF Covered, ScanDumps, BackupLockedOut, SaveSnapshot, Goto, resticVars,
                  BackupTypeOK
    <2>3. CASE BeginForget(x) \/ Prune(x) \/ Die(x)
      BY <2>3 DEF Covered, BeginForget, Prune, Die, Goto, resticVars, BackupTypeOK
    <2>4. QED BY <1>1, <2>1, <2>2, <2>3 DEF RunStep
  <1>2. ASSUME NEW a \in Answers, WriteFiles(a) \/ EnterPaths(a)
        PROVE  snap' = snap /\ pc' = pc
    BY <1>2 DEF WriteFiles, EnterPaths, resticVars
  <1>3. QED BY <1>1, <1>2 DEF Next, Covered

LEMMA SourceCoverKept ==
  ASSUME BackupTypeOK, SourceCover, Next
  PROVE  SourceCover'
  <1>1. files \subseteq files' /\ entered \subseteq entered' /\ entered' \subseteq files'
    BY DEF SourceCover, Next, RunStep, Begin, Preflight, StartDump, GrowDump, FinishDump,
           FailDump, LoseDump, Rotate, ScanDumps, BackupLockedOut, SaveSnapshot, BeginForget,
           Prune, Die, WriteFiles, EnterPaths, exportVars
  <1>2. dumps' \in Seq(Within(entered))
    <2>1. ASSUME NEW x \in Runs, StartDump(x) PROVE dumps' \in Seq(Within(entered))
      <3>1. [run |-> x, complete |-> FALSE, holds |-> entered] \in Within(entered)
        BY DEF BackupTypeOK, Within, Dumps
      <3>2. QED BY <2>1, <3>1, AppendProperties DEF StartDump, SourceCover
    <2>2. ASSUME NEW x \in Runs, GrowDump(x) \/ FinishDump(x)
          PROVE  dumps' \in Seq(Within(entered))
      <3>1. PICK i \in DumpsOf(x), c \in BOOLEAN : dumps' = Touched(i, c)
        BY <2>2 DEF GrowDump, FinishDump
      <3>2. i \in DOMAIN dumps BY <3>1 DEF DumpsOf
      <3>3. QED BY <3>1, <3>2, TouchedWithin DEF SourceCover
    <2>3. ASSUME NEW x \in Runs, Rotate(x) PROVE dumps' \in Seq(Within(entered))
      BY <2>3, RotatedWithin DEF SourceCover
    <2>4. ASSUME NEW x \in Runs,
                 \/ Begin(x) \/ Preflight(x) \/ FailDump(x) \/ LoseDump(x) \/ ScanDumps(x)
                 \/ BackupLockedOut(x) \/ SaveSnapshot(x) \/ BeginForget(x) \/ Prune(x) \/ Die(x)
          PROVE  dumps' = dumps
      BY <2>4 DEF Begin, Preflight, FailDump, LoseDump, ScanDumps, BackupLockedOut, SaveSnapshot,
                  BeginForget, Prune, Die
    <2>5. ASSUME NEW a \in Answers, WriteFiles(a) \/ EnterPaths(a) PROVE dumps' = dumps
      BY <2>5 DEF WriteFiles, EnterPaths
    <2>6. QED BY <2>1, <2>2, <2>3, <2>4, <2>5 DEF Next, RunStep, SourceCover
  <1>3. ASSUME NEW y \in Runs, pc'[y] = "scanning"
        PROVE  snap'[y].dumps \in Seq(Within(files))
    <2>1. ASSUME NEW x \in Runs, ScanDumps(x) PROVE snap'[y].dumps \in Seq(Within(files))
      <3>1. CASE y = x
        <4>1. snap'[y].dumps = dumps
          BY <2>1, <3>1 DEF ScanDumps, BackupTypeOK, Snapshots
        <4>2. QED BY <4>1, WithinGrows DEF SourceCover
      <3>2. CASE y # x
        BY <1>3, <2>1, <3>2 DEF ScanDumps, Goto, BackupTypeOK, SourceCover
      <3>3. QED BY <3>1, <3>2
    <2>2. ASSUME NEW x \in Runs, SaveSnapshot(x) PROVE snap'[y].dumps \in Seq(Within(files))
      BY <1>3, <2>2 DEF SaveSnapshot, Goto, BackupTypeOK, SourceCover
    <2>3. ASSUME NEW x \in Runs,
                 \/ Begin(x) \/ Preflight(x) \/ StartDump(x) \/ GrowDump(x) \/ FinishDump(x)
                 \/ FailDump(x) \/ LoseDump(x) \/ Rotate(x) \/ BackupLockedOut(x)
                 \/ BeginForget(x) \/ Prune(x) \/ Die(x)
          PROVE  snap' = snap /\ pc[y] = "scanning"
      BY <1>3, <2>3 DEF Begin, Preflight, StartDump, GrowDump, FinishDump, FailDump, LoseDump,
                  Rotate, BackupLockedOut, BeginForget, Prune, Die, Goto, resticVars, BackupTypeOK
    <2>4. ASSUME NEW a \in Answers, WriteFiles(a) \/ EnterPaths(a)
          PROVE  snap' = snap /\ pc' = pc
      BY <2>4 DEF WriteFiles, EnterPaths, resticVars
    <2>5. QED BY <1>3, <2>1, <2>2, <2>3, <2>4 DEF Next, RunStep, SourceCover
  <1>4. QED BY <1>1, <1>2, <1>3, WithinGrows DEF SourceCover

(* What comes into the repository was scanned after its dumps were taken.  *)
LEMMA RepoCoverKept ==
  ASSUME BackupTypeOK, SourceCover, \A x \in repo : Covered(x), Next
  PROVE  \A x \in repo' : Covered(x)'
  <1>1. SUFFICES ASSUME NEW y \in repo' PROVE Covered(y)'
    OBVIOUS
  <1>2. CASE y \in repo
    BY <1>2, SettledStays DEF BackupTypeOK
  <1>3. CASE y \notin repo
    <2>1. y \in Runs /\ SaveSnapshot(y)
      BY <1>3 DEF Next, RunStep, Begin, Preflight, StartDump, GrowDump, FinishDump, FailDump,
                  LoseDump, Rotate, ScanDumps, BackupLockedOut, SaveSnapshot, BeginForget,
                  Prune, Die, WriteFiles, EnterPaths, resticVars
    <2>2. /\ snap'[y].files = files
          /\ snap'[y].dumps = snap[y].dumps
          /\ pc'[y] = "forget"
      BY <2>1 DEF SaveSnapshot, Goto, BackupTypeOK, Snapshots
    <2>3. snap[y].dumps \in Seq(Within(files))
      BY <2>1 DEF SaveSnapshot, SourceCover
    <2>4. QED BY <2>2, <2>3 DEF Covered, Within, Dumps
  <1>4. QED BY <1>2, <1>3

LEMMA BackupKeepsCover ==
  ASSUME DrillTypeOK, CoverInv, BackupNext
  PROVE  CoverInv'
  <1>1. BackupTypeOK /\ Next /\ UNCHANGED drillVars
    BY DEF BackupNext, DrillTypeOK
  <1>2. SourceCover' /\ \A x \in repo' : Covered(x)'
    BY <1>1, SourceCoverKept, RepoCoverKept DEF CoverInv
  <1>3. RestoredCover'
    BY <1>1, SettledStays DEF CoverInv, RestoredCover, HasDump, drillVars
  <1>4. QED BY <1>2, <1>3 DEF CoverInv

(* A drill changes nothing that backups look at but the locks.             *)
LEMMA SameSources ==
  ASSUME CoverInv, UNCHANGED <<files, entered, pc, dumps, resticVars>>
  PROVE  /\ SourceCover' /\ (\A x \in repo' : Covered(x)')
         /\ \A x \in Runs : Covered(x) => Covered(x)'
  BY DEF CoverInv, SourceCover, Covered, resticVars

LEMMA DrillKeepsCover ==
  ASSUME DrillTypeOK, CoverInv, NEW d \in Drills, DrillStep(d) \/ DrillDies(d)
  PROVE  CoverInv'
  <1>1. UNCHANGED <<files, entered, pc, dumps, resticVars>>
    BY DEF DrillStep, DrillDies, BeginDrill, Resolve, BeginRestore, DrillLockedOut, EndRestore,
           LoadDump, LoadFails, vars, exportVars
  <1>2. CASE BeginRestore(d)
    <2>1. PICK x \in Latest : restored' = [restored EXCEPT ![d] = x]
      BY <1>2 DEF BeginRestore
    <2>2. x \in Runs /\ Covered(x)
      BY <2>1 DEF Latest, NewestSnapshots, CoverInv, DrillTypeOK, BackupTypeOK
    <2>3. drillLog[d] # "drill_ok"
      BY <1>2 DEF CoverInv, RestoredCover, BeginRestore
    <2>4. RestoredCover'
      BY <1>1, <1>2, <2>1, <2>2, <2>3, SameSources
         DEF CoverInv, RestoredCover, BeginRestore, DrillGoto, HasDump, resticVars, DrillTypeOK
    <2>5. QED BY <1>1, <2>4, SameSources DEF CoverInv
  <1>3. CASE BeginDrill(d) \/ Resolve(d) \/ DrillLockedOut(d) \/ EndRestore(d) \/ LoadFails(d)
              \/ DrillDies(d)
    <2>1. RestoredCover'
      BY <1>1, <1>3, SameSources
         DEF CoverInv, RestoredCover, BeginDrill, Resolve, DrillLockedOut, EndRestore, LoadFails,
             DrillDies, DrillGoto, HasDump, Ended, resticVars, DrillTypeOK
    <2>2. QED BY <1>1, <2>1, SameSources DEF CoverInv
  <1>4. CASE LoadDump(d)
    <2>1. RestoredCover'
      BY <1>1, <1>4, SameSources
         DEF CoverInv, RestoredCover, LoadDump, DrillGoto, HasDump, resticVars, DrillTypeOK
    <2>2. QED BY <1>1, <2>1, SameSources DEF CoverInv
  <1>5. QED BY <1>2, <1>3, <1>4 DEF DrillStep

LEMMA StillCovered ==
  ASSUME CoverInv, UNCHANGED <<files, entered, pc, dumps, resticVars, drillVars>>
  PROVE  CoverInv'
  <1>1. RestoredCover'
    BY SameSources DEF CoverInv, RestoredCover, HasDump, drillVars, resticVars
  <1>2. QED BY <1>1, SameSources DEF CoverInv

LEMMA CoverInvariant == DrillSpec => []CoverInv
  <1>1. DrillInit => CoverInv
    BY EmptySeq, NoRunAssumption
       DEF DrillInit, Init, CoverInv, SourceCover, RestoredCover, NoSnapshotYet
  <1>2. DrillTypeOK /\ CoverInv /\ [DrillNext]_allVars => CoverInv'
    <2>1. ASSUME CoverInv, NEW g \in Listings, BeginListing(g) \/ EndListing(g) PROVE CoverInv'
      BY <2>1, StillCovered DEF BeginListing, EndListing
    <2>2. ASSUME CoverInv, UNCHANGED allVars PROVE CoverInv'
      BY <2>2, StillCovered DEF allVars, vars, exportVars
    <2>3. QED BY <2>1, <2>2, BackupKeepsCover, DrillKeepsCover DEF DrillNext
  <1>3. QED BY <1>1, <1>2, DrillTypeCorrect, PTL DEF DrillSpec

(* A snapshot holds the files of every export that a dump in it knows of,  *)
(* whosever dump it is, although exports go on during the backup.          *)
THEOREM SnapshotsAreSelfContained == DrillSpec => []SnapshotsSelfContained
  <1>1. ASSUME CoverInv PROVE SnapshotsSelfContained
    <2>1. SUFFICES ASSUME NEW x \in repo, NEW i \in DOMAIN snap[x].dumps
                   PROVE  snap[x].dumps[i].holds \subseteq snap[x].files
      BY DEF SnapshotsSelfContained
    <2>2. snap[x].dumps \in Seq(Within(snap[x].files))
      BY <1>1 DEF CoverInv, Covered
    <2>3. snap[x].dumps[i] \in Within(snap[x].files)
      BY <2>2, LenProperties, ElementOfSeq
    <2>4. QED BY <2>3 DEF Within
  <1>2. QED BY CoverInvariant, <1>1, PTL

(* What an accepted drill loaded speaks only of exports it restored, even  *)
(* if the newest dump of its snapshot was cut off, or another backup's.    *)
THEOREM DrilledExportsAreThere == DrillSpec => []RestoredExportsHaveFiles
  <1>1. ASSUME CoverInv, RestoreFreshnessOk
        PROVE  RestoredDump(restored[newestDrill]).holds
                 \subseteq snap[restored[newestDrill]].files
    <2> DEFINE x == restored[newestDrill]
               s == snap[x].dumps
    <2>1. x \in Runs /\ Covered(x) /\ s # <<>>
      BY <1>1 DEF CoverInv, RestoredCover, RestoreFreshnessOk, HasDump
    <2>2. s \in Seq(Within(snap[x].files))
      BY <2>1 DEF Covered
    <2>3. Len(s) \in 1 .. Len(s)
      BY <2>1, <2>2, EmptySeq
    <2>4. s[Len(s)] \in Within(snap[x].files)
      BY <2>2, <2>3, ElementOfSeq
    <2>5. QED BY <2>4 DEF Within, RestoredDump, Last
  <1>2. CoverInv => RestoredExportsHaveFiles
    BY <1>1 DEF RestoredExportsHaveFiles
  <1>3. QED BY CoverInvariant, <1>2, PTL

-----------------------------------------------------------------------------
(* The newest dump: from its completion on, a run is the owner of the      *)
(* newest dump only as long as nobody has begun or written another one.    *)

Completed == {"rotate", "restic", "scanning", "forget", "pruning", "done"}
Scanned == {"scanning", "forget", "pruning", "done"}

NewestInv ==
  \A x \in Runs :
    /\ log[x] = "backup_done" => pc[x] = "done"
    /\ dumps # <<>> /\ Last(dumps).run = x =>
         /\ pc[x] \in Completed => Last(dumps).complete
         /\ pc[x] \in Scanned => snap[x].dumps # <<>> /\ Last(snap[x].dumps) = Last(dumps)

LEMMA AppendedIsLast ==
  ASSUME NEW S, NEW s \in Seq(S), NEW e \in S
  PROVE  Append(s, e) # <<>> /\ Last(Append(s, e)) = e
  <1>1. Len(Append(s, e)) = Len(s) + 1 /\ Len(s) \in Nat
    BY AppendProperties, LenProperties
  <1>2. Append(s, e)[Len(s) + 1] = e
    BY AppendProperties
  <1>3. QED BY <1>1, <1>2, EmptySeq DEF Last

(* What is written to is the newest.                                       *)
LEMMA TouchedIsLast ==
  ASSUME dumps \in Seq(Dumps), NEW i \in DOMAIN dumps, NEW complete \in BOOLEAN
  PROVE  /\ Touched(i, complete) # <<>>
         /\ Last(Touched(i, complete)).run = dumps[i].run
         /\ Last(Touched(i, complete)).complete = complete
  <1> DEFINE touched == [dumps[i] EXCEPT !.complete = complete]
             others == RemoveAt(dumps, i)
  <1>1. Len(dumps) \in Nat /\ DOMAIN dumps = 1 .. Len(dumps)
    BY LenProperties
  <1>2. dumps[i] \in Dumps BY <1>1, ElementOfSeq
  <1>3. touched.run = dumps[i].run /\ touched.complete = complete /\ touched \in Dumps
    BY <1>2 DEF Dumps
  <1>4. others \in Seq(Dumps)
    <2>1. \A j \in 1 .. i - 1 : dumps[j] \in Dumps BY <1>1, ElementOfSeq
    <2>2. \A j \in i + 1 .. Len(dumps) : dumps[j] \in Dumps BY <1>1, ElementOfSeq
    <2>3. SubSeq(dumps, 1, i - 1) \in Seq(Dumps) BY <1>1, <2>1, SubSeqProperties
    <2>4. SubSeq(dumps, i + 1, Len(dumps)) \in Seq(Dumps) BY <1>1, <2>2, SubSeqProperties
    <2>5. QED BY <2>3, <2>4, ConcatProperties DEF RemoveAt
  <1> HIDE DEF touched, others
  <1>5. Append(others, touched) # <<>> /\ Last(Append(others, touched)) = touched
    BY <1>3, <1>4, AppendedIsLast
  <1>6. QED BY <1>3, <1>5 DEF Touched, others, touched

(* A rotation keeps the newest: DumpKeep is at least one.                  *)
LEMMA RotationKeepsLast ==
  ASSUME dumps \in Seq(Dumps), NEW x \in Runs, Rotate(x), dumps' # <<>>
  PROVE  dumps # <<>> /\ Last(dumps') = Last(dumps)
  <1>1. Len(dumps) \in Nat /\ DumpKeep \in Nat \ {0}
    BY LenProperties, KeepAssumption
  <1>2. CASE Len(dumps) <= DumpKeep
    BY <1>2 DEF Rotate
  <1>3. CASE ~(Len(dumps) <= DumpKeep)
    <2> DEFINE m == Len(dumps) - DumpKeep + 1
    <2>1. m \in 1 .. Len(dumps) /\ Len(dumps) - m + 1 = DumpKeep
      BY <1>1, <1>3
    <2>2. \A j \in m .. Len(dumps) : dumps[j] \in Dumps
      BY <1>1, <2>1, ElementOfSeq
    <2>3. /\ Len(SubSeq(dumps, m, Len(dumps))) = DumpKeep
          /\ \A i \in 1 .. DumpKeep : SubSeq(dumps, m, Len(dumps))[i] = dumps[m + i - 1]
      BY <1>1, <2>1, <2>2, SubSeqProperties
    <2>4. dumps' = SubSeq(dumps, m, Len(dumps))
      BY <1>3 DEF Rotate
    <2>5. Last(dumps') = dumps[m + DumpKeep - 1]
      <3>1. DumpKeep \in 1 .. DumpKeep BY <1>1
      <3>2. Last(dumps') = dumps'[DumpKeep] BY <2>3, <2>4 DEF Last
      <3>3. QED BY <2>3, <2>4, <3>1, <3>2
    <2>6. m + DumpKeep - 1 = Len(dumps)
      BY <1>1
    <2>7. QED BY <1>1, <1>3, <2>5, <2>6, EmptySeq DEF Last
  <1>4. QED BY <1>2, <1>3

LEMMA NewestKept ==
  ASSUME BackupTypeOK, NewestInv, Next
  PROVE  NewestInv'
  <1>1. ASSUME NEW x \in Runs, StartDump(x) PROVE NewestInv'
    <2> DEFINE dump == [run |-> x, complete |-> FALSE, holds |-> entered]
    <2>1. dump \in Dumps /\ dump.run = x
      BY DEF BackupTypeOK, Dumps
    <2>2. Last(dumps').run = x
      BY <1>1, <2>1, AppendedIsLast DEF StartDump, BackupTypeOK
    <2>3. pc'[x] \notin Completed /\ \A y \in Runs \ {x} : pc'[y] = pc[y] /\ log'[y] = log[y]
      BY <1>1 DEF StartDump, Goto, LogLine, Completed, BackupTypeOK
    <2>4. log'[x] # "backup_done"
      BY <1>1 DEF StartDump, LogLine, BackupTypeOK
    <2>5. QED BY <2>2, <2>3, <2>4 DEF NewestInv, Completed, Scanned
  <1>2. ASSUME NEW x \in Runs, GrowDump(x) \/ FinishDump(x) PROVE NewestInv'
    <2>1. PICK i \in DumpsOf(x), c \in BOOLEAN :
            dumps' = Touched(i, c) /\ (FinishDump(x) => c = TRUE)
      BY <1>2 DEF GrowDump, FinishDump
    <2>2. i \in DOMAIN dumps /\ dumps[i].run = x
      BY <2>1 DEF DumpsOf
    <2>3. Last(dumps').run = x /\ Last(dumps').complete = c
      BY <2>1, <2>2, TouchedIsLast DEF BackupTypeOK
    <2>4. /\ pc'[x] \notin Scanned
          /\ pc'[x] \in Completed => c = TRUE
          /\ log'[x] # "backup_done"
          /\ \A y \in Runs \ {x} : pc'[y] = pc[y] /\ log'[y] = log[y]
      BY <1>2, <2>1 DEF GrowDump, FinishDump, Goto, LogLine, Completed, Scanned, NewestInv,
                  BackupTypeOK
    <2>5. QED BY <2>3, <2>4 DEF NewestInv
  <1>3. ASSUME NEW x \in Runs, Rotate(x) PROVE NewestInv'
    <2>1. dumps' # <<>> => dumps # <<>> /\ Last(dumps') = Last(dumps)
      BY <1>3, RotationKeepsLast DEF BackupTypeOK
    <2>2. /\ snap' = snap
          /\ pc[x] \in Completed /\ pc'[x] \notin Scanned /\ log'[x] # "backup_done"
          /\ \A y \in Runs \ {x} : pc'[y] = pc[y] /\ log'[y] = log[y]
      BY <1>3 DEF Rotate, Goto, LogLine, Completed, Scanned, resticVars, BackupTypeOK
    <2>3. QED BY <2>1, <2>2 DEF NewestInv
  <1>4. ASSUME NEW x \in Runs, ScanDumps(x) PROVE NewestInv'
    <2>1. /\ dumps' = dumps /\ snap'[x].dumps = dumps /\ log' = log
          /\ pc[x] \in Completed /\ pc'[x] # "done" /\ log[x] # "backup_done"
          /\ \A y \in Runs \ {x} : pc'[y] = pc[y] /\ snap'[y] = snap[y]
      BY <1>4 DEF ScanDumps, Goto, Completed, BackupTypeOK, Snapshots, NewestInv
    <2>2. QED BY <2>1 DEF NewestInv
  <1>5. ASSUME NEW x \in Runs, SaveSnapshot(x) \/ BeginForget(x) \/ Prune(x) PROVE NewestInv'
    <2>1. /\ dumps' = dumps /\ snap'[x].dumps = snap[x].dumps
          /\ pc[x] \in Scanned /\ pc[x] # "done"
          /\ log'[x] = "backup_done" => pc'[x] = "done"
          /\ \A y \in Runs \ {x} : pc'[y] = pc[y] /\ snap'[y] = snap[y] /\ log'[y] = log[y]
      BY <1>5 DEF SaveSnapshot, BeginForget, Prune, Goto, LogLine, Scanned, resticVars,
                  BackupTypeOK, Snapshots, NewestInv
    <2>2. QED BY <2>1 DEF NewestInv, Completed, Scanned
  <1>6. ASSUME NEW x \in Runs,
               \/ Begin(x) \/ Preflight(x) \/ FailDump(x) \/ LoseDump(x)
               \/ BackupLockedOut(x) \/ Die(x)
        PROVE  NewestInv'
    <2>1. /\ dumps' = dumps /\ snap' = snap
          /\ pc'[x] \notin Completed
          /\ log'[x] # "backup_done"
          /\ \A y \in Runs \ {x} : pc'[y] = pc[y] /\ log'[y] = log[y]
      BY <1>6 DEF Begin, Preflight, FailDump, LoseDump, BackupLockedOut, Die, Ended, Goto, LogLine,
                  Completed, resticVars, BackupTypeOK, NewestInv
    <2>2. QED BY <2>1 DEF NewestInv, Completed, Scanned
  <1>7. ASSUME NEW a \in Answers, WriteFiles(a) \/ EnterPaths(a) PROVE NewestInv'
    BY <1>7 DEF WriteFiles, EnterPaths, resticVars, NewestInv
  <1>8. QED BY <1>1, <1>2, <1>3, <1>4, <1>5, <1>6, <1>7 DEF Next, RunStep

LEMMA NewestInvariant == DrillSpec => []NewestInv
  <1>1. DrillInit => NewestInv
    BY DEF DrillInit, Init, NewestInv
  <1>2. DrillTypeOK /\ NewestInv /\ [DrillNext]_allVars => NewestInv'
    <2>1. ASSUME NewestInv, UNCHANGED <<pc, dumps, resticVars, log>> PROVE NewestInv'
      BY <2>1 DEF NewestInv, resticVars
    <2>2. ASSUME NewestInv, NEW d \in Drills, DrillStep(d) \/ DrillDies(d) PROVE NewestInv'
      BY <2>1, <2>2 DEF DrillStep, DrillDies, BeginDrill, Resolve, BeginRestore, DrillLockedOut,
                        EndRestore, LoadDump, LoadFails, vars
    <2>3. ASSUME NewestInv, NEW g \in Listings, BeginListing(g) \/ EndListing(g) PROVE NewestInv'
      BY <2>1, <2>3 DEF BeginListing, EndListing
    <2>4. ASSUME NewestInv, UNCHANGED allVars PROVE NewestInv'
      BY <2>1, <2>4 DEF allVars, vars
    <2>5. QED BY <2>2, <2>3, <2>4, NewestKept DEF DrillNext, BackupNext, DrillTypeOK
  <1>3. QED BY <1>1, <1>2, DrillTypeCorrect, PTL DEF DrillSpec

(* What the freshness check accepts can be restored: the newest dump in    *)
(* the run's own snapshot is its own, and complete.                        *)
THEOREM FreshIsRestorable == DrillSpec => []FreshMeansRestorable
  <1>1. NewestInv => FreshMeansRestorable
    BY DEF NewestInv, FreshMeansRestorable, FreshnessOk, RestoredDump, Completed, Scanned
  <1>2. QED BY NewestInvariant, <1>1, PTL

-----------------------------------------------------------------------------
(* Blame: as long as nothing but other runs ends a run, somebody has got   *)
(* past the rotation of the dumps, and only somebody who has got further   *)
(* can end that one.                                                       *)

Ahead == {"restic", "scanning", "forget", "pruning", "done"}
Beaten(x) == pc[x] = "failed" \/ (pc[x] = "dumping" /\ DumpsOf(x) = {})

BlameInv ==
  mishaps = {} /\ (\E x \in Runs : Beaten(x)) => \E y \in Runs : pc[y] \in Ahead

(* Writing to a dump takes nobody's dump away.                             *)
LEMMA TouchedKeepsAll ==
  ASSUME dumps \in Seq(Dumps), NEW i \in DOMAIN dumps, NEW complete \in BOOLEAN,
         dumps' = Touched(i, complete), NEW x \in Runs, DumpsOf(x) # {}
  PROVE  DumpsOf(x)' # {}
  <1> DEFINE touched == [dumps[i] EXCEPT !.complete = complete]
             before == SubSeq(dumps, 1, i - 1)
             after == SubSeq(dumps, i + 1, Len(dumps))
             others == before \o after
  <1>1. Len(dumps) \in Nat /\ DOMAIN dumps = 1 .. Len(dumps) /\ i \in 1 .. Len(dumps)
    BY LenProperties
  <1>2. \A j \in 1 .. Len(dumps) : dumps[j] \in Dumps
    BY ElementOfSeq
  <1>3. /\ before \in Seq(Dumps) /\ Len(before) = i - 1
        /\ \A j \in 1 .. i - 1 : before[j] = dumps[j]
    <2>1. \A j \in 1 .. i - 1 : dumps[j] \in Dumps BY <1>1, <1>2
    <2>2. QED BY <1>1, <2>1, SubSeqProperties
  <1>4. /\ after \in Seq(Dumps) /\ Len(after) = Len(dumps) - i
        /\ \A j \in 1 .. Len(dumps) - i : after[j] = dumps[i + j]
    <2>1. \A j \in i + 1 .. Len(dumps) : dumps[j] \in Dumps BY <1>1, <1>2
    <2>2. QED BY <1>1, <2>1, SubSeqProperties
  <1>5. touched \in Dumps /\ touched.run = dumps[i].run
    BY <1>1, <1>2 DEF Dumps
  <1>6. dumps' = Append(others, touched)
    BY DEF Touched, RemoveAt
  <1> HIDE DEF touched, before, after
  <1>7. /\ others \in Seq(Dumps) /\ Len(others) = Len(dumps) - 1
        /\ \A j \in 1 .. i - 1 : others[j] = dumps[j]
        /\ \A j \in i + 1 .. Len(dumps) : others[j - 1] = dumps[j]
    <2>1. /\ others \in Seq(Dumps) /\ Len(others) = Len(dumps) - 1
          /\ \A j \in 1 .. Len(dumps) - 1 :
               others[j] = IF j <= i - 1 THEN before[j] ELSE after[j - (i - 1)]
      <3>1. /\ others \in Seq(Dumps) /\ Len(others) = Len(before) + Len(after)
            /\ \A j \in 1 .. Len(before) + Len(after) :
                 others[j] = IF j <= Len(before) THEN before[j] ELSE after[j - Len(before)]
        BY <1>3, <1>4, ConcatProperties
      <3>2. Len(before) + Len(after) = Len(dumps) - 1
        BY <1>1, <1>3, <1>4
      <3>3. QED BY <1>3, <3>1, <3>2
    <2>2. ASSUME NEW j \in i + 1 .. Len(dumps) PROVE others[j - 1] = dumps[j]
      <3>1. j - 1 \in 1 .. Len(dumps) - 1 /\ ~(j - 1 <= i - 1) BY <1>1
      <3>2. j - i \in 1 .. Len(dumps) - i /\ i + (j - i) = j /\ (j - 1) - (i - 1) = j - i
        BY <1>1
      <3>3. QED BY <1>4, <2>1, <3>1, <3>2
    <2>3. ASSUME NEW j \in 1 .. i - 1 PROVE others[j] = dumps[j]
      <3>1. j \in 1 .. Len(dumps) - 1 /\ j <= i - 1 BY <1>1
      <3>2. QED BY <1>3, <2>1, <3>1
    <2>4. QED BY <2>1, <2>2, <2>3
  <1> HIDE DEF others
  <1>8. /\ Append(others, touched) \in Seq(Dumps)
        /\ Len(Append(others, touched)) = Len(dumps)
        /\ \A j \in 1 .. Len(dumps) - 1 : Append(others, touched)[j] = others[j]
        /\ Append(others, touched)[Len(dumps)] = touched
    <2>1. /\ Append(others, touched) \in Seq(Dumps)
          /\ Len(Append(others, touched)) = Len(others) + 1
          /\ \A j \in 1 .. Len(others) : Append(others, touched)[j] = others[j]
          /\ Append(others, touched)[Len(others) + 1] = touched
      BY <1>5, <1>7, AppendProperties
    <2>2. Len(others) + 1 = Len(dumps)
      BY <1>1, <1>7
    <2>3. QED BY <1>7, <2>1, <2>2
  <1>9. DOMAIN dumps' = 1 .. Len(dumps)
    BY <1>6, <1>8, LenProperties
  <1>10. PICK j \in 1 .. Len(dumps) : dumps[j].run = x
    BY <1>1 DEF DumpsOf
  <1>11. \E k \in 1 .. Len(dumps) : dumps'[k].run = x
    <2>1. CASE j = i
      BY <1>1, <1>5, <1>6, <1>8, <1>10, <2>1
    <2>2. CASE j \in 1 .. i - 1
      <3>1. j \in 1 .. Len(dumps) - 1 BY <1>1, <2>2
      <3>2. dumps'[j] = dumps[j] BY <1>6, <1>7, <1>8, <2>2, <3>1
      <3>3. QED BY <1>10, <3>2
    <2>3. CASE j \in i + 1 .. Len(dumps)
      <3>1. j - 1 \in 1 .. Len(dumps) - 1 /\ j - 1 \in 1 .. Len(dumps) BY <1>1, <2>3
      <3>2. dumps'[j - 1] = dumps[j] BY <1>6, <1>7, <1>8, <2>3, <3>1
      <3>3. QED BY <1>10, <3>1, <3>2
    <2>4. QED BY <1>1, <1>10, <2>1, <2>2, <2>3
  <1>12. QED BY <1>9, <1>11 DEF DumpsOf

LEMMA BlameKept ==
  ASSUME BackupTypeOK, BlameInv, Next
  PROVE  BlameInv'
  <1> SUFFICES ASSUME mishaps' = {}, NEW b \in Runs, Beaten(b)'
               PROVE  \E y \in Runs : pc'[y] \in Ahead
    BY DEF BlameInv
  <1>1. ASSUME NEW x \in Runs, Begin(x) \/ Preflight(x) PROVE \E y \in Runs : pc'[y] \in Ahead
    <2>1. mishaps = {} /\ Beaten(b)
      BY <1>1 DEF Begin, Preflight, Goto, Beaten, DumpsOf, BackupTypeOK
    <2>2. PICK y \in Runs : pc[y] \in Ahead BY <2>1 DEF BlameInv
    <2>3. pc'[y] = pc[y]
      BY <1>1, <2>2 DEF Begin, Preflight, Goto, Ahead, BackupTypeOK
    <2>4. QED BY <2>2, <2>3
  <1>2. ASSUME NEW x \in Runs, StartDump(x) PROVE \E y \in Runs : pc'[y] \in Ahead
    <2> DEFINE dump == [run |-> x, complete |-> FALSE, holds |-> entered]
    <2>1. dump \in Dumps /\ dump.run = x
      BY DEF BackupTypeOK, Dumps
    <2>2. /\ dumps' = Append(dumps, dump)
          /\ Len(dumps) \in Nat /\ DOMAIN dumps = 1 .. Len(dumps)
          /\ DOMAIN dumps' = 1 .. Len(dumps) + 1
          /\ dumps'[Len(dumps) + 1] = dump
          /\ \A j \in 1 .. Len(dumps) : dumps'[j] = dumps[j]
      BY <1>2, <2>1, AppendProperties, LenProperties DEF StartDump, BackupTypeOK
    <2>3. DumpsOf(x)' # {} /\ \A z \in Runs : DumpsOf(z) \subseteq DumpsOf(z)'
      BY <2>1, <2>2 DEF DumpsOf
    <2>4. mishaps = {} /\ Beaten(b)
      BY <1>2, <2>3 DEF StartDump, Goto, Beaten, BackupTypeOK
    <2>5. PICK y \in Runs : pc[y] \in Ahead BY <2>4 DEF BlameInv
    <2>6. pc'[y] = pc[y]
      BY <1>2, <2>5 DEF StartDump, Goto, Ahead, BackupTypeOK
    <2>7. QED BY <2>5, <2>6
  <1>3. ASSUME NEW x \in Runs, GrowDump(x) \/ FinishDump(x)
        PROVE  \E y \in Runs : pc'[y] \in Ahead
    <2>1. PICK j \in DumpsOf(x), c \in BOOLEAN : dumps' = Touched(j, c)
      BY <1>3 DEF GrowDump, FinishDump
    <2>2. j \in DOMAIN dumps BY <2>1 DEF DumpsOf
    <2>3. \A z \in Runs : DumpsOf(z) # {} => DumpsOf(z)' # {}
      BY <2>1, <2>2, TouchedKeepsAll DEF BackupTypeOK
    <2>4. mishaps = {} /\ Beaten(b)
      BY <1>3, <2>3 DEF GrowDump, FinishDump, Goto, Beaten, BackupTypeOK
    <2>5. PICK y \in Runs : pc[y] \in Ahead BY <2>4 DEF BlameInv
    <2>6. pc'[y] = pc[y]
      BY <1>3, <2>5 DEF GrowDump, FinishDump, Goto, Ahead, BackupTypeOK
    <2>7. QED BY <2>5, <2>6
  <1>4. ASSUME NEW x \in Runs, LoseDump(x) PROVE \E y \in Runs : pc'[y] \in Ahead
    <2>1. mishaps = {} /\ Beaten(x)
      BY <1>4 DEF LoseDump, Beaten
    <2>2. PICK y \in Runs : pc[y] \in Ahead BY <2>1 DEF BlameInv
    <2>3. pc'[y] = pc[y]
      BY <1>4, <2>2 DEF LoseDump, Goto, Ahead, BackupTypeOK
    <2>4. QED BY <2>2, <2>3
  <1>5. ASSUME NEW x \in Runs, Rotate(x) \/ ScanDumps(x) \/ SaveSnapshot(x) \/ Prune(x)
        PROVE  \E y \in Runs : pc'[y] \in Ahead
    BY <1>5 DEF Rotate, ScanDumps, SaveSnapshot, Prune, Goto, Ahead, BackupTypeOK
  <1>6. ASSUME NEW x \in Runs, BackupLockedOut(x) PROVE \E y \in Runs : pc'[y] \in Ahead
    BY <1>6 DEF BackupLockedOut, ExclusiveLocks, Goto, Ahead, BackupTypeOK
  <1>7. ASSUME NEW x \in Runs, BeginForget(x) PROVE \E y \in Runs : pc'[y] \in Ahead
    <2>1. readers = {} BY <1>7 DEF BeginForget
    <2>2. CASE SharedLocks \cup ExclusiveLocks = {}
      BY <1>7, <2>2 DEF BeginForget, Goto, Ahead, BackupTypeOK
    <2>3. CASE SharedLocks \cup ExclusiveLocks # {}
      BY <1>7, <2>1, <2>3 DEF BeginForget, SharedLocks, ExclusiveLocks, Goto, Ahead, BackupTypeOK
    <2>4. QED BY <2>2, <2>3
  <1>8. ASSUME NEW x \in Runs, FailDump(x) \/ Die(x) PROVE FALSE
    BY <1>8 DEF FailDump, Die
  <1>9. ASSUME NEW a \in Answers, WriteFiles(a) \/ EnterPaths(a)
        PROVE  \E y \in Runs : pc'[y] \in Ahead
    BY <1>9 DEF WriteFiles, EnterPaths, BlameInv, Beaten, DumpsOf
  <1>10. QED BY <1>1, <1>2, <1>3, <1>4, <1>5, <1>6, <1>7, <1>8, <1>9 DEF Next, RunStep

LEMMA BlameInvariant == DrillSpec => []BlameInv
  <1>1. DrillInit => BlameInv
    BY DEF DrillInit, Init, BlameInv, Beaten
  <1>2. DrillTypeOK /\ BlameInv /\ [DrillNext]_allVars => BlameInv'
    <2>1. ASSUME BlameInv, UNCHANGED <<pc, dumps, mishaps>> PROVE BlameInv'
      BY <2>1 DEF BlameInv, Beaten, DumpsOf
    <2>2. ASSUME BlameInv, NEW d \in Drills, DrillStep(d) \/ DrillDies(d) PROVE BlameInv'
      BY <2>1, <2>2 DEF DrillStep, DrillDies, BeginDrill, Resolve, BeginRestore, DrillLockedOut,
                        EndRestore, LoadDump, LoadFails, vars
    <2>3. ASSUME BlameInv, NEW g \in Listings, BeginListing(g) \/ EndListing(g) PROVE BlameInv'
      BY <2>1, <2>3 DEF BeginListing, EndListing
    <2>4. ASSUME BlameInv, UNCHANGED allVars PROVE BlameInv'
      BY <2>1, <2>4 DEF allVars, vars
    <2>5. QED BY <2>2, <2>3, <2>4, BlameKept DEF DrillNext, BackupNext, DrillTypeOK
  <1>3. QED BY <1>1, <1>2, DrillTypeCorrect, PTL DEF DrillSpec

(* Any number of overlapping backups: if nothing but other backups ended   *)
(* any of them, one has finished.                                          *)
THEOREM OneBackupFinishes == DrillSpec => []SomeoneFinishes
  <1>1. ASSUME BlameInv, \A x \in Runs : pc[x] \in Ended, NEW z \in Runs, pc[z] # "idle",
               mishaps = {}
        PROVE  \E x \in Runs : pc[x] = "done"
    <2>1. CASE pc[z] = "done" BY <2>1
    <2>2. CASE pc[z] # "done"
      <3>1. Beaten(z) BY <1>1, <2>2 DEF Beaten, Ended
      <3>2. PICK y \in Runs : pc[y] \in Ahead BY <1>1, <3>1 DEF BlameInv
      <3>3. pc[y] = "done" BY <1>1, <3>2 DEF Ahead, Ended
      <3>4. QED BY <3>3
    <2>3. QED BY <2>1, <2>2
  <1>2. BlameInv => SomeoneFinishes
    BY <1>1 DEF SomeoneFinishes
  <1>3. QED BY BlameInvariant, <1>2, PTL
-----------------------------------------------------------------------------
(* Order: the times at which backups began put the snapshots in an order,  *)
(* in which a prune keeps the last ones.                                   *)

\* What p places beyond q, and the last n in the order of p.
Above(S, p, q) == {y \in S : q < p[y]}
LastOf(S, p, n) == {y \in S : Cardinality(Above(S, p, p[y])) < n}

(* Of the members of S beyond q there are at least n. Then n of them have  *)
(* fewer than n members beyond them: counting what is beyond it gives each *)
(* member of S a number of its own below |S|, so every number below n is   *)
(* some member's, and a member that is not beyond q has a greater one.     *)
LEMMA LastOnes ==
  ASSUME NEW S, IsFiniteSet(S), NEW p \in [S -> Nat], \A x, y \in S : p[x] = p[y] => x = y,
         NEW n \in Nat, NEW q \in Nat, Cardinality(Above(S, p, q)) >= n
  PROVE  Cardinality(Above(S, p, q) \cap LastOf(S, p, n)) >= n
  <1> DEFINE Beyond(x) == {y \in S : p[x] < p[y]}
             Far == {y \in S : q < p[y]}
             Top == {y \in S : Cardinality(Beyond(y)) < n}
             rank == [x \in S |-> Cardinality(Beyond(x))]
             size == Cardinality(S)
  <1>0. Far = Above(S, p, q) /\ Top = LastOf(S, p, n)
    BY DEF Above, LastOf
  <1>1. size \in Nat /\ Cardinality(Far) \in Nat /\ n <= size /\ n <= Cardinality(Far)
    <2>0. Cardinality(Far) >= n BY <1>0
    <2>1. Far \in SUBSET S OBVIOUS
    <2>2. IsFiniteSet(Far) /\ Cardinality(Far) <= size BY <2>1, FS_Subset
    <2>3. QED BY <2>0, <2>2, FS_CardinalityType
  <1>2. ASSUME NEW x \in S, NEW T \in SUBSET S, Beyond(x) \subseteq T, Beyond(x) # T
        PROVE  IsFiniteSet(T) /\ Cardinality(Beyond(x)) \in Nat
               /\ Cardinality(T) \in Nat /\ Cardinality(Beyond(x)) < Cardinality(T)
    <2>1. IsFiniteSet(T) BY FS_Subset
    <2>2. Beyond(x) \in SUBSET T BY <1>2
    <2> HIDE DEF Beyond
    <2>3. IsFiniteSet(Beyond(x)) /\ Cardinality(Beyond(x)) <= Cardinality(T)
          /\ Cardinality(Beyond(x)) # Cardinality(T)
      BY <1>2, <2>1, <2>2, FS_Subset
    <2>4. QED BY <2>1, <2>3, FS_CardinalityType
  <1>3. \A x \in S : rank[x] \in 0 .. size - 1
    <2> TAKE x \in S
    <2>1. Beyond(x) \subseteq S /\ x \notin Beyond(x)
      OBVIOUS
    <2>2. Beyond(x) # S BY <2>1
    <2>3. Cardinality(Beyond(x)) \in Nat /\ Cardinality(Beyond(x)) < size
      BY <1>2, <2>1, <2>2
    <2>4. QED BY <1>1, <2>3
  <1>4. \A x, y \in S : p[x] < p[y] => rank[y] < rank[x]
    <2> SUFFICES ASSUME NEW x \in S, NEW y \in S, p[x] < p[y] PROVE rank[y] < rank[x]
      OBVIOUS
    <2>1. Beyond(y) \subseteq Beyond(x) /\ y \in Beyond(x) /\ y \notin Beyond(y)
      OBVIOUS
    <2>2. Beyond(x) \in SUBSET S /\ Beyond(y) # Beyond(x) BY <2>1
    <2>3. QED BY <1>2, <2>1, <2>2
  <1>5. \A k \in 0 .. size - 1 : \E x \in S : rank[x] = k
    <2>1. rank \in [S -> 0 .. size - 1] BY <1>3
    <2>2. \A x, y \in S : rank[x] = rank[y] => x = y
      <3> SUFFICES ASSUME NEW x \in S, NEW y \in S, x # y PROVE rank[x] # rank[y]
        OBVIOUS
      <3>1. p[x] < p[y] \/ p[y] < p[x] OBVIOUS
      <3>2. rank[x] \in Nat /\ rank[y] \in Nat BY <1>1, <1>3
      <3> HIDE DEF rank
      <3>3. QED BY <1>4, <3>1, <3>2
    <2> HIDE DEF rank
    <2>3. rank \in Injection(S, 0 .. size - 1)
      BY <2>1, <2>2 DEF Injection, IsInjective
    <2>4. IsFiniteSet(0 .. size - 1) /\ Cardinality(0 .. size - 1) = size
      <3> HIDE DEF size
      <3>1. 0 \in Int /\ size - 1 \in Int /\ (0 > size - 1 <=> size = 0) /\ size - 1 - 0 + 1 = size
        BY <1>1
      <3>2. QED BY <3>1, FS_Interval
    <2>5. rank \in Surjection(S, 0 .. size - 1)
      BY <2>3, <2>4, FS_Injection
    <2>6. QED BY <2>5 DEF Surjection
  <1>6. Top \subseteq Far
    <2> SUFFICES ASSUME NEW y \in Top, y \notin Far PROVE FALSE
      OBVIOUS
    <2>1. Far \in SUBSET Beyond(y) OBVIOUS
    <2>2. IsFiniteSet(Beyond(y)) BY FS_Subset
    <2>3. Cardinality(Far) <= Cardinality(Beyond(y)) BY <2>1, <2>2, FS_Subset
    <2>4. rank[y] \in Nat /\ rank[y] = Cardinality(Beyond(y)) BY <1>1, <1>3
    <2>5. QED BY <1>1, <2>3, <2>4
  <1>7. Cardinality(Top) >= n
    <2> DEFINE places == [x \in Top |-> rank[x]]
    <2>1. places \in Surjection(Top, 0 .. n - 1)
      <3>1. \A x \in Top : rank[x] \in 0 .. n - 1 BY <1>1, <1>3
      <3>2. \A k \in 0 .. n - 1 : \E x \in Top : rank[x] = k
        <4> TAKE k \in 0 .. n - 1
        <4>0. k \in 0 .. size - 1 BY <1>1
        <4>1. PICK x \in S : rank[x] = k
          <5> HIDE DEF rank
          <5>1. QED BY <4>0, <1>5
        <4>2. Cardinality(Beyond(x)) = k BY <4>1
        <4>3. x \in Top BY <4>2
        <4>4. QED BY <4>1, <4>3
      <3> HIDE DEF Top, rank
      <3>3. QED BY <3>1, <3>2 DEF Surjection
    <2>2. IsFiniteSet(Top) /\ Top \subseteq S BY FS_Subset
    <2>3. Cardinality(0 .. n - 1) = n BY FS_Interval
    <2>4. Cardinality(0 .. n - 1) <= Cardinality(Top)
      <3> HIDE DEF Top, places
      <3>1. QED BY <2>1, <2>2, FS_Surjection
    <2>5. QED BY <2>2, <2>3, <2>4
  <1>8. Far \cap Top = Top
    BY <1>6
  <1>9. QED BY <1>0, <1>7, <1>8
\* The backup of x has begun to read the disk.
InOrder(x) == \E i \in DOMAIN began : began[i] = x

Begun == {"scanning", "forget", "pruning", "done", "failed"}

OrderInv ==
  /\ IsFiniteSet(repo)
  /\ \A i, j \in DOMAIN began : began[i] = began[j] => i = j
  /\ \A x \in Runs : InOrder(x) => pc[x] \in Begun
  /\ \A x \in Runs : x \in repo \/ pc[x] = "scanning" => InOrder(x)
  /\ \A d \in Drills : resolved[d] \in Runs => InOrder(resolved[d])

(* A prune takes away only what has keep-last snapshots after it, and of   *)
(* those it leaves keep-last.                                              *)
LEMMA PruneLeavesNewer ==
  ASSUME BackupTypeOK, OrderInv, NEW x \in Runs, Prune(x), NEW z \in Runs, InOrder(z),
         z \in repo \ repo' \/ Cardinality(NewerThan(z)) >= KeepLast
  PROVE  Cardinality(NewerThan(z)') >= KeepLast
  <1> DEFINE p == [y \in repo |-> CHOOSE i \in DOMAIN began : began[i] = y]
             q == CHOOSE i \in DOMAIN began : began[i] = z
             Kept == Above(repo, p, q) \cap LastOf(repo, p, KeepLast)
  <1>0. /\ DOMAIN began \subseteq Nat /\ IsFiniteSet(repo) /\ KeepLast \in Nat
        /\ \A i, j \in DOMAIN began : began[i] = began[j] => i = j
    BY LenProperties, KeepAssumption DEF BackupTypeOK, OrderInv
  <1>1. \A y \in repo : p[y] \in DOMAIN began /\ began[p[y]] = y
    BY DEF OrderInv, InOrder, BackupTypeOK
  <1>2. q \in DOMAIN began /\ began[q] = z
    BY DEF InOrder
  <1>3. p \in [repo -> Nat] /\ q \in Nat /\ \A y, w \in repo : p[y] = p[w] => y = w
    <2>1. p = [y \in repo |-> p[y]] OBVIOUS
    <2> HIDE DEF p, q
    <2>2. QED BY <1>0, <1>1, <1>2, <2>1
  <1> HIDE DEF p, q
  <1>4. \A y \in repo : NewerThan(y) = {w \in repo : p[y] < p[w]}
    BY <1>0, <1>1 DEF NewerThan
  <1>5. NewerThan(z) = {w \in repo : q < p[w]}
    BY <1>0, <1>1, <1>2 DEF NewerThan
  <1>6. Cardinality(NewerThan(z)) >= KeepLast
    <2>1. SUFFICES ASSUME z \in repo, z \notin repo' PROVE Cardinality(NewerThan(z)) >= KeepLast
      OBVIOUS
    <2>2. ~(Cardinality(NewerThan(z)) < KeepLast)
      BY <2>1 DEF Prune, NewestSnapshots
    <2>3. NewerThan(z) \in SUBSET repo BY DEF NewerThan
    <2>4. Cardinality(NewerThan(z)) \in Nat
      BY <1>0, <2>3, FS_Subset, FS_CardinalityType
    <2>5. QED BY <1>0, <2>2, <2>4
  <1>7. Cardinality(Kept) >= KeepLast
    <2>1. Cardinality(Above(repo, p, q)) >= KeepLast BY <1>5, <1>6 DEF Above
    <2>2. IsFiniteSet(repo) /\ KeepLast \in Nat BY <1>0
    <2>3. QED BY <2>1, <2>2, <1>3, LastOnes
  <1>8. Kept \subseteq NewerThan(z)'
    <2>1. Kept \subseteq repo'
      BY <1>4 DEF Prune, NewestSnapshots, Above, LastOf
    <2>2. began' = began BY DEF Prune
    <2>3. QED BY <1>1, <1>2, <2>1, <2>2 DEF NewerThan, Above
  <1>9. NewerThan(z)' \subseteq repo
    BY DEF NewerThan, Prune
  <1>10. IsFiniteSet(NewerThan(z)') /\ Cardinality(Kept) <= Cardinality(NewerThan(z)')
    <2> HIDE DEF Kept
    <2>1. IsFiniteSet(NewerThan(z)') BY <1>0, <1>9, FS_Subset
    <2>2. QED BY <1>8, <2>1, FS_Subset
  <1>11. IsFiniteSet(Kept)
    BY <1>0, FS_Subset DEF Above
  <1>12. Cardinality(Kept) \in Nat /\ Cardinality(NewerThan(z)') \in Nat
    BY <1>10, <1>11, FS_CardinalityType
  <1>13. QED BY <1>0, <1>7, <1>10, <1>12

(* While nothing is pruned, there is never less after a snapshot.          *)
LEMMA NewerGrows ==
  ASSUME IsFiniteSet(repo'), repo \subseteq repo', DOMAIN began \subseteq DOMAIN began',
         \A i \in DOMAIN began : began'[i] = began[i],
         NEW z, Cardinality(NewerThan(z)) >= KeepLast
  PROVE  Cardinality(NewerThan(z)') >= KeepLast
  <1>1. NewerThan(z) \subseteq NewerThan(z)' /\ NewerThan(z)' \subseteq repo'
    BY DEF NewerThan
  <1>2. IsFiniteSet(NewerThan(z)') /\ IsFiniteSet(NewerThan(z))
        /\ Cardinality(NewerThan(z)) <= Cardinality(NewerThan(z)')
    BY <1>1, FS_Subset
  <1>3. Cardinality(NewerThan(z)') \in Nat /\ Cardinality(NewerThan(z)) \in Nat
    BY <1>2, FS_CardinalityType
  <1>4. QED BY <1>2, <1>3, KeepAssumption

LEMMA BackupKeepsOrder ==
  ASSUME DrillTypeOK, OrderInv, DrilledSnapshotKept, BackupNext
  PROVE  OrderInv' /\ DrilledSnapshotKept'
  <1>0. BackupTypeOK /\ resolved' = resolved
    BY DEF DrillTypeOK, BackupNext, drillVars
  <1>1. ASSUME repo' = repo, began' = began,
               \A x \in Runs : pc[x] \in Begun => pc'[x] \in Begun,
               \A x \in Runs : pc'[x] = "scanning" => pc[x] = "scanning"
        PROVE  OrderInv' /\ DrilledSnapshotKept'
    <2>1. \A z : NewerThan(z)' = NewerThan(z) /\ (InOrder(z)' <=> InOrder(z))
      BY <1>1 DEF NewerThan, InOrder
    <2>2. OrderInv'
      BY <1>0, <1>1, <2>1 DEF OrderInv
    <2>3. QED BY <1>0, <1>1, <2>1, <2>2 DEF DrilledSnapshotKept
  <1>2. ASSUME NEW x \in Runs,
               \/ Begin(x) \/ Preflight(x) \/ StartDump(x) \/ GrowDump(x) \/ FinishDump(x)
               \/ FailDump(x) \/ LoseDump(x) \/ Rotate(x)
        PROVE  OrderInv' /\ DrilledSnapshotKept'
    BY <1>0, <1>1, <1>2 DEF Begin, Preflight, StartDump, GrowDump, FinishDump, FailDump, LoseDump,
      Rotate, Goto, resticVars, Begun, BackupTypeOK
  <1>3. ASSUME NEW x \in Runs, BackupLockedOut(x) \/ BeginForget(x) \/ Die(x)
        PROVE  OrderInv' /\ DrilledSnapshotKept'
    BY <1>0, <1>1, <1>3 DEF BackupLockedOut, BeginForget, Die, Goto, resticVars, Begun, BackupTypeOK
  <1>4. ASSUME NEW a \in Answers, WriteFiles(a) \/ EnterPaths(a)
        PROVE  OrderInv' /\ DrilledSnapshotKept'
    BY <1>1, <1>4 DEF WriteFiles, EnterPaths, resticVars
  <1>5. ASSUME NEW x \in Runs, ScanDumps(x)
        PROVE  OrderInv' /\ DrilledSnapshotKept'
    <2>1. /\ Len(began) \in Nat /\ DOMAIN began = 1 .. Len(began)
          /\ DOMAIN began' = 1 .. Len(began) + 1 /\ began'[Len(began) + 1] = x
          /\ \A i \in DOMAIN began : began'[i] = began[i]
      BY <1>0, <1>5, AppendProperties, LenProperties DEF ScanDumps, BackupTypeOK
    <2>2. repo' = repo /\ pc[x] = "restic" /\ pc'[x] = "scanning"
          /\ \A y \in Runs \ {x} : pc'[y] = pc[y]
      BY <1>0, <1>5 DEF ScanDumps, Goto, BackupTypeOK
    <2>3. ~InOrder(x) BY <2>2 DEF OrderInv, Begun
    <2>4. \A y : InOrder(y)' <=> InOrder(y) \/ y = x
      BY <2>1 DEF InOrder
    <2>5. \A i, j \in DOMAIN began' : began'[i] = began'[j] => i = j
      <3>1. \A i \in DOMAIN began : began'[i] # x
        BY <2>1, <2>3 DEF InOrder
      <3>2. \A i \in DOMAIN began' : i \in DOMAIN began \/ i = Len(began) + 1
        BY <2>1
      <3>3. QED BY <2>1, <3>1, <3>2 DEF OrderInv
    <2>6. OrderInv'
      BY <1>0, <2>2, <2>4, <2>5 DEF OrderInv, Begun
    <2>7. DOMAIN began \subseteq DOMAIN began'
      BY <2>1
    <2>8. QED BY <1>0, <2>1, <2>2, <2>6, <2>7, NewerGrows DEF DrilledSnapshotKept, OrderInv
  <1>6. ASSUME NEW x \in Runs, SaveSnapshot(x)
        PROVE  OrderInv' /\ DrilledSnapshotKept'
    <2>1. /\ repo' = repo \cup {x} /\ began' = began /\ pc[x] = "scanning" /\ pc'[x] = "forget"
          /\ \A y \in Runs \ {x} : pc'[y] = pc[y]
      BY <1>0, <1>6 DEF SaveSnapshot, Goto, BackupTypeOK
    <2>2. \A y : InOrder(y)' <=> InOrder(y)
      BY <2>1 DEF InOrder
    <2>3. IsFiniteSet(repo')
      BY <2>1, FS_AddElement DEF OrderInv
    <2>4. OrderInv'
      BY <1>0, <2>1, <2>2, <2>3 DEF OrderInv, Begun
    <2>5. QED BY <1>0, <2>1, <2>3, <2>4, NewerGrows DEF DrilledSnapshotKept
  <1>7. ASSUME NEW x \in Runs, Prune(x)
        PROVE  OrderInv' /\ DrilledSnapshotKept'
    <2>1. /\ repo' \subseteq repo /\ began' = began /\ pc[x] = "pruning" /\ pc'[x] = "done"
          /\ \A y \in Runs \ {x} : pc'[y] = pc[y]
      BY <1>0, <1>7 DEF Prune, Goto, BackupTypeOK
    <2>2. \A y : InOrder(y)' <=> InOrder(y)
      BY <2>1 DEF InOrder
    <2>3. IsFiniteSet(repo')
      BY <2>1, FS_Subset DEF OrderInv
    <2>4. OrderInv'
      BY <1>0, <2>1, <2>2, <2>3 DEF OrderInv, Begun
    <2>5. ASSUME NEW d \in Drills, resolved[d] \in Runs, resolved[d] \notin repo'
          PROVE  Cardinality(NewerThan(resolved[d])') >= KeepLast
      <3>1. PICK z \in Runs : z = resolved[d] BY <2>5
      <3>2. InOrder(z) BY <3>1 DEF OrderInv
      <3>3. z \in repo \ repo' \/ Cardinality(NewerThan(z)) >= KeepLast
        BY <2>5, <3>1 DEF DrilledSnapshotKept
      <3>4. Cardinality(NewerThan(z)') >= KeepLast
        BY <1>0, <1>7, <3>2, <3>3, PruneLeavesNewer
      <3>5. QED BY <1>0, <3>1, <3>4 DEF NewerThan
    <2>6. QED BY <1>0, <2>4, <2>5 DEF DrilledSnapshotKept, NewerThan
  <1>8. QED BY <1>2, <1>3, <1>4, <1>5, <1>6, <1>7 DEF BackupNext, Next, RunStep

LEMMA OrderInvariant == DrillSpec => [](OrderInv /\ DrilledSnapshotKept)
  <1>1. DrillInit => OrderInv /\ DrilledSnapshotKept
    <2>1. SUFFICES ASSUME DrillInit PROVE OrderInv /\ DrilledSnapshotKept
      OBVIOUS
    <2>2. \A x : ~InOrder(x) BY <2>1 DEF DrillInit, Init, InOrder
    <2>3. \A d \in Drills : resolved[d] \notin Runs
      BY <2>1, NoRunAssumption DEF DrillInit, NoSnapshotYet
    <2>4. QED BY <2>1, <2>2, <2>3, FS_EmptySet DEF DrillInit, Init, OrderInv, DrilledSnapshotKept
  <1>2. ASSUME DrillTypeOK, OrderInv, DrilledSnapshotKept, [DrillNext]_allVars
        PROVE  OrderInv' /\ DrilledSnapshotKept'
    <2>1. ASSUME UNCHANGED <<pc, began, repo>>,
                 \A d \in Drills : resolved'[d] = resolved[d] \/ resolved'[d] \in repo
          PROVE  OrderInv' /\ DrilledSnapshotKept'
      <3>1. \A z : NewerThan(z)' = NewerThan(z) /\ (InOrder(z)' <=> InOrder(z))
        BY <2>1 DEF NewerThan, InOrder
      <3>2. repo \subseteq Runs BY <1>2 DEF DrillTypeOK, BackupTypeOK
      <3>3. OrderInv' BY <1>2, <2>1, <3>1, <3>2 DEF OrderInv
      <3>4. QED BY <1>2, <2>1, <3>1, <3>3 DEF DrilledSnapshotKept
    <2>2. ASSUME NEW d \in Drills, Resolve(d) PROVE OrderInv' /\ DrilledSnapshotKept'
      <3>1. PICK x \in repo : resolved' = [resolved EXCEPT ![d] = x]
        BY <2>2 DEF Resolve, Latest, NewestSnapshots
      <3>2. UNCHANGED <<pc, began, repo>> BY <2>2 DEF Resolve, vars, resticVars
      <3>3. QED BY <1>2, <2>1, <3>1, <3>2 DEF DrillTypeOK
    <2>3. ASSUME NEW d \in Drills,
                 \/ BeginDrill(d) \/ BeginRestore(d) \/ DrillLockedOut(d) \/ EndRestore(d)
                 \/ LoadDump(d) \/ LoadFails(d) \/ DrillDies(d)
          PROVE  OrderInv' /\ DrilledSnapshotKept'
      BY <2>1, <2>3 DEF BeginDrill, BeginRestore, DrillLockedOut, EndRestore, LoadDump, LoadFails,
        DrillDies, vars, resticVars
    <2>4. ASSUME NEW g \in Listings, BeginListing(g) \/ EndListing(g)
          PROVE  OrderInv' /\ DrilledSnapshotKept'
      BY <2>1, <2>4 DEF BeginListing, EndListing, resticVars, drillVars
    <2>5. CASE UNCHANGED allVars
      BY <2>1, <2>5 DEF allVars, vars, resticVars, drillVars
    <2>6. QED BY <1>2, <2>2, <2>3, <2>4, <2>5, BackupKeepsOrder DEF DrillNext, DrillStep
  <1>3. QED BY <1>1, <1>2, DrillTypeCorrect, PTL DEF DrillSpec

(* The freshness check finds the snapshot a drill named, until as many     *)
(* newer ones are there as the backups keep: whatever backups overlapped   *)
(* in whatever order, a prune counts the snapshots after it correctly.     *)
THEOREM DrilledSnapshotIsKept == DrillSpec => []DrilledSnapshotKept
  BY OrderInvariant, PTL
=============================================================================
