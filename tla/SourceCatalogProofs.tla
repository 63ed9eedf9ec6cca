------------------------- MODULE SourceCatalogProofs -------------------------
(***************************************************************************)
(* Proofs about SourceCatalog, for every set of sources and every bound.   *)
(*                                                                         *)
(* CatalogInv is inductive by itself: no handler or importer relies on     *)
(* more than the consistency of the row it finds, which is the point, for  *)
(* they run in any order.                                                  *)
(***************************************************************************)
EXTENDS SourceCatalog, TLAPS

(* The rows one importer or tool inserts are chunk rows of its source. *)
LEMMA NewChunksTyped ==
  ASSUME CatalogTypeOK, NEW s \in Sources, NEW L \in SUBSET AllLocators,
         NEW class \in Classes, NEW direct \in BOOLEAN
  PROVE  NewChunks(s, L, class, direct) \subseteq ChunkRows
  BY DEF CatalogTypeOK, NewChunks, ChunkRows

LEMMA ReplaceChunksTyped ==
  ASSUME CatalogTypeOK, NEW s \in Sources, NEW L \in SUBSET AllLocators,
         NEW class \in Classes, NEW direct \in BOOLEAN,
         ReplaceChunks(s, L, class, direct)
  PROVE  chunks' \subseteq ChunkRows /\ gen' \in [Sources -> Nat]
  <1>1. NewChunks(s, L, class, direct) \subseteq ChunkRows
    BY NewChunksTyped
  <1>2. chunks' \subseteq ChunkRows
    BY <1>1 DEF ReplaceChunks, CatalogTypeOK
  <1>3. gen' \in [Sources -> Nat]
    BY DEF ReplaceChunks, CatalogTypeOK
  <1>4. QED BY <1>2, <1>3

LEMMA UpsertTyped ==
  ASSUME CatalogTypeOK, NEW s \in Sources, NEW st \in Statuses, NEW ok \in BOOLEAN,
         UpsertSource(s, st, ok)
  PROVE  /\ status' \in [Sources -> Statuses]
         /\ allowed' \in [Sources -> BOOLEAN]
         /\ verdict' \in [Sources -> Verdicts]
  <1>1. Outdated(verdict[s]) \in Verdicts
    BY DEF CatalogTypeOK, Outdated, Verdicts
  <1>2. QED BY <1>1 DEF UpsertSource, CatalogTypeOK

LEMMA ImportStepTyped == CatalogTypeOK /\ ImportStep => CatalogTypeOK'
  <1> SUFFICES ASSUME CatalogTypeOK, ImportStep PROVE CatalogTypeOK'
    OBVIOUS
  <1>l. Locators \subseteq AllLocators
    BY DEF AllLocators
  <1>1. ASSUME NEW s \in Sources, ImportOfficial(s) PROVE CatalogTypeOK'
    <2>1. PICK L \in (SUBSET Locators) \ {{}} : ReplaceChunks(s, L, "GRUEN", TRUE)
      BY <1>1 DEF ImportOfficial
    <2>2. chunks' \subseteq ChunkRows /\ gen' \in [Sources -> Nat]
      BY <1>l, <2>1, ReplaceChunksTyped DEF Classes
    <2>3. /\ status' \in [Sources -> Statuses]
          /\ allowed' \in [Sources -> BOOLEAN]
          /\ verdict' \in [Sources -> Verdicts]
      BY <1>1, UpsertTyped DEF ImportOfficial, Statuses
    <2>4. QED BY <1>1, <2>2, <2>3 DEF ImportOfficial, CatalogTypeOK, auditVars
  <1>2. ASSUME NEW s \in Sources, ImportOfficialWeb(s) PROVE CatalogTypeOK'
    <2>1. PICK L \in (SUBSET Locators) \ {{}} : ReplaceChunks(s, L, "GELB", TRUE)
      BY <1>2 DEF ImportOfficialWeb
    <2>2. chunks' \subseteq ChunkRows /\ gen' \in [Sources -> Nat]
      BY <1>l, <2>1, ReplaceChunksTyped DEF Classes
    <2>3. /\ status' \in [Sources -> Statuses]
          /\ allowed' \in [Sources -> BOOLEAN]
          /\ verdict' \in [Sources -> Verdicts]
      BY <1>2, UpsertTyped DEF ImportOfficialWeb, Statuses
    <2>4. QED BY <1>2, <2>2, <2>3 DEF ImportOfficialWeb, CatalogTypeOK, auditVars
  <1>3. ASSUME NEW s \in Sources, ImportEvgPublic(s) PROVE CatalogTypeOK'
    <2>1. chunks' \subseteq ChunkRows /\ gen' \in [Sources -> Nat]
      <3>1. CASE \E L \in SUBSET Locators : ReplaceChunks(s, L, ClassOf[s], FALSE)
        BY <1>l, <3>1, ReplaceChunksTyped, SourcesAssumption
      <3>2. CASE gen' = [gen EXCEPT ![s] = @ + 1] /\ UNCHANGED chunks
        BY <3>2 DEF CatalogTypeOK
      <3>3. QED BY <1>3, <3>1, <3>2 DEF ImportEvgPublic
    <2>2. /\ status' \in [Sources -> Statuses]
          /\ allowed' \in [Sources -> BOOLEAN]
          /\ verdict' \in [Sources -> Verdicts]
      BY <1>3, UpsertTyped DEF ImportEvgPublic, Statuses
    <2>3. QED BY <1>3, <2>1, <2>2 DEF ImportEvgPublic, CatalogTypeOK, auditVars
  <1>4. ASSUME ImportEvgMember PROVE CatalogTypeOK'
    <2> DEFINE Imported(read, L) ==
          /\ chunks' = (chunks \ ChunksOf(MemberSources))
                         \cup UNION {NewChunks(s, L[s], "BLAU", FALSE) : s \in read}
          /\ status' = [s \in Sources |->
                IF s \in read THEN "technisch_geprueft"
                ELSE IF s \in MemberSources THEN "absent" ELSE status[s]]
    <2>a. PICK read \in SUBSET MemberSources :
            \E L \in [read -> SUBSET Locators] : Imported(read, L)
      BY <1>4 DEF ImportEvgMember
    <2>1. PICK L \in [read -> SUBSET Locators] : Imported(read, L)
      BY <2>a
    <2>2. ASSUME NEW s \in read
          PROVE  NewChunks(s, L[s], "BLAU", FALSE) \subseteq ChunkRows
      <3>1. s \in Sources /\ L[s] \in SUBSET AllLocators
        BY <1>l DEF MemberSources
      <3>2. QED BY <3>1, NewChunksTyped DEF Classes
    <2>3. chunks' \subseteq ChunkRows
      BY <2>1, <2>2 DEF CatalogTypeOK
    <2>4. status' \in [Sources -> Statuses]
      BY <2>1 DEF CatalogTypeOK, Statuses
    <2>5. allowed' \in [Sources -> BOOLEAN] /\ gen' \in [Sources -> Nat]
      BY <1>4 DEF ImportEvgMember, CatalogTypeOK
    <2>6. verdict' \in [Sources -> Verdicts]
      BY <1>4 DEF ImportEvgMember, CatalogTypeOK, Outdated, Verdicts
    <2>7. QED
      BY <1>4, <2>3, <2>4, <2>5, <2>6 DEF ImportEvgMember, CatalogTypeOK, auditVars
  <1>5. ASSUME NEW s \in Sources, ImportBetrvg(s) PROVE CatalogTypeOK'
    <2>1. PICK L \in SUBSET Locators : ReplaceChunks(s, L, "GRUEN", TRUE)
      BY <1>5 DEF ImportBetrvg
    <2>2. chunks' \subseteq ChunkRows /\ gen' \in [Sources -> Nat]
      BY <1>l, <2>1, ReplaceChunksTyped DEF Classes
    <2>3. /\ status' \in [Sources -> Statuses]
          /\ allowed' \in [Sources -> BOOLEAN]
          /\ verdict' \in [Sources -> Verdicts]
      BY <1>5, UpsertTyped DEF ImportBetrvg, Statuses
    <2>4. QED BY <1>5, <2>2, <2>3 DEF ImportBetrvg, CatalogTypeOK, auditVars
  <1>6. QED BY <1>1, <1>2, <1>3, <1>4, <1>5 DEF ImportStep

LEMMA RepairStepTyped == CatalogTypeOK /\ RepairStep => CatalogTypeOK'
  <1> SUFFICES ASSUME CatalogTypeOK, NEW s \in Sources,
                      \/ RepairSelect(s) \/ RepairApply(s)
                      \/ RepairApplyBeside(s) \/ RepairGiveUp(s)
               PROVE  CatalogTypeOK'
    BY DEF RepairStep
  <1>1. CASE RepairSelect(s)
    BY <1>1 DEF RepairSelect, CatalogTypeOK, auditVars
  <1>2. CASE RepairApply(s)
    <2>1. chunks' \subseteq ChunkRows /\ gen' \in [Sources -> Nat]
      BY <1>2, ReplaceChunksTyped, SourcesAssumption DEF RepairApply, AllLocators
    <2>2. QED BY <1>2, <2>1 DEF RepairApply, CatalogTypeOK, auditVars
  <1>3. CASE RepairGiveUp(s)
    BY <1>3 DEF RepairGiveUp, CatalogTypeOK, auditVars
  <1>4. CASE RepairApplyBeside(s)
    <2>1. NewChunks(s, {OcrLocator}, ClassOf[s], TRUE) \subseteq ChunkRows
      <3>1. {OcrLocator} \in SUBSET AllLocators /\ ClassOf[s] \in Classes
        BY SourcesAssumption DEF AllLocators
      <3>2. QED BY <3>1, NewChunksTyped
    <2>a. AppendChunks(s, {OcrLocator}, ClassOf[s], TRUE)
      BY <1>4 DEF RepairApplyBeside
    <2>b. chunks' \subseteq ChunkRows
      BY <2>1, <2>a DEF AppendChunks, CatalogTypeOK
    <2>c. gen' \in [Sources -> Nat]
      BY <2>a DEF AppendChunks, CatalogTypeOK
    <2>2. chunks' \subseteq ChunkRows /\ gen' \in [Sources -> Nat]
      BY <2>b, <2>c
    <2>3. QED BY <1>4, <2>2 DEF RepairApplyBeside, CatalogTypeOK, auditVars
  <1>5. QED BY <1>1, <1>2, <1>3, <1>4

(* What every approval handler's UPDATE does, and that it keeps the types. *)
LEMMA AdminUpdateTyped ==
  ASSUME CatalogTypeOK, NEW S \in SUBSET Sources, NEW st \in Statuses, NEW ok \in BOOLEAN,
         NEW v \in Verdicts, NEW action \in AuditActions,
         NEW object \in Sources \cup {EvgGroup},
         AdminUpdate(S, st, ok, v, action, object)
  PROVE  CatalogTypeOK'
  <1>1. [action |-> action, object |-> object] \in AuditEntries
    BY DEF AuditEntries
  <1>2. QED BY <1>1 DEF AdminUpdate, CatalogTypeOK

LEMMA AdminStepTyped == CatalogTypeOK /\ AdminStep => CatalogTypeOK'
  <1> SUFFICES ASSUME CatalogTypeOK, AdminStep PROVE CatalogTypeOK'
    OBVIOUS
  <1> USE DEF Statuses, Verdicts, AuditActions, Present, Blocked
  <1>1. ASSUME NEW s \in Sources, TechnicalApprove(s) PROVE CatalogTypeOK'
    BY <1>1, AdminUpdateTyped DEF TechnicalApprove
  <1>2. ASSUME NEW s \in Sources, BlockSource(s) PROVE CatalogTypeOK'
    BY <1>2, AdminUpdateTyped DEF BlockSource
  <1>3. ASSUME NEW s \in Sources, UnblockSource(s) PROVE CatalogTypeOK'
    BY <1>3, AdminUpdateTyped DEF UnblockSource
  <1>4. ASSUME NEW s \in Sources, UnblockAndApprove(s) PROVE CatalogTypeOK'
    BY <1>4, AdminUpdateTyped DEF UnblockAndApprove
  <1>5. ASSUME ApproveAllEvg PROVE CatalogTypeOK'
    BY <1>5, AdminUpdateTyped DEF ApproveAllEvg
  <1>6. ASSUME NEW e \in pendingAudit, WriteAudit(e) PROVE CatalogTypeOK'
    BY <1>6 DEF WriteAudit, CatalogTypeOK
  <1>7. QED BY <1>1, <1>2, <1>3, <1>4, <1>5, <1>6 DEF AdminStep

LEMMA CatalogStepTyped == CatalogTypeOK /\ CatalogStep => CatalogTypeOK'
  BY ImportStepTyped, RepairStepTyped, AdminStepTyped DEF CatalogStep

LEMMA LoseHandlersTyped == CatalogTypeOK /\ LoseHandlers => CatalogTypeOK'
  BY DEF CatalogTypeOK, LoseHandlers

LEMMA CatalogInitTyped == CatalogInit => CatalogTypeOK
  BY DEF CatalogInit, CatalogTypeOK, Statuses, Verdicts

(* The variables of the catalogue hold what their columns can hold. *)
THEOREM CatalogTypeCorrect == CatalogSpec => []CatalogTypeOK
  <1>1. CatalogTypeOK /\ [CatalogNext]_catalogVars => CatalogTypeOK'
    <2>1. CatalogTypeOK /\ UNCHANGED catalogVars => CatalogTypeOK'
      BY DEF CatalogTypeOK, catalogVars
    <2>2. QED BY <2>1, CatalogStepTyped, LoseHandlersTyped DEF CatalogNext
  <1>2. QED BY CatalogInitTyped, <1>1, PTL DEF CatalogSpec
-----------------------------------------------------------------------------
(* Safety. The parts of the invariant, by what can disturb them. *)

ApprovalInv == ApprovalConsistent /\ ApprovedSinceImport
ChunksInv == OneChunkPerLocator /\ ChunkClassMatches
CatalogInv == CatalogTypeOK /\ ApprovalInv /\ ChunksInv /\ OfficialHasChunks

(* A rewrite leaves one row per locator, all of the source's class. *)
LEMMA ReplaceKeepsChunks ==
  ASSUME CatalogTypeOK, ChunksInv, NEW s \in Sources, NEW L, NEW direct,
         ReplaceChunks(s, L, ClassOf[s], direct)
  PROVE  ChunksInv'
  BY DEF ChunksInv, OneChunkPerLocator, ChunkClassMatches, ReplaceChunks, NewChunks, ChunksOf

(* A rewrite with at least one locator leaves the source a chunk, and the  *)
(* other sources the chunks they had.                                      *)
LEMMA ReplaceLeavesChunks ==
  ASSUME CatalogTypeOK, NEW s \in Sources, NEW L, NEW class, NEW direct,
         ReplaceChunks(s, L, class, direct)
  PROVE  /\ L # {} => ChunksOf({s})' # {}
         /\ \A t \in Sources \ {s} : ChunksOf({t})' = ChunksOf({t})
  <1>1. ASSUME NEW l \in L
        PROVE  [src |-> s, loc |-> l, gen |-> gen[s] + 1, class |-> class, direct |-> direct]
                 \in ChunksOf({s})'
    BY DEF ReplaceChunks, NewChunks, ChunksOf
  <1>2. ASSUME NEW t \in Sources \ {s} PROVE ChunksOf({t})' = ChunksOf({t})
    BY DEF ReplaceChunks, NewChunks, ChunksOf
  <1>3. QED BY <1>1, <1>2

(* An upsert by an importer: only self-approving importers approve. *)
LEMMA UpsertKeepsApproval ==
  ASSUME CatalogTypeOK, ApprovalInv, NEW s \in Sources, NEW st \in Statuses, NEW ok \in BOOLEAN,
         UpsertSource(s, st, ok), ok <=> st = "freigegeben",
         ok => ImporterOf[s] \in SelfApproving
  PROVE  ApprovalInv'
  BY DEF CatalogTypeOK, ApprovalInv, ApprovalConsistent, ApprovedSinceImport, UpsertSource

(* A source whose import validates nothing needs no chunk. *)
LEMMA UpsertKeepsOfficial ==
  ASSUME CatalogTypeOK, OfficialHasChunks, NEW s \in Sources, NEW st, NEW ok,
         UpsertSource(s, st, ok),
         ChunksOf({s})' # {} \/ ImporterOf[s] \notin Validating,
         \A t \in Sources \ {s} : ChunksOf({t})' = ChunksOf({t})
  PROVE  OfficialHasChunks'
  BY DEF CatalogTypeOK, OfficialHasChunks, UpsertSource
LEMMA ImportStepSafe == CatalogInv /\ ImportStep => CatalogInv'
  <1> SUFFICES ASSUME CatalogInv, ImportStep PROVE CatalogInv'
    OBVIOUS
  <1>t. CatalogTypeOK'
    BY ImportStepTyped DEF CatalogInv
  <1> USE DEF CatalogInv, Statuses
  <1>1. ASSUME NEW s \in Sources, ImportOfficial(s) PROVE CatalogInv'
    <2>1. PICK L \in (SUBSET Locators) \ {{}} : ReplaceChunks(s, L, "GRUEN", TRUE)
      BY <1>1 DEF ImportOfficial
    <2>2. ImporterOf[s] \in SelfApproving /\ ClassOf[s] = "GRUEN"
      BY <1>1, SourcesAssumption DEF ImportOfficial, SelfApproving
    <2>3. UpsertSource(s, "freigegeben", TRUE) /\ UNCHANGED auditVars
      BY <1>1 DEF ImportOfficial
    <2>4. ChunksInv'
      BY <2>1, <2>2, ReplaceKeepsChunks
    <2>5. OfficialHasChunks'
      BY <2>1, <2>3, ReplaceLeavesChunks, UpsertKeepsOfficial
    <2>6. ApprovalInv'
      BY <2>2, <2>3, UpsertKeepsApproval
    <2>7. QED BY <1>t, <2>4, <2>5, <2>6
  <1>2. ASSUME NEW s \in Sources, ImportOfficialWeb(s) PROVE CatalogInv'
    <2>1. PICK L \in (SUBSET Locators) \ {{}} : ReplaceChunks(s, L, "GELB", TRUE)
      BY <1>2 DEF ImportOfficialWeb
    <2>2. ImporterOf[s] \notin Validating /\ ClassOf[s] = "GELB"
      BY <1>2, SourcesAssumption DEF ImportOfficialWeb, SelfApproving, Validating
    <2>3. UpsertSource(s, "technisch_geprueft", FALSE) /\ UNCHANGED auditVars
      BY <1>2 DEF ImportOfficialWeb
    <2>4. ChunksInv'
      BY <2>1, <2>2, ReplaceKeepsChunks
    <2>5. OfficialHasChunks'
      BY <2>1, <2>2, <2>3, ReplaceLeavesChunks, UpsertKeepsOfficial
    <2>6. ApprovalInv'
      BY <2>3, UpsertKeepsApproval
    <2>7. QED BY <1>t, <2>4, <2>5, <2>6
  <1>3. ASSUME NEW s \in Sources, ImportEvgPublic(s) PROVE CatalogInv'
    <2>1. ImporterOf[s] \notin Validating
      BY <1>3 DEF ImportEvgPublic, Validating
    <2>2. UpsertSource(s, "technisch_geprueft", FALSE) /\ UNCHANGED auditVars
      BY <1>3 DEF ImportEvgPublic
    <2>3. ChunksInv' /\ \A t \in Sources \ {s} : ChunksOf({t})' = ChunksOf({t})
      <3>1. CASE \E L \in SUBSET Locators : ReplaceChunks(s, L, ClassOf[s], FALSE)
        BY <3>1, ReplaceKeepsChunks, ReplaceLeavesChunks
      <3>2. CASE UNCHANGED chunks
        BY <3>2 DEF ChunksInv, OneChunkPerLocator, ChunkClassMatches, ChunksOf
      <3>3. QED BY <1>3, <3>1, <3>2 DEF ImportEvgPublic
    <2>4. OfficialHasChunks'
      BY <2>1, <2>2, <2>3, UpsertKeepsOfficial
    <2>5. ApprovalInv'
      BY <2>2, UpsertKeepsApproval
    <2>6. QED BY <1>t, <2>3, <2>4, <2>5
  <1>4. ASSUME ImportEvgMember PROVE CatalogInv'
    <2> DEFINE Imported(read, L) ==
          /\ chunks' = (chunks \ ChunksOf(MemberSources))
                         \cup UNION {NewChunks(s, L[s], "BLAU", FALSE) : s \in read}
          /\ status' = [s \in Sources |->
                IF s \in read THEN "technisch_geprueft"
                ELSE IF s \in MemberSources THEN "absent" ELSE status[s]]
    <2>a. PICK read \in SUBSET MemberSources :
            \E L \in [read -> SUBSET Locators] : Imported(read, L)
      BY <1>4 DEF ImportEvgMember
    <2>1. PICK L \in [read -> SUBSET Locators] : Imported(read, L)
      BY <2>a
    <2>2. \A s \in MemberSources : s \in Sources /\ ImporterOf[s] \notin Validating
                                     /\ ClassOf[s] = "BLAU"
      BY SourcesAssumption DEF MemberSources, Validating
    <2>3. ChunksInv'
      <3> DEFINE New(s, l) == [src |-> s, loc |-> l, gen |-> gen[s] + 1,
                               class |-> "BLAU", direct |-> FALSE]
      <3>0. ASSUME NEW c \in chunks'
            PROVE  \/ c \in chunks /\ c.src \notin MemberSources
                   \/ c.src \in MemberSources /\ c = New(c.src, c.loc)
        <4>1. CASE c \in chunks \ ChunksOf(MemberSources)
          BY <4>1 DEF ChunksOf
        <4>2. CASE \E s \in read : c \in NewChunks(s, L[s], "BLAU", FALSE)
          BY <4>2 DEF NewChunks
        <4>3. QED BY <2>1, <4>1, <4>2
      <3>1. OneChunkPerLocator'
        BY <3>0 DEF ChunksInv, OneChunkPerLocator
      <3>2. ChunkClassMatches'
        BY <2>2, <3>0 DEF ChunksInv, ChunkClassMatches
      <3>3. QED BY <3>1, <3>2 DEF ChunksInv
    <2>4. OfficialHasChunks'
      <3>1. ASSUME NEW s \in Sources, status'[s] # "absent", ImporterOf[s] \in Validating
            PROVE  ChunksOf({s})' # {}
        <4>1. s \notin MemberSources /\ status[s] # "absent"
          BY <2>1, <2>2, <3>1
        <4>2. PICK c \in chunks : c.src = s
          BY <3>1, <4>1 DEF OfficialHasChunks, ChunksOf
        <4>3. c \in chunks'
          BY <2>1, <4>1, <4>2 DEF ChunksOf
        <4>4. QED BY <4>2, <4>3 DEF ChunksOf
      <3>2. QED BY <3>1 DEF OfficialHasChunks
    <2>5. ApprovalConsistent'
      BY <1>4, <2>1 DEF ImportEvgMember, ApprovalInv, ApprovalConsistent, CatalogTypeOK
    <2>6. ApprovedSinceImport'
      BY <1>4 DEF ImportEvgMember, ApprovalInv, ApprovedSinceImport, CatalogTypeOK
    <2>7. QED BY <1>t, <2>3, <2>4, <2>5, <2>6 DEF ApprovalInv
  <1>5. ASSUME NEW s \in Sources, ImportBetrvg(s) PROVE CatalogInv'
    <2>1. PICK L \in SUBSET Locators : ReplaceChunks(s, L, "GRUEN", TRUE)
      BY <1>5 DEF ImportBetrvg
    <2>2. /\ ImporterOf[s] \in SelfApproving /\ ImporterOf[s] \notin Validating
          /\ ClassOf[s] = "GRUEN"
      BY <1>5, SourcesAssumption DEF ImportBetrvg, SelfApproving, Validating
    <2>3. UpsertSource(s, "freigegeben", TRUE) /\ UNCHANGED auditVars
      BY <1>5 DEF ImportBetrvg
    <2>4. ChunksInv'
      BY <2>1, <2>2, ReplaceKeepsChunks
    <2>5. OfficialHasChunks'
      BY <2>1, <2>2, <2>3, ReplaceLeavesChunks, UpsertKeepsOfficial
    <2>6. ApprovalInv'
      BY <2>2, <2>3, UpsertKeepsApproval
    <2>7. QED BY <1>t, <2>4, <2>5, <2>6
  <1>6. QED BY <1>1, <1>2, <1>3, <1>4, <1>5 DEF ImportStep

(* The repair keeps the invariant, also when it lands beside an import.    *)
LEMMA RepairStepSafe == CatalogInv /\ RepairStep => CatalogInv'
  <1> SUFFICES ASSUME CatalogInv, NEW s \in Sources,
                      \/ RepairSelect(s) \/ RepairApply(s)
                      \/ RepairApplyBeside(s) \/ RepairGiveUp(s)
               PROVE  CatalogInv'
    BY DEF RepairStep
  <1>t. CatalogTypeOK'
    BY RepairStepTyped DEF CatalogInv, RepairStep
  <1>a. UNCHANGED <<status, allowed, verdict, auditVars>>
    BY DEF RepairSelect, RepairApply, RepairApplyBeside, RepairGiveUp
  <1>1. ApprovalInv'
    BY <1>a DEF CatalogInv, ApprovalInv, ApprovalConsistent, ApprovedSinceImport
  <1>2. ChunksInv' /\ OfficialHasChunks'
    <2>1. CASE UNCHANGED chunks
      BY <1>a, <2>1 DEF CatalogInv, ChunksInv, OneChunkPerLocator, ChunkClassMatches,
                        OfficialHasChunks, ChunksOf
    <2>2. CASE RepairApply(s)
      <3>1. ReplaceChunks(s, {OcrLocator}, ClassOf[s], TRUE)
        BY <2>2 DEF RepairApply
      <3>2. ChunksInv'
        BY <3>1, ReplaceKeepsChunks DEF CatalogInv
      <3>3. ChunksOf({s})' # {} /\ \A u \in Sources \ {s} : ChunksOf({u})' = ChunksOf({u})
        BY <3>1, ReplaceLeavesChunks DEF CatalogInv
      <3>4. OfficialHasChunks'
        BY <1>a, <3>3 DEF CatalogInv, OfficialHasChunks
      <3>5. QED BY <3>2, <3>4
    <2>3. CASE RepairApplyBeside(s)
      <3>1. /\ chunks' = chunks \cup NewChunks(s, {OcrLocator}, ClassOf[s], TRUE)
            /\ \A c \in chunks : c.src = s => c.loc # OcrLocator
        BY <2>3 DEF RepairApplyBeside, AppendChunks, ChunksOf
      <3>2. \A c \in NewChunks(s, {OcrLocator}, ClassOf[s], TRUE) :
              /\ c.src = s /\ c.loc = OcrLocator /\ c.class = ClassOf[s]
              /\ \A d \in NewChunks(s, {OcrLocator}, ClassOf[s], TRUE) : c = d
        <4> DEFINE row == [src |-> s, loc |-> OcrLocator, gen |-> gen[s] + 1,
                           class |-> ClassOf[s], direct |-> TRUE]
        <4>1. NewChunks(s, {OcrLocator}, ClassOf[s], TRUE) = {row}
          BY DEF NewChunks
        <4>2. row.src = s /\ row.loc = OcrLocator /\ row.class = ClassOf[s]
          OBVIOUS
        <4> HIDE DEF row
        <4>3. QED BY <4>1, <4>2
      <3>3. OneChunkPerLocator'
        BY <3>1, <3>2 DEF CatalogInv, ChunksInv, OneChunkPerLocator
      <3>4. ChunkClassMatches'
        BY <3>1, <3>2 DEF CatalogInv, ChunksInv, ChunkClassMatches
      <3>5. OfficialHasChunks'
        BY <1>a, <3>1 DEF CatalogInv, OfficialHasChunks, ChunksOf
      <3>6. QED BY <3>3, <3>4, <3>5 DEF ChunksInv
    <2>4. QED BY <2>1, <2>2, <2>3 DEF RepairSelect, RepairGiveUp
  <1>3. QED BY <1>t, <1>1, <1>2 DEF CatalogInv

(* An approval handler keeps the invariant if it sets flag and status      *)
(* together, approves only with a verdict, and touches only rows that      *)
(* exist.                                                                  *)
LEMMA AdminUpdateSafe ==
  ASSUME CatalogInv, NEW S \in SUBSET Sources, NEW st \in Statuses, NEW ok \in BOOLEAN,
         NEW v \in Verdicts, NEW action \in AuditActions,
         NEW object \in Sources \cup {EvgGroup},
         AdminUpdate(S, st, ok, v, action, object),
         \A s \in S : status[s] # "absent",
         ok <=> st = "freigegeben",
         ok => v = "approved"
  PROVE  CatalogInv'
  <1>1. CatalogTypeOK'
    BY AdminUpdateTyped DEF CatalogInv
  <1>2. ApprovalInv'
    BY DEF CatalogInv, CatalogTypeOK, ApprovalInv, ApprovalConsistent, ApprovedSinceImport, AdminUpdate
  <1>3. ChunksInv'
    BY DEF CatalogInv, ChunksInv, OneChunkPerLocator, ChunkClassMatches, AdminUpdate
  <1>4. OfficialHasChunks'
    BY DEF CatalogInv, CatalogTypeOK, OfficialHasChunks, ChunksOf, AdminUpdate
  <1>5. QED BY <1>1, <1>2, <1>3, <1>4 DEF CatalogInv

LEMMA AdminStepSafe == CatalogInv /\ AdminStep => CatalogInv'
  <1> SUFFICES ASSUME CatalogInv, AdminStep PROVE CatalogInv'
    OBVIOUS
  <1> USE DEF Statuses, Verdicts, AuditActions
  <1>1. ASSUME NEW s \in Sources, TechnicalApprove(s) PROVE CatalogInv'
    <2> DEFINE S == {t \in Present({s}) : ClassOf[t] \in {"BLAU", "GRUEN"}}
    <2>1. S \in SUBSET Sources /\ \A t \in S : status[t] # "absent"
      BY DEF Present, Blocked
    <2>2. AdminUpdate(S, "freigegeben", TRUE, "approved", "source_technical_approve", s)
      BY <1>1 DEF TechnicalApprove
    <2> HIDE DEF S
    <2>3. QED BY <2>1, <2>2, AdminUpdateSafe
  <1>2. ASSUME NEW s \in Sources, BlockSource(s) PROVE CatalogInv'
    <2> DEFINE S == Present({s})
    <2>1. S \in SUBSET Sources /\ \A t \in S : status[t] # "absent"
      BY DEF Present, Blocked
    <2>2. AdminUpdate(S, "gesperrt", FALSE, "blocked", "source_block", s)
      BY <1>2 DEF BlockSource
    <2> HIDE DEF S
    <2>3. QED BY <2>1, <2>2, AdminUpdateSafe
  <1>3. ASSUME NEW s \in Sources, UnblockSource(s) PROVE CatalogInv'
    <2> DEFINE S == Blocked({s})
    <2>1. S \in SUBSET Sources /\ \A t \in S : status[t] # "absent"
      BY DEF Present, Blocked
    <2>2. AdminUpdate(S, "technisch_geprueft", FALSE, "none", "source_unblock", s)
      BY <1>3 DEF UnblockSource
    <2> HIDE DEF S
    <2>3. QED BY <2>1, <2>2, AdminUpdateSafe
  <1>4. ASSUME NEW s \in Sources, UnblockAndApprove(s) PROVE CatalogInv'
    <2> DEFINE S == {t \in Blocked({s}) : ClassOf[t] \in {"GRUEN", "BLAU", "GELB"}}
    <2>1. S \in SUBSET Sources /\ \A t \in S : status[t] # "absent"
      BY DEF Present, Blocked
    <2>2. AdminUpdate(S, "freigegeben", TRUE, "approved", "source_unblock_and_approve", s)
      BY <1>4 DEF UnblockAndApprove
    <2> HIDE DEF S
    <2>3. QED BY <2>1, <2>2, AdminUpdateSafe
  <1>5. ASSUME ApproveAllEvg PROVE CatalogInv'
    <2> DEFINE S == {t \in Present(Sources) \ Blocked(Sources) :
                     /\ ImporterOf[t] \in EvgImporters
                     /\ ClassOf[t] \in {"BLAU", "GELB"}}
    <2>1. S \in SUBSET Sources /\ \A t \in S : status[t] # "absent"
      BY DEF Present, Blocked
    <2>2. AdminUpdate(S, "freigegeben", TRUE, "approved", "source_approve_all_evg", EvgGroup)
      BY <1>5 DEF ApproveAllEvg
    <2> HIDE DEF S
    <2>3. QED BY <2>1, <2>2, AdminUpdateSafe
  <1>6. ASSUME NEW e \in pendingAudit, WriteAudit(e) PROVE CatalogInv'
    <2>1. CatalogTypeOK'
      BY <1>6, AdminStepTyped DEF AdminStep, CatalogInv
    <2>2. ApprovalInv' /\ ChunksInv' /\ OfficialHasChunks'
      BY <1>6 DEF WriteAudit, CatalogInv, ApprovalInv, ApprovalConsistent, ApprovedSinceImport,
                  ChunksInv, OneChunkPerLocator, ChunkClassMatches, OfficialHasChunks, ChunksOf
    <2>3. QED BY <2>1, <2>2 DEF CatalogInv
  <1>7. QED BY <1>1, <1>2, <1>3, <1>4, <1>5, <1>6 DEF AdminStep

LEMMA CatalogStepSafe == CatalogInv /\ CatalogStep => CatalogInv'
  BY ImportStepSafe, RepairStepSafe, AdminStepSafe DEF CatalogStep

LEMMA LoseHandlersSafe == CatalogInv /\ LoseHandlers => CatalogInv'
  <1> SUFFICES ASSUME CatalogInv, LoseHandlers PROVE CatalogInv'
    OBVIOUS
  <1>1. CatalogTypeOK'
    BY LoseHandlersTyped DEF CatalogInv
  <1>2. ApprovalInv' /\ ChunksInv' /\ OfficialHasChunks'
    BY DEF LoseHandlers, CatalogInv, ApprovalInv, ApprovalConsistent, ApprovedSinceImport,
           ChunksInv, OneChunkPerLocator, ChunkClassMatches, OfficialHasChunks, ChunksOf
  <1>3. QED BY <1>1, <1>2 DEF CatalogInv

LEMMA CatalogInitSafe == CatalogInit => CatalogInv
  BY CatalogInitTyped
     DEF CatalogInit, CatalogInv, ApprovalInv, ApprovalConsistent, ApprovedSinceImport, ChunksInv,
         OneChunkPerLocator, ChunkClassMatches, OfficialHasChunks

LEMMA CatalogUnchangedSafe == CatalogInv /\ UNCHANGED catalogVars => CatalogInv'
  BY DEF catalogVars, CatalogInv, CatalogTypeOK, ApprovalInv, ApprovalConsistent, ApprovedSinceImport,
         ChunksInv, OneChunkPerLocator, ChunkClassMatches, OfficialHasChunks, ChunksOf

LEMMA CatalogInvariant == CatalogSpec => []CatalogInv
  <1>1. CatalogInv /\ [CatalogNext]_catalogVars => CatalogInv'
    BY CatalogStepSafe, LoseHandlersSafe, CatalogUnchangedSafe DEF CatalogNext
  <1>2. QED BY CatalogInitSafe, <1>1, PTL DEF CatalogSpec

(* Status and citation flag agree after every importer and handler.        *)
THEOREM StatusAndFlagAgree == CatalogSpec => []ApprovalConsistent
  <1>1. CatalogInv => ApprovalConsistent
    BY DEF CatalogInv, ApprovalInv
  <1>2. QED BY CatalogInvariant, <1>1, PTL

(* What no import approves is citable only by a decision that a later      *)
(* import has not outdated: the approval handlers are the only way in.     *)
THEOREM ReimportNeedsApproval == CatalogSpec => []ApprovedSinceImport
  <1>1. CatalogInv => ApprovedSinceImport
    BY DEF CatalogInv, ApprovalInv
  <1>2. QED BY CatalogInvariant, <1>1, PTL

(* A locator of a source names one chunk, whatever imports and repairs do. *)
THEOREM ChunksCoherent == CatalogSpec => []OneChunkPerLocator
  <1>1. CatalogInv => OneChunkPerLocator
    BY DEF CatalogInv, ChunksInv
  <1>2. QED BY CatalogInvariant, <1>1, PTL

(* Chunks carry the class of their source, also those of a repair that     *)
(* read the class minutes before it wrote them.                            *)
THEOREM ChunksCarryTheirClass == CatalogSpec => []ChunkClassMatches
  <1>1. CatalogInv => ChunkClassMatches
    BY DEF CatalogInv, ChunksInv
  <1>2. QED BY CatalogInvariant, <1>1, PTL

(* An official source of the catalogue always has a chunk.                 *)
THEOREM OfficialFindable == CatalogSpec => []OfficialHasChunks
  <1>1. CatalogInv => OfficialHasChunks
    BY DEF CatalogInv
  <1>2. QED BY CatalogInvariant, <1>1, PTL
=============================================================================
