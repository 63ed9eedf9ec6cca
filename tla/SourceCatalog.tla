---------------------------- MODULE SourceCatalog ----------------------------
(***************************************************************************)
(* The source catalogue: the tables sources, documents and chunks, the     *)
(* importers and repair tools that rewrite them (each one transaction of   *)
(* its own), and the administrator's approval handlers of the web          *)
(* application (an UPDATE and an audit INSERT in separate transactions).   *)
(*                                                                         *)
(* A source has one document, as every importer creates it, so the         *)
(* document row is folded into the source.                                 *)
(***************************************************************************)
EXTENDS Naturals, FiniteSets

CONSTANTS Sources,      \* source_uid
          Locators,     \* locators the importers give to chunks ("Rn. 12")
          ImporterOf,   \* which script imports a source
          ClassOf,      \* source_class, fixed by the importer
          MaxGen,       \* bound: how often the chunks of a source are rewritten
          MaxImported,  \* bound: how many of the sources are imported in a behaviour
          MaxAdminOps   \* bound: approval requests handled in a behaviour

Importers == {"bag", "law", "betrvg", "official_web", "evg_public", "evg_member"}
Classes == {"GRUEN", "BLAU", "GELB"}

(***************************************************************************)
(* Importers that stop when a download holds nothing citable:              *)
(* import-bag-feed.py; import-gii-law.py and import-eurlex-dsgvo.py, which *)
(* are "law". import-betrvg-xml.py takes a local file as it is.            *)
(***************************************************************************)
Validating == {"bag", "law"}

(* Importers that insert a source as approved. *)
SelfApproving == Validating \cup {"betrvg"}

(* source_uid LIKE 'evg-%' *)
EvgImporters == {"evg_public", "evg_member"}

ASSUME SourcesAssumption ==
  /\ ImporterOf \in [Sources -> Importers]
  /\ ClassOf \in [Sources -> Classes]
  /\ \A s \in Sources :
       /\ ImporterOf[s] \in SelfApproving => ClassOf[s] = "GRUEN"
       /\ ImporterOf[s] = "official_web" => ClassOf[s] = "GELB"
       /\ ImporterOf[s] = "evg_member" => ClassOf[s] = "BLAU"
       /\ ImporterOf[s] = "evg_public" => ClassOf[s] \in {"BLAU", "GELB"}

ASSUME CatalogBounds == MaxGen \in Nat /\ MaxImported \in Nat /\ MaxAdminOps \in Nat

(* The locator of the chunk an OCR repair leaves. *)
OcrLocator == "OCR-Chunk 0001"

AllLocators == Locators \cup {OcrLocator}

(***************************************************************************)
(* A chunk row. gen makes the row's id fresh: a deleted and re-inserted    *)
(* chunk is a new row even when source, locator and text are the same.     *)
(* direct says that internal_ref reads "<source_uid>:<locator>", the form  *)
(* the export can resolve without the row; otherwise it begins with        *)
(* "evg-public", "evg-member" or "internal".                               *)
(***************************************************************************)
ChunkRows == [src : Sources, loc : AllLocators, gen : Nat, class : Classes, direct : BOOLEAN]

(***************************************************************************)
(* The administrator's last decision. An import makes an approval outdated *)
(* (the text is a new one); a block stands until it is lifted.             *)
(***************************************************************************)
Verdicts == {"none", "approved", "blocked"}

Outdated(v) == IF v = "approved" THEN "none" ELSE v

Statuses == {"absent", "technisch_geprueft", "freigegeben", "gesperrt"}

AuditActions ==
  {"source_technical_approve", "source_block", "source_unblock",
   "source_unblock_and_approve", "source_approve_all_evg"}

(* An audit row: which request, on which source or on the group evg-*. *)
EvgGroup == "evg-*"
AuditEntries == [action : AuditActions, object : Sources \cup {EvgGroup}]

VARIABLES
  status,        \* sources.status; "absent" when there is no such row
  allowed,       \* sources.citation_allowed
  chunks,        \* the rows of chunks
  gen,           \* gen[s]: rewrites of the chunks of s so far
  repairing,     \* sources a running OCR repair has selected
  pendingAudit,  \* handlers between their UPDATE and their audit INSERT
  audit,         \* source rows of audit_log
  verdict,       \* what an administrator last decided on a source (history)
  adminOps       \* approval requests so far

catalogVars == <<status, allowed, chunks, gen, repairing, pendingAudit, audit,
                 verdict, adminOps>>

CatalogTypeOK ==
  /\ status \in [Sources -> Statuses]
  /\ allowed \in [Sources -> BOOLEAN]
  /\ chunks \subseteq ChunkRows
  /\ gen \in [Sources -> Nat]
  /\ repairing \subseteq Sources
  /\ pendingAudit \subseteq AuditEntries
  /\ audit \subseteq AuditEntries
  /\ verdict \in [Sources -> Verdicts]
  /\ adminOps \in Nat

CatalogInit ==
  /\ status = [s \in Sources |-> "absent"]
  /\ allowed = [s \in Sources |-> FALSE]
  /\ chunks = {}
  /\ gen = [s \in Sources |-> 0]
  /\ repairing = {}
  /\ pendingAudit = {}
  /\ audit = {}
  /\ verdict = [s \in Sources |-> "none"]
  /\ adminOps = 0

-----------------------------------------------------------------------------
(* Importers *)

ChunksOf(S) == {c \in chunks : c.src \in S}

(* The rows a tool inserts for source s at locators L. *)
NewChunks(s, L, class, direct) ==
  {[src |-> s, loc |-> l, gen |-> gen[s] + 1, class |-> class, direct |-> direct] : l \in L}

(* The INSERTs alone: what a rewrite comes to if its DELETE sees none of   *)
(* the rows that are there at its commit.                                  *)
AppendChunks(s, L, class, direct) ==
  /\ chunks' = chunks \cup NewChunks(s, L, class, direct)
  /\ gen' = [gen EXCEPT ![s] = @ + 1]

(* The rewrite as a bug would have it: the text is chunked and stored twice. *)
ReplaceChunksTwice(s, L, class, direct) ==
  /\ chunks' = (chunks \ ChunksOf({s})) \cup NewChunks(s, L, class, direct)
                  \cup {[c EXCEPT !.gen = @ + 1] : c \in NewChunks(s, L, class, direct)}
  /\ gen' = [gen EXCEPT ![s] = @ + 1]

(* DELETE FROM chunks WHERE document_id=..., then INSERT. *)
ReplaceChunks(s, L, class, direct) ==
  /\ chunks' = (chunks \ ChunksOf({s})) \cup NewChunks(s, L, class, direct)
  /\ gen' = [gen EXCEPT ![s] = @ + 1]

(* The upsert of the source row. *)
UpsertSource(s, st, ok) ==
  /\ status' = [status EXCEPT ![s] = st]
  /\ allowed' = [allowed EXCEPT ![s] = ok]
  /\ verdict' = [verdict EXCEPT ![s] = Outdated(@)]

CanRewrite(s) ==
  /\ gen[s] < MaxGen
  /\ Cardinality({t \in Sources : gen[t] > 0} \cup {s}) <= MaxImported

auditVars == <<pendingAudit, audit, adminOps>>

(* The import as a bug would have it: a page without paragraphs is no error. *)
ImportOfficialUnchecked(s) ==
  /\ ImporterOf[s] \in Validating
  /\ CanRewrite(s)
  /\ \E L \in SUBSET Locators : ReplaceChunks(s, L, "GRUEN", TRUE)
  /\ UpsertSource(s, "freigegeben", TRUE)
  /\ UNCHANGED <<repairing, auditVars>>

(***************************************************************************)
(* BAG decisions and laws: at least one numbered paragraph or norm, or the *)
(* import stops before it touches the database. The source is approved by  *)
(* the import, whatever its status was.                                    *)
(***************************************************************************)
ImportOfficial(s) ==
  /\ ImporterOf[s] \in Validating
  /\ CanRewrite(s)
  /\ \E L \in (SUBSET Locators) \ {{}} : ReplaceChunks(s, L, "GRUEN", TRUE)
  /\ UpsertSource(s, "freigegeben", TRUE)
  /\ UNCHANGED <<repairing, auditVars>>

(* The BetrVG from its local XML: nobody asks whether a norm was found. *)
ImportBetrvg(s) ==
  /\ ImporterOf[s] = "betrvg"
  /\ CanRewrite(s)
  /\ \E L \in SUBSET Locators : ReplaceChunks(s, L, "GRUEN", TRUE)
  /\ UpsertSource(s, "freigegeben", TRUE)
  /\ UNCHANGED <<repairing, auditVars>>

(* A publisher's page: a hint source, never approved by the import. *)
ImportOfficialWeb(s) ==
  /\ ImporterOf[s] = "official_web"
  /\ CanRewrite(s)
  /\ \E L \in (SUBSET Locators) \ {{}} : ReplaceChunks(s, L, "GELB", TRUE)
  /\ UpsertSource(s, "technisch_geprueft", FALSE)
  /\ UNCHANGED <<repairing, auditVars>>

(* upsert_source as a bug would have it: the conflict clause keeps the approval. *)
ImportEvgPublicKeepsApproval(s) ==
  /\ ImporterOf[s] = "evg_public"
  /\ CanRewrite(s)
  /\ \E L \in SUBSET Locators : ReplaceChunks(s, L, ClassOf[s], FALSE)
  /\ status' = [status EXCEPT ![s] = IF @ = "absent" THEN "technisch_geprueft" ELSE @]
  /\ verdict' = [verdict EXCEPT ![s] = Outdated(@)]
  /\ UNCHANGED <<allowed, repairing, auditVars>>

(***************************************************************************)
(* An EVG page or PDF. Sections under 80 characters are skipped, so there  *)
(* may be no chunk at all; a PDF without a text layer updates the source   *)
(* and its document and leaves the old chunks where they are.              *)
(***************************************************************************)
ImportEvgPublic(s) ==
  /\ ImporterOf[s] = "evg_public"
  /\ CanRewrite(s)
  /\ \/ \E L \in SUBSET Locators : ReplaceChunks(s, L, ClassOf[s], FALSE)
     \/ gen' = [gen EXCEPT ![s] = @ + 1] /\ UNCHANGED chunks
  /\ UpsertSource(s, "technisch_geprueft", FALSE)
  /\ UNCHANGED <<repairing, auditVars>>

MemberSources == {s \in Sources : ImporterOf[s] = "evg_member"}

(***************************************************************************)
(* The members' downloads: all such sources are deleted, documents and     *)
(* chunks with them (ON DELETE CASCADE), and the files that can be read    *)
(* are imported again. A file that fails is logged and stays away. An OCR  *)
(* repair that has selected one of the deleted documents can no longer     *)
(* write: its INSERT fails and its transaction is rolled back.             *)
(***************************************************************************)
ImportEvgMember ==
  /\ MemberSources # {}
  /\ \A s \in MemberSources : CanRewrite(s)
  /\ \E read \in SUBSET MemberSources :
     \E L \in [read -> SUBSET Locators] :
       /\ chunks' = (chunks \ ChunksOf(MemberSources))
                      \cup UNION {NewChunks(s, L[s], "BLAU", FALSE) : s \in read}
       /\ status' = [s \in Sources |-> IF s \in read THEN "technisch_geprueft"
                                       ELSE IF s \in MemberSources THEN "absent" ELSE status[s]]
  /\ allowed' = [s \in Sources |-> s \notin MemberSources /\ allowed[s]]
  /\ verdict' = [s \in Sources |-> IF s \in MemberSources THEN Outdated(verdict[s]) ELSE verdict[s]]
  /\ gen' = [s \in Sources |-> IF s \in MemberSources THEN gen[s] + 1 ELSE gen[s]]
  /\ repairing' = repairing \ MemberSources
  /\ UNCHANGED auditVars

(***************************************************************************)
(* repair-short-text-sources.py selects approved sources without chunks    *)
(* or, with --include-repaired, with chunks of an earlier repair. One run  *)
(* at a time works on a source.                                            *)
(***************************************************************************)
RepairSelect(s) ==
  /\ s \notin repairing
  /\ allowed[s]
  /\ ChunksOf({s}) = {} \/ \E c \in ChunksOf({s}) : c.loc = OcrLocator
  /\ repairing' = repairing \cup {s}
  /\ UNCHANGED <<status, allowed, chunks, gen, verdict, auditVars>>

(* The repair as a bug would have it: every text is an internal BLAU one. *)
RepairApplyAsBlue(s) ==
  /\ s \in repairing
  /\ CanRewrite(s)
  /\ ReplaceChunks(s, {OcrLocator}, "BLAU", TRUE)
  /\ repairing' = repairing \ {s}
  /\ UNCHANGED <<status, allowed, verdict, auditVars>>

(***************************************************************************)
(* Minutes of OCR later, it replaces whatever chunks the source has by     *)
(* then. The approval is not looked at again.                              *)
(***************************************************************************)
RepairApply(s) ==
  /\ s \in repairing
  /\ CanRewrite(s)
  /\ ReplaceChunks(s, {OcrLocator}, ClassOf[s], TRUE)
  /\ repairing' = repairing \ {s}
  /\ UNCHANGED <<status, allowed, verdict, auditVars>>

(***************************************************************************)
(* An import of the same source was in flight when the repair deleted: the *)
(* DELETE does not see the import's rows, the UPDATE of the document then  *)
(* waits for the import, and both sets of chunks stay. (An import comes    *)
(* before each such step, so it needs no bound of its own.)                *)
(***************************************************************************)
RepairApplyBeside(s) ==
  /\ s \in repairing
  /\ ChunksOf({s}) # {} /\ \A c \in ChunksOf({s}) : c.loc # OcrLocator
  /\ AppendChunks(s, {OcrLocator}, ClassOf[s], TRUE)
  /\ repairing' = repairing \ {s}
  /\ UNCHANGED <<status, allowed, verdict, auditVars>>

(* A dry run, a text that stays too short, a page that cannot be read. *)
RepairGiveUp(s) ==
  /\ s \in repairing
  /\ repairing' = repairing \ {s}
  /\ UNCHANGED <<status, allowed, chunks, gen, verdict, auditVars>>

-----------------------------------------------------------------------------
(* The approval handlers of app/main.py *)

(***************************************************************************)
(* The UPDATE of a handler: the sources in S get status st and, exactly    *)
(* when ok, may be cited; v is the decision taken on them. The audit row   *)
(* is still to be written, and is written even if no source matched.       *)
(***************************************************************************)
AdminUpdate(S, st, ok, v, action, object) ==
  /\ adminOps < MaxAdminOps
  /\ adminOps' = adminOps + 1
  /\ status' = [s \in Sources |-> IF s \in S THEN st ELSE status[s]]
  /\ allowed' = [s \in Sources |-> IF s \in S THEN ok ELSE allowed[s]]
  /\ verdict' = [s \in Sources |-> IF s \in S THEN v ELSE verdict[s]]
  /\ pendingAudit' = pendingAudit \cup {[action |-> action, object |-> object]}
  /\ UNCHANGED <<chunks, gen, repairing, audit>>

Present(S) == {s \in S : status[s] # "absent"}
Blocked(S) == {s \in S : status[s] = "gesperrt"}

(* No look at the status: a stale page approves a blocked source. *)
TechnicalApprove(s) ==
  AdminUpdate({t \in Present({s}) : ClassOf[t] \in {"BLAU", "GRUEN"}},
              "freigegeben", TRUE, "approved", "source_technical_approve", s)

(* The handler as a bug would have it: it forgets citation_allowed. *)
BlockSourceKeepsCitation(s) ==
  /\ adminOps < MaxAdminOps
  /\ adminOps' = adminOps + 1
  /\ status' = [t \in Sources |-> IF t \in Present({s}) THEN "gesperrt" ELSE status[t]]
  /\ pendingAudit' = pendingAudit \cup {[action |-> "source_block", object |-> s]}
  /\ UNCHANGED <<allowed, verdict, chunks, gen, repairing, audit>>

BlockSource(s) ==
  AdminUpdate(Present({s}), "gesperrt", FALSE, "blocked", "source_block", s)

UnblockSource(s) ==
  AdminUpdate(Blocked({s}), "technisch_geprueft", FALSE, "none", "source_unblock", s)

UnblockAndApprove(s) ==
  AdminUpdate({t \in Blocked({s}) : ClassOf[t] \in {"GRUEN", "BLAU", "GELB"}},
              "freigegeben", TRUE, "approved", "source_unblock_and_approve", s)

ApproveAllEvg ==
  AdminUpdate({t \in Present(Sources) \ Blocked(Sources) :
                 /\ ImporterOf[t] \in EvgImporters
                 /\ ClassOf[t] \in {"BLAU", "GELB"}},
              "freigegeben", TRUE, "approved", "source_approve_all_evg", EvgGroup)

(* The second statement of a handler. *)
WriteAudit(e) ==
  /\ e \in pendingAudit
  /\ pendingAudit' = pendingAudit \ {e}
  /\ audit' = audit \cup {e}
  /\ UNCHANGED <<status, allowed, chunks, gen, repairing, verdict, adminOps>>

(* The application stops between the two statements of its handlers: what  *)
(* they decided stands, and no row says so.                                *)
LoseHandlers ==
  /\ pendingAudit' = {}
  /\ UNCHANGED <<status, allowed, chunks, gen, repairing, audit, verdict, adminOps>>

-----------------------------------------------------------------------------
ImportStep ==
  \/ \E s \in Sources : \/ ImportOfficial(s) \/ ImportBetrvg(s)
                        \/ ImportOfficialWeb(s) \/ ImportEvgPublic(s)
  \/ ImportEvgMember

RepairStep ==
  \E s \in Sources : \/ RepairSelect(s) \/ RepairApply(s)
                      \/ RepairApplyBeside(s) \/ RepairGiveUp(s)

AdminStep ==
  \/ \E s \in Sources : \/ TechnicalApprove(s) \/ BlockSource(s)
                        \/ UnblockSource(s) \/ UnblockAndApprove(s)
  \/ ApproveAllEvg
  \/ \E e \in pendingAudit : WriteAudit(e)

CatalogStep == ImportStep \/ RepairStep \/ AdminStep

CatalogNext == CatalogStep \/ (pendingAudit # {} /\ LoseHandlers)

CatalogSpec == CatalogInit /\ [][CatalogNext]_catalogVars
-----------------------------------------------------------------------------
(* Properties *)

(***************************************************************************)
(* The status a source shows and the flag every search filters by agree,   *)
(* whichever importer or handler touched the source last: the health check *)
(* counts "freigegeben" sources without citation_allowed and the converse  *)
(* as failures.                                                            *)
(***************************************************************************)
ApprovalConsistent ==
  \A s \in Sources : allowed[s] <=> status[s] = "freigegeben"

(***************************************************************************)
(* A source that no import approves (EVG, publishers' pages) is citable    *)
(* only by a decision taken on what was imported last: a fresh import has  *)
(* to be approved again, and a block is not lifted by importing.           *)
(***************************************************************************)
ApprovedSinceImport ==
  \A s \in Sources :
    allowed[s] /\ ImporterOf[s] \notin SelfApproving => verdict[s] = "approved"

(***************************************************************************)
(* At most one live chunk answers to a source and a locator, so the join   *)
(* by which an export resolves a citation whose chunk is gone never        *)
(* repeats a statement.                                                    *)
(***************************************************************************)
OneChunkPerLocator ==
  \A c, d \in chunks : c.src = d.src /\ c.loc = d.loc => c = d

(***************************************************************************)
(* A chunk carries the class of its source, which the import guard counts  *)
(* as chunk_class_mismatches: searches filter by the source's class while  *)
(* citations are labelled with the chunk's.                                *)
(***************************************************************************)
ChunkClassMatches == \A c \in chunks : c.class = ClassOf[c.src]

(***************************************************************************)
(* A decision or law in the catalogue, whose import looked at what it had  *)
(* downloaded, can be found: it has a chunk, even while tools rewrite it   *)
(* (approved_sources_without_chunks).                                      *)
(***************************************************************************)
OfficialHasChunks ==
  \A s \in Sources :
    status[s] # "absent" /\ ImporterOf[s] \in Validating => ChunksOf({s}) # {}

(***************************************************************************)
(* SOURCE-RULES.md: a blocked source is not usable. Stated of what an      *)
(* administrator blocked and nobody unblocked.                             *)
(***************************************************************************)
BlockedStaysUnusable == \A s \in Sources : verdict[s] = "blocked" => ~allowed[s]
=============================================================================
