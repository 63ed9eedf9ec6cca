---------------------------- MODULE KnowledgeBase ----------------------------
(***************************************************************************)
(* The knowledge base: the source catalogue together with the answer       *)
(* generators of app/main.py, which run concurrently with the importers,   *)
(* the repair tool and the administrator, each request in a thread.        *)
(*                                                                         *)
(* A generator reads approved chunks in several autonomous SELECTs, builds *)
(* its statements from what it read, and stores answer, statements,        *)
(* citations and audit row in one transaction. PostgreSQL runs it at READ  *)
(* COMMITTED: the foreign key of a citation is checked when it is inserted *)
(* and its chunk is locked against deletion until the transaction ends;    *)
(* nothing else holds between the reads and the commit.                    *)
(***************************************************************************)
EXTENDS SourceCatalog, Sequences

CONSTANTS Requests,    \* the answer requests of a behaviour; r also names its answer
          MaxPicks     \* bound: chunks a request reads (the code keeps 5, 6 or 10)

ASSUME PicksAssumption == MaxPicks \in Nat \ {0}

VARIABLES
  pc,        \* progress of a request
  mode,      \* its generator
  picks,     \* rows read; from "writing" on, rows still to be cited
  draft,     \* what its transaction has written and not committed
  approved,  \* sources approved at some time while it was reading (history)
  answers    \* the answers every connection can see

Store == INSTANCE AnswerStore WITH Requests <- Requests, ChunkRows <- ChunkRows, answers <- answers

requestVars == <<pc, mode, picks, draft, approved>>
vars == <<catalogVars, requestVars, answers>>

(***************************************************************************)
(* Generators: source snippets and the structured answer, both GRUEN-only  *)
(* and, for case-law questions, BAG-only; the tariff answer from GRUEN and *)
(* BLAU sources.                                                           *)
(***************************************************************************)
CaseLawModes == {"snippet_case_law", "structured_case_law"}
GreenModes == {"snippet", "structured"}
Modes == GreenModes \cup CaseLawModes \cup {"tariff"}

SnippetModes == {"snippet", "snippet_case_law"}

(* The source filter of the searches of generator m, without the approval. *)
Admissible(m, s) ==
  \/ m \in GreenModes /\ ClassOf[s] = "GRUEN"
  \/ m \in CaseLawModes /\ ClassOf[s] = "GRUEN" /\ ImporterOf[s] = "bag"
  \/ m = "tariff" /\ ClassOf[s] \in {"GRUEN", "BLAU"}

(***************************************************************************)
(* A norm named in the question is looked up by source_uid, without a      *)
(* class filter; case-law and snippet answers do not do that.              *)
(***************************************************************************)
LooksUpLaws(m) == m \in {"structured", "tariff"}

Phases == {"idle", "reading", "writing", "auditing", "done", "rejected", "failed"}

KBTypeOK ==
  /\ CatalogTypeOK
  /\ pc \in [Requests -> Phases]
  /\ mode \in [Requests -> Modes]
  /\ picks \in [Requests -> Seq(ChunkRows)]
  /\ draft \in [Requests -> Store!AnswerRows]
  /\ approved \in [Requests -> SUBSET Sources]
  /\ answers \in [Requests -> Store!AnswerRows]

KBInit ==
  /\ CatalogInit
  /\ pc = [r \in Requests |-> "idle"]
  /\ mode \in [Requests -> Modes]
  /\ picks = [r \in Requests |-> <<>>]
  /\ draft = [r \in Requests |-> Store!NoAnswer]
  /\ approved = [r \in Requests |-> {}]
  /\ Store!Init

-----------------------------------------------------------------------------
(* Reading *)

Start(r) ==
  /\ pc[r] = "idle"
  /\ pc' = [pc EXCEPT ![r] = "reading"]
  /\ UNCHANGED <<mode, picks, draft, answers>>

(* A search as a bug would have it: the approval is not looked at. *)
SearchHitsUnapproved(m) == {c \in chunks : Admissible(m, c.src)}

(* A search as a bug would have it: hint sources are not left out. *)
SearchHitsWithHints(m) ==
  {c \in chunks : allowed[c.src] /\ (Admissible(m, c.src) \/ m = "tariff")}

(* What a search of generator m can find now. *)
SearchHits(m) == {c \in chunks : allowed[c.src] /\ Admissible(m, c.src)}

(* What looking up a norm by its law can find now. *)
LawHits(m) ==
  {c \in chunks : LooksUpLaws(m) /\ allowed[c.src] /\ ImporterOf[c.src] \in {"law", "betrvg"}}

(***************************************************************************)
(* One hit of one SELECT: law references, full text, AND terms, keywords.  *)
(* Which chunk matches depends on the question. A chunk is kept once       *)
(* (diverse_chunks).                                                       *)
(***************************************************************************)
ReadHit(r) ==
  /\ pc[r] = "reading"
  /\ Len(picks[r]) < MaxPicks
  /\ \E c \in SearchHits(mode[r]) \cup LawHits(mode[r]) :
       /\ \A i \in DOMAIN picks[r] : picks[r][i] # c
       /\ picks' = [picks EXCEPT ![r] = Append(@, c)]
  /\ UNCHANGED <<pc, mode, draft, answers>>

(***************************************************************************)
(* source_hit_chunks: the detail sections leave out the chunk the short    *)
(* answer has cited, unless it is the only one.                            *)
(***************************************************************************)
SourceHitChunks(q) == IF Len(q) <= 1 THEN q ELSE Tail(q)

(* The chunks of the statements, in order: a structured answer begins with *)
(* the short answer, which cites the first hit.                            *)
StatementChunks(m, q) ==
  IF m \in SnippetModes THEN q ELSE <<Head(q)>> \o SourceHitChunks(q)

(* Nothing found: 400, no answer without a source. *)
Reject(r) ==
  /\ pc[r] = "reading"
  /\ picks[r] = <<>>
  /\ pc' = [pc EXCEPT ![r] = "rejected"]
  /\ UNCHANGED <<mode, picks, draft, answers>>

(* The generator as a bug would have it: it stores what it has, if anything. *)
BeginAnswerUnchecked(r) ==
  /\ pc[r] = "reading"
  /\ picks' = [picks EXCEPT ![r] = IF @ = <<>> THEN @ ELSE StatementChunks(mode[r], @)]
  /\ draft' = [draft EXCEPT ![r].row = TRUE]
  /\ pc' = [pc EXCEPT ![r] = IF picks[r] = <<>> THEN "auditing" ELSE "writing"]
  /\ UNCHANGED <<mode, answers>>

(* INSERT INTO answers opens the transaction. *)
BeginAnswer(r) ==
  /\ pc[r] = "reading"
  /\ picks[r] # <<>>
  /\ picks' = [picks EXCEPT ![r] = StatementChunks(mode[r], @)]
  /\ draft' = [draft EXCEPT ![r].row = TRUE]
  /\ pc' = [pc EXCEPT ![r] = "writing"]
  /\ UNCHANGED <<mode, answers>>

-----------------------------------------------------------------------------
(* The transaction of create_cited_answer_record *)

Cite(c) == [row |-> c, linked |-> TRUE]

(* The transaction as a bug would have it: every statement commits. *)
WriteStatementAutocommit(r) ==
  /\ pc[r] = "writing"
  /\ picks[r] # <<>> /\ Head(picks[r]) \in chunks
  /\ draft' = [draft EXCEPT ![r].items = Append(@, Cite(Head(picks[r])))]
  /\ answers' = [answers EXCEPT ![r] = draft'[r]]
  /\ picks' = [picks EXCEPT ![r] = Tail(@)]
  /\ pc' = [pc EXCEPT ![r] = IF Len(picks[r]) = 1 THEN "auditing" ELSE @]
  /\ UNCHANGED mode

(* The insertion as a bug would have it: a refused citation is tried again. *)
CitationRetried(r) ==
  /\ pc[r] = "writing"
  /\ picks[r] # <<>> /\ Head(picks[r]) \notin chunks
  /\ UNCHANGED <<pc, mode, picks, draft, answers>>

(* INSERT of a statement and of its citation: the cited chunk exists. *)
WriteStatement(r) ==
  /\ pc[r] = "writing"
  /\ picks[r] # <<>> /\ Head(picks[r]) \in chunks
  /\ draft' = [draft EXCEPT ![r].items = Append(@, Cite(Head(picks[r])))]
  /\ picks' = [picks EXCEPT ![r] = Tail(@)]
  /\ pc' = [pc EXCEPT ![r] = IF Len(picks[r]) = 1 THEN "auditing" ELSE @]
  /\ UNCHANGED <<mode, answers>>

(* Rolled back: nothing was ever visible, the thread answers 500. *)
Abort(r) ==
  /\ pc' = [pc EXCEPT ![r] = "failed"]
  /\ picks' = [picks EXCEPT ![r] = <<>>]
  /\ draft' = [draft EXCEPT ![r] = Store!NoAnswer]
  /\ UNCHANGED <<mode, answers>>

(* The chunk was deleted since it was read: foreign key violation. *)
CitationRefused(r) ==
  /\ pc[r] = "writing"
  /\ picks[r] # <<>> /\ Head(picks[r]) \notin chunks
  /\ Abort(r)

(* INSERT INTO audit_log and COMMIT; the locks are released. *)
Commit(r) ==
  /\ pc[r] = "auditing"
  /\ answers' = [answers EXCEPT ![r] = [draft[r] EXCEPT !.audited = TRUE]]
  /\ draft' = [draft EXCEPT ![r] = Store!NoAnswer]
  /\ pc' = [pc EXCEPT ![r] = "done"]
  /\ UNCHANGED <<mode, picks>>

RequestStep(r) ==
  \/ Start(r) \/ ReadHit(r) \/ Reject(r) \/ BeginAnswer(r)
  \/ WriteStatement(r) \/ CitationRefused(r) \/ Commit(r)

-----------------------------------------------------------------------------
(* The catalogue moves under the answers *)

(* Chunks whose rows a transaction in flight has locked (FOR KEY SHARE). *)
Locked == UNION {{draft[r].items[i].row : i \in DOMAIN draft[r].items} : r \in Requests}

(* ON DELETE SET NULL on answer_citations.chunk_id. *)
UnlinkRows(a, gone) ==
  [a EXCEPT !.items = [i \in DOMAIN a.items |->
     [row |-> a.items[i].row, linked |-> a.items[i].linked /\ a.items[i].row \notin gone]]]

(* The deletion as a bug would have it: ON DELETE CASCADE on the citation. *)
DropDeletedCitations ==
  /\ Locked \cap (chunks \ chunks') = {}
  /\ answers' = [r \in Requests |->
       [answers[r] EXCEPT !.items =
          SelectSeq(@, LAMBDA c : ~c.linked \/ c.row \notin chunks \ chunks')]]

(* The deletion as a bug would have it: no foreign key, links dangle. *)
DeleteWithoutForeignKey == UNCHANGED answers

(***************************************************************************)
(* A step that deletes chunks waits for the transactions that have just    *)
(* cited them, and unlinks the committed citations.                        *)
(***************************************************************************)
DeletedChunksUnlinked ==
  /\ Locked \cap (chunks \ chunks') = {}
  /\ answers' = [r \in Requests |-> UnlinkRows(answers[r], chunks \ chunks')]

InFlight == {r \in Requests : pc[r] \in {"reading", "writing", "auditing"}}

(* The application process stops: its threads and their transactions go. *)
Crash ==
  /\ InFlight # {} \/ pendingAudit # {}
  /\ LoseHandlers
  /\ pc' = [r \in Requests |-> IF r \in InFlight THEN "failed" ELSE pc[r]]
  /\ picks' = [r \in Requests |-> IF r \in InFlight THEN <<>> ELSE picks[r]]
  /\ draft' = [r \in Requests |-> Store!NoAnswer]
  /\ UNCHANGED <<mode, answers>>

(* History: what was approved while a request was reading. *)
RecordApproved ==
  approved' = [r \in Requests |->
    approved[r] \cup (IF pc'[r] = "reading" THEN {s \in Sources : allowed'[s]} ELSE {})]

CatalogChange ==
  /\ CatalogStep
  /\ DeletedChunksUnlinked
  /\ UNCHANGED <<pc, mode, picks, draft>>

RequestChange == (\E r \in Requests : RequestStep(r)) /\ UNCHANGED catalogVars

KBNext == (CatalogChange \/ RequestChange \/ Crash) /\ RecordApproved

KBSpec == KBInit /\ [][KBNext]_vars

(***************************************************************************)
(* A started request is served by its thread until it ends. Nothing else   *)
(* is owed: users, administrators, timers and operators may stay away.     *)
(***************************************************************************)
Serve(r) == pc[r] # "idle" /\ RequestStep(r) /\ UNCHANGED catalogVars /\ RecordApproved

KBFairSpec == KBSpec /\ \A r \in Requests : WF_vars(Serve(r))
-----------------------------------------------------------------------------
(* Properties *)

Citations(r) == {answers[r].items[i] : i \in DOMAIN answers[r].items}

(***************************************************************************)
(* create_cited_answer_record: no reader ever finds an answer without      *)
(* statements, a statement without citation, or an answer without its      *)
(* audit row, whatever failed on the way.                                  *)
(***************************************************************************)
AnswersComplete ==
  \A r \in Requests : answers[r] = Store!NoAnswer \/ Store!Complete(answers[r])

(***************************************************************************)
(* A citation that still links to a chunk links to a live row, although    *)
(* importers delete and re-insert chunks while answers are being written.  *)
(***************************************************************************)
LinkedChunksExist ==
  \A r \in Requests : \A cit \in Citations(r) : cit.linked => cit.row \in chunks

(***************************************************************************)
(* Every source an answer cites was approved at some moment while the      *)
(* generator was reading: nothing that was blocked or unapproved for the   *)
(* whole of the reading phase is cited.                                    *)
(***************************************************************************)
CitedWhileApproved ==
  \A r \in Requests : \A cit \in Citations(r) : cit.row.src \in approved[r]

(***************************************************************************)
(* The class an answer shows at a citation is the class of the source, and *)
(* one its generator may use: GRUEN-only answers, BAG-only case-law        *)
(* answers, tariff answers without GELB hint sources.                      *)
(***************************************************************************)
ClassFitsGenerator ==
  \A r \in Requests : \A cit \in Citations(r) :
    /\ cit.row.class = ClassOf[cit.row.src]
    /\ mode[r] \in GreenModes => cit.row.class = "GRUEN"
    /\ mode[r] \in CaseLawModes => ImporterOf[cit.row.src] = "bag"
    /\ cit.row.class \in {"GRUEN", "BLAU"}

(* The chunk rows the joins of the export find for a citation. *)
ResolvedRows(cit) ==
  IF cit.linked THEN {cit.row}
  ELSE {c \in chunks : /\ cit.row.direct
                       /\ c.src = cit.row.src /\ c.loc = cit.row.loc}

(***************************************************************************)
(* The export prints each statement once: resolving a citation by its      *)
(* internal_ref, after its chunk was replaced, finds at most one row.      *)
(***************************************************************************)
StatementExportedOnce ==
  \A r \in Requests : \A cit \in Citations(r) :
    \A c, d \in ResolvedRows(cit) : c = d

(***************************************************************************)
(* The answer tables behave as AnswerStore promises: an answer appears     *)
(* complete, in one step, and nothing but its links changes afterwards.    *)
(***************************************************************************)
StoreImplemented == Store!Spec

(***************************************************************************)
(* A started request ends, stored, rejected or failed, although importers  *)
(* may delete the chunks it is about to cite.                              *)
(***************************************************************************)
RequestsEnd ==
  \A r \in Requests : pc[r] = "reading" ~> pc[r] \in {"done", "rejected", "failed"}
=============================================================================
