------------------------- MODULE KnowledgeBaseProofs -------------------------
(***************************************************************************)
(* Proofs about KnowledgeBase: whatever importers, repairs, administrators *)
(* and crashes do in between, answers appear complete, their links stay    *)
(* sound, and the answer tables implement AnswerStore.                     *)
(*                                                                         *)
(* The invariant ties the phase of a request to what its transaction holds *)
(* and to what is visible of its answer (PhaseInv), and says that the rows *)
(* cited by a transaction in flight exist (DraftInv): the locks keep them. *)
(***************************************************************************)
EXTENDS KnowledgeBase, SourceCatalogProofs

RequestTypes ==
  /\ pc \in [Requests -> Phases]
  /\ mode \in [Requests -> Modes]
  /\ picks \in [Requests -> Seq(ChunkRows)]
  /\ draft \in [Requests -> Store!AnswerRows]
  /\ answers \in [Requests -> Store!AnswerRows]

PhaseInv ==
  \A r \in Requests :
    /\ pc[r] \notin {"writing", "auditing"} => draft[r] = Store!NoAnswer
    /\ pc[r] \in {"writing", "auditing"} => draft[r].row
    /\ pc[r] = "auditing" => draft[r].items # <<>>
    /\ pc[r] # "done" => answers[r] = Store!NoAnswer
    /\ pc[r] = "done" => Store!Complete(answers[r])

DraftInv ==
  \A r \in Requests : \A i \in DOMAIN draft[r].items :
    draft[r].items[i].linked /\ draft[r].items[i].row \in chunks

KBInv == KBTypeOK /\ PhaseInv /\ DraftInv /\ LinkedChunksExist

-----------------------------------------------------------------------------
(* Data *)

LEMMA NoAnswerTyped == Store!NoAnswer \in Store!AnswerRows
  BY DEF Store!NoAnswer, Store!AnswerRows

(* Unlinking keeps the rows, their order and everything but the links. *)
LEMMA UnlinkRowsSame ==
  ASSUME NEW a \in Store!AnswerRows, NEW gone
  PROVE  /\ UnlinkRows(a, gone) \in Store!AnswerRows
         /\ Store!SameButUnlinked(a, UnlinkRows(a, gone))
         /\ \A i \in DOMAIN a.items :
              UnlinkRows(a, gone).items[i].linked => a.items[i].row \notin gone
         /\ Store!Complete(a) => Store!Complete(UnlinkRows(a, gone))
         /\ a = Store!NoAnswer => UnlinkRows(a, gone) = Store!NoAnswer
  <1> DEFINE items == [i \in DOMAIN a.items |->
                         [row |-> a.items[i].row,
                          linked |-> a.items[i].linked /\ a.items[i].row \notin gone]]
  <1>1. a.items \in Seq(Store!Citation) /\ DOMAIN a.items = 1..Len(a.items) /\ Len(a.items) \in Nat
    BY DEF Store!AnswerRows
  <1>2. ASSUME NEW i \in DOMAIN a.items
        PROVE  /\ items[i] \in Store!Citation
               /\ items[i].row = a.items[i].row
               /\ items[i].linked => a.items[i].linked /\ a.items[i].row \notin gone
    <2> DEFINE kept == a.items[i].linked /\ a.items[i].row \notin gone
    <2>1. a.items[i] \in Store!Citation
      BY <1>1
    <2>2. a.items[i].row \in ChunkRows /\ kept \in BOOLEAN
      BY <2>1 DEF Store!Citation
    <2>3. items[i] = [row |-> a.items[i].row, linked |-> kept]
      OBVIOUS
    <2>4. kept => a.items[i].linked /\ a.items[i].row \notin gone
      OBVIOUS
    <2> HIDE DEF kept, items
    <2>5. QED BY <2>2, <2>3, <2>4 DEF Store!Citation
  <1>3. items \in Seq(Store!Citation) /\ DOMAIN items = DOMAIN a.items
    <2>1. DOMAIN items = DOMAIN a.items
      OBVIOUS
    <2>2. items = [i \in DOMAIN a.items |-> items[i]]
      OBVIOUS
    <2> HIDE DEF items
    <2>3. items \in [1..Len(a.items) -> Store!Citation]
      BY <1>1, <1>2, <2>1, <2>2
    <2>4. QED BY <1>1, <2>1, <2>3
  <1> HIDE DEF items
  <1>4. UnlinkRows(a, gone) = [a EXCEPT !.items = items]
    BY DEF UnlinkRows, items
  <1>5. UnlinkRows(a, gone) = [row |-> a.row, items |-> items, audited |-> a.audited]
    BY <1>4 DEF Store!AnswerRows
  <1>6. UnlinkRows(a, gone) \in Store!AnswerRows
    BY <1>3, <1>5 DEF Store!AnswerRows
  <1>7. Store!SameButUnlinked(a, UnlinkRows(a, gone))
    BY <1>2, <1>3, <1>5 DEF Store!SameButUnlinked
  <1>8. a.items = <<>> <=> items = <<>>
    BY <1>1, <1>3
  <1>9. Store!Complete(a) => Store!Complete(UnlinkRows(a, gone))
    BY <1>5, <1>8 DEF Store!Complete
  <1>10. a = Store!NoAnswer => UnlinkRows(a, gone) = Store!NoAnswer
    BY <1>5, <1>8 DEF Store!NoAnswer
  <1>11. QED BY <1>2, <1>5, <1>6, <1>7, <1>9, <1>10
(* Records with one field changed, written out. *)
LEMMA AnswerUpdates ==
  ASSUME NEW a \in Store!AnswerRows, NEW items, NEW b
  PROVE  /\ [a EXCEPT !.audited = b] = [row |-> a.row, items |-> a.items, audited |-> b]
         /\ [a EXCEPT !.row = b] = [row |-> b, items |-> a.items, audited |-> a.audited]
         /\ [a EXCEPT !.items = items] = [row |-> a.row, items |-> items, audited |-> a.audited]
  <1>1. a = [row |-> a.row, items |-> a.items, audited |-> a.audited]
    BY DEF Store!AnswerRows
  <1>2. QED BY <1>1

LEMMA AppendItems ==
  ASSUME NEW T, NEW q \in Seq(T), NEW e \in T
  PROVE  /\ Append(q, e) \in Seq(T)
         /\ Append(q, e) # <<>>
         /\ \A i \in DOMAIN Append(q, e) :
              Append(q, e)[i] = e \/ (i \in DOMAIN q /\ Append(q, e)[i] = q[i])
  <1>1. /\ Append(q, e) \in Seq(T) /\ Len(Append(q, e)) = Len(q) + 1 /\ Len(q) \in Nat
        /\ DOMAIN q = 1..Len(q) /\ DOMAIN Append(q, e) = 1..Len(Append(q, e))
    OBVIOUS
  <1>2. ASSUME NEW i \in 1..(Len(q) + 1)
        PROVE  Append(q, e)[i] = e \/ (i \in 1..Len(q) /\ Append(q, e)[i] = q[i])
    BY <1>1
  <1>3. Append(q, e) # <<>>
    BY <1>1
  <1>4. QED BY <1>1, <1>2, <1>3

LEMMA StatementChunksTyped ==
  ASSUME NEW q \in Seq(ChunkRows), q # <<>>, NEW m
  PROVE  StatementChunks(m, q) \in Seq(ChunkRows)
  <1>1. Head(q) \in ChunkRows /\ Tail(q) \in Seq(ChunkRows)
    OBVIOUS
  <1>2. SourceHitChunks(q) \in Seq(ChunkRows)
    BY <1>1 DEF SourceHitChunks
  <1>3. <<Head(q)>> \o SourceHitChunks(q) \in Seq(ChunkRows)
    BY <1>1, <1>2
  <1>4. QED BY <1>3 DEF StatementChunks

-----------------------------------------------------------------------------
(* Requests *)

LEMMA ReadingStepInv ==
  ASSUME KBInv, NEW r \in Requests, Start(r) \/ ReadHit(r) \/ Reject(r), UNCHANGED catalogVars
  PROVE  RequestTypes' /\ PhaseInv' /\ DraftInv' /\ LinkedChunksExist'
  <1> USE DEF KBInv, KBTypeOK
  <1>1. UNCHANGED <<mode, draft, answers, chunks>>
    BY DEF Start, ReadHit, Reject, catalogVars
  <1>2. DraftInv' /\ LinkedChunksExist'
    BY <1>1 DEF DraftInv, LinkedChunksExist, Citations
  <1>3. pc' \in [Requests -> Phases] /\ picks' \in [Requests -> Seq(ChunkRows)]
    <2>1. CASE Start(r)
      BY <2>1 DEF Start, Phases
    <2>2. CASE ReadHit(r)
      <3>1. PICK c \in SearchHits(mode[r]) \cup LawHits(mode[r]) :
              picks' = [picks EXCEPT ![r] = Append(@, c)]
        BY <2>2 DEF ReadHit
      <3>2. c \in ChunkRows
        BY DEF SearchHits, LawHits, CatalogTypeOK
      <3>3. Append(picks[r], c) \in Seq(ChunkRows)
        BY <3>2
      <3>4. QED BY <2>2, <3>1, <3>3 DEF ReadHit
    <2>3. CASE Reject(r)
      BY <2>3 DEF Reject, Phases
    <2>4. QED BY <2>1, <2>2, <2>3
  <1>4. PhaseInv'
    <2>1. \A q \in Requests : \/ pc'[q] = pc[q]
                              \/ /\ pc[q] \in {"idle", "reading"}
                                 /\ pc'[q] \in {"reading", "rejected"}
      BY DEF Start, ReadHit, Reject
    <2>2. QED BY <1>1, <2>1 DEF PhaseInv
  <1>5. QED BY <1>1, <1>2, <1>3, <1>4 DEF RequestTypes

LEMMA BeginAnswerInv ==
  ASSUME KBInv, NEW r \in Requests, BeginAnswer(r), UNCHANGED catalogVars
  PROVE  RequestTypes' /\ PhaseInv' /\ DraftInv' /\ LinkedChunksExist'
  <1> USE DEF KBInv, KBTypeOK
  <1>1. StatementChunks(mode[r], picks[r]) \in Seq(ChunkRows)
    BY StatementChunksTyped DEF BeginAnswer
  <1>2. draft[r] = Store!NoAnswer /\ answers[r] = Store!NoAnswer
    BY DEF BeginAnswer, PhaseInv
  <1>3. draft' = [draft EXCEPT ![r] = [row |-> TRUE, items |-> <<>>, audited |-> FALSE]]
    <2>1. [draft[r] EXCEPT !.row = TRUE] = [row |-> TRUE, items |-> draft[r].items, audited |-> draft[r].audited]
      BY AnswerUpdates
    <2>2. draft[r].items = <<>> /\ draft[r].audited = FALSE
      BY <1>2 DEF Store!NoAnswer
    <2>3. QED BY <2>1, <2>2 DEF BeginAnswer
  <1>4. [row |-> TRUE, items |-> <<>>, audited |-> FALSE] \in Store!AnswerRows
    BY DEF Store!AnswerRows
  <1>5. RequestTypes'
    BY <1>1, <1>3, <1>4 DEF RequestTypes, BeginAnswer, Phases
  <1>6. PhaseInv'
    BY <1>2, <1>3 DEF PhaseInv, BeginAnswer
  <1>7. DraftInv' /\ LinkedChunksExist'
    BY <1>3 DEF DraftInv, LinkedChunksExist, Citations, BeginAnswer, catalogVars
  <1>8. QED BY <1>5, <1>6, <1>7

(* The citation is checked and locked when it is inserted. *)
LEMMA WriteStatementInv ==
  ASSUME KBInv, NEW r \in Requests, WriteStatement(r), UNCHANGED catalogVars
  PROVE  RequestTypes' /\ PhaseInv' /\ DraftInv' /\ LinkedChunksExist'
  <1> USE DEF KBInv, KBTypeOK
  <1> DEFINE c == Head(picks[r])
             items == Append(draft[r].items, Cite(c))
  <1>1. c \in chunks /\ c \in ChunkRows /\ Tail(picks[r]) \in Seq(ChunkRows)
    BY DEF WriteStatement, CatalogTypeOK
  <1>2. Cite(c) \in Store!Citation /\ Cite(c).linked /\ Cite(c).row = c
    BY <1>1 DEF Cite, Store!Citation
  <1>3. draft[r].items \in Seq(Store!Citation)
    BY DEF Store!AnswerRows
  <1>4. /\ items \in Seq(Store!Citation) /\ items # <<>>
        /\ \A i \in DOMAIN items : items[i] = Cite(c) \/ \E j \in DOMAIN draft[r].items : items[i] = draft[r].items[j]
    <2>1. /\ items \in Seq(Store!Citation)
          /\ items # <<>>
          /\ \A i \in DOMAIN items :
               items[i] = Cite(c) \/ (i \in DOMAIN draft[r].items /\ items[i] = draft[r].items[i])
      <3> DEFINE q == draft[r].items
                 e == Cite(c)
      <3>1. q \in Seq(Store!Citation) /\ e \in Store!Citation
        BY <1>2, <1>3
      <3>2. items = Append(q, e)
        OBVIOUS
      <3> HIDE DEF q, e, items
      <3>3. /\ Append(q, e) \in Seq(Store!Citation)
            /\ Append(q, e) # <<>>
            /\ \A i \in DOMAIN Append(q, e) :
                 Append(q, e)[i] = e \/ (i \in DOMAIN q /\ Append(q, e)[i] = q[i])
        BY <3>1, AppendItems
      <3>4. QED BY <3>2, <3>3 DEF q, e
    <2> HIDE DEF items
    <2>2. QED BY <2>1
  <1> HIDE DEF items, c
  <1>5. draft' = [draft EXCEPT ![r] = [row |-> draft[r].row, items |-> items, audited |-> draft[r].audited]]
    <2>1. [draft[r] EXCEPT !.items = items] = [row |-> draft[r].row, items |-> items, audited |-> draft[r].audited]
      BY AnswerUpdates
    <2>2. draft' = [draft EXCEPT ![r] = [draft[r] EXCEPT !.items = items]]
      BY DEF WriteStatement, items, c
    <2>3. QED BY <2>1, <2>2
  <1>6. [row |-> draft[r].row, items |-> items, audited |-> draft[r].audited] \in Store!AnswerRows
    BY <1>4 DEF Store!AnswerRows
  <1>7. RequestTypes'
    BY <1>1, <1>5, <1>6 DEF RequestTypes, WriteStatement, Phases
  <1>8. /\ draft'[r].row = draft[r].row /\ draft'[r].items = items
        /\ \A q \in Requests \ {r} : draft'[q] = draft[q]
    BY <1>5
  <1>9. PhaseInv'
    BY <1>4, <1>8 DEF PhaseInv, WriteStatement
  <1>10. DraftInv'
    <2>1. ASSUME NEW i \in DOMAIN items PROVE items[i].linked /\ items[i].row \in chunks
      BY <1>1, <1>2, <1>4 DEF DraftInv
    <2>2. QED BY <1>8, <2>1 DEF DraftInv, catalogVars
  <1>11. LinkedChunksExist'
    BY DEF LinkedChunksExist, Citations, WriteStatement, catalogVars
  <1>12. QED BY <1>7, <1>9, <1>10, <1>11

LEMMA CitationRefusedInv ==
  ASSUME KBInv, NEW r \in Requests, CitationRefused(r), UNCHANGED catalogVars
  PROVE  RequestTypes' /\ PhaseInv' /\ DraftInv' /\ LinkedChunksExist'
  <1> USE DEF KBInv, KBTypeOK, CitationRefused, Abort
  <1>1. RequestTypes'
    BY NoAnswerTyped DEF RequestTypes, Phases
  <1>2. PhaseInv'
    BY DEF PhaseInv
  <1>3. DraftInv' /\ LinkedChunksExist'
    BY DEF DraftInv, LinkedChunksExist, Citations, catalogVars, Store!NoAnswer
  <1>4. QED BY <1>1, <1>2, <1>3

(* What becomes visible: the draft, complete and with its links alive. *)
LEMMA CommitInv ==
  ASSUME KBInv, NEW r \in Requests, Commit(r), UNCHANGED catalogVars
  PROVE  /\ RequestTypes' /\ PhaseInv' /\ DraftInv' /\ LinkedChunksExist'
         /\ Store!Publish(r)
  <1> USE DEF KBInv, KBTypeOK
  <1>1. /\ draft[r] \in Store!AnswerRows /\ draft[r].row /\ draft[r].items # <<>>
        /\ answers[r] = Store!NoAnswer
    BY DEF Commit, PhaseInv
  <1> DEFINE a == [row |-> draft[r].row, items |-> draft[r].items, audited |-> TRUE]
  <1>2. answers' = [answers EXCEPT ![r] = a]
    <2>1. [draft[r] EXCEPT !.audited = TRUE] = a
      BY <1>1, AnswerUpdates
    <2>2. QED BY <2>1 DEF Commit
  <1>3. a \in Store!AnswerRows /\ Store!Complete(a)
    BY <1>1 DEF Store!AnswerRows, Store!Complete
  <1>4. \A i \in DOMAIN a.items : a.items[i].linked /\ a.items[i].row \in chunks
    BY DEF DraftInv
  <1> HIDE DEF a
  <1>5. RequestTypes'
    BY <1>2, <1>3, NoAnswerTyped DEF RequestTypes, Commit, Phases
  <1>6. PhaseInv'
    BY <1>2, <1>3 DEF PhaseInv, Commit
  <1>7. DraftInv'
    BY DEF DraftInv, Commit, catalogVars, Store!NoAnswer
  <1>8. LinkedChunksExist'
    BY <1>2, <1>4 DEF LinkedChunksExist, Citations, catalogVars
  <1>9. Store!Publish(r)
    BY <1>1, <1>2, <1>3, <1>4 DEF Store!Publish
  <1>10. QED BY <1>5, <1>6, <1>7, <1>8, <1>9
LEMMA RequestStepInv ==
  ASSUME KBInv, NEW r \in Requests, RequestStep(r), UNCHANGED catalogVars
  PROVE  /\ RequestTypes' /\ PhaseInv' /\ DraftInv' /\ LinkedChunksExist'
         /\ Store!Publish(r) \/ UNCHANGED answers
  <1>1. CASE Start(r) \/ ReadHit(r) \/ Reject(r)
    BY <1>1, ReadingStepInv DEF Start, ReadHit, Reject
  <1>2. CASE BeginAnswer(r)
    BY <1>2, BeginAnswerInv DEF BeginAnswer
  <1>3. CASE WriteStatement(r)
    BY <1>3, WriteStatementInv DEF WriteStatement
  <1>4. CASE CitationRefused(r)
    BY <1>4, CitationRefusedInv DEF CitationRefused, Abort
  <1>5. CASE Commit(r)
    BY <1>5, CommitInv
  <1>6. QED BY <1>1, <1>2, <1>3, <1>4, <1>5 DEF RequestStep

-----------------------------------------------------------------------------
(* The catalogue moves, the application stops *)

(* A deletion waits for the transactions that cite its rows, and unlinks   *)
(* the citations that are already visible.                                 *)
LEMMA CatalogChangeInv ==
  ASSUME KBInv, CatalogChange
  PROVE  /\ RequestTypes' /\ PhaseInv' /\ DraftInv' /\ LinkedChunksExist'
         /\ Store!Unlink
  <1> USE DEF KBInv, KBTypeOK
  <1> DEFINE gone == chunks \ chunks'
  <1>1. /\ Locked \cap gone = {}
        /\ answers' = [r \in Requests |-> UnlinkRows(answers[r], gone)]
        /\ UNCHANGED <<pc, mode, picks, draft>>
    BY DEF CatalogChange, DeletedChunksUnlinked
  <1>2. ASSUME NEW r \in Requests
        PROVE  /\ answers'[r] \in Store!AnswerRows
               /\ Store!SameButUnlinked(answers[r], answers'[r])
               /\ \A i \in DOMAIN answers[r].items :
                    answers'[r].items[i].linked => answers[r].items[i].row \notin gone
               /\ Store!Complete(answers[r]) => Store!Complete(answers'[r])
               /\ answers[r] = Store!NoAnswer => answers'[r] = Store!NoAnswer
    <2> HIDE DEF gone
    <2>1. answers'[r] = UnlinkRows(answers[r], gone) /\ answers[r] \in Store!AnswerRows
      BY <1>1
    <2>2. QED BY <2>1, UnlinkRowsSame
  <1>3. RequestTypes'
    <2>1. answers' = [r \in Requests |-> answers'[r]]
      BY <1>1
    <2>2. answers' \in [Requests -> Store!AnswerRows]
      BY <1>2, <2>1
    <2>3. QED BY <1>1, <2>2 DEF RequestTypes
  <1>4. PhaseInv'
    BY <1>1, <1>2 DEF PhaseInv
  <1>5. DraftInv'
    <2>1. ASSUME NEW r \in Requests, NEW i \in DOMAIN draft[r].items
          PROVE  draft[r].items[i].linked /\ draft[r].items[i].row \in chunks'
      <3>1. draft[r].items[i].row \in Locked
        BY DEF Locked
      <3>2. QED BY <1>1, <3>1 DEF DraftInv
    <2>2. QED BY <1>1, <2>1 DEF DraftInv
  <1>6. LinkedChunksExist'
    <2>1. ASSUME NEW r \in Requests, NEW i \in DOMAIN answers'[r].items,
                 answers'[r].items[i].linked
          PROVE  answers'[r].items[i].row \in chunks'
      <3>1. /\ i \in DOMAIN answers[r].items
            /\ answers'[r].items[i].row = answers[r].items[i].row
            /\ answers[r].items[i].linked
            /\ answers[r].items[i].row \notin gone
        BY <1>2, <2>1 DEF Store!SameButUnlinked
      <3>2. QED BY <3>1 DEF LinkedChunksExist, Citations
    <2>2. QED BY <2>1 DEF LinkedChunksExist, Citations
  <1>7. Store!Unlink
    BY <1>2 DEF Store!Unlink
  <1>8. QED BY <1>3, <1>4, <1>5, <1>6, <1>7

LEMMA CrashInv ==
  ASSUME KBInv, Crash
  PROVE  RequestTypes' /\ PhaseInv' /\ DraftInv' /\ LinkedChunksExist'
  <1> USE DEF KBInv, KBTypeOK
  <1>1. UNCHANGED <<mode, answers, chunks>>
    BY DEF Crash, LoseHandlers
  <1>2. \A r \in Requests : draft'[r] = Store!NoAnswer
    BY DEF Crash
  <1>3. RequestTypes'
    BY <1>1, NoAnswerTyped DEF RequestTypes, Crash, Phases
  <1>4. PhaseInv'
    BY <1>1, <1>2 DEF PhaseInv, Crash, InFlight
  <1>5. DraftInv' /\ LinkedChunksExist'
    BY <1>1, <1>2 DEF DraftInv, LinkedChunksExist, Citations, Store!NoAnswer
  <1>6. QED BY <1>3, <1>4, <1>5

-----------------------------------------------------------------------------
(* The invariant *)

LEMMA KBInitInv == KBInit => KBInv
  <1> SUFFICES ASSUME KBInit PROVE KBInv
    OBVIOUS
  <1>1. CatalogTypeOK
    BY CatalogInitTyped DEF KBInit
  <1>2. KBTypeOK
    BY <1>1, NoAnswerTyped DEF KBInit, KBTypeOK, Phases, Store!Init
  <1>3. PhaseInv /\ DraftInv /\ LinkedChunksExist
    BY DEF KBInit, PhaseInv, DraftInv, LinkedChunksExist, Citations, Store!Init, Store!NoAnswer
  <1>4. QED BY <1>2, <1>3 DEF KBInv

LEMMA KBNextInv == KBInv /\ KBNext => KBInv'
  <1> SUFFICES ASSUME KBInv, KBNext PROVE KBInv'
    OBVIOUS
  <1>1. CatalogTypeOK'
    <2>1. CatalogTypeOK
      BY DEF KBInv, KBTypeOK
    <2>2. CASE CatalogChange
      BY <2>1, <2>2, CatalogStepTyped DEF CatalogChange
    <2>3. CASE RequestChange
      BY <2>1, <2>3 DEF RequestChange, CatalogTypeOK, catalogVars
    <2>4. CASE Crash
      BY <2>1, <2>4, LoseHandlersTyped DEF Crash
    <2>5. QED BY <2>2, <2>3, <2>4 DEF KBNext
  <1>2. RequestTypes' /\ PhaseInv' /\ DraftInv' /\ LinkedChunksExist'
    BY CatalogChangeInv, RequestStepInv, CrashInv DEF KBNext, RequestChange
  <1>3. approved' \in [Requests -> SUBSET Sources]
    BY DEF KBNext, RecordApproved, KBInv, KBTypeOK
  <1>4. KBTypeOK'
    BY <1>1, <1>2, <1>3 DEF KBTypeOK, RequestTypes
  <1>5. QED BY <1>2, <1>4 DEF KBInv

LEMMA KBUnchangedInv == KBInv /\ UNCHANGED vars => KBInv'
  BY DEF vars, catalogVars, requestVars, KBInv, KBTypeOK, CatalogTypeOK, PhaseInv, DraftInv,
         LinkedChunksExist, Citations

LEMMA KBInvariant == KBSpec => []KBInv
  <1>1. KBInv /\ [KBNext]_vars => KBInv'
    BY KBNextInv, KBUnchangedInv
  <1>2. QED BY KBInitInv, <1>1, PTL DEF KBSpec

(* The variables hold what their tables and the threads can hold.          *)
THEOREM KBTypeCorrect == KBSpec => []KBTypeOK
  <1>1. KBInv => KBTypeOK
    BY DEF KBInv
  <1>2. QED BY KBInvariant, <1>1, PTL

(* No reader ever finds a partial answer: the docstring's promise.         *)
THEOREM AnswersAppearComplete == KBSpec => []AnswersComplete
  <1>1. KBInv => AnswersComplete
    BY DEF KBInv, PhaseInv, AnswersComplete
  <1>2. QED BY KBInvariant, <1>1, PTL

(* A link of a visible citation never dangles.                             *)
THEOREM LinksAlive == KBSpec => []LinkedChunksExist
  <1>1. KBInv => LinkedChunksExist
    BY DEF KBInv
  <1>2. QED BY KBInvariant, <1>1, PTL

(* The answer tables of the knowledge base implement AnswerStore: a step   *)
(* publishes one complete answer, unlinks, or changes no answer.           *)
THEOREM AnswerStoreImplemented == KBSpec => StoreImplemented
  <1>1. KBInit => Store!Init
    BY DEF KBInit
  <1>2. KBInv /\ [KBNext]_vars => [Store!Next]_answers
    <2> SUFFICES ASSUME KBInv, [KBNext]_vars PROVE Store!Next \/ UNCHANGED answers
      OBVIOUS
    <2>1. CASE CatalogChange
      BY <2>1, CatalogChangeInv DEF Store!Next
    <2>2. CASE RequestChange
      BY <2>2, RequestStepInv DEF RequestChange, Store!Next
    <2>3. CASE Crash
      BY <2>3 DEF Crash
    <2>4. CASE UNCHANGED vars
      BY <2>4 DEF vars
    <2>5. QED BY <2>1, <2>2, <2>3, <2>4 DEF KBNext
  <1>3. QED BY KBInvariant, <1>1, <1>2, PTL DEF KBSpec, StoreImplemented, Store!Spec
-----------------------------------------------------------------------------
(* Where cited rows come from *)

(* Row c may be cited by request r. *)
Citable(r, c) ==
  /\ c.src \in approved[r]
  /\ c.class = ClassOf[c.src]
  /\ mode[r] \in GreenModes => c.class = "GRUEN"
  /\ mode[r] \in CaseLawModes => ImporterOf[c.src] = "bag"
  /\ c.class \in {"GRUEN", "BLAU"}

OriginInv ==
  \A r \in Requests :
    /\ pc[r] = "reading" => \A s \in Sources : allowed[s] => s \in approved[r]
    /\ \A i \in DOMAIN picks[r] : Citable(r, picks[r][i])
    /\ \A i \in DOMAIN draft[r].items : Citable(r, draft[r].items[i].row)
    /\ \A i \in DOMAIN answers[r].items : Citable(r, answers[r].items[i].row)

KBOrigin == KBInv /\ CatalogInv /\ OriginInv

(* What was citable stays so: the history only grows, the mode is fixed.   *)
LEMMA CitableStays ==
  ASSUME KBInv, RecordApproved, UNCHANGED mode, NEW r \in Requests, NEW c, Citable(r, c)
  PROVE  Citable(r, c)'
  BY DEF KBInv, KBTypeOK, RecordApproved, Citable

LEMMA ReadingSeesApproved ==
  ASSUME KBInv, RecordApproved, NEW r \in Requests, pc'[r] = "reading", NEW s \in Sources, allowed'[s]
  PROVE  s \in approved'[r]
  BY DEF KBInv, KBTypeOK, RecordApproved

(* A hit of any search of the generator may be cited. *)
LEMMA HitsCitable ==
  ASSUME KBOrigin, NEW r \in Requests, pc[r] = "reading",
         NEW c \in SearchHits(mode[r]) \cup LawHits(mode[r])
  PROVE  Citable(r, c)
  <1>1. c \in chunks /\ c.src \in Sources /\ allowed[c.src] /\ mode[r] \in Modes
    BY DEF SearchHits, LawHits, KBOrigin, KBInv, KBTypeOK, CatalogTypeOK, ChunkRows
  <1>2. c.src \in approved[r]
    BY <1>1 DEF KBOrigin, OriginInv
  <1>3. c.class = ClassOf[c.src]
    BY <1>1 DEF KBOrigin, CatalogInv, ChunksInv, ChunkClassMatches
  <1>4. CASE c \in SearchHits(mode[r])
    BY <1>1, <1>2, <1>3, <1>4, SourcesAssumption
       DEF Citable, SearchHits, Admissible, Modes, GreenModes, CaseLawModes
  <1>5. CASE c \in LawHits(mode[r])
    BY <1>1, <1>2, <1>3, <1>5, SourcesAssumption
       DEF Citable, LawHits, LooksUpLaws, SelfApproving, Validating, GreenModes, CaseLawModes
  <1>6. QED BY <1>4, <1>5

(* The statements cite what was read, in whatever order. *)
LEMMA StatementChunksRead ==
  ASSUME NEW q \in Seq(ChunkRows), q # <<>>, NEW m, NEW i \in DOMAIN StatementChunks(m, q)
  PROVE  \E j \in DOMAIN q : StatementChunks(m, q)[i] = q[j]
  <1>1. ASSUME NEW k \in DOMAIN Tail(q) PROVE \E j \in DOMAIN q : Tail(q)[k] = q[j]
    <2>1. k + 1 \in DOMAIN q /\ Tail(q)[k] = q[k + 1]
      OBVIOUS
    <2>2. QED BY <2>1
  <1>2. ASSUME NEW k \in DOMAIN SourceHitChunks(q)
        PROVE  \E j \in DOMAIN q : SourceHitChunks(q)[k] = q[j]
    BY <1>1 DEF SourceHitChunks
  <1>3. Head(q) = q[1] /\ 1 \in DOMAIN q /\ Head(q) \in ChunkRows
    OBVIOUS
  <1>4. SourceHitChunks(q) \in Seq(ChunkRows)
    BY DEF SourceHitChunks
  <1> DEFINE rest == SourceHitChunks(q)
             all == <<Head(q)>> \o rest
  <1> HIDE DEF rest
  <1>5. ASSUME NEW k \in DOMAIN all
        PROVE  all[k] = Head(q) \/ (k - 1 \in DOMAIN rest /\ all[k] = rest[k - 1])
    BY <1>3, <1>4 DEF rest
  <1>6. ASSUME NEW k \in DOMAIN all PROVE \E j \in DOMAIN q : all[k] = q[j]
    <2> HIDE DEF all
    <2>1. QED BY <1>2, <1>3, <1>5 DEF rest
  <1>7. QED BY <1>6 DEF StatementChunks, rest
LEMMA RequestStepOrigin ==
  ASSUME KBOrigin, NEW r \in Requests, RequestStep(r), UNCHANGED catalogVars, RecordApproved
  PROVE  OriginInv'
  <1> USE DEF KBOrigin, KBInv, KBTypeOK
  <1>m. UNCHANGED mode
    BY DEF RequestStep, Start, ReadHit, Reject, BeginAnswer, WriteStatement, CitationRefused,
           Abort, Commit
  <1>a. ASSUME NEW q \in Requests, pc'[q] = "reading", NEW s \in Sources, allowed'[s]
        PROVE  s \in approved'[q]
    BY <1>a, ReadingSeesApproved
  (* It is enough that what each request holds now was citable before. *)
  <1>s. SUFFICES ASSUME NEW q \in Requests
                 PROVE  /\ \A i \in DOMAIN picks'[q] : Citable(q, picks'[q][i])
                        /\ \A i \in DOMAIN draft'[q].items : Citable(q, draft'[q].items[i].row)
                        /\ \A i \in DOMAIN answers'[q].items : Citable(q, answers'[q].items[i].row)
    <2>1. ASSUME NEW q \in Requests,
                 /\ \A i \in DOMAIN picks'[q] : Citable(q, picks'[q][i])
                 /\ \A i \in DOMAIN draft'[q].items : Citable(q, draft'[q].items[i].row)
                 /\ \A i \in DOMAIN answers'[q].items : Citable(q, answers'[q].items[i].row)
          PROVE  /\ \A i \in DOMAIN picks'[q] : Citable(q, picks[q][i])'
                 /\ \A i \in DOMAIN draft'[q].items : Citable(q, draft[q].items[i].row)'
                 /\ \A i \in DOMAIN answers'[q].items : Citable(q, answers[q].items[i].row)'
      <3>1. ASSUME NEW i \in DOMAIN picks'[q] PROVE Citable(q, picks[q][i])'
        BY <1>m, <2>1, CitableStays DEF Citable
      <3>2. ASSUME NEW i \in DOMAIN draft'[q].items PROVE Citable(q, draft[q].items[i].row)'
        BY <1>m, <2>1, CitableStays DEF Citable
      <3>3. ASSUME NEW i \in DOMAIN answers'[q].items PROVE Citable(q, answers[q].items[i].row)'
        BY <1>m, <2>1, CitableStays DEF Citable
      <3>4. QED BY <3>1, <3>2, <3>3
    <2>2. QED BY <1>a, <2>1 DEF OriginInv
  <1>0. /\ \A i \in DOMAIN picks[q] : Citable(q, picks[q][i])
        /\ \A i \in DOMAIN draft[q].items : Citable(q, draft[q].items[i].row)
        /\ \A i \in DOMAIN answers[q].items : Citable(q, answers[q].items[i].row)
    BY DEF OriginInv
  <1> HIDE DEF KBOrigin, KBInv
  <1>1. CASE q # r
    BY <1>0, <1>1 DEF RequestStep, Start, ReadHit, Reject, BeginAnswer, WriteStatement,
                      CitationRefused, Abort, Commit, KBOrigin, KBInv
  <1>2. CASE q = r /\ (Start(r) \/ Reject(r))
    BY <1>0, <1>2 DEF Start, Reject
  <1>3. CASE q = r /\ ReadHit(r)
    <2>1. PICK c \in SearchHits(mode[r]) \cup LawHits(mode[r]) :
            picks' = [picks EXCEPT ![r] = Append(@, c)]
      BY <1>3 DEF ReadHit
    <2>2. Citable(r, c) /\ c \in ChunkRows
      BY <1>3, HitsCitable DEF ReadHit, SearchHits, LawHits, KBOrigin, KBInv, CatalogTypeOK
    <2>3. picks'[r] = Append(picks[r], c) /\ picks[r] \in Seq(ChunkRows)
      BY <2>1 DEF KBOrigin, KBInv
    <2>4. \A i \in DOMAIN picks'[r] : picks'[r][i] = c \/ (i \in DOMAIN picks[r] /\ picks'[r][i] = picks[r][i])
      BY <2>2, <2>3
    <2>5. QED BY <1>0, <1>3, <2>2, <2>4 DEF ReadHit
  <1>4. CASE q = r /\ BeginAnswer(r)
    <2>1. /\ picks[r] \in Seq(ChunkRows) /\ picks[r] # <<>>
          /\ picks'[r] = StatementChunks(mode[r], picks[r])
          /\ draft'[r].items = draft[r].items /\ answers' = answers
      BY <1>4 DEF BeginAnswer, KBOrigin, KBInv, Store!AnswerRows
    <2>2. ASSUME NEW i \in DOMAIN picks'[r] PROVE Citable(r, picks'[r][i])
      <3>1. PICK j \in DOMAIN picks[r] : picks'[r][i] = picks[r][j]
        BY <2>1, StatementChunksRead
      <3>2. QED BY <1>0, <1>4, <3>1
    <2>3. QED BY <1>0, <1>4, <2>1, <2>2
  <1>5. CASE q = r /\ WriteStatement(r)
    <2> DEFINE p == picks[r]
               old == draft[r].items
               e == Cite(Head(p))
    <2>1. p \in Seq(ChunkRows) /\ p # <<>> /\ old \in Seq(Store!Citation)
      BY <1>5 DEF WriteStatement, KBOrigin, KBInv, Store!AnswerRows
    <2>2. picks'[r] = Tail(p) /\ draft'[r].items = Append(old, e) /\ answers' = answers
      BY <1>5 DEF WriteStatement, KBOrigin, KBInv, Store!AnswerRows
    <2>3. Head(p) = p[1] /\ 1 \in DOMAIN p /\ Head(p) \in ChunkRows
      BY <2>1
    <2>4. Citable(r, Head(p)) /\ e.row = Head(p) /\ e \in Store!Citation
      BY <1>0, <1>5, <2>3 DEF Cite, Store!Citation
    <2>5. ASSUME NEW i \in DOMAIN Tail(p) PROVE Citable(r, Tail(p)[i])
      <3>1. i + 1 \in DOMAIN p /\ Tail(p)[i] = p[i + 1]
        BY <2>1
      <3>2. QED BY <1>0, <1>5, <3>1
    <2> HIDE DEF p, old, e
    <2>6. \A i \in DOMAIN Append(old, e) :
            Append(old, e)[i] = e \/ (i \in DOMAIN old /\ Append(old, e)[i] = old[i])
      BY <2>1, <2>4, AppendItems
    <2>7. ASSUME NEW i \in DOMAIN draft'[r].items PROVE Citable(r, draft'[r].items[i].row)
      <3>1. draft'[r].items[i] = e \/ (i \in DOMAIN old /\ draft'[r].items[i] = old[i])
        BY <2>2, <2>6
      <3>2. QED BY <1>0, <1>5, <2>4, <3>1 DEF old
    <2>8. QED BY <1>0, <1>5, <2>2, <2>5, <2>7
  <1>6. CASE q = r /\ CitationRefused(r)
    BY <1>0, <1>6 DEF CitationRefused, Abort, KBOrigin, KBInv, Store!NoAnswer
  <1>7. CASE q = r /\ Commit(r)
    <2>1. /\ answers'[r].items = draft[r].items /\ draft'[r].items = <<>>
          /\ picks' = picks
      BY <1>7 DEF Commit, KBOrigin, KBInv, Store!NoAnswer, Store!AnswerRows
    <2>2. QED BY <1>0, <1>7, <2>1
  <1>8. QED BY <1>1, <1>2, <1>3, <1>4, <1>5, <1>6, <1>7 DEF RequestStep
(* Outside the requests nothing is read or written: rows are only dropped, *)
(* and an unlinked citation names the row it named before.                 *)
LEMMA OtherStepOrigin ==
  ASSUME KBOrigin, CatalogChange \/ Crash, RecordApproved
  PROVE  OriginInv'
  <1>m. UNCHANGED mode
    BY DEF CatalogChange, Crash
  <1>1. ASSUME NEW r \in Requests
        PROVE  /\ \A i \in DOMAIN picks'[r] : Citable(r, picks'[r][i])
               /\ \A i \in DOMAIN draft'[r].items : Citable(r, draft'[r].items[i].row)
               /\ \A i \in DOMAIN answers'[r].items : Citable(r, answers'[r].items[i].row)
    <2>1. /\ \A i \in DOMAIN picks[r] : Citable(r, picks[r][i])
          /\ \A i \in DOMAIN draft[r].items : Citable(r, draft[r].items[i].row)
          /\ \A i \in DOMAIN answers[r].items : Citable(r, answers[r].items[i].row)
      BY DEF KBOrigin, OriginInv
    <2>2. CASE CatalogChange
      <3>1. UNCHANGED <<picks, draft>>
        BY <2>2 DEF CatalogChange
      <3>2. Store!SameButUnlinked(answers[r], answers'[r])
        BY <2>2, CatalogChangeInv DEF KBOrigin, Store!Unlink
      <3>3. QED BY <2>1, <3>1, <3>2 DEF Store!SameButUnlinked
    <2>3. CASE Crash
      BY <2>1, <2>3 DEF Crash, Store!NoAnswer
    <2>4. QED BY <2>2, <2>3
  <1>2. ASSUME NEW r \in Requests
        PROVE  /\ pc'[r] = "reading" => \A s \in Sources : allowed'[s] => s \in approved'[r]
               /\ \A i \in DOMAIN picks'[r] : Citable(r, picks[r][i])'
               /\ \A i \in DOMAIN draft'[r].items : Citable(r, draft[r].items[i].row)'
               /\ \A i \in DOMAIN answers'[r].items : Citable(r, answers[r].items[i].row)'
    <2>1. ASSUME pc'[r] = "reading", NEW s \in Sources, allowed'[s] PROVE s \in approved'[r]
      BY <2>1, ReadingSeesApproved DEF KBOrigin
    <2>2. ASSUME NEW i \in DOMAIN picks'[r] PROVE Citable(r, picks[r][i])'
      BY <1>m, <1>1, CitableStays DEF Citable, KBOrigin
    <2>3. ASSUME NEW i \in DOMAIN draft'[r].items PROVE Citable(r, draft[r].items[i].row)'
      BY <1>m, <1>1, CitableStays DEF Citable, KBOrigin
    <2>4. ASSUME NEW i \in DOMAIN answers'[r].items PROVE Citable(r, answers[r].items[i].row)'
      BY <1>m, <1>1, CitableStays DEF Citable, KBOrigin
    <2>5. QED BY <2>1, <2>2, <2>3, <2>4
  <1>3. QED BY <1>2 DEF OriginInv

LEMMA KBOriginInvariant == KBSpec => []KBOrigin
  <1>1. KBInit => KBOrigin
    <2>1. KBInit => OriginInv
      BY DEF KBInit, OriginInv, Store!Init, Store!NoAnswer
    <2>2. QED BY <2>1, KBInitInv, CatalogInitSafe DEF KBInit, KBOrigin
  <1>2. KBOrigin /\ [KBNext]_vars => KBOrigin'
    <2> SUFFICES ASSUME KBOrigin, [KBNext]_vars PROVE KBOrigin'
      OBVIOUS
    <2>1. KBInv'
      BY KBNextInv, KBUnchangedInv DEF KBOrigin
    <2>2. CatalogInv'
      <3>1. CASE CatalogChange
        BY <3>1, CatalogStepSafe DEF CatalogChange, KBOrigin
      <3>2. CASE Crash
        BY <3>2, LoseHandlersSafe DEF Crash, KBOrigin
      <3>3. CASE RequestChange
        BY <3>3, CatalogUnchangedSafe DEF RequestChange, KBOrigin
      <3>4. CASE UNCHANGED vars
        BY <3>4, CatalogUnchangedSafe DEF vars, KBOrigin
      <3>5. QED BY <3>1, <3>2, <3>3, <3>4 DEF KBNext
    <2>3. OriginInv'
      <3>1. CASE (CatalogChange \/ Crash) /\ RecordApproved
        BY <3>1, OtherStepOrigin
      <3>2. CASE RequestChange /\ RecordApproved
        BY <3>2, RequestStepOrigin DEF RequestChange
      <3>3. CASE UNCHANGED vars
        BY <3>3 DEF vars, requestVars, catalogVars, KBOrigin, OriginInv, Citable
      <3>4. QED BY <3>1, <3>2, <3>3 DEF KBNext
    <2>4. QED BY <2>1, <2>2, <2>3 DEF KBOrigin
  <1>3. QED BY <1>1, <1>2, PTL DEF KBSpec

(* Every cited source was approved while its generator was reading.        *)
THEOREM CitedOnlyApproved == KBSpec => []CitedWhileApproved
  <1>1. KBOrigin => CitedWhileApproved
    BY DEF KBOrigin, OriginInv, Citable, CitedWhileApproved, Citations
  <1>2. QED BY KBOriginInvariant, <1>1, PTL

(* A citation shows the class of its source, one its generator may use.    *)
THEOREM CitedClassFits == KBSpec => []ClassFitsGenerator
  <1>1. KBOrigin => ClassFitsGenerator
    BY DEF KBOrigin, OriginInv, Citable, ClassFitsGenerator, Citations
  <1>2. QED BY KBOriginInvariant, <1>1, PTL

(* An export resolves a citation whose chunk is gone to one row at most,   *)
(* because the catalogue has one chunk for each locator of a source.       *)
THEOREM StatementsExportedOnce == KBSpec => []StatementExportedOnce
  <1>1. KBOrigin => StatementExportedOnce
    BY DEF KBOrigin, CatalogInv, ChunksInv, OneChunkPerLocator, StatementExportedOnce,
           ResolvedRows
  <1>2. QED BY KBOriginInvariant, <1>1, PTL
=============================================================================
