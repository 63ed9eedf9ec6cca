------------------------------ MODULE Retrieval ------------------------------
(***************************************************************************)
(* diverse_chunks of app/retrieval.py: one pass over the hits of all       *)
(* searches, best first, which keeps a chunk once, at most so many chunks  *)
(* of one source and of some classes, one source of a document that        *)
(* several sources carry, and stops at the size of the answer.             *)
(*                                                                         *)
(* The hits of an answer come from several SELECTs: a chunk may be among   *)
(* them many times. Their fields are functions of the chunk.               *)
(***************************************************************************)
EXTENDS Naturals, FiniteSets, Sequences

CONSTANTS
  Chunks,          \* chunk_id
  SourceUids,      \* source_uid
  SourceUidOf,
  DocumentShas,    \* documents.sha256; "" when there is none
  DocumentShaOf,
  SourceClassOf,   \* source_class
  LimitedClasses,  \* the keys of class_limits
  ClassLimit,
  PerSourceLimit,
  MaxTotal,
  MaxHits          \* bound: hits of one answer

ASSUME HitsAssumption ==
  /\ SourceUidOf \in [Chunks -> SourceUids]
  /\ DocumentShaOf \in [Chunks -> DocumentShas]
  /\ DOMAIN SourceClassOf = Chunks
  /\ ClassLimit \in [LimitedClasses -> Nat \ {0}]
  /\ PerSourceLimit \in Nat \ {0} /\ MaxTotal \in Nat \ {0} /\ MaxHits \in Nat

VARIABLES
  hits,         \* the argument
  pos,          \* hits looked at
  selected,
  seen,         \* seen_chunks
  docSource,    \* document_sha_sources: pairs <<sha, source_uid>>
  sourceCount,  \* source_counts
  classCount    \* class_counts

vars == <<hits, pos, selected, seen, docSource, sourceCount, classCount>>

(* chunk_source_key: the document, or else the source. *)
SourceKey(c) == IF DocumentShaOf[c] # "" THEN <<"sha256", DocumentShaOf[c]>>
                ELSE <<"uid", SourceUidOf[c]>>

Keys == {SourceKey(c) : c \in Chunks}
Classes == {SourceClassOf[c] : c \in Chunks}

SelectionTypeOK ==
  /\ hits \in Seq(Chunks) /\ Len(hits) <= MaxHits
  /\ pos \in 0 .. Len(hits)
  /\ selected \in Seq(Chunks)
  /\ seen \subseteq Chunks
  /\ docSource \subseteq DocumentShas \X SourceUids
  /\ sourceCount \in [Keys -> Nat]
  /\ classCount \in [Classes -> Nat]

Init ==
  /\ hits \in UNION {[1 .. n -> Chunks] : n \in 0 .. MaxHits}
  /\ pos = 0
  /\ selected = <<>>
  /\ seen = {}
  /\ docSource = {}
  /\ sourceCount = [k \in Keys |-> 0]
  /\ classCount = [k \in Classes |-> 0]

-----------------------------------------------------------------------------
Running == pos < Len(hits) /\ Len(selected) < MaxTotal

(* The document is known as another source's. *)
TakenDocument(c) ==
  /\ DocumentShaOf[c] # ""
  /\ \E s \in SourceUids \ {SourceUidOf[c]} : <<DocumentShaOf[c], s>> \in docSource

(* The cap as a bug would have it: it lets one more through. *)
SourceFullLate(c) == sourceCount[SourceKey(c)] > PerSourceLimit

SourceFull(c) == sourceCount[SourceKey(c)] >= PerSourceLimit

ClassFull(c) ==
  /\ SourceClassOf[c] \in LimitedClasses
  /\ classCount[SourceClassOf[c]] >= ClassLimit[SourceClassOf[c]]

SkipReason(c) == c \in seen \/ TakenDocument(c) \/ SourceFull(c) \/ ClassFull(c)

(* The skip as a bug would have it: a chunk left out counts for its source. *)
SkipCounted ==
  /\ Running
  /\ SkipReason(hits[pos + 1])
  /\ sourceCount' = [sourceCount EXCEPT ![SourceKey(hits[pos + 1])] = @ + 1]
  /\ pos' = pos + 1
  /\ UNCHANGED <<hits, selected, seen, docSource, classCount>>

(* continue *)
Skip ==
  /\ Running
  /\ SkipReason(hits[pos + 1])
  /\ pos' = pos + 1
  /\ UNCHANGED <<hits, selected, seen, docSource, sourceCount, classCount>>

(* The note as a bug would have it: never taken. *)
NoteDocumentNever(c) == UNCHANGED docSource

(* setdefault, for a chunk with a document hash. *)
NoteDocument(c) ==
  IF DocumentShaOf[c] = "" \/ \E d \in docSource : d[1] = DocumentShaOf[c]
    THEN UNCHANGED docSource
    ELSE docSource' = docSource \cup {<<DocumentShaOf[c], SourceUidOf[c]>>}

Select ==
  /\ Running
  /\ ~SkipReason(hits[pos + 1])
  /\ LET c == hits[pos + 1]
     IN  /\ selected' = Append(selected, c)
         /\ seen' = seen \cup {c}
         /\ NoteDocument(c)
         /\ sourceCount' = [sourceCount EXCEPT ![SourceKey(c)] = @ + 1]
         /\ classCount' = [classCount EXCEPT ![SourceClassOf[c]] = @ + 1]
  /\ pos' = pos + 1
  /\ UNCHANGED hits

Next == Skip \/ Select

Spec == Init /\ [][Next]_vars

-----------------------------------------------------------------------------
(* Properties, of the selection and not of the counters that made it *)

OfSource(s) == {c \in Chunks : SourceUidOf[c] = s}
OfKey(k) == {c \in Chunks : SourceKey(c) = k}
OfClass(k) == {c \in Chunks : SourceClassOf[c] = k}

\* Where the selection has a chunk of C.
Picked(C) == {i \in DOMAIN selected : selected[i] \in C}

(***************************************************************************)
(* "Cap how much one source can dominate an answer": of one source there   *)
(* are at most PerSourceLimit chunks if its chunks are of one document, as *)
(* the importers leave it, although the code counts documents; and no      *)
(* chunk is there twice.                                                   *)
(***************************************************************************)
NoSourceDominates ==
  /\ \A i, j \in DOMAIN selected : selected[i] = selected[j] => i = j
  /\ Len(selected) <= MaxTotal
  /\ \A s \in SourceUids :
       (\A c, d \in OfSource(s) : DocumentShaOf[c] = DocumentShaOf[d])
       => Cardinality(Picked(OfSource(s))) <= PerSourceLimit

(* run-regressions.py, mixed_document_sha_sources: no answer cites one     *)
(* document under two sources, whichever of them is found first.           *)
OneSourcePerDocument ==
  \A i, j \in DOMAIN selected :
    DocumentShaOf[selected[i]] = DocumentShaOf[selected[j]]
      => DocumentShaOf[selected[i]] = "" \/ SourceUidOf[selected[i]] = SourceUidOf[selected[j]]

(***************************************************************************)
(* No approved source is lost without a reason: a hit that was looked at   *)
(* and left out could not be added to the selection without breaking a cap *)
(* or citing a document twice.                                             *)
(***************************************************************************)
OmissionsJustified ==
  \A h \in {hits[i] : i \in 1 .. pos} :
    \/ \E i \in DOMAIN selected : selected[i] = h
    \/ \E i \in DOMAIN selected : /\ DocumentShaOf[h] # ""
                                  /\ DocumentShaOf[selected[i]] = DocumentShaOf[h]
                                  /\ SourceUidOf[selected[i]] # SourceUidOf[h]
    \/ Cardinality(Picked(OfKey(SourceKey(h)))) >= PerSourceLimit
    \/ /\ SourceClassOf[h] \in LimitedClasses
       /\ Cardinality(Picked(OfClass(SourceClassOf[h]))) >= ClassLimit[SourceClassOf[h]]
=============================================================================
