-------------------------- MODULE RetrievalProofs --------------------------
(***************************************************************************)
(* Theorems of Retrieval, for any catalogue, any hits and any limits. The  *)
(* code decides by counters and sets that it keeps beside the list it      *)
(* returns; TallyInv says that they are true of the list.                  *)
(***************************************************************************)
EXTENDS Retrieval, FiniteSetTheorems, SequenceTheorems, TLAPS

(* What the pass remembers is what the selection holds. *)
TallyInv ==
  /\ seen = {selected[i] : i \in DOMAIN selected}
  /\ \A d \in docSource : \E i \in DOMAIN selected :
       d = <<DocumentShaOf[selected[i]], SourceUidOf[selected[i]]>>
  /\ \A i \in DOMAIN selected : DocumentShaOf[selected[i]] # "" =>
       <<DocumentShaOf[selected[i]], SourceUidOf[selected[i]]>> \in docSource
  /\ \A k \in Keys : sourceCount[k] = Cardinality(Picked(OfKey(k)))
  /\ \A k \in Classes : classCount[k] = Cardinality(Picked(OfClass(k)))

(* No entry of the selection was over a cap when it came, and none is      *)
(* there twice.                                                            *)
CapInv ==
  /\ Len(selected) <= MaxTotal
  /\ \A i, j \in DOMAIN selected : selected[i] = selected[j] => i = j
  /\ \A k \in Keys : Cardinality(Picked(OfKey(k))) <= PerSourceLimit

SelectionInv == TallyInv /\ CapInv /\ OneSourcePerDocument /\ OmissionsJustified

-----------------------------------------------------------------------------
(* Types *)

LEMMA SelectionInitTyped == Init => SelectionTypeOK
  <1> SUFFICES ASSUME Init PROVE SelectionTypeOK
    OBVIOUS
  <1>1. PICK n \in 0 .. MaxHits : hits \in [1 .. n -> Chunks]
    BY DEF Init
  <1>2. n \in Nat /\ n <= MaxHits
    BY <1>1, HitsAssumption
  <1>3. hits \in Seq(Chunks) /\ Len(hits) = n
    BY <1>1, <1>2, SeqDef, LenProperties
  <1>4. QED BY <1>2, <1>3, EmptySeq DEF Init, SelectionTypeOK

(* The hit the pass is at. *)
LEMMA HitTyped ==
  ASSUME SelectionTypeOK, Running
  PROVE  /\ hits[pos + 1] \in Chunks
         /\ pos + 1 \in 0 .. Len(hits) /\ pos \in Nat
         /\ Len(selected) \in Nat /\ Len(selected) < MaxTotal
  <1>1. Len(hits) \in Nat /\ pos + 1 \in 1 .. Len(hits)
    BY LenProperties DEF SelectionTypeOK, Running
  <1>2. QED BY <1>1, LenProperties, ElementOfSeq DEF SelectionTypeOK, Running

LEMMA SelectionNextTyped == SelectionTypeOK /\ [Next]_vars => SelectionTypeOK'
  <1> SUFFICES ASSUME SelectionTypeOK, [Next]_vars PROVE SelectionTypeOK'
    OBVIOUS
  <1>1. CASE Skip
    BY <1>1, HitTyped DEF Skip, SelectionTypeOK
  <1>2. CASE Select
    <2> DEFINE c == hits[pos + 1]
    <2>1. c \in Chunks /\ SourceKey(c) \in Keys /\ SourceClassOf[c] \in Classes
      BY <1>2, HitTyped DEF Select, Keys, Classes
    <2>2. DocumentShaOf[c] \in DocumentShas /\ SourceUidOf[c] \in SourceUids
      BY <2>1, HitsAssumption
    <2>3. selected' \in Seq(Chunks) /\ seen' \subseteq Chunks
      BY <1>2, <2>1, AppendProperties DEF Select, SelectionTypeOK
    <2>4. docSource' \subseteq DocumentShas \X SourceUids
      <3>1. <<DocumentShaOf[c], SourceUidOf[c]>> \in DocumentShas \X SourceUids
        BY <2>2
      <3>2. docSource' \subseteq docSource \cup {<<DocumentShaOf[c], SourceUidOf[c]>>}
        BY <1>2 DEF Select, NoteDocument
      <3>3. QED BY <3>1, <3>2 DEF SelectionTypeOK
    <2>5. sourceCount' \in [Keys -> Nat] /\ classCount' \in [Classes -> Nat]
      BY <1>2, <2>1 DEF Select, SelectionTypeOK
    <2>6. hits' = hits /\ pos' \in 0 .. Len(hits)
      BY <1>2, HitTyped DEF Select
    <2>7. QED BY <2>3, <2>4, <2>5, <2>6 DEF SelectionTypeOK
  <1>3. CASE UNCHANGED vars
    BY <1>3 DEF vars, SelectionTypeOK
  <1>4. QED BY <1>1, <1>2, <1>3 DEF Next

(* The pass stays within the hits, and its counters count. *)
THEOREM SelectionTypeCorrect == Spec => []SelectionTypeOK
  BY SelectionInitTyped, SelectionNextTyped, PTL DEF Spec

-----------------------------------------------------------------------------
(* Counting *)

LEMMA PickedFinite ==
  ASSUME selected \in Seq(Chunks), NEW C
  PROVE  IsFiniteSet(Picked(C)) /\ Cardinality(Picked(C)) \in Nat
  <1>1. Len(selected) \in Nat /\ DOMAIN selected = 1 .. Len(selected)
    BY LenProperties
  <1>2. IsFiniteSet(DOMAIN selected)
    BY <1>1, FS_Interval
  <1>3. Picked(C) \in SUBSET DOMAIN selected
    BY DEF Picked
  <1>4. QED BY <1>2, <1>3, FS_Subset, FS_CardinalityType

(* One chunk more in the selection is one more of each kind it is of.      *)
LEMMA PickedAppended ==
  ASSUME selected \in Seq(Chunks), NEW c \in Chunks, selected' = Append(selected, c), NEW C
  PROVE  Cardinality(Picked(C)') = IF c \in C THEN Cardinality(Picked(C)) + 1
                                   ELSE Cardinality(Picked(C))
  <1>1. /\ Len(selected) \in Nat /\ DOMAIN selected = 1 .. Len(selected)
        /\ DOMAIN selected' = 1 .. Len(selected) + 1 /\ selected'[Len(selected) + 1] = c
        /\ \A i \in DOMAIN selected : selected'[i] = selected[i]
    BY LenProperties, AppendProperties
  <1>2. Picked(C)' = IF c \in C THEN Picked(C) \cup {Len(selected) + 1} ELSE Picked(C)
    <2>1. \A i : i \in DOMAIN selected' <=> i \in DOMAIN selected \/ i = Len(selected) + 1
      BY <1>1
    <2>2. QED BY <1>1, <2>1 DEF Picked
  <1>3. Len(selected) + 1 \notin Picked(C)
    BY <1>1 DEF Picked
  <1>4. QED BY <1>2, <1>3, PickedFinite, FS_AddElement
-----------------------------------------------------------------------------
(* The pass *)

LEMMA SelectEffect ==
  ASSUME SelectionTypeOK, Select
  PROVE  LET c == hits[pos + 1]
             n == Len(selected)
         IN  /\ c \in Chunks /\ hits' = hits /\ pos' = pos + 1
             /\ n \in Nat /\ n < MaxTotal /\ DOMAIN selected = 1 .. n
             /\ selected' = Append(selected, c) /\ selected' \in Seq(Chunks)
             /\ Len(selected') = n + 1 /\ selected'[n + 1] = c
             /\ \A i : i \in DOMAIN selected' <=> i \in DOMAIN selected \/ i = n + 1
             /\ n + 1 \notin DOMAIN selected
             /\ \A i \in DOMAIN selected : selected'[i] = selected[i]
             /\ \A i \in DOMAIN selected : selected[i] \in Chunks
  BY HitTyped, LenProperties, AppendProperties, ElementOfSeq DEF Select, SelectionTypeOK

(* The document of a chunk that is taken is noted as this chunk's source's. *)
LEMMA DocumentNoted ==
  ASSUME SelectionTypeOK, Select
  PROVE  LET c == hits[pos + 1]
         IN  /\ docSource \subseteq docSource'
             /\ docSource' \subseteq docSource \cup {<<DocumentShaOf[c], SourceUidOf[c]>>}
             /\ docSource' # docSource => DocumentShaOf[c] # ""
             /\ DocumentShaOf[c] # "" => <<DocumentShaOf[c], SourceUidOf[c]>> \in docSource'
  <1> DEFINE c == hits[pos + 1]
  <1>1. SUFFICES /\ docSource \subseteq docSource'
                 /\ docSource' \subseteq docSource \cup {<<DocumentShaOf[c], SourceUidOf[c]>>}
                 /\ docSource' # docSource => DocumentShaOf[c] # ""
                 /\ DocumentShaOf[c] # "" => <<DocumentShaOf[c], SourceUidOf[c]>> \in docSource'
    OBVIOUS
  <1>2. NoteDocument(c) /\ ~TakenDocument(c)
    BY DEF Select, SkipReason
  <1> HIDE DEF c
  <1>3. CASE DocumentShaOf[c] = ""
    BY <1>2, <1>3 DEF NoteDocument
  <1>4. CASE DocumentShaOf[c] # "" /\ \E d \in docSource : d[1] = DocumentShaOf[c]
    <2>1. PICK d \in docSource : d[1] = DocumentShaOf[c] BY <1>4
    <2>2. d = <<d[1], d[2]>> /\ d[2] \in SourceUids
      BY DEF SelectionTypeOK
    <2>3. d[2] = SourceUidOf[c]
      BY <1>2, <1>4, <2>1, <2>2 DEF TakenDocument
    <2>4. docSource' = docSource BY <1>2, <1>4 DEF NoteDocument
    <2>5. QED BY <2>1, <2>2, <2>3, <2>4
  <1>5. CASE DocumentShaOf[c] # "" /\ ~\E d \in docSource : d[1] = DocumentShaOf[c]
    <2>1. docSource' = docSource \cup {<<DocumentShaOf[c], SourceUidOf[c]>>}
      BY <1>2, <1>5 DEF NoteDocument
    <2>2. QED BY <1>5, <2>1
  <1>6. QED BY <1>3, <1>4, <1>5

LEMMA SelectKeepsTally ==
  ASSUME SelectionTypeOK, TallyInv, Select
  PROVE  TallyInv'
  <1> DEFINE c == hits[pos + 1]
             n == Len(selected)
  <1>0. /\ c \in Chunks /\ selected' = Append(selected, c)
        /\ selected'[n + 1] = c /\ n + 1 \notin DOMAIN selected
        /\ \A i : i \in DOMAIN selected' <=> i \in DOMAIN selected \/ i = n + 1
        /\ \A i \in DOMAIN selected : selected'[i] = selected[i]
    BY SelectEffect
  <1>1. seen' = seen \cup {c} BY DEF Select
  <1>2. /\ docSource \subseteq docSource'
        /\ docSource' \subseteq docSource \cup {<<DocumentShaOf[c], SourceUidOf[c]>>}
        /\ DocumentShaOf[c] # "" => <<DocumentShaOf[c], SourceUidOf[c]>> \in docSource'
    BY DocumentNoted
  <1>3. sourceCount' = [sourceCount EXCEPT ![SourceKey(c)] = @ + 1]
        /\ classCount' = [classCount EXCEPT ![SourceClassOf[c]] = @ + 1]
    BY DEF Select
  <1> HIDE DEF c, n
  <1>4. seen' = {selected'[i] : i \in DOMAIN selected'}
    BY <1>0, <1>1 DEF TallyInv
  <1>5. \A d \in docSource' : \E i \in DOMAIN selected' :
          d = <<DocumentShaOf[selected'[i]], SourceUidOf[selected'[i]]>>
    <2> TAKE d \in docSource'
    <2>1. CASE d \in docSource
      <3>1. PICK i \in DOMAIN selected : d = <<DocumentShaOf[selected[i]], SourceUidOf[selected[i]]>>
        BY <2>1 DEF TallyInv
      <3>2. i \in DOMAIN selected' /\ selected'[i] = selected[i] BY <1>0
      <3>3. QED BY <3>1, <3>2
    <2>2. CASE d = <<DocumentShaOf[c], SourceUidOf[c]>>
      <3>1. n + 1 \in DOMAIN selected' BY <1>0
      <3>2. QED BY <1>0, <2>2, <3>1
    <2>3. QED BY <1>2, <2>1, <2>2
  <1>6. \A i \in DOMAIN selected' : DocumentShaOf[selected'[i]] # "" =>
          <<DocumentShaOf[selected'[i]], SourceUidOf[selected'[i]]>> \in docSource'
    <2> TAKE i \in DOMAIN selected'
    <2>1. CASE i \in DOMAIN selected
      BY <1>0, <1>2, <2>1 DEF TallyInv
    <2>2. CASE i = n + 1
      BY <1>0, <1>2, <2>2
    <2>3. QED BY <1>0, <2>1, <2>2
  <1>7. \A k \in Keys : sourceCount'[k] = Cardinality(Picked(OfKey(k))')
    <2> TAKE k \in Keys
    <2>1. sourceCount'[k] = IF c \in OfKey(k) THEN sourceCount[k] + 1 ELSE sourceCount[k]
      BY <1>0, <1>3 DEF OfKey, SelectionTypeOK
    <2>2. Cardinality(Picked(OfKey(k))') =
            IF c \in OfKey(k) THEN Cardinality(Picked(OfKey(k))) + 1
            ELSE Cardinality(Picked(OfKey(k)))
      BY <1>0, PickedAppended DEF SelectionTypeOK
    <2>3. QED BY <2>1, <2>2 DEF TallyInv
  <1>8. \A k \in Classes : classCount'[k] = Cardinality(Picked(OfClass(k))')
    <2> TAKE k \in Classes
    <2>1. classCount'[k] = IF c \in OfClass(k) THEN classCount[k] + 1 ELSE classCount[k]
      BY <1>0, <1>3 DEF OfClass, SelectionTypeOK
    <2>2. Cardinality(Picked(OfClass(k))') =
            IF c \in OfClass(k) THEN Cardinality(Picked(OfClass(k))) + 1
            ELSE Cardinality(Picked(OfClass(k)))
      BY <1>0, PickedAppended DEF SelectionTypeOK
    <2>3. QED BY <2>1, <2>2 DEF TallyInv
  <1>9. QED BY <1>4, <1>5, <1>6, <1>7, <1>8 DEF TallyInv
LEMMA SelectKeepsCaps ==
  ASSUME SelectionTypeOK, TallyInv, CapInv, Select
  PROVE  CapInv'
  <1> DEFINE c == hits[pos + 1]
             n == Len(selected)
  <1>0. /\ c \in Chunks /\ selected' = Append(selected, c) /\ n < MaxTotal /\ Len(selected') = n + 1
        /\ selected'[n + 1] = c /\ n + 1 \notin DOMAIN selected /\ n \in Nat
        /\ \A i : i \in DOMAIN selected' <=> i \in DOMAIN selected \/ i = n + 1
        /\ \A i \in DOMAIN selected : selected'[i] = selected[i]
    BY SelectEffect
  <1>1. c \notin seen /\ ~SourceFull(c) BY DEF Select, SkipReason
  <1> HIDE DEF c, n
  <1>2. \A i, j \in DOMAIN selected' : selected'[i] = selected'[j] => i = j
    <2>1. \A i \in DOMAIN selected : selected[i] # c
      BY <1>1 DEF TallyInv
    <2>2. QED BY <1>0, <2>1 DEF CapInv
  <1>3. \A k \in Keys : Cardinality(Picked(OfKey(k))') <= PerSourceLimit
    <2> TAKE k \in Keys
    <2>1. Cardinality(Picked(OfKey(k))') =
            IF c \in OfKey(k) THEN Cardinality(Picked(OfKey(k))) + 1
            ELSE Cardinality(Picked(OfKey(k)))
      BY <1>0, PickedAppended DEF SelectionTypeOK
    <2>2. c \in OfKey(k) => Cardinality(Picked(OfKey(k))) < PerSourceLimit
      <3>1. sourceCount[k] = Cardinality(Picked(OfKey(k))) BY DEF TallyInv
      <3>2. sourceCount[k] \in Nat BY DEF SelectionTypeOK
      <3>3. c \in OfKey(k) => ~(sourceCount[k] >= PerSourceLimit)
        BY <1>1 DEF OfKey, SourceFull
      <3>4. QED BY <3>1, <3>2, <3>3, HitsAssumption
    <2>3. Cardinality(Picked(OfKey(k))) \in Nat BY PickedFinite DEF SelectionTypeOK
    <2>4. QED BY <2>1, <2>2, <2>3, HitsAssumption DEF CapInv
  <1>4. Len(selected') <= MaxTotal
    BY <1>0, HitsAssumption
  <1>5. QED BY <1>2, <1>3, <1>4 DEF CapInv

(* A document that is already in the selection is there as this source's.  *)
LEMMA SelectKeepsDocuments ==
  ASSUME SelectionTypeOK, TallyInv, OneSourcePerDocument, Select
  PROVE  OneSourcePerDocument'
  <1> DEFINE c == hits[pos + 1]
             n == Len(selected)
  <1>0. /\ c \in Chunks
        /\ selected'[n + 1] = c
        /\ \A i : i \in DOMAIN selected' <=> i \in DOMAIN selected \/ i = n + 1
        /\ \A i \in DOMAIN selected : selected'[i] = selected[i] /\ selected[i] \in Chunks
    BY SelectEffect
  <1>1. ~TakenDocument(c) BY DEF Select, SkipReason
  <1> HIDE DEF c, n
  <1>2. \A i \in DOMAIN selected : DocumentShaOf[selected[i]] = DocumentShaOf[c]
          => DocumentShaOf[c] = "" \/ SourceUidOf[selected[i]] = SourceUidOf[c]
    <2> SUFFICES ASSUME NEW i \in DOMAIN selected, DocumentShaOf[selected[i]] = DocumentShaOf[c],
                        DocumentShaOf[c] # ""
                 PROVE  SourceUidOf[selected[i]] = SourceUidOf[c]
      OBVIOUS
    <2>1. <<DocumentShaOf[c], SourceUidOf[selected[i]]>> \in docSource
      BY DEF TallyInv
    <2>2. SourceUidOf[selected[i]] \in SourceUids
      BY <1>0, HitsAssumption
    <2>3. QED BY <1>1, <2>1, <2>2 DEF TakenDocument
  <1>3. SUFFICES ASSUME NEW i \in DOMAIN selected', NEW j \in DOMAIN selected',
                        DocumentShaOf[selected'[i]] = DocumentShaOf[selected'[j]]
                 PROVE  \/ DocumentShaOf[selected'[i]] = ""
                        \/ SourceUidOf[selected'[i]] = SourceUidOf[selected'[j]]
    BY DEF OneSourcePerDocument
  <1>4. CASE i \in DOMAIN selected /\ j \in DOMAIN selected
    BY <1>0, <1>3, <1>4 DEF OneSourcePerDocument
  <1>5. CASE i = n + 1 /\ j \in DOMAIN selected
    BY <1>0, <1>2, <1>3, <1>5
  <1>6. CASE i \in DOMAIN selected /\ j = n + 1
    BY <1>0, <1>2, <1>3, <1>6
  <1>7. CASE i = n + 1 /\ j = n + 1
    BY <1>7
  <1>8. QED BY <1>0, <1>4, <1>5, <1>6, <1>7

\* Why a hit may be missing from the selection.
Justified(h) ==
  \/ \E i \in DOMAIN selected : selected[i] = h
  \/ \E i \in DOMAIN selected : /\ DocumentShaOf[h] # ""
                                /\ DocumentShaOf[selected[i]] = DocumentShaOf[h]
                                /\ SourceUidOf[selected[i]] # SourceUidOf[h]
  \/ Cardinality(Picked(OfKey(SourceKey(h)))) >= PerSourceLimit
  \/ /\ SourceClassOf[h] \in LimitedClasses
     /\ Cardinality(Picked(OfClass(SourceClassOf[h]))) >= ClassLimit[SourceClassOf[h]]

\* h is one of the hits that were looked at.
LookedAt(h) == \E i \in 1 .. pos : hits[i] = h

LEMMA AllJustified == OmissionsJustified <=> \A h : LookedAt(h) => Justified(h)
  BY DEF OmissionsJustified, LookedAt, Justified

(* Every step looks at one hit more. *)
LEMMA LookedAtGrows ==
  ASSUME SelectionTypeOK, Running, hits' = hits, pos' = pos + 1
  PROVE  \A h : LookedAt(h)' => h \in Chunks /\ (LookedAt(h) \/ h = hits[pos + 1])
  <1>1. pos \in Nat /\ \A i \in 1 .. pos + 1 : i \in 1 .. Len(hits) /\ (i \in 1 .. pos \/ i = pos + 1)
    BY HitTyped, LenProperties DEF SelectionTypeOK
  <1>2. \A i \in 1 .. pos + 1 : hits[i] \in Chunks
    BY <1>1, ElementOfSeq DEF SelectionTypeOK
  <1>3. QED BY <1>1, <1>2 DEF LookedAt

(* The reasons of a skip, read off the selection. *)
LEMMA SkipJustified ==
  ASSUME SelectionTypeOK, TallyInv, NEW h \in Chunks, SkipReason(h)
  PROVE  Justified(h)
  <1>1. SourceKey(h) \in Keys /\ SourceClassOf[h] \in Classes
    BY DEF Keys, Classes
  <1>2. CASE h \in seen
    BY <1>2 DEF TallyInv, Justified
  <1>3. CASE TakenDocument(h)
    <2>1. PICK s \in SourceUids \ {SourceUidOf[h]} : <<DocumentShaOf[h], s>> \in docSource
      BY <1>3 DEF TakenDocument
    <2>2. PICK i \in DOMAIN selected :
            <<DocumentShaOf[h], s>> = <<DocumentShaOf[selected[i]], SourceUidOf[selected[i]]>>
      BY <2>1 DEF TallyInv
    <2>3. QED BY <1>3, <2>1, <2>2 DEF TakenDocument, Justified
  <1>4. CASE SourceFull(h)
    BY <1>1, <1>4 DEF SourceFull, TallyInv, Justified
  <1>5. CASE ClassFull(h)
    BY <1>1, <1>5 DEF ClassFull, TallyInv, Justified
  <1>6. QED BY <1>2, <1>3, <1>4, <1>5 DEF SkipReason

(* A reason stays one when the selection grows. *)
LEMMA JustifiedStays ==
  ASSUME SelectionTypeOK, Select, NEW h \in Chunks, Justified(h)
  PROVE  Justified(h)'
  <1> DEFINE c == hits[pos + 1]
             n == Len(selected)
  <1>0. /\ c \in Chunks /\ selected' = Append(selected, c)
        /\ \A i \in DOMAIN selected : i \in DOMAIN selected' /\ selected'[i] = selected[i]
    BY SelectEffect
  <1> HIDE DEF c, n
  <1>1. \A k \in Keys : Cardinality(Picked(OfKey(k))') >= Cardinality(Picked(OfKey(k)))
                        /\ Cardinality(Picked(OfKey(k))) \in Nat
                        /\ Cardinality(Picked(OfKey(k))') \in Nat
    <2> TAKE k \in Keys
    <2>1. Cardinality(Picked(OfKey(k))) \in Nat BY PickedFinite DEF SelectionTypeOK
    <2>2. Cardinality(Picked(OfKey(k))') =
            IF c \in OfKey(k) THEN Cardinality(Picked(OfKey(k))) + 1
            ELSE Cardinality(Picked(OfKey(k)))
      BY <1>0, PickedAppended DEF SelectionTypeOK
    <2>3. QED BY <2>1, <2>2
  <1>2. \A k \in Classes : Cardinality(Picked(OfClass(k))') >= Cardinality(Picked(OfClass(k)))
                           /\ Cardinality(Picked(OfClass(k))) \in Nat
                           /\ Cardinality(Picked(OfClass(k))') \in Nat
    <2> TAKE k \in Classes
    <2>1. Cardinality(Picked(OfClass(k))) \in Nat BY PickedFinite DEF SelectionTypeOK
    <2>2. Cardinality(Picked(OfClass(k))') =
            IF c \in OfClass(k) THEN Cardinality(Picked(OfClass(k))) + 1
            ELSE Cardinality(Picked(OfClass(k)))
      BY <1>0, PickedAppended DEF SelectionTypeOK
    <2>3. QED BY <2>1, <2>2
  <1>3. CASE \E i \in DOMAIN selected : selected[i] = h
    BY <1>0, <1>3 DEF Justified
  <1>4. CASE \E i \in DOMAIN selected : /\ DocumentShaOf[h] # ""
                                       /\ DocumentShaOf[selected[i]] = DocumentShaOf[h]
                                       /\ SourceUidOf[selected[i]] # SourceUidOf[h]
    BY <1>0, <1>4 DEF Justified
  <1>5. CASE Cardinality(Picked(OfKey(SourceKey(h)))) >= PerSourceLimit
    <2>1. PICK k \in Keys : k = SourceKey(h) BY DEF Keys
    <2>2. Cardinality(Picked(OfKey(k))') >= PerSourceLimit
      BY <1>1, <1>5, <2>1, HitsAssumption
    <2>3. QED BY <2>1, <2>2 DEF Justified, SourceKey, Picked
  <1>6. CASE /\ SourceClassOf[h] \in LimitedClasses
             /\ Cardinality(Picked(OfClass(SourceClassOf[h]))) >= ClassLimit[SourceClassOf[h]]
    <2>1. PICK k \in Classes : k = SourceClassOf[h] BY DEF Classes
    <2>2. ClassLimit[k] \in Nat BY <1>6, <2>1, HitsAssumption
    <2>3. Cardinality(Picked(OfClass(k))') >= ClassLimit[k]
      BY <1>2, <1>6, <2>1, <2>2
    <2>4. QED BY <1>6, <2>1, <2>3 DEF Justified, Picked
  <1>7. QED BY <1>3, <1>4, <1>5, <1>6 DEF Justified
LEMMA SameSelection ==
  ASSUME UNCHANGED <<selected, seen, docSource, sourceCount, classCount>>
  PROVE  /\ TallyInv => TallyInv'
         /\ CapInv => CapInv'
         /\ OneSourcePerDocument => OneSourcePerDocument'
         /\ \A h : Justified(h) => Justified(h)'
  <1>1. \A C : Picked(C)' = Picked(C) BY DEF Picked
  <1>2. TallyInv => TallyInv' BY <1>1 DEF TallyInv
  <1>3. CapInv => CapInv' BY <1>1 DEF CapInv
  <1>4. OneSourcePerDocument => OneSourcePerDocument' BY DEF OneSourcePerDocument
  <1>5. \A h : Justified(h) => Justified(h)' BY <1>1 DEF Justified
  <1>6. QED BY <1>2, <1>3, <1>4, <1>5

LEMMA SelectionNextInv == SelectionTypeOK /\ SelectionInv /\ [Next]_vars => SelectionInv'
  <1> SUFFICES ASSUME SelectionTypeOK, SelectionInv, [Next]_vars PROVE SelectionInv'
    OBVIOUS
  <1>1. CASE Skip
    <2>1. /\ UNCHANGED <<hits, selected, seen, docSource, sourceCount, classCount>>
          /\ pos' = pos + 1 /\ pos \in Nat /\ hits[pos + 1] \in Chunks /\ SkipReason(hits[pos + 1])
      BY <1>1, HitTyped DEF Skip
    <2>2. TallyInv' /\ CapInv' /\ OneSourcePerDocument'
      BY <2>1, SameSelection DEF SelectionInv
    <2>3. Justified(hits[pos + 1])
      BY <2>1, SkipJustified DEF SelectionInv
    <2>4. \A h : LookedAt(h)' => Justified(h)
      BY <1>1, <2>1, <2>3, LookedAtGrows, AllJustified DEF Skip, SelectionInv
    <2>5. OmissionsJustified'
      BY <2>1, <2>4 DEF OmissionsJustified, LookedAt, Justified, Picked
    <2>6. QED BY <2>2, <2>5 DEF SelectionInv
  <1>2. CASE Select
    <2>1. TallyInv' /\ CapInv' /\ OneSourcePerDocument'
      BY <1>2, SelectKeepsTally, SelectKeepsCaps, SelectKeepsDocuments DEF SelectionInv
    <2>2. ASSUME NEW h, LookedAt(h)' PROVE Justified(h)'
      <3>1. h \in Chunks /\ (LookedAt(h) \/ h = hits[pos + 1])
        BY <1>2, <2>2, LookedAtGrows DEF Select
      <3>2. CASE LookedAt(h)
        BY <1>2, <3>1, <3>2, AllJustified, JustifiedStays DEF SelectionInv
      <3>3. CASE h = hits[pos + 1]
        BY <1>2, <3>3, SelectEffect DEF Justified
      <3>4. QED BY <3>1, <3>2, <3>3
    <2>3. OmissionsJustified'
      BY <2>2 DEF OmissionsJustified, LookedAt, Justified, Picked
    <2>4. QED BY <2>1, <2>3 DEF SelectionInv
  <1>3. CASE UNCHANGED vars
    <2>1. TallyInv' /\ CapInv' /\ OneSourcePerDocument' /\ \A h : Justified(h) => Justified(h)'
      BY <1>3, SameSelection DEF vars, SelectionInv
    <2>2. \A h : LookedAt(h)' => LookedAt(h)
      BY <1>3 DEF vars, LookedAt
    <2>3. OmissionsJustified'
      BY <2>1, <2>2, AllJustified DEF SelectionInv, OmissionsJustified, LookedAt, Justified, Picked
    <2>4. QED BY <2>1, <2>3 DEF SelectionInv
  <1>4. QED BY <1>1, <1>2, <1>3 DEF Next

LEMMA SelectionInitInv == Init => SelectionInv
  <1> SUFFICES ASSUME Init PROVE SelectionInv
    OBVIOUS
  <1>1. selected = <<>> /\ DOMAIN selected = {} /\ Len(selected) = 0
    BY DEF Init
  <1>2. \A C : Picked(C) = {} /\ Cardinality(Picked(C)) = 0
    BY <1>1, FS_EmptySet DEF Picked
  <1>3. TallyInv BY <1>1, <1>2 DEF Init, TallyInv
  <1>4. CapInv BY <1>1, <1>2, HitsAssumption DEF CapInv
  <1>5. OneSourcePerDocument BY <1>1 DEF OneSourcePerDocument
  <1>6. OmissionsJustified BY DEF Init, OmissionsJustified
  <1>7. QED BY <1>3, <1>4, <1>5, <1>6 DEF SelectionInv

(* The invariant the theorems below rest on. *)
THEOREM SelectionInvariant == Spec => [](SelectionTypeOK /\ SelectionInv)
  BY SelectionInitTyped, SelectionNextTyped, SelectionInitInv, SelectionNextInv, PTL DEF Spec

(* The code counts chunks of a document; where a source's chunks are of    *)
(* one document, or of none, this is a cap on the source.                  *)
LEMMA CapOnSource ==
  ASSUME SelectionTypeOK, CapInv, NEW s \in SourceUids,
         \A c, d \in OfSource(s) : DocumentShaOf[c] = DocumentShaOf[d]
  PROVE  Cardinality(Picked(OfSource(s))) <= PerSourceLimit
  <1>1. CASE Picked(OfSource(s)) = {}
    BY <1>1, FS_EmptySet, HitsAssumption
  <1>2. CASE Picked(OfSource(s)) # {}
    <2>1. PICK c \in Chunks : SourceUidOf[c] = s
      BY <1>2 DEF Picked, OfSource
    <2>2. OfSource(s) \subseteq OfKey(SourceKey(c)) /\ SourceKey(c) \in Keys
      BY <2>1 DEF OfSource, OfKey, SourceKey, Keys
    <2>3. PICK k \in Keys : OfSource(s) \subseteq OfKey(k)
      BY <2>2
    <2>4. Picked(OfSource(s)) \in SUBSET Picked(OfKey(k))
      BY <2>3 DEF Picked
    <2>5. IsFiniteSet(Picked(OfKey(k))) /\ Cardinality(Picked(OfKey(k))) \in Nat
          /\ Cardinality(Picked(OfSource(s))) \in Nat
      BY PickedFinite DEF SelectionTypeOK
    <2>6. Cardinality(Picked(OfSource(s))) <= Cardinality(Picked(OfKey(k)))
      BY <2>4, <2>5, FS_Subset
    <2>7. QED BY <2>5, <2>6, HitsAssumption DEF CapInv
  <1>3. QED BY <1>1, <1>2

(* One source cannot dominate an answer, and no chunk is cited twice.      *)
THEOREM NoSourceEverDominates == Spec => []NoSourceDominates
  <1>1. SelectionTypeOK /\ SelectionInv => NoSourceDominates
    BY CapOnSource DEF SelectionInv, CapInv, NoSourceDominates
  <1>2. QED BY <1>1, SelectionInvariant, PTL

(* No answer cites one document under two sources.                         *)
THEOREM DocumentsHaveOneSource == Spec => []OneSourcePerDocument
  BY SelectionInvariant, PTL DEF SelectionInv

(* What the selection leaves out, it leaves out for a reason that can be   *)
(* read off what it keeps.                                                 *)
THEOREM OmissionsAreJustified == Spec => []OmissionsJustified
  BY SelectionInvariant, PTL DEF SelectionInv
=============================================================================
