------------------------- MODULE AnswerExportProofs -------------------------
(***************************************************************************)
(* Proofs about the exports, for any number of answers, drafts and runs.   *)
(*                                                                         *)
(* ExportInv is the inductive invariant. PathsHaveFiles and ManifestTrue   *)
(* speak of answers at rest; what carries them through a run is what each  *)
(* phase of a run already knows (Progress), and that a run which counts    *)
(* itself alone is the only active one of its answer (AloneIsAlone).       *)
(***************************************************************************)
EXTENDS AnswerExport, TLAPS

Writing == {"pdf", "hash_html", "hash_pdf", "manifest"}
Entering == {"paths", "audit", "commit", "unaudited"}

(* What a run has established when it is in a phase. *)
Progress(x) ==
  /\ pc[x] \notin {"idle", "rejected"} => (kind[x] = "draft" <=> uid[x] \in Drafts)
  /\ pc[x] \in Writing \cup Entering => html[uid[x]] # NoFile
  /\ pc[x] \in (Writing \ {"pdf"}) \cup Entering => pdf[uid[x]] # NoFile
  /\ pc[x] \in {"hash_html", "hash_pdf", "manifest", "commit"} => kind[x] # "draft"
  /\ pc[x] \in {"hash_pdf", "manifest"} => seen[x].html # NoFile
  /\ pc[x] \in Entering /\ uid[x] \in Answers => manifest[uid[x]] # NoManifest
  /\ pc[x] \in {"paths", "audit", "unaudited"} => kind[x] \in {"web", "draft"}
  /\ pc[x] = "commit" => kind[x] \in {"cli", "backfill"}
  /\ pc[x] \notin Ended /\ kind[x] = "backfill" => uid[x] \in paths
  /\ pc[x] \in {"audit", "unaudited"} => uid[x] \in paths

AloneIsAlone(x) ==
  /\ alone[x] /\ pc[x] \notin Ended => Active(uid[x]) = {x}
  /\ alone[x] /\ pc[x] \in {"hash_pdf", "manifest"} => seen[x].html = html[uid[x]]
  /\ alone[x] /\ pc[x] = "manifest" => seen[x].pdf = pdf[uid[x]]

(* No file of the answer has changed since its manifest was written. *)
ManifestHolds(u) ==
  manifest[u].readable /\ (\A x \in Active(u) : pc[x] \notin Writing) =>
    manifest[u].html = html[u] /\ manifest[u].pdf = pdf[u]

(* A manifest that is there names a hash of the HTML file. *)
ManifestNamed == \A u \in Uids : manifest[u] # NoManifest => manifest[u].html # NoFile

ExportInv ==
  /\ ExportTypeOK
  /\ \A x \in Runs : Progress(x)
  /\ \A x \in Runs : AloneIsAlone(x)
  /\ \A u \in Answers \ disturbed : ManifestHolds(u)
  /\ ManifestNamed
  /\ PathsHaveFiles
  /\ ExportOnRecord
  /\ UncitedNeverExported

-----------------------------------------------------------------------------
(* A torn manifest is one, and none stays none. *)
LEMMA UnreadableIsManifest ==
  ASSUME NEW m \in Manifests
  PROVE  /\ Unreadable(m) \in Manifests
         /\ Unreadable(m).html = m.html
         /\ m = NoManifest => Unreadable(m) = NoManifest
<1>1. PICK h \in Contents, p \in Contents, r \in BOOLEAN :
        m = [html |-> h, pdf |-> p, readable |-> r]
  BY DEF Manifests
<1>2. m.html = h /\ m.pdf = p
  BY <1>1
<1>3. Unreadable(m) \in Manifests /\ Unreadable(m).html = m.html
  BY <1>2 DEF Unreadable, Manifests
<1>4. m = NoManifest => Unreadable(m) = NoManifest
  BY DEF Unreadable, NoManifest
<1> QED
  BY <1>3, <1>4

(* Entering a directory keeps the flags Boolean. *)
LEMMA EnterType ==
  ASSUME ExportTypeOK, NEW x \in Runs, NEW phase \in Phases, Enter(x, phase)
  PROVE  pc' \in [Runs -> Phases] /\ alone' \in [Runs -> BOOLEAN]
<1>1. pc' \in [Runs -> Phases]
  BY DEF ExportTypeOK, Enter, Goto
<1>2. alone' \in [Runs -> BOOLEAN]
  BY DEF ExportTypeOK, Enter
<1> QED
  BY <1>1, <1>2

(* Whoever enters a directory ends the solitude of those at work in it. *)
LEMMA EnterAlone ==
  ASSUME ExportInv, NEW x \in Runs, pc[x] = "idle",
         NEW phase \in {"html", "hash_html"}, Enter(x, phase),
         UNCHANGED <<html, pdf, uid, seen>>
  PROVE  \A y \in Runs : AloneIsAlone(y)'
<1>1. pc' = [pc EXCEPT ![x] = phase] /\ phase \notin Ended /\ pc[x] \in Ended
  BY DEF Enter, Goto, Ended
<1>2. pc'[x] = phase /\ \A y \in Runs \ {x} : pc'[y] = pc[y]
  BY <1>1 DEF ExportInv, ExportTypeOK
<1>3. \A y \in Runs : uid[y] \in Uids
  BY DEF ExportInv, ExportTypeOK
<1>4. Active(uid[x])' = Active(uid[x]) \cup {x}
  BY <1>1, <1>2 DEF Active
<1>5. \A u \in Uids \ {uid[x]} : Active(u)' = Active(u)
  BY <1>1, <1>2 DEF Active
<1>6. alone'[x] => Active(uid[x]) = {}
  BY DEF Enter
<1>7. \A y \in Runs \ {x} : alone'[y] => alone[y] /\ y \notin Active(uid[x])
  BY DEF Enter
<1>8. TAKE y \in Runs
<1>9. CASE y = x
  BY <1>2, <1>4, <1>6, <1>9 DEF AloneIsAlone
<1>10. CASE y # x
  <2>1. SUFFICES ASSUME alone'[y] PROVE AloneIsAlone(y)'
    BY DEF AloneIsAlone
  <2>2. alone[y] /\ y \notin Active(uid[x]) /\ pc'[y] = pc[y]
    BY <1>2, <1>7, <1>10, <2>1
  <2>3. pc[y] \notin Ended => uid[y] # uid[x]
    BY <2>2 DEF Active
  <2>4. pc[y] \notin Ended => Active(uid[y])' = {y}
    BY <1>3, <1>5, <2>2, <2>3 DEF ExportInv, AloneIsAlone
  <2> QED
    BY <2>2, <2>4 DEF ExportInv, AloneIsAlone
<1> QED
  BY <1>9, <1>10

(* Every step keeps the types. *)
LEMMA StepTypeOK ==
  ASSUME ExportInv, NEW x \in Runs, Step(x) \/ Die(x)
  PROVE  ExportTypeOK'
<1>1. CASE Start(x)
  BY <1>1
     DEF Start, Enter, Goto, ExportInv, ExportTypeOK, dbVars, fileVars, Phases
<1>2. CASE Reject(x)
  BY <1>2
     DEF Reject, Goto, ExportInv, ExportTypeOK, dbVars, fileVars, Phases
<1>3. CASE StartDraft(x)
  BY <1>3
     DEF StartDraft, Enter, Goto, ExportInv, ExportTypeOK, dbVars, fileVars, Phases
<1>4. CASE StartBackfill(x)
  <2>1. CASE Enter(x, "hash_html")
    BY <1>4, <2>1, EnterType
       DEF StartBackfill, ExportInv, ExportTypeOK, dbVars, fileVars, Phases
  <2>2. CASE Goto(x, "rejected") /\ UNCHANGED alone
    BY <1>4, <2>2 DEF StartBackfill, Goto, ExportInv, ExportTypeOK, dbVars, fileVars, Phases
  <2> QED
    BY <1>4, <2>1, <2>2 DEF StartBackfill
<1>5. CASE WriteHtml(x)
  BY <1>5
     DEF WriteHtml, Goto, ExportInv, ExportTypeOK, dbVars, Contents, Phases
<1>6. CASE WritePdf(x)
  BY <1>6
     DEF WritePdf, Goto, ExportInv, ExportTypeOK, dbVars, Contents, Phases
<1>7. CASE HashHtml(x)
  BY <1>7
     DEF HashHtml, Goto, ExportInv, ExportTypeOK, dbVars, fileVars, Phases
<1>8. CASE HashPdf(x)
  BY <1>8
     DEF HashPdf, Goto, ExportInv, ExportTypeOK, dbVars, fileVars, Phases
<1>9. CASE WriteManifest(x)
  <2> DEFINE new == [html |-> seen[x].html, pdf |-> seen[x].pdf, readable |-> TRUE]
  <2>1. kind[x] # "draft" /\ kind[x] \in Kinds /\ uid[x] \in Uids
    BY <1>9 DEF WriteManifest, ExportInv, ExportTypeOK, Progress
  <2>2. new \in Manifests
    BY DEF ExportInv, ExportTypeOK, Manifests
  <2>3. manifest' = [manifest EXCEPT ![uid[x]] = new]
    BY <1>9 DEF WriteManifest
  <2> HIDE DEF new
  <2>4. manifest' \in [Uids -> Manifests]
    BY <2>1, <2>2, <2>3 DEF ExportInv, ExportTypeOK
  <2>5. AfterManifest[kind[x]] \in Phases
    BY <2>1 DEF AfterManifest, Kinds, Phases
  <2>6. pc' \in [Runs -> Phases]
    BY <1>9, <2>5 DEF WriteManifest, Goto, ExportInv, ExportTypeOK
  <2>7. disturbed' \subseteq Uids
    BY <1>9, <2>1 DEF WriteManifest, ExportInv, ExportTypeOK
  <2> QED
    BY <1>9, <2>4, <2>6, <2>7 DEF WriteManifest, ExportInv, ExportTypeOK, dbVars
<1>10. CASE WritePaths(x)
  BY <1>10
     DEF WritePaths, Goto, ExportInv, ExportTypeOK, fileVars, Phases
<1>11. CASE WriteAudit(x)
  BY <1>11
     DEF WriteAudit, Goto, AuditAction, ExportInv, ExportTypeOK, fileVars, Kinds, Phases, AuditActions, ExportActions
<1>12. CASE Commit(x)
  BY <1>12
     DEF Commit, Goto, AuditAction, ExportInv, ExportTypeOK, fileVars, Kinds, Phases, AuditActions, ExportActions
<1>13. CASE Die(x)
  <2>1. pc' \in [Runs -> Phases] /\ disturbed' \subseteq Uids
    BY <1>13 DEF Die, Goto, ExportInv, ExportTypeOK, Phases
  <2>2. html' \in [Uids -> Contents] /\ pdf' \in [Uids -> Contents]
    BY <1>13 DEF Die, fileVars, ExportInv, ExportTypeOK, Contents
  <2>3. Unreadable(manifest[uid[x]]) \in Manifests
    <3>1. manifest[uid[x]] \in Manifests
      BY DEF ExportInv, ExportTypeOK
    <3> QED
      BY <3>1, UnreadableIsManifest
  <2>4. manifest' \in [Uids -> Manifests]
    BY <1>13, <2>3 DEF Die, fileVars, ExportInv, ExportTypeOK
  <2> QED
    BY <1>13, <2>1, <2>2, <2>4 DEF Die, ExportInv, ExportTypeOK, dbVars
<1> QED
  BY <1>1, <1>2, <1>3, <1>4, <1>5, <1>6, <1>7, <1>8, <1>9, <1>10, <1>11, <1>12, <1>13 DEF Step

(* Every step keeps what the phases of all runs rest on. *)
LEMMA StepProgress ==
  ASSUME ExportInv, NEW x \in Runs, Step(x) \/ Die(x)
  PROVE  \A y \in Runs : Progress(y)'
<1>1. CASE Start(x)
  BY <1>1, AnswersAssumption
     DEF Start, Enter, Goto, Validated, ExportInv, dbVars, fileVars, Progress, Writing, Entering
<1>2. CASE Reject(x)
  BY <1>2
     DEF Reject, Goto, ExportInv, dbVars, fileVars, Progress, Writing, Entering
<1>3. CASE StartDraft(x)
  BY <1>3
     DEF StartDraft, Enter, Goto, ExportInv, dbVars, fileVars, Progress, Writing, Entering
<1>4. CASE StartBackfill(x)
  BY <1>4, AnswersAssumption
     DEF StartBackfill, Enter, Goto, Validated, ExportInv, ExportTypeOK, dbVars, fileVars, Progress, PathsHaveFiles
<1>5. CASE WriteHtml(x)
  BY <1>5, RunsAssumption
     DEF WriteHtml, Goto, ExportInv, ExportTypeOK, dbVars, Progress, Entering, Ended
<1>6. CASE WritePdf(x)
  BY <1>6, AnswersAssumption, RunsAssumption
     DEF WritePdf, Goto, ExportInv, ExportTypeOK, dbVars, Progress, Writing, Entering, Ended
<1>7. CASE HashHtml(x)
  BY <1>7
     DEF HashHtml, Goto, ExportInv, ExportTypeOK, dbVars, fileVars, Progress, Writing, Entering, Ended
<1>8. CASE HashPdf(x)
  BY <1>8
     DEF HashPdf, Goto, ExportInv, dbVars, fileVars, Progress, Writing, Entering, Ended
<1>9. CASE WriteManifest(x)
  BY <1>9
     DEF WriteManifest, Goto, AfterManifest, ExportInv, ExportTypeOK, dbVars, Progress, Writing, Ended, NoManifest, NoFile, Kinds
<1>10. CASE WritePaths(x)
  BY <1>10
     DEF WritePaths, Goto, ExportInv, fileVars, Progress, Entering
<1>11. CASE WriteAudit(x)
  BY <1>11
     DEF WriteAudit, Goto, ExportInv, fileVars, Progress, PathsHaveFiles
<1>12. CASE Commit(x)
  BY <1>12
     DEF Commit, Goto, ExportInv, fileVars, Progress, Entering
<1>13. CASE Die(x)
  BY <1>13
     DEF Die, Goto, Ended, Unreadable, ExportInv, ExportTypeOK, dbVars, fileVars, Progress, Writing, Entering, Uids, NoManifest, ManifestNamed, Torn, NoFile
<1> QED
  BY <1>1, <1>2, <1>3, <1>4, <1>5, <1>6, <1>7, <1>8, <1>9, <1>10, <1>11, <1>12, <1>13 DEF Step

(* Every step keeps solitude truthful. *)
LEMMA StepAlone ==
  ASSUME ExportInv, NEW x \in Runs, Step(x) \/ Die(x)
  PROVE  \A y \in Runs : AloneIsAlone(y)'
<1>1. CASE Start(x)
  BY <1>1, EnterAlone DEF Start, fileVars
<1>2. CASE Reject(x)
  BY <1>2
     DEF Reject, Goto, ExportInv, fileVars, AloneIsAlone, Active, Ended
<1>3. CASE StartDraft(x)
  BY <1>3
     DEF StartDraft, Enter, Goto, ExportInv, ExportTypeOK, fileVars, AloneIsAlone, Active
<1>4. CASE StartBackfill(x)
  <2>1. CASE Enter(x, "hash_html")
    BY <1>4, <2>1, EnterAlone DEF StartBackfill, fileVars
  <2>2. CASE Goto(x, "rejected") /\ UNCHANGED alone
    <3>1. \A y \in Runs : /\ pc'[y] \in Ended <=> pc[y] \in Ended
                          /\ pc'[y] \in {"hash_pdf", "manifest"} => pc'[y] = pc[y]
      BY <1>4, <2>2 DEF StartBackfill, Goto, Ended, ExportInv, ExportTypeOK
    <3>2. \A u \in Uids : Active(u)' = Active(u)
      BY <1>4, <3>1 DEF StartBackfill, Active
    <3>3. \A y \in Runs : uid[y] \in Uids
      BY DEF ExportInv, ExportTypeOK
    <3> QED
      BY <1>4, <2>2, <3>1, <3>2, <3>3
         DEF StartBackfill, ExportInv, AloneIsAlone, fileVars
  <2> QED
    BY <1>4, <2>1, <2>2 DEF StartBackfill
<1>5. CASE WriteHtml(x)
  BY <1>5
     DEF WriteHtml, Goto, ExportInv, AloneIsAlone, Active, Ended
<1>6. CASE WritePdf(x)
  BY <1>6
     DEF WritePdf, Goto, ExportInv, AloneIsAlone, Active, Ended
<1>7. CASE HashHtml(x)
  BY <1>7
     DEF HashHtml, Goto, ExportInv, ExportTypeOK, fileVars, AloneIsAlone, Active, Ended
<1>8. CASE HashPdf(x)
  BY <1>8
     DEF HashPdf, Goto, ExportInv, ExportTypeOK, fileVars, AloneIsAlone, Active, Ended
<1>9. CASE WriteManifest(x)
  BY <1>9
     DEF WriteManifest, Goto, ExportInv, AloneIsAlone, Active, Ended
<1>10. CASE WritePaths(x)
  BY <1>10
     DEF WritePaths, Goto, ExportInv, fileVars, AloneIsAlone, Active, Ended
<1>11. CASE WriteAudit(x)
  BY <1>11
     DEF WriteAudit, Goto, ExportInv, fileVars, AloneIsAlone, Active, Ended
<1>12. CASE Commit(x)
  BY <1>12
     DEF Commit, Goto, ExportInv, fileVars, AloneIsAlone, Active, Ended
<1>13. CASE Die(x)
  BY <1>13
     DEF Die, Goto, Ended, ExportInv, ExportTypeOK, fileVars, AloneIsAlone, Active
<1> QED
  BY <1>1, <1>2, <1>3, <1>4, <1>5, <1>6, <1>7, <1>8, <1>9, <1>10, <1>11, <1>12, <1>13 DEF Step

(* Every step keeps the manifests of undisturbed answers. *)
LEMMA StepManifest ==
  ASSUME ExportInv, NEW x \in Runs, Step(x) \/ Die(x)
  PROVE  \A u \in Answers \ disturbed' : ManifestHolds(u)'
<1>1. CASE Start(x)
  BY <1>1
     DEF Start, Enter, Goto, ExportInv, fileVars, ManifestHolds, Active, Ended
<1>2. CASE Reject(x)
  BY <1>2
     DEF Reject, Goto, ExportInv, fileVars, ManifestHolds, Active, Ended
<1>3. CASE StartDraft(x)
  BY <1>3
     DEF StartDraft, Enter, Goto, ExportInv, fileVars, ManifestHolds, Active
<1>4. CASE StartBackfill(x)
  <2> SUFFICES ASSUME NEW u \in Answers \ disturbed,
                      manifest[u].readable,
                      \A y \in Active(u)' : pc'[y] \notin Writing
               PROVE  manifest[u].html = html[u] /\ manifest[u].pdf = pdf[u]
    BY <1>4 DEF StartBackfill, fileVars, ManifestHolds
  <2>1. \A y \in Runs \ {x} : pc'[y] = pc[y]
    BY <1>4 DEF StartBackfill, Enter, Goto, ExportInv, ExportTypeOK
  <2>2. \A y \in Active(u) : y # x /\ y \in Active(u)'
    BY <1>4, <2>1 DEF StartBackfill, Active, Ended
  <2>3. \A y \in Active(u) : pc[y] \notin Writing
    BY <2>1, <2>2 DEF Active
  <2> QED
    BY <2>3 DEF ExportInv, ManifestHolds
<1>5. CASE WriteHtml(x)
  BY <1>5
     DEF WriteHtml, Goto, ExportInv, ExportTypeOK, ManifestHolds, Active, Ended, Writing
<1>6. CASE WritePdf(x)
  BY <1>6, AnswersAssumption
     DEF WritePdf, Goto, ExportInv, ManifestHolds, Active, Ended, Progress, Writing
<1>7. CASE HashHtml(x)
  BY <1>7
     DEF HashHtml, Goto, ExportInv, fileVars, ManifestHolds, Active, Ended, Writing
<1>8. CASE HashPdf(x)
  BY <1>8
     DEF HashPdf, Goto, ExportInv, fileVars, ManifestHolds, Active, Ended, Writing
<1>9. CASE WriteManifest(x)
  BY <1>9
     DEF WriteManifest, Goto, ExportInv, ExportTypeOK, ManifestHolds, AloneIsAlone, Active, Contents
<1>10. CASE WritePaths(x)
  BY <1>10
     DEF WritePaths, Goto, ExportInv, fileVars, ManifestHolds, Active, Writing
<1>11. CASE WriteAudit(x)
  BY <1>11
     DEF WriteAudit, Goto, ExportInv, fileVars, ManifestHolds, Active, Writing
<1>12. CASE Commit(x)
  BY <1>12
     DEF Commit, Goto, ExportInv, fileVars, ManifestHolds, Active, Writing
<1>13. CASE Die(x)
  BY <1>13
     DEF Die, Goto, ExportInv, ExportTypeOK, fileVars, ManifestHolds, Active, Uids, Writing
<1> QED
  BY <1>1, <1>2, <1>3, <1>4, <1>5, <1>6, <1>7, <1>8, <1>9, <1>10, <1>11, <1>12, <1>13 DEF Step

(* Every step keeps the manifests named. *)
LEMMA StepNamed ==
  ASSUME ExportInv, NEW x \in Runs, Step(x) \/ Die(x)
  PROVE  ManifestNamed'
<1>1. CASE Start(x)
  BY <1>1
     DEF Start, ExportInv, fileVars, ManifestNamed
<1>2. CASE Reject(x)
  BY <1>2
     DEF Reject, ExportInv, fileVars, ManifestNamed
<1>3. CASE StartDraft(x)
  BY <1>3
     DEF StartDraft, ExportInv, fileVars, ManifestNamed
<1>4. CASE StartBackfill(x)
  BY <1>4
     DEF StartBackfill, ExportInv, fileVars, ManifestNamed
<1>5. CASE WriteHtml(x)
  BY <1>5
     DEF WriteHtml, ExportInv, ManifestNamed
<1>6. CASE WritePdf(x)
  BY <1>6
     DEF WritePdf, ExportInv, ManifestNamed
<1>7. CASE HashHtml(x)
  BY <1>7
     DEF HashHtml, ExportInv, fileVars, ManifestNamed
<1>8. CASE HashPdf(x)
  BY <1>8
     DEF HashPdf, ExportInv, fileVars, ManifestNamed
<1>9. CASE WriteManifest(x)
  BY <1>9
     DEF WriteManifest, ExportInv, ManifestNamed, Progress
<1>10. CASE WritePaths(x)
  BY <1>10
     DEF WritePaths, ExportInv, fileVars, ManifestNamed
<1>11. CASE WriteAudit(x)
  BY <1>11
     DEF WriteAudit, ExportInv, fileVars, ManifestNamed
<1>12. CASE Commit(x)
  BY <1>12
     DEF Commit, ExportInv, fileVars, ManifestNamed
<1>13. CASE Die(x)
  <2>1. CASE UNCHANGED manifest
    BY <2>1 DEF ExportInv, ManifestNamed
  <2>2. CASE /\ pc[x] = "manifest"
             /\ manifest' = [manifest EXCEPT ![uid[x]] = Unreadable(@)]
    <3> SUFFICES ASSUME NEW u \in Uids, manifest'[u] # NoManifest
                 PROVE  manifest'[u].html # NoFile
      BY DEF ManifestNamed
    <3>1. CASE u # uid[x]
      BY <2>2, <3>1 DEF ExportInv, ManifestNamed, ExportTypeOK
    <3>2. CASE u = uid[x]
      <4>1. manifest[u] \in Manifests
        BY DEF ExportInv, ExportTypeOK
      <4>2. manifest'[u] = Unreadable(manifest[u])
        BY <2>2, <3>2 DEF ExportInv, ExportTypeOK
      <4> QED
        BY <4>1, <4>2, UnreadableIsManifest DEF ExportInv, ManifestNamed
    <3> QED
      BY <3>1, <3>2
  <2> QED
    BY <1>13, <2>1, <2>2 DEF Die, fileVars
<1> QED
  BY <1>1, <1>2, <1>3, <1>4, <1>5, <1>6, <1>7, <1>8, <1>9, <1>10, <1>11, <1>12, <1>13 DEF Step

(* Every step keeps the files of entered paths. *)
LEMMA StepPaths ==
  ASSUME ExportInv, NEW x \in Runs, Step(x) \/ Die(x)
  PROVE  PathsHaveFiles'
<1>1. CASE Start(x)
  BY <1>1
     DEF Start, ExportInv, dbVars, fileVars, PathsHaveFiles
<1>2. CASE Reject(x)
  BY <1>2
     DEF Reject, ExportInv, dbVars, fileVars, PathsHaveFiles
<1>3. CASE StartDraft(x)
  BY <1>3
     DEF StartDraft, ExportInv, dbVars, fileVars, PathsHaveFiles
<1>4. CASE StartBackfill(x)
  BY <1>4
     DEF StartBackfill, ExportInv, dbVars, fileVars, PathsHaveFiles
<1>5. CASE WriteHtml(x)
  BY <1>5, RunsAssumption
     DEF WriteHtml, ExportInv, dbVars, PathsHaveFiles
<1>6. CASE WritePdf(x)
  BY <1>6, RunsAssumption
     DEF WritePdf, ExportInv, dbVars, PathsHaveFiles
<1>7. CASE HashHtml(x)
  BY <1>7
     DEF HashHtml, ExportInv, dbVars, fileVars, PathsHaveFiles
<1>8. CASE HashPdf(x)
  BY <1>8
     DEF HashPdf, ExportInv, dbVars, fileVars, PathsHaveFiles
<1>9. CASE WriteManifest(x)
  BY <1>9
     DEF WriteManifest, ExportInv, dbVars, PathsHaveFiles, NoManifest, NoFile
<1>10. CASE WritePaths(x)
  BY <1>10
     DEF WritePaths, ExportInv, fileVars, PathsHaveFiles, Progress, Entering
<1>11. CASE WriteAudit(x)
  BY <1>11
     DEF WriteAudit, ExportInv, fileVars, PathsHaveFiles
<1>12. CASE Commit(x)
  BY <1>12
     DEF Commit, ExportInv, fileVars, PathsHaveFiles, Progress, Entering
<1>13. CASE Die(x)
  BY <1>13
     DEF Die, Unreadable, ExportInv, ExportTypeOK, dbVars, fileVars, PathsHaveFiles, ManifestNamed, Uids, NoManifest, NoFile, Torn
<1> QED
  BY <1>1, <1>2, <1>3, <1>4, <1>5, <1>6, <1>7, <1>8, <1>9, <1>10, <1>11, <1>12, <1>13 DEF Step

(* Every step keeps exports on record. *)
LEMMA StepRecord ==
  ASSUME ExportInv, NEW x \in Runs, Step(x) \/ Die(x)
  PROVE  ExportOnRecord'
<1>1. CASE Start(x)
  BY <1>1
     DEF Start, Enter, Goto, ExportInv, dbVars, ExportOnRecord
<1>2. CASE Reject(x)
  BY <1>2, AnswersAssumption
     DEF Reject, Goto, ExportInv, dbVars, ExportOnRecord
<1>3. CASE StartDraft(x)
  BY <1>3
     DEF StartDraft, Enter, Goto, ExportInv, dbVars, ExportOnRecord
<1>4. CASE StartBackfill(x)
  BY <1>4
     DEF StartBackfill, Enter, Goto, ExportInv, ExportTypeOK, dbVars, ExportOnRecord, ExportActions
<1>5. CASE WriteHtml(x)
  BY <1>5
     DEF WriteHtml, Goto, ExportInv, dbVars, ExportOnRecord
<1>6. CASE WritePdf(x)
  BY <1>6
     DEF WritePdf, Goto, ExportInv, dbVars, ExportOnRecord
<1>7. CASE HashHtml(x)
  BY <1>7, AnswersAssumption
     DEF HashHtml, Goto, ExportInv, dbVars, ExportOnRecord
<1>8. CASE HashPdf(x)
  BY <1>8
     DEF HashPdf, Goto, ExportInv, dbVars, ExportOnRecord
<1>9. CASE WriteManifest(x)
  BY <1>9
     DEF WriteManifest, Goto, ExportInv, dbVars, ExportOnRecord
<1>10. CASE WritePaths(x)
  BY <1>10
     DEF WritePaths, Goto, ExportInv, ExportTypeOK, ExportOnRecord
<1>11. CASE WriteAudit(x)
  BY <1>11
     DEF WriteAudit, Goto, AuditAction, ExportInv, ExportOnRecord, Progress, ExportActions
<1>12. CASE Commit(x)
  <2>1. uid[x] \in Uids /\ kind[x] \in {"cli", "backfill"}
    BY <1>12 DEF Commit, ExportInv, ExportTypeOK, Progress
  <2>2. \A y \in Runs : pc[y] \in {"audit", "unaudited"} => pc'[y] = pc[y]
    BY <1>12 DEF Commit, Goto, ExportInv, ExportTypeOK
  <2>3. audit \subseteq audit' /\ uid' = uid
    BY <1>12 DEF Commit
  <2>4. CASE kind[x] = "cli"
    <3>1. audit' = audit \cup {<<"validated_answer_export_cli", uid[x]>>}
      BY <1>12, <2>4 DEF Commit, AuditAction
    <3>2. paths' = paths \cup {uid[x]}
      BY <1>12 DEF Commit
    <3> QED
      BY <2>2, <2>3, <3>1, <3>2 DEF ExportInv, ExportOnRecord, ExportActions
  <2>5. CASE kind[x] = "backfill"
    <3>1. audit' = audit \cup {<<"export_manifest_backfill", uid[x]>>}
      BY <1>12, <2>5 DEF Commit, AuditAction
    <3>2. paths' = paths
      BY <1>12, <2>5 DEF Commit, ExportInv, Progress, Ended
    <3> QED
      BY <2>2, <2>3, <3>1, <3>2 DEF ExportInv, ExportOnRecord, ExportActions
  <2> QED
    BY <2>1, <2>4, <2>5
<1>13. CASE Die(x)
  BY <1>13
     DEF Die, Goto, Ended, ExportInv, dbVars, ExportOnRecord
<1> QED
  BY <1>1, <1>2, <1>3, <1>4, <1>5, <1>6, <1>7, <1>8, <1>9, <1>10, <1>11, <1>12, <1>13 DEF Step

(* Every step keeps drafts unexported. *)
LEMMA StepUncited ==
  ASSUME ExportInv, NEW x \in Runs, Step(x) \/ Die(x)
  PROVE  UncitedNeverExported'
<1>1. CASE Start(x)
  BY <1>1
     DEF Start, ExportInv, dbVars, fileVars, UncitedNeverExported
<1>2. CASE Reject(x)
  BY <1>2
     DEF Reject, ExportInv, dbVars, fileVars, UncitedNeverExported
<1>3. CASE StartDraft(x)
  BY <1>3
     DEF StartDraft, ExportInv, dbVars, fileVars, UncitedNeverExported
<1>4. CASE StartBackfill(x)
  BY <1>4
     DEF StartBackfill, ExportInv, dbVars, fileVars, UncitedNeverExported
<1>5. CASE WriteHtml(x)
  BY <1>5
     DEF WriteHtml, ExportInv, dbVars, UncitedNeverExported
<1>6. CASE WritePdf(x)
  BY <1>6
     DEF WritePdf, ExportInv, dbVars, UncitedNeverExported
<1>7. CASE HashHtml(x)
  BY <1>7
     DEF HashHtml, ExportInv, dbVars, fileVars, UncitedNeverExported
<1>8. CASE HashPdf(x)
  BY <1>8
     DEF HashPdf, ExportInv, dbVars, fileVars, UncitedNeverExported
<1>9. CASE WriteManifest(x)
  BY <1>9
     DEF WriteManifest, ExportInv, ExportTypeOK, dbVars, UncitedNeverExported, Progress, Uids
<1>10. CASE WritePaths(x)
  BY <1>10
     DEF WritePaths, ExportInv, fileVars, UncitedNeverExported
<1>11. CASE WriteAudit(x)
  <2>1. uid[x] \in Drafts => kind[x] = "draft"
    BY <1>11 DEF WriteAudit, ExportInv, Progress
  <2>2. <<AuditAction[kind[x]], uid[x]>> \notin ExportActions \X Drafts
    BY <2>1 DEF AuditAction, ExportActions
  <2>3. audit' = audit \cup {<<AuditAction[kind[x]], uid[x]>>}
    BY <1>11 DEF WriteAudit
  <2> HIDE DEF AuditAction
  <2>4. \A u \in Drafts, a \in ExportActions : <<a, u>> \notin audit'
    BY <2>2, <2>3 DEF ExportInv, UncitedNeverExported
  <2> QED
    BY <1>11, <2>4 DEF WriteAudit, fileVars, ExportInv, UncitedNeverExported
<1>12. CASE Commit(x)
  BY <1>12
     DEF Commit, ExportInv, fileVars, UncitedNeverExported, Progress
<1>13. CASE Die(x)
  <2>1. CASE UNCHANGED manifest
    BY <1>13, <2>1 DEF Die, dbVars, ExportInv, UncitedNeverExported
  <2>2. CASE /\ pc[x] = "manifest"
             /\ manifest' = [manifest EXCEPT ![uid[x]] = Unreadable(@)]
    <3>1. uid[x] \notin Drafts
      BY <2>2 DEF ExportInv, Progress
    <3> QED
      BY <1>13, <2>2, <3>1 DEF Die, dbVars, ExportInv, ExportTypeOK, UncitedNeverExported, Uids
  <2> QED
    BY <1>13, <2>1, <2>2 DEF Die, fileVars
<1> QED
  BY <1>1, <1>2, <1>3, <1>4, <1>5, <1>6, <1>7, <1>8, <1>9, <1>10, <1>11, <1>12, <1>13 DEF Step

-----------------------------------------------------------------------------
LEMMA InitInv == Init => ExportInv
<1> SUFFICES ASSUME Init PROVE ExportInv
  OBVIOUS
<1>1. ExportTypeOK
  BY DEF Init, ExportTypeOK, Uids, Contents, Manifests, NoManifest, Kinds, Phases,
         AuditActions, CreateActions
<1>2. \A x \in Runs : Progress(x)
  BY DEF Init, Progress, Writing, Entering, Ended
<1>3. \A x \in Runs : AloneIsAlone(x)
  BY DEF Init, AloneIsAlone
<1>4. \A u \in Answers \ disturbed : ManifestHolds(u)
  BY DEF Init, ManifestHolds, NoManifest, Uids
<1>5. ManifestNamed
  BY DEF Init, ManifestNamed
<1>6. PathsHaveFiles
  BY DEF Init, PathsHaveFiles
<1>7. ExportOnRecord
  BY DEF Init, ExportOnRecord, ExportActions, CreateActions
<1>8. UncitedNeverExported
  BY DEF Init, UncitedNeverExported, ExportActions, CreateActions, Uids
<1> QED
  BY <1>1, <1>2, <1>3, <1>4, <1>5, <1>6, <1>7, <1>8 DEF ExportInv

LEMMA StepInv == ExportInv /\ [Next]_vars => ExportInv'
<1> SUFFICES ASSUME ExportInv, [Next]_vars PROVE ExportInv'
  OBVIOUS
<1>1. CASE Next
  <2>1. PICK x \in Runs : Step(x) \/ Die(x)
    BY <1>1 DEF Next
  <2> QED
    BY <2>1, StepTypeOK, StepProgress, StepAlone, StepManifest, StepNamed, StepPaths,
       StepRecord, StepUncited
       DEF ExportInv
<1>2. CASE UNCHANGED vars
  <2> USE <1>2 DEF vars, dbVars, fileVars, ExportInv
  <2>1. ExportTypeOK'
    BY DEF ExportTypeOK
  <2>2. \A y \in Runs : Progress(y)'
    BY DEF Progress
  <2>3. \A y \in Runs : AloneIsAlone(y)'
    BY DEF AloneIsAlone, Active
  <2>4. \A u \in Answers \ disturbed' : ManifestHolds(u)'
    BY DEF ManifestHolds, Active
  <2>5. ManifestNamed' /\ PathsHaveFiles' /\ ExportOnRecord' /\ UncitedNeverExported'
    BY DEF ManifestNamed, PathsHaveFiles, ExportOnRecord, UncitedNeverExported
  <2> QED
    BY <2>1, <2>2, <2>3, <2>4, <2>5
<1> QED
  BY <1>1, <1>2

LEMMA ExportInvariant == Spec => []ExportInv
  BY InitInv, StepInv, PTL DEF Spec

(* The types of the export model. *)
THEOREM ExportTypeCorrect == Spec => []ExportTypeOK
<1>1. ExportInv => ExportTypeOK
  BY DEF ExportInv
<1> QED
  BY <1>1, ExportInvariant, PTL

(* Whoever dies when: paths in the database lead to files. *)
THEOREM PathsLeadToFiles == Spec => []PathsHaveFiles
<1>1. ExportInv => PathsHaveFiles
  BY DEF ExportInv
<1> QED
  BY <1>1, ExportInvariant, PTL

(* A manifest that a run wrote alone states the hashes of its files until  *)
(* the next run begins.                                                    *)
THEOREM ManifestsTrue == Spec => []ManifestTrue
<1>1. ExportInv => ManifestTrue
  BY DEF ExportInv, ManifestTrue, ManifestHolds
<1> QED
  BY <1>1, ExportInvariant, PTL

(* An export is on record, or its run is between or died between its two   *)
(* transactions.                                                           *)
THEOREM ExportsTraceable == Spec => []ExportOnRecord
<1>1. ExportInv => ExportOnRecord
  BY DEF ExportInv
<1> QED
  BY <1>1, ExportInvariant, PTL

(* An answer without citations is never exported as validated. *)
THEOREM UncitedBlocked == Spec => []UncitedNeverExported
<1>1. ExportInv => UncitedNeverExported
  BY DEF ExportInv
<1> QED
  BY <1>1, ExportInvariant, PTL
=============================================================================
