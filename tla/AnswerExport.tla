---------------------------- MODULE AnswerExport ----------------------------
(***************************************************************************)
(* Exports of answers: the web handler export_answer, the command          *)
(* export-answer.py, the manifest backfill, and the draft export. Each     *)
(* writes index.html, export.pdf and manifest.json (drafts: no manifest)   *)
(* into one directory per answer, file after file, and then enters the     *)
(* paths and an audit row in the database: in two transactions (web,       *)
(* drafts) or in one (commands). Nothing keeps two runs off one directory. *)
(*                                                                         *)
(* Every run renders its own text, for it prints the time: a file's        *)
(* content is the run that wrote it, or "torn" after a death in mid-write. *)
(* A file is written, and hashed, in one step.                             *)
(***************************************************************************)
EXTENDS Naturals, FiniteSets

CONSTANTS Answers,   \* stored answers: complete, as AnswerStore promises
          Drafts,    \* answers that draft exports create: no statements
          Runs       \* export runs of a behaviour, each for one answer

ASSUME AnswersAssumption == Answers \cap Drafts = {}

Uids == Answers \cup Drafts

NoFile == "none"
Torn == "torn"
Contents == Runs \cup {NoFile, Torn}

ASSUME RunsAssumption == Runs \cap {NoFile, Torn} = {}

(* manifest.json: the hashes it states. A first one torn by a death has    *)
(* none to read: it counts as no manifest.                                 *)
Manifests == [html : Contents, pdf : Contents, readable : BOOLEAN]
NoManifest == [html |-> NoFile, pdf |-> NoFile, readable |-> FALSE]

Unreadable(m) == [html |-> m.html, pdf |-> m.pdf, readable |-> FALSE]

Kinds == {"web", "cli", "backfill", "draft"}

CreateActions == {"answer_create"}   \* of three generators, one standing for all
ExportActions == {"validated_answer_export", "validated_answer_export_cli"}
AuditActions ==
  CreateActions \cup ExportActions \cup {"draft_export_create", "export_manifest_backfill"}

VARIABLES
  row,       \* answers whose row exists
  paths,     \* answers with html_path and pdf_path
  audit,     \* <<action, answer>> rows of audit_log
  html, pdf, \* content of the files of an answer
  manifest,  \* its manifest.json
  pc, kind, uid, \* a run: progress, kind, answer
  seen,      \* hashes a run has taken
  alone,     \* no other run has worked on the answer during this one (history)
  disturbed  \* answers whose last manifest is owed to an overlap or a death (history)

dbVars == <<row, paths, audit>>
fileVars == <<html, pdf, manifest>>
vars == <<dbVars, fileVars, pc, kind, uid, seen, alone, disturbed>>

Phases == {"idle", "html", "pdf", "hash_html", "hash_pdf", "manifest", "paths", "audit",
           "commit", "done", "rejected", "failed", "unaudited"}

ExportTypeOK ==
  /\ row \subseteq Uids
  /\ paths \subseteq Uids
  /\ audit \subseteq AuditActions \X Uids
  /\ html \in [Uids -> Contents]
  /\ pdf \in [Uids -> Contents]
  /\ manifest \in [Uids -> Manifests]
  /\ pc \in [Runs -> Phases]
  /\ kind \in [Runs -> Kinds]
  /\ uid \in [Runs -> Uids]
  /\ seen \in [Runs -> [html : Contents, pdf : Contents]]
  /\ alone \in [Runs -> BOOLEAN]
  /\ disturbed \subseteq Uids

Init ==
  /\ row = Answers
  /\ paths = {}
  /\ audit = CreateActions \X Answers
  /\ html = [u \in Uids |-> NoFile]
  /\ pdf = [u \in Uids |-> NoFile]
  /\ manifest = [u \in Uids |-> NoManifest]
  /\ pc = [x \in Runs |-> "idle"]
  /\ kind \in [Runs -> Kinds]
  /\ uid \in [Runs -> Uids]
  /\ seen = [x \in Runs |-> [html |-> NoFile, pdf |-> NoFile]]
  /\ alone = [x \in Runs |-> FALSE]
  /\ disturbed = {}

Ended == {"idle", "done", "rejected", "failed", "unaudited"}
Active(u) == {x \in Runs : uid[x] = u /\ pc[x] \notin Ended}

-----------------------------------------------------------------------------
Goto(x, phase) == pc' = [pc EXCEPT ![x] = phase]

(* A run enters the directory of its answer. *)
Enter(x, phase) ==
  /\ Goto(x, phase)
  /\ alone' = [y \in Runs |->
       IF y = x THEN Active(uid[x]) = {} ELSE alone[y] /\ y \notin Active(uid[x])]

(* answer_validation: at least one statement, each with a citation. *)
Validated(u) == u \in row /\ u \in Answers

(* A start as a bug would have it: the export is not validated. *)
StartUnvalidated(x) ==
  /\ pc[x] = "idle"
  /\ kind[x] \in {"web", "cli"} /\ uid[x] \in row
  /\ Enter(x, "html")
  /\ UNCHANGED <<dbVars, fileVars, kind, uid, seen, disturbed>>

(* The answer is read and validated, its statements are read and rendered. *)
Start(x) ==
  /\ pc[x] = "idle"
  /\ kind[x] \in {"web", "cli"} /\ Validated(uid[x])
  /\ Enter(x, "html")
  /\ UNCHANGED <<dbVars, fileVars, kind, uid, seen, disturbed>>

(* 404 for an unknown answer, 400 for one with a statement uncited or none. *)
Reject(x) ==
  /\ pc[x] = "idle"
  /\ kind[x] \in {"web", "cli"} /\ ~Validated(uid[x])
  /\ Goto(x, "rejected")
  /\ UNCHANGED <<dbVars, fileVars, kind, uid, seen, alone, disturbed>>

(* The draft of a query: a new answer_uid, rows still to come. *)
StartDraft(x) ==
  /\ pc[x] = "idle"
  /\ kind[x] = "draft" /\ uid[x] \in Drafts \ row /\ Active(uid[x]) = {}
  /\ html[uid[x]] = NoFile
  /\ Enter(x, "html")
  /\ UNCHANGED <<dbVars, fileVars, kind, uid, seen, disturbed>>

(* The backfill takes an answer that has paths: both files and a valid     *)
(* answer, or it is skipped.                                               *)
StartBackfill(x) ==
  /\ pc[x] = "idle"
  /\ kind[x] = "backfill" /\ uid[x] \in paths
  /\ IF Validated(uid[x]) /\ html[uid[x]] # NoFile /\ pdf[uid[x]] # NoFile
       THEN Enter(x, "hash_html")
       ELSE Goto(x, "rejected") /\ UNCHANGED alone
  /\ UNCHANGED <<dbVars, fileVars, kind, uid, seen, disturbed>>

WriteHtml(x) ==
  /\ pc[x] = "html"
  /\ html' = [html EXCEPT ![uid[x]] = x]
  /\ Goto(x, "pdf")
  /\ UNCHANGED <<dbVars, pdf, manifest, kind, uid, seen, alone, disturbed>>

(* The PDF as a bug would have it: the paths are entered as soon as both    *)
(* files are there, before the manifest.                                   *)
WritePdfThenPaths(x) ==
  /\ pc[x] = "pdf"
  /\ pdf' = [pdf EXCEPT ![uid[x]] = x]
  /\ Goto(x, IF kind[x] \in {"draft", "web"} THEN "paths" ELSE "hash_html")
  /\ UNCHANGED <<dbVars, html, manifest, kind, uid, seen, alone, disturbed>>

WritePdf(x) ==
  /\ pc[x] = "pdf"
  /\ pdf' = [pdf EXCEPT ![uid[x]] = x]
  /\ Goto(x, IF kind[x] = "draft" THEN "paths" ELSE "hash_html")
  /\ UNCHANGED <<dbVars, html, manifest, kind, uid, seen, alone, disturbed>>

(* build_export_manifest hashes the files it finds on the disk. *)
HashHtml(x) ==
  /\ pc[x] = "hash_html"
  /\ seen' = [seen EXCEPT ![x].html = html[uid[x]]]
  /\ Goto(x, "hash_pdf")
  /\ UNCHANGED <<dbVars, fileVars, kind, uid, alone, disturbed>>

(* The hash as a bug would have it: taken from the manifest that is there. *)
HashPdfCached(x) ==
  /\ pc[x] = "hash_pdf"
  /\ seen' = [seen EXCEPT ![x].pdf =
                IF manifest[uid[x]].readable THEN manifest[uid[x]].pdf ELSE pdf[uid[x]]]
  /\ Goto(x, "manifest")
  /\ UNCHANGED <<dbVars, fileVars, kind, uid, alone, disturbed>>

HashPdf(x) ==
  /\ pc[x] = "hash_pdf"
  /\ seen' = [seen EXCEPT ![x].pdf = pdf[uid[x]]]
  /\ Goto(x, "manifest")
  /\ UNCHANGED <<dbVars, fileVars, kind, uid, alone, disturbed>>

AfterManifest == [web |-> "paths", cli |-> "commit", backfill |-> "commit"]

WriteManifest(x) ==
  /\ pc[x] = "manifest"
  /\ manifest' = [manifest EXCEPT ![uid[x]] =
                    [html |-> seen[x].html, pdf |-> seen[x].pdf, readable |-> TRUE]]
  /\ disturbed' = IF alone[x] THEN disturbed \ {uid[x]} ELSE disturbed \cup {uid[x]}
  /\ Goto(x, AfterManifest[kind[x]])
  /\ UNCHANGED <<dbVars, html, pdf, kind, uid, seen, alone>>

(* UPDATE answers (web) or INSERT INTO answers (draft), committed. *)
WritePaths(x) ==
  /\ pc[x] = "paths"
  /\ row' = row \cup {uid[x]}
  /\ paths' = paths \cup {uid[x]}
  /\ Goto(x, "audit")
  /\ UNCHANGED <<audit, fileVars, kind, uid, seen, alone, disturbed>>

AuditAction == [web |-> "validated_answer_export", cli |-> "validated_answer_export_cli",
                draft |-> "draft_export_create", backfill |-> "export_manifest_backfill"]

WriteAudit(x) ==
  /\ pc[x] = "audit"
  /\ audit' = audit \cup {<<AuditAction[kind[x]], uid[x]>>}
  /\ Goto(x, "done")
  /\ UNCHANGED <<row, paths, fileVars, kind, uid, seen, alone, disturbed>>

(* The command as a bug would have it: no audit row. *)
CommitUnaudited(x) ==
  /\ pc[x] = "commit"
  /\ paths' = paths \cup {uid[x]}
  /\ Goto(x, "done")
  /\ UNCHANGED <<row, audit, fileVars, kind, uid, seen, alone, disturbed>>

(* The commands' one transaction: the backfill leaves the paths alone. *)
Commit(x) ==
  /\ pc[x] = "commit"
  /\ paths' = paths \cup {uid[x]}
  /\ audit' = audit \cup {<<AuditAction[kind[x]], uid[x]>>}
  /\ Goto(x, "done")
  /\ UNCHANGED <<row, fileVars, kind, uid, seen, alone, disturbed>>

(***************************************************************************)
(* A run dies: the process is stopped, the disk is full, the PDF cannot be *)
(* rendered. The file it was about to write may be torn; what it has       *)
(* committed stays, a command's transaction is rolled back.                *)
(***************************************************************************)
Die(x) ==
  /\ pc[x] \notin Ended
  /\ Goto(x, IF pc[x] = "audit" THEN "unaudited" ELSE "failed")
  /\ disturbed' = IF pc[x] \in {"paths", "audit", "commit"} THEN disturbed
                                                          ELSE disturbed \cup {uid[x]}
  /\ \/ UNCHANGED fileVars
     \/ pc[x] = "html" /\ html' = [html EXCEPT ![uid[x]] = Torn] /\ UNCHANGED <<pdf, manifest>>
     \/ pc[x] = "pdf" /\ pdf' = [pdf EXCEPT ![uid[x]] = Torn] /\ UNCHANGED <<html, manifest>>
     \/ /\ pc[x] = "manifest"
        /\ manifest' = [manifest EXCEPT ![uid[x]] = Unreadable(@)]
        /\ UNCHANGED <<html, pdf>>
  /\ UNCHANGED <<dbVars, kind, uid, seen, alone>>

Step(x) ==
  \/ Start(x) \/ Reject(x) \/ StartDraft(x) \/ StartBackfill(x)
  \/ WriteHtml(x) \/ WritePdf(x) \/ HashHtml(x) \/ HashPdf(x) \/ WriteManifest(x)
  \/ WritePaths(x) \/ WriteAudit(x) \/ Commit(x)

Next == \E x \in Runs : Step(x) \/ Die(x)

Spec == Init /\ [][Next]_vars

(* Nobody dies. *)
CalmSpec == Init /\ [][\E x \in Runs : Step(x)]_vars

-----------------------------------------------------------------------------
(***************************************************************************)
(* The guard check-answer-export-safety.py on the state it reads, reduced  *)
(* to the findings that depend on what runs did and in which order. It is  *)
(* a preflight of the backup and of the health check: a finding stops both.*)
(***************************************************************************)
SafetyFindings ==
  [answers_without_statements  |-> row \ Answers,
   missing_html                |-> {u \in paths : html[u] = NoFile},
   missing_pdf                 |-> {u \in paths : pdf[u] = NoFile},
   missing_manifest            |-> {u \in paths : manifest[u] = NoManifest},
   manifest_json_error         |-> {u \in paths : manifest[u] # NoManifest
                                                    /\ ~manifest[u].readable},
   manifest_file_hash_mismatch |-> {u \in paths : manifest[u].readable
                                                    /\ \/ manifest[u].html # html[u]
                                                       \/ manifest[u].pdf # pdf[u]}]

Quiet == \A u \in Uids : Active(u) = {}

-----------------------------------------------------------------------------
(* Paths in the database lead to files: the database may lag behind the    *)
(* disk, never the disk behind the database, whoever dies when. A generated *)
(* answer has a manifest as well. (The backup relies on it: it dumps the   *)
(* database first and reads the files afterwards.)                         *)
PathsHaveFiles ==
  \A u \in paths :
    /\ html[u] # NoFile /\ pdf[u] # NoFile
    /\ u \in Answers => manifest[u] # NoManifest

(* When nobody works on an answer and its last manifest was written by a   *)
(* run that had the directory to itself, the manifest states the hashes of *)
(* the files beside it, however often the answer was exported before.      *)
ManifestTrue ==
  \A u \in Answers \ disturbed :
    Active(u) = {} /\ manifest[u].readable =>
      manifest[u].html = html[u] /\ manifest[u].pdf = pdf[u]

(* An answer with paths has the audit row of an export, unless a web run is *)
(* between its two transactions or died there; an audit row of an export    *)
(* speaks of an answer that has its paths.                                  *)
ExportOnRecord ==
  /\ \A u \in paths :
       \/ \E a \in ExportActions \cup {"draft_export_create"} : <<a, u>> \in audit
       \/ \E x \in Runs : uid[x] = u /\ pc[x] \in {"audit", "unaudited"}
  /\ \A a \in ExportActions : \A u \in Uids : <<a, u>> \in audit => u \in paths

(* A draft, which has no statement and no citation, never gets a manifest  *)
(* or the audit row of a validated export, by any of the four ways.        *)
UncitedNeverExported ==
  \A u \in Drafts :
    manifest[u] = NoManifest /\ \A a \in ExportActions : <<a, u>> \notin audit

(***************************************************************************)
(* What the code does not keep.                                            *)
(***************************************************************************)
(* "Seit der Manifest-Haertung muessen erzeugte Exporte zusaetzlich ein     *)
(* manifest.json mit ... HTML/PDF-Hash und Dateigroesse besitzen": two      *)
(* exports of one answer leave a manifest that is not of its files.         *)
ManifestMatchesWhenQuiet == Quiet => SafetyFindings.manifest_file_hash_mismatch = {}
=============================================================================
