# Verification of the BR knowledge base

TLA+ models of the BR-Wissensdatenbank: a PostgreSQL catalogue of legal and
internal sources, a FastAPI application that answers questions from it with
citations and exports the answers, and the scripts that import sources, repair
them and back everything up, drill the restore, and guard all of it, started by
systemd timers. TLC checks the models on small instances; TLAPS proves the main
theorems for every value of the constants.

    tlc -workers 2 -config kb_answers.cfg MCKnowledgeBase
    tlapm KnowledgeBaseProofs.tla

`PROJECT.json` lists runs, theorems, hazards, findings, and the source lines each
definition stands for. A definition whose comment says "as a bug would have it"
is a mutation: no specification uses it, it exists to show that a property
notices the bug.

## The system and its parts

| part | state | operations | talks to |
|---|---|---|---|
| Source catalogue (`db/init`, `scripts/import-*.py`, `repair-short-text-sources.py`, approval handlers of `app/main.py`) | `sources` (status, `citation_allowed`, class), `documents`, `chunks`, audit rows | imports (upsert of the source, delete and insert of chunks), OCR repair, approve / block / unblock | answers cite its chunks |
| Answer generators and store (`app/main.py`) | `answers`, `answer_statements`, `answer_citations`, audit rows | search, build statements, store in one transaction | reads the catalogue; foreign keys to `chunks` |
| Retrieval (`app/retrieval.py`) | none that lasts | dedupe and cap the hits | called by the generators |
| Answer export (`app/main.py`, `export_manifest.py`, `export-answer.py`, `backfill-export-manifests.py`) | files of `exports/<answer>/`, paths and audit rows | web export, command-line export, backfill, draft export | reads answers; guards read its files |
| BAG feed batch (`import-bag-feed.py`) | page and text files, one transaction, a log | fetch, write files, upsert, commit, log | writes the catalogue; `check-import-pipeline.py` reads the log |
| Backup (`backup-br-wissen.sh`, `check-backup-freshness.py`) | local dumps, restic repository, log | preflights, dump, rotate, snapshot, forget | dumps the database, copies the exports |
| Restore drill (`run-restore-smoke-drill.sh`, `restore-smoke-br-wissen.sh`, `check-restore-freshness.py`) | a restored directory, a database of its own, log | look up the latest snapshot, restore it, load its newest dump, count | reads the restic repository beside the backups |
| Services and timers (`systemd/`, `check-systemd-*.{sh,py}`) | unit states, elapsed timers, ages of logs | health check, two imports, backup, drill; reset and start by hand | health check and backup begin with guards that read what the others left |
| Guards and their wiring (`check-*.py`, `check-guard-coverage.py`, `check-surface-registry.py`, ...) | none but their texts: registry, tables, calls of the surfaces, units installed and loaded | read and report; a guard is added, edited, reordered, dropped | called by status, health check and backup; they judge each other's text and wiring |
| Secret rotation, sessions and pages, deployment | see "Not modelled" | | |

What is hard: importers, repairs, administrators, answer threads, exports and
backups run at the same time with nothing between them but PostgreSQL's READ
COMMITTED; several operations span two transactions, or files and a
transaction; anything can die in between; timers and operators start the same
script twice. One service's failure is what another service's guard reads, so
failures can feed on each other over days. And the guards are wired by tables
which are checked by guards which are wired by tables.

What makes each part correct:

- Catalogue: status and flag agree; an approval is one of the text that is
  there; chunks have the class of their source and distinct locators; a decision
  or law can be found.
- Answers: appear complete or not at all; cite only what was approved when it
  was read and what their generator may use; their links never dangle; a request
  ends.
- Export: what the database points to exists; a manifest is true; an export is on
  record; a draft never passes as an answer.
- Batch: an accepted log is true; database and text files agree; a batch ends.
- Backup: a snapshot is consistent with itself; "fresh" means restorable;
  overlapping runs do not stop each other for good.
- Drill: what it restores is not pruned meanwhile; the snapshot its log names can
  be found again; an accepted drill restored the files its database speaks of.
- Services: limits and timetable fit together, to the hour; no failure is wiped unseen; what
  failed for a passing reason recovers, or somebody has to know that it does not.
- Wiring: a guard is called everywhere or nowhere; no single edit disarms it
  unnoticed; files the health check accepts do not stop the backup.

## Modules

| module | models | state and actions |
|---|---|---|
| `SourceCatalog` | tables of the catalogue, every writer of them | One action per importer or tool, each a transaction; `AdminUpdate` and `WriteAudit` for the two transactions of a handler; `LoseHandlers` for a stop of the application between them |
| `AnswerStore` | the abstract promise of the answer tables | `Publish` (one step, complete) and `Unlink` |
| `KnowledgeBase` | extends `SourceCatalog` with answer requests | `ReadHit` is one hit of one autonomous SELECT; `BeginAnswer`, `WriteStatement`, `Commit` are the statements of `create_cited_answer_record`; `CitationRefused` is the foreign key; `CatalogChange` conjoins a catalogue step with ON DELETE SET NULL and the row locks; `Crash` |
| `AnswerExport` | the four kinds of export run | one action per file written or hashed and per transaction; `Die` at any of them |
| `ImportBatch` | runs of the feed import | the loop with its two kinds of failure, row locks, deadlock, aborted transaction, log |
| `Backup` | runs of the backup script | one action per command that changes something; restic's locks; the log |
| `RestoreDrill` | extends `Backup` with drills and with guards that list snapshots | `Resolve` and `BeginRestore` are the two questions for "latest"; restic's shared lock is held from `BeginRestore` to `EndRestore`; `LoadDump` loads whole or cut dumps |
| `Schedule` | the five services over the days | `NextDay`, `Elapse`, one action per group of guards a service begins with, `Succeed`, `FailItself`; `Outage`; `ResetFailed`, `StartByHand`; between which minutes of the day a service runs |
| `SourceHardening` | the tables of the nineteen source-hardening guards: which files each speaks of, which kinds of edit of them it reports | no state: constant operators |
| `GuardWiring` | extends `SourceHardening` with thirteen places that name guards | one action per edit of a file or a place, `InstallUnit`, `DaemonReload`; one operator per guard that judges the wiring |
| `Retrieval` | `diverse_chunks` | `Skip` and `Select`, one hit each |
| `SourceCatalogProofs`, `KnowledgeBaseProofs`, `AnswerExportProofs`, `RestoreDrillProofs`, `ImportBatchProofs`, `RetrievalProofs`, `ScheduleProofs`, `GuardWiringProofs` | theorems of the module they extend | |
| `MC*` | values of the constants, symmetry | |

`KnowledgeBase` composes catalogue and answers by sharing variables: every
catalogue step but `LoseHandlers` (which is part of `Crash`) is taken inside
`CatalogChange`. `KnowledgeBase` implements `AnswerStore` with the identity on
`answers` (`Store == INSTANCE AnswerStore WITH ...`, property `StoreImplemented`): the
drafts of transactions are hidden, and so are reads, failures and rollbacks.
`AnswerExport` takes complete answers as given, which is what `AnswerStore`
promises; `Backup` reduces exports to "files before paths", which is what
`PathsHaveFiles` promises. `RestoreDrill` composes drill and backups: every step of
`Backup` is one of its own (`BackupNext`), and a drill that restores counts among
the `readers` that keep a prune out. `Schedule` takes whole runs of backup and
drill as well or badly ended, with the log begun at the start, as `Backup` and
`RestoreDrill` have it.

### Abstractions

- A source has one document, as every importer creates it. `gen` makes a chunk
  row fresh after a rewrite; some importers keep a `chunk_uid`, but the row, which
  is what a foreign key points to, is a new one all the same.
- An import is one step: it locks the source row first and commits once, so
  imports of the same source are serial. (`ImportBatch` takes the BAG importer
  apart.) `import-gii-law.py` and `import-eurlex-dsgvo.py` differ in nothing the
  properties see and are both `"law"`. `import-betrvg-xml.py` is on its own, for
  it never asks whether a norm was found.
- The OCR repair is two steps, selection and rewrite, minutes apart; at its
  rewrite an import may just have been in flight (`RepairApplyBeside`). Only one
  repair at a time works on a source, and a repair of several sources is several
  repairs.
- Text, hashes, labels, ages and sizes are left out. What a search finds is any
  admissible approved chunk; `mode` is the generator and whether the question is
  about case law.
- In `KnowledgeBase` a request keeps the rows it read. A chunk read twice is kept
  once; the caps of `diverse_chunks` only make the choice smaller.
- `create_recommended_answer` only picks a generator; `mode`, free at the start,
  stands for it.
- In `AnswerExport` a file is written, and hashed, in one step; a death can tear
  it. A run's text is its own, for it prints the time.
- In `Backup` the preflights are a choice between passing and stopping; restic's
  locks and the order in which a backup walks the directory are external.
- In `RestoreDrill` a dump that was cut off loads as far as it goes: `psql` stops at
  an error, not at an early end of file. The counts are printed, and not judged.
- `Schedule` keeps the age of a log in days, and a guard compares hours. The timers
  elapse at 04:12 + 15 min (health check), 04:17 + 20 (m00h import), 04:43 + 20 (BAG
  import), 04:47 + 30 (backup) and on Sundays 06:10 + 45 (drill), all persistent.
  From them come the minutes between which a service runs (`Begins`, `OverAt`), and
  from the days and the minutes the youngest and the oldest age a log can have
  when a guard looks (`YoungestAge`, `OldestAge`); a guard may find it too old when
  the oldest is over the limit, and fresh when the youngest is not. The timers go
  by Berlin time, so a day more or less has an hour to spare. A service started
  by hand or after an outage (`odd`) may have run at any minute. What a day has
  next is taken to come after what is over on a normal day (`OverBy`): a run that
  takes longer than that is not modelled.
- The health check runs the guard of the drill's age itself and again through
  the readiness guard, one right after the other: one step. Other limits of the
  readiness guard (the age of the state of affairs, review dates) and all other
  guards are `FailItself`.
- A log is touched when its service starts, as both scripts do first of all.
- `SourceHardening` knows files and kinds of edits (a line the table demands is
  lost, a writing statement comes in, parts change places, the file is a link,
  has lost its mode, or is gone), not lines. Where a table looks for an order or a
  word under a name the file does not have, the file is missing from that set.
- In `GuardWiring` a guard whose text was edited may be blind: it may say ok
  whatever it should judge. A guard that judges no wiring says ok unless its
  watched files changed. The readiness guard runs nearly all other guards again.

## Runs

| run | instance | shows | distinct states |
|---|---|---|---|
| `catalog_importers` | a source of every importer, any two of them imported, 2 rewrites each, 2 approval requests | the catalogue's invariants under any order of imports, repairs and interleaved handlers | 484 k |
| `kb_answers` | BAG decision, EVG hint page, members' download; 2 rewrites, 1 approval request, 1 answer of any generator with up to 2 hits | what a stored answer may look like, whatever happened while it was written | 622 k |
| `kb_concurrent` | decision and law, 2 concurrent answers, no approval requests | locks, refusals and unlinking with two transactions; refinement of `AnswerStore`; termination | 176 k |
| `exports` | 1 answer, 1 draft, 3 runs of any kind (symmetric) | files, database and audit under overlap and death | 517 k |
| `restore_drill` | 2 backups (symmetric), 1 drill, 1 listing guard, 1 answer, 1 dump and 1 snapshot kept | snapshots, freshness, lock-outs, and the drill among them | 120 k |
| `schedule` | a drill every 2nd day, limits of 30 and 50 hours, 2 disturbances, 1 outage | whether limits and timetable fit; what fails of what, day by day; latching; recovery of the drill | 318 k |
| `guard_wiring` | a guard in place and a new one, any 2 edits of files and lists | which edits health check and backup together let pass | 204 k |
| `import_batches` | 2 batches with any feed of 2 decisions, 1 new publication each | aborted transactions, exits, deadlocks, overlaps | 635 k |
| `retrieval` | all lists of up to 5 of 7 hits | caps, duplicates of a document, reasons of omissions | 97 k |
| `blocked_reimport`, `two_exports`, `stale_backup` | the smallest instance each | disagreements, see below | |

### Bounds

- Two rewrites of a source are needed to replace what was cited and to import
  what was approved; the third would repeat the second. Two approval requests
  interleave (block against approve); more come one after the other. No handler
  or tool but the group approval and the members' import touches two sources, so
  two imported ones are enough beside three that are absent.
- One locator: chunks of different locators never meet in a step, and the tools
  bring locators of their own.
- Two hits are the least with which `source_hit_chunks` drops one.
- Three export runs: one that leaves a directory, two that overlap in it.
- Two backups overlap, and one of them may have left a partial dump; with one dump
  and one snapshot kept both rotations bite. A third backup beside the drill goes
  beyond eight million states and adds a second neighbour, not a new order of
  two; for any number there are the theorems.
- A drill every other day has a day with and a day without it; its limit of 50
  hours has the code's margin, two hours over the interval (170 hours, 7 days), and
  an hour less would still do, two would not. The backup's limit is the code's.
  The code's 7 days and 170 hours are covered by `GreenWhileUndisturbed`. Two
  disturbances are a failure and the start by hand that follows, or two failures
  together. The days themselves have no bound: ages are capped where a log is too
  old at any minute of the day.
- Two edits are an edit and its accomplice. With three, a judge, the guard that
  watches the judge, and what it judges can change together, and none of the three
  properties holds; that a loss needs an accomplice at all is proved for any number.
- Two batches and two decisions are the least that deadlock.
- The five hits of `retrieval` fill the per-source cap, the class cap and the
  answer, and repeat a chunk.

`CHECK_DEADLOCK FALSE` everywhere: bounds end every behaviour, and each of these
systems may really stand still once requests, runs or batches are over.

### Fairness

- `KBFairSpec`: weak fairness of the steps of a request that has started: its
  thread runs on. A citation waits for nobody for ever. Nothing is assumed of
  users, importers or administrators.
- `Schedule!FairSpec`: weak fairness of the days, of each timer and of each
  running service: systemd starts what is due, services are oneshot with a
  timeout, and days go by. Nothing is assumed of the administrator, failures or
  outages.
- `ImportBatch!Spec`: weak fairness of a running batch, PostgreSQL's deadlock
  detection included; nobody has to start a batch, and a batch may die.

The other specifications have no fairness and state safety only.

## Where the code disagrees with what is said of it

| run | violated | in a sentence |
|---|---|---|
| `blocked_reimport` | `BlockedStaysUnusable` | import, block, import: the decision is citable again |
| `two_exports` | `ManifestMatchesWhenQuiet` | two exports of one answer can leave a manifest of the wrong files |
| `stale_backup` | `StaleBackupBlocksNone` | after one outage the previous backup is too old, the health check fails of it, and its failed unit stops the next backup |

Three more are visible in a single function and have no run: the re-chunk tool
(`chunk-imported-texts.py:82`) stores the chunks of every text as internal BLAU
ones, which the import guard counts as mismatches; an answer of one hit cites it
twice (`main.py:220`), which the regression suite forbids
(`run-regressions.py:241`); a draft (`main.py:724`) has paths and no statements, and
`check-answer-export-safety.py:43` expects statements of every exported answer.

Met while modelling the guards, and visible in the set of edits that
`LossNeedsAccomplice` has to leave out: no table speaks of seven of the guards
(`UngroupedGuards`), so a line lost in one of them alone is not noticed;
`check-network-source-hardening.py` looks at the order inside the nftables guard
under a name that guard does not have.

Properties that pass are stated around these: `ApprovedSinceImport` leaves out
sources that imports approve, `ManifestTrue` speaks of exports that had the
directory to themselves, the re-chunk tool is not an action of the catalogue,
`OfficialHasChunks` leaves out the BetrVG, and `LatchedUntilReset` says how
`stale_backup` goes on: health check and backup keep each other failed, day after
day, until `systemctl reset-failed`, a start by hand or a restart; backups do not
come back by themselves. `DrillRecovers` says who is not part of this: the drill,
whose age they wait for, has no guard in front of it. `ExportOnRecord` excuses a web
run that is or died between its two transactions.

## Proofs

Assumptions: those named in the modules. Sources have known importers and
classes that fit them; bounds are naturals; answers and drafts are disjoint; runs
are not the names of special contents; drills and listings are different
processes. No bound is used otherwise: the theorems hold for any number of
sources, requests, rewrites, runs, batches, hits, days and drills. Three
theorems have hypotheses of their own and name them: `GreenWhileUndisturbed` the
timetable, and those of `GuardWiringProofs` the kind of edits they speak of.

**SourceCatalogProofs.** `CatalogInv` is types, status-flag agreement, freshness
of approvals, coherence of chunks, and findability of official sources. It is
inductive as it stands: no handler or importer relies on more than the consistency
of the row it finds. What `OneChunkPerLocator` needs of `RepairApplyBeside` is in
that step's guard, which comes from the code: it adds rows at the repair's own
locator to rows an import made, which have other ones. The theorems hold of
`CatalogSpec`.

**KnowledgeBaseProofs.** `KBInv` adds `PhaseInv`, what a request has drafted and
what is visible of it in each phase, and `DraftInv`: every row cited by a
transaction in flight exists, because deleting steps wait for the lock. Without
`DraftInv`, `LinkedChunksExist` is not inductive: `Commit` publishes links that
were checked steps earlier. `AnswerStoreImplemented` maps `Commit` to `Publish`,
`CatalogChange` to `Unlink` and all else to stuttering. `KBOrigin` carries the
approval and class of each row from `ReadHit` through `picks` and `draft` to the
answer; it uses the catalogue's `ChunkClassMatches`, and gives `CitedOnlyApproved`
and `CitedClassFits`. `StatementsExportedOnce` follows from `OneChunkPerLocator` of
the same invariant.

**AnswerExportProofs.** `ExportInv` says for each phase what a run has already
established (`Progress`), that a run which counts itself alone is the only active
one of its answer and has hashed what is on the disk (`AloneIsAlone`), and that an
undisturbed manifest holds while nobody is writing (`ManifestHolds`).
`PathsHaveFiles` and `ManifestTrue` are about answers at rest and not inductive
without them.

**RestoreDrillProofs.** For any number of backups, drills, listings and answers;
five invariants, one per question. `LockInv`: a drill that restores holds its lock
and its snapshot is there, and with any reader nobody prunes; it gives
`NoPruneUnderRestore`. `CoverInv` follows the exports a dump speaks of
(`Within(F)`: dumps that speak only of exports in F): in the database they have
files, so in a dump, so in a snapshot that reads the files after the dumps, and a
settled snapshot changes no more (`SettledStays`), which carries the fact into
what a drill restored; it gives `SnapshotsAreSelfContained` and
`DrilledExportsAreThere`. `NewestInv` is about the last dump only: whoever owns it
and has completed it has a complete one, and if it was scanned, the snapshot ends
with it; a rotation keeps the last (`RotationKeepsLast`), so `FreshIsRestorable`
needs no induction over the dumps. `BlameInv`: as long as only other runs end
runs, somebody is past the rotation of the dumps, because each way to be ended
names somebody who has come further; it gives `OneBackupFinishes`.

`OrderInv` is about the order of snapshots: which run began scanning when
(`began`) is a list without repetitions in which every snapshot of the repository
and every one a log names has its place. `DrilledSnapshotIsKept` needs that a prune
which keeps the last n leaves n newer ones of whatever it removes. That is
counting: of a finite set the elements with fewer than n above them are n, or all
of it (`LastOnes`, from the cardinality theorems, without induction).

**ImportBatchProofs.** For any number of batches, decisions and any feeds. `FeedInv`:
what a batch has fetched is a version the court has published, and what is in its
transaction is an earlier item of its feed. `LogInv`: while nothing has failed,
what counts as imported is in the transaction, and after the commit in the
database; it gives `AcceptedLogIsTrue`, whose point is the aborted transaction:
results still count its items, but then something has failed. `AloneInv`: a batch
that counts itself alone is the only active one, so file, transaction and
database are as it left them; it gives `BatchCommitsWhatIsOnDisk`, of the step and
not of a state, because a batch that starts a moment later may write the file.

**RetrievalProofs.** For any catalogue, any list of hits and any limits. The code
decides by sets and counters it keeps beside its list; `TallyInv` says that they
are true of the list (a counter is the cardinality of the entries it counts),
`CapInv` that none was over a cap when it came. `NoSourceDominates` speaks of
sources and the counter of keys, document or source: a source of one document
has one key. An omission stays justified because the selection only grows
(`OmissionsAreJustified`).

**ScheduleProofs.** For any limits and intervals and any number of disturbances and
outages. `TableInv`: on a day without an outage before it nobody runs whose timer
has still to elapse, and the health check comes before the backup. On it stand
the other two. `ReportInv`: before a timer starts a failed service again, another
run comes to the guards of the units, or the one who should is failed itself; it
gives `FailuresAreSeen`. `GreenInv`: a log is not being written while a guard reads
it, everything was started by its timer, and the ages follow the weekday. So a
log is at most one interval old, on a timetable where a guard looks before the
minute at which the log was written, and one hour more (`BackupInTime`,
`DrillInTime`); it gives `GreenWhileUndisturbed`, if both intervals and that hour are
within the limits (`LimitsFit`: 169 of 170 hours, 25 of 30 in the code; with a limit
one hour below that the property is false). `LatchedStays` needs `TableInv`
only: whoever of health check and backup runs, comes to the guards of the units
while the other one is failed.

**GuardWiringProofs.** For any subjects that are not themselves the guards that
watch files or judge the wiring (`OrdinarySubjects`, as in the instance), and any
files. The tables leave no file without a watcher other than itself, of those
they speak of (`LossReported`, `WriteReported`: the nineteen tables, case by case), so
a loss needs an edit of another watcher, however many edits there are
(`NoLossAlone`). The other theorems are about an edit and its accomplice, as the
properties are (`MaxEdits <= 2`, see Bounds). `EditsInv`
counts: files edited, and one more if any place differs from the start, are no
more than the edits made. To blind the guard of the registry, of the loaded units
or of the modes, its watcher has to be edited, too (`BlindJudge`); then no edit is
left for a place, a link or a mode. Seeing judges, on the other hand, see every
caller (`CallersAgree`).

The type invariants are proved, too, and but for `BatchTypeOK` not in a run:
`CatalogTypeOK`, `KBTypeOK`, `ExportTypeOK`, `DrillTypeOK`, `SelectionTypeOK`,
`ScheduleTypeOK` and, as a lemma, `WiringTypeOK`. So every invariant and
every action property the runs check is proved, under the hypotheses above.

Only model-checked: the liveness properties (`RequestsEnd`, `BatchesEnd`,
`DrillRecovers`), which with ENABLED are out of the prover's reach.

## Not modelled

- `chunk-imported-texts.py`: no timer, script or document calls it (see above).
- Secret rotation: planned below.
- Guards of host, containers, network, DNS and access: each compares one snapshot
  of the world with fixed expectations and keeps nothing. In `GuardWiring` they are
  guards that say ok or not; in `Schedule` they are what fails of itself.
- The lines of the tables in `SourceHardening`; the texts of documents.
- The audit-trail guard: its rows of exports are the subject of `ExportOnRecord`. It
  asks for no row of the approval of a source, and there is no property of them: a
  stop of the application between the two transactions of a handler leaves an
  approval without one. The files the m00h import mirrors.
- Containers, proxy, tunnel: configuration.
- Login, CSRF, search and list pages: no state that several steps share.
- Keywords, ranking, wording, OCR quality: functions of text whose result is a
  free choice in the models.
- In `Backup`: ages (they are in `Schedule`), sizes, rotation of logs. Two repairs of
  one source at once.

## Plan

1. Done: catalogue, answers, export, batch, backup, selection; restore drill,
   schedule of the services, wiring of the guards; proofs of all of them.
2. Proofs: the safety part of the liveness properties (who waits for a row lock
   waits for somebody who can go on, or the deadlock detection sees a cycle); what
   `NoLossAlone` says of losses for links and modes, by following watchers of
   watchers instead of counting edits.
3. `ImportBatch`: what a lone batch repairs after overlapping ones left database
   and text file apart.
4. Secret rotation: files, database role and restart, with rollback.
5. `check-host-nft-br-ports.py` as an algorithm: does its reading of a rule set
   agree with what the rules do to a packet.
