----------------------------- MODULE ImportBatch -----------------------------
(***************************************************************************)
(* import-bag-feed.py: a batch walks the decisions of the feed, writes the *)
(* page and text of each to disk and upserts it, all items in one database *)
(* transaction, which it commits before it writes its log. An exception is *)
(* noted and the next item tried; SystemExit ends the batch. The timer and *)
(* an operator can run two batches at a time.                              *)
(*                                                                         *)
(* Of PostgreSQL (external): an upserted row is locked until its           *)
(* transaction ends; a failed statement aborts the transaction, after      *)
(* which every statement fails and COMMIT rolls back without an error; a   *)
(* cycle of waiting transactions is broken by failing one of them.         *)
(***************************************************************************)
EXTENDS Naturals, FiniteSets, Sequences

CONSTANTS Batches,     \* runs of the script
          Items,       \* decisions; one source_uid each
          MaxVersion   \* bound: how often the court publishes a decision anew

ASSUME VersionAssumption == MaxVersion \in Nat \ {0}

Versions == 0 .. MaxVersion   \* 0: none

VARIABLES
  page,      \* version of a decision on the court's site
  file,      \* version in the text file
  db,        \* version the committed source, document and chunks are from
  pc,        \* progress of a batch
  feed,      \* the items of a batch, in order
  pos,       \* the item it is at
  got,       \* the version it has fetched
  tx,        \* what its transaction has upserted
  poisoned,  \* its transaction is aborted
  imported,  \* results
  failed,    \* failures
  log,       \* import-bag-feed-*.log, once written
  alone      \* no other batch was active during this one (history)

diskVars == <<page, file>>
batchVars == <<feed, got, poisoned, imported, failed>>
vars == <<diskVars, db, pc, pos, tx, log, alone, batchVars>>

Phases == {"idle", "fetch", "files", "upsert", "commit", "log", "done", "aborted", "died"}
Active == {b \in Batches : pc[b] \in {"fetch", "files", "upsert", "commit", "log"}}

Nothing == [i \in Items |-> 0]
Logs == [written : BOOLEAN, imported : SUBSET Items, failed : SUBSET Items]
NoLog == [written |-> FALSE, imported |-> {}, failed |-> {}]

(* The feed names every decision at most once. *)
Feeds == {f \in UNION {[1 .. n -> Items] : n \in 1 .. Cardinality(Items)} :
            \A m, n \in DOMAIN f : f[m] = f[n] => m = n}

BatchTypeOK ==
  /\ page \in [Items -> Versions]
  /\ file \in [Items -> Versions]
  /\ db \in [Items -> Versions]
  /\ pc \in [Batches -> Phases]
  /\ feed \in [Batches -> Feeds]
  /\ pos \in [Batches -> Nat]
  /\ \A b \in Batches : pos[b] \in DOMAIN feed[b]
  /\ got \in [Batches -> Versions]
  /\ tx \in [Batches -> [Items -> Versions]]
  /\ poisoned \in [Batches -> BOOLEAN]
  /\ imported \in [Batches -> SUBSET Items]
  /\ failed \in [Batches -> SUBSET Items]
  /\ log \in [Batches -> Logs]
  /\ alone \in [Batches -> BOOLEAN]

Init ==
  /\ page = [i \in Items |-> 1]
  /\ file = Nothing
  /\ db = Nothing
  /\ pc = [b \in Batches |-> "idle"]
  /\ feed \in [Batches -> Feeds]
  /\ pos = [b \in Batches |-> 1]
  /\ got = [b \in Batches |-> 0]
  /\ tx = [b \in Batches |-> Nothing]
  /\ poisoned = [b \in Batches |-> FALSE]
  /\ imported = [b \in Batches |-> {}]
  /\ failed = [b \in Batches |-> {}]
  /\ log = [b \in Batches |-> NoLog]
  /\ alone = [b \in Batches |-> FALSE]

-----------------------------------------------------------------------------
Goto(b, phase) == pc' = [pc EXCEPT ![b] = phase]
Item(b) == feed[b][pos[b]]

(* The loop as a bug would have it: it goes on after the last item. *)
NextItemOfPast(b) ==
  IF pos[b] > Len(feed[b]) THEN Goto(b, "commit") /\ UNCHANGED pos
  ELSE Goto(b, "fetch") /\ pos' = [pos EXCEPT ![b] = @ + 1]

(* The for loop goes on, or ends in the commit. *)
NextItemOf(b) ==
  IF pos[b] = Len(feed[b]) THEN Goto(b, "commit") /\ UNCHANGED pos
  ELSE Goto(b, "fetch") /\ pos' = [pos EXCEPT ![b] = @ + 1]

Fail(b) == failed' = [failed EXCEPT ![b] = @ \cup {Item(b)}]

(* The court publishes a decision anew. *)
Publish(i) ==
  /\ page[i] < MaxVersion
  /\ page' = [page EXCEPT ![i] = @ + 1]
  /\ UNCHANGED <<file, db, pc, pos, tx, log, alone, batchVars>>

Begin(b) ==
  /\ pc[b] = "idle"
  /\ Goto(b, "fetch")
  /\ alone' = [c \in Batches |-> IF c = b THEN Active = {} ELSE alone[c] /\ c \notin Active]
  /\ UNCHANGED <<diskVars, db, pos, tx, log, batchVars>>

Fetch(b) ==
  /\ pc[b] = "fetch"
  /\ got' = [got EXCEPT ![b] = page[Item(b)]]
  /\ Goto(b, "files")
  /\ UNCHANGED <<diskVars, db, pos, tx, log, alone, feed, poisoned, imported, failed>>

(* The page cannot be fetched or written: except Exception. *)
ItemFails(b) ==
  /\ pc[b] \in {"fetch", "files"}
  /\ Fail(b)
  /\ NextItemOf(b)
  /\ UNCHANGED <<diskVars, db, tx, log, alone, feed, got, poisoned, imported>>

(* No decision body or no numbered paragraph: SystemExit is no Exception.  *)
(* The connection rolls back, and there is no log.                         *)
BatchExits(b) ==
  /\ pc[b] = "files"
  /\ Goto(b, "aborted")
  /\ tx' = [tx EXCEPT ![b] = Nothing]
  /\ UNCHANGED <<diskVars, db, pos, log, alone, batchVars>>

(* The files as a bug would have it: what is there is not written again. *)
WriteFilesOnce(b) ==
  /\ pc[b] = "files"
  /\ file' = [file EXCEPT ![Item(b)] = IF @ = 0 THEN got[b] ELSE @]
  /\ Goto(b, "upsert")
  /\ UNCHANGED <<page, db, pos, tx, log, alone, batchVars>>

WriteFiles(b) ==
  /\ pc[b] = "files"
  /\ file' = [file EXCEPT ![Item(b)] = got[b]]
  /\ Goto(b, "upsert")
  /\ UNCHANGED <<page, db, pos, tx, log, alone, batchVars>>

(* Others that hold the row of the item of b. *)
Holders(b) == {c \in Batches \ {b} : tx[c][Item(b)] # 0}
Waiting(b) == pc[b] = "upsert" /\ ~poisoned[b] /\ Holders(b) # {}

Upsert(b) ==
  /\ pc[b] = "upsert" /\ ~poisoned[b] /\ Holders(b) = {}
  /\ tx' = [tx EXCEPT ![b][Item(b)] = got[b]]
  /\ imported' = [imported EXCEPT ![b] = @ \cup {Item(b)}]
  /\ NextItemOf(b)
  /\ UNCHANGED <<diskVars, db, log, alone, feed, got, poisoned, failed>>

(* The transaction aborts, and with it the upserts of earlier items, which *)
(* results still counts.                                                   *)
AbortTransaction(b) ==
  /\ poisoned' = [poisoned EXCEPT ![b] = TRUE]
  /\ tx' = [tx EXCEPT ![b] = Nothing]
  /\ Fail(b)
  /\ NextItemOf(b)
  /\ UNCHANGED <<diskVars, db, log, alone, feed, got, imported>>

(* A statement as a bug would have it: its error is swallowed. *)
StatementFailsSilently(b) ==
  /\ pc[b] = "upsert" /\ ~poisoned[b] /\ ~Waiting(b)
  /\ poisoned' = [poisoned EXCEPT ![b] = TRUE]
  /\ tx' = [tx EXCEPT ![b] = Nothing]
  /\ NextItemOf(b)
  /\ UNCHANGED <<diskVars, db, log, alone, feed, got, imported, failed>>

StatementFails(b) ==
  /\ pc[b] = "upsert" /\ ~poisoned[b] /\ ~Waiting(b)
  /\ AbortTransaction(b)

(* The loop as a bug would have it: a refused item is tried again. *)
UpsertRefusedRetried(b) ==
  /\ pc[b] = "upsert" /\ poisoned[b]
  /\ Fail(b)
  /\ UNCHANGED <<diskVars, db, pc, pos, tx, log, alone, feed, got, poisoned, imported>>

(* Every statement after the first error: InFailedSqlTransaction. *)
UpsertRefused(b) ==
  /\ pc[b] = "upsert" /\ poisoned[b]
  /\ Fail(b)
  /\ NextItemOf(b)
  /\ UNCHANGED <<diskVars, db, tx, log, alone, feed, got, poisoned, imported>>

(* b is in a set of transactions of which each waits for one of the set. *)
DeadlockVictim(b) ==
  /\ \E S \in SUBSET Batches : b \in S /\ \A c \in S : Waiting(c) /\ Holders(c) \cap S # {}
  /\ AbortTransaction(b)

(* The commit of an aborted transaction is a rollback, and says nothing. *)
Commit(b) ==
  /\ pc[b] = "commit"
  /\ db' = [i \in Items |-> IF tx[b][i] # 0 THEN tx[b][i] ELSE db[i]]
  /\ tx' = [tx EXCEPT ![b] = Nothing]
  /\ Goto(b, "log")
  /\ UNCHANGED <<diskVars, pos, log, alone, batchVars>>

WriteLog(b) ==
  /\ pc[b] = "log"
  /\ log' = [log EXCEPT ![b] =
               [written |-> TRUE, imported |-> imported[b], failed |-> failed[b]]]
  /\ Goto(b, "done")
  /\ UNCHANGED <<diskVars, db, pos, tx, alone, batchVars>>

Die(b) ==
  /\ b \in Active
  /\ Goto(b, "died")
  /\ tx' = [tx EXCEPT ![b] = Nothing]
  /\ UNCHANGED <<diskVars, db, pos, log, alone, batchVars>>

(* What a running batch does by itself. *)
BatchStep(b) ==
  \/ Fetch(b) \/ ItemFails(b) \/ BatchExits(b) \/ WriteFiles(b)
  \/ Upsert(b) \/ StatementFails(b) \/ UpsertRefused(b) \/ DeadlockVictim(b)
  \/ Commit(b) \/ WriteLog(b)

Next ==
  \/ \E b \in Batches : Begin(b) \/ BatchStep(b) \/ Die(b)
  \/ \E i \in Items : Publish(i)

(* A running process runs on; nobody has to start one. *)
Spec == Init /\ [][Next]_vars /\ \A b \in Batches : WF_vars(BatchStep(b))

-----------------------------------------------------------------------------
(* check-import-pipeline.py of a log: something imported, nothing failed. *)
LogAccepted(l) == l.written /\ l.imported # {} /\ l.failed = {}

(***************************************************************************)
(* A log that the import guard accepts is true: everything it lists as     *)
(* imported is in the database, although one error of the batch takes all  *)
(* of its items with it and the results still count them.                  *)
(***************************************************************************)
AcceptedLogTrue ==
  \A b \in Batches : LogAccepted(log[b]) => \A i \in log[b].imported : db[i] # 0

(***************************************************************************)
(* A batch that was the only one, and that commits, leaves each committed  *)
(* decision with the text file its chunks were made from, and never with   *)
(* an older version than before. (Two batches at a time can do both.)      *)
(***************************************************************************)
CommitsWhatIsOnDisk ==
  [][\A b \in Batches : pc[b] = "commit" /\ pc'[b] = "log" /\ alone[b] =>
       \A i \in Items : tx[b][i] # 0 => db'[i] = file[i] /\ db'[i] >= db[i]]_vars

(***************************************************************************)
(* A batch that is running ends, although it may wait for rows another one *)
(* has locked, which may wait for rows of its own.                         *)
(***************************************************************************)
BatchesEnd ==
  \A b \in Batches : pc[b] = "fetch" ~> pc[b] \in {"done", "aborted", "died"}
=============================================================================
