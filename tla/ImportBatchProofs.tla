-------------------------- MODULE ImportBatchProofs --------------------------
(***************************************************************************)
(* Theorems of ImportBatch, for any number of batches and decisions and    *)
(* any feeds. FeedInv says what a batch holds in its hands at each phase;  *)
(* LogInv what its results amount to, before and after the commit;         *)
(* AloneInv what a batch can rely on that nobody ran beside.               *)
(***************************************************************************)
EXTENDS ImportBatch, SequenceTheorems, TLAPS

\* Phases in which a transaction is open.
Open == {"fetch", "files", "upsert", "commit"}

\* The feed of b names i before the item it is at.
Earlier(b, i) == \E k \in DOMAIN feed[b] : k < pos[b] /\ feed[b][k] = i

(* A fetched version is one the court has published, what is upserted is   *)
(* an earlier item of the feed, and no transaction outlives its commit.    *)
Holds(b) ==
  /\ pc[b] \in {"files", "upsert"} => got[b] # 0 /\ got[b] <= page[Item(b)]
  /\ pc[b] \notin Open => tx[b] = Nothing
  /\ \A i \in Items : tx[b][i] # 0 =>
       tx[b][i] <= page[i] /\ (pc[b] = "commit" \/ Earlier(b, i))

FeedInv ==
  /\ \A i \in Items : page[i] # 0 /\ db[i] <= page[i]
  /\ \A b \in Batches : Holds(b)

(* While nothing has failed, what counts as imported is in the transaction, *)
(* and after the commit in the database.                                    *)
Counts(b) ==
  /\ pc[b] = "idle" => imported[b] = {}
  /\ pc[b] \in Open /\ failed[b] = {} => \A i \in imported[b] : tx[b][i] # 0
  /\ pc[b] = "log" /\ failed[b] = {} => \A i \in imported[b] : db[i] # 0
  /\ LogAccepted(log[b]) => \A i \in log[b].imported : db[i] # 0

LogInv == \A b \in Batches : Counts(b)

(* Nobody is beside a batch that counts itself alone, so files and          *)
(* database are as it left them.                                            *)
Undisturbed(b) ==
  /\ \A c \in Batches \ {b} : c \notin Active
  /\ pc[b] \in {"files", "upsert"} => db[Item(b)] <= got[b]
  /\ pc[b] = "upsert" => file[Item(b)] = got[b]
  /\ \A i \in Items : tx[b][i] # 0 => file[i] = tx[b][i] /\ db[i] <= tx[b][i]

AloneInv == \A b \in Batches : alone[b] /\ b \in Active => Undisturbed(b)

BatchInv == FeedInv /\ LogInv /\ AloneInv

-----------------------------------------------------------------------------
(* Feeds and types *)

LEMMA FeedProperties ==
  ASSUME NEW f \in Feeds
  PROVE  /\ f \in Seq(Items) /\ Len(f) \in Nat \ {0} /\ DOMAIN f = 1 .. Len(f)
         /\ \A m, n \in DOMAIN f : f[m] = f[n] => m = n
         /\ \A k \in DOMAIN f : f[k] \in Items
  <1>1. PICK n \in 1 .. Cardinality(Items) : f \in [1 .. n -> Items]
    BY DEF Feeds
  <1>2. n \in Nat \ {0} /\ f \in Seq(Items)
    BY <1>1, SeqDef
  <1>3. Len(f) = n
    BY <1>1, <1>2, LenProperties
  <1>4. QED BY <1>1, <1>2, <1>3 DEF Feeds

LEMMA ItemTyped ==
  ASSUME BatchTypeOK, NEW b \in Batches
  PROVE  Item(b) \in Items
  BY FeedProperties DEF BatchTypeOK, Item

(* The loop stays within the feed: after its last item comes the commit.   *)
LEMMA NextItemTyped ==
  ASSUME BatchTypeOK, NEW b \in Batches, NextItemOf(b), UNCHANGED feed
  PROVE  /\ pc' \in [Batches -> Phases]
         /\ pos' \in [Batches -> Nat]
         /\ \A c \in Batches : pos'[c] \in DOMAIN feed'[c]
         /\ \A c \in Batches \ {b} : pc'[c] = pc[c] /\ pos'[c] = pos[c]
         /\ \/ pc'[b] = "commit" /\ pos'[b] = pos[b]
            \/ pc'[b] = "fetch" /\ pos'[b] = pos[b] + 1
  <1>1. /\ Len(feed[b]) \in Nat /\ DOMAIN feed[b] = 1 .. Len(feed[b])
        /\ pos[b] \in 1 .. Len(feed[b])
    BY FeedProperties DEF BatchTypeOK
  <1>2. CASE pos[b] = Len(feed[b])
    BY <1>2 DEF NextItemOf, Goto, BatchTypeOK, Phases
  <1>3. CASE pos[b] # Len(feed[b])
    <2>1. pos[b] + 1 \in DOMAIN feed[b] BY <1>1, <1>3
    <2>2. pc' = [pc EXCEPT ![b] = "fetch"] /\ pos' = [pos EXCEPT ![b] = pos[b] + 1]
      BY <1>3 DEF NextItemOf, Goto
    <2>3. pos[b] + 1 \in Nat /\ pos \in [Batches -> Nat] /\ pc \in [Batches -> Phases]
      BY DEF BatchTypeOK
    <2>4. pos' \in [Batches -> Nat] /\ pc' \in [Batches -> Phases]
      BY <2>2, <2>3 DEF Phases
    <2>5. pos'[b] = pos[b] + 1 /\ pc'[b] = "fetch"
      BY <2>2, <2>3
    <2>6. \A c \in Batches \ {b} : pc'[c] = pc[c] /\ pos'[c] = pos[c]
      BY <2>2, <2>3
    <2>7. \A c \in Batches : pos'[c] \in DOMAIN feed'[c]
      BY <2>1, <2>5, <2>6 DEF BatchTypeOK
    <2>8. QED BY <2>4, <2>5, <2>6, <2>7
  <1>4. QED BY <1>2, <1>3

LEMMA StepTyped ==
  ASSUME BatchTypeOK, NEW b \in Batches, BatchStep(b)
  PROVE  BatchTypeOK'
  <1>0. Item(b) \in Items /\ 0 \in Versions /\ Nothing \in [Items -> Versions]
    BY ItemTyped, VersionAssumption DEF Nothing, Versions
  <1>1. CASE Fetch(b)
    BY <1>0, <1>1 DEF BatchTypeOK, Fetch, Goto, Phases, diskVars
  <1>2. CASE ItemFails(b)
    BY <1>0, <1>2, NextItemTyped DEF BatchTypeOK, ItemFails, Fail, diskVars
  <1>3. CASE BatchExits(b)
    BY <1>0, <1>3 DEF BatchTypeOK, BatchExits, Goto, Phases, diskVars, batchVars
  <1>4. CASE WriteFiles(b)
    BY <1>0, <1>4 DEF BatchTypeOK, WriteFiles, Goto, Phases, batchVars
  <1>5. CASE Upsert(b)
    BY <1>0, <1>5, NextItemTyped DEF BatchTypeOK, Upsert, diskVars
  <1>6. CASE StatementFails(b) \/ DeadlockVictim(b)
    <2>1. AbortTransaction(b) BY <1>6 DEF StatementFails, DeadlockVictim
    <2>2. QED BY <1>0, <2>1, NextItemTyped DEF BatchTypeOK, AbortTransaction, Fail, diskVars
  <1>7. CASE UpsertRefused(b)
    BY <1>0, <1>7, NextItemTyped DEF BatchTypeOK, UpsertRefused, Fail, diskVars
  <1>8. CASE Commit(b)
    BY <1>0, <1>8 DEF BatchTypeOK, Commit, Goto, Phases, diskVars, batchVars
  <1>9. CASE WriteLog(b)
    BY <1>9 DEF BatchTypeOK, WriteLog, Logs, Goto, Phases, diskVars, batchVars
  <1>10. QED BY <1>1, <1>2, <1>3, <1>4, <1>5, <1>6, <1>7, <1>8, <1>9 DEF BatchStep

LEMMA BatchNextTyped == BatchTypeOK /\ [Next]_vars => BatchTypeOK'
  <1> SUFFICES ASSUME BatchTypeOK, [Next]_vars PROVE BatchTypeOK'
    OBVIOUS
  <1>0. Nothing \in [Items -> Versions]
    BY VersionAssumption DEF Nothing, Versions
  <1>1. ASSUME NEW b \in Batches, Begin(b) PROVE BatchTypeOK'
    BY <1>1 DEF BatchTypeOK, Begin, Goto, Phases, diskVars, batchVars
  <1>2. ASSUME NEW b \in Batches, Die(b) PROVE BatchTypeOK'
    BY <1>0, <1>2 DEF BatchTypeOK, Die, Goto, Phases, diskVars, batchVars
  <1>3. ASSUME NEW i \in Items, Publish(i) PROVE BatchTypeOK'
    BY <1>3, VersionAssumption DEF BatchTypeOK, Publish, Versions, batchVars
  <1>4. CASE UNCHANGED vars
    BY <1>4 DEF BatchTypeOK, vars, diskVars, batchVars
  <1>5. QED BY <1>1, <1>2, <1>3, <1>4, StepTyped DEF Next

LEMMA BatchInitTyped == Init => BatchTypeOK
  <1> SUFFICES ASSUME Init PROVE BatchTypeOK
    OBVIOUS
  <1>1. \A b \in Batches : 1 \in DOMAIN feed[b]
    BY FeedProperties DEF Init
  <1>2. 0 \in Versions /\ 1 \in Versions
    BY VersionAssumption DEF Versions
  <1>3. QED BY <1>1, <1>2 DEF Init, BatchTypeOK, Nothing, NoLog, Logs, Phases

(* Pages, files, tables, transactions and results keep their types, and a  *)
(* batch never looks beyond its feed.                                      *)
THEOREM BatchTypeCorrect == Spec => []BatchTypeOK
  BY BatchInitTyped, BatchNextTyped, PTL DEF Spec
-----------------------------------------------------------------------------
(* Steps *)

(* A step of b leaves the other batches where they are.                    *)
LEMMA OthersKept ==
  ASSUME BatchTypeOK, NEW b \in Batches, BatchStep(b)
  PROVE  /\ page' = page /\ feed' = feed /\ alone' = alone
         /\ pc[b] \in {"fetch", "files", "upsert", "commit", "log"}
         /\ \A c \in Batches \ {b} :
              /\ pc'[c] = pc[c] /\ pos'[c] = pos[c] /\ got'[c] = got[c] /\ tx'[c] = tx[c]
              /\ imported'[c] = imported[c] /\ failed'[c] = failed[c] /\ log'[c] = log[c]
  <1>1. CASE Fetch(b)
    BY <1>1 DEF BatchTypeOK, Fetch, Goto, diskVars
  <1>2. CASE ItemFails(b)
    BY <1>2, NextItemTyped DEF BatchTypeOK, ItemFails, Fail, diskVars
  <1>3. CASE BatchExits(b)
    BY <1>3 DEF BatchTypeOK, BatchExits, Goto, diskVars, batchVars
  <1>4. CASE WriteFiles(b)
    BY <1>4 DEF BatchTypeOK, WriteFiles, Goto, batchVars
  <1>5. CASE Upsert(b)
    BY <1>5, NextItemTyped DEF BatchTypeOK, Upsert, diskVars
  <1>6. CASE StatementFails(b) \/ DeadlockVictim(b)
    <2>1. AbortTransaction(b) /\ pc[b] = "upsert"
      BY <1>6 DEF StatementFails, DeadlockVictim, Waiting
    <2>2. QED BY <2>1, NextItemTyped DEF BatchTypeOK, AbortTransaction, Fail, diskVars
  <1>7. CASE UpsertRefused(b)
    BY <1>7, NextItemTyped DEF BatchTypeOK, UpsertRefused, Fail, diskVars
  <1>8. CASE Commit(b)
    BY <1>8 DEF BatchTypeOK, Commit, Goto, diskVars, batchVars
  <1>9. CASE WriteLog(b)
    BY <1>9 DEF BatchTypeOK, WriteLog, Goto, diskVars, batchVars
  <1>10. QED BY <1>1, <1>2, <1>3, <1>4, <1>5, <1>6, <1>7, <1>8, <1>9 DEF BatchStep

(* The item a batch leaves behind is one of its earlier items, as are the  *)
(* ones that were.                                                         *)
LEMMA EarlierGrows ==
  ASSUME BatchTypeOK, NEW b \in Batches, NextItemOf(b), UNCHANGED feed
  PROVE  /\ pc'[b] \in {"fetch", "commit"}
         /\ \A i \in Items : i = Item(b) \/ Earlier(b, i) => pc'[b] = "commit" \/ Earlier(b, i)'
  <1>1. pos[b] \in Nat /\ pos[b] \in DOMAIN feed[b] /\ DOMAIN feed[b] \subseteq Nat
    BY FeedProperties DEF BatchTypeOK
  <1>2. CASE pc'[b] = "commit" /\ pos'[b] = pos[b]
    BY <1>1, <1>2 DEF Earlier
  <1>3. CASE pc'[b] = "fetch" /\ pos'[b] = pos[b] + 1
    BY <1>1, <1>3 DEF Earlier, Item
  <1>4. QED BY <1>2, <1>3, NextItemTyped

(* No item of a feed comes twice.                                          *)
LEMMA EarlierDiffers ==
  ASSUME BatchTypeOK, NEW b \in Batches
  PROVE  ~Earlier(b, Item(b))
  BY FeedProperties DEF BatchTypeOK, Earlier, Item

LEMMA HoldsKept ==
  ASSUME BatchTypeOK, BatchTypeOK', NEW c \in Batches, Holds(c),
         \A i \in Items : page[i] <= page'[i],
         pc'[c] = pc[c], pos'[c] = pos[c], feed' = feed, got'[c] = got[c], tx'[c] = tx[c]
  PROVE  Holds(c)'
  <1>1. Item(c)' = Item(c) /\ Item(c) \in Items
    BY ItemTyped DEF Item
  <1>2. \A i \in Items : page[i] \in Nat /\ page'[i] \in Nat /\ tx[c][i] \in Nat
    BY DEF BatchTypeOK, Versions
  <1>3. got[c] \in Nat
    BY DEF BatchTypeOK, Versions
  <1>4. \A i \in Items : Earlier(c, i)' <=> Earlier(c, i)
    BY DEF Earlier
  <1>5. QED BY <1>1, <1>2, <1>3, <1>4 DEF Holds

LEMMA FeedStep ==
  ASSUME BatchTypeOK, FeedInv, NEW b \in Batches, BatchStep(b)
  PROVE  FeedInv'
  <1>0. BatchTypeOK' /\ page' = page /\ Item(b) \in Items /\ Holds(b)
    BY StepTyped, OthersKept, ItemTyped DEF FeedInv
  <1>1. \A i \in Items : page[i] \in Nat /\ db[i] \in Nat /\ tx[b][i] \in Nat
    BY DEF BatchTypeOK, Versions
  <1>2. \A c \in Batches \ {b} : Holds(c)'
    BY <1>0, <1>1, OthersKept, HoldsKept DEF FeedInv
  <1>3. \A i \in Items : page'[i] # 0 /\ db'[i] <= page'[i]
    <2>1. CASE Commit(b)
      BY <2>1, <1>0, <1>1 DEF Commit, FeedInv, Holds, BatchTypeOK
    <2>2. CASE db' = db
      BY <2>2, <1>0 DEF FeedInv
    <2>3. QED BY <2>1, <2>2 DEF BatchStep, Fetch, ItemFails, BatchExits, WriteFiles, Upsert,
            StatementFails, UpsertRefused, DeadlockVictim, AbortTransaction, WriteLog, diskVars
  <1>4. Holds(b)'
    <2>1. CASE Fetch(b)
      <3>1. pc'[b] = "files" /\ got'[b] = page[Item(b)] /\ Item(b)' = Item(b)
            /\ tx' = tx /\ pos' = pos /\ feed' = feed /\ pc[b] = "fetch"
        BY <2>1 DEF Fetch, Goto, BatchTypeOK, Item
      <3>2. \A i \in Items : Earlier(b, i)' <=> Earlier(b, i)
        BY <3>1 DEF Earlier
      <3>3. QED BY <1>0, <1>1, <3>1, <3>2 DEF Holds, FeedInv, Open
    <2>2. CASE ItemFails(b) \/ UpsertRefused(b)
      <3>1. NextItemOf(b) /\ feed' = feed /\ tx' = tx /\ pc[b] \in {"fetch", "files", "upsert"}
        BY <2>2 DEF ItemFails, UpsertRefused
      <3>2. QED BY <1>0, <3>1, EarlierGrows DEF Holds, Open
    <2>3. CASE BatchExits(b) \/ Commit(b)
      BY <2>3 DEF BatchExits, Commit, Goto, Holds, Open, BatchTypeOK, Nothing
    <2>4. CASE WriteFiles(b)
      <3>1. pc'[b] = "upsert" /\ got' = got /\ Item(b)' = Item(b)
            /\ tx' = tx /\ pos' = pos /\ feed' = feed /\ pc[b] = "files"
        BY <2>4 DEF WriteFiles, Goto, BatchTypeOK, Item, batchVars
      <3>2. \A i \in Items : Earlier(b, i)' <=> Earlier(b, i)
        BY <3>1 DEF Earlier
      <3>3. QED BY <1>0, <1>1, <3>1, <3>2 DEF Holds, Open
    <2>5. CASE Upsert(b)
      <3>1. NextItemOf(b) /\ feed' = feed /\ pc[b] = "upsert"
        BY <2>5 DEF Upsert
      <3>2. \A i \in Items : tx'[b][i] = IF i = Item(b) THEN got[b] ELSE tx[b][i]
        BY <2>5, <1>0 DEF Upsert, BatchTypeOK
      <3>3. QED BY <1>0, <3>1, <3>2, EarlierGrows DEF Holds, Open
    <2>6. CASE StatementFails(b) \/ DeadlockVictim(b)
      <3>1. AbortTransaction(b)
        BY <2>6 DEF StatementFails, DeadlockVictim
      <3>2. tx'[b] = Nothing /\ NextItemOf(b) /\ feed' = feed
        BY <3>1 DEF AbortTransaction, BatchTypeOK
      <3>3. pc'[b] \in {"fetch", "commit"}
        BY <3>2, EarlierGrows
      <3>4. QED BY <3>2, <3>3 DEF Holds, Nothing, Open
    <2>7. CASE WriteLog(b)
      BY <1>0, <2>7 DEF WriteLog, Goto, Holds, Open, BatchTypeOK, Nothing
    <2>8. QED BY <2>1, <2>2, <2>3, <2>4, <2>5, <2>6, <2>7 DEF BatchStep
  <1>5. QED BY <1>2, <1>3, <1>4 DEF FeedInv
LEMMA CountsKept ==
  ASSUME NEW c \in Batches, Counts(c), \A i \in Items : db[i] # 0 => db'[i] # 0,
         BatchTypeOK,
         pc'[c] = pc[c], tx'[c] = tx[c], log'[c] = log[c],
         imported'[c] = imported[c], failed'[c] = failed[c]
  PROVE  Counts(c)'
  <1>1. imported[c] \subseteq Items /\ log[c].imported \subseteq Items
    BY DEF BatchTypeOK, Logs
  <1>2. QED BY <1>1 DEF Counts, LogAccepted

(* What was committed stays committed, in whatever version.                *)
LEMMA DatabaseKeeps ==
  ASSUME BatchTypeOK, NEW b \in Batches, BatchStep(b), NEW i \in Items, db[i] # 0
  PROVE  db'[i] # 0
  <1>1. CASE Commit(b)
    BY <1>1 DEF Commit, BatchTypeOK
  <1>2. CASE db' = db
    BY <1>2
  <1>3. QED BY <1>1, <1>2 DEF BatchStep, Fetch, ItemFails, BatchExits, WriteFiles, Upsert,
          StatementFails, UpsertRefused, DeadlockVictim, AbortTransaction, WriteLog, diskVars

(* A failure is noted in the step that takes the transaction with it; so a *)
(* batch without a failure still has what it counts.                       *)
LEMMA LogStep ==
  ASSUME BatchTypeOK, FeedInv, LogInv, NEW b \in Batches, BatchStep(b)
  PROVE  LogInv'
  <1>0. Item(b) \in Items /\ Holds(b) /\ Counts(b) /\ imported[b] \subseteq Items
    BY ItemTyped DEF FeedInv, LogInv, BatchTypeOK
  <1>1. \A c \in Batches \ {b} : Counts(c)'
    BY OthersKept, DatabaseKeeps, CountsKept DEF LogInv
  <1>2. ASSUME log'[b] = log[b],
               /\ pc'[b] # "idle"
               /\ pc'[b] \in Open /\ failed'[b] = {} => \A i \in imported'[b] : tx'[b][i] # 0
               /\ pc'[b] = "log" /\ failed'[b] = {} => \A i \in imported'[b] : db'[i] # 0
        PROVE  Counts(b)'
    <2>1. log[b].imported \subseteq Items
      BY DEF BatchTypeOK, Logs
    <2>2. LogAccepted(log[b])' => \A i \in log'[b].imported : db'[i] # 0
      BY <1>0, <1>2, <2>1, DatabaseKeeps DEF Counts, LogAccepted
    <2>3. QED BY <1>2, <2>2 DEF Counts
  <1>3. Counts(b)'
    <2>1. CASE Fetch(b) \/ WriteFiles(b)
      BY <2>1, <1>0, <1>2 DEF Fetch, WriteFiles, Goto, BatchTypeOK, Counts, Open, diskVars, batchVars
    <2>2. CASE ItemFails(b) \/ UpsertRefused(b) \/ StatementFails(b) \/ DeadlockVictim(b)
      <3>1. NextItemOf(b) /\ feed' = feed /\ Fail(b) /\ log' = log
        BY <2>2 DEF ItemFails, UpsertRefused, StatementFails, DeadlockVictim, AbortTransaction
      <3>2. pc'[b] \in {"fetch", "commit"} /\ failed'[b] # {}
        BY <3>1, EarlierGrows DEF Fail, BatchTypeOK
      <3>3. QED BY <3>1, <3>2, <1>2
    <2>3. CASE BatchExits(b)
      BY <2>3, <1>2 DEF BatchExits, Goto, BatchTypeOK, Open
    <2>4. CASE Upsert(b)
      <3>1. NextItemOf(b) /\ feed' = feed /\ log' = log /\ failed' = failed /\ pc[b] = "upsert"
        BY <2>4 DEF Upsert
      <3>2. pc'[b] \in {"fetch", "commit"} /\ got[b] # 0
        BY <3>1, <1>0, EarlierGrows DEF Holds
      <3>3. imported'[b] = imported[b] \cup {Item(b)}
        BY <2>4 DEF Upsert, BatchTypeOK
      <3>4. \A i \in Items : tx'[b][i] = IF i = Item(b) THEN got[b] ELSE tx[b][i]
        BY <2>4, <1>0 DEF Upsert, BatchTypeOK
      <3>5. QED BY <1>0, <3>1, <3>2, <3>3, <3>4, <1>2 DEF Counts, Open
    <2>5. CASE Commit(b)
      <3>1. \A i \in imported[b] : db'[i] = IF tx[b][i] # 0 THEN tx[b][i] ELSE db[i]
        BY <2>5, <1>0 DEF Commit
      <3>2. QED BY <2>5, <3>1, <1>0, <1>2 DEF Commit, Counts, Goto, BatchTypeOK, Open, batchVars
    <2>6. CASE WriteLog(b)
      <3>1. /\ log'[b].imported = imported[b] /\ log'[b].failed = failed[b]
            /\ pc[b] = "log" /\ pc'[b] = "done" /\ db' = db
        BY <2>6 DEF WriteLog, Goto, BatchTypeOK
      <3>2. QED BY <1>0, <3>1 DEF Counts, LogAccepted, Open
    <2>7. QED BY <2>1, <2>2, <2>3, <2>4, <2>5, <2>6 DEF BatchStep
  <1>4. QED BY <1>1, <1>3 DEF LogInv

(* The file an item gets is not one of an earlier item's.                  *)
LEMMA AloneStep ==
  ASSUME BatchTypeOK, FeedInv, AloneInv, NEW b \in Batches, BatchStep(b)
  PROVE  AloneInv'
  <1>0. /\ Item(b) \in Items /\ Holds(b) /\ alone' = alone /\ b \in Active
        /\ \A c \in Batches \ {b} : c \in Active' <=> c \in Active
    BY ItemTyped, OthersKept DEF FeedInv, Active
  <1>1. SUFFICES ASSUME alone[b], b \in Active'
                 PROVE  Undisturbed(b)'
    BY <1>0 DEF AloneInv, Undisturbed
  <1>2. Undisturbed(b) /\ \A c \in Batches \ {b} : c \notin Active'
    BY <1>0, <1>1 DEF AloneInv, Undisturbed
  <1>3. \A i \in Items : file[i] \in Nat /\ db[i] \in Nat /\ tx[b][i] \in Nat
    BY DEF BatchTypeOK, Versions
  <1>4. CASE Fetch(b)
    <2>1. pc'[b] = "files" /\ got'[b] = page[Item(b)] /\ Item(b)' = Item(b)
          /\ tx' = tx /\ file' = file /\ db' = db
      BY <1>4 DEF Fetch, Goto, BatchTypeOK, Item, diskVars
    <2>2. QED BY <2>1, <1>0, <1>2 DEF Undisturbed, FeedInv
  <1>5. CASE ItemFails(b) \/ UpsertRefused(b)
    <2>1. NextItemOf(b) /\ feed' = feed /\ tx' = tx /\ file' = file /\ db' = db
      BY <1>5 DEF ItemFails, UpsertRefused, diskVars
    <2>2. pc'[b] \in {"fetch", "commit"}
      BY <2>1, EarlierGrows
    <2>3. QED BY <2>1, <2>2, <1>2 DEF Undisturbed
  <1>6. CASE BatchExits(b)
    BY <1>1, <1>6 DEF BatchExits, Goto, BatchTypeOK, Active
  <1>7. CASE WriteFiles(b)
    <2>1. pc[b] = "files" /\ pc'[b] = "upsert" /\ got' = got /\ Item(b)' = Item(b)
          /\ tx' = tx /\ db' = db
      BY <1>7 DEF WriteFiles, Goto, BatchTypeOK, Item, batchVars
    <2>2. \A i \in Items : file'[i] = IF i = Item(b) THEN got[b] ELSE file[i]
      BY <1>0, <1>7 DEF WriteFiles, BatchTypeOK
    <2>3. tx[b][Item(b)] = 0
      BY <1>0, <2>1, EarlierDiffers DEF Holds
    <2>4. QED BY <1>0, <1>2, <2>1, <2>2, <2>3 DEF Undisturbed
  <1>8. CASE Upsert(b)
    <2>1. NextItemOf(b) /\ feed' = feed /\ pc[b] = "upsert" /\ file' = file /\ db' = db
      BY <1>8 DEF Upsert, diskVars
    <2>2. pc'[b] \in {"fetch", "commit"}
      BY <2>1, EarlierGrows
    <2>3. \A i \in Items : tx'[b][i] = IF i = Item(b) THEN got[b] ELSE tx[b][i]
      BY <1>8, <1>0 DEF Upsert, BatchTypeOK
    <2>4. QED BY <1>2, <2>1, <2>2, <2>3 DEF Undisturbed
  <1>9. CASE StatementFails(b) \/ DeadlockVictim(b)
    <2>1. AbortTransaction(b)
      BY <1>9 DEF StatementFails, DeadlockVictim
    <2>2. tx'[b] = Nothing /\ NextItemOf(b) /\ feed' = feed
      BY <2>1 DEF AbortTransaction, BatchTypeOK
    <2>3. pc'[b] \in {"fetch", "commit"}
      BY <2>2, EarlierGrows
    <2>4. QED BY <1>2, <2>2, <2>3 DEF Undisturbed, Nothing
  <1>10. CASE Commit(b)
    <2>1. pc'[b] = "log" /\ tx'[b] = Nothing
      BY <1>10 DEF Commit, Goto, BatchTypeOK
    <2>2. QED BY <1>2, <2>1 DEF Undisturbed, Nothing
  <1>11. CASE WriteLog(b)
    BY <1>1, <1>11 DEF WriteLog, Goto, BatchTypeOK, Active
  <1>12. QED BY <1>4, <1>5, <1>6, <1>7, <1>8, <1>9, <1>10, <1>11 DEF BatchStep
(* What does not come from a running batch: a start, a death, a page that  *)
(* is published anew.                                                      *)
LEMMA BeginStep ==
  ASSUME BatchTypeOK, BatchInv, NEW b \in Batches, Begin(b)
  PROVE  BatchInv'
  <1>0. /\ BatchTypeOK' /\ page' = page /\ file' = file /\ db' = db /\ pos' = pos /\ tx' = tx
        /\ log' = log /\ feed' = feed /\ got' = got /\ imported' = imported /\ failed' = failed
        /\ pc[b] = "idle" /\ pc'[b] = "fetch" /\ \A c \in Batches \ {b} : pc'[c] = pc[c]
    BY BatchNextTyped DEF Begin, Next, Goto, BatchTypeOK, diskVars, batchVars
  <1>1. Active' = Active \cup {b} /\ b \notin Active
    BY <1>0 DEF Active
  <1>2. \A i \in Items : page[i] \in Nat
    BY DEF BatchTypeOK, Versions
  <1>3. FeedInv'
    <2>1. \A c \in Batches \ {b} : Holds(c)'
      BY <1>0, <1>2, HoldsKept DEF BatchInv, FeedInv
    <2>2. tx'[b] = Nothing
      BY <1>0 DEF BatchInv, FeedInv, Holds, Open
    <2>3. Holds(b)'
      BY <1>0, <2>2 DEF Holds, Nothing, Open
    <2>4. QED BY <1>0, <2>1, <2>3 DEF BatchInv, FeedInv
  <1>4. LogInv'
    <2>1. \A c \in Batches \ {b} : Counts(c)'
      BY <1>0, CountsKept DEF BatchInv, LogInv
    <2>2. Counts(b) /\ imported'[b] = {}
      BY <1>0 DEF BatchInv, LogInv, Counts
    <2>3. Counts(b)'
      BY <1>0, <2>2 DEF Counts, LogAccepted
    <2>4. QED BY <2>1, <2>3 DEF LogInv
  <1>5. AloneInv'
    <2>1. SUFFICES ASSUME NEW c \in Batches, alone'[c], c \in Active'
                   PROVE  Undisturbed(c)'
      BY DEF AloneInv
    <2>2. c = b /\ Active = {}
      BY <1>1, <2>1 DEF Begin
    <2>3. tx'[b] = Nothing
      BY <1>0 DEF BatchInv, FeedInv, Holds, Open
    <2>4. QED BY <1>0, <1>1, <2>2, <2>3 DEF Undisturbed, Nothing
  <1>6. QED BY <1>3, <1>4, <1>5 DEF BatchInv

LEMMA DieStep ==
  ASSUME BatchTypeOK, BatchInv, NEW b \in Batches, Die(b)
  PROVE  BatchInv'
  <1>0. /\ BatchTypeOK' /\ page' = page /\ file' = file /\ db' = db /\ pos' = pos /\ alone' = alone
        /\ log' = log /\ feed' = feed /\ got' = got /\ imported' = imported /\ failed' = failed
        /\ pc'[b] = "died" /\ tx'[b] = Nothing
        /\ \A c \in Batches \ {b} : pc'[c] = pc[c] /\ tx'[c] = tx[c]
    BY BatchNextTyped DEF Die, Next, Goto, BatchTypeOK, diskVars, batchVars
  <1>1. Active' = Active \ {b}
    BY <1>0 DEF Active
  <1>2. \A i \in Items : page[i] \in Nat
    BY DEF BatchTypeOK, Versions
  <1>3. FeedInv'
    <2>1. \A c \in Batches \ {b} : Holds(c)'
      BY <1>0, <1>2, HoldsKept DEF BatchInv, FeedInv
    <2>2. Holds(b)'
      BY <1>0 DEF Holds, Nothing, Open
    <2>3. QED BY <1>0, <2>1, <2>2 DEF BatchInv, FeedInv
  <1>4. LogInv'
    <2>1. \A c \in Batches \ {b} : Counts(c)'
      BY <1>0, CountsKept DEF BatchInv, LogInv
    <2>2. Counts(b)'
      BY <1>0 DEF BatchInv, LogInv, Counts, LogAccepted, Open
    <2>3. QED BY <2>1, <2>2 DEF LogInv
  <1>5. AloneInv'
    <2>1. SUFFICES ASSUME NEW c \in Batches, alone'[c], c \in Active'
                   PROVE  Undisturbed(c)'
      BY DEF AloneInv
    <2>2. c # b /\ Undisturbed(c) /\ Item(c)' = Item(c)
      BY <1>0, <1>1, <2>1 DEF BatchInv, AloneInv, Item
    <2>3. QED BY <1>0, <1>1, <2>2 DEF Undisturbed
  <1>6. QED BY <1>3, <1>4, <1>5 DEF BatchInv

LEMMA PublishStep ==
  ASSUME BatchTypeOK, BatchInv, NEW i \in Items, Publish(i)
  PROVE  BatchInv'
  <1>0. BatchTypeOK' /\ UNCHANGED <<file, db, pc, pos, tx, log, alone, batchVars>>
    BY BatchNextTyped DEF Publish, Next
  <1>1. \A j \in Items : page[j] \in Nat /\ db[j] \in Nat /\ page'[j] = IF j = i THEN page[j] + 1 ELSE page[j]
    BY DEF Publish, BatchTypeOK, Versions
  <1>2. \A c \in Batches : Holds(c)'
    <2>1. \A j \in Items : page[j] <= page'[j]
      BY <1>1
    <2>2. QED BY <1>0, <2>1, HoldsKept DEF BatchInv, FeedInv, batchVars
  <1>3. FeedInv'
    BY <1>0, <1>1, <1>2 DEF BatchInv, FeedInv
  <1>4. LogInv'
    BY <1>0 DEF BatchInv, LogInv, Counts, LogAccepted, batchVars
  <1>5. AloneInv'
    BY <1>0 DEF BatchInv, AloneInv, Undisturbed, Item, Active, batchVars
  <1>6. QED BY <1>3, <1>4, <1>5 DEF BatchInv

LEMMA BatchNextInv == BatchTypeOK /\ BatchInv /\ [Next]_vars => BatchInv'
  <1> SUFFICES ASSUME BatchTypeOK, BatchInv, [Next]_vars PROVE BatchInv'
    OBVIOUS
  <1>1. ASSUME NEW b \in Batches, BatchStep(b) PROVE BatchInv'
    BY <1>1, FeedStep, LogStep, AloneStep DEF BatchInv
  <1>2. CASE UNCHANGED vars
    BY <1>2 DEF BatchInv, FeedInv, Holds, Earlier, LogInv, Counts, LogAccepted, AloneInv,
      Undisturbed, Item, Active, vars, diskVars, batchVars
  <1>3. QED BY <1>1, <1>2, BeginStep, DieStep, PublishStep DEF Next

LEMMA BatchInitInv == Init => BatchInv
  BY DEF Init, Nothing, NoLog, BatchInv, FeedInv, Holds, LogInv, Counts, LogAccepted,
    AloneInv, Open

(* The invariant the theorems below rest on.                               *)
THEOREM BatchInvariant == Spec => [](BatchTypeOK /\ BatchInv)
  BY BatchInitTyped, BatchNextTyped, BatchInitInv, BatchNextInv, PTL DEF Spec

(* The import guard's verdict on a log can be relied on: what an accepted  *)
(* log lists as imported is in the database and stays there, whatever      *)
(* failed, waited or died in other batches.                                *)
THEOREM AcceptedLogIsTrue == Spec => []AcceptedLogTrue
  <1>1. BatchInv => AcceptedLogTrue
    BY DEF BatchInv, LogInv, Counts, AcceptedLogTrue
  <1>2. QED BY <1>1, BatchInvariant, PTL

(* Only the commit of b leads it from "commit" to "log".                   *)
LEMMA OnlyCommitCommits ==
  ASSUME BatchTypeOK, Next, NEW b \in Batches, pc[b] = "commit", pc'[b] = "log"
  PROVE  Commit(b)
  <1>1. ASSUME NEW c \in Batches, BatchStep(c) PROVE c = b
    BY <1>1, OthersKept
  <1>2. ASSUME BatchStep(b) PROVE Commit(b)
    <2>1. ~NextItemOf(b)
      BY DEF NextItemOf, Goto, BatchTypeOK
    <2>2. QED BY <1>2, <2>1 DEF BatchStep, Fetch, ItemFails, BatchExits, WriteFiles, Upsert,
            StatementFails, UpsertRefused, DeadlockVictim, AbortTransaction, Waiting, WriteLog
  <1>3. ASSUME NEW c \in Batches, Begin(c) \/ Die(c) PROVE FALSE
    BY <1>3 DEF Begin, Die, Goto, BatchTypeOK
  <1>4. ASSUME NEW i \in Items, Publish(i) PROVE FALSE
    BY <1>4 DEF Publish
  <1>5. QED BY <1>1, <1>2, <1>3, <1>4 DEF Next

(* A batch nobody ran beside commits what the files on disk say, and       *)
(* nothing older than what it replaces.                                    *)
THEOREM BatchCommitsWhatIsOnDisk == Spec => CommitsWhatIsOnDisk
  <1>1. BatchTypeOK /\ BatchInv /\ [Next]_vars =>
          [\A b \in Batches : pc[b] = "commit" /\ pc'[b] = "log" /\ alone[b] =>
             \A i \in Items : tx[b][i] # 0 => db'[i] = file[i] /\ db'[i] >= db[i]]_vars
    <2>1. SUFFICES ASSUME BatchTypeOK, BatchInv, Next, NEW b \in Batches,
                          pc[b] = "commit", pc'[b] = "log", alone[b],
                          NEW i \in Items, tx[b][i] # 0
                   PROVE  db'[i] = file[i] /\ db'[i] >= db[i]
      OBVIOUS
    <2>2. db'[i] = tx[b][i]
      BY <2>1, OnlyCommitCommits DEF Commit
    <2>3. Undisturbed(b)
      BY <2>1 DEF BatchInv, AloneInv, Active
    <2>4. db[i] \in Nat /\ tx[b][i] \in Nat
      BY <2>1 DEF BatchTypeOK, Versions
    <2>5. QED BY <2>1, <2>2, <2>3, <2>4 DEF Undisturbed
  <1>2. QED BY <1>1, BatchInvariant, PTL DEF Spec, CommitsWhatIsOnDisk
=============================================================================
