------------------------------ MODULE Storages ------------------------------
(***************************************************************************)
(* The storage of the daemon: createBundleStorage() takes the one that is  *)
(* configured.  The variables of the same name are shared, as only one of  *)
(* the three exists.                                                       *)
(***************************************************************************)
EXTENDS StorageConstants

CONSTANT Rowed  \* the bundles stored in the database, to bound its rows

ASSUME RowedAssumption == Rowed \subseteq Bundles

VARIABLES
  kind,                                                   \* conf.getStorage()
  list, index, cursize, stores,                           \* memory and simple
  bundles, lengths,                                       \* memory
  pending, stored, bsize, storing, sem, disk, known, failed, cleared, \* simple
  tasks, task, wpc, crashes,                              \* simple and sqlite
  rows, blks, tx, files, deletion, seen, next, st, idle, now          \* sqlite

Simple == INSTANCE SimpleBundleStorage
Memory == INSTANCE MemoryBundleStorage
SQLite == INSTANCE SQLiteBundleStorage WITH
            Bundles <- Rowed, Fragments <- Fragments \cap Rowed, Custody <- Custody \cap Rowed

\* None is neither a store() at work nor the tables of a transaction
ASSUME NoneAssumption ==
  /\ None \notin [b : Rowed, n : Nat, i : Nat, pc : {"blocks", "end", "time"}]
  /\ None \notin [rows : SUBSET SQLite!Row, blks : SUBSET SQLite!File]

vars == <<kind, Simple!vars, Memory!vars, SQLite!vars>>

\* createBundleStorage(): without a path the simple storage is in memory
Init ==
  /\ kind \in {"sqlite", "simple", "memory"}
  /\ Simple!Init /\ Memory!Init /\ SQLite!Init

SimpleNext ==
  /\ kind = "simple" /\ Simple!Next
  /\ UNCHANGED <<kind, bundles, lengths, rows, blks, tx, files, deletion, seen, next,
                 st, idle, now>>

MemoryNext ==
  /\ kind = "memory" /\ Memory!Next
  /\ UNCHANGED <<kind, pending, stored, bsize, storing, sem, disk, known, failed,
                 cleared, tasks, task, wpc, crashes, rows, blks, tx, files, deletion,
                 seen, next, st, idle, now>>

SQLiteNext ==
  /\ kind = "sqlite" /\ SQLite!Next
  /\ UNCHANGED <<kind, list, index, cursize, bundles, lengths, pending, stored, bsize,
                 storing, sem, disk, known, failed, cleared>>

Next == SimpleNext \/ MemoryNext \/ SQLiteNext

\* the threads of the storage and the threads inside store() go on
FairSpec ==
  /\ Init /\ [][Next]_vars
  /\ WF_(Simple!vars)(kind = "simple" /\ Simple!WorkerStep)
  /\ \A b \in Bundles : WF_(Simple!vars)(kind = "simple" /\ Simple!QueueStore(b))
  /\ WF_(SQLite!vars)(kind = "sqlite" /\ SQLite!WorkerStep)
  /\ WF_(SQLite!vars)(kind = "sqlite" /\ SQLite!StoreStep)

-----------------------------------------------------------------------------
(* The size a storage in memory or on disk counts is the size of the       *)
(* bundles it holds, and its indexes agree.                                *)
SizeIsExact ==
  /\ kind = "simple" => Simple!SizeIsExact
  /\ kind = "memory" => Memory!SizeIsExact

(* Every bundle a query lists can be got, from memory, from its file or    *)
(* with all its blocks from the database, also after a failed write and    *)
(* after a restart in the middle of an operation.                          *)
ListedIsReadable ==
  /\ kind = "simple" => Simple!ListedIsReadable
  /\ kind = "sqlite" => SQLite!ListedIsReadable

(* Once everything has been worked on, a bundle that is not in the list    *)
(* has no file and does not come back with the next restart.               *)
RemovedIsGone == kind = "simple" => Simple!RemovedIsGone

(* A restart loses no bundle whose store() in the database has returned.   *)
StoredSurvives ==
  [][kind = "sqlite" /\ crashes' # crashes =>
       \A b \in Rowed : SQLite!Readable(b) /\ ~SQLite!InWork(b) => SQLite!Readable(b)']_vars

(* store() returns: the semaphore of the write buffer is always posted     *)
(* again, also when writing fails, and no lock is kept.                    *)
StoreReturns == Simple!StoreReturns /\ SQLite!StoreReturns

(* The file of a removed bundle is removed eventually, and a removed       *)
(* bundle leaves the deletion list of the database.                        *)
RemovedVanishes == Simple!RemovedVanishes /\ SQLite!RemovedVanishes

(* Every store() returns and every removal is finished: the semaphore of   *)
(* the disk, the transaction and the deletion list are left by each path.  *)
CallsComplete == StoreReturns /\ RemovedVanishes

Content ==
  CASE kind = "simple" -> Simple!Content
    [] kind = "memory" -> bundles
    [] kind = "sqlite" -> SQLite!Content

Doomed ==
  CASE kind = "simple" -> Simple!Doomed
    [] kind = "memory" -> {}
    [] kind = "sqlite" -> SQLite!Doomed

Abstract  == INSTANCE BundleStorage WITH content <- Content, doomed <- Doomed
Unlimited == INSTANCE BundleStorage WITH
               content <- Content, doomed <- Doomed, MaxSize <- 0

(* Whichever storage is configured behaves as a set of bundles within the  *)
(* limit: every call, every step of its threads, every failure and every   *)
(* restart is one step of BundleStorage or invisible, until clear() of the *)
(* simple storage is called.  The database has no limit.                   *)
ImplementsBundleStorage ==
  /\ Abstract!Init
  /\ [][cleared \/ IF kind = "sqlite" THEN Unlimited!Next ELSE Abstract!Next]_<<Content, Doomed>>

(* Only store() and a restart add a bundle: one that was removed does not  *)
(* come back while its files and rows are being deleted.                   *)
RemovedStaysAway ==
  [][\A b \in Content' \ Content :
       stores' # stores \/ crashes' # crashes \/ (kind = "sqlite" /\ SQLite!Storing(b))]_vars

(* Bundles come and go with calls only: a restart loses none that was      *)
(* stored, and the deletion in the background brings none back.            *)
ContentIsAccounted == StoredSurvives /\ RemovedStaysAway
=============================================================================
