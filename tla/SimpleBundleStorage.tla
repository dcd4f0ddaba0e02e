------------------------ MODULE SimpleBundleStorage ------------------------
(***************************************************************************)
(* The file based bundle storage: SimpleBundleStorage keeps the list of    *)
(* bundles and their sizes under _bundleslock, DataStorage writes and      *)
(* removes the files with a thread of its own that works through a queue   *)
(* of tasks.  Until a bundle is written it is kept in _pending_bundles.    *)
(* The daemon may crash or be restarted at any time, a write may fail.     *)
(***************************************************************************)
EXTENDS StorageConstants

Seqs == INSTANCE SequencesExt

VARIABLES
  list,       \* the BundleList
  index,      \* _priority_index
  pending,    \* _pending_bundles: the custodian of each, or "none"
  stored,     \* _stored_bundles: the hash for each bundle, or None
  bsize,      \* _bundle_size, 0 where there is no entry
  cursize,    \* _currentsize
  storing,    \* bundles whose store() has left the lock but not queued the task
  tasks,      \* DataStorage::_tasks
  task,       \* the task of the DataStorage thread
  wpc,        \* where that thread is
  sem,        \* _store_sem
  disk,       \* the file of each bundle: "none", "part" or "full"
  stores, known, \* calls of store() and bundles stored so far
  failed,     \* bundles whose file could not be written
  crashes,    \* restarts so far
  cleared     \* clear() has been called since the start

listVars == <<list, index>>
bookVars == <<pending, stored, bsize, cursize>>
workVars == <<task, wpc>>
pastVars == <<stores, known, failed, crashes, cleared>>

vars == <<listVars, bookVars, storing, tasks, workVars, sem, disk, pastVars>>

Task  == [op : {"store", "remove"}, b : Bundles]
Metas == Bundles \cup {Default}
SizeOf(S) == MapThenSumSet(LAMBDA b : Size[b], S)

\* arithmetic of size_t
Add(x, y) == (x + y) % Modulus
Sub(x, y) == (x + Modulus - y) % Modulus

Init ==
  /\ list = {} /\ index = {}
  /\ pending = [b \in Bundles |-> "none"]
  /\ stored = [m \in Metas |-> None]
  /\ bsize = [m \in Metas |-> 0]
  /\ cursize = 0
  /\ storing = {} /\ tasks = <<>> /\ task = None /\ wpc = "idle"
  /\ sem = Buffer
  /\ disk = [b \in Bundles |-> "none"]
  /\ stores = 0 /\ known = {} /\ failed = {}
  /\ crashes = 0 /\ cleared = FALSE

-----------------------------------------------------------------------------
(* The users of the storage, under _bundleslock.                           *)

\* the custodian of the bundle put into _pending_bundles
Custodian(b) == IF b \in Custody THEN "own" ELSE "prev"

\* the custodian in the file: the container is made of the bundle as received
FileCustodian(b) == "prev"

\* Seeded error: the limit is tested without the new bundle.
StoreTestsOldSize(b) ==
  /\ b \notin storing /\ stores < MaxStores
  /\ Again \/ b \notin known
  /\ ~(MaxSize > 0 /\ cursize > MaxSize)
  /\ pending' = [pending EXCEPT ![b] = Custodian(b)]
  /\ bsize' = [bsize EXCEPT ![b] = Size[b]]
  /\ cursize' = Add(cursize, Size[b])
  /\ list' = list \cup {b} /\ index' = index \cup {b}
  /\ storing' = storing \cup {b}
  /\ stores' = stores + 1 /\ known' = known \cup {b}
  /\ UNCHANGED <<stored, tasks, workVars, sem, disk, failed, crashes, cleared>>

\* store(), up to the end of the locked block; a bundle that does not fit
\* is refused by exception and changes nothing
Store(b) ==
  /\ b \notin storing /\ stores < MaxStores
  /\ Again \/ b \notin known
  /\ ~(MaxSize > 0 /\ Add(cursize, Size[b]) > MaxSize)
  /\ pending' = [pending EXCEPT ![b] = Custodian(b)]
  /\ bsize' = [bsize EXCEPT ![b] = Size[b]]
  /\ cursize' = Add(cursize, Size[b])
  /\ list' = list \cup {b} /\ index' = index \cup {b}
  /\ storing' = storing \cup {b}
  /\ stores' = stores + 1 /\ known' = known \cup {b}
  /\ UNCHANGED <<stored, tasks, workVars, sem, disk, failed, crashes, cleared>>

\* DataStorage::store(): wait for the semaphore, queue the task
QueueStore(b) ==
  /\ b \in storing
  /\ Buffer > 0 => sem > 0
  /\ sem' = IF Buffer > 0 THEN sem - 1 ELSE sem
  /\ tasks' = Append(tasks, [op |-> "store", b |-> b])
  /\ storing' = storing \ {b}
  /\ UNCHANGED <<listVars, bookVars, workVars, disk, pastVars>>

\* what remove(), expiry and a failed load have in common
DropAndQueue(b) ==
  /\ b \in list
  /\ list' = list \ {b} /\ index' = index \ {b}
  /\ tasks' = Append(tasks, [op |-> "remove", b |-> b])
  /\ UNCHANGED <<bookVars, storing, workVars, sem, disk, pastVars>>

\* remove() by id or by filter
Remove(b) == (Overlap \/ b \notin storing) /\ DropAndQueue(b)

\* a tick of the clock: BundleList::expire() and eventBundleExpired()
Expire(b) == (Overlap \/ b \notin storing) /\ DropAndQueue(b)

\* __get(): from the pending bundles, else from the file
Readable(b) == pending[b] # "none" \/ disk[b] = "full"

\* get() of a bundle that cannot be deserialized removes it
GetBroken(b) ==
  /\ ~Readable(b) /\ disk[b] = "part"
  /\ wpc # "write"
  /\ DropAndQueue(b)

\* clear()
Clear ==
  /\ MayClear /\ list # {}
  /\ Overlap \/ storing = {}
  /\ tasks' = tasks \o Seqs!SetToSeq({[op |-> "remove", b |-> b] : b \in list})
  /\ list' = {} /\ index' = {}
  /\ cursize' = 0
  /\ cleared' = TRUE
  /\ UNCHANGED <<pending, stored, bsize, storing, workVars, sem, disk, stores, known, failed, crashes>>

-----------------------------------------------------------------------------
(* The thread of DataStorage.                                              *)

\* getnpop(), and for a store the truncation of the file
TakeTask ==
  /\ wpc = "idle" /\ tasks # <<>>
  /\ task' = Head(tasks) /\ tasks' = Tail(tasks)
  /\ \/ /\ Head(tasks).op = "store"
        /\ wpc' = "write"
        /\ disk' = [disk EXCEPT ![Head(tasks).b] = "part"]
     \/ /\ Head(tasks).op = "remove"
        /\ wpc' = "unlink"
        /\ UNCHANGED disk
  /\ UNCHANGED <<listVars, bookVars, storing, sem, pastVars>>

\* the file cannot even be opened
OpenFails ==
  /\ MayFail
  /\ wpc = "idle" /\ tasks # <<>> /\ Head(tasks).op = "store"
  /\ task' = Head(tasks) /\ tasks' = Tail(tasks)
  /\ sem' = IF Buffer > 0 THEN sem + 1 ELSE sem
  /\ wpc' = "failed"
  /\ UNCHANGED <<listVars, bookVars, storing, disk, pastVars>>

\* serialize the bundle and post the semaphore
WriteFile ==
  /\ wpc = "write"
  /\ sem' = IF Buffer > 0 THEN sem + 1 ELSE sem
  /\ \/ /\ disk' = [disk EXCEPT ![task.b] = "full"] /\ wpc' = "stored"
     \/ /\ MayFail /\ wpc' = "failed" /\ UNCHANGED disk
  /\ UNCHANGED <<listVars, bookVars, storing, tasks, task, pastVars>>

\* eventDataStorageStored()
EventStored ==
  LET meta == IF pending[task.b] # "none" THEN task.b ELSE Default IN
  /\ wpc = "stored"
  /\ stored' = [stored EXCEPT ![meta] = task.b]
  /\ pending' = [pending EXCEPT ![task.b] = "none"]
  /\ wpc' = "idle" /\ task' = None
  /\ UNCHANGED <<listVars, bsize, cursize, storing, tasks, sem, disk, pastVars>>

\* eventDataStorageStoreFailed(): the bundle stays in the list
EventStoreFailed ==
  LET meta == IF pending[task.b] # "none" THEN task.b ELSE Default IN
  /\ wpc = "failed"
  /\ cursize' = Sub(cursize, bsize[meta])
  /\ bsize' = [bsize EXCEPT ![meta] = 0]
  /\ pending' = [pending EXCEPT ![task.b] = "none"]
  /\ wpc' = "idle" /\ task' = None
  /\ failed' = failed \cup {task.b}
  /\ UNCHANGED <<listVars, stored, storing, tasks, sem, disk, stores, known, crashes, cleared>>

\* remove the file; without a file eventDataStorageRemoveFailed() only logs
Unlink ==
  /\ wpc = "unlink"
  /\ \/ /\ disk[task.b] = "none"
        /\ wpc' = "idle" /\ task' = None /\ UNCHANGED disk
     \/ /\ disk[task.b] # "none"
        /\ disk' = [disk EXCEPT ![task.b] = "none"]
        /\ wpc' = "removed" /\ UNCHANGED task
  /\ UNCHANGED <<listVars, bookVars, storing, tasks, sem, pastVars>>

\* eventDataStorageRemoved(): the first entry with this hash is dropped
EventRemoved ==
  LET found == {m \in Metas : stored[m] = task.b} IN
  /\ wpc = "removed"
  /\ \/ /\ found = {} /\ UNCHANGED <<stored, bsize, cursize>>
     \/ \E m \in found :
          /\ cursize' = Sub(cursize, bsize[m])
          /\ bsize' = [bsize EXCEPT ![m] = 0]
          /\ stored' = [stored EXCEPT ![m] = None]
  /\ wpc' = "idle" /\ task' = None
  /\ UNCHANGED <<listVars, pending, storing, tasks, sem, disk, pastVars>>

\* the daemon stops at any point and starts again: iterateAll() restores
\* every readable file and removes the others
Restart ==
  LET readable == {b \in Bundles : disk[b] = "full"}
      broken   == {b \in Bundles : disk[b] = "part"}
  IN
  /\ crashes < MaxCrashes /\ crashes' = crashes + 1
  /\ list' = readable /\ index' = readable
  /\ pending' = [b \in Bundles |-> "none"]
  /\ stored' = [m \in Metas |-> IF m \in readable THEN m ELSE None]
  /\ bsize' = [m \in Metas |-> IF m \in readable THEN Size[m] ELSE 0]
  /\ cursize' = SizeOf(readable)
  /\ storing' = {} /\ task' = None /\ wpc' = "idle" /\ sem' = Buffer
  /\ tasks' = Seqs!SetToSeq({[op |-> "remove", b |-> b] : b \in broken})
  /\ failed' = {} /\ cleared' = FALSE
  /\ UNCHANGED <<disk, stores, known>>

-----------------------------------------------------------------------------
WorkerStep ==
  TakeTask \/ OpenFails \/ WriteFile \/ EventStored \/ EventStoreFailed
  \/ Unlink \/ EventRemoved

Next ==
  \/ \E b \in Bundles : \/ Store(b) \/ QueueStore(b)
                        \/ Remove(b) \/ Expire(b) \/ GetBroken(b)
  \/ Clear \/ WorkerStep \/ Restart

Spec == Init /\ [][Next]_vars

\* the DataStorage thread runs; a thread in store() goes on when it can
FairSpec ==
  /\ Spec
  /\ WF_vars(WorkerStep)
  /\ \A b \in Bundles : WF_vars(QueueStore(b))

-----------------------------------------------------------------------------
(* Properties.                                                             *)

TypeOK ==
  /\ list \subseteq Bundles /\ index \subseteq Bundles
  /\ pending \in [Bundles -> {"none", "own", "prev"}]
  /\ stored \in [Metas -> Bundles \cup {None}]
  /\ bsize \in [Metas -> Nat] /\ cursize \in 0..(Modulus - 1)
  /\ storing \subseteq Bundles
  /\ tasks \in Seq(Task) /\ task \in Task \cup {None}
  /\ wpc \in {"idle", "write", "stored", "failed", "unlink", "removed"}
  /\ sem \in 0..Buffer
  /\ disk \in [Bundles -> {"none", "part", "full"}]
  /\ stores \in 0..MaxStores /\ known \subseteq Bundles
  /\ failed \subseteq Bundles /\ crashes \in 0..MaxCrashes /\ cleared \in BOOLEAN

\* bundles that take up memory or disk space
Occupied == {b \in Bundles : pending[b] # "none" \/ disk[b] = "full"}

\* bundles the DataStorage thread has still something to do for
Busy == storing \cup {tasks[i].b : i \in 1..Len(tasks)}
          \cup (IF task = None THEN {} ELSE {task.b})

(* _currentsize is the sum of the sizes of all bundles in memory or on     *)
(* disk whenever no task is being worked on, whatever has failed, as long  *)
(* as clear() has not been called.                                         *)
SizeIsExact == wpc = "idle" /\ ~cleared => cursize = SizeOf(Occupied)

(* Every bundle in the list can be got, from the pending bundles or from   *)
(* its file, also after a restart: the two sources never leave a gap,      *)
(* unless the file could not be written.                                   *)
ListedIsReadable ==
  \A b \in list \ failed : Readable(b)

(* Once everything has been worked on, a bundle that is not in the list    *)
(* has no file: it does not come back with the next restart.               *)
RemovedIsGone ==
  \A b \in Bundles \ (list \cup Busy) : disk[b] = "none"

(* A bundle is refused for lack of space only when there is none.          *)
RefusedOnlyWhenFull ==
  wpc = "idle" /\ MaxSize > 0 =>
    \A b \in Bundles \ Occupied :
      Add(cursize, Size[b]) > MaxSize => SizeOf(Occupied) + Size[b] > MaxSize

(* clear() sets the storage size to zero: an empty storage with nothing    *)
(* left to do has size zero.                                               *)
ClearedIsZero == list = {} /\ Busy = {} => cursize = 0

(* The bundle get() returns names this node as custodian if the storage    *)
(* has accepted its custody.                                               *)
CustodianIsOwn ==
  \A b \in list \cap Custody :
    (IF pending[b] # "none" THEN pending[b] ELSE FileCustodian(b)) = "own"

(* store() returns: the semaphore of the write buffer is always posted     *)
(* again, also when writing fails.                                         *)
StoreReturns == \A b \in Bundles : b \in storing ~> b \notin storing

(* The file of a removed bundle is removed eventually.                     *)
RemovedVanishes ==
  \A b \in Bundles : b \notin list /\ disk[b] # "none" ~> b \in list \/ disk[b] = "none"

\* the storage as its users see it, and what a restart would revive
Content == {b \in list : Readable(b)}
Doomed  == {b \in Bundles \ list : disk[b] = "full"}

Abstract == INSTANCE BundleStorage WITH content <- Content, doomed <- Doomed

(* The storage behaves as a set of bundles within the limit: every call,   *)
(* every step of the DataStorage thread, every failure and every restart   *)
(* is one step of BundleStorage or invisible, until clear() is called.     *)
ImplementsBundleStorage ==
  Abstract!Init /\ [][cleared \/ Abstract!Next]_<<Content, Doomed>>
=============================================================================
