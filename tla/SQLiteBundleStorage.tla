------------------------ MODULE SQLiteBundleStorage ------------------------
(***************************************************************************)
(* The bundle storage in a SQLite database.  A bundle is a row of the      *)
(* table bundles, each of its blocks a row of the table blocks and a file. *)
(* Every statement has a lock of its own; all threads share one connection *)
(* of the database, so they see each other's uncommitted rows and use the  *)
(* same transaction.  A thread of the storage works through a queue of     *)
(* tasks.  The daemon may stop and start again at any time.                *)
(***************************************************************************)
EXTENDS StorageConstants

Seqs == INSTANCE SequencesExt

VARIABLES
  rows,     \* table bundles: the bundle, the store() it is from, the custodian
  blks,     \* table blocks, each with the name of its file
  tx,       \* the committed tables while a transaction is open, or None
  files,    \* the block files
  deletion, \* _deletion_list
  tasks,    \* _tasks
  task,     \* the task being run
  wpc,      \* where the thread of the storage is
  seen,     \* what update_expire_time() has read
  next,     \* _next_expiration
  st,       \* the store() that holds the lock of BUNDLE_STORE, or None
  idle,     \* TaskIdle::_idle
  now, stores, crashes

tables == <<rows, blks, tx>>
worker == <<task, wpc, seen>>
past   == <<now, stores, crashes>>
vars == <<tables, files, deletion, tasks, worker, next, st, idle, past>>

File == [b : Bundles, n : 1..MaxStores, i : Nat \ {0}]
Row  == [b : Bundles, n : 1..MaxStores, own : BOOLEAN]
Task == [op : {"remove"}, b : Bundles] \cup [op : {"expire"}, at : 0..MaxTime]
          \cup [op : {"idle"}]

RowsOf(b) == {r \in rows : r.b = b}
BlksOf(b) == {f \in blks : f.b = b}

\* the tables as a restart finds them
Committed == IF tx = None THEN [rows |-> rows, blks |-> blks] ELSE tx

\* EXPIRE_NEXT_TIMESTAMP, 0 when there is no bundle
Earliest(R) == IF R = {} THEN 0 ELSE Min({TTL[r.b] : r \in R})

Init ==
  /\ rows = {} /\ blks = {} /\ tx = None /\ files = {} /\ deletion = {}
  /\ tasks = <<>> /\ task = None /\ wpc = "idle" /\ seen = 0 /\ next = 0
  /\ st = None /\ idle = FALSE
  /\ now = 0 /\ stores = 0 /\ crashes = 0

-----------------------------------------------------------------------------
(* store(), under the lock of BUNDLE_STORE.                                *)

\* store() is working on the bundle
Storing(b) == st # None /\ st.b = b

\* what a caller of store() sees to
MayStore(b) ==
  /\ st = None /\ stores < MaxStores /\ now < TTL[b]
  /\ Again \/ (RowsOf(b) = {} /\ b \notin deletion)

\* BEGIN and INSERT.  The unique index refuses a fragment that is there; it
\* does not hold for whole bundles, whose fragmentoffset is NULL
Store(b) ==
  LET refused == b \in Fragments /\ RowsOf(b) # {} IN
  /\ MayStore(b)
  /\ stores' = stores + 1
  /\ tx' = Committed
  /\ rows' = IF refused THEN rows
             ELSE rows \cup {[b |-> b, n |-> stores', own |-> FALSE]}
  /\ st' = [b |-> b, n |-> stores', i |-> 1,
            pc |-> IF refused THEN "end" ELSE "blocks"]
  /\ UNCHANGED <<blks, files, deletion, tasks, worker, next, idle, now, crashes>>

\* INSERT fails for another reason: ROLLBACK, and store() throws
StoreFails(b) ==
  /\ MayStore(b)
  /\ stores' = stores + 1
  /\ rows' = Committed.rows /\ blks' = Committed.blks /\ tx' = None
  /\ UNCHANGED <<files, deletion, tasks, worker, next, st, idle, now, crashes>>

\* store_blocks(): one block, its file and its row.  The index blocks_bid
\* admits one block of a fragment only; the exception leaves the transaction
\* open
StoreBlock ==
  LET f == [b |-> st.b, n |-> st.n, i |-> st.i]
      refused == st.b \in Fragments /\ BlksOf(st.b) # {}
  IN
  /\ st # None /\ st.pc = "blocks"
  /\ files' = files \cup {f}
  /\ blks' = IF refused THEN blks ELSE blks \cup {f}
  /\ st' = IF refused THEN None
           ELSE IF st.i < Blocks[st.b] THEN [st EXCEPT !.i = @ + 1]
           ELSE [st EXCEPT !.pc = "end"]
  /\ UNCHANGED <<rows, tx, deletion, tasks, worker, next, idle, past>>

\* END TRANSACTION, for the statements of all threads
StoreEnd ==
  /\ st # None /\ st.pc = "end"
  /\ tx' = None
  /\ st' = [st EXCEPT !.pc = "time"]
  /\ UNCHANGED <<rows, blks, files, deletion, tasks, worker, next, idle, past>>

\* new_expire_time(), and update_custodian() if custody is accepted
StoreReturn ==
  /\ st # None /\ st.pc = "time"
  /\ next' = IF next = 0 \/ TTL[st.b] < next THEN TTL[st.b] ELSE next
  /\ rows' = IF st.b \notin Custody THEN rows
             ELSE (rows \ RowsOf(st.b)) \cup {[r EXCEPT !.own = TRUE] : r \in RowsOf(st.b)}
  /\ st' = None
  /\ UNCHANGED <<blks, tx, files, deletion, tasks, worker, idle, past>>

-----------------------------------------------------------------------------
(* Other users of the storage and events.                                  *)

\* remove()
Remove(b) ==
  /\ RowsOf(b) # {} /\ b \notin deletion
  /\ Overlap \/ ~Storing(b)
  /\ deletion' = deletion \cup {b}
  /\ tasks' = Append(tasks, [op |-> "remove", b |-> b])
  /\ UNCHANGED <<tables, files, worker, next, st, idle, past>>

\* releaseCustody()
ReleaseCustody(b) ==
  /\ \E r \in RowsOf(b) : r.own
  /\ rows' = (rows \ RowsOf(b)) \cup {[r EXCEPT !.own = FALSE] : r \in RowsOf(b)}
  /\ UNCHANGED <<blks, tx, files, deletion, tasks, worker, next, st, idle, past>>

\* clear(), by a caller who is alone: VACUUM fails in an open transaction
Clear ==
  /\ st = None /\ rows # {} /\ wpc = "idle" /\ tasks = <<>>
  /\ rows' = {} /\ blks' = {}
  /\ \/ tx = None /\ files' = {} /\ next' = 0
     \/ tx # None /\ UNCHANGED <<files, next>>
  /\ UNCHANGED <<tx, deletion, tasks, worker, st, idle, past>>

\* TIME_SECOND_TICK
Tick ==
  /\ now < MaxTime
  /\ now' = now + 1
  /\ tasks' = Append(tasks, [op |-> "expire", at |-> now'])
  /\ UNCHANGED <<tables, files, deletion, worker, next, st, idle, stores, crashes>>

\* GLOBAL_IDLE, at most one task at a time; GLOBAL_BUSY
GoIdle ==
  /\ ~idle /\ task # [op |-> "idle"] /\ ~Seqs!Contains(tasks, [op |-> "idle"])
  /\ idle' = TRUE
  /\ tasks' = Append(tasks, [op |-> "idle"])
  /\ UNCHANGED <<tables, files, deletion, worker, next, st, past>>

GoBusy ==
  /\ idle /\ idle' = FALSE
  /\ UNCHANGED <<tables, files, deletion, tasks, worker, next, st, past>>

-----------------------------------------------------------------------------
(* The thread of the storage.                                              *)

\* Seeded error: the bundle leaves the deletion list when its task begins.
TakeTaskForgets ==
  LET t == Head(tasks) IN
  /\ wpc = "idle" /\ tasks # <<>>
  /\ tasks' = Tail(tasks)
  /\ \/ /\ t.op = "expire" /\ (t.at < next \/ next = 0)
        /\ UNCHANGED <<task, wpc, deletion>>
     \/ /\ t.op = "expire" => ~(t.at < next \/ next = 0)
        /\ task' = t /\ wpc' = IF t.op = "idle" THEN "vacuum" ELSE "files"
        /\ deletion' = IF t.op = "remove" THEN deletion \ {t.b} ELSE deletion
  /\ UNCHANGED <<tables, files, seen, next, st, idle, past>>

\* getnpop(); TaskExpire returns at once before the next expiration
TakeTask ==
  LET t == Head(tasks) IN
  /\ wpc = "idle" /\ tasks # <<>>
  /\ tasks' = Tail(tasks)
  /\ \/ /\ t.op = "expire" /\ (t.at < next \/ next = 0)
        /\ UNCHANGED <<task, wpc>>
     \/ /\ t.op = "expire" => ~(t.at < next \/ next = 0)
        /\ task' = t /\ wpc' = IF t.op = "idle" THEN "vacuum" ELSE "files"
  /\ UNCHANGED <<tables, files, deletion, seen, next, st, idle, past>>

\* the rows the task deletes
Selected ==
  {r \in rows : IF task.op = "remove" THEN r.b = task.b ELSE TTL[r.b] <= task.at}

\* its query for block files
Chosen(f) == IF task.op = "remove" THEN f.b = task.b ELSE \E r \in Selected : r.b = f.b

\* remove the next block file of TaskRemove or TaskExpire
UnlinkBlock ==
  /\ wpc = "files"
  /\ \E f \in files \cap blks :
       Chosen(f) /\ files' = files \ {f}
  /\ UNCHANGED <<tables, deletion, tasks, worker, next, st, idle, past>>

\* BUNDLE_DELETE, FRAGMENT_DELETE or EXPIRE_BUNDLE_DELETE, with the trigger
\* that deletes the blocks
DeleteRows ==
  /\ wpc = "files"
  /\ \A f \in files \cap blks : ~Chosen(f)
  /\ rows' = rows \ Selected
  /\ blks' = {f \in blks : \A r \in Selected : r.b # f.b}
  /\ wpc' = "min"
  /\ UNCHANGED <<tx, files, deletion, tasks, task, seen, next, st, idle, past>>

\* update_expire_time(): the query, and the assignment under another lock
ReadExpireTime ==
  /\ wpc = "min"
  /\ seen' = Earliest(rows) /\ wpc' = "set"
  /\ UNCHANGED <<tables, files, deletion, tasks, task, next, st, idle, past>>

\* Seeded error: the task ends without remove_deletion().
SetExpireTimeEnds ==
  /\ wpc = "set"
  /\ next' = seen /\ seen' = 0
  /\ wpc' = "idle" /\ task' = None
  /\ UNCHANGED <<tables, files, deletion, tasks, st, idle, past>>

SetExpireTime ==
  /\ wpc = "set"
  /\ next' = seen /\ seen' = 0
  /\ IF task.op = "remove" THEN wpc' = "forget" /\ task' = task
                           ELSE wpc' = "idle" /\ task' = None
  /\ UNCHANGED <<tables, files, deletion, tasks, st, idle, past>>

\* remove_deletion()
ForgetDeletion ==
  /\ wpc = "forget"
  /\ deletion' = deletion \ {task.b}
  /\ wpc' = "idle" /\ task' = None
  /\ UNCHANGED <<tables, files, tasks, seen, next, st, idle, past>>

\* TaskIdle: VACUUM each second until the daemon is busy
EndIdle ==
  /\ wpc = "vacuum" /\ ~idle
  /\ wpc' = "idle" /\ task' = None
  /\ UNCHANGED <<tables, files, deletion, tasks, seen, next, st, idle, past>>

\* Seeded error: a bundle with a lost file is kept.
RestartUnchecked ==
  /\ crashes < MaxCrashes /\ crashes' = crashes + 1
  /\ rows' = Committed.rows /\ blks' = Committed.blks /\ tx' = None
  /\ files' = files \cap blks'
  /\ deletion' = {} /\ tasks' = <<>>
  /\ next' = Earliest(rows')
  /\ task' = None /\ wpc' = "idle" /\ seen' = 0 /\ st' = None /\ idle' = FALSE
  /\ UNCHANGED <<now, stores>>

\* the daemon stops, an open transaction is rolled back; componentUp():
\* check_bundles() removes bundles with a lost file and files without a row
Restart ==
  LET corrupt == {r.b : r \in {x \in Committed.rows :
                   \E f \in Committed.blks : f.b = x.b /\ f \notin files}}
  IN
  /\ crashes < MaxCrashes /\ crashes' = crashes + 1
  /\ rows' = Committed.rows /\ blks' = Committed.blks /\ tx' = None
  /\ files' = files \cap blks'
  /\ deletion' = corrupt
  /\ tasks' = Seqs!SetToSeq({[op |-> "remove", b |-> b] : b \in corrupt})
  /\ next' = Earliest(rows')
  /\ task' = None /\ wpc' = "idle" /\ seen' = 0 /\ st' = None /\ idle' = FALSE
  /\ UNCHANGED <<now, stores>>

-----------------------------------------------------------------------------
StoreStep == StoreBlock \/ StoreEnd \/ StoreReturn

WorkerStep ==
  \/ TakeTask \/ UnlinkBlock \/ DeleteRows \/ ReadExpireTime \/ SetExpireTime
  \/ ForgetDeletion \/ EndIdle

Next ==
  \/ \E b \in Bundles : Store(b) \/ StoreFails(b) \/ Remove(b) \/ ReleaseCustody(b)
  \/ StoreStep \/ WorkerStep
  \/ Clear \/ Tick \/ GoIdle \/ GoBusy \/ Restart

Spec == Init /\ [][Next]_vars

\* the thread of the storage and a thread inside store() go on
FairSpec == Spec /\ WF_vars(WorkerStep) /\ WF_vars(StoreStep)

-----------------------------------------------------------------------------
(* Properties.                                                             *)

TypeOK ==
  /\ rows \subseteq Row /\ blks \subseteq File /\ files \subseteq File
  /\ tx = None \/ tx \in [rows : SUBSET Row, blks : SUBSET File]
  /\ deletion \subseteq Bundles
  /\ tasks \in Seq(Task) /\ task \in Task \cup {None}
  /\ wpc \in {"idle", "files", "min", "set", "forget", "vacuum"}
  /\ seen \in Nat /\ next \in Nat /\ idle \in BOOLEAN
  /\ now \in 0..MaxTime /\ stores \in 0..MaxStores /\ crashes \in 0..MaxCrashes

\* get() returns the bundle with the blocks it was stored with
Whole(b, R, B) ==
  /\ \E r \in R : r.b = b
  /\ {f.i : f \in {g \in B : g.b = b}} = 1..Blocks[b]
  /\ Cardinality({g \in B : g.b = b}) = Blocks[b]
  /\ {g \in B : g.b = b} \subseteq files

Readable(b) == b \notin deletion /\ Whole(b, rows, blks)

\* bundles a query with a filter returns
Listed == {b \in Bundles \ deletion : RowsOf(b) # {}}

\* store() or TaskExpire is working on the bundle
InWork(b) ==
  \/ Storing(b)
  \/ wpc = "files" /\ task.op = "expire" /\ TTL[b] <= task.at

(* Every bundle a query returns can be got with all its blocks, also after *)
(* a restart in the middle of an operation, unless store() or TaskExpire   *)
(* is working on it at the time.                                           *)
ListedIsReadable == \A b \in Listed : InWork(b) \/ Readable(b)

(* The same without the exception: a transaction does not hide a bundle    *)
(* that is being stored from the other threads.                            *)
ListedIsWhole == \A b \in Listed : Readable(b)

(* Whenever nothing is going on, _next_expiration is not later than the    *)
(* expiration of any bundle.                                               *)
NextIsEarliest ==
  st = None /\ wpc = "idle" /\ rows # {} => next # 0 /\ next <= Earliest(rows)

(* A bundle whose store() has returned survives a restart.                 *)
StoredSurvives ==
  [][crashes' # crashes =>
       \A b \in Bundles : Readable(b) /\ ~InWork(b) => Readable(b)']_vars

(* A removed bundle is off the deletion list at some time, then its rows   *)
(* and files are gone, unless the daemon is idle.                          *)
RemovedVanishes ==
  \A b \in Bundles : b \in deletion ~> b \notin deletion \/ idle

(* A bundle that is neither in the database nor being stored has no file.  *)
RemovedIsGone ==
  \A f \in files : RowsOf(f.b) # {} \/ Storing(f.b)

(* store() returns.                                                        *)
StoreReturns == st # None ~> st = None

\* the storage as its users see it, and what a restart would revive
Content == {b \in Bundles : Readable(b)}
Doomed  == {b \in Bundles \ Content : Whole(b, Committed.rows, Committed.blks)}

Abstract == INSTANCE BundleStorage
              WITH content <- Content, doomed <- Doomed, MaxSize <- 0, Size <- TTL

(* The storage behaves as a set of bundles; it has no limit of size.       *)
ImplementsBundleStorage == Abstract!Spec
=============================================================================
