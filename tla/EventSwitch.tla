---------------------------- MODULE EventSwitch ----------------------------
(***************************************************************************)
(* The event switch of the daemon: threads raise events, every raised      *)
(* event becomes one task per bound receiver in one of three queues, and   *)
(* the main loop together with the configured worker threads takes tasks   *)
(* from the queues and calls the receivers.  Receivers bind and unbind     *)
(* while the switch runs; unbinding pauses the workers and purges the      *)
(* queue.  A GLOBAL_SHUTDOWN event ends the loop.                          *)
(*                                                                         *)
(* Every event object is raised once, by a thread of its own.  The two     *)
(* condition variables are modelled with their sleepers: signal() wakes    *)
(* one of them, signal(true) all, abort() makes them leave by exception.   *)
(***************************************************************************)
EXTENDS Queues

CONSTANTS
  Events,     \* event objects, each raised at most once
  Components, \* receivers bound before the loop starts, in this order
  Clients,    \* receivers that bind and unbind while the switch runs
  Names,      \* event names (classes)
  NameOf,     \* the name of each event
  Prio,       \* "prio", "normal" or "low": the queue of each event
  Blocking,   \* events raised with block_until_processed
  Shutdown,   \* events that are GLOBAL_SHUTDOWN
  Interest,   \* the names each receiver binds to, in this order
  Workers,    \* the threads loop() starts
  Main,       \* the thread that runs loop()
  None        \* no task, nobody

Receivers == {Components[i] : i \in 1..Len(Components)} \cup Clients

ASSUME SwitchAssumption ==
  /\ NameOf \in [Events -> Names]
  /\ Prio \in [Events -> {"prio", "normal", "low"}]
  /\ Blocking \subseteq Events /\ Shutdown \subseteq Events
  /\ Interest \in [Receivers -> Seq(Names)]
  /\ \A r \in Receivers : Interest[r] # <<>>
  /\ \A r \in Receivers : \A i, j \in 1..Len(Interest[r]) : Interest[r][i] = Interest[r][j] => i = j
  /\ Components \in Seq(Receivers)
  /\ \A i, j \in 1..Len(Components) : Components[i] = Components[j] => i = j
  /\ \A i \in 1..Len(Components) : Components[i] \notin Clients
  /\ IsFiniteSet(Workers) /\ Main \notin Workers
  /\ None \notin Events /\ None \notin [ev : Events, rcv : Receivers]

VARIABLES
  list,       \* _list: the bound receivers of each name
  rlock,      \* the raiser that holds _receiverlock, or None
  running,    \* _running
  aborted,    \* _queue_cond has been aborted
  queue,      \* _prio_queue, _queue and _low_queue
  active,     \* _active_worker
  pause,      \* _pause
  wpc, wtask, \* where each worker is, and its task
  epc,        \* where the raise of each event is
  todo,       \* receivers it has still to push a task for
  ref,        \* Event::_ref_count
  processed,  \* Event::_processed
  rpc, ridx,  \* where each receiver's bind and unbind is, and its name
  target, called, purged, deleted  \* history

switchVars == <<running, aborted, queue>>
activeVars == <<active, pause>>
workVars   == <<wpc, wtask>>
eventVars  == <<epc, todo, ref, processed, target, deleted>>
bindVars   == <<list, rpc, ridx>>

vars == <<rlock, switchVars, activeVars, workVars, eventVars, bindVars,
          called, purged>>

Task    == [ev : Events, rcv : Receivers]
Threads == Workers \cup {Main}
Levels  == {"prio", "normal", "low"}

Entries(s) == {s[i] : i \in 1..Len(s)}

Init ==
  /\ list = [n \in Names |-> Within(Components, {r \in Receivers : n \in Entries(Interest[r])})]
  /\ rlock = None
  /\ running = TRUE /\ aborted = FALSE
  /\ queue = [l \in Levels |-> <<>>]
  /\ active = 0 /\ pause = FALSE
  /\ wpc = [w \in Threads |-> IF w = Main THEN "loop" ELSE "scan"]
  /\ wtask = [w \in Threads |-> None]
  /\ epc = [e \in Events |-> "new"]
  /\ todo = [e \in Events |-> <<>>]
  /\ ref = [e \in Events |-> 0]
  /\ processed = [e \in Events |-> FALSE]
  /\ rpc = [r \in Receivers |-> IF r \in Clients THEN "bind" ELSE "bound"]
  /\ ridx = [r \in Receivers |-> 1]
  /\ target = [e \in Events |-> {}]
  /\ called = <<>> /\ purged = {} /\ deleted = {}

-----------------------------------------------------------------------------
(* The sleepers of the two condition variables.                            *)

QueueSleepers  == {w \in Threads : wpc[w] = "sleep"}
WorkersOnHold  == {w \in Threads : wpc[w] = "hold"}
PausesWaiting  == {r \in Receivers : rpc[r] = "wait"}

\* _queue_cond.signal(): at most one sleeper looks at the queues again
SignalQueue ==
  IF QueueSleepers = {} THEN wpc' = wpc
  ELSE \E w \in QueueSleepers : wpc' = [wpc EXCEPT ![w] = "scan"]

\* wpc after _active_cond.signal(true) and the step of w to pc
WakeHeld(w, pc) ==
  [x \in Threads |-> IF x = w THEN pc
                     ELSE IF wpc[x] = "hold" THEN "recheck" ELSE wpc[x]]

\* rpc after _active_cond.signal(true)
WakePauses == [r \in Receivers |-> IF rpc[r] = "wait" THEN "paused" ELSE rpc[r]]

-----------------------------------------------------------------------------
(* Workers: process() in a loop.                                           *)

\* where a thread goes after process(): Main tests the loop condition
Again(w) == IF w = Main THEN "loop" ELSE "scan"

\* loop(): while (_running || !_queue.empty())
LoopTest ==
  /\ wpc[Main] = "loop"
  /\ wpc' = [wpc EXCEPT ![Main] =
               IF running \/ queue["normal"] # <<>> THEN "scan" ELSE "join"]
  /\ UNCHANGED <<rlock, switchVars, activeVars, wtask, eventVars, bindVars,
                 called, purged>>

\* join the workers
LoopEnds ==
  /\ wpc[Main] = "join"
  /\ \A w \in Workers : wpc[w] = "exit"
  /\ wpc' = [wpc EXCEPT ![Main] = "exit"]
  /\ UNCHANGED <<rlock, switchVars, activeVars, wtask, eventVars, bindVars,
                 called, purged>>

\* an aborted wait() throws: a worker ends, loop() goes on to the joins
Thrown(w) == IF w = Main THEN "join" ELSE "exit"

\* nothing to do: wait on _queue_cond
WaitForTask(w) ==
  /\ wpc[w] = "scan"
  /\ \A l \in Levels : queue[l] = <<>>
  /\ wpc' = [wpc EXCEPT ![w] = IF aborted THEN Thrown(w) ELSE "sleep"]
  /\ UNCHANGED <<rlock, switchVars, activeVars, wtask, eventVars, bindVars,
                 called, purged>>

\* the queue process() takes its task from
Level ==
  IF queue["prio"] # <<>> THEN "prio"
  ELSE IF queue["normal"] # <<>> THEN "normal" ELSE "low"

\* pop a task; both conditions are signalled to everybody
TakeTask(w) ==
  /\ wpc[w] = "scan"
  /\ queue[Level] # <<>>
  /\ wtask' = [wtask EXCEPT ![w] = Head(queue[Level])]
  /\ queue' = [queue EXCEPT ![Level] = Tail(@)]
  /\ active' = active + 1
  /\ wpc' = [x \in Threads |->
               IF x = w THEN "call"
               ELSE IF wpc[x] = "sleep" THEN "scan"
               ELSE IF wpc[x] = "hold" THEN "recheck" ELSE wpc[x]]
  /\ rpc' = WakePauses
  /\ UNCHANGED <<list, rlock, running, aborted, pause, eventVars, ridx, called, purged>>

\* t->receiver->raiseEvent(t->event); exceptions are swallowed
CallReceiver(w) ==
  /\ wpc[w] = "call"
  /\ called' = Append(called, wtask[w])
  /\ wpc' = [wpc EXCEPT ![w] = "delete"]
  /\ UNCHANGED <<rlock, switchVars, activeVars, wtask, eventVars, bindVars, purged>>

\* Seeded error: the count is compared before it is decremented.
DropReferenceLate(e) ==
  /\ ref' = [ref EXCEPT ![e] = @ - 1]
  /\ processed' = [processed EXCEPT ![e] = ref[e] = 0]
  /\ deleted' = IF ref[e] = 0 /\ e \notin Blocking THEN deleted \cup {e} ELSE deleted

\* the event after decrement_ref_count() and the destructor of the task
DropReference(e) ==
  /\ ref' = [ref EXCEPT ![e] = @ - 1]
  /\ processed' = [processed EXCEPT ![e] = ref[e] = 1]
  /\ deleted' = IF ref[e] = 1 /\ e \notin Blocking THEN deleted \cup {e} ELSE deleted

\* delete t
DeleteTask(w) ==
  /\ wpc[w] = "delete"
  /\ DropReference(wtask[w].ev)
  /\ wtask' = [wtask EXCEPT ![w] = None]
  /\ wpc' = [wpc EXCEPT ![w] = "done"]
  /\ UNCHANGED <<rlock, switchVars, activeVars, epc, todo, target, bindVars,
                 called, purged>>

\* _active_worker--, and hold while the switch is paused
FinishTask(w) ==
  /\ wpc[w] = "done"
  /\ active' = active - 1
  /\ wpc' = WakeHeld(w, IF pause THEN "hold" ELSE Again(w))
  /\ rpc' = WakePauses
  /\ UNCHANGED <<list, rlock, switchVars, pause, wtask, eventVars, ridx, called, purged>>

\* while (_pause) _active_cond.wait()
Resume(w) ==
  /\ wpc[w] = "recheck"
  /\ wpc' = [wpc EXCEPT ![w] = IF pause THEN "hold" ELSE Again(w)]
  /\ UNCHANGED <<rlock, switchVars, activeVars, wtask, eventVars, bindVars,
                 called, purged>>

-----------------------------------------------------------------------------
(* Raising an event: Event::raiseEvent() and EventSwitch::raiseEvent().    *)

\* where the raising thread goes after EventSwitch::raiseEvent()
AfterRaise(e) == IF e \in Blocking THEN "blocked" ELSE "returned"

\* no event is accepted once the switch is going down
RaiseEvent(e) ==
  /\ epc[e] = "new"
  /\ epc' = [epc EXCEPT ![e] = IF ~running THEN AfterRaise(e)
                               ELSE IF e \in Shutdown THEN "stop" ELSE "find"]
  /\ UNCHANGED <<rlock, switchVars, activeVars, workVars, todo, ref, processed,
                 target, deleted, bindVars, called, purged>>

\* Seeded error: the waiting workers are not aborted.
StopRunningSilently(e) ==
  /\ epc[e] = "stop"
  /\ running' = FALSE
  /\ epc' = [epc EXCEPT ![e] = "find"]
  /\ UNCHANGED <<rlock, aborted, queue, activeVars, workVars, todo, ref, processed,
                 target, deleted, bindVars, called, purged>>

\* GLOBAL_SHUTDOWN: _running = false, _queue_cond.abort()
StopRunning(e) ==
  /\ epc[e] = "stop"
  /\ running' = FALSE /\ aborted' = TRUE
  /\ wpc' = [w \in Threads |-> IF wpc[w] = "sleep" THEN Thrown(w) ELSE wpc[w]]
  /\ epc' = [epc EXCEPT ![e] = "find"]
  /\ UNCHANGED <<rlock, queue, activeVars, wtask, todo, ref, processed, target,
                 deleted, bindVars, called, purged>>

\* Seeded error: _receiverlock is released after the list has been copied.
FindReceiversUnlocked(e) ==
  LET receivers == list[NameOf[e]] IN
  /\ epc[e] = "find" /\ rlock = None
  /\ \/ /\ receivers = <<>>
        /\ epc' = [epc EXCEPT ![e] = AfterRaise(e)]
        /\ UNCHANGED <<rlock, todo, ref, target>>
     \/ /\ receivers # <<>>
        /\ rlock' = None
        /\ todo' = [todo EXCEPT ![e] = receivers]
        /\ ref' = [ref EXCEPT ![e] = Len(receivers)]
        /\ target' = [target EXCEPT ![e] = {receivers[i] : i \in 1..Len(receivers)}]
        /\ epc' = [epc EXCEPT ![e] = "push"]
  /\ UNCHANGED <<switchVars, activeVars, workVars, processed, deleted, bindVars,
                 called, purged>>

\* getReceivers() and set_ref_count() under _receiverlock
FindReceivers(e) ==
  LET receivers == list[NameOf[e]] IN
  /\ epc[e] = "find" /\ rlock = None
  /\ \/ /\ receivers = <<>>
        /\ epc' = [epc EXCEPT ![e] = AfterRaise(e)]
        /\ UNCHANGED <<rlock, todo, ref, target>>
     \/ /\ receivers # <<>>
        /\ rlock' = e
        /\ todo' = [todo EXCEPT ![e] = receivers]
        /\ ref' = [ref EXCEPT ![e] = Len(receivers)]
        /\ target' = [target EXCEPT ![e] = {receivers[i] : i \in 1..Len(receivers)}]
        /\ epc' = [epc EXCEPT ![e] = "push"]
  /\ UNCHANGED <<switchVars, activeVars, workVars, processed, deleted, bindVars,
                 called, purged>>

\* push one task and signal one waiting worker
PushTask(e) ==
  /\ epc[e] = "push"
  /\ queue' = [queue EXCEPT ![Prio[e]] = Append(@, [ev |-> e, rcv |-> Head(todo[e])])]
  /\ todo' = [todo EXCEPT ![e] = Tail(@)]
  /\ SignalQueue
  /\ \/ Len(todo[e]) > 1 /\ UNCHANGED <<epc, rlock>>
     \/ /\ Len(todo[e]) = 1
        /\ epc' = [epc EXCEPT ![e] = AfterRaise(e)]
        /\ rlock' = None
  /\ UNCHANGED <<running, aborted, activeVars, wtask, ref, processed, target,
                 deleted, bindVars, called, purged>>

\* while (!evt->_processed) wait; then delete the event here
BlockingReturns(e) ==
  /\ epc[e] = "blocked" /\ processed[e]
  /\ epc' = [epc EXCEPT ![e] = "returned"]
  /\ deleted' = deleted \cup {e}
  /\ UNCHANGED <<rlock, switchVars, activeVars, workVars, todo, ref, processed,
                 target, bindVars, called, purged>>

-----------------------------------------------------------------------------
(* Binding and unbinding receivers.                                        *)

Remove(s, r) ==
  LET at == {i \in 1..Len(s) : s[i] = r}
      first == CHOOSE i \in at : \A j \in at : i <= j
  IN  IF at = {} THEN s
      ELSE SubSeq(s, 1, first - 1) \o SubSeq(s, first + 1, Len(s))

\* registerEventReceiver(), for the next name of the receiver
Bind(r) ==
  /\ rpc[r] = "bind" /\ rlock = None
  /\ LET more == ridx[r] < Len(Interest[r]) IN
     /\ list' = [list EXCEPT ![Interest[r][ridx[r]]] = Append(@, r)]
     /\ ridx' = [ridx EXCEPT ![r] = IF more THEN @ + 1 ELSE 1]
     /\ rpc' = [rpc EXCEPT ![r] = IF more THEN "bind" ELSE "bound"]
  /\ UNCHANGED <<rlock, switchVars, activeVars, workVars, eventVars, called, purged>>

\* unregister(): remove the receiver from the list
RemoveReceiver(r) ==
  /\ rpc[r] = "bound" /\ r \in Clients /\ rlock = None
  /\ list' = [list EXCEPT ![Interest[r][ridx[r]]] = Remove(@, r)]
  /\ rpc' = [rpc EXCEPT ![r] = "pause"]
  /\ UNCHANGED <<rlock, switchVars, activeVars, workVars, eventVars, ridx, called, purged>>

\* pause(): wait until no worker is active
Pause(r) ==
  /\ rpc[r] = "pause"
  /\ pause' = TRUE
  /\ rpc' = [rpc EXCEPT ![r] = IF active # 0 THEN "wait" ELSE "purge"]
  /\ UNCHANGED <<rlock, switchVars, active, workVars, eventVars, list, ridx, called, purged>>

\* the wait of pause() has been signalled
PauseWoken(r) ==
  /\ rpc[r] = "paused"
  /\ rpc' = [rpc EXCEPT ![r] = IF active # 0 THEN "wait" ELSE "purge"]
  /\ UNCHANGED <<rlock, switchVars, activeVars, workVars, eventVars, list, ridx, called, purged>>

\* remove all elements with this receiver from _queue
Purge(r) ==
  /\ rpc[r] = "purge"
  /\ queue' = [queue EXCEPT !["normal"] = Within(@, {t \in Task : t.rcv # r})]
  /\ purged' = purged \cup {t \in Entries(queue["normal"]) : t.rcv = r}
  /\ rpc' = [rpc EXCEPT ![r] = "unpause"]
  /\ UNCHANGED <<rlock, running, aborted, activeVars, workVars, eventVars, list, ridx, called>>

\* the receiver goes on with its next name, or has unbound all of them
NextUnbind(r) ==
  [rpc EXCEPT ![r] = IF ridx[r] < Len(Interest[r]) THEN "bound" ELSE "gone"]

\* unpause(): one sleeper of _active_cond is signalled
Unpause(r) ==
  /\ rpc[r] = "unpause"
  /\ pause' = FALSE
  /\ ridx' = [ridx EXCEPT ![r] = IF @ < Len(Interest[r]) THEN @ + 1 ELSE @]
  /\ \/ /\ WorkersOnHold \cup PausesWaiting = {}
        /\ rpc' = NextUnbind(r) /\ wpc' = wpc
     \/ \E w \in WorkersOnHold :
          wpc' = [wpc EXCEPT ![w] = "recheck"] /\ rpc' = NextUnbind(r)
     \/ \E x \in PausesWaiting :
          wpc' = wpc /\ rpc' = [NextUnbind(r) EXCEPT ![x] = "paused"]
  /\ UNCHANGED <<rlock, switchVars, active, wtask, eventVars, list, called, purged>>

-----------------------------------------------------------------------------
ThreadStep(w) ==
  \/ WaitForTask(w) \/ TakeTask(w) \/ CallReceiver(w)
  \/ DeleteTask(w) \/ FinishTask(w) \/ Resume(w)

RaiserStep(e) ==
  \/ StopRunning(e) \/ FindReceivers(e) \/ PushTask(e) \/ BlockingReturns(e)

UnbindStep(r) ==
  \/ Pause(r) \/ PauseWoken(r) \/ Purge(r) \/ Unpause(r)

Next ==
  \/ LoopTest \/ LoopEnds
  \/ \E w \in Threads : ThreadStep(w)
  \/ \E e \in Events : RaiseEvent(e) \/ RaiserStep(e)
  \/ \E r \in Receivers : Bind(r) \/ RemoveReceiver(r) \/ UnbindStep(r)

Spec == Init /\ [][Next]_vars

\* every thread that can go on eventually does, and handlers return; nobody
\* has to raise an event, to bind or to unbind
FairSpec ==
  /\ Spec
  /\ WF_vars(LoopTest) /\ WF_vars(LoopEnds)
  /\ \A w \in Threads : WF_vars(ThreadStep(w))
  /\ \A e \in Events : WF_vars(RaiserStep(e))
  /\ \A r \in Receivers : WF_vars(UnbindStep(r))

-----------------------------------------------------------------------------
(* Properties.                                                             *)

TypeOK ==
  /\ list \in [Names -> Seq(Receivers)]
  /\ rlock \in Events \cup {None}
  /\ running \in BOOLEAN /\ aborted \in BOOLEAN /\ pause \in BOOLEAN
  /\ queue \in [Levels -> Seq(Task)]
  /\ active \in 0..Cardinality(Threads)
  /\ wpc \in [Threads -> {"loop", "scan", "sleep", "call", "delete", "done",
                          "hold", "recheck", "join", "exit"}]
  /\ wtask \in [Threads -> Task \cup {None}]
  /\ epc \in [Events -> {"new", "stop", "find", "push", "blocked", "returned"}]
  /\ todo \in [Events -> Seq(Receivers)]
  /\ ref \in [Events -> Nat] /\ processed \in [Events -> BOOLEAN]
  /\ rpc \in [Receivers -> {"bind", "bound", "pause", "wait", "paused", "purge",
                            "unpause", "gone"}]
  /\ ridx \in [Receivers -> Nat]
  /\ target \in [Events -> SUBSET Receivers]
  /\ called \in Seq(Task) /\ purged \subseteq Task /\ deleted \subseteq Events

Queued      == UNION {Entries(queue[l]) : l \in Levels}
InHandling  == {wtask[w] : w \in Threads} \ {None}
NotPushed   == UNION {{[ev |-> e, rcv |-> r] : r \in Entries(todo[e])} : e \in Events}

\* the tasks of e that still have to drop their reference
Outstanding(e) == {t \in Queued \cup InHandling \cup NotPushed : t.ev = e}

(* An event lives as long as a task refers to it: a worker never calls a   *)
(* receiver with an event that another worker, or the thread that raised   *)
(* it, has deleted.                                                        *)
ReferencedIsAlive ==
  \A e \in deleted : Outstanding(e) = {}

(* Every event reaches each receiver that was bound when it was raised,    *)
(* once, unless the receiver has unbound since.                            *)
DeliveredToEach ==
  /\ \A e \in Events : \A r \in target[e] :
       LET t == [ev |-> e, rcv |-> r] IN
       t \in Queued \cup InHandling \cup NotPushed \cup Entries(called) \cup purged
  /\ \A i, j \in 1..Len(called) : called[i] = called[j] => i = j
  /\ \A t \in purged : rpc[t.rcv] \in {"unpause", "gone"} \/ ridx[t.rcv] > 1

PurgedOf(e) == {t \in purged : t.ev = e}

(* An event that is not blocking is deleted when its last reference is     *)
(* gone, unless unregister() has erased a task of it.                      *)
LastReferenceDeletes ==
  \A e \in Events \ Blocking :
    target[e] # {} /\ Outstanding(e) = {} => e \in deleted \/ PurgedOf(e) # {}

(* Events are deleted when they are processed, those with an erased task   *)
(* as well.                                                                *)
ErasedIsDeleted ==
  \A e \in Events \ Blocking :
    target[e] # {} /\ Outstanding(e) = {} => e \in deleted

(* Once a receiver has unbound all its names no task for it is left in     *)
(* _queue, although other threads raise events all the time.               *)
PurgedForGood ==
  \A r \in Receivers : rpc[r] = "gone" =>
    \A t \in Entries(queue["normal"]) : t.rcv # r

(* Bound receivers get every event once, unbound ones have no task left:   *)
(* the list of receivers and the queue are never seen in different states; *)
(* and the event is deleted after the last of them, not before.            *)
BindingIsRespected ==
  DeliveredToEach /\ PurgedForGood /\ ReferencedIsAlive /\ LastReferenceDeletes

(* While an unbinding thread purges the queue no worker is inside          *)
(* process(): all threads are on hold.                                     *)
PausedIsQuiet ==
  \A r \in Receivers : rpc[r] \in {"purge", "unpause"} =>
    \A w \in Threads : wpc[w] \notin {"call", "delete"}

(* unpause() resumes all threads that are on hold.                         *)
HeldIsResumed ==
  \A w \in Threads : wpc[w] = "hold" /\ ~pause ~> wpc[w] # "hold" \/ pause

(* A thread that has raised a blocking event gets control back, if the     *)
(* switch goes on running.                                                 *)
BlockedReturns ==
  \A e \in Blocking :
    epc[e] = "blocked" ~> epc[e] = "returned" \/ PurgedOf(e) # {} \/ ~running

(* After GLOBAL_SHUTDOWN the main loop ends and all workers are joined,    *)
(* unless a thread is left on hold for ever: unpause() wakes one thread.   *)
ShutdownEnds ==
  ~running ~> \/ \A w \in Threads : wpc[w] = "exit"
              \/ [](\E w \in Threads : wpc[w] = "hold")
============================================================================
