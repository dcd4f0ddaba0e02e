------------------------------ MODULE Routing ------------------------------
(***************************************************************************)
(* The routing core of the daemon: which stored bundle is handed to which  *)
(* neighbour, and when its transfer slot comes back.                       *)
(*                                                                         *)
(* BaseRouter and its extensions run in the event thread: the events of    *)
(* the normal queue are handled one after the other, first by BaseRouter   *)
(* itself, then by each extension in the order in which Main.cpp adds      *)
(* them.  NeighborRoutingExtension and FloodRoutingExtension also have a   *)
(* thread each, which takes tasks from a queue, searches the storage and   *)
(* hands bundles to the connection manager.  The neighbour database is     *)
(* locked by both sides.                                                   *)
(*                                                                         *)
(* A convergence layer is modelled by the events it raises for a job; how  *)
(* the TCP and datagram layers come to them is in TCPConnection and        *)
(* DatagramConnection.  Timestamps are abstracted: an entry of the         *)
(* retransmission queue may become due at any time.                        *)
(***************************************************************************)
EXTENDS Queues

LOCAL INSTANCE SequencesExt

CONSTANTS
  Peers,       \* neighbours
  Bundles,     \* bundle ids, numbers: the storage returns them in this order
  Dest,        \* the node each bundle is destined to
  Singleton,   \* bundles with DESTINATION_IS_SINGLETON
  Local,       \* bundles an application or a worker of this node sends
  Remote,      \* bundles that peers send, local ones that come back included
  TransitMax,  \* _transit_max
  RetryMax,    \* the 8 of RetransmissionExtension::notify
  SearchLimit, \* BundleFilter::limit()
  Flooding,    \* whether FloodRoutingExtension is loaded
  Security,    \* whether the daemon is built WITH_BUNDLE_SECURITY
  Faults,      \* what may go wrong in a run
  MaxFaults    \* bound: how often

FaultKinds ==
  {"undefined", "refused", "requeue", "expired", "vanish", "up", "twice", "silent"}

ASSUME RoutingAssumption ==
  /\ Bundles \subseteq Nat /\ IsFiniteSet(Bundles) /\ IsFiniteSet(Peers)
  /\ DOMAIN Dest = Bundles
  /\ Singleton \subseteq Bundles
  /\ Local \subseteq Bundles /\ Remote \subseteq Bundles
  /\ TransitMax \in Nat \ {0} /\ RetryMax \in Nat \ {0}
  /\ SearchLimit \in Nat \ {0}
  /\ Flooding \in BOOLEAN /\ Security \in BOOLEAN
  /\ Faults \subseteq FaultKinds /\ MaxFaults \in Nat

Threads == {"neighbor"} \cup IF Flooding THEN {"flood"} ELSE {}

VARIABLES
  storage, known, \* the bundle storage; _known_bundles
  nodes,          \* ConnectionManager::_nodes
  entries,        \* peers with an entry in the neighbour database
  transit,        \* _transit_bundles of each entry
  summary,        \* _summary of each entry
  jobs,           \* what the convergence layer has been handed
  events,         \* the normal queue of the event switch
  ev, epc,        \* the event in progress and the extension whose turn it is
  tasks,          \* _taskqueue of each routing thread
  thr,            \* where each routing thread is
  rset, rqueue,   \* _set and _queue of RetransmissionExtension
  odd,            \* history: "twice" or "silent" if a job had two outcomes or none
  tries,          \* history: retransmissions since the slot was acquired
  unsearched,     \* history: peers with an outcome that led to no search
  origin,         \* history: where each bundle came from, in this order
  faults          \* bound: number of faults so far

slotVars   == <<entries, transit, summary>>
storeVars  == <<storage, known, origin>>
eventVars  == <<ev, epc, unsearched>>
threadVars == <<tasks, thr>>
nodeVars   == <<nodes, odd>>
retryVars  == <<rset, rqueue, tries>>
vars == <<slotVars, storeVars, nodeVars, jobs, events, eventVars, threadVars,
          retryVars, faults>>

Pairs == Peers \X Bundles

NodeMsg(k, p)    == [kind |-> k, peer |-> p]
BundleMsg(k, b)  == [kind |-> k, bundle |-> b]
TransferMsg(k, p, b)   == [kind |-> k, peer |-> p, bundle |-> b]
AbortMsg(p, b, r) == [kind |-> "aborted", peer |-> p, bundle |-> b, reason |-> r]

Reasons == {"undefined", "retry_limit", "deleted", "connection_down", "refused"}

EventType ==
       [kind : {"available", "unavailable", "up"}, peer : Peers]
  \cup [kind : {"queued", "expired"}, bundle : Bundles]
  \cup [kind : {"completed", "requeue"}, peer : Peers, bundle : Bundles]
  \cup [kind : {"aborted"}, peer : Peers, bundle : Bundles, reason : Reasons]

NoEvent == [kind |-> "none"]
Idle    == [pc |-> "idle"]

Process   == [task |-> "process"]
Search(p) == [task |-> "search", peer |-> p]
TaskType  == {Process} \cup {Search(p) : p \in Peers}
Job(p, b) == [peer |-> p, bundle |-> b, loaded |-> FALSE]
JobType   == [peer : Peers, bundle : Bundles, loaded : BOOLEAN]
Retry(p, b, n) == [peer |-> p, bundle |-> b, count |-> n]
RetryType == [peer : Peers, bundle : Bundles, count : 1..RetryMax]

\* The type invariant.
TypeOK ==
  /\ storage \subseteq Bundles /\ known \subseteq Bundles
  /\ nodes \subseteq Peers /\ entries \subseteq Peers
  /\ transit \in [Peers -> SUBSET Bundles]
  /\ \A p \in Peers : Cardinality(transit[p]) <= TransitMax
  /\ summary \in [Peers -> SUBSET Bundles]
  /\ jobs \in Seq(JobType)
  /\ events \in Seq(EventType)
  /\ ev \in EventType \cup {NoEvent}
  /\ epc \in {"idle", "flood", "neighbor", "retransmission"}
  /\ (epc = "idle") <=> (ev = NoEvent)
  /\ tasks \in [Threads -> Seq(TaskType)]
  /\ thr \in [Threads -> {Idle}
        \cup [pc : {"list"}, peer : Peers, list : Seq(Bundles) \ {<<>>}]
        \cup [pc : {"raise"}, peer : Peers, list : Seq(Bundles) \ {<<>>}, evt : EventType]]
  /\ rset \in [Bundles -> 0..RetryMax]
  /\ rqueue \in Seq(RetryType)
  /\ odd \subseteq {"twice", "silent"} /\ unsearched \subseteq Peers
  /\ tries \in [Pairs -> Nat]
  /\ origin \in [Bundles -> Seq(Peers \cup {"local"})]
  /\ faults \in 0..MaxFaults

Init ==
  /\ storage = {} /\ known = {} /\ origin = [b \in Bundles |-> <<>>]
  /\ nodes = {} /\ entries = {} /\ unsearched = {} /\ odd = {}
  /\ transit = [p \in Peers |-> {}] /\ summary = [p \in Peers |-> {}]
  /\ jobs = <<>> /\ events = <<>> /\ ev = NoEvent /\ epc = "idle"
  /\ tasks = [t \in Threads |-> <<>>] /\ thr = [t \in Threads |-> Idle]
  /\ rset = [b \in Bundles |-> 0] /\ rqueue = <<>>
  /\ tries = [x \in Pairs |-> 0]
  /\ faults = 0

Fault(k) == k \in Faults /\ faults < MaxFaults /\ faults' = faults + 1

Raise(e) == events' = Append(events, e)

\* The neighbour database is locked by the neighbour thread during one
\* transfer and by the flooding thread during a whole search.
DatabaseLocked ==
  \/ thr["neighbor"].pc = "raise"
  \/ Flooding /\ thr["flood"].pc # "idle"

-----------------------------------------------------------------------------
(* The connection manager.  It handles its events in the event thread,     *)
(* between two events of the router.                                       *)

\* discovered(), or a connection event of a node that is not in the list
NodeAppears(p) ==
  /\ epc = "idle" /\ p \notin nodes
  /\ nodes' = nodes \cup {p}
  /\ Raise(NodeMsg("available", p))
  /\ UNCHANGED <<odd, slotVars, storeVars, jobs, eventVars, threadVars, retryVars, faults>>

\* check_unavailable(): all attributes of the node have expired
NodeVanishes(p) ==
  /\ epc = "idle" /\ p \in nodes /\ Fault("vanish")
  /\ nodes' = nodes \ {p}
  /\ Raise(NodeMsg("unavailable", p))
  /\ UNCHANGED <<odd, slotVars, storeVars, jobs, eventVars, threadVars, retryVars>>

\* a connection to a node of the list comes up
ConnectionUp(p) ==
  /\ epc = "idle" /\ p \in nodes /\ Fault("up")
  /\ Raise(NodeMsg("up", p))
  /\ UNCHANGED <<slotVars, storeVars, nodeVars, jobs, eventVars, threadVars, retryVars>>

-----------------------------------------------------------------------------
(* Bundles come and go.                                                    *)

\* A bundle arrives from a peer.  BundleReceivedEvents are in the queue of
\* low priority: they are handled when no other event waits.  Each peer sends it once.
Receive(p, b) ==
  /\ epc = "idle" /\ events = <<>> /\ p \in nodes /\ ~Contains(origin[b], p)
  /\ origin' = [origin EXCEPT ![b] = Append(@, p)]
  /\ IF b \in known
       THEN UNCHANGED <<storage, known, events, summary>>
       ELSE /\ Security => ~DatabaseLocked
            /\ summary' = IF Security /\ p \in entries
                            THEN [summary EXCEPT ![p] = @ \cup {b}] ELSE summary
            /\ storage' = storage \cup {b} /\ known' = known \cup {b}
            /\ Raise(BundleMsg("queued", b))
  /\ UNCHANGED <<entries, transit, nodeVars, jobs, eventVars, threadVars, retryVars, faults>>

\* A local application or a worker sends a bundle.
Generate(b) ==
  /\ epc = "idle" /\ b \notin known
  /\ known' = known \cup {b} /\ storage' = storage \cup {b}
  /\ origin' = [origin EXCEPT ![b] = Append(@, "local")]
  /\ Raise(BundleMsg("queued", b))
  /\ UNCHANGED <<slotVars, nodeVars, jobs, eventVars, threadVars, retryVars, faults>>

\* The storage drops a bundle whose lifetime is over.
Expire(b) ==
  /\ b \in storage /\ Fault("expired")
  /\ storage' = storage \ {b}
  /\ Raise(BundleMsg("expired", b))
  /\ UNCHANGED <<slotVars, known, origin, nodeVars, jobs, eventVars, threadVars, retryVars>>

-----------------------------------------------------------------------------
(* BaseRouter::raiseEvent, the part before the extensions are notified.    *)

\* Seeded error: the slot of an aborted transfer is not released.
ReleaseCompletedOnly(e) ==
  transit' = IF e.kind = "completed"
               THEN [transit EXCEPT ![e.peer] = @ \ {e.bundle}] ELSE transit

Release(e) == transit' = [transit EXCEPT ![e.peer] = @ \ {e.bundle}]

\* The bundle is noted in the summary of the peer; for a refused bundle that
\* is gone from the storage NoBundleFoundException leaves the handler here.
AddToSummary(e) ==
  summary' = IF e.kind = "completed" \/ (e.reason = "refused" /\ e.bundle \in storage)
               THEN [summary EXCEPT ![e.peer] = @ \cup {e.bundle}] ELSE summary

Lost(e) == e.kind = "aborted" /\ e.reason = "refused" /\ e.bundle \notin storage

FirstExtension == IF Flooding THEN "flood" ELSE "neighbor"

TakeEvent ==
  /\ epc = "idle" /\ events # <<>>
  /\ LET e == Head(events) IN
       /\ \/ /\ e.kind = "available" /\ ~DatabaseLocked
             /\ entries' = entries \cup {e.peer}
             /\ UNCHANGED <<transit, summary>>
          \/ /\ e.kind \in {"completed", "aborted"} /\ ~DatabaseLocked
             /\ e.peer \in entries
             /\ Release(e) /\ AddToSummary(e)
             /\ UNCHANGED entries
          \/ /\ e.kind = "unavailable" /\ ~DatabaseLocked \* reset of the filter
             /\ UNCHANGED slotVars
          \/ /\ e.kind \in {"up", "queued", "expired", "requeue"}
             /\ UNCHANGED slotVars
       /\ ev' = IF Lost(e) THEN NoEvent ELSE e
       /\ epc' = IF Lost(e) THEN "idle" ELSE FirstExtension
       /\ unsearched' = IF Lost(e) THEN unsearched \cup {e.peer} ELSE unsearched
  /\ events' = Tail(events)
  /\ UNCHANGED <<storeVars, nodeVars, jobs, threadVars, retryVars, faults>>

-----------------------------------------------------------------------------
(* The extensions, notified one after the other.                           *)

Push(t, x) == tasks' = [tasks EXCEPT ![t] = Append(@, x)]

NotifyFlooding ==
  /\ epc = "flood" /\ epc' = "neighbor"
  /\ \/ ev.kind = "queued" /\ Push("flood", Process)
     \/ /\ ev.kind \in {"available", "up", "aborted", "completed"}
        /\ Push("flood", Search(ev.peer))
     \/ ev.kind \in {"unavailable", "expired", "requeue"} /\ UNCHANGED tasks
  /\ UNCHANGED <<slotVars, storeVars, nodeVars, jobs, events, ev, unsearched, thr, retryVars, faults>>

\* The peer is the destination: the bundle has arrived, or never will.
AtDestination(e) == Dest[e.bundle] = e.peer /\ e.bundle \in Singleton

\* Seeded error: no search after an aborted transfer.
NotifyNeighborQuietly ==
  /\ epc = "neighbor" /\ epc' = "retransmission"
  /\ \/ ev.kind = "queued" /\ Push("neighbor", Process) /\ UNCHANGED storage
     \/ /\ ev.kind = "completed" /\ AtDestination(ev)
        /\ storage' = storage \ {ev.bundle}
        /\ Push("neighbor", Search(ev.peer))
     \/ /\ ev.kind \in {"available", "up"} /\ Push("neighbor", Search(ev.peer))
        /\ UNCHANGED storage
     \/ /\ ev.kind \in {"aborted", "unavailable", "expired", "requeue"}
        /\ UNCHANGED <<storage, tasks>>
  /\ UNCHANGED <<slotVars, known, origin, nodeVars, jobs, events, ev, unsearched, thr, retryVars, faults>>

NotifyNeighbor ==
  /\ epc = "neighbor" /\ epc' = "retransmission"
  /\ \/ ev.kind = "queued" /\ Push("neighbor", Process) /\ UNCHANGED storage
     \/ /\ ev.kind = "completed" /\ AtDestination(ev)
        /\ storage' = storage \ {ev.bundle}
        /\ Push("neighbor", Search(ev.peer))
     \/ /\ ev.kind = "completed" /\ ~AtDestination(ev)
        /\ UNCHANGED <<storage, tasks>>
     \/ /\ ev.kind = "aborted" /\ ev.reason = "connection_down"
        /\ UNCHANGED <<storage, tasks>>
     \/ /\ ev.kind = "aborted" /\ ev.reason # "connection_down"
        /\ storage' = IF ev.reason = "refused" /\ AtDestination(ev)
                        THEN storage \ {ev.bundle} ELSE storage
        /\ Push("neighbor", Search(ev.peer))
     \/ /\ ev.kind \in {"available", "up"} /\ Push("neighbor", Search(ev.peer))
        /\ UNCHANGED storage
     \/ /\ ev.kind \in {"unavailable", "expired", "requeue"}
        /\ UNCHANGED <<storage, tasks>>
  /\ unsearched' = IF tasks' = tasks /\ ev.kind \in {"completed", "aborted"}
                      THEN unsearched \cup {ev.peer} ELSE unsearched
  /\ UNCHANGED <<slotVars, known, origin, nodeVars, jobs, events, ev, thr, retryVars, faults>>

\* RequeueBundleEvent: the set is ordered by the bundle id alone, the peer
\* of its element plays no part.
Requeue(p, b) ==
  LET n == rset[b] + 1 IN
  IF n <= RetryMax
    THEN /\ rset' = [rset EXCEPT ![b] = n]
         /\ rqueue' = Append(rqueue, Retry(p, b, n))
         /\ UNCHANGED events
    ELSE /\ rset' = [rset EXCEPT ![b] = 0]
         /\ Raise(AbortMsg(p, b, "retry_limit"))
         /\ UNCHANGED rqueue

\* BundleExpiredEvent: the entries of the bundle leave the queue, their
\* transfers are aborted.
DropExpired(b) ==
  LET gone == Within(rqueue, {r \in RetryType : r.bundle = b}) IN
  /\ rqueue' = Within(rqueue, {r \in RetryType : r.bundle # b})
  /\ events' = events \o
       [i \in 1..Len(gone) |-> AbortMsg(gone[i].peer, b, "deleted")]
  /\ UNCHANGED rset

Forget(e) == rset' = [rset EXCEPT ![e.bundle] = 0]

NotifyRetransmission ==
  /\ epc = "retransmission" /\ epc' = "idle" /\ ev' = NoEvent
  /\ \/ ev.kind = "requeue" /\ Requeue(ev.peer, ev.bundle)
     \/ ev.kind = "expired" /\ DropExpired(ev.bundle)
     \/ /\ ev.kind \in {"completed", "aborted"} /\ Forget(ev)
        /\ UNCHANGED <<rqueue, events>>
     \/ /\ ev.kind \in {"available", "unavailable", "up", "queued"}
        /\ UNCHANGED <<rset, rqueue, events>>
  /\ UNCHANGED <<slotVars, storeVars, nodeVars, unsearched, jobs, threadVars, tries, faults>>

-----------------------------------------------------------------------------
(* BundleCore::transferTo and ConnectionManager::queue.                    *)

\* The node is in the list and its convergence layer takes the job.
Accepted(p, b) == p \in nodes /\ jobs' = Append(jobs, Job(p, b))

\* The node is not in the list, or no convergence layer can reach it.
NotAvailable(p, b, e) ==
  /\ \/ p \notin nodes /\ e = AbortMsg(p, b, "connection_down") /\ UNCHANGED faults
     \/ p \in nodes /\ e = TransferMsg("requeue", p, b) /\ Fault("requeue")
  /\ UNCHANGED jobs

\* Seeded error: the entry stays in the queue and is retransmitted again.
RetransmitAgain ==
  /\ epc = "idle" /\ rqueue # <<>>
  /\ LET r == Head(rqueue) IN
       /\ Accepted(r.peer, r.bundle) /\ UNCHANGED <<events, faults>>
       /\ tries' = [tries EXCEPT ![<<r.peer, r.bundle>>] = @ + 1]
  /\ Len(jobs) < 3
  /\ UNCHANGED <<slotVars, storeVars, nodeVars, eventVars, threadVars, rset, rqueue>>

\* TimeEvent: the first entry of the queue is due.
Retransmit ==
  /\ epc = "idle" /\ rqueue # <<>>
  /\ LET r == Head(rqueue) IN
       /\ \/ Accepted(r.peer, r.bundle) /\ UNCHANGED <<events, faults>>
          \/ \E e \in EventType : NotAvailable(r.peer, r.bundle, e) /\ Raise(e)
       /\ tries' = [tries EXCEPT ![<<r.peer, r.bundle>>] = @ + 1]
  /\ rqueue' = Tail(rqueue)
  /\ UNCHANGED <<slotVars, storeVars, nodeVars, eventVars, threadVars, rset>>

-----------------------------------------------------------------------------
(* The routing threads.                                                    *)

\* The bundles the filter of an extension lets pass for a peer.
Wanted(t, p) ==
  IF t = "neighbor" THEN {b \in storage : Dest[b] = p}
                    ELSE {b \in storage : Dest[b] # p /\ b \notin summary[p]}

\* storage.get(filter): the first SearchLimit of the bundles, in the storage's
\* order
Found(t, p, list) ==
  LET all == Wanted(t, p)
      n   == IF Cardinality(all) < SearchLimit THEN Cardinality(all) ELSE SearchLimit
  IN  /\ list \in [1..n -> all]
      /\ \A i \in 1..n : Cardinality({b \in all : b < list[i]}) = i - 1

\* ProcessBundleTask: a search for every neighbour
ProcessBundle(t) ==
  /\ thr[t] = Idle /\ tasks[t] # <<>> /\ Head(tasks[t]) = Process
  /\ \E s \in SetToSeqs(nodes) :
       tasks' = [tasks EXCEPT ![t] = Tail(@) \o [i \in 1..Len(s) |-> Search(s[i])]]
  /\ UNCHANGED <<slotVars, storeVars, nodeVars, jobs, events, eventVars, thr, retryVars, faults>>

\* SearchNextBundleTask: query the storage.  The flooding thread takes the
\* lock of the neighbour database first.
SearchNextBundle(t) ==
  /\ thr[t] = Idle /\ tasks[t] # <<>> /\ Head(tasks[t]) # Process
  /\ LET p == Head(tasks[t]).peer IN
       /\ t = "flood" => ~DatabaseLocked
       /\ \E list \in UNION {[1..n -> storage] : n \in 0..SearchLimit} :
            /\ Found(t, p, list)
            /\ thr' = [thr EXCEPT ![t] =
                 IF list = <<>> \/ (t = "flood" /\ p \notin entries) THEN Idle
                 ELSE [pc |-> "list", peer |-> p, list |-> list]]
  /\ tasks' = [tasks EXCEPT ![t] = Tail(@)]
  /\ UNCHANGED <<slotVars, storeVars, nodeVars, jobs, events, eventVars, retryVars, faults>>

\* Where a thread is when it has dealt with the first bundle of its list
Step(t) == IF Len(thr[t].list) = 1 THEN Idle
           ELSE [pc |-> "list", peer |-> thr[t].peer, list |-> Tail(thr[t].list)]

MayLock(t) == \A u \in Threads \ {t} : thr[u].pc # "raise" /\ (u = "flood" => thr[u] = Idle)

\* acquireTransfer() throws
Refused(p, b) == b \in transit[p] \/ Cardinality(transit[p]) >= TransitMax

\* transferTo() of a bundle that is in transit, or to a neighbour that has
\* no entry or no free slot: the first is skipped, the others end the task.
SkipTransfer(t) ==
  /\ thr[t].pc = "list" /\ MayLock(t)
  /\ LET p == thr[t].peer  b == Head(thr[t].list) IN
       /\ p \notin entries \/ Refused(p, b)
       /\ thr' = [thr EXCEPT ![t] =
            IF p \in entries /\ b \in transit[p] THEN Step(t) ELSE Idle]
  /\ UNCHANGED <<slotVars, storeVars, nodeVars, jobs, events, eventVars, tasks, retryVars, faults>>

\* transferTo(): the slot is acquired and the bundle handed over.
Transfer(t) ==
  /\ thr[t].pc = "list" /\ MayLock(t)
  /\ LET p == thr[t].peer  b == Head(thr[t].list) IN
       /\ p \in entries /\ ~Refused(p, b)
       /\ transit' = [transit EXCEPT ![p] = @ \cup {b}]
       /\ tries' = [tries EXCEPT ![<<p, b>>] = 0]
       /\ \/ /\ Accepted(p, b)
             /\ thr' = [thr EXCEPT ![t] = Step(t)] /\ UNCHANGED faults
          \/ \E e \in EventType :
               /\ NotAvailable(p, b, e)
               /\ thr' = [thr EXCEPT ![t] = [pc |-> "raise", peer |-> p,
                                             list |-> @.list, evt |-> e]]
  /\ UNCHANGED <<entries, summary, storeVars, nodeVars, events, eventVars, tasks, rset, rqueue>>

\* The handlers of BundleCore::transferTo, still under the database lock
RaiseFailure(t) ==
  /\ thr[t].pc = "raise"
  /\ Raise(thr[t].evt)
  /\ thr' = [thr EXCEPT ![t] = Step(t)]
  /\ UNCHANGED <<slotVars, storeVars, nodeVars, jobs, eventVars, tasks, retryVars, faults>>

-----------------------------------------------------------------------------
(* The convergence layer.                                                  *)

Done(i) == jobs' = RemoveAt(jobs, i)

\* The bundle is read from the storage; it may have gone meanwhile.
LoadBundle(i) ==
  /\ ~jobs[i].loaded
  /\ \/ /\ jobs[i].bundle \in storage
        /\ jobs' = [jobs EXCEPT ![i].loaded = TRUE] /\ UNCHANGED events
     \/ /\ jobs[i].bundle \notin storage
        /\ Done(i) /\ Raise(AbortMsg(jobs[i].peer, jobs[i].bundle, "deleted"))
  /\ UNCHANGED <<slotVars, storeVars, nodeVars, eventVars, threadVars, retryVars, faults>>

CompleteJob(i) ==
  /\ jobs[i].loaded
  /\ Done(i) /\ Raise(TransferMsg("completed", jobs[i].peer, jobs[i].bundle))
  /\ UNCHANGED <<slotVars, storeVars, nodeVars, eventVars, threadVars, retryVars, faults>>

\* The peer refuses the bundle, or the layer has no address of the node.
AbortJob(i, r) ==
  /\ r \in {"undefined", "refused"} /\ Fault(r)
  /\ r = "refused" => jobs[i].loaded
  /\ Done(i) /\ Raise(AbortMsg(jobs[i].peer, jobs[i].bundle, r))
  /\ UNCHANGED <<slotVars, storeVars, nodeVars, eventVars, threadVars, retryVars>>

\* The connection broke, or the layer is busy.
RequeueJob(i) ==
  /\ Fault("requeue")
  /\ Done(i) /\ Raise(TransferMsg("requeue", jobs[i].peer, jobs[i].bundle))
  /\ UNCHANGED <<slotVars, storeVars, nodeVars, eventVars, threadVars, retryVars>>

\* FileConvergenceLayer: the bundle is in the path already.  The `continue'
\* belongs to the loop over the files, so the bundle is written all the same.
RefuseAndStore(i) ==
  /\ jobs[i].loaded /\ Fault("twice") /\ odd' = odd \cup {"twice"}
  /\ Done(i)
  /\ events' = events \o <<AbortMsg(jobs[i].peer, jobs[i].bundle, "refused"),
                           TransferMsg("completed", jobs[i].peer, jobs[i].bundle)>>
  /\ UNCHANGED <<slotVars, storeVars, nodes, eventVars, threadVars, retryVars>>

\* HTTPConvergenceLayer: the upload fails, or the answer is not HTTP_OK.
FailSilently(i) ==
  /\ jobs[i].loaded /\ Fault("silent") /\ odd' = odd \cup {"silent"}
  /\ Done(i)
  /\ UNCHANGED <<slotVars, storeVars, nodes, events, eventVars, threadVars, retryVars>>

-----------------------------------------------------------------------------
EventThread == TakeEvent \/ NotifyFlooding \/ NotifyNeighbor \/ NotifyRetransmission

RoutingThread(t) ==
  \/ ProcessBundle(t) \/ SearchNextBundle(t)
  \/ SkipTransfer(t) \/ Transfer(t) \/ RaiseFailure(t)

Settle(i) ==
  \/ LoadBundle(i) \/ CompleteJob(i) \/ RequeueJob(i)
  \/ \E r \in Reasons : AbortJob(i, r)
  \/ RefuseAndStore(i) \/ FailSilently(i)

Next ==
  \/ \E p \in Peers : NodeAppears(p) \/ NodeVanishes(p) \/ ConnectionUp(p)
  \/ \E p \in Peers, b \in Remote : Receive(p, b)
  \/ \E b \in Local : Generate(b)
  \/ \E b \in Bundles : Expire(b)
  \/ EventThread \/ Retransmit
  \/ \E t \in Threads : RoutingThread(t)
  \/ \E i \in 1..Len(jobs) : Settle(i)

Spec == Init /\ [][Next]_vars

\* The event switch and the routing threads run, time passes, and a
\* convergence layer comes to an end with its first job.
FairSpec ==
  /\ Spec
  /\ WF_vars(EventThread) /\ WF_vars(Retransmit)
  /\ \A t \in Threads : WF_vars(RoutingThread(t))
  /\ WF_vars(jobs # <<>> /\ Settle(1))

-----------------------------------------------------------------------------
(* Properties.                                                             *)

\* What stands for a transfer of b to p that is not over: a job, an outcome
\* that the router does not know yet, an entry of the retransmission queue
JobsOf(p, b)     == [peer : {p}, bundle : {b}, loaded : BOOLEAN]
OutcomesOf(p, b) ==
       [kind : {"completed", "requeue"}, peer : {p}, bundle : {b}]
  \cup [kind : {"aborted"}, peer : {p}, bundle : {b}, reason : Reasons]
RetriesOf(p, b)  == [peer : {p}, bundle : {b}, count : 1..RetryMax]

\* The threads that are about to report that b cannot be handed to p
Reporting(p, b) == {t \in Threads : thr[t].pc = "raise" /\ thr[t].evt \in OutcomesOf(p, b)}

\* Everything that will still lead to a release of the slot of (p, b)
Holders(p, b) ==
    Count(jobs, JobsOf(p, b))
  + Count(events, OutcomesOf(p, b))
  + (IF ev = TransferMsg("requeue", p, b) THEN 1 ELSE 0)
  + Count(rqueue, RetriesOf(p, b))
  + Cardinality(Reporting(p, b))

\* No slot leaks: as long as a bundle occupies a transfer slot of a neighbour
\* somebody deals with it - the convergence layer, an event on its way to the
\* router, the retransmission queue or the thread that is about to report a
\* failure - wherever transfers fail, nodes vanish or bundles expire.  The
\* exception is a failed upload of the HTTP layer, which it does not report.
NoSlotLeaks ==
  "silent" \notin odd =>
    \A p \in Peers : \A b \in transit[p] : Holders(p, b) > 0

\* A bundle is on its way to a neighbour at most once, and only with a slot:
\* no second transfer starts while an outcome of the first is outstanding.
\* The exception is the file layer, which may report two outcomes for a job.
NoDoubleTransfer ==
  "twice" \notin odd =>
    \A p \in Peers, b \in Bundles :
      Holders(p, b) <= IF b \in transit[p] THEN 1 ELSE 0

\* A slot and the one party that will report its outcome come and go together.
SlotHasOneHolder == NoSlotLeaks /\ NoDoubleTransfer

\* A transfer is given up for its retries only after RetryMax of them, and no
\* transfer is retried more often (the counter of RetransmissionExtension).
RetriesAreCounted ==
  /\ \A x \in Pairs : tries[x] <= RetryMax
  /\ \A i \in 1..Len(events) :
       events[i].kind = "aborted" /\ events[i].reason = "retry_limit"
         => tries[<<events[i].peer, events[i].bundle>>] = RetryMax

\* The neighbour routing thread starts the transfer of a bundle only if the
\* router does not know that the peer has it.
OnlyUnknownIsSent ==
  [][\A p \in Peers : \A b \in transit'[p] \ transit[p] : b \notin summary[p]]_vars

\* Flooding hands a bundle to no peer it has come from: "do not forward
\* bundles already known by the destination" in FloodRoutingExtension.
KnownIsNotForwarded ==
  [][\A p \in Peers : \A b \in transit'[p] \ transit[p] :
       Dest[b] # p => ~Contains(origin[b], p)]_vars

\* Every slot that is acquired is released again, unless the HTTP layer has
\* not reported a failure.
SlotIsReleased ==
  \A p \in Peers, b \in Bundles :
    (b \in transit[p]) ~> (b \notin transit[p] \/ "silent" \in odd)

\* A bundle whose destination is a neighbour with a free slot does not stay
\* in the storage unnoticed: it is transferred, or it or the neighbour goes.
\* The one exception is an outcome that led to no search for the peer.
WaitingIsSent ==
  \A p \in Peers, b \in Bundles : Dest[b] = p =>
    (b \in storage /\ p \in nodes /\ Cardinality(transit[p]) < TransitMax)
      ~> (b \in transit[p] \/ b \notin storage \/ p \notin nodes
          \/ Cardinality(transit[p]) >= TransitMax \/ p \in unsearched)
=============================================================================
