--------------------------- MODULE RoutingProofs ----------------------------
(***************************************************************************)
(* What holds of the transfer slots for any number of neighbours, bundles, *)
(* slots and retries, whichever transfers fail and whichever nodes vanish. *)
(* And of the daemons that hand bundles to one another: none is delivered  *)
(* twice, in any network.                                                  *)
(***************************************************************************)
EXTENDS Routing, BundleCore, QueueLemmas

LOCAL INSTANCE SequencesExt

ThreadType ==
       {Idle}
  \cup [pc : {"list"}, peer : Peers, list : Seq(Bundles) \ {<<>>}]
  \cup [pc : {"raise"}, peer : Peers, list : Seq(Bundles) \ {<<>>}, evt : EventType]

\* The parts of TypeOK.
SlotTypeOK ==
  /\ entries \subseteq Peers
  /\ transit \in [Peers -> SUBSET Bundles]
  /\ \A p \in Peers : Cardinality(transit[p]) <= TransitMax
  /\ summary \in [Peers -> SUBSET Bundles]

StoreTypeOK ==
  /\ storage \subseteq Bundles /\ known \subseteq Bundles
  /\ origin \in [Bundles -> Seq(Peers \cup {"local"})]

NodeTypeOK ==
  nodes \subseteq Peers /\ odd \subseteq {"twice", "silent"} /\ unsearched \subseteq Peers

EventTypeOK ==
  /\ ev \in EventType \cup {NoEvent}
  /\ epc \in {"idle", "flood", "neighbor", "retransmission"}
  /\ (epc = "idle") <=> (ev = NoEvent)

ThreadTypeOK == tasks \in [Threads -> Seq(TaskType)] /\ thr \in [Threads -> ThreadType]

RetryTypeOK ==
  /\ rset \in [Bundles -> 0..RetryMax] /\ rqueue \in Seq(RetryType)
  /\ tries \in [Pairs -> Nat]

TypeInv ==
  /\ SlotTypeOK /\ StoreTypeOK /\ NodeTypeOK /\ EventTypeOK
  /\ ThreadTypeOK /\ RetryTypeOK
  /\ jobs \in Seq(JobType) /\ events \in Seq(EventType)
  /\ faults \in 0..MaxFaults

\* Together they are TypeOK.
LEMMA TypeParts == (TypeOK <=> TypeInv) /\ (TypeOK' <=> TypeInv')
  BY DEF TypeOK, TypeInv, SlotTypeOK, StoreTypeOK, NodeTypeOK, EventTypeOK, ThreadTypeOK,
         ThreadType, RetryTypeOK

-----------------------------------------------------------------------------
(* Messages, jobs and tasks.                                               *)

\* What is raised is an event.
LEMMA EventTypes ==
  /\ \A k \in {"available", "unavailable", "up"}, p \in Peers : NodeMsg(k, p) \in EventType
  /\ \A k \in {"queued", "expired"}, b \in Bundles : BundleMsg(k, b) \in EventType
  /\ \A k \in {"completed", "requeue"}, p \in Peers, b \in Bundles :
       TransferMsg(k, p, b) \in EventType
  /\ \A p \in Peers, b \in Bundles, r \in Reasons : AbortMsg(p, b, r) \in EventType
<1>1. \A k \in {"available", "unavailable", "up"}, p \in Peers : NodeMsg(k, p) \in EventType
  BY DEF NodeMsg, EventType
<1>2. \A k \in {"queued", "expired"}, b \in Bundles : BundleMsg(k, b) \in EventType
  BY DEF BundleMsg, EventType
<1>3. \A k \in {"completed", "requeue"}, p \in Peers, b \in Bundles :
        TransferMsg(k, p, b) \in EventType
  BY DEF TransferMsg, EventType
<1>4. \A p \in Peers, b \in Bundles, r \in Reasons : AbortMsg(p, b, r) \in EventType
  BY DEF AbortMsg, EventType
<1> QED
  BY <1>1, <1>2, <1>3, <1>4

\* An event has the fields of its kind.
LEMMA EventFields ==
  ASSUME NEW e \in EventType
  PROVE  /\ e.kind \in {"available", "unavailable", "up", "queued", "expired",
                        "completed", "requeue", "aborted"}
         /\ e # NoEvent
         /\ e.kind \in {"available", "unavailable", "up", "completed", "requeue", "aborted"}
              => e.peer \in Peers
         /\ e.kind \in {"queued", "expired", "completed", "requeue", "aborted"}
              => e.bundle \in Bundles
         /\ e.kind = "aborted" => e.reason \in Reasons
<1>1. CASE e \in [kind : {"available", "unavailable", "up"}, peer : Peers]
  BY <1>1 DEF NoEvent
<1>2. CASE e \in [kind : {"queued", "expired"}, bundle : Bundles]
  BY <1>2 DEF NoEvent
<1>3. CASE e \in [kind : {"completed", "requeue"}, peer : Peers, bundle : Bundles]
  BY <1>3 DEF NoEvent
<1>4. CASE e \in [kind : {"aborted"}, peer : Peers, bundle : Bundles, reason : Reasons]
  BY <1>4 DEF NoEvent
<1> QED
  BY <1>1, <1>2, <1>3, <1>4 DEF EventType

\* Which events are outcomes of the transfer of b to p.
LEMMA OutcomeFields ==
  ASSUME NEW p \in Peers, NEW b \in Bundles, NEW e \in EventType
  PROVE  e \in OutcomesOf(p, b) <=>
           /\ e.kind \in {"completed", "requeue", "aborted"}
           /\ e.peer = p /\ e.bundle = b
<1>1. CASE e \in [kind : {"available", "unavailable", "up"}, peer : Peers]
  BY <1>1 DEF OutcomesOf
<1>2. CASE e \in [kind : {"queued", "expired"}, bundle : Bundles]
  BY <1>2 DEF OutcomesOf
<1>3. CASE e \in [kind : {"completed", "requeue"}, peer : Peers, bundle : Bundles]
  BY <1>3 DEF OutcomesOf
<1>4. CASE e \in [kind : {"aborted"}, peer : Peers, bundle : Bundles, reason : Reasons]
  BY <1>4 DEF OutcomesOf
<1> QED
  BY <1>1, <1>2, <1>3, <1>4 DEF EventType

\* A task is a search or the one that starts the searches.
LEMMA TaskFields ==
  /\ Process \in TaskType
  /\ \A p \in Peers : Search(p) \in TaskType
  /\ \A x \in TaskType : x # Process => x.peer \in Peers
<1>1. \A p \in Peers : Search(p).peer = p
  BY DEF Search
<1> QED
  BY <1>1 DEF TaskType

\* Where a thread may be.
LEMMA ThreadFields ==
  ASSUME NEW x \in ThreadType
  PROVE  /\ x.pc \in {"idle", "list", "raise"}
         /\ x.pc = "idle" => x = Idle
         /\ x.pc \in {"list", "raise"} => /\ x.peer \in Peers
                                          /\ x.list \in Seq(Bundles) /\ x.list # <<>>
         /\ x.pc = "raise" => x.evt \in EventType
<1>1. CASE x = Idle
  BY <1>1 DEF Idle
<1>2. CASE x \in [pc : {"list"}, peer : Peers, list : Seq(Bundles) \ {<<>>}]
  BY <1>2
<1>3. CASE x \in [pc : {"raise"}, peer : Peers, list : Seq(Bundles) \ {<<>>}, evt : EventType]
  BY <1>3
<1> QED
  BY <1>1, <1>2, <1>3 DEF ThreadType

-----------------------------------------------------------------------------
(* Type correctness.                                                       *)

\* An assignment at an index.
LEMMA AssignmentType ==
  ASSUME NEW A, NEW B, NEW f \in [A -> B], NEW x, NEW e, x \in A => e \in B
  PROVE  [f EXCEPT ![x] = e] \in [A -> B]
  OBVIOUS

LEMMA TypeInit == Init => TypeInv
<1> SUFFICES ASSUME Init
             PROVE  TypeInv
  OBVIOUS
<1> USE DEF Init
<1>1. SlotTypeOK
  BY RoutingAssumption, FS_EmptySet DEF SlotTypeOK
<1>2. StoreTypeOK
  BY DEF StoreTypeOK
<1>3. NodeTypeOK /\ EventTypeOK
  BY DEF NodeTypeOK, EventTypeOK
<1>4. ThreadTypeOK
  BY DEF ThreadTypeOK, ThreadType
<1>5. RetryTypeOK
  BY RoutingAssumption DEF RetryTypeOK
<1>6. jobs \in Seq(JobType) /\ events \in Seq(EventType) /\ faults \in 0..MaxFaults
  BY RoutingAssumption
<1> QED
  BY <1>1, <1>2, <1>3, <1>4, <1>5, <1>6 DEF TypeInv

LEMMA TypeUnchanged ==
  /\ SlotTypeOK /\ UNCHANGED slotVars => SlotTypeOK'
  /\ StoreTypeOK /\ UNCHANGED storeVars => StoreTypeOK'
  /\ NodeTypeOK /\ UNCHANGED <<nodes, odd, unsearched>> => NodeTypeOK'
  /\ EventTypeOK /\ UNCHANGED <<ev, epc>> => EventTypeOK'
  /\ ThreadTypeOK /\ UNCHANGED threadVars => ThreadTypeOK'
  /\ RetryTypeOK /\ UNCHANGED retryVars => RetryTypeOK'
  BY DEF SlotTypeOK, slotVars, StoreTypeOK, storeVars, NodeTypeOK, EventTypeOK,
     ThreadTypeOK, threadVars, RetryTypeOK, retryVars

\* What a pop returns.
LEMMA PopType ==
  ASSUME NEW A, NEW s \in Seq(A), s # <<>>
  PROVE  Head(s) \in A /\ Tail(s) \in Seq(A)
  OBVIOUS

\* One fault more is within the bound.
LEMMA FaultType ==
  ASSUME faults \in 0..MaxFaults, NEW k, Fault(k)
  PROVE  faults' \in 0..MaxFaults
  BY RoutingAssumption DEF Fault

\* The steps of the connection manager, of applications and of the storage.
LEMMA TypeOutside ==
  ASSUME TypeInv,
         \/ \E p \in Peers : NodeAppears(p) \/ NodeVanishes(p) \/ ConnectionUp(p)
         \/ \E p \in Peers, b \in Remote : Receive(p, b)
         \/ \E b \in Local : Generate(b)
         \/ \E b \in Bundles : Expire(b)
  PROVE  TypeInv'
<1> USE DEF TypeInv
<1>r. ASSUME NEW e \in EventType, Raise(e)
      PROVE  events' \in Seq(EventType)
  BY <1>r DEF Raise
<1>1. ASSUME NEW p \in Peers, NodeAppears(p) \/ NodeVanishes(p) \/ ConnectionUp(p)
      PROVE  TypeInv'
  <2>1. /\ SlotTypeOK' /\ StoreTypeOK' /\ EventTypeOK' /\ ThreadTypeOK' /\ RetryTypeOK'
        /\ jobs' \in Seq(JobType)
    BY <1>1, TypeUnchanged DEF NodeAppears, NodeVanishes, ConnectionUp, eventVars, nodeVars
  <2>2. NodeTypeOK'
    BY <1>1 DEF NodeAppears, NodeVanishes, ConnectionUp, NodeTypeOK, nodeVars, eventVars
  <2>3. events' \in Seq(EventType)
    <3>1. PICK k \in {"available", "unavailable", "up"} : Raise(NodeMsg(k, p))
      BY <1>1 DEF NodeAppears, NodeVanishes, ConnectionUp
    <3> QED
      BY <3>1, <1>r, EventTypes
  <2>4. faults' \in 0..MaxFaults
    BY <1>1, FaultType DEF NodeAppears, NodeVanishes, ConnectionUp
  <2> QED
    BY <2>1, <2>2, <2>3, <2>4
<1>2. ASSUME NEW p \in Peers, NEW b \in Remote, Receive(p, b)
      PROVE  TypeInv'
  <2>b. b \in Bundles /\ BundleMsg("queued", b) \in EventType
    BY RoutingAssumption, EventTypes
  <2>1. /\ EventTypeOK' /\ ThreadTypeOK' /\ RetryTypeOK' /\ NodeTypeOK'
        /\ jobs' \in Seq(JobType)
    BY <1>2, TypeUnchanged DEF Receive, eventVars, nodeVars
  <2>2. SlotTypeOK'
    BY <1>2, <2>b DEF Receive, SlotTypeOK
  <2>3. StoreTypeOK'
    BY <1>2, <2>b DEF Receive, StoreTypeOK
  <2>4. events' \in Seq(EventType)
    BY <1>2, <1>r, <2>b DEF Receive
  <2>5. faults' \in 0..MaxFaults
    BY <1>2 DEF Receive
  <2> QED
    BY <2>1, <2>2, <2>3, <2>4, <2>5
<1>3. ASSUME NEW b \in Local, Generate(b)
      PROVE  TypeInv'
  <2>b. b \in Bundles /\ BundleMsg("queued", b) \in EventType
    BY RoutingAssumption, EventTypes
  <2>1. /\ EventTypeOK' /\ ThreadTypeOK' /\ RetryTypeOK' /\ NodeTypeOK' /\ SlotTypeOK'
        /\ jobs' \in Seq(JobType)
    BY <1>3, TypeUnchanged DEF Generate, eventVars, nodeVars
  <2>3. StoreTypeOK'
    BY <1>3, <2>b DEF Generate, StoreTypeOK
  <2>4. events' \in Seq(EventType)
    BY <1>3, <1>r, <2>b DEF Generate
  <2>5. faults' \in 0..MaxFaults
    BY <1>3 DEF Generate
  <2> QED
    BY <2>1, <2>3, <2>4, <2>5
<1>4. ASSUME NEW b \in Bundles, Expire(b)
      PROVE  TypeInv'
  <2>b. BundleMsg("expired", b) \in EventType
    BY EventTypes
  <2>1. /\ EventTypeOK' /\ ThreadTypeOK' /\ RetryTypeOK' /\ NodeTypeOK' /\ SlotTypeOK'
        /\ jobs' \in Seq(JobType)
    BY <1>4, TypeUnchanged DEF Expire, eventVars, nodeVars
  <2>3. StoreTypeOK'
    BY <1>4 DEF Expire, StoreTypeOK
  <2>4. events' \in Seq(EventType)
    BY <1>4, <1>r, <2>b DEF Expire
  <2>5. faults' \in 0..MaxFaults
    BY <1>4, FaultType DEF Expire
  <2> QED
    BY <2>1, <2>3, <2>4, <2>5
<1> QED
  BY <1>1, <1>2, <1>3, <1>4

\* The steps of the event thread.
LEMMA TypeTakeEvent ==
  ASSUME TypeInv, TakeEvent
  PROVE  TypeInv'
<1> USE DEF TypeInv
<1> DEFINE e == Head(events)
<1>e. e \in EventType /\ Tail(events) \in Seq(EventType)
  BY PopType DEF TakeEvent
<1>t. /\ events' = Tail(events)
      /\ ev' = IF Lost(e) THEN NoEvent ELSE e
      /\ epc' = IF Lost(e) THEN "idle" ELSE FirstExtension
      /\ unsearched' = IF Lost(e) THEN unsearched \cup {e.peer} ELSE unsearched
      /\ \/ /\ e.kind = "available"
            /\ entries' = entries \cup {e.peer} /\ UNCHANGED <<transit, summary>>
         \/ /\ e.kind \in {"completed", "aborted"}
            /\ Release(e) /\ AddToSummary(e) /\ UNCHANGED entries
         \/ UNCHANGED slotVars
      /\ UNCHANGED <<storeVars, nodeVars, jobs, threadVars, retryVars, faults>>
  BY DEF TakeEvent
<1> HIDE DEF e
<1>1. StoreTypeOK' /\ ThreadTypeOK' /\ RetryTypeOK' /\ jobs' \in Seq(JobType)
  BY <1>t, TypeUnchanged
<1>2. NodeTypeOK'
  BY <1>t, <1>e, EventFields DEF NodeTypeOK, nodeVars, Lost
<1>3. EventTypeOK'
  BY <1>t, <1>e, EventFields DEF EventTypeOK, FirstExtension
<1>4. SlotTypeOK'
  <2>1. CASE e.kind = "available" /\ entries' = entries \cup {e.peer} /\ UNCHANGED <<transit, summary>>
    BY <2>1, <1>e, EventFields DEF SlotTypeOK
  <2>2. CASE e.kind \in {"completed", "aborted"} /\ Release(e) /\ AddToSummary(e) /\ UNCHANGED entries
    <3>1. e.peer \in Peers /\ e.bundle \in Bundles
      BY <2>2, <1>e, EventFields
    <3>2. transit' \in [Peers -> SUBSET Bundles] /\ summary' \in [Peers -> SUBSET Bundles]
      BY <2>2, <3>1 DEF SlotTypeOK, Release, AddToSummary
    <3>3. ASSUME NEW p \in Peers
          PROVE  Cardinality(transit'[p]) <= TransitMax
      <4>1. transit'[p] \subseteq transit[p] /\ IsFiniteSet(transit[p])
        BY <2>2, RoutingAssumption, FS_Subset DEF Release, SlotTypeOK
      <4>2. /\ Cardinality(transit'[p]) <= Cardinality(transit[p])
            /\ Cardinality(transit'[p]) \in Nat /\ Cardinality(transit[p]) \in Nat
        BY <4>1, FS_Subset, FS_CardinalityType
      <4> QED
        BY <4>2, RoutingAssumption DEF SlotTypeOK
    <3> QED
      BY <2>2, <3>2, <3>3 DEF SlotTypeOK
  <2> QED
    BY <1>t, <2>1, <2>2, TypeUnchanged
<1> QED
  BY <1>t, <1>e, <1>1, <1>2, <1>3, <1>4

LEMMA TypeNotify ==
  ASSUME TypeInv, NotifyFlooding \/ NotifyNeighbor \/ NotifyRetransmission
  PROVE  TypeInv'
<1> USE DEF TypeInv
<1>e. ev \in EventType
  BY DEF NotifyFlooding, NotifyNeighbor, NotifyRetransmission, EventTypeOK
<1>p. ASSUME NEW t, NEW x \in TaskType, Push(t, x), UNCHANGED thr
      PROVE  ThreadTypeOK'
  <2>1. t \in Threads => Append(tasks[t], x) \in Seq(TaskType)
    BY DEF ThreadTypeOK
  <2>2. [tasks EXCEPT ![t] = Append(tasks[t], x)] \in [Threads -> Seq(TaskType)]
    BY <2>1, AssignmentType DEF ThreadTypeOK
  <2> QED
    BY <1>p, <2>2 DEF Push, ThreadTypeOK
<1>s. Process \in TaskType /\ (ev.kind \in {"available", "up", "aborted", "completed"} => Search(ev.peer) \in TaskType)
  BY <1>e, EventFields, TaskFields
<1>1. CASE NotifyFlooding
  <2>1. /\ SlotTypeOK' /\ StoreTypeOK' /\ NodeTypeOK' /\ RetryTypeOK'
        /\ jobs' \in Seq(JobType) /\ events' \in Seq(EventType)
        /\ faults' \in 0..MaxFaults
    BY <1>1, TypeUnchanged DEF NotifyFlooding, nodeVars
  <2>2. EventTypeOK'
    BY <1>1 DEF NotifyFlooding, EventTypeOK
  <2>3. ThreadTypeOK'
    BY <1>1, <1>p, <1>s, TypeUnchanged DEF NotifyFlooding, threadVars
  <2> QED
    BY <2>1, <2>2, <2>3
<1>2. CASE NotifyNeighbor
  <2>1. /\ SlotTypeOK' /\ RetryTypeOK'
        /\ jobs' \in Seq(JobType) /\ events' \in Seq(EventType)
        /\ faults' \in 0..MaxFaults
    BY <1>2, TypeUnchanged DEF NotifyNeighbor
  <2>2. EventTypeOK'
    BY <1>2 DEF NotifyNeighbor, EventTypeOK
  <2>3. ThreadTypeOK'
    BY <1>2, <1>p, <1>s, TypeUnchanged DEF NotifyNeighbor, threadVars
  <2>4. StoreTypeOK'
    BY <1>2 DEF NotifyNeighbor, StoreTypeOK
  <2>5. NodeTypeOK'
    BY <1>2, <1>e, EventFields DEF NotifyNeighbor, NodeTypeOK, nodeVars
  <2> QED
    BY <2>1, <2>2, <2>3, <2>4, <2>5
<1>3. CASE NotifyRetransmission
  <2>1. /\ SlotTypeOK' /\ StoreTypeOK' /\ ThreadTypeOK' /\ NodeTypeOK'
        /\ jobs' \in Seq(JobType) /\ faults' \in 0..MaxFaults
    BY <1>3, TypeUnchanged DEF NotifyRetransmission, nodeVars
  <2>2. EventTypeOK'
    BY <1>3 DEF NotifyRetransmission, EventTypeOK
  <2>t. tries' = tries
    BY <1>3 DEF NotifyRetransmission
  <2>3. CASE ev.kind = "requeue" /\ Requeue(ev.peer, ev.bundle)
    <3>1. ev.peer \in Peers /\ ev.bundle \in Bundles
      BY <2>3, <1>e, EventFields
    <3>2. AbortMsg(ev.peer, ev.bundle, "retry_limit") \in EventType
      BY <3>1, EventTypes DEF Reasons
    <3>3. CASE rset[ev.bundle] + 1 <= RetryMax
      <4>1. rset[ev.bundle] + 1 \in 1..RetryMax
        <5>1. rset[ev.bundle] \in 0..RetryMax /\ RetryMax \in Nat
          BY <3>1, RoutingAssumption DEF RetryTypeOK
        <5> QED
          BY <3>3, <5>1
      <4>2. Retry(ev.peer, ev.bundle, rset[ev.bundle] + 1) \in RetryType
        BY <3>1, <4>1 DEF Retry, RetryType
      <4>3. /\ rset' = [rset EXCEPT ![ev.bundle] = rset[ev.bundle] + 1]
            /\ rqueue' = Append(rqueue, Retry(ev.peer, ev.bundle, rset[ev.bundle] + 1))
            /\ events' = events
        BY <2>3, <3>3 DEF Requeue
      <4>4. rset' \in [Bundles -> 0..RetryMax]
        BY <3>1, <4>1, <4>3, RoutingAssumption DEF RetryTypeOK
      <4>5. rqueue' \in Seq(RetryType)
        BY <4>2, <4>3 DEF RetryTypeOK
      <4> QED
        BY <2>1, <2>2, <2>t, <4>3, <4>4, <4>5 DEF RetryTypeOK
    <3>4. CASE ~(rset[ev.bundle] + 1 <= RetryMax)
      <4>1. /\ rset' = [rset EXCEPT ![ev.bundle] = 0]
            /\ Raise(AbortMsg(ev.peer, ev.bundle, "retry_limit"))
            /\ rqueue' = rqueue
        BY <2>3, <3>4 DEF Requeue
      <4>2. rset' \in [Bundles -> 0..RetryMax]
        BY <3>1, <4>1, RoutingAssumption DEF RetryTypeOK
      <4>3. events' \in Seq(EventType)
        BY <3>2, <4>1 DEF Raise
      <4> QED
        BY <2>1, <2>2, <2>t, <4>1, <4>2, <4>3 DEF RetryTypeOK
    <3> QED
      BY <3>3, <3>4
  <2>4. CASE ev.kind = "expired" /\ DropExpired(ev.bundle)
    <3> DEFINE b == ev.bundle
               gone == Within(rqueue, {r \in RetryType : r.bundle = b})
               aborts == [i \in 1..Len(gone) |-> AbortMsg(gone[i].peer, b, "deleted")]
    <3>1. b \in Bundles
      BY <2>4, <1>e, EventFields
    <3>2. rqueue \in Seq(RetryType)
      BY DEF RetryTypeOK
    <3>3. gone \in Seq(RetryType \cap {r \in RetryType : r.bundle = b})
      BY <3>2, WithinType
    <3>4. rqueue' \in Seq(RetryType \cap {r \in RetryType : r.bundle # b})
      BY <2>4, <3>2, WithinType DEF DropExpired
    <3>5. events' = events \o aborts /\ rset' = rset
      BY <2>4 DEF DropExpired
    <3> HIDE DEF gone
    <3>6. aborts \in Seq(EventType)
      <4>1. \A i \in 1..Len(gone) : AbortMsg(gone[i].peer, b, "deleted") \in EventType
        BY <3>1, <3>3, EventTypes DEF Reasons, RetryType
      <4>2. Len(gone) \in Nat
        BY <3>3
      <4> QED
        BY <4>1, <4>2
    <3> HIDE DEF aborts
    <3>7. events' \in Seq(EventType)
      BY <3>5, <3>6
    <3>8. rqueue' \in Seq(RetryType)
      BY <3>4
    <3> QED
      BY <2>1, <2>2, <2>t, <3>5, <3>7, <3>8 DEF RetryTypeOK
  <2>5. CASE ev.kind \in {"completed", "aborted"} /\ Forget(ev) /\ UNCHANGED <<rqueue, events>>
    <3>1. ev.bundle \in Bundles
      BY <2>5, <1>e, EventFields
    <3> QED
      BY <2>1, <2>2, <2>5, <2>t, <3>1, RoutingAssumption DEF Forget, RetryTypeOK
  <2>6. CASE UNCHANGED <<rset, rqueue, events>>
    BY <2>1, <2>2, <2>6, <2>t DEF RetryTypeOK
  <2> QED
    BY <1>3, <2>3, <2>4, <2>5, <2>6 DEF NotifyRetransmission
<1> QED
  BY <1>1, <1>2, <1>3

\* BundleCore::transferTo takes a job or raises the event of its failure.
LEMMA HandOver ==
  ASSUME NEW p \in Peers, NEW b \in Bundles
  PROVE  /\ Job(p, b) \in JobType
         /\ jobs \in Seq(JobType) /\ Accepted(p, b) => jobs' \in Seq(JobType)
         /\ \A e : NotAvailable(p, b, e) => /\ e \in OutcomesOf(p, b) /\ jobs' = jobs
                                           /\ e \in EventType
         /\ \A e : faults \in 0..MaxFaults /\ NotAvailable(p, b, e) => faults' \in 0..MaxFaults
<1>1. Job(p, b) \in JobType
  BY DEF Job, JobType
<1>2. AbortMsg(p, b, "connection_down") \in OutcomesOf(p, b)
  BY DEF AbortMsg, OutcomesOf, Reasons
<1>3. TransferMsg("requeue", p, b) \in OutcomesOf(p, b)
  BY DEF TransferMsg, OutcomesOf
<1>4. AbortMsg(p, b, "connection_down") \in EventType /\ TransferMsg("requeue", p, b) \in EventType
  BY EventTypes DEF Reasons
<1>5. jobs \in Seq(JobType) /\ Accepted(p, b) => jobs' \in Seq(JobType)
  BY <1>1 DEF Accepted
<1> QED
  BY <1>1, <1>2, <1>3, <1>4, <1>5, FaultType DEF NotAvailable

LEMMA TypeRetransmit ==
  ASSUME TypeInv, Retransmit
  PROVE  TypeInv'
<1> USE DEF TypeInv
<1> DEFINE r == Head(rqueue)
<1>1. r \in RetryType /\ Tail(rqueue) \in Seq(RetryType)
  BY PopType DEF Retransmit, RetryTypeOK
<1>2. /\ rqueue' = Tail(rqueue) /\ rset' = rset
      /\ tries' = [tries EXCEPT ![<<r.peer, r.bundle>>] = @ + 1]
      /\ UNCHANGED <<slotVars, storeVars, nodeVars, eventVars, threadVars>>
      /\ \/ Accepted(r.peer, r.bundle) /\ UNCHANGED <<events, faults>>
         \/ \E e \in EventType : NotAvailable(r.peer, r.bundle, e) /\ Raise(e)
  BY DEF Retransmit
<1> HIDE DEF r
<1>3. r.peer \in Peers /\ r.bundle \in Bundles
  BY <1>1 DEF RetryType
<1>4. SlotTypeOK' /\ StoreTypeOK' /\ NodeTypeOK' /\ EventTypeOK' /\ ThreadTypeOK'
  BY <1>2, TypeUnchanged DEF nodeVars, eventVars
<1>5. RetryTypeOK'
  <2>1. tries' \in [Pairs -> Nat]
    BY <1>2, <1>3 DEF RetryTypeOK, Pairs
  <2> QED
    BY <1>1, <1>2, <2>1 DEF RetryTypeOK
<1>6. CASE Accepted(r.peer, r.bundle) /\ UNCHANGED <<events, faults>>
  BY <1>3, <1>4, <1>5, <1>6, HandOver
<1>7. ASSUME NEW e \in EventType, NotAvailable(r.peer, r.bundle, e), Raise(e)
      PROVE  TypeInv'
  <2>1. jobs' = jobs /\ faults' \in 0..MaxFaults
    BY <1>3, <1>7, HandOver
  <2>2. events' \in Seq(EventType)
    BY <1>7 DEF Raise
  <2> QED
    BY <1>4, <1>5, <2>1, <2>2
<1> QED
  BY <1>2, <1>6, <1>7

\* The steps of the routing threads.
LEMMA StepType ==
  ASSUME ThreadTypeOK, NEW t \in Threads, thr[t].pc \in {"list", "raise"}
  PROVE  /\ Step(t) \in ThreadType
         /\ thr[t].peer \in Peers /\ Head(thr[t].list) \in Bundles
         /\ Step(t).pc # "raise"
<1>1. thr[t] \in ThreadType
  BY DEF ThreadTypeOK
<1>2. thr[t].peer \in Peers /\ thr[t].list \in Seq(Bundles) /\ thr[t].list # <<>>
  BY <1>1, ThreadFields
<1> DEFINE list == thr[t].list
           more == [pc |-> "list", peer |-> thr[t].peer, list |-> Tail(list)]
<1>3. Head(list) \in Bundles
  BY <1>2
<1>4. ASSUME Len(list) # 1
      PROVE  Tail(list) \in Seq(Bundles) /\ Tail(list) # <<>>
  <2> DEFINE rest == Tail(list)
  <2>1. rest \in Seq(Bundles) /\ Len(rest) = Len(list) - 1 /\ Len(list) \in Nat \ {0}
    BY <1>2
  <2> HIDE DEF rest
  <2>2. Len(rest) # 0
    BY <1>4, <2>1
  <2>3. rest # <<>>
    BY <2>2
  <2> QED
    BY <2>1, <2>3 DEF rest
<1>5. Step(t) = IF Len(list) = 1 THEN Idle ELSE more
  BY DEF Step
<1> HIDE DEF list
<1>6. Idle \in ThreadType /\ Idle.pc # "raise" /\ more.pc # "raise"
  BY DEF Idle, ThreadType
<1>7. Len(list) # 1 => more \in ThreadType
  BY <1>2, <1>4 DEF ThreadType
<1> QED
  BY <1>2, <1>3, <1>5, <1>6, <1>7 DEF list

LEMMA TypeRoutingThread ==
  ASSUME TypeInv, NEW t \in Threads, RoutingThread(t)
  PROVE  TypeInv'
<1> USE DEF TypeInv
<1>h. ASSUME thr' = [thr EXCEPT ![t] = thr'[t]], thr'[t] \in ThreadType, tasks' \in [Threads -> Seq(TaskType)]
      PROVE  ThreadTypeOK'
  BY <1>h DEF ThreadTypeOK
<1>k. tasks[t] # <<>> => Head(tasks[t]) \in TaskType /\ Tail(tasks[t]) \in Seq(TaskType)
  BY PopType DEF ThreadTypeOK
<1>1. CASE ProcessBundle(t)
  <2>1. /\ SlotTypeOK' /\ StoreTypeOK' /\ NodeTypeOK' /\ EventTypeOK' /\ RetryTypeOK'
        /\ jobs' \in Seq(JobType) /\ events' \in Seq(EventType) /\ faults' \in 0..MaxFaults
    BY <1>1, TypeUnchanged DEF ProcessBundle, nodeVars, eventVars
  <2>2. PICK s \in SetToSeqs(nodes) :
           tasks' = [tasks EXCEPT ![t] = Tail(@) \o [i \in 1..Len(s) |-> Search(s[i])]]
    BY <1>1 DEF ProcessBundle
  <2>3. s \in Seq(Peers)
    <3>1. IsFiniteSet(nodes)
      BY RoutingAssumption, FS_Subset DEF NodeTypeOK
    <3>2. Cardinality(nodes) \in Nat
      BY <3>1, FS_CardinalityType
    <3>3. s \in [1..Cardinality(nodes) -> nodes]
      BY <2>2 DEF SetToSeqs
    <3> QED
      BY <3>2, <3>3 DEF NodeTypeOK
  <2>4. [i \in 1..Len(s) |-> Search(s[i])] \in Seq(TaskType)
    BY <2>3, TaskFields
  <2>5. Tail(tasks[t]) \o [i \in 1..Len(s) |-> Search(s[i])] \in Seq(TaskType)
    <3> DEFINE a == Tail(tasks[t])
               b == [i \in 1..Len(s) |-> Search(s[i])]
    <3>1. a \in Seq(TaskType) /\ b \in Seq(TaskType)
      BY <1>1, <1>k, <2>4 DEF ProcessBundle
    <3> HIDE DEF a, b
    <3>2. a \o b \in Seq(TaskType)
      BY <3>1, Concatenation
    <3> QED
      BY <3>2 DEF a, b
  <2>6. ThreadTypeOK'
    BY <1>1, <2>2, <2>5 DEF ProcessBundle, ThreadTypeOK
  <2> QED
    BY <2>1, <2>6
<1>2. CASE SearchNextBundle(t)
  <2>1. /\ SlotTypeOK' /\ StoreTypeOK' /\ NodeTypeOK' /\ EventTypeOK' /\ RetryTypeOK'
        /\ jobs' \in Seq(JobType) /\ events' \in Seq(EventType) /\ faults' \in 0..MaxFaults
    BY <1>2, TypeUnchanged DEF SearchNextBundle, nodeVars, eventVars
  <2> DEFINE p == Head(tasks[t]).peer
  <2>2. p \in Peers
    BY <1>2, <1>k, TaskFields DEF SearchNextBundle
  <2> HIDE DEF p
  <2>3. PICK list \in UNION {[1..n -> storage] : n \in 0..SearchLimit} :
           thr' = [thr EXCEPT ![t] =
                 IF list = <<>> \/ (t = "flood" /\ p \notin entries) THEN Idle
                 ELSE [pc |-> "list", peer |-> p, list |-> list]]
    BY <1>2 DEF SearchNextBundle, p
  <2>4. list \in Seq(Bundles)
    <3>1. PICK n \in 0..SearchLimit : list \in [1..n -> storage]
      OBVIOUS
    <3>2. n \in Nat /\ storage \subseteq Bundles
      BY RoutingAssumption DEF StoreTypeOK
    <3> QED
      BY <3>1, <3>2
  <2>5. list # <<>> => [pc |-> "list", peer |-> p, list |-> list] \in ThreadType
    BY <2>2, <2>4 DEF ThreadType
  <2>6. Idle \in ThreadType
    BY DEF ThreadType
  <2>7. thr' \in [Threads -> ThreadType]
    BY <2>3, <2>5, <2>6 DEF ThreadTypeOK
  <2>8. tasks' \in [Threads -> Seq(TaskType)]
    BY <1>2, <1>k DEF SearchNextBundle, ThreadTypeOK
  <2> QED
    BY <2>1, <2>7, <2>8 DEF ThreadTypeOK
<1>3. CASE SkipTransfer(t)
  <2>1. /\ SlotTypeOK' /\ StoreTypeOK' /\ NodeTypeOK' /\ EventTypeOK' /\ RetryTypeOK'
        /\ jobs' \in Seq(JobType) /\ events' \in Seq(EventType) /\ faults' \in 0..MaxFaults
    BY <1>3, TypeUnchanged DEF SkipTransfer, nodeVars, eventVars
  <2>2. Step(t) \in ThreadType /\ Idle \in ThreadType
    BY <1>3, StepType DEF SkipTransfer, ThreadType
  <2>3. tasks' = tasks /\ (thr' = [thr EXCEPT ![t] = Step(t)] \/ thr' = [thr EXCEPT ![t] = Idle])
    BY <1>3 DEF SkipTransfer
  <2> QED
    BY <2>1, <2>2, <2>3 DEF ThreadTypeOK
<1>4. CASE Transfer(t)
  <2> DEFINE p == thr[t].peer
             b == Head(thr[t].list)
  <2>1. p \in Peers /\ b \in Bundles /\ Step(t) \in ThreadType
    BY <1>4, StepType DEF Transfer
  <2>2. /\ ~Refused(p, b)
        /\ transit' = [transit EXCEPT ![p] = @ \cup {b}]
        /\ tries' = [tries EXCEPT ![<<p, b>>] = 0]
        /\ \/ Accepted(p, b) /\ thr' = [thr EXCEPT ![t] = Step(t)] /\ UNCHANGED faults
           \/ \E e \in EventType :
                /\ NotAvailable(p, b, e)
                /\ thr' = [thr EXCEPT ![t] = [pc |-> "raise", peer |-> p,
                                             list |-> thr[t].list, evt |-> e]]
        /\ UNCHANGED <<entries, summary, storeVars, nodeVars, events, eventVars, tasks, rset, rqueue>>
    BY <1>4 DEF Transfer
  <2>l. thr[t].list \in Seq(Bundles) /\ thr[t].list # <<>>
    BY <1>4, ThreadFields DEF Transfer, ThreadTypeOK
  <2> HIDE DEF p, b
  <2>3. StoreTypeOK' /\ NodeTypeOK' /\ EventTypeOK' /\ events' \in Seq(EventType)
    BY <2>2, TypeUnchanged DEF nodeVars, eventVars
  <2>4. RetryTypeOK'
    BY <2>1, <2>2 DEF RetryTypeOK, Pairs
  <2>5. SlotTypeOK'
    <3>1. transit' \in [Peers -> SUBSET Bundles]
      BY <2>1, <2>2 DEF SlotTypeOK
    <3>2. ASSUME NEW q \in Peers
          PROVE  Cardinality(transit'[q]) <= TransitMax
      <4>1. CASE q # p
        BY <2>1, <2>2, <4>1 DEF SlotTypeOK
      <4>2. CASE q = p
        <5>1. transit'[q] = transit[p] \cup {b} /\ IsFiniteSet(transit[p])
          BY <2>1, <2>2, <4>2, RoutingAssumption, FS_Subset DEF SlotTypeOK
        <5>2. b \notin transit[p] /\ ~(Cardinality(transit[p]) >= TransitMax)
          BY <2>2 DEF Refused
        <5>3. Cardinality(transit[p]) \in Nat
          BY <5>1, FS_CardinalityType
        <5>4. Cardinality(transit[p] \cup {b}) = Cardinality(transit[p]) + 1
          BY <5>1, <5>2, FS_AddElement
        <5> QED
          BY <5>1, <5>2, <5>3, <5>4, RoutingAssumption
      <4> QED
        BY <4>1, <4>2
    <3> QED
      BY <2>2, <3>1, <3>2 DEF SlotTypeOK
  <2>6. CASE Accepted(p, b) /\ thr' = [thr EXCEPT ![t] = Step(t)] /\ UNCHANGED faults
    <3>1. jobs' \in Seq(JobType)
      BY <2>1, <2>6, HandOver
    <3>2. ThreadTypeOK'
      BY <2>1, <2>2, <2>6 DEF ThreadTypeOK
    <3> QED
      BY <2>3, <2>4, <2>5, <2>6, <3>1, <3>2
  <2>7. ASSUME NEW e \in EventType, NotAvailable(p, b, e),
               thr' = [thr EXCEPT ![t] = [pc |-> "raise", peer |-> p,
                                          list |-> thr[t].list, evt |-> e]]
        PROVE  TypeInv'
    <3>1. jobs' = jobs /\ faults' \in 0..MaxFaults
      BY <2>1, <2>7, HandOver
    <3>2. [pc |-> "raise", peer |-> p, list |-> thr[t].list, evt |-> e] \in ThreadType
      BY <2>1, <2>l DEF ThreadType
    <3>3. ThreadTypeOK'
      BY <2>2, <2>7, <3>2 DEF ThreadTypeOK
    <3> QED
      BY <2>3, <2>4, <2>5, <3>1, <3>3
  <2> QED
    BY <2>2, <2>6, <2>7
<1>5. CASE RaiseFailure(t)
  <2>1. /\ SlotTypeOK' /\ StoreTypeOK' /\ NodeTypeOK' /\ EventTypeOK' /\ RetryTypeOK'
        /\ jobs' \in Seq(JobType) /\ faults' \in 0..MaxFaults
    BY <1>5, TypeUnchanged DEF RaiseFailure, nodeVars, eventVars
  <2>2. thr[t].evt \in EventType /\ Step(t) \in ThreadType
    BY <1>5, StepType, ThreadFields DEF RaiseFailure, ThreadTypeOK
  <2>3. events' \in Seq(EventType)
    BY <1>5, <2>2 DEF RaiseFailure, Raise
  <2>4. ThreadTypeOK'
    BY <1>5, <2>2 DEF RaiseFailure, ThreadTypeOK
  <2> QED
    BY <2>1, <2>3, <2>4
<1> QED
  BY <1>1, <1>2, <1>3, <1>4, <1>5 DEF RoutingThread

\* A job that is done leaves the queue of the convergence layer.
LEMMA JobDone ==
  ASSUME jobs \in Seq(JobType), NEW i \in 1..Len(jobs)
  PROVE  /\ jobs[i].peer \in Peers /\ jobs[i].bundle \in Bundles
         /\ Done(i) => /\ jobs' \in Seq(JobType)
                       /\ \A S : Count(jobs, S) = Count(jobs', S) + (IF jobs[i] \in S THEN 1 ELSE 0)
<1>1. jobs[i] \in JobType
  OBVIOUS
<1>2. jobs[i].peer \in Peers /\ jobs[i].bundle \in Bundles
  BY <1>1 DEF JobType
<1>3. ASSUME Done(i)
      PROVE  /\ jobs' \in Seq(JobType)
             /\ \A S : Count(jobs, S) = Count(jobs', S) + (IF jobs[i] \in S THEN 1 ELSE 0)
  <2> DEFINE t == SubSeq(jobs, 1, i - 1) \o SubSeq(jobs, i + 1, Len(jobs))
  <2>1. jobs' = t
    BY <1>3 DEF Done, RemoveAt
  <2>2. /\ t \in Seq(JobType)
        /\ \A S : Count(jobs, S) = Count(t, S) + (IF jobs[i] \in S THEN 1 ELSE 0)
    BY CountRemoved
  <2> HIDE DEF t
  <2> QED
    BY <2>1, <2>2
<1> QED
  BY <1>2, <1>3

\* The steps of the convergence layer.
LEMMA TypeSettle ==
  ASSUME TypeInv, NEW i \in 1..Len(jobs), Settle(i)
  PROVE  TypeInv'
<1> USE DEF TypeInv
<1> DEFINE p == jobs[i].peer
           b == jobs[i].bundle
<1>j. p \in Peers /\ b \in Bundles /\ (Done(i) => jobs' \in Seq(JobType))
  BY JobDone
<1>e. /\ \A r \in Reasons : AbortMsg(p, b, r) \in EventType
      /\ TransferMsg("completed", p, b) \in EventType /\ TransferMsg("requeue", p, b) \in EventType
  BY <1>j, EventTypes
<1>r. ASSUME NEW e \in EventType, Raise(e)
      PROVE  events' \in Seq(EventType)
  BY <1>r DEF Raise
<1>1. /\ SlotTypeOK' /\ StoreTypeOK' /\ EventTypeOK' /\ ThreadTypeOK' /\ RetryTypeOK'
  BY TypeUnchanged DEF Settle, LoadBundle, CompleteJob, RequeueJob, AbortJob, RefuseAndStore,
     FailSilently, eventVars
<1>2. NodeTypeOK'
  BY DEF Settle, LoadBundle, CompleteJob, RequeueJob, AbortJob, RefuseAndStore,
     FailSilently, NodeTypeOK, nodeVars, eventVars
<1>3. faults' \in 0..MaxFaults
  BY FaultType DEF Settle, LoadBundle, CompleteJob, RequeueJob, AbortJob, RefuseAndStore,
     FailSilently
<1>4. jobs' \in Seq(JobType)
  <2>1. jobs' = [jobs EXCEPT ![i].loaded = TRUE] => jobs' \in Seq(JobType)
    <3>1. jobs[i] \in JobType
      OBVIOUS
    <3>2. [jobs[i] EXCEPT !.loaded = TRUE] \in JobType
      BY <3>1 DEF JobType
    <3> QED
      BY <3>2
  <2> QED
    BY <1>j, <2>1 DEF Settle, LoadBundle, CompleteJob, RequeueJob, AbortJob, RefuseAndStore,
       FailSilently
<1>5. events' \in Seq(EventType)
  <2>1. CASE RefuseAndStore(i)
    <3> DEFINE two == <<AbortMsg(p, b, "refused"), TransferMsg("completed", p, b)>>
    <3>1. two \in Seq(EventType)
      BY <1>e DEF Reasons
    <3>2. events' = events \o two
      BY <2>1 DEF RefuseAndStore
    <3> HIDE DEF two
    <3> QED
      BY <3>1, <3>2
  <2>2. CASE LoadBundle(i)
    BY <2>2, <1>e, <1>r DEF LoadBundle, Reasons
  <2>3. CASE CompleteJob(i) \/ RequeueJob(i)
    BY <2>3, <1>e, <1>r DEF CompleteJob, RequeueJob
  <2>4. CASE \E r \in Reasons : AbortJob(i, r)
    BY <2>4, <1>e, <1>r DEF AbortJob
  <2>5. CASE FailSilently(i)
    BY <2>5 DEF FailSilently
  <2> QED
    BY <2>1, <2>2, <2>3, <2>4, <2>5 DEF Settle
<1> QED
  BY <1>1, <1>2, <1>3, <1>4, <1>5

LEMMA TypeStep == TypeInv /\ [Next]_vars => TypeInv'
<1>1. TypeInv /\ Next => TypeInv'
  BY TypeOutside, TypeTakeEvent, TypeNotify, TypeRetransmit, TypeRoutingThread, TypeSettle
     DEF Next, EventThread
<1>2. TypeInv /\ UNCHANGED vars => TypeInv'
  BY TypeUnchanged DEF vars, TypeInv, nodeVars, eventVars
<1> QED
  BY <1>1, <1>2

\* The variables of the routing core keep their types; in particular no
\* neighbour ever holds more than TransitMax transfer slots, and every counter
\* of RetransmissionExtension stays within the bound at which it gives up.
THEOREM TypeCorrect == Spec => []TypeOK
<1>1. Init => TypeInv
  BY TypeInit
<1>2. TypeInv /\ [Next]_vars => TypeInv'
  BY TypeStep
<1>3. TypeInv <=> TypeOK
  BY TypeParts
<1> QED
  BY <1>1, <1>2, <1>3, PTL DEF Spec

-----------------------------------------------------------------------------
(* Slots and their holders.                                                *)

\* The five kinds of holders, one by one.
InJobs(p, b)    == Count(jobs, JobsOf(p, b))
InEvents(p, b)  == Count(events, OutcomesOf(p, b))
InHandler(p, b) == IF ev = TransferMsg("requeue", p, b) THEN 1 ELSE 0
InRetries(p, b) == Count(rqueue, RetriesOf(p, b))
InThreads(p, b) == Cardinality(Reporting(p, b))

LEMMA HoldersSum ==
  ASSUME NEW p, NEW b
  PROVE  /\ Holders(p, b) = InJobs(p, b) + InEvents(p, b) + InHandler(p, b)
                              + InRetries(p, b) + InThreads(p, b)
         /\ Holders(p, b)' = InJobs(p, b)' + InEvents(p, b)' + InHandler(p, b)'
                               + InRetries(p, b)' + InThreads(p, b)'
  BY DEF Holders, InJobs, InEvents, InHandler, InRetries, InThreads

LEMMA ThreadsFinite == IsFiniteSet(Threads)
<1>1. IsFiniteSet({"neighbor"})
  BY FS_Singleton
<1>2. IsFiniteSet({"neighbor"} \cup {"flood"})
  BY <1>1, FS_AddElement
<1> QED
  BY <1>2, FS_Subset DEF Threads

\* Every kind is counted with a number.
LEMMA HoldersType ==
  ASSUME NEW p, NEW b
  PROVE  /\ TypeInv => /\ InJobs(p, b) \in Nat /\ InEvents(p, b) \in Nat /\ InHandler(p, b) \in Nat
                       /\ InRetries(p, b) \in Nat /\ InThreads(p, b) \in Nat
         /\ TypeInv' => /\ InJobs(p, b)' \in Nat /\ InEvents(p, b)' \in Nat /\ InHandler(p, b)' \in Nat
                        /\ InRetries(p, b)' \in Nat /\ InThreads(p, b)' \in Nat
<1>1. IsFiniteSet(Threads)
  BY ThreadsFinite
<1>2. InThreads(p, b) \in Nat /\ InThreads(p, b)' \in Nat
  <2>1. Reporting(p, b) \subseteq Threads /\ Reporting(p, b)' \subseteq Threads
    BY DEF Reporting
  <2>2. IsFiniteSet(Reporting(p, b)) /\ IsFiniteSet(Reporting(p, b)')
    BY <1>1, <2>1, FS_Subset
  <2> QED
    BY <2>2, FS_CardinalityType DEF InThreads
<1>3. InHandler(p, b) \in Nat /\ InHandler(p, b)' \in Nat
  BY DEF InHandler
<1>4. TypeInv => InJobs(p, b) \in Nat /\ InEvents(p, b) \in Nat /\ InRetries(p, b) \in Nat
  BY CountType DEF TypeInv, RetryTypeOK, InJobs, InEvents, InRetries
<1>5. TypeInv' => InJobs(p, b)' \in Nat /\ InEvents(p, b)' \in Nat /\ InRetries(p, b)' \in Nat
  BY CountType DEF TypeInv, RetryTypeOK, InJobs, InEvents, InRetries
<1> QED
  BY <1>2, <1>3, <1>4, <1>5

\* What a step does to a slot and to its holders: nothing, or both come or go,
\* or one of the two exceptions of SlotHasOneHolder.
Kept(p, b) ==
  (b \in transit'[p] <=> b \in transit[p]) /\ Holders(p, b)' = Holders(p, b)
Acquired(p, b) ==
  b \notin transit[p] /\ b \in transit'[p] /\ Holders(p, b)' = Holders(p, b) + 1
Released(p, b) ==
  b \notin transit'[p] /\ Holders(p, b)' = Holders(p, b) - 1
Doubled(p, b) ==
  /\ "twice" \in odd' /\ (b \in transit'[p] <=> b \in transit[p])
  /\ Holders(p, b)' = Holders(p, b) + 1
Silenced(p, b) ==
  /\ "silent" \in odd' /\ (b \in transit'[p] <=> b \in transit[p])
  /\ Holders(p, b)' = Holders(p, b) - 1

\* Any of them keeps the invariant.
LEMMA SlotsFollow ==
  ASSUME TypeInv, TypeInv', SlotHasOneHolder, odd \subseteq odd',
         \A p \in Peers, b \in Bundles :
           \/ Kept(p, b) \/ Acquired(p, b) \/ Released(p, b)
           \/ Doubled(p, b) \/ Silenced(p, b)
  PROVE  SlotHasOneHolder'
<1>t. \A p \in Peers : transit[p] \subseteq Bundles /\ transit'[p] \subseteq Bundles
  BY DEF TypeInv, SlotTypeOK
<1>n. \A p \in Peers, b \in Bundles : Holders(p, b) \in Nat /\ Holders(p, b)' \in Nat
  BY HoldersSum, HoldersType
<1>1. ASSUME "silent" \notin odd', NEW p \in Peers, NEW b \in transit'[p]
      PROVE  Holders(p, b)' > 0
  <2>1. b \in Bundles
    BY <1>t
  <2>2. b \in transit[p] => Holders(p, b) > 0
    BY <1>1 DEF SlotHasOneHolder, NoSlotLeaks
  <2>3. Kept(p, b) \/ Acquired(p, b) \/ Doubled(p, b)
    BY <1>1, <2>1 DEF Released, Silenced
  <2>4. Holders(p, b) \in Nat
    BY <1>n, <2>1
  <2> QED
    BY <2>2, <2>3, <2>4 DEF Kept, Acquired, Doubled
<1>2. ASSUME "twice" \notin odd', NEW p \in Peers, NEW b \in Bundles
      PROVE  Holders(p, b)' <= IF b \in transit'[p] THEN 1 ELSE 0
  <2>1. Holders(p, b) <= IF b \in transit[p] THEN 1 ELSE 0
    BY <1>2 DEF SlotHasOneHolder, NoDoubleTransfer
  <2>2. Kept(p, b) \/ Acquired(p, b) \/ Released(p, b) \/ Silenced(p, b)
    BY <1>2 DEF Doubled
  <2>3. Holders(p, b) \in Nat
    BY <1>n
  <2> QED
    BY <2>1, <2>2, <2>3 DEF Kept, Acquired, Released, Silenced
<1> QED
  BY <1>1, <1>2 DEF SlotHasOneHolder, NoSlotLeaks, NoDoubleTransfer

\* What is left alone holds what it held.
LEMMA HoldersUnchanged ==
  ASSUME NEW p, NEW b
  PROVE  /\ UNCHANGED jobs => InJobs(p, b)' = InJobs(p, b)
         /\ UNCHANGED events => InEvents(p, b)' = InEvents(p, b)
         /\ UNCHANGED ev => InHandler(p, b)' = InHandler(p, b)
         /\ UNCHANGED rqueue => InRetries(p, b)' = InRetries(p, b)
         /\ UNCHANGED thr => InThreads(p, b)' = InThreads(p, b)
  BY DEF InJobs, InEvents, InHandler, InRetries, InThreads, Reporting

\* An event that is raised holds the slot it is the outcome of.
LEMMA RaisedHolds ==
  ASSUME TypeInv, NEW p \in Peers, NEW b \in Bundles, NEW e \in EventType, Raise(e)
  PROVE  InEvents(p, b)' = InEvents(p, b) + (IF e \in OutcomesOf(p, b) THEN 1 ELSE 0)
<1>1. events' = Append(events, e) /\ events \in Seq(EventType)
  BY DEF Raise, TypeInv
<1>2. Count(Append(events, e), OutcomesOf(p, b))
        = Count(events, OutcomesOf(p, b)) + (IF e \in OutcomesOf(p, b) THEN 1 ELSE 0)
  BY <1>1, CountAppend
<1> QED
  BY <1>1, <1>2 DEF InEvents

\* So does a job that is accepted, ...
LEMMA AcceptedHolds ==
  ASSUME TypeInv, NEW p \in Peers, NEW b \in Bundles,
         NEW q \in Peers, NEW c \in Bundles, Accepted(q, c)
  PROVE  InJobs(p, b)' = InJobs(p, b) + (IF q = p /\ c = b THEN 1 ELSE 0)
<1>1. jobs' = Append(jobs, Job(q, c)) /\ jobs \in Seq(JobType) /\ Job(q, c) \in JobType
  BY HandOver DEF Accepted, TypeInv
<1>2. Job(q, c) \in JobsOf(p, b) <=> q = p /\ c = b
  BY DEF Job, JobsOf
<1>3. Count(Append(jobs, Job(q, c)), JobsOf(p, b))
        = Count(jobs, JobsOf(p, b)) + (IF Job(q, c) \in JobsOf(p, b) THEN 1 ELSE 0)
  BY <1>1, CountAppend
<1> QED
  BY <1>1, <1>2, <1>3 DEF InJobs

\* ... until it is done.
LEMMA DoneHolds ==
  ASSUME TypeInv, NEW p \in Peers, NEW b \in Bundles, NEW i \in 1..Len(jobs), Done(i)
  PROVE  InJobs(p, b) = InJobs(p, b)' + (IF jobs[i].peer = p /\ jobs[i].bundle = b THEN 1 ELSE 0)
<1>1. jobs[i] \in JobType
  BY DEF TypeInv
<1>2. jobs[i] \in JobsOf(p, b) <=> jobs[i].peer = p /\ jobs[i].bundle = b
  BY <1>1 DEF JobsOf, JobType
<1>3. Count(jobs, JobsOf(p, b)) = Count(jobs', JobsOf(p, b)) + (IF jobs[i] \in JobsOf(p, b) THEN 1 ELSE 0)
  BY JobDone DEF TypeInv
<1> QED
  BY <1>2, <1>3 DEF InJobs

\* A thread holds the slot of the bundle whose failure it is about to report.
Reports(x, p, b) == x.pc = "raise" /\ x.evt \in OutcomesOf(p, b)
Moves(t, x) == thr' = [thr EXCEPT ![t] = x]

LEMMA ThreadHolds ==
  ASSUME TypeInv, NEW p \in Peers, NEW b \in Bundles, NEW t \in Threads, NEW x,
         Moves(t, x)
  PROVE  InThreads(p, b)' + (IF Reports(thr[t], p, b) THEN 1 ELSE 0)
           = InThreads(p, b) + (IF Reports(x, p, b) THEN 1 ELSE 0)
<1> DEFINE R == Reporting(p, b)
           Q == {u \in Threads : Reports(thr'[u], p, b)}
           Others == {u \in Threads \ {t} : Reports(thr[u], p, b)}
<1>1. IsFiniteSet(Others) /\ t \notin Others /\ Cardinality(Others) \in Nat
  <2>1. IsFiniteSet(Others)
    BY ThreadsFinite, FS_Subset
  <2> QED
    BY <2>1, FS_CardinalityType
<1>2. thr'[t] = x /\ \A u \in Threads \ {t} : thr'[u] = thr[u]
  BY DEF Moves, TypeInv, ThreadTypeOK
<1>3. R = IF Reports(thr[t], p, b) THEN Others \cup {t} ELSE Others
  BY DEF Reporting, Reports
<1>4. Q = IF Reports(x, p, b) THEN Others \cup {t} ELSE Others
  BY <1>2
<1>5. Cardinality(Others \cup {t}) = Cardinality(Others) + 1
  BY <1>1, FS_AddElement
<1>6. InThreads(p, b) = Cardinality(R) /\ InThreads(p, b)' = Cardinality(Q)
  BY DEF InThreads, Reporting, Reports
<1> HIDE DEF R, Q, Others
<1> QED
  BY <1>1, <1>3, <1>4, <1>5, <1>6

\* A failed hand-over is an outcome of that transfer and of no other.
LEMMA FailureOf ==
  ASSUME NEW p \in Peers, NEW b \in Bundles, NEW q \in Peers, NEW c \in Bundles,
         NEW e, NotAvailable(q, c, e)
  PROVE  e \in OutcomesOf(p, b) <=> q = p /\ c = b
<1>1. e \in EventType /\ e \in OutcomesOf(q, c)
  BY HandOver
<1>2. e.kind \in {"completed", "requeue", "aborted"} /\ e.peer = q /\ e.bundle = c
  BY <1>1, OutcomeFields
<1> QED
  BY <1>1, <1>2, OutcomeFields

\* Messages and the transfers they are outcomes of.
LEMMA MessageOf ==
  ASSUME NEW p \in Peers, NEW b \in Bundles, NEW q \in Peers, NEW c \in Bundles
  PROVE  /\ \A k \in {"completed", "requeue"} :
              TransferMsg(k, q, c) \in OutcomesOf(p, b) <=> q = p /\ c = b
         /\ \A r \in Reasons : AbortMsg(q, c, r) \in OutcomesOf(p, b) <=> q = p /\ c = b
         /\ \A k \in {"queued", "expired"} : BundleMsg(k, c) \notin OutcomesOf(p, b)
         /\ \A k \in {"available", "unavailable", "up"} : NodeMsg(k, q) \notin OutcomesOf(p, b)
<1>1. \A k \in {"completed", "requeue"} :
        TransferMsg(k, q, c) \in OutcomesOf(p, b) <=> q = p /\ c = b
  BY DEF TransferMsg, OutcomesOf
<1>2. \A r \in Reasons : AbortMsg(q, c, r) \in OutcomesOf(p, b) <=> q = p /\ c = b
  BY DEF AbortMsg, OutcomesOf
<1>3. \A k \in {"queued", "expired"} : BundleMsg(k, c) \notin OutcomesOf(p, b)
  BY DEF BundleMsg, OutcomesOf
<1>4. \A k \in {"available", "unavailable", "up"} : NodeMsg(k, q) \notin OutcomesOf(p, b)
  BY DEF NodeMsg, OutcomesOf
<1> QED
  BY <1>1, <1>2, <1>3, <1>4

-----------------------------------------------------------------------------
(* The steps, one after the other.                                         *)

\* Neither nodes that come and go nor bundles that come and go touch a slot.
LEMMA SlotsOutside ==
  ASSUME TypeInv, NEW p \in Peers, NEW b \in Bundles,
         \/ \E q \in Peers : NodeAppears(q) \/ NodeVanishes(q) \/ ConnectionUp(q)
         \/ \E q \in Peers, c \in Remote : Receive(q, c)
         \/ \E c \in Local : Generate(c)
         \/ \E c \in Bundles : Expire(c)
  PROVE  Kept(p, b) /\ odd' = odd
<1>1. UNCHANGED <<transit, jobs, ev, rqueue, thr, odd>>
  BY DEF NodeAppears, NodeVanishes, ConnectionUp, Receive, Generate, Expire,
     slotVars, nodeVars, eventVars, threadVars, retryVars
<1>2. events' = events \/ \E e \in EventType : Raise(e) /\ e \notin OutcomesOf(p, b)
  <2>1. ASSUME NEW q \in Peers, NodeAppears(q) \/ NodeVanishes(q) \/ ConnectionUp(q)
        PROVE  \E e \in EventType : Raise(e) /\ e \notin OutcomesOf(p, b)
    <3>1. PICK k \in {"available", "unavailable", "up"} : Raise(NodeMsg(k, q))
      BY <2>1 DEF NodeAppears, NodeVanishes, ConnectionUp
    <3> QED
      BY <3>1, EventTypes, MessageOf
  <2>2. ASSUME NEW c \in Bundles, NEW k \in {"queued", "expired"}, Raise(BundleMsg(k, c))
        PROVE  \E e \in EventType : Raise(e) /\ e \notin OutcomesOf(p, b)
    BY <2>2, EventTypes, MessageOf
  <2>3. ASSUME NEW q \in Peers, NEW c \in Remote, Receive(q, c)
        PROVE  events' = events \/ \E e \in EventType : Raise(e) /\ e \notin OutcomesOf(p, b)
    BY <2>2, <2>3, RoutingAssumption DEF Receive
  <2>4. ASSUME NEW c \in Local, Generate(c)
        PROVE  \E e \in EventType : Raise(e) /\ e \notin OutcomesOf(p, b)
    BY <2>2, <2>4, RoutingAssumption DEF Generate
  <2>5. ASSUME NEW c \in Bundles, Expire(c)
        PROVE  \E e \in EventType : Raise(e) /\ e \notin OutcomesOf(p, b)
    BY <2>2, <2>5 DEF Expire
  <2> QED
    BY <2>1, <2>3, <2>4, <2>5
<1>3. InEvents(p, b)' = InEvents(p, b)
  <2>1. InEvents(p, b) \in Nat
    BY HoldersType
  <2> QED
    BY <1>2, <2>1, HoldersUnchanged, RaisedHolds
<1> QED
  BY <1>1, <1>3, HoldersSum, HoldersUnchanged DEF Kept

\* The router releases the slot of a transfer with the event that ends it, and
\* a requeued transfer is held by the handler of its event.
LEMMA SlotsTakeEvent ==
  ASSUME TypeInv, TypeInv', NEW p \in Peers, NEW b \in Bundles, TakeEvent
  PROVE  (Kept(p, b) \/ Released(p, b)) /\ odd' = odd
<1> DEFINE e == Head(events)
           rest == Tail(events)
<1>1. /\ events' = rest
      /\ ev = NoEvent
      /\ ev' = IF Lost(e) THEN NoEvent ELSE e
      /\ \/ e.kind \in {"completed", "aborted"} /\ Release(e)
         \/ e.kind \notin {"completed", "aborted"} /\ UNCHANGED transit
      /\ UNCHANGED <<jobs, rqueue, thr, odd>>
  BY DEF TakeEvent, TypeInv, EventTypeOK, slotVars, nodeVars, threadVars, retryVars
<1>2. /\ e \in EventType
      /\ Count(events, OutcomesOf(p, b))
           = Count(rest, OutcomesOf(p, b)) + (IF e \in OutcomesOf(p, b) THEN 1 ELSE 0)
  BY CountTail DEF TakeEvent, TypeInv
<1> HIDE DEF e, rest
<1>3. InEvents(p, b) = InEvents(p, b)' + (IF e \in OutcomesOf(p, b) THEN 1 ELSE 0)
  BY <1>1, <1>2 DEF InEvents
<1>4. /\ InJobs(p, b)' = InJobs(p, b) /\ InRetries(p, b)' = InRetries(p, b)
      /\ InThreads(p, b)' = InThreads(p, b)
  BY <1>1, HoldersUnchanged
<1>5. InHandler(p, b) = 0
  BY <1>1 DEF InHandler, NoEvent, TransferMsg
<1>6. e = TransferMsg("requeue", p, b) <=> e \in OutcomesOf(p, b) /\ e.kind = "requeue"
  <2>1. TransferMsg("requeue", p, b) \in OutcomesOf(p, b) /\ TransferMsg("requeue", p, b).kind = "requeue"
    BY DEF TransferMsg, OutcomesOf
  <2>2. e \in OutcomesOf(p, b) /\ e.kind = "requeue" => e = TransferMsg("requeue", p, b)
    BY DEF TransferMsg, OutcomesOf
  <2> QED
    BY <2>1, <2>2
<1>7. InHandler(p, b)' = IF e \in OutcomesOf(p, b) /\ e.kind = "requeue" THEN 1 ELSE 0
  <2>1. NoEvent # TransferMsg("requeue", p, b)
    BY DEF NoEvent, TransferMsg
  <2>2. Lost(e) => e.kind # "requeue"
    BY DEF Lost
  <2> QED
    BY <1>1, <1>6, <2>1, <2>2 DEF InHandler
<1>8. e \in OutcomesOf(p, b) <=>
        e.kind \in {"completed", "requeue", "aborted"} /\ e.peer = p /\ e.bundle = b
  BY <1>2, OutcomeFields
<1>n. /\ InJobs(p, b) \in Nat /\ InEvents(p, b)' \in Nat /\ InEvents(p, b) \in Nat
      /\ InRetries(p, b) \in Nat /\ InThreads(p, b) \in Nat
  BY HoldersType
<1>9. CASE e \in OutcomesOf(p, b) /\ e.kind # "requeue"
  <2>1. b \notin transit'[p]
    BY <1>1, <1>8, <1>9 DEF Release, TypeInv, SlotTypeOK
  <2>2. Holders(p, b)' = Holders(p, b) - 1
    BY <1>3, <1>4, <1>5, <1>7, <1>9, <1>n, HoldersSum
  <2> QED
    BY <1>1, <2>1, <2>2 DEF Released
<1>10. CASE ~(e \in OutcomesOf(p, b) /\ e.kind # "requeue")
  <2>1. b \in transit'[p] <=> b \in transit[p]
    <3>1. CASE e.kind \in {"completed", "aborted"} /\ Release(e)
      <4>1. e.peer # p \/ e.bundle # b
        BY <1>8, <1>10, <3>1
      <4> QED
        BY <3>1, <4>1 DEF Release, TypeInv, SlotTypeOK
    <3>2. CASE UNCHANGED transit
      BY <3>2
    <3> QED
      BY <1>1, <3>1, <3>2
  <2>2. Holders(p, b)' = Holders(p, b)
    BY <1>3, <1>4, <1>5, <1>7, <1>10, <1>n, HoldersSum
  <2> QED
    BY <1>1, <2>1, <2>2 DEF Kept
<1> QED
  BY <1>9, <1>10

\* The extensions keep a transfer that is to be retried, and give it up with
\* an event.
LEMMA SlotsNotify ==
  ASSUME TypeInv, TypeInv', NEW p \in Peers, NEW b \in Bundles,
         NotifyFlooding \/ NotifyNeighbor \/ NotifyRetransmission
  PROVE  Kept(p, b) /\ odd' = odd
<1>e. ev \in EventType
  BY DEF NotifyFlooding, NotifyNeighbor, NotifyRetransmission, EventTypeOK, TypeInv
<1>n. /\ InJobs(p, b) \in Nat /\ InEvents(p, b)' \in Nat /\ InEvents(p, b) \in Nat
      /\ InHandler(p, b) \in Nat
      /\ InRetries(p, b) \in Nat /\ InRetries(p, b)' \in Nat /\ InThreads(p, b) \in Nat
  BY HoldersType
<1>1. CASE NotifyFlooding \/ NotifyNeighbor
  <2>1. UNCHANGED <<transit, jobs, events, ev, rqueue, thr, odd>>
    BY <1>1 DEF NotifyFlooding, NotifyNeighbor, slotVars, nodeVars, retryVars
  <2> QED
    BY <2>1, HoldersSum, HoldersUnchanged DEF Kept
<1>2. CASE NotifyRetransmission
  <2>1. UNCHANGED <<transit, jobs, thr, odd>> /\ ev' = NoEvent
    BY <1>2 DEF NotifyRetransmission, slotVars, nodeVars, threadVars
  <2>2. /\ InJobs(p, b)' = InJobs(p, b) /\ InThreads(p, b)' = InThreads(p, b)
        /\ InHandler(p, b)' = 0
    BY <2>1, HoldersUnchanged DEF InHandler, NoEvent, TransferMsg
  <2>h. ASSUME InEvents(p, b)' + InRetries(p, b)' = InEvents(p, b) + InHandler(p, b) + InRetries(p, b)
        PROVE  Kept(p, b)
    BY SMTT(30), <2>1, <2>2, <2>h, <1>n, HoldersSum DEF Kept
  <2>3. CASE ev.kind = "requeue" /\ Requeue(ev.peer, ev.bundle)
    <3> DEFINE q == ev.peer
               c == ev.bundle
               n == rset[c] + 1
               same == IF q = p /\ c = b THEN 1 ELSE 0
    <3>1. q \in Peers /\ c \in Bundles
      BY <1>e, <2>3, EventFields
    <3>2. InHandler(p, b) = same
      <4>1. ev = TransferMsg("requeue", p, b) => q = p /\ c = b
        BY DEF TransferMsg
      <4>2. q = p /\ c = b => ev = TransferMsg("requeue", p, b)
        <5>1. ev \in [kind : {"completed", "requeue"}, peer : Peers, bundle : Bundles]
          BY <1>e, <2>3 DEF EventType
        <5> QED
          BY <2>3, <5>1 DEF TransferMsg
      <4> QED
        BY <4>1, <4>2 DEF InHandler
    <3>3. \/ /\ n \in 1..RetryMax /\ rqueue' = Append(rqueue, Retry(q, c, n)) /\ UNCHANGED events
          \/ Raise(AbortMsg(q, c, "retry_limit")) /\ UNCHANGED rqueue
      <4>1. rset[c] \in 0..RetryMax /\ RetryMax \in Nat
        BY <3>1, RoutingAssumption DEF TypeInv, RetryTypeOK
      <4> QED
        BY <2>3, <4>1 DEF Requeue
    <3> HIDE DEF q, c, n
    <3>4. CASE n \in 1..RetryMax /\ rqueue' = Append(rqueue, Retry(q, c, n)) /\ UNCHANGED events
      <4>1. Retry(q, c, n) \in RetryType /\ rqueue \in Seq(RetryType)
        BY <3>1, <3>4 DEF Retry, RetryType, TypeInv, RetryTypeOK
      <4>2. Retry(q, c, n) \in RetriesOf(p, b) <=> q = p /\ c = b
        BY <3>4 DEF Retry, RetriesOf
      <4>3. Count(Append(rqueue, Retry(q, c, n)), RetriesOf(p, b))
              = Count(rqueue, RetriesOf(p, b)) + (IF Retry(q, c, n) \in RetriesOf(p, b) THEN 1 ELSE 0)
        BY <4>1, CountAppend
      <4>4. InRetries(p, b)' = InRetries(p, b) + same
        BY <3>4, <4>2, <4>3 DEF InRetries
      <4>5. InEvents(p, b)' = InEvents(p, b)
        BY <3>4, HoldersUnchanged
      <4> QED
        BY <2>1, <2>h, <3>2, <4>4, <4>5, <1>n
    <3>5. CASE Raise(AbortMsg(q, c, "retry_limit")) /\ UNCHANGED rqueue
      <4>1. InEvents(p, b)' = InEvents(p, b) + same
        BY <3>1, <3>5, RaisedHolds, EventTypes, MessageOf DEF Reasons
      <4>2. InRetries(p, b)' = InRetries(p, b)
        BY <3>5, HoldersUnchanged
      <4> QED
        BY <2>1, <2>h, <3>2, <4>1, <4>2, <1>n
    <3> QED
      BY <3>3, <3>4, <3>5
  <2>o. ASSUME ev.kind # "requeue"
        PROVE  InHandler(p, b) = 0
    BY <2>o DEF InHandler, TransferMsg
  <2>4. CASE ev.kind = "expired" /\ DropExpired(ev.bundle)
    <3> DEFINE c == ev.bundle
               Mine == {r \in RetryType : r.bundle = c}
               Others == {r \in RetryType : r.bundle # c}
               gone == Within(rqueue, Mine)
               left == Within(rqueue, Others)
               aborts == [i \in 1..Len(gone) |-> AbortMsg(gone[i].peer, c, "deleted")]
    <3>1. c \in Bundles
      BY <1>e, <2>4, EventFields
    <3>2. rqueue' = left /\ events' = events \o aborts
      BY <2>4 DEF DropExpired
    <3>3. rqueue \in Seq(RetryType) /\ events \in Seq(EventType)
      BY DEF TypeInv, RetryTypeOK
    <3>4. gone \in Seq(RetryType \cap Mine) /\ Len(gone) \in Nat
      BY <3>3, WithinType
    <3>5. left \in Seq(RetryType \cap Others)
      BY <3>3, WithinType
    <3>6. RetriesOf(p, b) \subseteq RetryType
      BY DEF RetriesOf, RetryType
    <3>7. c = b => Count(gone, RetriesOf(p, b)) = Count(rqueue, RetriesOf(p, b))
      <4> SUFFICES ASSUME c = b
                   PROVE  Count(gone, RetriesOf(p, b)) = Count(rqueue, RetriesOf(p, b))
        OBVIOUS
      <4>1. RetriesOf(p, b) \subseteq Mine
        BY <3>6 DEF RetriesOf
      <4>2. PartOf(RetriesOf(p, b), Mine)
        BY <4>1 DEF PartOf
      <4> HIDE DEF Mine
      <4> QED
        BY <3>3, <4>2, WithinCount
    <3>8. c # b => Count(left, RetriesOf(p, b)) = Count(rqueue, RetriesOf(p, b))
      <4> SUFFICES ASSUME c # b
                   PROVE  Count(left, RetriesOf(p, b)) = Count(rqueue, RetriesOf(p, b))
        OBVIOUS
      <4>1. RetriesOf(p, b) \subseteq Others
        BY <3>6 DEF RetriesOf
      <4>2. PartOf(RetriesOf(p, b), Others)
        BY <4>1 DEF PartOf
      <4> HIDE DEF Others
      <4> QED
        BY <3>3, <4>2, WithinCount
    <3> HIDE DEF gone, left
    <3>9. c = b => Count(left, RetriesOf(p, b)) = 0
      <4>1. c = b => \A i \in 1..Len(left) : left[i] \notin RetriesOf(p, b)
        BY <3>5 DEF RetriesOf
      <4> QED
        BY <4>1, CountNone
    <3>10. aborts \in Seq(EventType) /\ Len(aborts) = Len(gone)
      <4>1. \A i \in 1..Len(gone) : AbortMsg(gone[i].peer, c, "deleted") \in EventType
        BY <3>1, <3>4, EventTypes DEF Reasons, RetryType
      <4> QED
        BY <3>4, <4>1
    <3>11. \A i \in 1..Len(gone) :
              aborts[i] \in OutcomesOf(p, b) <=> c = b /\ gone[i] \in RetriesOf(p, b)
      <4>1. SUFFICES ASSUME NEW i \in 1..Len(gone)
                     PROVE  aborts[i] \in OutcomesOf(p, b) <=> c = b /\ gone[i] \in RetriesOf(p, b)
        OBVIOUS
      <4>2. gone[i] \in RetryType /\ gone[i].bundle = c
        BY <3>4
      <4>3. aborts[i] = AbortMsg(gone[i].peer, c, "deleted") /\ gone[i].peer \in Peers
        BY <4>2 DEF RetryType
      <4>4. aborts[i] \in OutcomesOf(p, b) <=> gone[i].peer = p /\ c = b
        BY <3>1, <4>3, MessageOf DEF Reasons
      <4>5. gone[i] \in RetriesOf(p, b) <=> gone[i].peer = p /\ c = b
        BY <4>2 DEF RetriesOf, RetryType
      <4> QED
        BY <4>4, <4>5
    <3> HIDE DEF aborts
    <3>12. c = b => Count(aborts, OutcomesOf(p, b)) = Count(gone, RetriesOf(p, b))
      BY <3>10, <3>11, CountAlike
    <3>13. c # b => Count(aborts, OutcomesOf(p, b)) = 0
      BY <3>10, <3>11, CountNone
    <3>14. InEvents(p, b)' = InEvents(p, b) + Count(aborts, OutcomesOf(p, b))
      BY <3>2, <3>3, <3>10, CountConcat DEF InEvents
    <3>15. InRetries(p, b)' = Count(left, RetriesOf(p, b))
      BY <3>2 DEF InRetries
    <3> QED
      BY <2>1, <2>4, <2>h, <2>o, <3>7, <3>8, <3>9, <3>12, <3>13, <3>14, <3>15, <1>n DEF InRetries
  <2>5. CASE ev.kind # "requeue" /\ UNCHANGED <<rqueue, events>>
    BY <2>1, <2>5, <2>h, <2>o, <1>n, HoldersUnchanged
  <2> QED
    BY <1>2, <2>1, <2>3, <2>4, <2>5 DEF NotifyRetransmission
<1> QED
  BY <1>1, <1>2

\* A retransmission that fails is reported, one that succeeds is a job again.
LEMMA SlotsRetransmit ==
  ASSUME TypeInv, TypeInv', NEW p \in Peers, NEW b \in Bundles, Retransmit
  PROVE  Kept(p, b) /\ odd' = odd
<1> DEFINE r == Head(rqueue)
           rest == Tail(rqueue)
           same == IF r.peer = p /\ r.bundle = b THEN 1 ELSE 0
<1>1. /\ rqueue' = rest
      /\ UNCHANGED <<transit, ev, thr, odd>>
      /\ \/ Accepted(r.peer, r.bundle) /\ UNCHANGED events
         \/ \E e \in EventType : NotAvailable(r.peer, r.bundle, e) /\ Raise(e)
  BY DEF Retransmit, slotVars, nodeVars, eventVars, threadVars
<1>2. /\ r \in RetryType
      /\ Count(rqueue, RetriesOf(p, b))
           = Count(rest, RetriesOf(p, b)) + (IF r \in RetriesOf(p, b) THEN 1 ELSE 0)
  BY CountTail DEF Retransmit, TypeInv, RetryTypeOK
<1> HIDE DEF r, rest
<1>3. r.peer \in Peers /\ r.bundle \in Bundles
  BY <1>2 DEF RetryType
<1>4. r \in RetriesOf(p, b) <=> r.peer = p /\ r.bundle = b
  BY <1>2 DEF RetriesOf, RetryType
<1>5. InRetries(p, b) = InRetries(p, b)' + same
  BY <1>1, <1>2, <1>4 DEF InRetries
<1>6. InHandler(p, b)' = InHandler(p, b) /\ InThreads(p, b)' = InThreads(p, b)
  BY <1>1, HoldersUnchanged
<1>n. /\ InJobs(p, b) \in Nat /\ InEvents(p, b) \in Nat /\ InRetries(p, b) \in Nat
      /\ InRetries(p, b)' \in Nat /\ InHandler(p, b) \in Nat /\ InThreads(p, b) \in Nat
  BY HoldersType
<1>7. CASE Accepted(r.peer, r.bundle) /\ UNCHANGED events
  <2>1. InJobs(p, b)' = InJobs(p, b) + same
    BY <1>3, <1>7, AcceptedHolds
  <2>2. InEvents(p, b)' = InEvents(p, b)
    BY <1>7, HoldersUnchanged
  <2> QED
    BY <1>1, <1>5, <1>6, <1>n, <2>1, <2>2, HoldersSum DEF Kept
<1>8. ASSUME NEW e \in EventType, NotAvailable(r.peer, r.bundle, e), Raise(e)
      PROVE  Kept(p, b)
  <2>1. InEvents(p, b)' = InEvents(p, b) + same
    BY <1>3, <1>8, RaisedHolds, FailureOf
  <2>2. InJobs(p, b)' = InJobs(p, b)
    BY <1>8, HoldersUnchanged DEF NotAvailable
  <2> QED
    BY <1>1, <1>5, <1>6, <1>n, <2>1, <2>2, HoldersSum DEF Kept
<1> QED
  BY <1>1, <1>7, <1>8

\* A routing thread acquires a free slot together with the job, or with the
\* failure that it goes on to report.
LEMMA SlotsRoutingThread ==
  ASSUME TypeInv, TypeInv', NEW p \in Peers, NEW b \in Bundles,
         NEW t \in Threads, RoutingThread(t)
  PROVE  (Kept(p, b) \/ Acquired(p, b)) /\ odd' = odd
<1>n. /\ InJobs(p, b) \in Nat /\ InEvents(p, b) \in Nat /\ InRetries(p, b) \in Nat
      /\ InHandler(p, b) \in Nat /\ InThreads(p, b) \in Nat /\ InThreads(p, b)' \in Nat
  BY HoldersType
<1>i. ~Reports(Idle, p, b)
  BY DEF Reports, Idle
<1>o. ASSUME NEW x, Moves(t, x),
             ~Reports(thr[t], p, b), ~Reports(x, p, b)
      PROVE  InThreads(p, b)' = InThreads(p, b)
  BY <1>o, <1>n, ThreadHolds
<1>1. CASE ProcessBundle(t)
  <2>1. UNCHANGED <<transit, jobs, events, ev, rqueue, thr, odd>>
    BY <1>1 DEF ProcessBundle, slotVars, nodeVars, eventVars, retryVars
  <2> QED
    BY <2>1, HoldersSum, HoldersUnchanged DEF Kept
<1>2. CASE SearchNextBundle(t)
  <2>1. UNCHANGED <<transit, jobs, events, ev, rqueue, odd>>
    BY <1>2 DEF SearchNextBundle, slotVars, nodeVars, eventVars, retryVars
  <2>2. PICK x : Moves(t, x) /\ (x = Idle \/ \E q, l : x = [pc |-> "list", peer |-> q, list |-> l])
    BY <1>2 DEF SearchNextBundle, Moves
  <2>3. ~Reports(x, p, b) /\ ~Reports(thr[t], p, b)
    BY <1>2, <2>2, <1>i DEF SearchNextBundle, Reports
  <2>4. InThreads(p, b)' = InThreads(p, b)
    BY <1>o, <2>2, <2>3
  <2> QED
    BY <2>1, <2>4, HoldersSum, HoldersUnchanged DEF Kept
<1>3. CASE SkipTransfer(t)
  <2>1. UNCHANGED <<transit, jobs, events, ev, rqueue, odd>>
    BY <1>3 DEF SkipTransfer, slotVars, nodeVars, eventVars, retryVars
  <2>2. PICK x : Moves(t, x) /\ (x = Idle \/ x = Step(t))
    BY <1>3 DEF SkipTransfer, Moves
  <2>3. ~Reports(x, p, b) /\ ~Reports(thr[t], p, b)
    BY <1>3, <2>2, <1>i, StepType DEF SkipTransfer, Reports, TypeInv
  <2>4. InThreads(p, b)' = InThreads(p, b)
    BY <1>o, <2>2, <2>3
  <2> QED
    BY <2>1, <2>4, HoldersSum, HoldersUnchanged DEF Kept
<1>4. CASE Transfer(t)
  <2> DEFINE q == thr[t].peer
             c == Head(thr[t].list)
             same == IF q = p /\ c = b THEN 1 ELSE 0
  <2>1. q \in Peers /\ c \in Bundles /\ Step(t).pc # "raise" /\ thr[t].pc = "list"
    BY <1>4, StepType DEF Transfer, TypeInv
  <2>2. /\ c \notin transit[q]
        /\ transit' = [transit EXCEPT ![q] = @ \cup {c}]
        /\ \/ Accepted(q, c) /\ thr' = [thr EXCEPT ![t] = Step(t)]
           \/ \E e \in EventType :
                /\ NotAvailable(q, c, e)
                /\ thr' = [thr EXCEPT ![t] = [pc |-> "raise", peer |-> q,
                                             list |-> thr[t].list, evt |-> e]]
        /\ UNCHANGED <<events, ev, rqueue, odd>>
    BY <1>4 DEF Transfer, Refused, eventVars, nodeVars
  <2> HIDE DEF q, c
  <2>3. ~Reports(thr[t], p, b)
    BY <2>1 DEF Reports
  <2>4. ASSUME Holders(p, b)' = Holders(p, b) + same
        PROVE  Kept(p, b) \/ Acquired(p, b)
    <3>1. Holders(p, b) \in Nat
      BY <1>n, HoldersSum
    <3>2. CASE q = p /\ c = b
      BY <2>1, <2>2, <2>4, <3>2 DEF Acquired, TypeInv, SlotTypeOK
    <3>3. CASE ~(q = p /\ c = b)
      <4>1. b \in transit'[p] <=> b \in transit[p]
        BY <2>1, <2>2, <3>3 DEF TypeInv, SlotTypeOK
      <4> QED
        BY <2>4, <3>1, <3>3, <4>1 DEF Kept
    <3> QED
      BY <3>2, <3>3
  <2>5. CASE Accepted(q, c) /\ thr' = [thr EXCEPT ![t] = Step(t)]
    <3>1. InJobs(p, b)' = InJobs(p, b) + same
      BY <2>1, <2>5, AcceptedHolds
    <3>2. ~Reports(Step(t), p, b)
      BY <2>1 DEF Reports
    <3>3. InThreads(p, b)' = InThreads(p, b)
      <4>1. Moves(t, Step(t))
        BY <2>5 DEF Moves
      <4> QED
        BY <1>o, <2>3, <3>2, <4>1
    <3> QED
      BY <2>2, <2>4, <3>1, <3>3, <1>n, HoldersSum, HoldersUnchanged
  <2>6. ASSUME NEW e \in EventType, NotAvailable(q, c, e),
               thr' = [thr EXCEPT ![t] = [pc |-> "raise", peer |-> q,
                                          list |-> thr[t].list, evt |-> e]]
        PROVE  Kept(p, b) \/ Acquired(p, b)
    <3> DEFINE x == [pc |-> "raise", peer |-> q, list |-> thr[t].list, evt |-> e]
    <3>1. Reports(x, p, b) <=> q = p /\ c = b
      BY <2>1, <2>6, FailureOf DEF Reports
    <3>x. Moves(t, x)
      BY <2>6 DEF Moves
    <3> HIDE DEF x
    <3>2. InThreads(p, b)' = InThreads(p, b) + same
      BY <1>n, <2>3, <3>1, <3>x, ThreadHolds
    <3>3. InJobs(p, b)' = InJobs(p, b)
      BY <2>6, HoldersUnchanged DEF NotAvailable
    <3> QED
      BY <2>2, <2>4, <3>2, <3>3, <1>n, HoldersSum, HoldersUnchanged
  <2> QED
    BY <2>2, <2>5, <2>6
<1>5. CASE RaiseFailure(t)
  <2> DEFINE e == thr[t].evt
             same == IF e \in OutcomesOf(p, b) THEN 1 ELSE 0
  <2>1. UNCHANGED <<transit, jobs, ev, rqueue, odd>>
    BY <1>5 DEF RaiseFailure, slotVars, nodeVars, eventVars, retryVars
  <2>2. /\ e \in EventType /\ Step(t).pc # "raise" /\ thr[t].pc = "raise"
        /\ Raise(e) /\ thr' = [thr EXCEPT ![t] = Step(t)]
    BY <1>5, StepType, ThreadFields DEF RaiseFailure, TypeInv, ThreadTypeOK
  <2>3. InEvents(p, b)' = InEvents(p, b) + same
    BY <2>2, RaisedHolds
  <2>4. InThreads(p, b)' + same = InThreads(p, b)
    <3>1. (Reports(thr[t], p, b) <=> e \in OutcomesOf(p, b)) /\ ~Reports(Step(t), p, b)
      BY <2>2 DEF Reports
    <3>2. Moves(t, Step(t))
      BY <2>2 DEF Moves
    <3> QED
      BY <1>n, <3>1, <3>2, ThreadHolds
  <2> QED
    BY <2>1, <2>3, <2>4, <1>n, HoldersSum, HoldersUnchanged DEF Kept
<1> QED
  BY <1>1, <1>2, <1>3, <1>4, <1>5 DEF RoutingThread

\* A job ends with one event, apart from the two exceptions.
LEMMA SlotsSettle ==
  ASSUME TypeInv, TypeInv', NEW p \in Peers, NEW b \in Bundles,
         NEW i \in 1..Len(jobs), Settle(i)
  PROVE  (Kept(p, b) \/ Doubled(p, b) \/ Silenced(p, b)) /\ odd \subseteq odd'
<1> DEFINE q == jobs[i].peer
           c == jobs[i].bundle
           same == IF q = p /\ c = b THEN 1 ELSE 0
<1>1. q \in Peers /\ c \in Bundles
  BY JobDone DEF TypeInv
<1>2. UNCHANGED <<transit, ev, rqueue, thr>> /\ odd \subseteq odd'
  BY DEF Settle, LoadBundle, CompleteJob, RequeueJob, AbortJob, RefuseAndStore, FailSilently,
     slotVars, eventVars, threadVars, retryVars, nodeVars
<1>n. /\ InJobs(p, b) \in Nat /\ InJobs(p, b)' \in Nat /\ InEvents(p, b) \in Nat
      /\ InRetries(p, b) \in Nat /\ InHandler(p, b) \in Nat /\ InThreads(p, b) \in Nat
  BY HoldersType
<1>d. Done(i) => InJobs(p, b) = InJobs(p, b)' + same
  BY DoneHolds
<1>u. /\ InHandler(p, b)' = InHandler(p, b) /\ InRetries(p, b)' = InRetries(p, b)
      /\ InThreads(p, b)' = InThreads(p, b)
      /\ UNCHANGED events => InEvents(p, b)' = InEvents(p, b)
  BY <1>2, HoldersUnchanged
<1>s. same \in 0..1 /\ (same = 1 <=> q = p /\ c = b)
  OBVIOUS
<1>3. CASE jobs' = [jobs EXCEPT ![i].loaded = TRUE] /\ UNCHANGED events
  <2>1. InJobs(p, b)' = InJobs(p, b)
    <3>1. Len(jobs') = Len(jobs) /\ jobs \in Seq(JobType)
      BY <1>3 DEF TypeInv
    <3>2. ASSUME NEW j \in 1..Len(jobs)
          PROVE  jobs[j] \in JobsOf(p, b) <=> jobs'[j] \in JobsOf(p, b)
      <4>1. jobs[j] \in JobType
        BY <3>1
      <4>2. jobs'[j] = IF j = i THEN [jobs[i] EXCEPT !.loaded = TRUE] ELSE jobs[j]
        <5>1. jobs' = [jobs EXCEPT ![i] = [jobs[i] EXCEPT !.loaded = TRUE]]
          BY <1>3
        <5>2. j \in DOMAIN jobs
          BY <3>1
        <5> QED
          BY <5>1, <5>2
      <4> QED
        BY <4>1, <4>2 DEF JobsOf, JobType
    <3> QED
      BY <3>1, <3>2, CountAlike DEF InJobs
  <2> QED
    BY <1>2, <1>3, <2>1, HoldersSum, HoldersUnchanged DEF Kept
<1>4. ASSUME NEW e \in EventType, Raise(e), e \in OutcomesOf(p, b) <=> q = p /\ c = b, Done(i)
      PROVE  Kept(p, b)
  <2>1. InEvents(p, b)' = InEvents(p, b) + same
    BY <1>4, RaisedHolds
  <2> QED
    BY <1>2, <1>4, <1>d, <1>n, <2>1, HoldersSum, HoldersUnchanged DEF Kept
<1>5. CASE RefuseAndStore(i)
  <2> DEFINE e == AbortMsg(q, c, "refused")
             f == TransferMsg("completed", q, c)
             one == Append(events, e)
  <2>1. Done(i) /\ events' = events \o <<e, f>> /\ "twice" \in odd'
    BY <1>5 DEF RefuseAndStore
  <2>2. e \in EventType /\ f \in EventType /\ events \in Seq(EventType)
    BY <1>1, EventTypes DEF Reasons, TypeInv
  <2>3. /\ e \in OutcomesOf(p, b) <=> q = p /\ c = b
        /\ f \in OutcomesOf(p, b) <=> q = p /\ c = b
    BY <1>1, MessageOf DEF Reasons
  <2> HIDE DEF e, f
  <2>4. events' = Append(one, f) /\ one \in Seq(EventType)
    BY <2>1, <2>2
  <2>5. Count(one, OutcomesOf(p, b)) = InEvents(p, b) + same
    BY <2>2, <2>3, CountAppend DEF InEvents
  <2> HIDE DEF one
  <2>6. InEvents(p, b)' = InEvents(p, b) + same + same
    BY <2>2, <2>3, <2>4, <2>5, CountAppend DEF InEvents
  <2>7. Holders(p, b)' = Holders(p, b) + same
    <3>1. InJobs(p, b) = InJobs(p, b)' + same
      BY <1>d, <2>1
    <3>2. /\ Holders(p, b) = InJobs(p, b) + InEvents(p, b) + InHandler(p, b)
                              + InRetries(p, b) + InThreads(p, b)
          /\ Holders(p, b)' = InJobs(p, b)' + InEvents(p, b)' + InHandler(p, b)'
                               + InRetries(p, b)' + InThreads(p, b)'
      BY HoldersSum
    <3> HIDE DEF same
    <3> DEFINE j == InJobs(p, b)
               k == InEvents(p, b)
               h == InHandler(p, b)
               r == InRetries(p, b)
               t == InThreads(p, b)
    <3>3. j \in Nat /\ k \in Nat /\ h \in Nat /\ r \in Nat /\ t \in Nat /\ same \in Nat
      BY <1>n, <1>s
    <3>4. Holders(p, b) = j + k + h + r + t
      BY <3>2
    <3>5. InJobs(p, b)' = j - same /\ InEvents(p, b)' = k + same + same
      BY <1>n, <1>s, <2>6, <3>1
    <3>6. InHandler(p, b)' = h /\ InRetries(p, b)' = r /\ InThreads(p, b)' = t
      BY <1>u
    <3> HIDE DEF j, k, h, r, t
    <3>7. Holders(p, b)' = (j - same) + (k + same + same) + h + r + t
      BY <3>2, <3>5, <3>6
    <3> QED
      BY <3>3, <3>4, <3>7
  <2>8. Holders(p, b) \in Nat
    BY <1>n, HoldersSum
  <2>9. CASE q = p /\ c = b
    BY <1>2, <2>1, <2>7, <2>9 DEF Doubled
  <2>10. CASE ~(q = p /\ c = b)
    BY <1>2, <2>7, <2>8, <2>10 DEF Kept
  <2> QED
    BY <1>2, <2>9, <2>10
<1>6. CASE FailSilently(i)
  <2>1. Done(i) /\ UNCHANGED events /\ "silent" \in odd'
    BY <1>6 DEF FailSilently
  <2>2. Holders(p, b)' = Holders(p, b) - same /\ Holders(p, b) \in Nat
    <3>1. InJobs(p, b) = InJobs(p, b)' + same
      BY <1>d, <2>1
    <3>2. /\ Holders(p, b) = InJobs(p, b) + InEvents(p, b) + InHandler(p, b)
                              + InRetries(p, b) + InThreads(p, b)
          /\ Holders(p, b)' = InJobs(p, b)' + InEvents(p, b)' + InHandler(p, b)'
                               + InRetries(p, b)' + InThreads(p, b)'
      BY HoldersSum
    <3> HIDE DEF same
    <3> DEFINE j == InJobs(p, b)
               k == InEvents(p, b)
               h == InHandler(p, b)
               r == InRetries(p, b)
               t == InThreads(p, b)
    <3>3. j \in Nat /\ k \in Nat /\ h \in Nat /\ r \in Nat /\ t \in Nat /\ same \in Nat
      BY <1>n, <1>s
    <3>4. Holders(p, b) = j + k + h + r + t
      BY <3>2
    <3>5. InJobs(p, b)' = j - same
      BY <1>n, <1>s, <3>1
    <3>6. InEvents(p, b)' = k /\ InHandler(p, b)' = h /\ InRetries(p, b)' = r /\ InThreads(p, b)' = t
      BY <1>u, <2>1
    <3> HIDE DEF j, k, h, r, t
    <3>7. Holders(p, b)' = (j - same) + k + h + r + t
      BY <3>2, <3>5, <3>6
    <3> QED
      BY <3>3, <3>4, <3>7
  <2>3. CASE q = p /\ c = b
    BY <1>2, <2>1, <2>2, <2>3 DEF Silenced
  <2>4. CASE ~(q = p /\ c = b)
    BY <1>2, <2>2, <2>4 DEF Kept
  <2> QED
    BY <1>2, <2>3, <2>4
<1>7. ASSUME Done(i),
             \/ \E r \in Reasons : Raise(AbortMsg(q, c, r))
             \/ \E k \in {"completed", "requeue"} : Raise(TransferMsg(k, q, c))
      PROVE  Kept(p, b)
  <2>1. ASSUME NEW r \in Reasons, Raise(AbortMsg(q, c, r))
        PROVE  Kept(p, b)
    <3> DEFINE e == AbortMsg(q, c, r)
    <3>1. e \in EventType /\ (e \in OutcomesOf(p, b) <=> q = p /\ c = b) /\ Raise(e)
      BY <1>1, <2>1, EventTypes, MessageOf
    <3> HIDE DEF e
    <3> QED
      BY <1>4, <1>7, <3>1
  <2>2. ASSUME NEW k \in {"completed", "requeue"}, Raise(TransferMsg(k, q, c))
        PROVE  Kept(p, b)
    <3> DEFINE e == TransferMsg(k, q, c)
    <3>1. e \in EventType /\ (e \in OutcomesOf(p, b) <=> q = p /\ c = b) /\ Raise(e)
      BY <1>1, <2>2, EventTypes, MessageOf
    <3> HIDE DEF e
    <3> QED
      BY <1>4, <1>7, <3>1
  <2> QED
    BY <1>7, <2>1, <2>2
<1>8. CASE LoadBundle(i)
  BY <1>2, <1>3, <1>7, <1>8 DEF LoadBundle, Reasons
<1>9. CASE CompleteJob(i) \/ RequeueJob(i)
  BY <1>2, <1>7, <1>9 DEF CompleteJob, RequeueJob
<1>10. CASE \E r \in Reasons : AbortJob(i, r)
  BY <1>2, <1>7, <1>10 DEF AbortJob
<1> QED
  BY <1>5, <1>6, <1>8, <1>9, <1>10 DEF Settle

LEMMA SlotsStep == TypeInv /\ SlotHasOneHolder /\ [Next]_vars => SlotHasOneHolder'
<1> SUFFICES ASSUME TypeInv, SlotHasOneHolder, [Next]_vars
             PROVE  SlotHasOneHolder'
  OBVIOUS
<1>1. TypeInv'
  BY TypeStep
<1>2. ASSUME NEW p \in Peers, NEW b \in Bundles
      PROVE  /\ \/ Kept(p, b) \/ Acquired(p, b) \/ Released(p, b)
                \/ Doubled(p, b) \/ Silenced(p, b)
             /\ odd \subseteq odd'
  <2>1. CASE UNCHANGED vars
    BY <2>1, HoldersSum, HoldersUnchanged DEF Kept, vars, slotVars, nodeVars, eventVars,
       threadVars, retryVars
  <2>2. CASE EventThread
    BY <1>1, <2>2, SlotsTakeEvent, SlotsNotify DEF EventThread
  <2>3. CASE Retransmit
    BY <1>1, <2>3, SlotsRetransmit
  <2>4. CASE \E t \in Threads : RoutingThread(t)
    BY <1>1, <2>4, SlotsRoutingThread
  <2>5. CASE \E i \in 1..Len(jobs) : Settle(i)
    BY <1>1, <2>5, SlotsSettle
  <2> QED
    BY <2>1, <2>2, <2>3, <2>4, <2>5, SlotsOutside DEF Next
<1>3. CASE Peers = {} \/ Bundles = {}
  BY <1>1, <1>3 DEF SlotHasOneHolder, NoSlotLeaks, NoDoubleTransfer, TypeInv, SlotTypeOK
<1>4. CASE Peers # {} /\ Bundles # {}
  BY <1>1, <1>2, <1>4, SlotsFollow
<1> QED
  BY <1>3, <1>4

\* As long as a bundle occupies a transfer slot of a neighbour exactly one
\* party deals with it - a job of a convergence layer, an event on its way to
\* the router or in its hands, an entry of the retransmission queue or a
\* routing thread that is about to report a failure - and nobody deals with a
\* transfer that has no slot (NeighborDatabase, BundleCore::transferTo,
\* RetransmissionExtension).
THEOREM SlotsAreHeld == Spec => []SlotHasOneHolder
<1>1. Init => TypeInv /\ SlotHasOneHolder
  <2> SUFFICES ASSUME Init
               PROVE  SlotHasOneHolder
    BY TypeInit
  <2>1. ASSUME NEW p \in Peers, NEW b \in Bundles
        PROVE  Holders(p, b) = 0
    <3>1. InJobs(p, b) = 0 /\ InEvents(p, b) = 0 /\ InRetries(p, b) = 0
      BY CountEmpty DEF Init, InJobs, InEvents, InRetries
    <3>2. InHandler(p, b) = 0
      BY DEF Init, InHandler, NoEvent, TransferMsg
    <3>3. InThreads(p, b) = 0
      <4>1. Reporting(p, b) = {}
        BY DEF Init, Reporting, Idle
      <4> QED
        BY <4>1, FS_EmptySet DEF InThreads
    <3> QED
      BY <3>1, <3>2, <3>3, HoldersSum
  <2> QED
    BY <2>1 DEF Init, SlotHasOneHolder, NoSlotLeaks, NoDoubleTransfer
<1>2. TypeInv /\ SlotHasOneHolder /\ [Next]_vars => (TypeInv /\ SlotHasOneHolder)'
  BY TypeStep, SlotsStep
<1> QED
  BY <1>1, <1>2, PTL DEF Spec

-----------------------------------------------------------------------------
(***************************************************************************)
(* Daemons that exchange bundles (BundleCore).  A bundle comes into being  *)
(* when an application or the daemon itself hands it to the router; until  *)
(* then its ID is to be found in one event of one queue and nowhere else.  *)
(* What is stored, or awaited by a service, is known, and so is what was   *)
(* delivered, which is not stored any more; the router does not store what *)
(* is known.  C are the bundles that capsules carry: they come out of a    *)
(* capsule as received from a peer, any number of times.                   *)
(***************************************************************************)
IsSeq(s) == s \in Seq(ToSet(s))

CarriesBundle(e) == e.type \notin {"info", "tick"}
IsLocal(e) == e.type = "received" /\ e.local
\* Events that bring a bundle into being.
IsNew(e) == e.type = "generated" \/ IsLocal(e)

\* An event in the queue of node n.
CoreEventOK(e, n, C) ==
  /\ CarriesBundle(e) => IsBundle(e.b, C)
  /\ IsNew(e) => e.b.src[1] = n
  /\ e.type = "generated" => e.b.num \in 1..Numbers
  /\ IsLocal(e) => e.b.num \notin 1..Numbers /\ \E b \in Sent : Id(b) = Id(e.b)
  /\ e.type = "queued" => e.b.dst[1] = n

\* No two bundles with one ID come into being.
Twinless(s) == \A i, j \in DOMAIN s : IsNew(s[i]) /\ IsNew(s[j]) /\ Id(s[i].b) = Id(s[j].b) => i = j

\* The queues: the daemon's own bundles wait in the normal one, those of applications in the low one.
NormalOK(s, n, C) == IsSeq(s) /\ Twinless(s) /\ \A e \in ToSet(s) : CoreEventOK(e, n, C) /\ ~IsLocal(e)
LowOK(s, n, C) == IsSeq(s) /\ Twinless(s) /\ \A e \in ToSet(s) : CoreEventOK(e, n, C) /\ e.type # "generated"

QueueOK(q, n, C) == DOMAIN q = {"normal", "low"} /\ NormalOK(q.normal, n, C) /\ LowOK(q.low, n, C)

\* IDs of bundles that come into being, of those that exist and of those to be consumed.
InQueue(q) == ToSet(q.normal) \cup ToSet(q.low)
IdsOf(E) == {Id(e.b) : e \in E}
NewOf(E) == IdsOf({e \in E : IsNew(e)})
OldOf(E) == IdsOf({e \in E : CarriesBundle(e) /\ ~IsNew(e)})
QueuedOf(E) == IdsOf({e \in E : e.type = "queued"})
AllIds(B) == {Id(b) : b \in B}

\* What a node has of bundles that exist.
Working(n) == UNION {ToSet(work[n][s]) : s \in Services}
Held(n) == OldOf(InQueue(queue[n])) \cup AllIds(store[n]) \cup knownBundles[n] \cup Working(n)

\* IDs of bundles that are on their way to a router, that exist, and that applications have.
NewIds == UNION {NewOf(InQueue(queue[n])) : n \in Nodes}
OldIds == UNION {Held(n) : n \in Nodes}
LoadIds == {Id(load[i]) : i \in DOMAIN load}

\* Bundles that a service of the node, or the node, is to take.
Awaited(n) == QueuedOf(InQueue(queue[n])) \cup Working(n)

\* What is stored or awaited is known; what was delivered is known, and not stored.
CoreNodeOK(n) ==
  /\ AllIds(store[n]) \subseteq knownBundles[n]
  /\ Awaited(n) \subseteq knownBundles[n]
  /\ \A b \in store[n] : Id(b) \in Awaited(n) => b.dst[1] = n
  /\ \A g \in got : g.node = n => g.id \in knownBundles[n] /\ g.id \notin AllIds(store[n])

\* The types of what a node has.
CoreNodeType(n, C) ==
  /\ QueueOK(queue[n], n, C)
  /\ \A b \in store[n] : IsBundle(b, C)
  /\ DOMAIN work[n] = Services
  /\ \A s \in Services : IsSeq(work[n][s])

CoreTypes(C) ==
  /\ DOMAIN queue = Nodes /\ DOMAIN store = Nodes /\ DOMAIN knownBundles = Nodes /\ DOMAIN work = Nodes
  /\ \A n \in Nodes : CoreNodeType(n, C)

\* What the applications will still send.
LoadOK ==
  /\ IsSeq(load) /\ ToSet(load) \subseteq Sent
  /\ \A i, j \in DOMAIN load : Id(load[i]) = Id(load[j]) => i = j

\* No ID is that of a bundle that exists and of one that does not.
IdsApart == NewIds \cap OldIds = {} /\ LoadIds \cap (NewIds \cup OldIds) = {}

\* The inductive invariant.
CoreInv(C) ==
  /\ CoreTypes(C) /\ LoadOK /\ IdsApart
  /\ \A n \in Nodes : CoreNodeOK(n)
  /\ twice = {}

-----------------------------------------------------------------------------
\* What is in a concatenation.
LEMMA JoinedSeq ==
  ASSUME NEW s, NEW t, IsSeq(s), IsSeq(t)
  PROVE  /\ IsSeq(s \o t) /\ ToSet(s \o t) = ToSet(s) \cup ToSet(t)
         /\ DOMAIN (s \o t) = 1..(Len(s) + Len(t)) /\ Len(s) \in Nat /\ Len(t) \in Nat
         /\ \A i \in 1..Len(s) : (s \o t)[i] = s[i] /\ s[i] \in ToSet(s)
         /\ \A i \in Len(s)+1..Len(s)+Len(t) : (s \o t)[i] = t[i - Len(s)] /\ t[i - Len(s)] \in ToSet(t)
<1> DEFINE A == ToSet(s) \cup ToSet(t)
<1>1. s \in Seq(ToSet(s)) /\ t \in Seq(ToSet(t))
  BY DEF IsSeq
<1>2. s \in Seq(A) /\ t \in Seq(A)
  <2> HIDE DEF A
  <2>1. ToSet(s) \subseteq A /\ ToSet(t) \subseteq A
    BY DEF A
  <2> QED
    BY <1>1, <2>1
<1>3. /\ s \o t \in Seq(A) /\ Len(s \o t) = Len(s) + Len(t) /\ Len(s) \in Nat /\ Len(t) \in Nat
      /\ DOMAIN (s \o t) = 1..Len(s \o t) /\ DOMAIN s = 1..Len(s) /\ DOMAIN t = 1..Len(t)
      /\ \A i \in 1..Len(s) : (s \o t)[i] = s[i]
      /\ \A i \in Len(s)+1..Len(s)+Len(t) : (s \o t)[i] = t[i - Len(s)]
  <2> HIDE DEF A
  <2> QED
    BY <1>2
<1>4. ToSet(s \o t) = A
  <2>1. \A i \in 1..Len(s) + Len(t) : (s \o t)[i] \in A
    <3>1. SUFFICES ASSUME NEW i \in 1..Len(s) + Len(t)
                   PROVE  (s \o t)[i] \in A
      OBVIOUS
    <3>2. CASE i \in 1..Len(s)
      BY <3>2, <1>3 DEF ToSet
    <3>3. CASE i \notin 1..Len(s)
      <4>1. i \in Len(s)+1..Len(s)+Len(t) /\ i - Len(s) \in 1..Len(t)
        BY <1>3, <3>3
      <4> QED
        BY <4>1, <1>3 DEF ToSet
    <3> QED
      BY <3>2, <3>3
  <2>2. ASSUME NEW x \in ToSet(s)
        PROVE  x \in ToSet(s \o t)
    <3>1. PICK i \in 1..Len(s) : x = s[i]
      BY <2>2, <1>3 DEF ToSet
    <3>2. i \in 1..Len(s) + Len(t)
      BY <1>3
    <3> QED
      BY <3>1, <3>2, <1>3 DEF ToSet
  <2>3. ASSUME NEW x \in ToSet(t)
        PROVE  x \in ToSet(s \o t)
    <3>1. PICK i \in 1..Len(t) : x = t[i]
      BY <2>3, <1>3 DEF ToSet
    <3>2. i + Len(s) \in Len(s)+1..Len(s)+Len(t) /\ i + Len(s) \in 1..Len(s) + Len(t)
          /\ (i + Len(s)) - Len(s) = i
      BY <1>3
    <3> QED
      BY <3>1, <3>2, <1>3 DEF ToSet
  <2>4. ToSet(s \o t) \subseteq A
    BY <2>1, <1>3 DEF ToSet
  <2> QED
    BY <2>2, <2>3, <2>4
<1>5. \A i \in Len(s)+1..Len(s)+Len(t) : i - Len(s) \in 1..Len(t)
  BY <1>3
<1> HIDE DEF A
<1> QED
  BY <1>3, <1>4, <1>5 DEF IsSeq, ToSet, A

\* A sequence over a set is one over its own elements.
LEMMA OwnSeq ==
  ASSUME NEW A, NEW t \in Seq(A)
  PROVE  IsSeq(t) /\ ToSet(t) \subseteq A
<1>1. Len(t) \in Nat /\ DOMAIN t = 1..Len(t) /\ \A i \in 1..Len(t) : t[i] \in A
  OBVIOUS
<1>2. \A i \in 1..Len(t) : t[i] \in ToSet(t)
  BY <1>1 DEF ToSet
<1>3. t \in Seq(ToSet(t))
  BY <1>1, <1>2
<1> QED
  BY <1>1, <1>3 DEF IsSeq, ToSet

\* A sequence without its head.
LEMMA RestOfSeq ==
  ASSUME NEW s, IsSeq(s), s # <<>>
  PROVE  /\ IsSeq(Tail(s)) /\ Head(s) \in ToSet(s) /\ ToSet(s) = ToSet(Tail(s)) \cup {Head(s)}
         /\ Head(s) = s[1] /\ 1 \in DOMAIN s
         /\ \A i \in DOMAIN Tail(s) : i \in Nat /\ i + 1 \in DOMAIN s /\ Tail(s)[i] = s[i + 1]
<1> DEFINE A == ToSet(s)
<1>1. s \in Seq(A)
  BY DEF IsSeq
<1>2. /\ Tail(s) \in Seq(A) /\ Len(s) \in Nat /\ Len(s) > 0 /\ Len(Tail(s)) = Len(s) - 1
      /\ DOMAIN s = 1..Len(s) /\ DOMAIN Tail(s) = 1..Len(Tail(s))
      /\ \A i \in 1..Len(Tail(s)) : Tail(s)[i] = s[i + 1]
      /\ Head(s) = s[1]
  <2> HIDE DEF A
  <2> QED
    BY <1>1
<1>3. \A i \in DOMAIN Tail(s) : i \in Nat /\ i + 1 \in DOMAIN s /\ Tail(s)[i] = s[i + 1]
  BY <1>2
<1>4. 1 \in DOMAIN s
  BY <1>2
<1>5. \A x \in ToSet(s) : x \in ToSet(Tail(s)) \cup {Head(s)}
  <2>1. SUFFICES ASSUME NEW i \in 1..Len(s)
                 PROVE  s[i] \in ToSet(Tail(s)) \cup {Head(s)}
    BY <1>2 DEF ToSet
  <2>2. CASE i = 1
    BY <2>2, <1>2
  <2>3. CASE i # 1
    <3>1. i - 1 \in 1..Len(Tail(s)) /\ (i - 1) + 1 = i
      BY <2>3, <1>2
    <3> QED
      BY <3>1, <1>2 DEF ToSet
  <2> QED
    BY <2>2, <2>3
<1>6. ToSet(Tail(s)) \subseteq ToSet(s)
  BY <1>3 DEF ToSet
<1>7. Tail(s) \in Seq(ToSet(Tail(s)))
  BY <1>2, OwnSeq DEF IsSeq
<1> QED
  BY <1>2, <1>3, <1>4, <1>5, <1>6, <1>7 DEF IsSeq, ToSet

\* Sequences of no and of one element.
LEMMA ShortSeqs ==
  /\ IsSeq(<<>>) /\ ToSet(<<>>) = {} /\ DOMAIN <<>> = {}
  /\ \A e : IsSeq(<<e>>) /\ ToSet(<<e>>) = {e} /\ DOMAIN <<e>> = {1} /\ <<e>>[1] = e
<1>1. IsSeq(<<>>) /\ ToSet(<<>>) = {} /\ DOMAIN <<>> = {}
  BY DEF IsSeq, ToSet
<1>2. ASSUME NEW e
      PROVE  IsSeq(<<e>>) /\ ToSet(<<e>>) = {e} /\ DOMAIN <<e>> = {1} /\ <<e>>[1] = e
  <2>1. DOMAIN <<e>> = {1} /\ <<e>>[1] = e
    OBVIOUS
  <2>2. ToSet(<<e>>) = {e}
    BY <2>1 DEF ToSet
  <2> QED
    BY <2>1, <2>2 DEF IsSeq
<1> QED
  BY <1>1, <1>2

\* An element is appended.
LEMMA AppendedSeq ==
  ASSUME NEW s, NEW e, IsSeq(s)
  PROVE  IsSeq(Append(s, e)) /\ ToSet(Append(s, e)) = ToSet(s) \cup {e}
<1>1. Append(s, e) = s \o <<e>>
  <2>1. s \in Seq(ToSet(s) \cup {e})
    BY DEF IsSeq
  <2> QED
    BY <2>1
<1> QED
  BY <1>1, JoinedSeq, ShortSeqs

\* A row of equal elements.
LEMMA RowSeq ==
  ASSUME NEW k \in Nat, NEW e
  PROVE  IsSeq([i \in 1..k |-> e]) /\ ToSet([i \in 1..k |-> e]) \subseteq {e}
<1>1. [i \in 1..k |-> e] \in Seq({e})
  OBVIOUS
<1>2. ToSet([i \in 1..k |-> e]) \subseteq {e}
  BY DEF ToSet
<1>3. \A i \in 1..k : e \in ToSet([j \in 1..k |-> e])
  BY DEF ToSet
<1> QED
  BY <1>1, <1>2, <1>3 DEF IsSeq

\* The IDs of two sets of events.
LEMMA JoinedIds ==
  ASSUME NEW E, NEW F
  PROVE  /\ NewOf(E \cup F) = NewOf(E) \cup NewOf(F)
         /\ OldOf(E \cup F) = OldOf(E) \cup OldOf(F)
         /\ QueuedOf(E \cup F) = QueuedOf(E) \cup QueuedOf(F)
BY DEF NewOf, OldOf, QueuedOf, IdsOf

\* No events, no IDs.
LEMMA NoIds == NewOf({}) = {} /\ OldOf({}) = {} /\ QueuedOf({}) = {}
BY DEF NewOf, OldOf, QueuedOf, IdsOf

\* Two sequences that bring no ID in common.
LEMMA JoinedTwinless ==
  ASSUME NEW s, NEW t, IsSeq(s), IsSeq(t), Twinless(s), Twinless(t),
         NewOf(ToSet(s)) \cap NewOf(ToSet(t)) = {}
  PROVE  Twinless(s \o t)
<1> DEFINE u == s \o t
<1>1. /\ DOMAIN u = 1..(Len(s) + Len(t)) /\ Len(s) \in Nat /\ Len(t) \in Nat
      /\ \A i \in 1..Len(s) : u[i] = s[i] /\ s[i] \in ToSet(s)
      /\ \A i \in Len(s)+1..Len(s)+Len(t) : u[i] = t[i - Len(s)] /\ t[i - Len(s)] \in ToSet(t)
  BY JoinedSeq
<1>2. DOMAIN s = 1..Len(s) /\ DOMAIN t = 1..Len(t)
  BY DEF IsSeq
<1> HIDE DEF u
<1>3. SUFFICES ASSUME NEW i \in DOMAIN u, NEW j \in DOMAIN u, IsNew(u[i]), IsNew(u[j]), Id(u[i].b) = Id(u[j].b)
               PROVE  i = j
  BY DEF Twinless, u
<1>4. CASE i \in 1..Len(s) /\ j \in 1..Len(s)
  BY <1>4, <1>3, <1>1, <1>2 DEF Twinless
<1>5. CASE i \notin 1..Len(s) /\ j \notin 1..Len(s)
  <2>1. /\ i \in Len(s)+1..Len(s)+Len(t) /\ j \in Len(s)+1..Len(s)+Len(t)
        /\ i - Len(s) \in 1..Len(t) /\ j - Len(s) \in 1..Len(t)
    BY <1>5, <1>1
  <2>2. i - Len(s) = j - Len(s)
    BY <2>1, <1>3, <1>1, <1>2 DEF Twinless
  <2> QED
    BY <2>2, <2>1, <1>1
<1>6. CASE i \in 1..Len(s) /\ j \notin 1..Len(s)
  <2>1. j \in Len(s)+1..Len(s)+Len(t)
    BY <1>6, <1>1
  <2>2. u[i] \in ToSet(s) /\ u[j] \in ToSet(t)
    BY <2>1, <1>6, <1>1
  <2> QED
    BY <2>2, <1>3 DEF NewOf, IdsOf
<1>7. CASE i \notin 1..Len(s) /\ j \in 1..Len(s)
  <2>1. i \in Len(s)+1..Len(s)+Len(t)
    BY <1>7, <1>1
  <2>2. u[j] \in ToSet(s) /\ u[i] \in ToSet(t)
    BY <2>1, <1>7, <1>1
  <2> QED
    BY <2>2, <1>3 DEF NewOf, IdsOf
<1> QED
  BY <1>4, <1>5, <1>6, <1>7

\* The head brought an ID of its own.
LEMMA RestTwinless ==
  ASSUME NEW s, IsSeq(s), s # <<>>, Twinless(s)
  PROVE  /\ Twinless(Tail(s))
         /\ IsNew(Head(s)) => Id(Head(s).b) \notin NewOf(ToSet(Tail(s)))
<1> DEFINE t == Tail(s)
<1>1. /\ Head(s) = s[1] /\ 1 \in DOMAIN s
      /\ \A i \in DOMAIN t : i \in Nat /\ i + 1 \in DOMAIN s /\ t[i] = s[i + 1]
  BY RestOfSeq
<1>5. DOMAIN s = 1..Len(s) /\ Len(s) \in Nat /\ IsSeq(t)
  BY RestOfSeq DEF IsSeq
<1>6. DOMAIN t = 1..Len(t) /\ Len(t) \in Nat
  BY <1>5 DEF IsSeq
<1> HIDE DEF t
<1>2. Twinless(t)
  <2>1. SUFFICES ASSUME NEW i \in DOMAIN t, NEW j \in DOMAIN t, IsNew(t[i]), IsNew(t[j]), Id(t[i].b) = Id(t[j].b)
                 PROVE  i = j
    BY DEF Twinless
  <2>2. i + 1 = j + 1
    BY <2>1, <1>1 DEF Twinless
  <2> QED
    BY <2>2, <1>1
<1>3. ASSUME IsNew(Head(s)), Id(Head(s).b) \in NewOf(ToSet(t))
      PROVE  FALSE
  <2>1. PICK e \in ToSet(t) : IsNew(e) /\ Id(e.b) = Id(Head(s).b)
    BY <1>3 DEF NewOf, IdsOf
  <2>2. PICK i \in DOMAIN t : e = t[i]
    BY <2>1 DEF ToSet
  <2>3. i + 1 = 1
    BY <2>1, <2>2, <1>1, <1>3 DEF Twinless
  <2> QED
    BY <2>2, <2>3, <1>6
<1> QED
  BY <1>2, <1>3 DEF t

\* Events about bundles that exist.
Olds(t, n, C) == IsSeq(t) /\ \A e \in ToSet(t) : CoreEventOK(e, n, C) /\ ~IsNew(e)

\* They bring nothing into being.
LEMMA OldsFacts ==
  ASSUME NEW t, NEW n, NEW C, Olds(t, n, C)
  PROVE  Twinless(t) /\ NewOf(ToSet(t)) = {}
<1>1. \A i \in DOMAIN t : t[i] \in ToSet(t)
  BY DEF ToSet
<1> QED
  BY <1>1 DEF Olds, Twinless, NewOf, IdsOf

\* Two such sequences.
LEMMA OldsJoin ==
  ASSUME NEW s, NEW t, NEW n, NEW C, Olds(s, n, C), Olds(t, n, C)
  PROVE  Olds(s \o t, n, C)
BY JoinedSeq DEF Olds

\* Nothing is raised.
LEMMA OldsEmpty ==
  ASSUME NEW n, NEW C
  PROVE  Olds(<<>>, n, C)
BY ShortSeqs DEF Olds

\* One such event.
LEMMA OldsOne ==
  ASSUME NEW e, NEW n, NEW C, CoreEventOK(e, n, C), ~IsNew(e)
  PROVE  Olds(<<e>>, n, C)
BY ShortSeqs DEF Olds

\* Events are raised.
LEMMA RaisedQueue ==
  ASSUME NEW q, NEW n, NEW C, NEW t, QueueOK(q, n, C), NormalOK(t, n, C),
         NewOf(InQueue(q)) \cap NewOf(ToSet(t)) = {}
  PROVE  /\ QueueOK(Raised(q, t), n, C)
         /\ InQueue(Raised(q, t)) = InQueue(q) \cup ToSet(t)
<1> DEFINE r == Raised(q, t)
<1>1. DOMAIN r = {"normal", "low"} /\ r.normal = q.normal \o t /\ r.low = q.low
  BY DEF Raised, QueueOK
<1>2. /\ IsSeq(q.normal \o t) /\ ToSet(q.normal \o t) = ToSet(q.normal) \cup ToSet(t)
  BY JoinedSeq DEF QueueOK, NormalOK
<1>3. Twinless(q.normal \o t)
  <2>1. NewOf(InQueue(q)) = NewOf(ToSet(q.normal)) \cup NewOf(ToSet(q.low))
    BY JoinedIds DEF InQueue
  <2> QED
    BY <2>1, JoinedTwinless DEF QueueOK, NormalOK
<1> HIDE DEF r
<1>4. QueueOK(r, n, C)
  BY <1>1, <1>2, <1>3 DEF QueueOK, NormalOK
<1>5. InQueue(r) = InQueue(q) \cup ToSet(t)
  BY <1>1, <1>2 DEF InQueue
<1> QED
  BY <1>4, <1>5 DEF r

\* Events are raised with low priority.
LEMMA RaisedLowQueue ==
  ASSUME NEW q, NEW n, NEW C, NEW t, QueueOK(q, n, C), LowOK(t, n, C),
         NewOf(InQueue(q)) \cap NewOf(ToSet(t)) = {}
  PROVE  /\ QueueOK(RaisedLow(q, t), n, C)
         /\ InQueue(RaisedLow(q, t)) = InQueue(q) \cup ToSet(t)
<1> DEFINE r == RaisedLow(q, t)
<1>1. DOMAIN r = {"normal", "low"} /\ r.low = q.low \o t /\ r.normal = q.normal
  BY DEF RaisedLow, QueueOK
<1>2. /\ IsSeq(q.low \o t) /\ ToSet(q.low \o t) = ToSet(q.low) \cup ToSet(t)
  BY JoinedSeq DEF QueueOK, LowOK
<1>3. Twinless(q.low \o t)
  <2>1. NewOf(InQueue(q)) = NewOf(ToSet(q.normal)) \cup NewOf(ToSet(q.low))
    BY JoinedIds DEF InQueue
  <2> QED
    BY <2>1, JoinedTwinless DEF QueueOK, LowOK
<1> HIDE DEF r
<1>4. QueueOK(r, n, C)
  BY <1>1, <1>2, <1>3 DEF QueueOK, LowOK
<1>5. InQueue(r) = InQueue(q) \cup ToSet(t)
  BY <1>1, <1>2 DEF InQueue
<1> QED
  BY <1>4, <1>5 DEF r

\* Events about bundles that exist, raised in either way.
LEMMA OldsRaised ==
  ASSUME NEW q, NEW n, NEW C, NEW t, QueueOK(q, n, C), Olds(t, n, C)
  PROVE  /\ QueueOK(Raised(q, t), n, C) /\ InQueue(Raised(q, t)) = InQueue(q) \cup ToSet(t)
         /\ QueueOK(RaisedLow(q, t), n, C) /\ InQueue(RaisedLow(q, t)) = InQueue(q) \cup ToSet(t)
<1>1. NormalOK(t, n, C) /\ LowOK(t, n, C) /\ NewOf(ToSet(t)) = {}
  BY OldsFacts DEF NormalOK, LowOK, Olds, IsNew
<1>2. NewOf(InQueue(q)) \cap NewOf(ToSet(t)) = {}
  BY <1>1
<1>3. QueueOK(Raised(q, t), n, C) /\ InQueue(Raised(q, t)) = InQueue(q) \cup ToSet(t)
  BY <1>1, <1>2, RaisedQueue
<1>4. QueueOK(RaisedLow(q, t), n, C) /\ InQueue(RaisedLow(q, t)) = InQueue(q) \cup ToSet(t)
  BY <1>1, <1>2, RaisedLowQueue
<1> QED
  BY <1>3, <1>4

\* The next event is taken.
LEMMA RestOfQueue ==
  ASSUME NEW n, NEW C, QueueOK(queue[n], n, C), queue[n].normal # <<>> \/ queue[n].low # <<>>
  PROVE  /\ QueueOK(Rest(n), n, C)
         /\ InQueue(queue[n]) = InQueue(Rest(n)) \cup {NextEvent(n)}
         /\ CoreEventOK(NextEvent(n), n, C)
         /\ IsNew(NextEvent(n)) => Id(NextEvent(n).b) \notin NewOf(InQueue(Rest(n)))
<1>0. QueueOK(queue[n], n, C)
  OBVIOUS
<1>1. CASE queue[n].normal # <<>>
  <2> DEFINE s == queue[n].normal
  <2>1. /\ DOMAIN Rest(n) = {"normal", "low"} /\ Rest(n).normal = Tail(s) /\ Rest(n).low = queue[n].low
        /\ NextEvent(n) = Head(s)
    BY <1>1 DEF Rest, NextEvent, QueueOK
  <2>2. IsSeq(s) /\ Twinless(s)
    BY DEF QueueOK, NormalOK
  <2>3. /\ IsSeq(Tail(s)) /\ Head(s) \in ToSet(s) /\ ToSet(s) = ToSet(Tail(s)) \cup {Head(s)}
    BY <2>2, <1>1, RestOfSeq
  <2>4. /\ Twinless(Tail(s))
        /\ IsNew(Head(s)) => Id(Head(s).b) \notin NewOf(ToSet(Tail(s)))
    BY <2>2, <1>1, RestTwinless
  <2>5. QueueOK(Rest(n), n, C)
    BY <2>1, <2>3, <2>4 DEF QueueOK, NormalOK
  <2>6. InQueue(queue[n]) = InQueue(Rest(n)) \cup {NextEvent(n)}
    BY <2>1, <2>3 DEF InQueue
  <2>7. CoreEventOK(NextEvent(n), n, C) /\ ~IsLocal(NextEvent(n))
    BY <2>1, <2>3 DEF QueueOK, NormalOK
  <2>8. ASSUME IsNew(NextEvent(n))
        PROVE  Id(NextEvent(n).b) \notin NewOf(ToSet(Rest(n).low))
    <3>1. NextEvent(n).b.num \in 1..Numbers
      BY <2>7, <2>8 DEF IsNew, CoreEventOK
    <3>2. \A e \in ToSet(queue[n].low) : IsNew(e) => e.b.num \notin 1..Numbers
      BY DEF QueueOK, LowOK, CoreEventOK, IsNew
    <3>3. \A e \in ToSet(queue[n].low) : IsNew(e) => Id(e.b) # Id(NextEvent(n).b)
      BY <3>1, <3>2 DEF Id
    <3> QED
      BY <3>3, <2>1 DEF NewOf, IdsOf
  <2>9. NewOf(InQueue(Rest(n))) = NewOf(ToSet(Rest(n).normal)) \cup NewOf(ToSet(Rest(n).low))
    BY JoinedIds DEF InQueue
  <2> QED
    BY <2>1, <2>4, <2>5, <2>6, <2>7, <2>8, <2>9
<1>2. CASE queue[n].normal = <<>>
  <2> DEFINE s == queue[n].low
  <2>0. s # <<>>
    BY <1>2
  <2>1. /\ DOMAIN Rest(n) = {"normal", "low"} /\ Rest(n).low = Tail(s) /\ Rest(n).normal = <<>>
        /\ NextEvent(n) = Head(s)
    BY <1>2 DEF Rest, NextEvent, QueueOK
  <2>2. IsSeq(s) /\ Twinless(s)
    BY DEF QueueOK, LowOK
  <2>3. /\ IsSeq(Tail(s)) /\ Head(s) \in ToSet(s) /\ ToSet(s) = ToSet(Tail(s)) \cup {Head(s)}
    BY <2>2, <2>0, RestOfSeq
  <2>4. /\ Twinless(Tail(s))
        /\ IsNew(Head(s)) => Id(Head(s).b) \notin NewOf(ToSet(Tail(s)))
    BY <2>2, <2>0, RestTwinless
  <2>5. QueueOK(Rest(n), n, C)
    BY <2>1, <2>3, <2>4, <1>2 DEF QueueOK, LowOK, NormalOK
  <2>6. InQueue(queue[n]) = InQueue(Rest(n)) \cup {NextEvent(n)}
    BY <2>1, <2>3, <1>2 DEF InQueue
  <2>7. CoreEventOK(NextEvent(n), n, C)
    BY <2>1, <2>3 DEF QueueOK, LowOK
  <2>8. NewOf(InQueue(Rest(n))) = NewOf(ToSet(Tail(s)))
    <3>1. InQueue(Rest(n)) = ToSet(Tail(s))
      BY <2>1, ShortSeqs DEF InQueue
    <3> QED
      BY <3>1
  <2> QED
    BY <2>1, <2>4, <2>5, <2>6, <2>7, <2>8
<1> QED
  BY <1>1, <1>2

\* What brings a bundle into being carries it.
LEMMA NewCarries ==
  ASSUME NEW e, IsNew(e)
  PROVE  CarriesBundle(e)
BY DEF IsNew, IsLocal, CarriesBundle

\* Live is all there is.
LEMMA LiveIds == Live = NewIds \cup OldIds
<1>1. ASSUME NEW n \in Nodes
      PROVE  Ids(n) \cup knownBundles[n] = NewOf(InQueue(queue[n])) \cup Held(n)
  <2>1. Pending(n) = InQueue(queue[n])
    BY DEF Pending, InQueue
  <2>2. AllIds(Objects(n)) = NewOf(Pending(n)) \cup OldOf(Pending(n)) \cup AllIds(store[n])
    BY NewCarries DEF AllIds, Objects, NewOf, OldOf, IdsOf, CarriesBundle
  <2>3. Ids(n) = AllIds(Objects(n)) \cup Working(n)
    BY DEF Ids, AllIds, Working
  <2> QED
    BY <2>1, <2>2, <2>3 DEF Held
<1> QED
  BY <1>1 DEF Live, NewIds, OldIds

\* A fresh number is used by nobody.
LEMMA FreshNumber ==
  ASSUME NEW n, Free(n) # {}
  PROVE  /\ Fresh(n) \in 1..Numbers
         /\ \A id \in NewIds \cup OldIds : id.src[1] = n => id.num # Fresh(n)
<1>1. Free(n) \in SUBSET Nat
  BY CoreAssumption DEF Free
<1>2. PICK x \in Free(n) : \A y \in Free(n) : x <= y
  BY <1>1, LeastNumber
<1>3. Fresh(n) \in Free(n)
  BY <1>2 DEF Fresh
<1> QED
  BY <1>3, LiveIds DEF Free

\* The IDs of bundles that do not exist yet.
LEMMA NewIdFacts ==
  ASSUME NEW C, CoreTypes(C), NEW n \in Nodes, NEW id \in NewOf(InQueue(queue[n]))
  PROVE  id.src[1] = n /\ (id.num \in 1..Numbers \/ \E b \in Sent : Id(b) = id)
<1>1. PICK e \in InQueue(queue[n]) : IsNew(e) /\ id = Id(e.b)
  BY DEF NewOf, IdsOf
<1>2. CoreEventOK(e, n, C)
  BY <1>1 DEF CoreTypes, CoreNodeType, QueueOK, NormalOK, LowOK, InQueue
<1> QED
  BY <1>1, <1>2 DEF CoreEventOK, IsNew, Id

\* What applications send and capsules carry has numbers that no daemon gives.
LEMMA StaticIds ==
  ASSUME NEW C, IdsAreUnique(C)
  PROVE  /\ \A id \in AllIds(C) : id.num \notin 1..Numbers /\ \A b \in Sent : Id(b) # id
         /\ \A b \in Sent : Id(b).num \notin 1..Numbers
BY DEF IdsAreUnique, AllIds, Id

\* What capsules carry is neither on its way to be created nor sent as it is.
LEMMA CarriedIds ==
  ASSUME NEW C, IdsAreUnique(C), CoreTypes(C), LoadOK
  PROVE  AllIds(C) \cap (NewIds \cup LoadIds) = {}
<1>1. AllIds(C) \cap NewIds = {}
  BY NewIdFacts, StaticIds DEF NewIds
<1>2. AllIds(C) \cap LoadIds = {}
  <2>1. \A i \in DOMAIN load : load[i] \in Sent
    BY DEF LoadOK, ToSet
  <2> QED
    BY <2>1, StaticIds DEF LoadIds
<1> QED
  BY <1>1, <1>2

\* A bundle with a fresh number has an ID of its own.
LEMMA FreshIsUnique ==
  ASSUME NEW C, IdsAreUnique(C), LoadOK, NEW n, Free(n) # {}, NEW g, g.src[1] = n, g.num = Fresh(n)
  PROVE  Id(g) \notin NewIds \cup OldIds \cup LoadIds \cup AllIds(C)
<1>1. Id(g).src[1] = n /\ Id(g).num = Fresh(n) /\ Fresh(n) \in 1..Numbers
  BY FreshNumber DEF Id
<1>2. Id(g) \notin NewIds \cup OldIds
  BY <1>1, FreshNumber
<1>3. \A i \in DOMAIN load : load[i] \in Sent
  BY DEF LoadOK, ToSet
<1>4. Id(g) \notin LoadIds \cup AllIds(C)
  BY <1>1, <1>3, StaticIds DEF LoadIds
<1> QED
  BY <1>2, <1>4

-----------------------------------------------------------------------------
\* A step of any nodes keeps the invariant: the bundles of H come into being, those of F are announced.
LEMMA ManyNodes ==
  ASSUME NEW C, CoreInv(C), IdsAreUnique(C), NEW H, NEW F,
         CoreTypes(C)', LoadOK', LoadIds' \subseteq LoadIds, twice' = {},
         \A k \in Nodes : CoreNodeOK(k)',
         \A k \in Nodes : NewOf(InQueue(queue'[k])) \subseteq (NewOf(InQueue(queue[k])) \ H) \cup F,
         \A k \in Nodes : Held(k)' \subseteq OldIds \cup H \cup AllIds(C),
         H \subseteq NewIds,
         F \cap (NewIds \cup OldIds \cup LoadIds' \cup AllIds(C)) = {}
  PROVE  CoreInv(C)'
<1>1. NewIds' \subseteq (NewIds \ H) \cup F
  BY DEF NewIds
<1>2. OldIds' \subseteq OldIds \cup H \cup AllIds(C)
  BY DEF OldIds
<1>3. AllIds(C) \cap (NewIds \cup LoadIds) = {}
  BY CarriedIds DEF CoreInv
<1>4. NewIds \cap OldIds = {} /\ LoadIds \cap (NewIds \cup OldIds) = {}
  BY DEF CoreInv, IdsApart
<1>5. NewIds' \cap OldIds' = {}
  BY <1>1, <1>2, <1>3, <1>4
<1>6. LoadIds' \cap (NewIds' \cup OldIds') = {}
  BY <1>1, <1>2, <1>3, <1>4
<1> QED
  BY <1>5, <1>6 DEF CoreInv, IdsApart

\* Only node n takes a step.
OnlyAt(n) ==
  /\ \A k \in Nodes \ {n} : /\ queue'[k] = queue[k] /\ store'[k] = store[k]
                            /\ knownBundles'[k] = knownBundles[k] /\ work'[k] = work[k]
  /\ DOMAIN queue' = Nodes /\ DOMAIN store' = Nodes /\ DOMAIN knownBundles' = Nodes /\ DOMAIN work' = Nodes
  /\ \A g \in got' : g.node # n => g \in got

\* The same for a step of one node.
LEMMA OneNode ==
  ASSUME NEW C, CoreInv(C), IdsAreUnique(C), NEW n \in Nodes, NEW H, NEW F, OnlyAt(n),
         LoadOK', LoadIds' \subseteq LoadIds, twice' = {},
         CoreNodeType(n, C)', CoreNodeOK(n)',
         NewOf(InQueue(queue'[n])) \subseteq (NewOf(InQueue(queue[n])) \ H) \cup F,
         Held(n)' \subseteq OldIds \cup H \cup AllIds(C),
         H \subseteq NewOf(InQueue(queue[n])),
         F \cap (NewIds \cup OldIds \cup LoadIds' \cup AllIds(C)) = {}
  PROVE  CoreInv(C)'
<1>1. ASSUME NEW k \in Nodes, k # n
      PROVE  /\ CoreNodeType(k, C)' /\ CoreNodeOK(k)' /\ Held(k)' = Held(k)
             /\ NewOf(InQueue(queue'[k])) \subseteq (NewOf(InQueue(queue[k])) \ H) \cup F
  <2>1. /\ queue'[k] = queue[k] /\ store'[k] = store[k]
        /\ knownBundles'[k] = knownBundles[k] /\ work'[k] = work[k]
    BY <1>1 DEF OnlyAt
  <2>2. CoreNodeType(k, C) /\ CoreNodeOK(k)
    BY DEF CoreInv, CoreTypes
  <2>3. CoreNodeType(k, C)'
    BY <2>1, <2>2 DEF CoreNodeType
  <2>4. Held(k)' = Held(k) /\ Awaited(k)' = Awaited(k)
    BY <2>1 DEF Held, Awaited, Working
  <2>5. CoreNodeOK(k)'
    BY <2>1, <2>2, <2>4, <1>1 DEF CoreNodeOK, OnlyAt
  <2>6. \A id \in H : id.src[1] = n
    BY NewIdFacts DEF CoreInv
  <2>7. \A id \in NewOf(InQueue(queue[k])) : id.src[1] = k
    BY NewIdFacts DEF CoreInv
  <2> QED
    BY <2>1, <2>3, <2>4, <2>5, <2>6, <2>7, <1>1
<1>2. CoreTypes(C)'
  BY <1>1 DEF CoreTypes, OnlyAt
<1>3. H \subseteq NewIds
  BY DEF NewIds
<1>4. \A k \in Nodes : Held(k) \subseteq OldIds
  BY DEF OldIds
<1>5. \A k \in Nodes : CoreNodeOK(k)'
  BY <1>1
<1>6. \A k \in Nodes : NewOf(InQueue(queue'[k])) \subseteq (NewOf(InQueue(queue[k])) \ H) \cup F
  BY <1>1
<1>7. \A k \in Nodes : Held(k)' \subseteq OldIds \cup H \cup AllIds(C)
  <2>1. SUFFICES ASSUME NEW k \in Nodes
                 PROVE  Held(k)' \subseteq OldIds \cup H \cup AllIds(C)
    OBVIOUS
  <2>2. CASE k = n
    BY <2>2
  <2>3. CASE k # n
    BY <2>3, <1>1, <1>4
  <2> QED
    BY <2>2, <2>3
<1> QED
  BY <1>2, <1>3, <1>5, <1>6, <1>7, ManyNodes

\* A bundle the daemon creates.
LEMMA NewBundleFacts ==
  ASSUME NEW C, NEW src, NEW dst, NEW num, NEW flags, NEW body, body.type # "capsule"
  PROVE  LET b == NewBundle(src, dst, num, flags, body)
         IN  IsBundle(b, C) /\ b.src = src /\ b.dst = dst /\ b.num = num
<1> DEFINE b == NewBundle(src, dst, num, flags, body)
<1>1. /\ DOMAIN b = {"src", "dst", "rep", "cust", "num", "frag", "flags", "exts", "traits",
                     "body", "elapsed", "originAge", "peerAge"}
      /\ b.exts = <<>> /\ b.body = body /\ b.src = src /\ b.dst = dst /\ b.num = num
  BY DEF NewBundle
<1> HIDE DEF b
<1>2. b.exts \in Seq(ToSet(b.exts))
  BY <1>1, ShortSeqs DEF IsSeq
<1>3. IsBundle(b, C)
  BY <1>1, <1>2 DEF IsBundle
<1> QED
  BY <1>1, <1>3 DEF b

\* A BundleEvent is about a bundle that exists.
LEMMA BundleEventFacts ==
  ASSUME NEW C, NEW n, NEW b, IsBundle(b, C), NEW action, NEW reason
  PROVE  LET t == BundleEvent(b, action, reason)
         IN  Olds(t, n, C) /\ OldOf(ToSet(t)) \subseteq {Id(b)} /\ QueuedOf(ToSet(t)) = {}
<1> DEFINE t == BundleEvent(b, action, reason)
           e == [type |-> "bundle", b |-> b, action |-> action, reason |-> reason]
<1>1. e.type = "bundle" /\ e.b = b
  OBVIOUS
<1>2. t = <<>> \/ t = <<e>>
  BY DEF BundleEvent
<1> HIDE DEF t, e
<1>3. CoreEventOK(e, n, C) /\ ~IsNew(e) /\ ToSet(<<e>>) = {e} /\ ToSet(<<>>) = {}
  BY <1>1, ShortSeqs DEF CoreEventOK, IsNew, IsLocal, CarriesBundle
<1>4. Olds(t, n, C)
  BY <1>2, <1>3, OldsEmpty, OldsOne
<1>5. OldOf(ToSet(t)) \subseteq {Id(b)} /\ QueuedOf(ToSet(t)) = {}
  BY <1>1, <1>2, <1>3 DEF OldOf, QueuedOf, IdsOf
<1> QED
  BY <1>4, <1>5 DEF t

\* A QueueBundleEvent is about a bundle for the node itself.
LEMMA QueuedFacts ==
  ASSUME NEW C, NEW n, NEW b, IsBundle(b, C)
  PROVE  LET t == Queued(n, b)
         IN  /\ Olds(t, n, C) /\ OldOf(ToSet(t)) \subseteq {Id(b)} /\ QueuedOf(ToSet(t)) \subseteq {Id(b)}
             /\ QueuedOf(ToSet(t)) # {} => b.dst[1] = n
<1> DEFINE t == Queued(n, b)
           e == [type |-> "queued", b |-> b]
<1>1. e.type = "queued" /\ e.b = b
  OBVIOUS
<1>2. t = <<>> \/ (t = <<e>> /\ b.dst[1] = n)
  BY DEF Queued
<1> HIDE DEF t, e
<1>3. /\ ~IsNew(e) /\ ToSet(<<e>>) = {e} /\ ToSet(<<>>) = {}
      /\ b.dst[1] = n => CoreEventOK(e, n, C)
  BY <1>1, ShortSeqs DEF CoreEventOK, IsNew, IsLocal, CarriesBundle
<1>4. Olds(t, n, C)
  BY <1>2, <1>3, OldsEmpty, OldsOne
<1>5. /\ OldOf(ToSet(t)) \subseteq {Id(b)} /\ QueuedOf(ToSet(t)) \subseteq {Id(b)}
      /\ t = <<>> => QueuedOf(ToSet(t)) = {}
  BY <1>1, <1>2, <1>3 DEF OldOf, QueuedOf, IdsOf
<1> QED
  BY <1>2, <1>4, <1>5 DEF t

\* A BundleGeneratedEvent brings one bundle into being.
LEMMA GeneratedFacts ==
  ASSUME NEW C, NEW n, NEW g, IsBundle(g, C), g.src[1] = n, g.num \in 1..Numbers
  PROVE  LET t == <<Generated(g)>>
         IN  /\ NormalOK(t, n, C) /\ NewOf(ToSet(t)) = {Id(g)}
             /\ OldOf(ToSet(t)) = {} /\ QueuedOf(ToSet(t)) = {}
<1> DEFINE e == Generated(g)
<1>1. e.type = "generated" /\ e.b = g
  BY DEF Generated
<1> HIDE DEF e
<1>2. /\ CoreEventOK(e, n, C) /\ ~IsLocal(e) /\ IsNew(e)
  BY <1>1 DEF CoreEventOK, IsNew, IsLocal, CarriesBundle
<1>3. /\ ToSet(<<e>>) = {e} /\ IsSeq(<<e>>) /\ DOMAIN <<e>> = {1}
  BY ShortSeqs
<1>4. Twinless(<<e>>)
  BY <1>3 DEF Twinless
<1>5. NormalOK(<<e>>, n, C)
  BY <1>2, <1>3, <1>4 DEF NormalOK
<1>6. NewOf({e}) = {Id(g)} /\ OldOf({e}) = {} /\ QueuedOf({e}) = {}
  BY <1>1, <1>2 DEF NewOf, OldOf, QueuedOf, IdsOf
<1> QED
  BY <1>3, <1>5, <1>6 DEF e

\* Events about bundles that exist follow others.
LEMMA NormalJoin ==
  ASSUME NEW C, NEW n, NEW s, NEW t, NormalOK(s, n, C), Olds(t, n, C)
  PROVE  /\ NormalOK(s \o t, n, C) /\ ToSet(s \o t) = ToSet(s) \cup ToSet(t)
         /\ NewOf(ToSet(s \o t)) = NewOf(ToSet(s))
         /\ OldOf(ToSet(s \o t)) = OldOf(ToSet(s)) \cup OldOf(ToSet(t))
         /\ QueuedOf(ToSet(s \o t)) = QueuedOf(ToSet(s)) \cup QueuedOf(ToSet(t))
<1>1. Twinless(t) /\ NewOf(ToSet(t)) = {} /\ IsSeq(t) /\ IsSeq(s) /\ Twinless(s)
  BY OldsFacts DEF Olds, NormalOK
<1>2. IsSeq(s \o t) /\ ToSet(s \o t) = ToSet(s) \cup ToSet(t)
  BY <1>1, JoinedSeq
<1>3. Twinless(s \o t)
  <2>1. NewOf(ToSet(s)) \cap NewOf(ToSet(t)) = {}
    BY <1>1
  <2> QED
    BY <1>1, <2>1, JoinedTwinless
<1>4. NormalOK(s \o t, n, C)
  BY <1>2, <1>3 DEF NormalOK, Olds, IsNew
<1>5. /\ NewOf(ToSet(s) \cup ToSet(t)) = NewOf(ToSet(s)) \cup NewOf(ToSet(t))
      /\ OldOf(ToSet(s) \cup ToSet(t)) = OldOf(ToSet(s)) \cup OldOf(ToSet(t))
      /\ QueuedOf(ToSet(s) \cup ToSet(t)) = QueuedOf(ToSet(s)) \cup QueuedOf(ToSet(t))
  BY JoinedIds
<1>6. /\ NewOf(ToSet(s \o t)) = NewOf(ToSet(s)) \cup NewOf(ToSet(t))
      /\ OldOf(ToSet(s \o t)) = OldOf(ToSet(s)) \cup OldOf(ToSet(t))
      /\ QueuedOf(ToSet(s \o t)) = QueuedOf(ToSet(s)) \cup QueuedOf(ToSet(t))
  BY <1>2, <1>5, Zenon
<1> QED
  BY <1>1, <1>2, <1>4, <1>6

\* What was raised about bundles that exist.
LEMMA OldsNormal ==
  ASSUME NEW C, NEW n, NEW t, Olds(t, n, C)
  PROVE  NormalOK(t, n, C) /\ NewOf(ToSet(t)) = {}
BY OldsFacts DEF NormalOK, Olds, IsNew

-----------------------------------------------------------------------------
\* What becomes of the IDs when a node handles its next event.
Brought(n) == IF IsNew(NextEvent(n)) THEN {Id(NextEvent(n).b)} ELSE {}

\* The next event, and the queue without it.
LEMMA NextEventFacts ==
  ASSUME NEW C, CoreInv(C), NEW n \in Nodes, queue[n].normal # <<>> \/ queue[n].low # <<>>
  PROVE  LET e == NextEvent(n)
         IN  /\ QueueOK(queue[n], n, C) /\ QueueOK(Rest(n), n, C)
             /\ InQueue(queue[n]) = InQueue(Rest(n)) \cup {e}
             /\ CoreEventOK(e, n, C)
             /\ Brought(n) \subseteq NewOf(InQueue(queue[n]))
             /\ NewOf(InQueue(Rest(n))) = NewOf(InQueue(queue[n])) \ Brought(n)
             /\ OldOf(InQueue(Rest(n))) \subseteq OldOf(InQueue(queue[n]))
             /\ QueuedOf(InQueue(Rest(n))) \subseteq QueuedOf(InQueue(queue[n]))
             /\ CarriesBundle(e) => Id(e.b) \in Held(n) \cup Brought(n)
             /\ e.type = "queued" => Id(e.b) \in QueuedOf(InQueue(queue[n]))
             /\ IsNew(e) => Id(e.b) \notin OldIds
<1> DEFINE e == NextEvent(n)
<1>1. QueueOK(queue[n], n, C)
  BY DEF CoreInv, CoreTypes, CoreNodeType
<1>2. /\ QueueOK(Rest(n), n, C) /\ InQueue(queue[n]) = InQueue(Rest(n)) \cup {e}
      /\ CoreEventOK(e, n, C)
      /\ IsNew(e) => Id(e.b) \notin NewOf(InQueue(Rest(n)))
  BY <1>1, RestOfQueue
<1> HIDE DEF e
<1>3. /\ IsNew(e) => NewOf({e}) = {Id(e.b)}
      /\ ~IsNew(e) => NewOf({e}) = {}
      /\ CarriesBundle(e) /\ ~IsNew(e) => OldOf({e}) = {Id(e.b)}
      /\ e.type = "queued" => QueuedOf({e}) = {Id(e.b)}
  BY DEF NewOf, OldOf, QueuedOf, IdsOf
<1>4. /\ NewOf(InQueue(queue[n])) = NewOf(InQueue(Rest(n))) \cup NewOf({e})
      /\ OldOf(InQueue(queue[n])) = OldOf(InQueue(Rest(n))) \cup OldOf({e})
      /\ QueuedOf(InQueue(queue[n])) = QueuedOf(InQueue(Rest(n))) \cup QueuedOf({e})
  <2> DEFINE S == {e}
  <2>1. InQueue(queue[n]) = InQueue(Rest(n)) \cup S
    BY <1>2
  <2> HIDE DEF S
  <2>2. /\ NewOf(InQueue(Rest(n)) \cup S) = NewOf(InQueue(Rest(n))) \cup NewOf(S)
        /\ OldOf(InQueue(Rest(n)) \cup S) = OldOf(InQueue(Rest(n))) \cup OldOf(S)
        /\ QueuedOf(InQueue(Rest(n)) \cup S) = QueuedOf(InQueue(Rest(n))) \cup QueuedOf(S)
    BY JoinedIds
  <2>3. /\ NewOf(InQueue(queue[n])) = NewOf(InQueue(Rest(n))) \cup NewOf(S)
        /\ OldOf(InQueue(queue[n])) = OldOf(InQueue(Rest(n))) \cup OldOf(S)
        /\ QueuedOf(InQueue(queue[n])) = QueuedOf(InQueue(Rest(n))) \cup QueuedOf(S)
    BY <2>1, <2>2, Zenon
  <2> QED
    BY <2>3 DEF S
<1>5. Brought(n) = NewOf({e})
  BY <1>3 DEF Brought, e
<1>6. CarriesBundle(e) => Id(e.b) \in Held(n) \cup Brought(n)
  <2>1. OldOf(InQueue(queue[n])) \subseteq Held(n)
    BY DEF Held
  <2>2. CASE IsNew(e)
    BY <2>2, <1>3, <1>5
  <2>3. CASE ~IsNew(e)
    BY <2>1, <2>3, <1>3, <1>4
  <2> QED
    BY <2>2, <2>3
<1>7. IsNew(e) => Id(e.b) \notin OldIds
  <2>1. NewOf(InQueue(queue[n])) \subseteq NewIds
    BY DEF NewIds
  <2>2. NewIds \cap OldIds = {}
    BY DEF CoreInv, IdsApart
  <2> QED
    BY <1>3, <1>4, <2>1, <2>2
<1>8. NewOf(InQueue(Rest(n))) \cap NewOf({e}) = {}
  BY <1>2, <1>3
<1>9. /\ Brought(n) \subseteq NewOf(InQueue(queue[n]))
      /\ NewOf(InQueue(Rest(n))) = NewOf(InQueue(queue[n])) \ Brought(n)
  BY <1>4, <1>5, <1>8
<1>10. /\ OldOf(InQueue(Rest(n))) \subseteq OldOf(InQueue(queue[n]))
       /\ QueuedOf(InQueue(Rest(n))) \subseteq QueuedOf(InQueue(queue[n]))
       /\ e.type = "queued" => Id(e.b) \in QueuedOf(InQueue(queue[n]))
  BY <1>3, <1>4
<1> QED
  BY <1>1, <1>2, <1>6, <1>7, <1>9, <1>10 DEF e

\* A bundle is stored that the node did not know.
LEMMA StoredNode ==
  ASSUME NEW n \in Nodes, CoreNodeOK(n), NEW c, Id(c) \notin knownBundles[n],
         store'[n] = store[n] \cup {c}, knownBundles'[n] = knownBundles[n] \cup {Id(c)},
         NEW Q, Awaited(n)' \subseteq Awaited(n) \cup Q, Q \subseteq {Id(c)}, Q # {} => c.dst[1] = n,
         got' = got
  PROVE  CoreNodeOK(n)'
<1>1. AllIds(store'[n]) = AllIds(store[n]) \cup {Id(c)}
  BY DEF AllIds
<1>2. \A b \in store[n] : Id(b) \in AllIds(store[n])
  BY DEF AllIds
<1>3. \A b \in store'[n] : Id(b) \in Awaited(n)' => b.dst[1] = n
  BY <1>2 DEF CoreNodeOK
<1> QED
  BY <1>1, <1>3 DEF CoreNodeOK

\* Bundles may go, be changed in other fields, or be delivered.
LEMMA ReducedNode ==
  ASSUME NEW n \in Nodes, CoreNodeOK(n),
         \A c \in store'[n] : \E b \in store[n] : Id(c) = Id(b) /\ c.dst = b.dst,
         knownBundles[n] \subseteq knownBundles'[n],
         Awaited(n)' \subseteq Awaited(n),
         \A g \in got' : g.node = n => g \in got \/ g.id \in AllIds(store[n]) \ AllIds(store'[n])
  PROVE  CoreNodeOK(n)'
<1>1. AllIds(store'[n]) \subseteq AllIds(store[n])
  BY DEF AllIds
<1> QED
  BY <1>1 DEF CoreNodeOK

\* What is in the queue of a node after it has handled its next event.
HandledWith(n, C, T) ==
  /\ QueueOK(queue'[n], n, C)
  /\ NewOf(InQueue(queue'[n])) \subseteq (NewOf(InQueue(queue[n])) \ Brought(n)) \cup NewOf(T)
  /\ OldOf(InQueue(queue'[n])) \subseteq OldIds \cup Brought(n)
  /\ QueuedOf(InQueue(queue'[n])) \subseteq QueuedOf(InQueue(queue[n])) \cup QueuedOf(T)
  /\ DOMAIN queue' = Nodes /\ \A k \in Nodes \ {n} : queue'[k] = queue[k]

\* What a node has exists.
LEMMA HeldIsOld ==
  ASSUME NEW n \in Nodes
  PROVE  Held(n) \subseteq OldIds /\ NewOf(InQueue(queue[n])) \subseteq NewIds
BY DEF OldIds, NewIds

\* An event is handled and none is raised.
LEMMA HandledRest ==
  ASSUME NEW C, CoreInv(C), NEW n \in Nodes, queue[n].normal # <<>> \/ queue[n].low # <<>>,
         queue' = [queue EXCEPT ![n] = Rest(n)]
  PROVE  HandledWith(n, C, {})
<1>1. DOMAIN queue = Nodes
  BY DEF CoreInv, CoreTypes
<1>2. queue'[n] = Rest(n) /\ DOMAIN queue' = Nodes /\ \A k \in Nodes \ {n} : queue'[k] = queue[k]
  BY <1>1
<1>3. OldOf(InQueue(queue[n])) \subseteq OldIds
  BY HeldIsOld DEF Held
<1> QED
  BY <1>2, <1>3, NextEventFacts DEF HandledWith

\* An event is handled and others are raised.
LEMMA HandledRaised ==
  ASSUME NEW C, CoreInv(C), NEW n \in Nodes, queue[n].normal # <<>> \/ queue[n].low # <<>>,
         NEW t, NormalOK(t, n, C), NewOf(ToSet(t)) \cap NewIds = {},
         OldOf(ToSet(t)) \subseteq OldIds \cup Brought(n),
         queue' = [queue EXCEPT ![n] = Raised(Rest(n), t)]
  PROVE  HandledWith(n, C, ToSet(t))
<1>1. DOMAIN queue = Nodes
  BY DEF CoreInv, CoreTypes
<1>2. /\ queue'[n] = Raised(Rest(n), t) /\ DOMAIN queue' = Nodes
      /\ \A k \in Nodes \ {n} : queue'[k] = queue[k]
  BY <1>1
<1>3. OldOf(InQueue(queue[n])) \subseteq OldIds
  BY HeldIsOld DEF Held
<1>4. QueueOK(Rest(n), n, C) /\ NewOf(InQueue(Rest(n))) \cap NewOf(ToSet(t)) = {}
  BY NextEventFacts, HeldIsOld
<1>5. QueueOK(queue'[n], n, C) /\ InQueue(queue'[n]) = InQueue(Rest(n)) \cup ToSet(t)
  BY <1>2, <1>4, RaisedQueue
<1>6. /\ NewOf(InQueue(Rest(n)) \cup ToSet(t)) = NewOf(InQueue(Rest(n))) \cup NewOf(ToSet(t))
      /\ OldOf(InQueue(Rest(n)) \cup ToSet(t)) = OldOf(InQueue(Rest(n))) \cup OldOf(ToSet(t))
      /\ QueuedOf(InQueue(Rest(n)) \cup ToSet(t)) = QueuedOf(InQueue(Rest(n))) \cup QueuedOf(ToSet(t))
  BY JoinedIds
<1>7. /\ NewOf(InQueue(queue'[n])) = NewOf(InQueue(Rest(n))) \cup NewOf(ToSet(t))
      /\ OldOf(InQueue(queue'[n])) = OldOf(InQueue(Rest(n))) \cup OldOf(ToSet(t))
      /\ QueuedOf(InQueue(queue'[n])) = QueuedOf(InQueue(Rest(n))) \cup QueuedOf(ToSet(t))
  BY <1>5, <1>6, Zenon
<1> QED
  BY <1>2, <1>3, <1>5, <1>7, NextEventFacts DEF HandledWith

\* The rest of a step in which one node handles its next event.
LEMMA HandlerStep ==
  ASSUME NEW C, CoreInv(C), IdsAreUnique(C), NEW n \in Nodes, queue[n].normal # <<>> \/ queue[n].low # <<>>,
         NEW T, HandledWith(n, C, T),
         NewOf(T) \cap (NewIds \cup OldIds \cup LoadIds \cup AllIds(C)) = {},
         \A k \in Nodes \ {n} : /\ store'[k] = store[k] /\ knownBundles'[k] = knownBundles[k]
                                /\ work'[k] = work[k],
         DOMAIN store' = Nodes, DOMAIN knownBundles' = Nodes, DOMAIN work' = Nodes,
         \A g \in got' : g.node # n => g \in got,
         UNCHANGED load, twice' = {},
         \A b \in store'[n] : IsBundle(b, C),
         DOMAIN work'[n] = Services, \A s \in Services : IsSeq(work'[n][s]),
         CoreNodeOK(n)',
         AllIds(store'[n]) \cup knownBundles'[n] \cup Working(n)' \subseteq OldIds \cup Brought(n)
  PROVE  CoreInv(C)'
<1>1. OnlyAt(n)
  BY DEF OnlyAt, HandledWith
<1>2. LoadOK' /\ LoadIds' \subseteq LoadIds
  BY DEF CoreInv, LoadOK, LoadIds
<1>3. CoreNodeType(n, C)'
  BY DEF CoreNodeType, HandledWith
<1>4. Held(n)' \subseteq OldIds \cup Brought(n) \cup AllIds(C)
  BY DEF Held, HandledWith
<1>5. Brought(n) \subseteq NewOf(InQueue(queue[n]))
  BY NextEventFacts
<1>6. NewOf(T) \cap (NewIds \cup OldIds \cup LoadIds' \cup AllIds(C)) = {}
  BY <1>2
<1>7. NewOf(InQueue(queue'[n])) \subseteq (NewOf(InQueue(queue[n])) \ Brought(n)) \cup NewOf(T)
  BY DEF HandledWith
<1> QED
  BY <1>1, <1>2, <1>3, <1>4, <1>5, <1>6, <1>7, OneNode

\* What is awaited after the queue has changed.
LEMMA AwaitedChange ==
  ASSUME NEW n, NEW Q, QueuedOf(InQueue(queue'[n])) \subseteq QueuedOf(InQueue(queue[n])) \cup Q,
         work'[n] = work[n]
  PROVE  Working(n)' = Working(n) /\ Awaited(n)' \subseteq Awaited(n) \cup Q
BY DEF Awaited, Working

\* A bundle with a fresh number is announced.
LEMMA GeneratesFresh ==
  ASSUME NEW C, CoreInv(C), IdsAreUnique(C), NEW n, Free(n) # {}, NEW g,
         IsBundle(g, C), g.src[1] = n, g.num = Fresh(n)
  PROVE  LET t == <<Generated(g)>>
         IN  /\ NormalOK(t, n, C) /\ OldOf(ToSet(t)) = {} /\ QueuedOf(ToSet(t)) = {}
             /\ NewOf(ToSet(t)) \cap (NewIds \cup OldIds \cup LoadIds \cup AllIds(C)) = {}
<1>1. g.num \in 1..Numbers
  BY FreshNumber
<1>2. Id(g) \notin NewIds \cup OldIds \cup LoadIds \cup AllIds(C)
  BY FreshIsUnique DEF CoreInv
<1>3. LET t == <<Generated(g)>>
      IN  NormalOK(t, n, C) /\ NewOf(ToSet(t)) = {Id(g)} /\ OldOf(ToSet(t)) = {} /\ QueuedOf(ToSet(t)) = {}
  BY <1>1, GeneratedFacts
<1> QED
  BY <1>2, <1>3

\* No event is raised.
LEMMA EmptyRaised ==
  ASSUME NEW n, NEW C
  PROVE  NormalOK(<<>>, n, C) /\ NewOf(ToSet(<<>>)) = {} /\ OldOf(ToSet(<<>>)) = {} /\ QueuedOf(ToSet(<<>>)) = {}
BY ShortSeqs, NoIds DEF NormalOK, Twinless

\* Custody changes neither the ID nor the destination of a bundle.
LEMMA StoredFacts ==
  ASSUME NEW C, NEW n, NEW b, IsBundle(b, C)
  PROVE  IsBundle(Stored(n, b), C) /\ Id(Stored(n, b)) = Id(b) /\ Stored(n, b).dst = b.dst
<1> DEFINE c == [b EXCEPT !.cust = n]
<1>1. /\ DOMAIN c = DOMAIN b /\ c.src = b.src /\ c.num = b.num /\ c.frag = b.frag /\ c.dst = b.dst
      /\ c.exts = b.exts /\ c.body = b.body
  BY DEF IsBundle
<1> HIDE DEF c
<1>2. IsBundle(c, C) /\ Id(c) = Id(b) /\ c.dst = b.dst
  BY <1>1 DEF IsBundle, Id
<1>3. Stored(n, b) = c \/ Stored(n, b) = b
  BY DEF Stored, c
<1> QED
  BY <1>2, <1>3

\* The parts of the invariant at one node.
LEMMA NodeFacts ==
  ASSUME NEW C, CoreInv(C), NEW n \in Nodes
  PROVE  /\ CoreNodeType(n, C) /\ CoreNodeOK(n)
         /\ DOMAIN store = Nodes /\ DOMAIN knownBundles = Nodes /\ DOMAIN work = Nodes
         /\ AllIds(store[n]) \cup knownBundles[n] \cup Working(n) \subseteq OldIds
<1>1. Held(n) \subseteq OldIds
  BY HeldIsOld
<1> QED
  BY <1>1 DEF CoreInv, CoreTypes, Held

\* A node handles an event and stores nothing, delivers nothing.
LEMMA OnlyRaises ==
  ASSUME NEW C, CoreInv(C), IdsAreUnique(C), NEW n \in Nodes, queue[n].normal # <<>> \/ queue[n].low # <<>>,
         NEW T, HandledWith(n, C, T), QueuedOf(T) = {},
         NewOf(T) \cap (NewIds \cup OldIds \cup LoadIds \cup AllIds(C)) = {},
         UNCHANGED <<load, store, knownBundles, work, got, twice>>
  PROVE  CoreInv(C)'
<1>1. /\ CoreNodeType(n, C) /\ CoreNodeOK(n)
      /\ DOMAIN store = Nodes /\ DOMAIN knownBundles = Nodes /\ DOMAIN work = Nodes
      /\ AllIds(store[n]) \cup knownBundles[n] \cup Working(n) \subseteq OldIds
  BY NodeFacts
<1>2. Working(n)' = Working(n) /\ Awaited(n)' \subseteq Awaited(n)
  <2>1. QueuedOf(InQueue(queue'[n])) \subseteq QueuedOf(InQueue(queue[n])) \cup {}
    BY DEF HandledWith
  <2> QED
    BY <2>1, AwaitedChange
<1>3. CoreNodeOK(n)'
  BY <1>1, <1>2, ReducedNode
<1>4. twice' = {}
  BY DEF CoreInv
<1>5. AllIds(store'[n]) \cup knownBundles'[n] \cup Working(n)' \subseteq OldIds \cup Brought(n)
  BY <1>1, <1>2
<1>6. /\ \A b \in store'[n] : IsBundle(b, C)
      /\ DOMAIN work'[n] = Services /\ \A s \in Services : IsSeq(work'[n][s])
  BY <1>1 DEF CoreNodeType
<1> QED
  BY <1>1, <1>3, <1>4, <1>5, <1>6, HandlerStep

\* A received bundle is stored only if it is local or was not known.
LEMMA RouterReceivedKeeps ==
  ASSUME NEW C, CoreInv(C), IdsAreUnique(C), NEW n \in Nodes, RouterReceived(n)
  PROVE  CoreInv(C)'
<1> DEFINE e == NextEvent(n)
           b == e.b
           new == e.local \/ ~IsKnown(n, Id(b))
           report == BundleEvent(b, "received", "NO_ADDITIONAL_INFORMATION")
           refusal == BundleEvent(b, "deleted", "DEPLETED_STORAGE")
           t == CustodyEvents(n, b) \o Queued(n, b) \o report
<1>1. (queue[n].normal # <<>> \/ queue[n].low # <<>>) /\ e.type = "received"
  BY DEF RouterReceived, HasEvent
<1>2. /\ CoreEventOK(e, n, C) /\ Brought(n) \subseteq NewOf(InQueue(queue[n]))
      /\ CarriesBundle(e) => Id(e.b) \in Held(n) \cup Brought(n)
      /\ IsNew(e) => Id(e.b) \notin OldIds
  BY <1>1, NextEventFacts
<1>3. IsBundle(b, C) /\ Id(b) \in OldIds \cup Brought(n)
  BY <1>1, <1>2, HeldIsOld DEF CarriesBundle, CoreEventOK
<1>4. UNCHANGED <<load, work, got, twice>>
  BY DEF RouterReceived, history
<1>5. \/ queue' = [queue EXCEPT ![n] = Rest(n)] /\ UNCHANGED <<store, knownBundles>>
      \/ queue' = [queue EXCEPT ![n] = Raised(Rest(n), report)] /\ UNCHANGED <<store, knownBundles>>
      \/ queue' = [queue EXCEPT ![n] = Raised(Rest(n), refusal)] /\ UNCHANGED <<store, knownBundles>>
      \/ /\ new
         /\ TakesCustody(b) => Free(n) # {}
         /\ store' = [store EXCEPT ![n] = @ \cup {Stored(n, b)}]
         /\ knownBundles' = [knownBundles EXCEPT ![n] = @ \cup {Id(b)}]
         /\ queue' = [queue EXCEPT ![n] = Raised(Rest(n), t)]
  BY DEF RouterReceived
<1> HIDE DEF e, b, new, report, refusal, t
<1>6. CASE queue' = [queue EXCEPT ![n] = Rest(n)] /\ UNCHANGED <<store, knownBundles>>
  BY <1>1, <1>4, <1>6, HandledRest, NoIds, OnlyRaises
<1>7. ASSUME NEW r, queue' = [queue EXCEPT ![n] = Raised(Rest(n), r)], UNCHANGED <<store, knownBundles>>,
             Olds(r, n, C), OldOf(ToSet(r)) \subseteq {Id(b)}, QueuedOf(ToSet(r)) = {}
      PROVE  CoreInv(C)'
  <2>1. NormalOK(r, n, C) /\ NewOf(ToSet(r)) = {}
    BY <1>7, OldsNormal
  <2>2. HandledWith(n, C, ToSet(r))
    BY <2>1, <1>7, <1>1, <1>3, HandledRaised
  <2> QED
    BY <2>1, <2>2, <1>1, <1>4, <1>7, OnlyRaises
<1>8. /\ Olds(report, n, C) /\ OldOf(ToSet(report)) \subseteq {Id(b)} /\ QueuedOf(ToSet(report)) = {}
      /\ Olds(refusal, n, C) /\ OldOf(ToSet(refusal)) \subseteq {Id(b)} /\ QueuedOf(ToSet(refusal)) = {}
  BY <1>3, BundleEventFacts DEF report, refusal
<1>9. CASE /\ new
           /\ TakesCustody(b) => Free(n) # {}
           /\ store' = [store EXCEPT ![n] = @ \cup {Stored(n, b)}]
           /\ knownBundles' = [knownBundles EXCEPT ![n] = @ \cup {Id(b)}]
           /\ queue' = [queue EXCEPT ![n] = Raised(Rest(n), t)]
  <2> DEFINE cs == CustodyEvents(n, b)
             qs == Queued(n, b)
             c == Stored(n, b)
  <2>1. /\ NormalOK(cs, n, C) /\ OldOf(ToSet(cs)) = {} /\ QueuedOf(ToSet(cs)) = {}
        /\ NewOf(ToSet(cs)) \cap (NewIds \cup OldIds \cup LoadIds \cup AllIds(C)) = {}
    <3>1. CASE TakesCustody(b)
      <4> DEFINE g == CustodySignal(n, Fresh(n), b)
      <4>1. IsBundle(g, C) /\ g.src = <<n, Itself>> /\ g.num = Fresh(n)
        <5>1. SignalOf(b).type # "capsule"
          BY DEF SignalOf
        <5>2. g = NewBundle(<<n, Itself>>, <<b.cust, Itself>>, Fresh(n), {"DESTINATION_IS_SINGLETON"}, SignalOf(b))
          BY DEF CustodySignal
        <5> QED
          BY <5>1, <5>2, NewBundleFacts
      <4>2. cs = <<Generated(g)>>
        BY <3>1 DEF CustodyEvents
      <4> HIDE DEF g, cs
      <4>3. g.src[1] = n
        BY <4>1
      <4> QED
        BY <4>1, <4>2, <4>3, <3>1, <1>9, GeneratesFresh
    <3>2. CASE ~TakesCustody(b)
      <4>1. cs = <<>>
        BY <3>2 DEF CustodyEvents
      <4> QED
        BY <4>1, EmptyRaised
    <3> QED
      BY <3>1, <3>2
  <2>2. /\ Olds(qs, n, C) /\ OldOf(ToSet(qs)) \subseteq {Id(b)} /\ QueuedOf(ToSet(qs)) \subseteq {Id(b)}
        /\ QueuedOf(ToSet(qs)) # {} => b.dst[1] = n
    BY <1>3, QueuedFacts
  <2>3. IsBundle(c, C) /\ Id(c) = Id(b) /\ c.dst = b.dst
    BY <1>3, StoredFacts
  <2>4. t = (cs \o qs) \o report
    BY DEF t
  <2> HIDE DEF cs, qs, c
  <2>5. /\ NormalOK(cs \o qs, n, C) /\ NewOf(ToSet(cs \o qs)) = NewOf(ToSet(cs))
        /\ OldOf(ToSet(cs \o qs)) \subseteq {Id(b)} /\ QueuedOf(ToSet(cs \o qs)) = QueuedOf(ToSet(qs))
    <3>1. NormalOK(cs, n, C) /\ Olds(qs, n, C)
      BY <2>1, <2>2
    <3>2. /\ NormalOK(cs \o qs, n, C) /\ NewOf(ToSet(cs \o qs)) = NewOf(ToSet(cs))
          /\ OldOf(ToSet(cs \o qs)) = OldOf(ToSet(cs)) \cup OldOf(ToSet(qs))
          /\ QueuedOf(ToSet(cs \o qs)) = QueuedOf(ToSet(cs)) \cup QueuedOf(ToSet(qs))
      <4>1. NormalOK(cs \o qs, n, C)
        BY <3>1, NormalJoin
      <4> QED
        BY <3>1, <4>1, NormalJoin
    <3> QED
      BY <3>2, <2>1, <2>2
  <2>6. /\ NormalOK(t, n, C) /\ NewOf(ToSet(t)) = NewOf(ToSet(cs))
        /\ OldOf(ToSet(t)) \subseteq {Id(b)} /\ QueuedOf(ToSet(t)) = QueuedOf(ToSet(qs))
    <3> DEFINE u == cs \o qs
    <3>1. NormalOK(u, n, C) /\ Olds(report, n, C)
      BY <2>5, <1>8
    <3> HIDE DEF u
    <3>2. /\ NormalOK(u \o report, n, C) /\ NewOf(ToSet(u \o report)) = NewOf(ToSet(u))
          /\ OldOf(ToSet(u \o report)) = OldOf(ToSet(u)) \cup OldOf(ToSet(report))
          /\ QueuedOf(ToSet(u \o report)) = QueuedOf(ToSet(u)) \cup QueuedOf(ToSet(report))
      <4>1. NormalOK(u \o report, n, C)
        BY <3>1, NormalJoin
      <4> QED
        BY <3>1, <4>1, NormalJoin
    <3>3. t = u \o report
      BY <2>4 DEF u
    <3>4. /\ NormalOK(t, n, C) /\ NewOf(ToSet(t)) = NewOf(ToSet(u))
          /\ OldOf(ToSet(t)) = OldOf(ToSet(u)) \cup OldOf(ToSet(report))
          /\ QueuedOf(ToSet(t)) = QueuedOf(ToSet(u)) \cup QueuedOf(ToSet(report))
      BY <3>2, <3>3
    <3> QED
      BY <3>4, <2>5, <1>8 DEF u
  <2>7. HandledWith(n, C, ToSet(t))
    BY <2>1, <2>6, <1>1, <1>3, <1>9, HandledRaised
  <2>8. /\ CoreNodeType(n, C) /\ CoreNodeOK(n)
        /\ DOMAIN store = Nodes /\ DOMAIN knownBundles = Nodes /\ DOMAIN work = Nodes
        /\ AllIds(store[n]) \cup knownBundles[n] \cup Working(n) \subseteq OldIds
    BY NodeFacts
  <2>9. Id(b) \notin knownBundles[n]
    <3>1. CASE e.local
      BY <3>1, <2>8, <1>1, <1>2 DEF IsNew, IsLocal, b
    <3>2. CASE ~IsKnown(n, Id(b))
      BY <3>2 DEF IsKnown
    <3> QED
      BY <3>1, <3>2, <1>9 DEF new
  <2>10. /\ store'[n] = store[n] \cup {c} /\ knownBundles'[n] = knownBundles[n] \cup {Id(b)}
         /\ DOMAIN store' = Nodes /\ DOMAIN knownBundles' = Nodes
         /\ \A k \in Nodes \ {n} : store'[k] = store[k] /\ knownBundles'[k] = knownBundles[k]
    BY <1>9, <2>8 DEF c
  <2>11. Working(n)' = Working(n) /\ Awaited(n)' \subseteq Awaited(n) \cup QueuedOf(ToSet(qs))
    <3>1. QueuedOf(InQueue(queue'[n])) \subseteq QueuedOf(InQueue(queue[n])) \cup QueuedOf(ToSet(qs))
      BY <2>6, <2>7 DEF HandledWith
    <3>2. work'[n] = work[n]
      BY <1>4
    <3> QED
      BY <3>1, <3>2, AwaitedChange
  <2>12. CoreNodeOK(n)'
    BY <2>2, <2>3, <2>8, <2>9, <2>10, <2>11, <1>4, StoredNode
  <2>13. AllIds(store'[n]) \cup knownBundles'[n] \cup Working(n)' \subseteq OldIds \cup Brought(n)
    <3>1. AllIds(store'[n]) = AllIds(store[n]) \cup {Id(b)}
      BY <2>3, <2>10 DEF AllIds
    <3> QED
      BY <3>1, <1>3, <2>8, <2>10, <2>11
  <2>14. /\ \A d \in store'[n] : IsBundle(d, C)
         /\ DOMAIN work'[n] = Services /\ \A s \in Services : IsSeq(work'[n][s])
         /\ DOMAIN work' = Nodes /\ twice' = {}
    BY <2>3, <2>8, <2>10, <1>4 DEF CoreNodeType, CoreInv
  <2>15. NewOf(ToSet(t)) \cap (NewIds \cup OldIds \cup LoadIds \cup AllIds(C)) = {}
    BY <2>1, <2>6
  <2> QED
    BY <1>1, <1>4, <2>7, <2>10, <2>12, <2>13, <2>14, <2>15, HandlerStep
<1> QED
  BY <1>5, <1>6, <1>7, <1>8, <1>9

\* A bundle of the daemon is stored if there is room.
LEMMA RouterGeneratedKeeps ==
  ASSUME NEW C, CoreInv(C), IdsAreUnique(C), NEW n \in Nodes, RouterGenerated(n)
  PROVE  CoreInv(C)'
<1> DEFINE e == NextEvent(n)
           b == e.b
           t == Queued(n, b)
<1>1. (queue[n].normal # <<>> \/ queue[n].low # <<>>) /\ e.type = "generated"
  BY DEF RouterGenerated, HasEvent
<1>2. /\ CoreEventOK(e, n, C) /\ Brought(n) \subseteq NewOf(InQueue(queue[n]))
      /\ CarriesBundle(e) => Id(e.b) \in Held(n) \cup Brought(n)
      /\ IsNew(e) => Id(e.b) \notin OldIds
  BY <1>1, NextEventFacts
<1>3. IsBundle(b, C) /\ Id(b) \in Brought(n) /\ Id(b) \notin OldIds
  BY <1>1, <1>2 DEF CarriesBundle, CoreEventOK, IsNew, Brought
<1>4. UNCHANGED <<load, work, got, twice>>
  BY DEF RouterGenerated, history
<1>5. /\ knownBundles' = [knownBundles EXCEPT ![n] = @ \cup {Id(b)}]
      /\ \/ store' = [store EXCEPT ![n] = @ \cup {b}] /\ queue' = [queue EXCEPT ![n] = Raised(Rest(n), t)]
         \/ store' = store /\ queue' = [queue EXCEPT ![n] = Rest(n)]
  BY DEF RouterGenerated
<1>6. /\ CoreNodeType(n, C) /\ CoreNodeOK(n)
      /\ DOMAIN store = Nodes /\ DOMAIN knownBundles = Nodes /\ DOMAIN work = Nodes
      /\ AllIds(store[n]) \cup knownBundles[n] \cup Working(n) \subseteq OldIds
  BY NodeFacts
<1> HIDE DEF e, b, t
<1>7. /\ knownBundles'[n] = knownBundles[n] \cup {Id(b)} /\ DOMAIN knownBundles' = Nodes
      /\ \A k \in Nodes \ {n} : knownBundles'[k] = knownBundles[k]
      /\ work'[n] = work[n] /\ DOMAIN work' = Nodes /\ twice' = {}
      /\ DOMAIN work'[n] = Services /\ \A s \in Services : IsSeq(work'[n][s])
  BY <1>4, <1>5, <1>6 DEF CoreNodeType, CoreInv
<1>8. CASE store' = [store EXCEPT ![n] = @ \cup {b}] /\ queue' = [queue EXCEPT ![n] = Raised(Rest(n), t)]
  <2>1. /\ Olds(t, n, C) /\ OldOf(ToSet(t)) \subseteq {Id(b)} /\ QueuedOf(ToSet(t)) \subseteq {Id(b)}
        /\ QueuedOf(ToSet(t)) # {} => b.dst[1] = n
    BY <1>3, QueuedFacts DEF t
  <2>2. NormalOK(t, n, C) /\ NewOf(ToSet(t)) = {}
    BY <2>1, OldsNormal
  <2>3. HandledWith(n, C, ToSet(t))
    BY <2>1, <2>2, <1>1, <1>3, <1>8, HandledRaised
  <2>4. /\ store'[n] = store[n] \cup {b} /\ DOMAIN store' = Nodes
        /\ \A k \in Nodes \ {n} : store'[k] = store[k]
    BY <1>8, <1>6
  <2>5. Working(n)' = Working(n) /\ Awaited(n)' \subseteq Awaited(n) \cup QueuedOf(ToSet(t))
    <3>1. QueuedOf(InQueue(queue'[n])) \subseteq QueuedOf(InQueue(queue[n])) \cup QueuedOf(ToSet(t))
      BY <2>3 DEF HandledWith
    <3> QED
      BY <3>1, <1>7, AwaitedChange
  <2>6. Id(b) \notin knownBundles[n]
    BY <1>3, <1>6
  <2>7. CoreNodeOK(n)'
    BY <2>1, <2>4, <2>5, <2>6, <1>4, <1>6, <1>7, StoredNode
  <2>8. AllIds(store'[n]) \cup knownBundles'[n] \cup Working(n)' \subseteq OldIds \cup Brought(n)
    <3>1. AllIds(store'[n]) = AllIds(store[n]) \cup {Id(b)}
      BY <2>4 DEF AllIds
    <3> QED
      BY <3>1, <1>3, <1>6, <1>7, <2>5
  <2>9. \A d \in store'[n] : IsBundle(d, C)
    BY <1>3, <1>6, <2>4 DEF CoreNodeType
  <2>10. NewOf(ToSet(t)) \cap (NewIds \cup OldIds \cup LoadIds \cup AllIds(C)) = {}
    BY <2>2
  <2>11. \A k \in Nodes \ {n} : store'[k] = store[k] /\ knownBundles'[k] = knownBundles[k] /\ work'[k] = work[k]
    BY <2>4, <1>4, <1>7
  <2> QED
    BY <1>1, <1>4, <1>7, <2>3, <2>4, <2>7, <2>8, <2>9, <2>10, <2>11, HandlerStep
<1>9. CASE store' = store /\ queue' = [queue EXCEPT ![n] = Rest(n)]
  <2>3. HandledWith(n, C, {})
    BY <1>1, <1>9, HandledRest
  <2>4. store'[n] = store[n] /\ DOMAIN store' = Nodes
    BY <1>9, <1>6
  <2>5. Working(n)' = Working(n) /\ Awaited(n)' \subseteq Awaited(n)
    <3>1. QueuedOf(InQueue(queue'[n])) \subseteq QueuedOf(InQueue(queue[n])) \cup {}
      BY <2>3, NoIds DEF HandledWith
    <3> QED
      BY <3>1, <1>7, AwaitedChange
  <2>7. CoreNodeOK(n)'
    BY <2>4, <2>5, <1>4, <1>6, <1>7, ReducedNode
  <2>8. AllIds(store'[n]) \cup knownBundles'[n] \cup Working(n)' \subseteq OldIds \cup Brought(n)
    BY <1>3, <1>6, <1>7, <2>4, <2>5
  <2>9. \A d \in store'[n] : IsBundle(d, C)
    BY <1>6, <2>4 DEF CoreNodeType
  <2>10. NewOf({}) \cap (NewIds \cup OldIds \cup LoadIds \cup AllIds(C)) = {}
    BY NoIds
  <2>11. \A k \in Nodes \ {n} : store'[k] = store[k] /\ knownBundles'[k] = knownBundles[k] /\ work'[k] = work[k]
    BY <1>9, <1>4, <1>7
  <2> QED
    BY <1>1, <1>4, <1>7, <2>3, <2>4, <2>7, <2>8, <2>9, <2>10, <2>11, HandlerStep
<1> QED
  BY <1>5, <1>8, <1>9

\* A status report.
LEMMA ReportGeneratedKeeps ==
  ASSUME NEW C, CoreInv(C), IdsAreUnique(C), NEW n \in Nodes, ReportGenerated(n)
  PROVE  CoreInv(C)'
<1> DEFINE e == NextEvent(n)
           g == StatusReport(n, Fresh(n), e.b, e.action, e.reason)
           t == <<Generated(g)>>
<1>1. /\ queue[n].normal # <<>> \/ queue[n].low # <<>>
      /\ Free(n) # {} /\ queue' = [queue EXCEPT ![n] = Raised(Rest(n), t)]
      /\ UNCHANGED <<load, store, knownBundles, work, got, twice>>
  BY DEF ReportGenerated, HasEvent, bundleVars
<1>2. IsBundle(g, C) /\ g.src = <<n, Itself>> /\ g.num = Fresh(n)
  <2> DEFINE body == [type |-> "report", status |-> {e.action}, reason |-> e.reason,
                      fragment |-> e.b.frag # Whole, of |-> Id(e.b)]
             flags == {"APPDATA_IS_ADMRECORD", "DESTINATION_IS_SINGLETON"}
  <2>1. body.type # "capsule"
    OBVIOUS
  <2>2. g = NewBundle(<<n, Itself>>, e.b.rep, Fresh(n), flags, body)
    BY Zenon DEF StatusReport
  <2> HIDE DEF body, flags, g
  <2> QED
    BY <2>1, <2>2, NewBundleFacts
<1> HIDE DEF e, g
<1>3. g.src[1] = n
  BY <1>2
<1>4. /\ NormalOK(t, n, C) /\ OldOf(ToSet(t)) = {} /\ QueuedOf(ToSet(t)) = {}
      /\ NewOf(ToSet(t)) \cap (NewIds \cup OldIds \cup LoadIds \cup AllIds(C)) = {}
  BY <1>1, <1>2, <1>3, GeneratesFresh
<1> HIDE DEF t
<1>5. HandledWith(n, C, ToSet(t))
  BY <1>1, <1>4, HandledRaised
<1> QED
  BY <1>1, <1>4, <1>5, OnlyRaises

\* A beacon is heard, and may lead to a time request.
LEMMA NodeInfoKeeps ==
  ASSUME NEW C, CoreInv(C), IdsAreUnique(C), NEW n \in Nodes, NodeInfo(n)
  PROVE  CoreInv(C)'
<1> DEFINE node == NextEvent(n).node
           g == NewBundle(<<n, "dtntp">>, <<node.eid, "dtntp">>, Fresh(n),
                          {"DESTINATION_IS_SINGLETON"}, [type |-> "request", originErr |-> clock[n].err])
           t == <<Generated(g)>>
<1>1. /\ queue[n].normal # <<>> \/ queue[n].low # <<>>
      /\ UNCHANGED <<load, store, knownBundles, work, got, twice>>
      /\ \/ queue' = [queue EXCEPT ![n] = Rest(n)]
         \/ Free(n) # {} /\ queue' = [queue EXCEPT ![n] = Raised(Rest(n), t)]
  BY DEF NodeInfo, HasEvent, bundleVars, history
<1>2. IsBundle(g, C) /\ g.src = <<n, "dtntp">> /\ g.num = Fresh(n)
  BY NewBundleFacts
<1> HIDE DEF node, g
<1>3. g.src[1] = n
  BY <1>2
<1>4. CASE queue' = [queue EXCEPT ![n] = Rest(n)]
  BY <1>1, <1>4, HandledRest, NoIds, OnlyRaises
<1>5. CASE Free(n) # {} /\ queue' = [queue EXCEPT ![n] = Raised(Rest(n), t)]
  <2>1. /\ NormalOK(t, n, C) /\ OldOf(ToSet(t)) = {} /\ QueuedOf(ToSet(t)) = {}
        /\ NewOf(ToSet(t)) \cap (NewIds \cup OldIds \cup LoadIds \cup AllIds(C)) = {}
    BY <1>5, <1>2, <1>3, GeneratesFresh
  <2> HIDE DEF t
  <2>2. HandledWith(n, C, ToSet(t))
    BY <1>1, <1>5, <2>1, HandledRaised
  <2> QED
    BY <1>1, <2>1, <2>2, OnlyRaises
<1> QED
  BY <1>1, <1>4, <1>5

-----------------------------------------------------------------------------
\* A node consumes a bundle: it never did before.
LEMMA ConsumedOnce ==
  ASSUME NEW C, CoreInv(C), NEW n \in Nodes, NEW b \in store[n], Consumed(n, b),
         \A c \in store'[n] : Id(c) # Id(b)
  PROVE  /\ twice' = {}
         /\ \A g \in got' : g.node # n => g \in got
         /\ \A g \in got' : g.node = n => g \in got \/ g.id \in AllIds(store[n]) \ AllIds(store'[n])
<1> DEFINE h == [node |-> n, id |-> Id(b)]
<1>1. got' = got \cup {h} /\ twice' = IF h \in got THEN twice \cup {Id(b)} ELSE twice
  BY DEF Consumed
<1>2. h.node = n /\ h.id = Id(b)
  OBVIOUS
<1> HIDE DEF h
<1>3. Id(b) \in AllIds(store[n]) \ AllIds(store'[n])
  BY DEF AllIds
<1>4. h \notin got
  BY <1>2, <1>3 DEF CoreInv, CoreNodeOK
<1>5. twice' = {}
  BY <1>1, <1>4 DEF CoreInv
<1> QED
  BY <1>1, <1>2, <1>3, <1>5

\* Released custody changes neither the ID nor the destination of a bundle.
LEMMA WithCustodianFacts ==
  ASSUME NEW C, NEW S, NEW id, NEW k, \A b \in S : IsBundle(b, C)
  PROVE  \A c \in WithCustodian(S, id, k) :
           IsBundle(c, C) /\ \E b \in S : Id(c) = Id(b) /\ c.dst = b.dst
<1>1. SUFFICES ASSUME NEW b \in S
               PROVE  LET c == IF Id(b) = id THEN [b EXCEPT !.cust = k] ELSE b
                      IN  IsBundle(c, C) /\ Id(c) = Id(b) /\ c.dst = b.dst
  BY DEF WithCustodian
<1> DEFINE c == [b EXCEPT !.cust = k]
<1>2. /\ DOMAIN c = DOMAIN b /\ c.src = b.src /\ c.num = b.num /\ c.frag = b.frag /\ c.dst = b.dst
      /\ c.exts = b.exts /\ c.body = b.body
  BY DEF IsBundle
<1> HIDE DEF c
<1>3. IsBundle(c, C) /\ Id(c) = Id(b)
  BY <1>2 DEF IsBundle, Id
<1> QED
  BY <1>2, <1>3 DEF c

\* A bundle for the node is consumed by the core, or queued for a service.
LEMMA BundleQueuedKeeps ==
  ASSUME NEW C, CoreInv(C), IdsAreUnique(C), NEW n \in Nodes, BundleQueued(n)
  PROVE  CoreInv(C)'
<1> DEFINE e == NextEvent(n)
           m == e.b
           here == FoundIn(n, Id(m))
           b == CHOOSE b \in here : TRUE
           r == IF b.body.type = "signal" THEN BundleEvent(b, "delivered", "NO_ADDITIONAL_INFORMATION")
                ELSE BundleEvent(b, "deleted", "DESTINATION_ENDPOINT_ID_UNINTELLIGIBLE")
<1>1. (queue[n].normal # <<>> \/ queue[n].low # <<>>) /\ e.type = "queued"
  BY DEF BundleQueued, HasEvent
<1>2. Brought(n) = {}
  BY <1>1 DEF Brought, IsNew, IsLocal
<1>3. UNCHANGED <<load, knownBundles>>
  BY DEF BundleQueued
<1>4. \/ /\ here # {} /\ queue' = [queue EXCEPT ![n] = Raised(Rest(n), r)]
         /\ store' = [store EXCEPT ![n] =
              IF b.body.type = "signal" THEN WithCustodian(@ \ here, b.body.of, b.src[1]) ELSE @ \ here]
         /\ Consumed(n, b) /\ work' = work
      \/ /\ \/ work' = [work EXCEPT ![n][m.dst[2]] = Append(@, Id(m))] /\ m.dst[2] \in Services
            \/ work' = work
         /\ queue' = [queue EXCEPT ![n] = Rest(n)]
         /\ UNCHANGED <<store, got, twice>>
  BY DEF BundleQueued, history
<1>5. /\ CoreNodeType(n, C) /\ CoreNodeOK(n)
      /\ DOMAIN store = Nodes /\ DOMAIN knownBundles = Nodes /\ DOMAIN work = Nodes
      /\ AllIds(store[n]) \cup knownBundles[n] \cup Working(n) \subseteq OldIds
  BY NodeFacts
<1>6. Id(m) \in QueuedOf(InQueue(queue[n]))
  BY <1>1, NextEventFacts
<1> HIDE DEF e, m, r
<1>7. CASE /\ here # {} /\ queue' = [queue EXCEPT ![n] = Raised(Rest(n), r)]
           /\ store' = [store EXCEPT ![n] =
                IF b.body.type = "signal" THEN WithCustodian(@ \ here, b.body.of, b.src[1]) ELSE @ \ here]
           /\ Consumed(n, b) /\ work' = work
  <2>1. b \in store[n] /\ Id(b) = Id(m)
    BY <1>7 DEF FoundIn
  <2>2. /\ store'[n] = IF b.body.type = "signal" THEN WithCustodian(store[n] \ here, b.body.of, b.src[1])
                       ELSE store[n] \ here
        /\ DOMAIN store' = Nodes /\ \A k \in Nodes \ {n} : store'[k] = store[k]
    BY <1>5, <1>7
  <2>3. \A d \in store[n] \ here : Id(d) # Id(m) /\ IsBundle(d, C)
    BY <1>5 DEF FoundIn, CoreNodeType
  <2> HIDE DEF here, b
  <2>4. \A c \in store'[n] : IsBundle(c, C) /\ \E d \in store[n] \ here : Id(c) = Id(d) /\ c.dst = d.dst
    BY <2>2, <2>3, WithCustodianFacts
  <2>5. \A c \in store'[n] : Id(c) # Id(b)
    BY <2>1, <2>3, <2>4
  <2>6. /\ twice' = {}
        /\ \A g \in got' : g.node # n => g \in got
        /\ \A g \in got' : g.node = n => g \in got \/ g.id \in AllIds(store[n]) \ AllIds(store'[n])
    BY <1>7, <2>1, <2>5, ConsumedOnce
  <2>7. IsBundle(b, C) /\ Id(b) \in OldIds
    BY <1>5, <2>1 DEF CoreNodeType, AllIds
  <2>8. Olds(r, n, C) /\ OldOf(ToSet(r)) \subseteq {Id(b)} /\ QueuedOf(ToSet(r)) = {}
    BY <2>7, BundleEventFacts DEF r
  <2>9. NormalOK(r, n, C) /\ NewOf(ToSet(r)) = {}
    BY <2>8, OldsNormal
  <2>10. HandledWith(n, C, ToSet(r))
    BY <1>1, <1>7, <2>7, <2>8, <2>9, HandledRaised
  <2>11. Working(n)' = Working(n) /\ Awaited(n)' \subseteq Awaited(n)
    <3>1. QueuedOf(InQueue(queue'[n])) \subseteq QueuedOf(InQueue(queue[n])) \cup {}
      BY <2>8, <2>10 DEF HandledWith
    <3> QED
      BY <1>7, <3>1, AwaitedChange
  <2>12. CoreNodeOK(n)'
    BY <1>3, <1>5, <2>4, <2>6, <2>11, ReducedNode
  <2>13. AllIds(store'[n]) \cup knownBundles'[n] \cup Working(n)' \subseteq OldIds \cup Brought(n)
    <3>1. AllIds(store'[n]) \subseteq AllIds(store[n])
      BY <2>4 DEF AllIds
    <3> QED
      BY <1>3, <1>5, <2>11, <3>1
  <2>14. \A k \in Nodes \ {n} : store'[k] = store[k] /\ knownBundles'[k] = knownBundles[k] /\ work'[k] = work[k]
    BY <1>3, <1>7, <2>2
  <2>15. NewOf(ToSet(r)) \cap (NewIds \cup OldIds \cup LoadIds \cup AllIds(C)) = {}
    BY <2>9
  <2>16. /\ DOMAIN work' = Nodes /\ DOMAIN work'[n] = Services /\ \A s \in Services : IsSeq(work'[n][s])
         /\ DOMAIN store' = Nodes /\ DOMAIN knownBundles' = Nodes /\ load' = load
         /\ \A c \in store'[n] : IsBundle(c, C)
    BY <1>3, <1>5, <1>7, <2>2, <2>4 DEF CoreNodeType
  <2> QED
    BY <1>1, <2>6, <2>10, <2>12, <2>13, <2>14, <2>15, <2>16, HandlerStep
<1>8. CASE /\ \/ work' = [work EXCEPT ![n][m.dst[2]] = Append(@, Id(m))] /\ m.dst[2] \in Services
              \/ work' = work
           /\ queue' = [queue EXCEPT ![n] = Rest(n)]
           /\ UNCHANGED <<store, got, twice>>
  <2>1. HandledWith(n, C, {})
    BY <1>1, <1>8, HandledRest
  <2>2. /\ DOMAIN work' = Nodes /\ DOMAIN work'[n] = Services /\ \A k \in Nodes \ {n} : work'[k] = work[k]
        /\ \A s \in Services : IsSeq(work'[n][s]) /\ ToSet(work'[n][s]) \subseteq ToSet(work[n][s]) \cup {Id(m)}
    <3>1. CASE work' = [work EXCEPT ![n][m.dst[2]] = Append(@, Id(m))] /\ m.dst[2] \in Services
      <4>1. /\ DOMAIN work' = Nodes /\ DOMAIN work'[n] = Services /\ \A k \in Nodes \ {n} : work'[k] = work[k]
            /\ work'[n][m.dst[2]] = Append(work[n][m.dst[2]], Id(m))
            /\ \A s \in Services : s # m.dst[2] => work'[n][s] = work[n][s]
        BY <1>5, <3>1 DEF CoreNodeType
      <4>2. \A s \in Services : IsSeq(work[n][s])
        BY <1>5 DEF CoreNodeType
      <4>3. LET w == work[n][m.dst[2]]
            IN  IsSeq(Append(w, Id(m))) /\ ToSet(Append(w, Id(m))) = ToSet(w) \cup {Id(m)}
        BY <3>1, <4>2, AppendedSeq
      <4> QED
        BY <4>1, <4>2, <4>3
    <3>2. CASE work' = work
      BY <1>5, <3>2 DEF CoreNodeType
    <3> QED
      BY <1>8, <3>1, <3>2
  <2>3. Working(n)' \subseteq Working(n) \cup {Id(m)}
    BY <2>2 DEF Working
  <2>4. Awaited(n)' \subseteq Awaited(n)
    <3>1. QueuedOf(InQueue(queue'[n])) \subseteq QueuedOf(InQueue(queue[n]))
      BY <2>1, NoIds DEF HandledWith
    <3> QED
      BY <1>6, <2>3, <3>1 DEF Awaited
  <2>5. CoreNodeOK(n)'
    BY <1>3, <1>5, <1>8, <2>4, ReducedNode
  <2>6. Id(m) \in OldIds
    <3>1. Awaited(n) \subseteq knownBundles[n]
      BY <1>5 DEF CoreNodeOK
    <3> QED
      BY <1>5, <1>6, <3>1 DEF Awaited
  <2>7. AllIds(store'[n]) \cup knownBundles'[n] \cup Working(n)' \subseteq OldIds \cup Brought(n)
    BY <1>3, <1>5, <1>8, <2>3, <2>6
  <2>8. NewOf({}) \cap (NewIds \cup OldIds \cup LoadIds \cup AllIds(C)) = {}
    BY NoIds
  <2>9. /\ \A k \in Nodes \ {n} : store'[k] = store[k] /\ knownBundles'[k] = knownBundles[k] /\ work'[k] = work[k]
        /\ DOMAIN store' = Nodes /\ DOMAIN knownBundles' = Nodes /\ load' = load
        /\ twice' = {} /\ \A g \in got' : g.node # n => g \in got
        /\ \A c \in store'[n] : IsBundle(c, C)
    BY <1>3, <1>5, <1>8, <2>2 DEF CoreNodeType, CoreInv
  <2> QED
    BY <1>1, <2>1, <2>2, <2>5, <2>7, <2>8, <2>9, HandlerStep
<1> QED
  BY <1>4, <1>7, <1>8

\* What nobody has any more is forgotten.
LEMMA TimeTickKeeps ==
  ASSUME NEW C, CoreInv(C), IdsAreUnique(C), NEW n \in Nodes, TimeTick(n)
  PROVE  CoreInv(C)'
<1>1. /\ queue[n].normal # <<>> \/ queue[n].low # <<>>
      /\ queue' = [queue EXCEPT ![n] = Rest(n)]
      /\ knownBundles' = [knownBundles EXCEPT ![n] = @ \ Gone]
      /\ got' = {g \in got : g.node # n \/ g.id \notin Gone}
      /\ UNCHANGED <<load, store, work, twice>>
  BY DEF TimeTick, HasEvent
<1>2. /\ CoreNodeType(n, C) /\ CoreNodeOK(n)
      /\ DOMAIN store = Nodes /\ DOMAIN knownBundles = Nodes /\ DOMAIN work = Nodes
      /\ AllIds(store[n]) \cup knownBundles[n] \cup Working(n) \subseteq OldIds
  BY NodeFacts
<1>3. HandledWith(n, C, {})
  BY <1>1, HandledRest
<1>4. Working(n)' = Working(n) /\ Awaited(n)' \subseteq Awaited(n)
  <2>1. QueuedOf(InQueue(queue'[n])) \subseteq QueuedOf(InQueue(queue[n])) \cup {}
    BY <1>3, NoIds DEF HandledWith
  <2> QED
    BY <1>1, <2>1, AwaitedChange
<1>5. (AllIds(store[n]) \cup Awaited(n)) \cap Gone = {}
  <2>1. AllIds(store[n]) \subseteq Ids(n)
    BY DEF AllIds, Ids, Objects
  <2>2. Working(n) \subseteq Ids(n)
    BY DEF Working, Ids
  <2>3. QueuedOf(InQueue(queue[n])) \subseteq Ids(n)
    BY DEF QueuedOf, IdsOf, Ids, Objects, Pending, InQueue
  <2> QED
    BY <2>1, <2>2, <2>3 DEF Gone, Awaited
<1>6. knownBundles'[n] = knownBundles[n] \ Gone /\ store'[n] = store[n]
  BY <1>1, <1>2
<1>7. CoreNodeOK(n)'
  BY <1>1, <1>2, <1>4, <1>5, <1>6 DEF CoreNodeOK
<1>8. AllIds(store'[n]) \cup knownBundles'[n] \cup Working(n)' \subseteq OldIds \cup Brought(n)
  BY <1>2, <1>4, <1>6
<1>9. NewOf({}) \cap (NewIds \cup OldIds \cup LoadIds \cup AllIds(C)) = {}
  BY NoIds
<1>10. /\ \A k \in Nodes \ {n} : store'[k] = store[k] /\ knownBundles'[k] = knownBundles[k] /\ work'[k] = work[k]
       /\ DOMAIN store' = Nodes /\ DOMAIN knownBundles' = Nodes /\ DOMAIN work' = Nodes
       /\ load' = load /\ twice' = {} /\ \A g \in got' : g.node # n => g \in got
       /\ \A c \in store'[n] : IsBundle(c, C)
       /\ DOMAIN work'[n] = Services /\ \A s \in Services : IsSeq(work'[n][s])
  BY <1>1, <1>2 DEF CoreNodeType, CoreInv
<1> QED
  BY <1>1, <1>3, <1>7, <1>8, <1>9, <1>10, HandlerStep

-----------------------------------------------------------------------------
\* A step in which a node raises events without handling one.
LEMMA GrowStep ==
  ASSUME NEW C, CoreInv(C), IdsAreUnique(C), NEW n \in Nodes, NEW T,
         QueueOK(queue'[n], n, C), InQueue(queue'[n]) = InQueue(queue[n]) \cup T,
         OldOf(T) \subseteq OldIds \cup AllIds(C), LoadOK', LoadIds' \subseteq LoadIds,
         NewOf(T) \cap (NewIds \cup OldIds \cup LoadIds' \cup AllIds(C)) = {},
         \A k \in Nodes \ {n} : /\ queue'[k] = queue[k] /\ store'[k] = store[k]
                                /\ knownBundles'[k] = knownBundles[k] /\ work'[k] = work[k],
         DOMAIN queue' = Nodes, DOMAIN store' = Nodes, DOMAIN knownBundles' = Nodes, DOMAIN work' = Nodes,
         \A g \in got' : g.node # n => g \in got,
         twice' = {},
         \A b \in store'[n] : IsBundle(b, C),
         DOMAIN work'[n] = Services, \A s \in Services : IsSeq(work'[n][s]),
         CoreNodeOK(n)',
         AllIds(store'[n]) \cup knownBundles'[n] \cup Working(n)' \subseteq OldIds
  PROVE  CoreInv(C)'
<1>1. OnlyAt(n)
  BY DEF OnlyAt
<1>2. CoreNodeType(n, C)'
  BY DEF CoreNodeType
<1>3. /\ NewOf(InQueue(queue[n]) \cup T) = NewOf(InQueue(queue[n])) \cup NewOf(T)
      /\ OldOf(InQueue(queue[n]) \cup T) = OldOf(InQueue(queue[n])) \cup OldOf(T)
  BY JoinedIds
<1>4. /\ NewOf(InQueue(queue'[n])) = NewOf(InQueue(queue[n])) \cup NewOf(T)
      /\ OldOf(InQueue(queue'[n])) = OldOf(InQueue(queue[n])) \cup OldOf(T)
  BY <1>3, Zenon
<1>5. OldOf(InQueue(queue[n])) \subseteq OldIds
  BY HeldIsOld DEF Held
<1>6. Held(n)' \subseteq OldIds \cup {} \cup AllIds(C)
  BY <1>4, <1>5 DEF Held
<1>7. NewOf(InQueue(queue'[n])) \subseteq (NewOf(InQueue(queue[n])) \ {}) \cup NewOf(T)
  BY <1>4
<1>8. {} \subseteq NewOf(InQueue(queue[n]))
  OBVIOUS
<1> QED
  BY <1>1, <1>2, <1>6, <1>7, <1>8, OneNode

\* The bundles of a node may only become fewer, and nothing new is awaited.
LEMMA ReducesAndRaises ==
  ASSUME NEW C, CoreInv(C), IdsAreUnique(C), NEW n \in Nodes, NEW T,
         QueueOK(queue'[n], n, C), InQueue(queue'[n]) = InQueue(queue[n]) \cup T,
         OldOf(T) \subseteq OldIds \cup AllIds(C), QueuedOf(T) = {},
         LoadOK', LoadIds' \subseteq LoadIds,
         NewOf(T) \cap (NewIds \cup OldIds \cup LoadIds' \cup AllIds(C)) = {},
         \A k \in Nodes \ {n} : queue'[k] = queue[k] /\ store'[k] = store[k] /\ work'[k] = work[k],
         DOMAIN queue' = Nodes, DOMAIN store' = Nodes, DOMAIN work' = Nodes,
         UNCHANGED knownBundles, store'[n] \subseteq store[n], Working(n)' \subseteq Working(n),
         \A g \in got' : g.node # n => g \in got,
         \A g \in got' : g.node = n => g \in got \/ g.id \in AllIds(store[n]) \ AllIds(store'[n]),
         twice' = {},
         DOMAIN work'[n] = Services, \A s \in Services : IsSeq(work'[n][s])
  PROVE  CoreInv(C)'
<1>1. /\ CoreNodeType(n, C) /\ CoreNodeOK(n)
      /\ DOMAIN store = Nodes /\ DOMAIN knownBundles = Nodes /\ DOMAIN work = Nodes
      /\ AllIds(store[n]) \cup knownBundles[n] \cup Working(n) \subseteq OldIds
  BY NodeFacts
<1>2. QueuedOf(InQueue(queue'[n])) = QueuedOf(InQueue(queue[n]))
  <2>1. QueuedOf(InQueue(queue[n]) \cup T) = QueuedOf(InQueue(queue[n])) \cup QueuedOf(T)
    BY JoinedIds
  <2>2. QueuedOf(InQueue(queue'[n])) = QueuedOf(InQueue(queue[n])) \cup QueuedOf(T)
    BY <2>1, Zenon
  <2> QED
    BY <2>2
<1>3. Awaited(n)' \subseteq Awaited(n)
  BY <1>2 DEF Awaited
<1>4. CoreNodeOK(n)'
  BY <1>1, <1>3, ReducedNode
<1>5. AllIds(store'[n]) \cup knownBundles'[n] \cup Working(n)' \subseteq OldIds
  <2>1. AllIds(store'[n]) \subseteq AllIds(store[n])
    BY DEF AllIds
  <2> QED
    BY <1>1, <2>1
<1>6. /\ \A b \in store'[n] : IsBundle(b, C)
      /\ \A k \in Nodes \ {n} : /\ queue'[k] = queue[k] /\ store'[k] = store[k]
                                /\ knownBundles'[k] = knownBundles[k] /\ work'[k] = work[k]
      /\ DOMAIN knownBundles' = Nodes
  BY <1>1 DEF CoreNodeType
<1> QED
  BY <1>4, <1>5, <1>6, GrowStep

\* The applications send nothing.
LEMMA SameLoad ==
  ASSUME NEW C, CoreInv(C), UNCHANGED load
  PROVE  LoadOK' /\ LoadIds' = LoadIds
BY DEF CoreInv, LoadOK, LoadIds

\* The lifetime of a bundle ends.
LEMMA LifetimeEndsKeeps ==
  ASSUME NEW C, CoreInv(C), IdsAreUnique(C), NEW n \in Nodes, NEW b \in store[n], LifetimeEnds(n, b)
  PROVE  CoreInv(C)'
<1> DEFINE r == BundleEvent(b, "deleted", "LIFETIME_EXPIRED")
<1>1. /\ store' = [store EXCEPT ![n] = @ \ {b}]
      /\ queue' = [queue EXCEPT ![n] = Raised(@, r)]
      /\ UNCHANGED <<load, knownBundles, work, got, twice>>
  BY DEF LifetimeEnds, history
<1>2. /\ CoreNodeType(n, C) /\ CoreNodeOK(n)
      /\ DOMAIN store = Nodes /\ DOMAIN work = Nodes /\ DOMAIN queue = Nodes
      /\ AllIds(store[n]) \cup knownBundles[n] \cup Working(n) \subseteq OldIds
  BY NodeFacts DEF CoreInv, CoreTypes
<1>3. IsBundle(b, C) /\ Id(b) \in OldIds
  BY <1>2 DEF CoreNodeType, AllIds
<1>4. Olds(r, n, C) /\ OldOf(ToSet(r)) \subseteq {Id(b)} /\ QueuedOf(ToSet(r)) = {}
  BY <1>3, BundleEventFacts
<1> HIDE DEF r
<1>5. NewOf(ToSet(r)) = {}
  BY <1>4, OldsFacts
<1>6. /\ queue'[n] = Raised(queue[n], r) /\ store'[n] \subseteq store[n]
      /\ \A k \in Nodes \ {n} : queue'[k] = queue[k] /\ store'[k] = store[k] /\ work'[k] = work[k]
      /\ DOMAIN queue' = Nodes /\ DOMAIN store' = Nodes /\ DOMAIN work' = Nodes
  BY <1>1, <1>2
<1>7. QueueOK(queue'[n], n, C) /\ InQueue(queue'[n]) = InQueue(queue[n]) \cup ToSet(r)
  BY <1>2, <1>4, <1>6, OldsRaised DEF CoreNodeType
<1>8. /\ Working(n)' = Working(n) /\ twice' = {}
      /\ DOMAIN work'[n] = Services /\ \A s \in Services : IsSeq(work'[n][s])
  BY <1>1, <1>2 DEF Working, CoreInv, CoreNodeType
<1>9. OldOf(ToSet(r)) \subseteq OldIds \cup AllIds(C)
  BY <1>3, <1>4
<1>10. LoadOK' /\ LoadIds' \subseteq LoadIds
  BY <1>1, SameLoad
<1>11. /\ \A g \in got' : g.node # n => g \in got
       /\ \A g \in got' : g.node = n => g \in got \/ g.id \in AllIds(store[n]) \ AllIds(store'[n])
  BY <1>1
<1>12. NewOf(ToSet(r)) \cap (NewIds \cup OldIds \cup LoadIds' \cup AllIds(C)) = {}
  BY <1>5
<1>13. UNCHANGED knownBundles
  BY <1>1
<1> QED
  BY <1>4, <1>6, <1>7, <1>8, <1>9, <1>10, <1>11, <1>12, <1>13, ReducesAndRaises

\* A step that touches no bundle.
LEMMA SameCore ==
  ASSUME NEW C, CoreInv(C), UNCHANGED <<load, store, knownBundles, work, got, twice>>,
         DOMAIN queue' = Nodes, \A n \in Nodes : queue'[n] = queue[n]
  PROVE  CoreInv(C)'
<1>1. ASSUME NEW n \in Nodes
      PROVE  /\ CoreNodeType(n, C)' /\ CoreNodeOK(n)' /\ Held(n)' = Held(n)
             /\ NewOf(InQueue(queue'[n])) = NewOf(InQueue(queue[n]))
  <2>1. CoreNodeType(n, C) /\ CoreNodeOK(n)
    BY DEF CoreInv, CoreTypes
  <2>2. CoreNodeType(n, C)'
    BY <2>1 DEF CoreNodeType
  <2>3. Held(n)' = Held(n) /\ Awaited(n)' = Awaited(n)
    BY DEF Held, Awaited, Working
  <2>4. CoreNodeOK(n)'
    BY <2>1, <2>3 DEF CoreNodeOK
  <2> QED
    BY <2>2, <2>3, <2>4
<1>2. NewIds' = NewIds /\ OldIds' = OldIds
  BY <1>1 DEF NewIds, OldIds
<1>3. LoadOK' /\ LoadIds' = LoadIds
  BY DEF CoreInv, LoadOK, LoadIds
<1>4. IdsApart'
  BY <1>2, <1>3 DEF CoreInv, IdsApart
<1>5. CoreTypes(C)'
  BY <1>1 DEF CoreInv, CoreTypes
<1> QED
  BY <1>1, <1>3, <1>4, <1>5 DEF CoreInv

\* A beacon is heard: an event without a bundle.
LEMMA HearKeeps ==
  ASSUME NEW C, CoreInv(C), IdsAreUnique(C), NEW be, Hear(be)
  PROVE  CoreInv(C)'
<1> DEFINE n == be.to
<1>1. UNCHANGED <<load, store, knownBundles, work, got, twice>>
  BY DEF Hear, bundleVars, history
<1>2. PICK r : /\ r.type = "info"
               /\ queue' = [queue EXCEPT ![n] = Raised(@, <<r>>)] \/ queue' = queue
  <2>1. CASE \E a \in Heard(version[n], be.frame) :
               queue' = [queue EXCEPT ![n] = Raised(@, <<[type |-> "info", from |-> be.from, node |-> NodeOf(a)]>>)]
    <3>1. PICK a : queue' = [queue EXCEPT ![n] = Raised(@, <<[type |-> "info", from |-> be.from, node |-> NodeOf(a)]>>)]
      BY <2>1
    <3> DEFINE f == [type |-> "info", from |-> be.from, node |-> NodeOf(a)]
    <3>2. f.type = "info" /\ queue' = [queue EXCEPT ![n] = Raised(@, <<f>>)]
      BY <3>1
    <3> HIDE DEF f
    <3> QED
      BY <3>2
  <2>2. CASE queue' = queue
    <3>1. [type |-> "info"].type = "info"
      OBVIOUS
    <3> QED
      BY <2>2, <3>1
  <2> QED
    BY <2>1, <2>2 DEF Hear
<1> HIDE DEF n
<1>3. DOMAIN queue = Nodes
  BY DEF CoreInv, CoreTypes
<1>4. CASE queue' = queue
  BY <1>1, <1>3, <1>4, SameCore
<1>5. CASE n \in Nodes /\ queue' = [queue EXCEPT ![n] = Raised(@, <<r>>)]
  <2>1. /\ CoreNodeType(n, C) /\ CoreNodeOK(n)
        /\ DOMAIN store = Nodes /\ DOMAIN work = Nodes
        /\ AllIds(store[n]) \cup knownBundles[n] \cup Working(n) \subseteq OldIds
    BY <1>5, NodeFacts
  <2>2. CoreEventOK(r, n, C) /\ ~IsNew(r) /\ ~CarriesBundle(r)
    BY <1>2 DEF CoreEventOK, IsNew, IsLocal, CarriesBundle
  <2> DEFINE t == <<r>>
  <2>3. Olds(t, n, C) /\ ToSet(t) = {r}
    BY <2>2, OldsOne, ShortSeqs
  <2>4. OldOf({r}) = {} /\ QueuedOf({r}) = {} /\ NewOf({r}) = {}
    BY <1>2, <2>2 DEF OldOf, QueuedOf, NewOf, IdsOf
  <2>5. queue'[n] = Raised(queue[n], t) /\ \A k \in Nodes \ {n} : queue'[k] = queue[k]
    BY <1>3, <1>5
  <2> HIDE DEF t
  <2>6. QueueOK(queue'[n], n, C) /\ InQueue(queue'[n]) = InQueue(queue[n]) \cup ToSet(t)
    BY <2>1, <2>3, <2>5, OldsRaised DEF CoreNodeType
  <2>7. OldOf(ToSet(t)) = {} /\ QueuedOf(ToSet(t)) = {} /\ NewOf(ToSet(t)) = {}
    BY <2>3, <2>4, Zenon
  <2>8. /\ Working(n)' = Working(n) /\ twice' = {}
        /\ DOMAIN work'[n] = Services /\ \A s \in Services : IsSeq(work'[n][s])
        /\ \A k \in Nodes \ {n} : queue'[k] = queue[k] /\ store'[k] = store[k] /\ work'[k] = work[k]
        /\ DOMAIN queue' = Nodes /\ DOMAIN store' = Nodes /\ DOMAIN work' = Nodes
        /\ store'[n] \subseteq store[n]
    BY <1>1, <1>3, <1>5, <2>1, <2>5 DEF Working, CoreInv, CoreNodeType
  <2>9. LoadOK' /\ LoadIds' \subseteq LoadIds
    BY <1>1, SameLoad
  <2>10. /\ \A g \in got' : g.node # n => g \in got
         /\ \A g \in got' : g.node = n => g \in got \/ g.id \in AllIds(store[n]) \ AllIds(store'[n])
         /\ UNCHANGED knownBundles
    BY <1>1
  <2> QED
    BY <1>5, <2>6, <2>7, <2>8, <2>9, <2>10, ReducesAndRaises
<1>6. CASE n \notin Nodes /\ queue' = [queue EXCEPT ![n] = Raised(@, <<r>>)]
  <2>1. DOMAIN queue' = Nodes /\ \A k \in Nodes : queue'[k] = queue[k]
    BY <1>3, <1>6
  <2> QED
    BY <1>1, <2>1, SameCore
<1> QED
  BY <1>2, <1>4, <1>5, <1>6

-----------------------------------------------------------------------------
\* What a capsule carries is received as if it came from the sender of the capsule.
LEMMA UnpackedFacts ==
  ASSUME NEW C, IdsAreUnique(C), NEW n, NEW s, NEW b, IsBundle(b, C)
  PROVE  LET u == Unpacked(s, b)
         IN  Olds(u, n, C) /\ OldOf(ToSet(u)) \subseteq AllIds(C) /\ QueuedOf(ToSet(u)) = {}
<1> DEFINE u == Unpacked(s, b)
           R == {Received(c, b.src, FALSE) : c \in C}
<1>1. \A c \in C : LET e == Received(c, b.src, FALSE) IN e.type = "received" /\ e.b = c /\ ~e.local
  BY DEF Received
<1>2. ASSUME NEW e \in R
      PROVE  CoreEventOK(e, n, C) /\ ~IsNew(e) /\ e.type # "queued" /\ CarriesBundle(e) /\ e.b \in C
  <2>1. e.type = "received" /\ e.b \in C /\ ~e.local
    BY <1>1
  <2>2. IsBundle(e.b, C)
    BY <2>1 DEF IdsAreUnique
  <2> QED
    BY <2>1, <2>2 DEF CoreEventOK, IsNew, IsLocal, CarriesBundle
<1>3. u \in Seq(R)
  <2>1. CASE s = "bundle-in-bundle" /\ b.body.type = "capsule"
    <3> DEFINE w == b.body.bundles
    <3>1. u = [i \in DOMAIN w |-> Received(w[i], b.src, FALSE)]
      BY <2>1 DEF Unpacked
    <3>2. w \in Seq(ToSet(w)) /\ ToSet(w) \subseteq C
      BY <2>1 DEF IsBundle
    <3> HIDE DEF w, u
    <3>3. Len(w) \in Nat /\ DOMAIN w = 1..Len(w) /\ \A i \in 1..Len(w) : w[i] \in C
      BY <3>2 DEF ToSet
    <3>4. \A i \in 1..Len(w) : Received(w[i], b.src, FALSE) \in R
      BY <3>3
    <3> HIDE DEF R
    <3>5. u \in [1..Len(w) -> R]
      BY <3>1, <3>3, <3>4, Zenon
    <3> QED
      BY <3>3, <3>5
  <2>2. CASE ~(s = "bundle-in-bundle" /\ b.body.type = "capsule")
    <3>1. u = <<>>
      BY <2>2 DEF Unpacked
    <3> QED
      BY <3>1
  <2> QED
    BY <2>1, <2>2
<1> HIDE DEF u, R
<1>4. IsSeq(u) /\ ToSet(u) \subseteq R
  BY <1>3, OwnSeq
<1>5. Olds(u, n, C)
  BY <1>2, <1>4 DEF Olds
<1>6. OldOf(ToSet(u)) \subseteq AllIds(C) /\ QueuedOf(ToSet(u)) = {}
  BY <1>2, <1>4 DEF OldOf, QueuedOf, IdsOf, AllIds
<1> QED
  BY <1>5, <1>6 DEF u

\* What a service answers is new.
LEMMA CallbackFacts ==
  ASSUME NEW C, CoreInv(C), IdsAreUnique(C), NEW n, Free(n) # {}, NEW s, NEW b, IsBundle(b, C), b.dst[1] = n,
         NEW wait
  PROVE  LET t == Callback(n, s, b, wait)
         IN  /\ NormalOK(t, n, C) /\ OldOf(ToSet(t)) = {} /\ QueuedOf(ToSet(t)) = {}
             /\ NewOf(ToSet(t)) \cap (NewIds \cup OldIds \cup LoadIds \cup AllIds(C)) = {}
<1> DEFINE t == Callback(n, s, b, wait)
           echo == Echoed(n, b)
           response == Response(n, b, wait)
<1>1. t = <<Generated(echo)>> \/ t = <<Generated(response)>> \/ t = <<>>
  BY DEF Callback
<1>2. IsBundle(echo, C) /\ echo.src[1] = n /\ echo.num = Fresh(n)
  <2>1. [type |-> "data"].type # "capsule"
    OBVIOUS
  <2>2. IsBundle(echo, C) /\ echo.src = <<n, "echo">> /\ echo.num = Fresh(n)
    BY <2>1, NewBundleFacts DEF Echoed
  <2> HIDE DEF echo
  <2> QED
    BY <2>2
<1>3. IsBundle(response, C) /\ response.src[1] = n /\ response.num = Fresh(n)
  <2>1. /\ DOMAIN response = DOMAIN b /\ response.exts = b.exts /\ response.body.type = "response"
        /\ response.src = b.dst /\ response.num = Fresh(n)
    BY DEF Response, Swapped, IsBundle
  <2> HIDE DEF response
  <2> QED
    BY <2>1 DEF IsBundle
<1> HIDE DEF t, echo, response
<1> DEFINE Fine(v) == /\ NormalOK(v, n, C) /\ OldOf(ToSet(v)) = {} /\ QueuedOf(ToSet(v)) = {}
                      /\ NewOf(ToSet(v)) \cap (NewIds \cup OldIds \cup LoadIds \cup AllIds(C)) = {}
<1>4. Fine(<<Generated(echo)>>) /\ Fine(<<Generated(response)>>)
  BY <1>2, <1>3, GeneratesFresh
<1>5. Fine(<<>>)
  <2>1. NormalOK(<<>>, n, C) /\ NewOf(ToSet(<<>>)) = {} /\ OldOf(ToSet(<<>>)) = {} /\ QueuedOf(ToSet(<<>>)) = {}
    BY EmptyRaised
  <2> QED
    BY <2>1
<1> HIDE DEF Fine
<1>6. Fine(t)
  BY <1>1, <1>4, <1>5, Zenon
<1> QED
  BY <1>6 DEF t, Fine

\* A service takes a bundle: it answers, reports the delivery, and hands on what a capsule carries.
LEMMA ServeKeeps ==
  ASSUME NEW C, CoreInv(C), IdsAreUnique(C), NEW n \in Nodes, NEW s \in Services, NEW wait, Serve(n, s, wait)
  PROVE  CoreInv(C)'
<1> DEFINE here == FoundIn(n, Head(work[n][s]))
           b == CHOOSE b \in here : TRUE
           calls == Callback(n, s, b, wait)
           report == BundleEvent(b, "delivered", "NO_ADDITIONAL_INFORMATION")
           u == Unpacked(s, b)
           t == calls \o report
<1>1. /\ work[n][s] # <<>> /\ work' = [work EXCEPT ![n][s] = Tail(@)]
      /\ UNCHANGED <<load, knownBundles>>
      /\ \/ here = {} /\ UNCHANGED <<store, queue, got, twice>>
         \/ /\ here # {} /\ Free(n) # {}
            /\ queue' = [queue EXCEPT ![n] = RaisedLow(Raised(@, t), u)]
            /\ store' = [store EXCEPT ![n] = @ \ here]
            /\ Consumed(n, b)
  BY DEF Serve, history
<1>2. /\ CoreNodeType(n, C) /\ CoreNodeOK(n)
      /\ DOMAIN store = Nodes /\ DOMAIN work = Nodes /\ DOMAIN queue = Nodes
      /\ AllIds(store[n]) \cup knownBundles[n] \cup Working(n) \subseteq OldIds
  BY NodeFacts DEF CoreInv, CoreTypes
<1>3. /\ IsSeq(Tail(work[n][s])) /\ Head(work[n][s]) \in ToSet(work[n][s])
      /\ ToSet(work[n][s]) = ToSet(Tail(work[n][s])) \cup {Head(work[n][s])}
  BY <1>1, <1>2, RestOfSeq DEF CoreNodeType
<1>4. /\ DOMAIN work' = Nodes /\ DOMAIN work'[n] = Services /\ \A k \in Nodes \ {n} : work'[k] = work[k]
      /\ work'[n][s] = Tail(work[n][s]) /\ \A r \in Services \ {s} : work'[n][r] = work[n][r]
  BY <1>1, <1>2 DEF CoreNodeType
<1>5. \A r \in Services : IsSeq(work'[n][r]) /\ ToSet(work'[n][r]) \subseteq ToSet(work[n][r])
  BY <1>2, <1>3, <1>4 DEF CoreNodeType
<1>6. Working(n)' \subseteq Working(n)
  BY <1>5 DEF Working
<1>7. LoadOK' /\ LoadIds' = LoadIds
  BY <1>1, SameLoad
<1>8. Head(work[n][s]) \in Awaited(n)
  BY <1>3 DEF Awaited, Working
<1>9. CASE here = {} /\ UNCHANGED <<store, queue, got, twice>>
  <2>1. QueueOK(queue'[n], n, C) /\ InQueue(queue'[n]) = InQueue(queue[n]) \cup {}
    BY <1>2, <1>9 DEF CoreNodeType
  <2>2. /\ OldOf({}) \subseteq OldIds \cup AllIds(C) /\ QueuedOf({}) = {}
        /\ NewOf({}) \cap (NewIds \cup OldIds \cup LoadIds' \cup AllIds(C)) = {}
    BY NoIds
  <2>3. /\ \A k \in Nodes \ {n} : queue'[k] = queue[k] /\ store'[k] = store[k] /\ work'[k] = work[k]
        /\ DOMAIN queue' = Nodes /\ DOMAIN store' = Nodes
        /\ UNCHANGED knownBundles /\ store'[n] \subseteq store[n] /\ twice' = {}
        /\ \A g \in got' : g.node # n => g \in got
        /\ \A g \in got' : g.node = n => g \in got \/ g.id \in AllIds(store[n]) \ AllIds(store'[n])
    BY <1>1, <1>2, <1>4, <1>9 DEF CoreInv
  <2> QED
    BY <1>4, <1>5, <1>6, <1>7, <2>1, <2>2, <2>3, ReducesAndRaises
<1>10. CASE /\ here # {} /\ Free(n) # {}
            /\ queue' = [queue EXCEPT ![n] = RaisedLow(Raised(@, t), u)]
            /\ store' = [store EXCEPT ![n] = @ \ here]
            /\ Consumed(n, b)
  <2>1. b \in store[n] /\ Id(b) = Head(work[n][s])
    BY <1>10 DEF FoundIn
  <2>2. \A c \in store[n] \ here : Id(c) # Id(b)
    BY <2>1 DEF FoundIn
  <2> HIDE DEF here, b, calls, report, u, t
  <2>3. IsBundle(b, C) /\ b.dst[1] = n /\ Id(b) \in OldIds
    BY <1>2, <1>8, <2>1 DEF CoreNodeType, CoreNodeOK, AllIds
  <2>4. /\ queue'[n] = RaisedLow(Raised(queue[n], t), u) /\ store'[n] = store[n] \ here
        /\ DOMAIN queue' = Nodes /\ DOMAIN store' = Nodes
        /\ \A k \in Nodes \ {n} : queue'[k] = queue[k] /\ store'[k] = store[k]
    BY <1>2, <1>10
  <2>5. /\ twice' = {}
        /\ \A g \in got' : g.node # n => g \in got
        /\ \A g \in got' : g.node = n => g \in got \/ g.id \in AllIds(store[n]) \ AllIds(store'[n])
    <3>1. \A c \in store'[n] : Id(c) # Id(b)
      BY <2>2, <2>4
    <3> QED
      BY <1>10, <2>1, <3>1, ConsumedOnce
  <2>6. /\ NormalOK(calls, n, C) /\ OldOf(ToSet(calls)) = {} /\ QueuedOf(ToSet(calls)) = {}
        /\ NewOf(ToSet(calls)) \cap (NewIds \cup OldIds \cup LoadIds \cup AllIds(C)) = {}
    BY <1>10, <2>3, CallbackFacts DEF calls
  <2>7. Olds(report, n, C) /\ OldOf(ToSet(report)) \subseteq {Id(b)} /\ QueuedOf(ToSet(report)) = {}
    BY <2>3, BundleEventFacts DEF report
  <2>8. /\ NormalOK(t, n, C) /\ NewOf(ToSet(t)) = NewOf(ToSet(calls))
        /\ OldOf(ToSet(t)) \subseteq {Id(b)} /\ QueuedOf(ToSet(t)) = {}
    <3>1. NormalOK(calls \o report, n, C)
      BY <2>6, <2>7, NormalJoin
    <3>2. /\ NewOf(ToSet(calls \o report)) = NewOf(ToSet(calls))
          /\ OldOf(ToSet(calls \o report)) = OldOf(ToSet(calls)) \cup OldOf(ToSet(report))
          /\ QueuedOf(ToSet(calls \o report)) = QueuedOf(ToSet(calls)) \cup QueuedOf(ToSet(report))
      BY <2>6, <2>7, <3>1, NormalJoin
    <3>3. /\ NormalOK(t, n, C) /\ NewOf(ToSet(t)) = NewOf(ToSet(calls))
          /\ OldOf(ToSet(t)) = OldOf(ToSet(calls)) \cup OldOf(ToSet(report))
          /\ QueuedOf(ToSet(t)) = QueuedOf(ToSet(calls)) \cup QueuedOf(ToSet(report))
      BY <3>1, <3>2 DEF t
    <3> QED
      BY <3>3, <2>6, <2>7
  <2>9. Olds(u, n, C) /\ OldOf(ToSet(u)) \subseteq AllIds(C) /\ QueuedOf(ToSet(u)) = {} /\ NewOf(ToSet(u)) = {}
    BY <2>3, UnpackedFacts, OldsFacts DEF u
  <2> DEFINE q == Raised(queue[n], t)
             T == ToSet(t) \cup ToSet(u)
  <2>10. QueueOK(q, n, C) /\ InQueue(q) = InQueue(queue[n]) \cup ToSet(t)
    <3>1. QueueOK(queue[n], n, C) /\ NewOf(InQueue(queue[n])) \cap NewOf(ToSet(t)) = {}
      BY <1>2, <2>6, <2>8, HeldIsOld DEF CoreNodeType
    <3> QED
      BY <3>1, <2>8, RaisedQueue
  <2> HIDE DEF q
  <2>11. QueueOK(RaisedLow(q, u), n, C) /\ InQueue(RaisedLow(q, u)) = InQueue(q) \cup ToSet(u)
    BY <2>9, <2>10, OldsRaised
  <2>12. QueueOK(queue'[n], n, C) /\ InQueue(queue'[n]) = InQueue(queue[n]) \cup T
    BY <2>4, <2>10, <2>11 DEF q
  <2>13. /\ NewOf(T) = NewOf(ToSet(calls)) /\ OldOf(T) \subseteq {Id(b)} \cup AllIds(C) /\ QueuedOf(T) = {}
    <3>1. /\ NewOf(T) = NewOf(ToSet(t)) \cup NewOf(ToSet(u))
          /\ OldOf(T) = OldOf(ToSet(t)) \cup OldOf(ToSet(u))
          /\ QueuedOf(T) = QueuedOf(ToSet(t)) \cup QueuedOf(ToSet(u))
      BY JoinedIds
    <3> HIDE DEF T
    <3> QED
      BY <3>1, <2>8, <2>9
  <2> HIDE DEF T
  <2>14. OldOf(T) \subseteq OldIds \cup AllIds(C)
    BY <2>3, <2>13
  <2>15. NewOf(T) \cap (NewIds \cup OldIds \cup LoadIds' \cup AllIds(C)) = {}
    BY <1>7, <2>6, <2>13
  <2>16. /\ \A k \in Nodes \ {n} : queue'[k] = queue[k] /\ store'[k] = store[k] /\ work'[k] = work[k]
         /\ UNCHANGED knownBundles /\ store'[n] \subseteq store[n]
    BY <1>1, <1>4, <2>4
  <2> QED
    BY <1>4, <1>5, <1>6, <1>7, <2>4, <2>5, <2>12, <2>13, <2>14, <2>15, <2>16, ReducesAndRaises
<1> QED
  BY <1>1, <1>9, <1>10

\* An application sends a bundle with an ID of its own.
LEMMA ApplicationSendsKeeps ==
  ASSUME NEW C, CoreInv(C), IdsAreUnique(C), ApplicationSends
  PROVE  CoreInv(C)'
<1>0. PICK b, n : b = Head(load) /\ n = b.src[1]
  OBVIOUS
<1> DEFINE e == Received(b, b.src, TRUE)
           t == <<e>>
<1>1. /\ load # <<>> /\ load' = Tail(load)
      /\ queue' = [queue EXCEPT ![n] = RaisedLow(@, t)]
      /\ UNCHANGED <<store, knownBundles, work, got, twice>>
  BY <1>0 DEF ApplicationSends, bundleVars, history
<1>2. IsSeq(load) /\ ToSet(load) \subseteq Sent
  BY DEF CoreInv, LoadOK
<1>3. /\ IsSeq(Tail(load)) /\ b \in ToSet(load) /\ ToSet(load) = ToSet(Tail(load)) \cup {b}
      /\ b = load[1] /\ 1 \in DOMAIN load
      /\ \A i \in DOMAIN Tail(load) : i \in Nat /\ i + 1 \in DOMAIN load /\ Tail(load)[i] = load[i + 1]
  BY <1>0, <1>1, <1>2, RestOfSeq
<1>4. LoadOK'
  <2>1. \A i, j \in DOMAIN load' : Id(load'[i]) = Id(load'[j]) => i = j
    <3>1. SUFFICES ASSUME NEW i \in DOMAIN load', NEW j \in DOMAIN load', Id(load'[i]) = Id(load'[j])
                   PROVE  i = j
      OBVIOUS
    <3>2. /\ i \in Nat /\ j \in Nat /\ i + 1 \in DOMAIN load /\ j + 1 \in DOMAIN load
          /\ Id(load[i + 1]) = Id(load[j + 1])
      BY <1>1, <1>3, <3>1
    <3>3. i + 1 = j + 1
      BY <3>2 DEF CoreInv, LoadOK
    <3> QED
      BY <3>2, <3>3
  <2> QED
    BY <1>1, <1>2, <1>3, <2>1 DEF LoadOK
<1>5. Id(b) \in LoadIds /\ LoadIds' \subseteq LoadIds \ {Id(b)}
  <2>1. \A i \in DOMAIN load' : i \in Nat /\ i + 1 \in DOMAIN load /\ load'[i] = load[i + 1] /\ i + 1 # 1
    <3>1. DOMAIN Tail(load) = 1..Len(Tail(load)) /\ Len(Tail(load)) \in Nat
      BY <1>3 DEF IsSeq
    <3>2. \A i \in DOMAIN Tail(load) : i + 1 # 1
      BY <3>1
    <3> QED
      BY <1>1, <1>3, <3>2
  <2>2. \A i \in DOMAIN load : i # 1 => Id(load[i]) # Id(b)
    BY <1>3 DEF CoreInv, LoadOK
  <2>3. \A i \in DOMAIN load' : Id(load'[i]) \in LoadIds \ {Id(b)}
    BY <2>1, <2>2 DEF LoadIds
  <2> QED
    BY <1>3, <2>3 DEF LoadIds
<1>6. b \in Sent /\ IsBundle(b, C) /\ n \in Nodes /\ b.num \notin 1..Numbers /\ Id(b) \notin AllIds(C)
  <2>1. b \in Sent
    BY <1>2, <1>3
  <2> QED
    BY <1>0, <2>1 DEF IdsAreUnique, AllIds
<1>7. Id(b) \notin NewIds \cup OldIds
  BY <1>5 DEF CoreInv, IdsApart
<1>8. e.type = "received" /\ e.b = b /\ e.local
  BY DEF Received
<1> HIDE DEF e
<1>9. CoreEventOK(e, n, C) /\ IsNew(e) /\ e.type # "generated"
  BY <1>0, <1>6, <1>8 DEF CoreEventOK, IsNew, IsLocal, CarriesBundle
<1>10. LowOK(t, n, C) /\ ToSet(t) = {e}
  <2>1. ToSet(<<e>>) = {e} /\ IsSeq(<<e>>) /\ DOMAIN <<e>> = {1}
    BY ShortSeqs
  <2>2. Twinless(<<e>>)
    BY <2>1 DEF Twinless
  <2> QED
    BY <1>9, <2>1, <2>2 DEF LowOK
<1>11. NewOf({e}) = {Id(b)} /\ OldOf({e}) = {} /\ QueuedOf({e}) = {}
  BY <1>8, <1>9 DEF NewOf, OldOf, QueuedOf, IdsOf
<1> HIDE DEF t
<1>12. NewOf(ToSet(t)) = {Id(b)} /\ OldOf(ToSet(t)) = {} /\ QueuedOf(ToSet(t)) = {}
  BY <1>10, <1>11, Zenon
<1>13. /\ CoreNodeType(n, C) /\ CoreNodeOK(n)
       /\ DOMAIN store = Nodes /\ DOMAIN work = Nodes /\ DOMAIN queue = Nodes
       /\ AllIds(store[n]) \cup knownBundles[n] \cup Working(n) \subseteq OldIds
  BY <1>6, NodeFacts DEF CoreInv, CoreTypes
<1>14. /\ queue'[n] = RaisedLow(queue[n], t) /\ DOMAIN queue' = Nodes /\ DOMAIN store' = Nodes /\ DOMAIN work' = Nodes
       /\ \A k \in Nodes \ {n} : queue'[k] = queue[k] /\ store'[k] = store[k] /\ work'[k] = work[k]
       /\ UNCHANGED knownBundles /\ store'[n] \subseteq store[n]
       /\ \A g \in got' : g.node # n => g \in got
       /\ \A g \in got' : g.node = n => g \in got \/ g.id \in AllIds(store[n]) \ AllIds(store'[n])
       /\ twice' = {} /\ DOMAIN work'[n] = Services /\ \A s \in Services : IsSeq(work'[n][s])
  BY <1>1, <1>6, <1>13 DEF CoreInv, CoreNodeType
<1>15. QueueOK(queue'[n], n, C) /\ InQueue(queue'[n]) = InQueue(queue[n]) \cup ToSet(t)
  <2>1. QueueOK(queue[n], n, C) /\ NewOf(InQueue(queue[n])) \cap NewOf(ToSet(t)) = {}
    BY <1>6, <1>7, <1>12, <1>13, HeldIsOld DEF CoreNodeType
  <2>2. /\ QueueOK(RaisedLow(queue[n], t), n, C)
        /\ InQueue(RaisedLow(queue[n], t)) = InQueue(queue[n]) \cup ToSet(t)
    BY <1>10, <2>1, RaisedLowQueue
  <2>3. queue'[n] = RaisedLow(queue[n], t)
    BY <1>14
  <2> QED
    BY <2>2, <2>3
<1>16. OldOf(ToSet(t)) \subseteq OldIds \cup AllIds(C) /\ LoadIds' \subseteq LoadIds /\ Working(n)' \subseteq Working(n)
  BY <1>1, <1>5, <1>12 DEF Working
<1>17. NewOf(ToSet(t)) \cap (NewIds \cup OldIds \cup LoadIds' \cup AllIds(C)) = {}
  BY <1>5, <1>6, <1>7, <1>12
<1> QED
  BY <1>4, <1>6, <1>12, <1>14, <1>15, <1>16, <1>17, ReducesAndRaises

-----------------------------------------------------------------------------
\* A queue r that has grown out of q by events about bundles with IDs of I.
QueueGrows(q, r, n, C, I) ==
  /\ QueueOK(r, n, C)
  /\ NewOf(InQueue(r)) = NewOf(InQueue(q))
  /\ OldOf(InQueue(r)) \subseteq OldOf(InQueue(q)) \cup I
  /\ QueuedOf(InQueue(r)) = QueuedOf(InQueue(q))

\* Events about bundles that exist let a queue grow.
LEMMA OldsGrow ==
  ASSUME NEW q, NEW n, NEW C, NEW t, NEW I, QueueOK(q, n, C), Olds(t, n, C),
         OldOf(ToSet(t)) \subseteq I, QueuedOf(ToSet(t)) = {}
  PROVE  QueueGrows(q, Raised(q, t), n, C, I) /\ QueueGrows(q, RaisedLow(q, t), n, C, I)
<1>1. /\ QueueOK(Raised(q, t), n, C) /\ InQueue(Raised(q, t)) = InQueue(q) \cup ToSet(t)
      /\ QueueOK(RaisedLow(q, t), n, C) /\ InQueue(RaisedLow(q, t)) = InQueue(q) \cup ToSet(t)
  BY OldsRaised
<1>2. NewOf(ToSet(t)) = {}
  BY OldsFacts
<1>3. /\ NewOf(InQueue(q) \cup ToSet(t)) = NewOf(InQueue(q)) \cup NewOf(ToSet(t))
      /\ OldOf(InQueue(q) \cup ToSet(t)) = OldOf(InQueue(q)) \cup OldOf(ToSet(t))
      /\ QueuedOf(InQueue(q) \cup ToSet(t)) = QueuedOf(InQueue(q)) \cup QueuedOf(ToSet(t))
  BY JoinedIds
<1>4. ASSUME NEW r, QueueOK(r, n, C), InQueue(r) = InQueue(q) \cup ToSet(t)
      PROVE  QueueGrows(q, r, n, C, I)
  <2>1. /\ NewOf(InQueue(r)) = NewOf(InQueue(q)) \cup NewOf(ToSet(t))
        /\ OldOf(InQueue(r)) = OldOf(InQueue(q)) \cup OldOf(ToSet(t))
        /\ QueuedOf(InQueue(r)) = QueuedOf(InQueue(q)) \cup QueuedOf(ToSet(t))
    BY <1>3, <1>4, Zenon
  <2> QED
    BY <1>2, <1>4, <2>1 DEF QueueGrows
<1>5. QueueGrows(q, Raised(q, t), n, C, I)
  BY <1>1, <1>4, Zenon
<1>6. QueueGrows(q, RaisedLow(q, t), n, C, I)
  BY <1>1, <1>4, Zenon
<1> QED
  BY <1>5, <1>6

\* A step in which the nodes raise events about bundles they have, or lose bundles.
LEMMA OldsStep ==
  ASSUME NEW C, CoreInv(C), IdsAreUnique(C), UNCHANGED <<load, knownBundles, work, got, twice>>,
         DOMAIN queue' = Nodes, DOMAIN store' = Nodes,
         \A k \in Nodes : QueueGrows(queue[k], queue'[k], k, C, OldIds) /\ store'[k] \subseteq store[k]
  PROVE  CoreInv(C)'
<1>1. ASSUME NEW k \in Nodes
      PROVE  /\ CoreNodeType(k, C)' /\ CoreNodeOK(k)'
             /\ NewOf(InQueue(queue'[k])) \subseteq (NewOf(InQueue(queue[k])) \ {}) \cup {}
             /\ Held(k)' \subseteq OldIds \cup {} \cup AllIds(C)
  <2>1. /\ CoreNodeType(k, C) /\ CoreNodeOK(k)
        /\ AllIds(store[k]) \cup knownBundles[k] \cup Working(k) \subseteq OldIds
    BY NodeFacts
  <2>2. QueueGrows(queue[k], queue'[k], k, C, OldIds) /\ store'[k] \subseteq store[k]
    OBVIOUS
  <2>3. CoreNodeType(k, C)'
    BY <2>1, <2>2 DEF CoreNodeType, QueueGrows
  <2>4. Working(k)' = Working(k) /\ Awaited(k)' = Awaited(k)
    BY <2>2 DEF Working, Awaited, QueueGrows
  <2>5. CoreNodeOK(k)'
    BY <2>1, <2>2, <2>4, ReducedNode
  <2>6. AllIds(store'[k]) \subseteq AllIds(store[k])
    BY <2>2 DEF AllIds
  <2>7. OldOf(InQueue(queue[k])) \subseteq OldIds
    BY HeldIsOld DEF Held
  <2>8. Held(k)' \subseteq OldIds
    BY <2>1, <2>2, <2>4, <2>6, <2>7 DEF Held, QueueGrows
  <2> QED
    BY <2>2, <2>3, <2>5, <2>8 DEF QueueGrows
<1>2. CoreTypes(C)'
  BY <1>1 DEF CoreInv, CoreTypes
<1>3. LoadOK' /\ LoadIds' \subseteq LoadIds /\ twice' = {}
  BY SameLoad DEF CoreInv
<1>4. {} \subseteq NewIds /\ {} \cap (NewIds \cup OldIds \cup LoadIds' \cup AllIds(C)) = {}
  OBVIOUS
<1>5. \A k \in Nodes : CoreNodeOK(k)'
  BY <1>1
<1>6. \A k \in Nodes : NewOf(InQueue(queue'[k])) \subseteq (NewOf(InQueue(queue[k])) \ {}) \cup {}
  BY <1>1
<1>7. \A k \in Nodes : Held(k)' \subseteq OldIds \cup {} \cup AllIds(C)
  BY <1>1
<1> QED
  BY <1>2, <1>3, <1>4, <1>5, <1>6, <1>7, ManyNodes

\* A second passes.
LEMMA WallClockKeeps ==
  ASSUME NEW C, CoreInv(C), IdsAreUnique(C), WallClock
  PROVE  CoreInv(C)'
<1> DEFINE e == [type |-> "tick"]
           t == <<e>>
<1>1. /\ queue' = [n \in Nodes |-> Raised(queue[n], t)]
      /\ UNCHANGED <<load, store, knownBundles, work, got, twice>>
  BY DEF WallClock, bundleVars, history
<1>2. e.type = "tick"
  OBVIOUS
<1> HIDE DEF e
<1>3. \A n \in Nodes : CoreEventOK(e, n, C)
  BY <1>2 DEF CoreEventOK, IsNew, IsLocal, CarriesBundle
<1>4. ~IsNew(e) /\ OldOf({e}) = {} /\ QueuedOf({e}) = {} /\ ToSet(t) = {e}
  BY <1>2, ShortSeqs DEF IsNew, IsLocal, CarriesBundle, OldOf, QueuedOf, IdsOf
<1>5. \A n \in Nodes : Olds(t, n, C)
  BY <1>3, <1>4, OldsOne
<1> HIDE DEF t
<1>6. OldOf(ToSet(t)) = {} /\ QueuedOf(ToSet(t)) = {}
  BY <1>4, Zenon
<1>7. ASSUME NEW n \in Nodes
      PROVE  QueueGrows(queue[n], queue'[n], n, C, OldIds) /\ store'[n] \subseteq store[n]
  <2>1. QueueOK(queue[n], n, C)
    BY DEF CoreInv, CoreTypes, CoreNodeType
  <2>2. QueueGrows(queue[n], Raised(queue[n], t), n, C, OldIds)
    BY <1>5, <1>6, <2>1, OldsGrow
  <2> QED
    BY <1>1, <2>2
<1>8. DOMAIN queue' = Nodes /\ DOMAIN store' = Nodes
  BY <1>1 DEF CoreInv, CoreTypes
<1>9. UNCHANGED <<load, knownBundles, work, got, twice>>
  BY <1>1
<1> QED
  BY <1>7, <1>8, <1>9, OldsStep

\* On its way a bundle keeps its ID, and what it carries.
LEMMA TravelledFacts ==
  ASSUME NEW C, NEW b, IsBundle(b, C), NEW wait, NEW delay
  PROVE  LET c == Travelled(b, wait, delay)
         IN  IsBundle(c, C) /\ Id(c) = Id(b)
<1> DEFINE c == Travelled(b, wait, delay)
<1>1. /\ DOMAIN c = DOMAIN b /\ c.src = b.src /\ c.num = b.num /\ c.frag = b.frag
      /\ c.exts = b.exts /\ c.body = b.body
  BY DEF Travelled, IsBundle
<1> HIDE DEF c
<1>2. IsBundle(c, C) /\ Id(c) = Id(b)
  BY <1>1 DEF IsBundle, Id
<1> QED
  BY <1>2 DEF c

\* Reading a bundle changes its payload only, and makes no capsule of it.
LEMMA RereadFacts ==
  ASSUME NEW C, NEW b, IsBundle(b, C)
  PROVE  IsBundle(Reread(b), C) /\ Id(Reread(b)) = Id(b)
<1>1. ASSUME NEW body, body.type # "capsule"
      PROVE  LET c == [b EXCEPT !.body = body] IN IsBundle(c, C) /\ Id(c) = Id(b)
  <2> DEFINE c == [b EXCEPT !.body = body]
  <2>1. /\ DOMAIN c = DOMAIN b /\ c.src = b.src /\ c.num = b.num /\ c.frag = b.frag
        /\ c.exts = b.exts /\ c.body = body
    BY DEF IsBundle
  <2> HIDE DEF c
  <2>2. IsBundle(c, C) /\ Id(c) = Id(b)
    BY <1>1, <2>1 DEF IsBundle, Id
  <2> QED
    BY <2>2 DEF c
<1>2. PICK body : /\ body.type # "capsule"
                  /\ Reread(b) = b \/ Reread(b) = [b EXCEPT !.body = body]
  <2> DEFINE data == [type |-> "data"]
             report == ReadReport(WriteReport(b.body))
             signal == ReadSignal(WriteSignal(b.body))
  <2>1. data.type # "capsule" /\ report.type # "capsule" /\ signal.type # "capsule"
    BY DEF ReadReport, ReadSignal
  <2>2. \/ Reread(b) = b
        \/ Reread(b) = [b EXCEPT !.body = data]
        \/ Reread(b) = [b EXCEPT !.body = report]
        \/ Reread(b) = [b EXCEPT !.body = signal]
    BY DEF Reread
  <2> HIDE DEF data, report, signal
  <2>3. CASE Reread(b) = b \/ Reread(b) = [b EXCEPT !.body = data]
    BY <2>1, <2>3
  <2>4. CASE Reread(b) = [b EXCEPT !.body = report]
    BY <2>1, <2>4
  <2>5. CASE Reread(b) = [b EXCEPT !.body = signal]
    BY <2>1, <2>5
  <2> QED
    BY <2>2, <2>3, <2>4, <2>5
<1> QED
  BY <1>1, <1>2

\* The reports a reader raises while it validates the blocks of a bundle.
LEMMA ValidateFacts ==
  ASSUME NEW C, NEW n, NEW b, IsBundle(b, C)
  PROVE  LET t == ValidateBlocks(b).events
         IN  Olds(t, n, C) /\ OldOf(ToSet(t)) \subseteq {Id(b)} /\ QueuedOf(ToSet(t)) = {}
<1> DEFINE asks == {i \in Walked(b) : b.exts[i] = "TRANSMIT_STATUSREPORT_IF_NOT_PROCESSED"}
           k == Cardinality(asks)
           report == BundleEvent(b, "received", "BLOCK_UNINTELLIGIBLE")
           e == report[1]
           t == ValidateBlocks(b).events
<1>1. k \in Nat
  <2>1. DOMAIN b.exts = 1..Len(b.exts) /\ Len(b.exts) \in Nat
    BY DEF IsBundle
  <2>2. IsFiniteSet(1..Len(b.exts)) /\ asks \in SUBSET (1..Len(b.exts))
    BY <2>1, FS_Interval DEF Walked
  <2> HIDE DEF asks
  <2>3. IsFiniteSet(asks)
    BY <2>2, FS_Subset
  <2> QED
    BY <2>3, FS_CardinalityType
<1>2. t = IF report = <<>> THEN <<>> ELSE [i \in 1..k |-> e]
  BY DEF ValidateBlocks
<1>3. Olds(report, n, C) /\ OldOf(ToSet(report)) \subseteq {Id(b)} /\ QueuedOf(ToSet(report)) = {}
  BY BundleEventFacts
<1>4. report = <<>> \/ report = <<e>>
  BY DEF BundleEvent
<1> HIDE DEF k, report, e, t
<1>5. CASE report = <<>>
  <2>1. t = report
    BY <1>2, <1>5
  <2> QED
    BY <1>3, <2>1 DEF t
<1>6. CASE report # <<>>
  <2>1. t = [i \in 1..k |-> e] /\ ToSet(report) = {e}
    BY <1>2, <1>4, <1>6, ShortSeqs
  <2>2. IsSeq([i \in 1..k |-> e]) /\ ToSet([i \in 1..k |-> e]) \subseteq {e}
    BY <1>1, RowSeq
  <2>3. IsSeq(t) /\ ToSet(t) \subseteq {e}
    BY <2>1, <2>2, Zenon
  <2>4. ToSet(t) \subseteq ToSet(report)
    BY <2>1, <2>3
  <2>5. Olds(t, n, C)
    BY <1>3, <2>3, <2>4 DEF Olds
  <2>6. OldOf(ToSet(t)) \subseteq OldOf(ToSet(report)) /\ QueuedOf(ToSet(t)) \subseteq QueuedOf(ToSet(report))
    BY <2>4 DEF OldOf, QueuedOf, IdsOf
  <2> QED
    BY <1>3, <2>5, <2>6 DEF t
<1> QED
  BY <1>5, <1>6

\* A bundle is transferred, or its transfer breaks.
LEMMA TransferBundleKeeps ==
  ASSUME NEW C, CoreInv(C), IdsAreUnique(C), NEW n \in Nodes, NEW m \in Nodes, NEW b, NEW wait, NEW delay,
         NEW outcome, TransferBundle(n, m, b, wait, delay, outcome)
  PROVE  CoreInv(C)'
<1> DEFINE d == Travelled(b, wait, delay)
           c == Reread(d)
           v == ValidateBlocks(c)
           reports == IF Acceptable(m, c) THEN v.events ELSE <<>>
           arrived == IF Acceptable(m, c) /\ v.accepted THEN <<Received(c, n, FALSE)>> ELSE <<>>
           first == BundleEvent(b, "forwarded", "NO_ADDITIONAL_INFORMATION")
           second == IF Direct(b, m) THEN BundleEvent(b, "deleted", "DEPLETED_STORAGE") ELSE <<>>
           left == CASE outcome = "lost" -> <<>>
                     [] outcome = "refused" -> <<>>
                     [] OTHER -> first \o second
<1>1. /\ b \in store[n] /\ {n, m} \in Links
      /\ queue' = [queue EXCEPT ![m] = RaisedLow(Raised(@, reports), arrived), ![n] = Raised(@, left)]
      /\ store' = store \/ store' = [store EXCEPT ![n] = @ \ {b}]
      /\ UNCHANGED <<load, knownBundles, work, got, twice>>
  BY DEF TransferBundle, NextHop, history
<1>2. n # m
  <2>1. Cardinality({n, m}) = 2
    BY <1>1, CoreAssumption
  <2>2. Cardinality({n}) = 1
    BY FS_Singleton
  <2>3. n = m => {n, m} = {n}
    OBVIOUS
  <2> QED
    BY <2>1, <2>2, <2>3
<1>3. /\ DOMAIN store = Nodes /\ DOMAIN queue = Nodes
      /\ AllIds(store[n]) \subseteq OldIds /\ IsBundle(b, C)
      /\ QueueOK(queue[n], n, C) /\ QueueOK(queue[m], m, C)
  BY <1>1, NodeFacts DEF CoreInv, CoreTypes, CoreNodeType
<1>4. Id(b) \in OldIds
  BY <1>1, <1>3 DEF AllIds
<1> HIDE DEF d
<1>5. IsBundle(d, C) /\ Id(d) = Id(b)
  BY <1>3, TravelledFacts DEF d
<1> HIDE DEF c
<1>6. IsBundle(c, C) /\ Id(c) = Id(b)
  BY <1>5, RereadFacts DEF c
<1> DEFINE Fine(t, k) == Olds(t, k, C) /\ OldOf(ToSet(t)) \subseteq OldIds /\ QueuedOf(ToSet(t)) = {}
<1>7. \A k : Fine(<<>>, k)
  <2>1. ToSet(<<>>) = {}
    BY ShortSeqs
  <2>2. OldOf(ToSet(<<>>)) = {} /\ QueuedOf(ToSet(<<>>)) = {}
    BY <2>1, NoIds, Zenon
  <2> QED
    BY <2>2, OldsEmpty
<1>8. Fine(reports, m)
  <2>1. Fine(v.events, m)
    BY <1>4, <1>6, ValidateFacts
  <2> HIDE DEF Fine, v
  <2> QED
    BY <1>7, <2>1
<1>9. Fine(arrived, m)
  <2> DEFINE e == Received(c, n, FALSE)
  <2>1. e.type = "received" /\ e.b = c /\ ~e.local
    BY DEF Received
  <2> HIDE DEF e
  <2>2. CoreEventOK(e, m, C) /\ ~IsNew(e)
    BY <1>6, <2>1 DEF CoreEventOK, IsNew, IsLocal, CarriesBundle
  <2>3. OldOf({e}) \subseteq OldIds /\ QueuedOf({e}) = {}
    BY <1>4, <1>6, <2>1 DEF OldOf, QueuedOf, IdsOf
  <2>4. ToSet(<<e>>) = {e}
    BY ShortSeqs
  <2>5. OldOf(ToSet(<<e>>)) \subseteq OldIds /\ QueuedOf(ToSet(<<e>>)) = {}
    BY <2>3, <2>4, Zenon
  <2>6. Fine(<<e>>, m)
    BY <2>2, <2>5, OldsOne
  <2> HIDE DEF Fine, v
  <2> QED
    BY <1>7, <2>6 DEF e
<1>10. Fine(left, n)
  <2>1. Fine(first, n)
    BY <1>3, <1>4, BundleEventFacts
  <2>2. Fine(second, n)
    <3> DEFINE r == BundleEvent(b, "deleted", "DEPLETED_STORAGE")
    <3>1. Fine(r, n)
      BY <1>3, <1>4, BundleEventFacts
    <3> HIDE DEF Fine, r
    <3>2. second = r \/ second = <<>>
      BY DEF r
    <3> QED
      BY <1>7, <3>1, <3>2
  <2> HIDE DEF first, second
  <2>3. Fine(first \o second, n)
    <3>1. Olds(first \o second, n, C)
      BY <2>1, <2>2, OldsJoin
    <3>2. ToSet(first \o second) = ToSet(first) \cup ToSet(second)
      BY <2>1, <2>2, JoinedSeq DEF Olds
    <3>3. /\ OldOf(ToSet(first) \cup ToSet(second)) = OldOf(ToSet(first)) \cup OldOf(ToSet(second))
          /\ QueuedOf(ToSet(first) \cup ToSet(second)) = QueuedOf(ToSet(first)) \cup QueuedOf(ToSet(second))
      BY JoinedIds
    <3>4. /\ OldOf(ToSet(first \o second)) = OldOf(ToSet(first)) \cup OldOf(ToSet(second))
          /\ QueuedOf(ToSet(first \o second)) = QueuedOf(ToSet(first)) \cup QueuedOf(ToSet(second))
      BY <3>2, <3>3, Zenon
    <3> QED
      BY <2>1, <2>2, <3>1, <3>4
  <2> HIDE DEF Fine
  <2>4. left = <<>> \/ left = first \o second
    OBVIOUS
  <2> HIDE DEF left
  <2> QED
    BY <1>7, <2>3, <2>4
<1> HIDE DEF reports, arrived, left
<1> DEFINE q == Raised(queue[m], reports)
           r == RaisedLow(q, arrived)
<1>11. QueueGrows(queue[n], Raised(queue[n], left), n, C, OldIds)
  BY <1>3, <1>10, OldsGrow
<1>12. QueueGrows(queue[m], r, m, C, OldIds)
  <2>1. QueueGrows(queue[m], q, m, C, OldIds)
    BY <1>3, <1>8, OldsGrow
  <2> HIDE DEF q
  <2>2. QueueGrows(q, RaisedLow(q, arrived), m, C, OldIds)
    BY <1>9, <2>1, OldsGrow DEF QueueGrows
  <2> HIDE DEF r
  <2>3. QueueGrows(q, r, m, C, OldIds)
    BY <2>2 DEF r
  <2> QED
    BY <2>1, <2>3 DEF QueueGrows
<1> HIDE DEF Fine
<1>13. /\ queue'[n] = Raised(queue[n], left) /\ queue'[m] = r
       /\ DOMAIN queue' = Nodes /\ DOMAIN store' = Nodes
       /\ \A k \in Nodes \ {n, m} : queue'[k] = queue[k]
       /\ \A k \in Nodes : store'[k] \subseteq store[k]
  BY <1>1, <1>2, <1>3
<1> HIDE DEF r
<1>14. \A k \in Nodes : QueueGrows(queue[k], queue'[k], k, C, OldIds)
  <2>1. SUFFICES ASSUME NEW k \in Nodes
                 PROVE  QueueGrows(queue[k], queue'[k], k, C, OldIds)
    OBVIOUS
  <2>2. CASE k = n
    BY <1>11, <1>13, <2>2
  <2>3. CASE k = m
    BY <1>12, <1>13, <2>3
  <2>4. CASE k \notin {n, m}
    <3>1. QueueOK(queue[k], k, C)
      BY DEF CoreInv, CoreTypes, CoreNodeType
    <3> QED
      BY <1>13, <2>4, <3>1 DEF QueueGrows
  <2> QED
    BY <2>2, <2>3, <2>4
<1>15. \A k \in Nodes : QueueGrows(queue[k], queue'[k], k, C, OldIds) /\ store'[k] \subseteq store[k]
  BY <1>13, <1>14
<1> QED
  BY <1>1, <1>13, <1>15, OldsStep

-----------------------------------------------------------------------------
\* At the start the applications hold everything.
LEMMA CoreStarts ==
  ASSUME NEW C, IdsAreUnique(C), CoreInit
  PROVE  CoreInv(C)
<1>1. /\ load \in Workloads /\ twice = {} /\ got = {}
      /\ store = [n \in Nodes |-> {}] /\ knownBundles = [n \in Nodes |-> {}]
      /\ queue = [n \in Nodes |-> [normal |-> <<>>, low |-> <<>>]]
      /\ work = [n \in Nodes |-> [s \in Services |-> <<>>]]
  BY DEF CoreInit
<1>2. LoadOK
  <2>1. IsSeq(load) /\ \A i, j \in DOMAIN load : Id(load[i]) = Id(load[j]) => i = j
    BY <1>1 DEF IdsAreUnique, IsSeq
  <2>2. ToSet(load) \subseteq Sent
    BY <1>1 DEF Sent
  <2> QED
    BY <2>1, <2>2 DEF LoadOK
<1>3. ASSUME NEW n \in Nodes
      PROVE  /\ CoreNodeType(n, C) /\ CoreNodeOK(n) /\ Held(n) = {} /\ NewOf(InQueue(queue[n])) = {}
  <2>1. /\ DOMAIN queue[n] = {"normal", "low"} /\ queue[n].normal = <<>> /\ queue[n].low = <<>>
        /\ store[n] = {} /\ knownBundles[n] = {} /\ DOMAIN work[n] = Services
        /\ \A s \in Services : work[n][s] = <<>>
    BY <1>1
  <2>2. IsSeq(<<>>) /\ ToSet(<<>>) = {} /\ Twinless(<<>>)
    BY ShortSeqs DEF Twinless
  <2>3. QueueOK(queue[n], n, C)
    BY <2>1, <2>2 DEF QueueOK, NormalOK, LowOK
  <2>4. InQueue(queue[n]) = {}
    BY <2>1, <2>2 DEF InQueue
  <2>5. NewOf(InQueue(queue[n])) = {} /\ OldOf(InQueue(queue[n])) = {} /\ QueuedOf(InQueue(queue[n])) = {}
    BY <2>4, NoIds, Zenon
  <2>6. Working(n) = {}
    BY <2>1, <2>2 DEF Working
  <2>7. CoreNodeType(n, C)
    BY <2>1, <2>2, <2>3 DEF CoreNodeType
  <2>8. AllIds(store[n]) = {}
    BY <2>1 DEF AllIds
  <2>9. Held(n) = {} /\ Awaited(n) = {}
    BY <2>1, <2>5, <2>6, <2>8 DEF Held, Awaited
  <2>10. CoreNodeOK(n)
    BY <1>1, <2>1, <2>8, <2>9 DEF CoreNodeOK
  <2> QED
    BY <2>5, <2>7, <2>9, <2>10
<1>4. NewIds = {} /\ OldIds = {}
  BY <1>3 DEF NewIds, OldIds
<1>5. CoreTypes(C)
  BY <1>1, <1>3 DEF CoreTypes
<1> QED
  BY <1>1, <1>2, <1>3, <1>4, <1>5 DEF CoreInv, IdsApart

\* Every step keeps the invariant.
LEMMA CoreSteps ==
  ASSUME NEW C, IdsAreUnique(C), CoreInv(C), [CoreNext]_coreVars
  PROVE  CoreInv(C)'
<1>1. ASSUME UNCHANGED <<load, store, knownBundles, work, queue, got, twice>>
      PROVE  CoreInv(C)'
  <2>1. DOMAIN queue' = Nodes /\ \A n \in Nodes : queue'[n] = queue[n]
    BY <1>1 DEF CoreInv, CoreTypes
  <2> QED
    BY <1>1, <2>1, SameCore
<1>2. CASE ApplicationSends
  BY <1>2, ApplicationSendsKeeps
<1>3. CASE WallClock
  BY <1>3, WallClockKeeps
<1>4. CASE \E n, m \in Nodes : \E o : Transmit(n, m, o)
  BY <1>4, TransferBundleKeeps DEF Transmit
<1>5. CASE \E n \in Nodes : Handle(n)
  <2>1. PICK n \in Nodes : Handle(n)
    BY <1>5
  <2>2. CASE RouterReceived(n)
    BY <2>2, RouterReceivedKeeps
  <2>3. CASE RouterGenerated(n)
    BY <2>3, RouterGeneratedKeeps
  <2>4. CASE BundleQueued(n)
    BY <2>4, BundleQueuedKeeps
  <2>5. CASE ReportGenerated(n)
    BY <2>5, ReportGeneratedKeeps
  <2>6. CASE NodeInfo(n)
    BY <2>6, NodeInfoKeeps
  <2>7. CASE TimeTick(n)
    BY <2>7, TimeTickKeeps
  <2> QED
    BY <2>1, <2>2, <2>3, <2>4, <2>5, <2>6, <2>7 DEF Handle
<1>6. CASE \E n \in Nodes : Announce(n)
  <2>1. UNCHANGED <<load, store, knownBundles, work, queue, got, twice>>
    BY <1>6 DEF Announce, bundleVars, switchVars, history
  <2> QED
    BY <1>1, <2>1
<1>7. CASE \E n \in Nodes, s \in Services, w \in Waits : Serve(n, s, w)
  BY <1>7, ServeKeeps
<1>8. CASE \E be \in beacons : Hear(be)
  BY <1>8, HearKeeps
<1>9. CASE \E n \in Nodes : \E b \in store[n] : LifetimeEnds(n, b)
  BY <1>9, LifetimeEndsKeeps
<1>10. CASE UNCHANGED coreVars
  <2>1. UNCHANGED <<load, store, knownBundles, work, queue, got, twice>>
    BY <1>10 DEF coreVars, bundleVars, switchVars, history
  <2> QED
    BY <1>1, <2>1
<1> QED
  BY <1>2, <1>3, <1>4, <1>5, <1>6, <1>7, <1>8, <1>9, <1>10 DEF CoreNext, Progress, CoreFault

(***************************************************************************)
(* No node and no service gets a bundle twice, however often transfers     *)
(* break and are repeated, as long as no application and no capsule gives  *)
(* two bundles the same ID or one that a daemon may give: the router       *)
(* stores only what is local or not known (BaseRouter::raiseEvent), and    *)
(* what was delivered stays known (_known_bundles).                        *)
(***************************************************************************)
THEOREM BundlesDeliveredOnce ==
  ASSUME NEW CONSTANT C, IdsAreUnique(C)
  PROVE  CoreSpec => []DeliveredOnce
<1>1. CoreInit => CoreInv(C)
  BY CoreStarts
<1>2. CoreInv(C) /\ [CoreNext]_coreVars => CoreInv(C)'
  BY CoreSteps
<1>3. CoreInv(C) => DeliveredOnce
  BY DEF CoreInv, DeliveredOnce
<1> QED
  BY <1>1, <1>2, <1>3, PTL DEF CoreSpec
=============================================================================
