----------------------------- MODULE BundleCore -----------------------------
(***************************************************************************)
(* Daemons that exchange bundles: what each does with a bundle from its    *)
(* arrival to its delivery.  A convergence layer validates it, the router  *)
(* stores it unless it is known, custody is taken over, the core delivers  *)
(* what is addressed to the node, workers answer what is addressed to a    *)
(* service of the daemon, status reports are generated, and discovery      *)
(* beacons start the synchronisation of the clocks.                        *)
(*                                                                         *)
(* One thread of a daemon handles its events in order, BundleReceivedEvent *)
(* after all others; every service has a thread of its own.  A transfer    *)
(* over a link is one step, which may fail after the peer has read the     *)
(* bundle.                                                                 *)
(***************************************************************************)
EXTENDS Announcement, DTNTPWorker, AdminRecords, FiniteSets, Sequences

LOCAL INSTANCE SequencesExt

CONSTANTS
  Null,        \* the endpoint dtn:null
  Nodes,
  Links,       \* set of sets of two nodes
  Multicast,   \* links over which beacons are heard, the others are configured
  Workloads,   \* sequences of bundles that applications send, one is chosen
  Forwarding,  \* nodes with BundleCore::forwarding
  Limits,      \* traits of a bundle that the configured limits reject
  Capacity,    \* bundles a storage has room for
  Numbers,     \* sequence numbers in use at one time
  Reference,   \* nodes with a reference clock
  Announces,   \* nodes that send beacons by themselves, the others reply
  Versionings, \* the versions of IPND the nodes may be configured with, one is chosen
  Error,       \* the error of each clock at the start
  Waits,       \* times a bundle stays in a node
  Delays,      \* times a bundle is on its way
  Blacklist,   \* seconds without a second request to a peer
  MaxSeconds,  \* seconds that pass
  MaxCoreFaults    \* transfers that fail and bundles that expire

Services == {"echo", "dtntp", "bundle-in-bundle"}

ASSUME CoreAssumption ==
  /\ \A l \in Links : l \subseteq Nodes /\ Cardinality(l) = 2
  /\ Multicast \subseteq Links
  /\ Numbers \in Nat
  /\ Forwarding \subseteq Nodes /\ Reference \subseteq Nodes /\ Announces \subseteq Nodes
  /\ Versionings \subseteq [Nodes -> Versions] /\ Error \in [Nodes -> Int]
  /\ \A v \in Versionings : \A l \in Multicast :
       (\E n \in l : v[n] = "DTND_IPDISCOVERY") => \A n \in l : v[n] = "DTND_IPDISCOVERY"

VARIABLES
  load,     \* bundles the applications will still send
  clocks,   \* nobody sends: the daemons synchronise their clocks
  version,  \* the version of IPND of each node
  store,    \* the bundles in each storage
  knownBundles,  \* _known_bundles of each router
  sent,     \* bundles each node has sent, with the peer
  queue,    \* events that wait in each event switch, [normal, low]
  work,     \* _receive_bundles of each service
  clock,    \* the clock of each node
  black,    \* _sync_blacklist: the seconds left of each peer
  seconds,  \* seconds that have passed
  beacons,  \* beacons on the air
  announced,  \* agents that have sent their beacon in this second
  replied,  \* agents that have replied to a beacon in this second
  lost, expired,  \* transfers that broke, bundles that expired
  got, twice, reported  \* history: delivered, delivered again, reports created

bundleVars == <<store, knownBundles, sent>>
switchVars == <<queue, work>>
timeVars == <<clock, black, seconds>>
beaconVars == <<beacons, announced, replied>>
faultVars == <<lost, expired>>
history == <<got, twice, reported>>
coreVars == <<load, clocks, version, bundleVars, switchVars, timeVars, beaconVars, faultVars, history>>

CoreInit ==
  /\ load \in Workloads /\ clocks = (load = <<>>)
  /\ version \in Versionings /\ (~clocks => version = CHOOSE v \in Versionings : TRUE)
  /\ store = [n \in Nodes |-> {}] /\ knownBundles = [n \in Nodes |-> {}]
  /\ sent = [n \in Nodes |-> {}]
  /\ queue = [n \in Nodes |-> [normal |-> <<>>, low |-> <<>>]]
  /\ work = [n \in Nodes |-> [s \in Services |-> <<>>]]
  /\ clock = [n \in Nodes |-> InitialClock(n \in Reference, Error[n])]
  /\ black = [n \in Nodes |-> [m \in Nodes |-> 0]]
  /\ seconds = 0 /\ beacons = {} /\ announced = {} /\ replied = {}
  /\ lost = 0 /\ expired = 0
  /\ got = {} /\ twice = {} /\ reported = {}

(***************************************************************************)
(* Events.  Every bundle and every ID that somebody holds counts when a    *)
(* new sequence number is taken, so that a number is used again after the  *)
(* bundle has expired everywhere.                                          *)
(***************************************************************************)
Raised(q, es) == [q EXCEPT !.normal = @ \o es]
RaisedLow(q, es) == [q EXCEPT !.low = @ \o es]

Generated(b) == [type |-> "generated", b |-> b]
Received(b, peer, local) == [type |-> "received", b |-> b, peer |-> peer, local |-> local]
Queued(n, b) ==
  IF b.dst # None /\ b.dst[1] = n /\ b.dst[2] \in Services \cup {Itself} THEN <<[type |-> "queued", b |-> b]>> ELSE <<>>

\* An event is queued only when somebody acts on it: the generator of status
\* reports ignores a BundleEvent nobody has asked for.
BundleEvent(b, action, reason) ==
  IF IsReported(b, action)
  THEN <<[type |-> "bundle", b |-> b, action |-> action, reason |-> reason]>> ELSE <<>>

Pending(n) == ToSet(queue[n].normal) \cup ToSet(queue[n].low)
Objects(n) == {e.b : e \in {e \in Pending(n) : e.type \notin {"info", "tick"}}} \cup store[n]
Ids(n) == {Id(b) : b \in Objects(n)} \cup UNION {ToSet(work[n][s]) : s \in Services}
Live == UNION {Ids(n) \cup knownBundles[n] : n \in Nodes}

Free(n) == {k \in 1..Numbers : \A id \in Live : id.src[1] = n => id.num # k}
Fresh(n) == CHOOSE k \in Free(n) : \A j \in Free(n) : k <= j

-----------------------------------------------------------------------------
(* Validation of a bundle while it is read.                                *)

\* validate(PrimaryBlock), validate(Block) and the expiry of the bundle
Acceptable(n, b) ==
  /\ n \in Forwarding \/ b.dst[1] = n
  /\ b.traits \cap Limits = {}
  /\ "expired" \notin b.traits

\* The blocks in front of the first one that deletes the bundle.
Walked(b) == {i \in DOMAIN b.exts : \A j \in 1..i : b.exts[j] # "DELETE_BUNDLE_IF_NOT_PROCESSED"}

\* validate(Bundle): unknown blocks may reject the bundle or ask for a report.
ValidateBlocks(b) ==
  LET asks == {i \in Walked(b) : b.exts[i] = "TRANSMIT_STATUSREPORT_IF_NOT_PROCESSED"}
      report == BundleEvent(b, "received", "BLOCK_UNINTELLIGIBLE")
  IN [accepted |-> Walked(b) = DOMAIN b.exts,
      events |-> IF report = <<>> THEN <<>> ELSE [i \in 1..Cardinality(asks) |-> report[1]]]

-----------------------------------------------------------------------------
(* Sending and receiving.                                                  *)

\* ApiServer::processIncomingBundle: an application sends a bundle.
ApplicationSends ==
  /\ load # <<>>
  /\ LET b == Head(load) IN
     queue' = [queue EXCEPT ![b.src[1]] = RaisedLow(@, <<Received(b, b.src, TRUE)>>)]
  /\ load' = Tail(load)
  /\ UNCHANGED <<clocks, version, bundleVars, work, timeVars, beaconVars, faultVars, history>>

\* The peer a bundle is handed to: its destination, or any other neighbour.
NextHop(n, b, m) ==
  /\ {n, m} \in Links
  /\ b.dst # None /\ b.dst # Null /\ b.dst[1] # n
  /\ b.dst[1] = m \/ {n, b.dst[1]} \notin Links
  /\ [id |-> Id(b), peer |-> m] \notin sent[n]

Travelled(b, wait, delay) ==
  IF b.body.type \in {"request", "response"}
  THEN [b EXCEPT !.elapsed = @ + wait + delay, !.originAge = @ + wait,
                 !.peerAge = IF b.body.type = "response" THEN @ + wait ELSE @]
  ELSE b

\* Faults are bounded, and left out while the clocks are synchronised.
Faulty == ~clocks /\ lost + expired < MaxCoreFaults

Direct(b, m) == b.dst[1] = m /\ "DESTINATION_IS_SINGLETON" \in b.flags

(***************************************************************************)
(* The convergence layer of n writes the bundle, the one of m reads it.    *)
(* outcome "completed": TransferCompletedEvent, a bundle that has reached  *)
(* its node is removed.  "refused": the peer's validation threw.  "lost":  *)
(* the connection broke after the peer had read the bundle; n keeps it.    *)
(***************************************************************************)
TransferBundle(n, m, b, wait, delay, outcome) ==
  LET c == Reread(Travelled(b, wait, delay))
      v == ValidateBlocks(c)
      accepted == Acceptable(m, c) /\ v.accepted
      reports == IF Acceptable(m, c) THEN v.events ELSE <<>>
      arrived == IF accepted THEN <<Received(c, n, FALSE)>> ELSE <<>>
      left == CASE outcome = "lost" -> <<>>
                [] outcome = "refused" -> <<>>
                [] OTHER -> BundleEvent(b, "forwarded", "NO_ADDITIONAL_INFORMATION") \o
                            (IF Direct(b, m) THEN BundleEvent(b, "deleted", "DEPLETED_STORAGE") ELSE <<>>)
  IN /\ b \in store[n] /\ NextHop(n, b, m)
     /\ outcome = "refused" <=> ~accepted
     /\ outcome = "lost" => Faulty
     /\ lost' = IF outcome = "lost" THEN lost + 1 ELSE lost
     /\ queue' = [queue EXCEPT ![m] = RaisedLow(Raised(@, reports), arrived),
                               ![n] = Raised(@, left)]
     /\ store' = IF outcome # "lost" /\ Direct(b, m)
                 THEN [store EXCEPT ![n] = @ \ {b}] ELSE store
     /\ sent' = IF outcome = "lost" \/ Direct(b, m) THEN sent
                ELSE [sent EXCEPT ![n] = @ \cup {[id |-> Id(b), peer |-> m]}]
     /\ UNCHANGED <<load, clocks, version, knownBundles, work, timeVars, beaconVars, expired, history>>

\* The lifetime of a stored bundle ends.
LifetimeEnds(n, b) ==
  /\ b \in store[n] /\ Faulty
  /\ expired' = expired + 1
  /\ store' = [store EXCEPT ![n] = @ \ {b}]
  /\ queue' = [queue EXCEPT ![n] = Raised(@, BundleEvent(b, "deleted", "LIFETIME_EXPIRED"))]
  /\ UNCHANGED <<load, clocks, version, knownBundles, sent, work, timeVars, beaconVars, lost, history>>

-----------------------------------------------------------------------------
(* The event loop of a node.                                               *)

NextEvent(n) == IF queue[n].normal # <<>> THEN Head(queue[n].normal) ELSE Head(queue[n].low)

\* The queues without that event.
Rest(n) == IF queue[n].normal # <<>>
           THEN [queue[n] EXCEPT !.normal = Tail(@)] ELSE [queue[n] EXCEPT !.low = Tail(@)]

HasEvent(n, type) ==
  /\ queue[n].normal # <<>> \/ queue[n].low # <<>>
  /\ NextEvent(n).type = type

\* BundleStorage::store: custody is accepted with the bundle.
Stored(n, b) == IF TakesCustody(b) THEN [b EXCEPT !.cust = n] ELSE b
CustodyEvents(n, b) == IF TakesCustody(b) THEN <<Generated(CustodySignal(n, Fresh(n), b))>> ELSE <<>>
HasRoom(n) == Cardinality(store[n]) < Capacity

\* Seeded error: a bundle is known as long as it is in the storage.
IsKnownStored(n, id) == \E b \in store[n] : Id(b) = id

\* BaseRouter::isKnown
IsKnown(n, id) == id \in knownBundles[n]

\* BaseRouter::raiseEvent(BundleReceivedEvent)
RouterReceived(n) ==
  /\ HasEvent(n, "received")
  /\ LET e == NextEvent(n)
         b == e.b
         new == e.local \/ ~IsKnown(n, Id(b))
         report == BundleEvent(b, "received", "NO_ADDITIONAL_INFORMATION")
     IN IF b.dst = Null
        THEN queue' = [queue EXCEPT ![n] = Rest(n)] /\ UNCHANGED <<store, knownBundles>>
        ELSE IF ~new
        THEN queue' = [queue EXCEPT ![n] = Raised(Rest(n), report)] /\ UNCHANGED <<store, knownBundles>>
        ELSE IF ~HasRoom(n)
        THEN /\ queue' = [queue EXCEPT ![n] =
                            Raised(Rest(n), BundleEvent(b, "deleted", "DEPLETED_STORAGE"))]
             /\ UNCHANGED <<store, knownBundles>>
        ELSE /\ TakesCustody(b) => Free(n) # {}
             /\ store' = [store EXCEPT ![n] = @ \cup {Stored(n, b)}]
             /\ knownBundles' = [knownBundles EXCEPT ![n] = @ \cup {Id(b)}]
             /\ queue' = [queue EXCEPT ![n] =
                            Raised(Rest(n), CustodyEvents(n, b) \o Queued(n, b) \o report)]
  /\ UNCHANGED <<load, clocks, version, sent, work, timeVars, beaconVars, faultVars, history>>

\* BaseRouter::raiseEvent(BundleGeneratedEvent)
RouterGenerated(n) ==
  /\ HasEvent(n, "generated")
  /\ LET b == NextEvent(n).b IN
     /\ knownBundles' = [knownBundles EXCEPT ![n] = @ \cup {Id(b)}]
     /\ store' = IF HasRoom(n) THEN [store EXCEPT ![n] = @ \cup {b}] ELSE store
     /\ queue' = [queue EXCEPT ![n] = IF HasRoom(n) THEN Raised(Rest(n), Queued(n, b)) ELSE Rest(n)]
  /\ UNCHANGED <<load, clocks, version, sent, work, timeVars, beaconVars, faultVars, history>>

FoundIn(n, id) == {b \in store[n] : Id(b) = id}

\* A bundle is consumed at its destination: history only.
Consumed(n, b) ==
  /\ got' = got \cup {[node |-> n, id |-> Id(b)]}
  /\ twice' = IF [node |-> n, id |-> Id(b)] \in got THEN twice \cup {Id(b)} ELSE twice
  /\ UNCHANGED reported

\* SQLiteBundleStorage::releaseCustody; the other storages ignore it.
WithCustodian(S, id, custodian) ==
  {IF Id(b) = id THEN [b EXCEPT !.cust = custodian] ELSE b : b \in S}

(***************************************************************************)
(* QueueBundleEvent.  A bundle for the node itself is consumed by the      *)
(* core: a custody signal releases custody, everything else is reported    *)
(* as not deliverable.  A bundle for a service is queued there.            *)
(***************************************************************************)
BundleQueued(n) ==
  /\ HasEvent(n, "queued")
  /\ LET m == NextEvent(n).b
         here == FoundIn(n, Id(m))
     IN IF m.dst[2] = Itself /\ here # {}
        THEN LET b == CHOOSE b \in here : TRUE
                 signal == b.body.type = "signal"
             IN /\ queue' = [queue EXCEPT ![n] = Raised(Rest(n),
                     IF signal THEN BundleEvent(b, "delivered", "NO_ADDITIONAL_INFORMATION")
                     ELSE BundleEvent(b, "deleted", "DESTINATION_ENDPOINT_ID_UNINTELLIGIBLE"))]
                /\ store' = [store EXCEPT ![n] =
                     IF signal THEN WithCustodian(@ \ here, b.body.of, b.src[1]) ELSE @ \ here]
                /\ Consumed(n, b)
                /\ UNCHANGED work
        ELSE /\ work' = IF m.dst[2] \in Services
                        THEN [work EXCEPT ![n][m.dst[2]] = Append(@, Id(m))] ELSE work
             /\ queue' = [queue EXCEPT ![n] = Rest(n)]
             /\ UNCHANGED <<store, history>>
  /\ UNCHANGED <<load, clocks, version, knownBundles, sent, timeVars, beaconVars, faultVars>>

\* StatusReportGenerator::raiseEvent
ReportGenerated(n) ==
  /\ HasEvent(n, "bundle")
  /\ LET e == NextEvent(n) IN
     /\ Free(n) # {}
     /\ queue' = [queue EXCEPT ![n] = Raised(Rest(n),
                    <<Generated(StatusReport(n, Fresh(n), e.b, e.action, e.reason))>>)]
     /\ reported' = reported \cup {[node |-> n, action |-> e.action, id |-> Id(e.b)]}
     /\ UNCHANGED <<got, twice>>
  /\ UNCHANGED <<load, clocks, version, bundleVars, work, timeVars, beaconVars, faultVars>>

-----------------------------------------------------------------------------
(* The services.  AbstractWorkerAsync::run takes a bundle of its queue,    *)
(* calls callbackBundleReceived, reports the delivery and removes it.      *)

Swapped(b) == [b EXCEPT !.src = b.dst, !.dst = b.src]

\* TIMESYNC_REQUEST: the request becomes the response, "wait" later.
Response(n, b, wait) ==
  [Swapped(b) EXCEPT
     !.num = Fresh(n), !.elapsed = @ + wait, !.originAge = @ + wait, !.peerAge = 0,
     !.body = [type |-> "response", originErr |-> b.body.originErr,
               peerErr |-> clock[n].err, level |-> clock[n].level, peerTime |-> b.elapsed + wait]]

\* EchoWorker::callbackBundleReceived
Echoed(n, b) ==
  NewBundle(<<n, "echo">>, b.src, Fresh(n), {"DESTINATION_IS_SINGLETON"}, [type |-> "data"])

\* The bundles a callback generates.
Callback(n, s, b, wait) ==
  CASE s = "echo" -> <<Generated(Echoed(n, b))>>
    [] s = "dtntp" /\ b.body.type = "request" /\ b.src[1] # n -> <<Generated(Response(n, b, wait))>>
    [] OTHER -> <<>>

Unpacked(s, b) ==
  IF s = "bundle-in-bundle" /\ b.body.type = "capsule"
  THEN [i \in DOMAIN b.body.bundles |-> Received(b.body.bundles[i], b.src, FALSE)]
  ELSE <<>>

Answered(n, s, b) == s = "dtntp" /\ b.body.type = "response" /\ b.src[1] # n

Serve(n, s, wait) ==
  /\ work[n][s] # <<>>
  /\ work' = [work EXCEPT ![n][s] = Tail(@)]
  /\ LET here == FoundIn(n, Head(work[n][s])) IN
     IF here = {}
     THEN UNCHANGED <<store, queue, clock, black, history>>
     ELSE LET b == CHOOSE b \in here : TRUE IN
          /\ Free(n) # {}
          /\ queue' = [queue EXCEPT ![n] = RaisedLow(
                 Raised(@, Callback(n, s, b, wait) \o
                           BundleEvent(b, "delivered", "NO_ADDITIONAL_INFORMATION")),
                 Unpacked(s, b))]
          /\ clock' = IF Answered(n, s, b)
                      THEN [clock EXCEPT ![n] = Sync(@, n \in Reference, b.body, b)] ELSE clock
          /\ black' = IF Answered(n, s, b) THEN [black EXCEPT ![n][b.src[1]] = 0] ELSE black
          /\ store' = [store EXCEPT ![n] = @ \ here]
          /\ Consumed(n, b)
  /\ UNCHANGED <<load, clocks, version, knownBundles, sent, seconds, beaconVars, faultVars>>

-----------------------------------------------------------------------------
(* Discovery and the clocks.                                               *)

\* DTNTPWorker::update puts the quality of the clock into the beacon.
AnnouncementOf(n) ==
  [eid |-> n, sn |-> 0,
   services |-> <<tcpcl, [name |-> "dtntp", param |-> clock[n].level]>>]

Beacon(n) == {[from |-> n, to |-> m, frame |-> WriteAnnouncement(version[n], AnnouncementOf(n))] :
                m \in {m \in Nodes : {n, m} \in Multicast}}

\* DiscoveryAgent::timeout: a beacon in every second.
Announce(n) ==
  /\ clocks /\ n \in Announces
  /\ n \notin announced /\ ~\E be \in beacons : be.from = n
  /\ announced' = announced \cup {n}
  /\ beacons' = beacons \cup Beacon(n)
  /\ UNCHANGED <<load, clocks, version, bundleVars, switchVars, timeVars, replied, faultVars, history>>

\* DiscoveryAgent::received: an agent that does not announce replies once in a second.
Replies(m) == m \notin Announces /\ m \notin replied

\* IPNDAgent::componentRun
Hear(be) ==
  LET m == be.to IN
  /\ be \in beacons
  /\ \/ \E a \in Heard(version[m], be.frame) :
          queue' = [queue EXCEPT ![m] =
                      Raised(@, <<[type |-> "info", from |-> be.from, node |-> NodeOf(a)]>>)]
     \/ Heard(version[m], be.frame) = {} /\ UNCHANGED queue
  /\ beacons' = (beacons \ {be}) \cup (IF Replies(m) THEN Beacon(m) ELSE {})
  /\ replied' = IF Replies(m) THEN replied \cup {m} ELSE replied
  /\ UNCHANGED <<load, clocks, version, bundleVars, work, timeVars, announced, faultVars, history>>

\* DTNTPWorker::raiseEvent(NODE_INFO_UPDATED)
NodeInfo(n) ==
  /\ HasEvent(n, "info")
  /\ LET node == NextEvent(n).node
         better == {a \in node.attrs : a.name = "dtntp" /\ IsBetter(a.param, clock[n].level)}
     IN IF better = {} \/ black[n][node.eid] > 0
        THEN queue' = [queue EXCEPT ![n] = Rest(n)] /\ UNCHANGED black
        ELSE /\ Free(n) # {}
             /\ black' = [black EXCEPT ![n][node.eid] = Blacklist]
             /\ queue' = [queue EXCEPT ![n] = Raised(Rest(n),
                   <<Generated(NewBundle(<<n, "dtntp">>, <<node.eid, "dtntp">>, Fresh(n),
                       {"DESTINATION_IS_SINGLETON"}, [type |-> "request", originErr |-> clock[n].err]))>>)]
  /\ UNCHANGED <<load, clocks, version, bundleVars, work, clock, seconds, beaconVars, faultVars, history>>

\* WallClock::timeout.  A second passes for all nodes at once, and it is long
\* enough for the events and beacons at hand, not for transfers and services.
WallClock ==
  /\ clocks /\ seconds < MaxSeconds
  /\ beacons = {} /\ \A n \in Nodes : Pending(n) = {}
  /\ seconds' = seconds + 1 /\ announced' = {}
  /\ queue' = [n \in Nodes |-> Raised(queue[n], <<[type |-> "tick"]>>)]
  /\ UNCHANGED <<load, clocks, version, bundleVars, work, clock, black, beacons, replied, faultVars, history>>

\* Bundles nobody has any more: their lifetime has ended.
Gone == {id \in Live : \A n \in Nodes : id \notin Ids(n)}

\* TIME_SECOND_TICK in BaseRouter and in DTNTPWorker
TimeTick(n) ==
  /\ HasEvent(n, "tick")
  /\ queue' = [queue EXCEPT ![n] = Rest(n)]
  /\ clock' = [clock EXCEPT ![n] = Ticked(@, n \in Reference, TRUE)]
  /\ black' = [black EXCEPT ![n] = [m \in Nodes |-> IF @[m] = 0 THEN 0 ELSE @[m] - 1]]
  /\ replied' = replied \ {n}
  /\ knownBundles' = [knownBundles EXCEPT ![n] = @ \ Gone]
  /\ got' = {g \in got : g.node # n \/ g.id \notin Gone}
  /\ UNCHANGED <<load, clocks, version, store, sent, work, seconds, beacons, announced, faultVars, twice, reported>>

-----------------------------------------------------------------------------
Transmit(n, m, outcome) ==
  \E b \in store[n] : \E w \in Waits, d \in Delays :
    /\ b.body.type \notin {"request", "response"} => w = CHOOSE x \in Waits : TRUE
    /\ b.body.type \notin {"request", "response"} => d = CHOOSE x \in Delays : TRUE
    /\ TransferBundle(n, m, b, w, d, outcome)

Handle(n) ==
  \/ RouterReceived(n) \/ RouterGenerated(n) \/ BundleQueued(n)
  \/ ReportGenerated(n) \/ NodeInfo(n) \/ TimeTick(n)

Progress ==
  \/ ApplicationSends \/ WallClock
  \/ \E n, m \in Nodes, o \in {"completed", "refused"} : Transmit(n, m, o)
  \/ \E n \in Nodes : Handle(n) \/ Announce(n)
  \/ \E n \in Nodes, s \in Services, w \in Waits : Serve(n, s, w)
  \/ \E be \in beacons : Hear(be)

CoreFault ==
  \/ \E n, m \in Nodes : Transmit(n, m, "lost")
  \/ \E n \in Nodes : \E b \in store[n] : LifetimeEnds(n, b)

CoreNext == Progress \/ CoreFault

CoreSpec == CoreInit /\ [][CoreNext]_coreVars

(***************************************************************************)
(* Fairness: the threads of the daemons run.  Every behaviour of the       *)
(* bounded model is finite, so that it is enough that something goes on    *)
(* while anything can; faults need not happen.                             *)
(***************************************************************************)
FairCoreSpec == CoreSpec /\ WF_coreVars(Progress)

-----------------------------------------------------------------------------
(* Properties.                                                             *)

(* No service and no node gets a bundle twice, although a transfer that    *)
(* broke after the bundle was read is repeated.                            *)
DeliveredOnce == twice = {}

Sent == UNION {ToSet(w) : w \in Workloads}

\* A record of a bundle, whose capsule has bundles of C.
IsBundle(b, C) ==
  /\ DOMAIN b = {"src", "dst", "rep", "cust", "num", "frag", "flags", "exts", "traits",
                 "body", "elapsed", "originAge", "peerAge"}
  /\ b.exts \in Seq(ToSet(b.exts))
  /\ b.body.type = "capsule" =>
       b.body.bundles \in Seq(ToSet(b.body.bundles)) /\ ToSet(b.body.bundles) \subseteq C

(* What the applications send has IDs of its own: each bundle, whether it  *)
(* is sent as it is or in a capsule (C), has another one than the daemons  *)
(* give, and none is sent twice.                                           *)
IdsAreUnique(C) ==
  /\ \A b \in Sent \cup C : IsBundle(b, C) /\ b.num \notin 1..Numbers
  /\ \A b \in Sent : b.src[1] \in Nodes /\ \A c \in C : Id(b) # Id(c)
  /\ \A w \in Workloads : /\ w \in Seq(ToSet(w))
                          /\ \A i, j \in DOMAIN w : Id(w[i]) = Id(w[j]) => i = j

Asked(b, n) ==
  /\ "REQUEST_REPORT_OF_BUNDLE_DELIVERY" \in b.flags
  /\ b.dst[1] = n /\ b.dst[2] \in Services

(* A bundle that asks for it and is delivered to a service is reported to  *)
(* the endpoint it names: the report arrives there, unless it expires.     *)
DeliveredIsReported ==
  \A b \in {b \in Sent : Asked(b, b.dst[1])} :
    [node |-> b.dst[1], id |-> Id(b)] \in got ~>
      \/ expired > 0
      \/ \E r \in store[b.rep[1]] : r.dst = b.rep /\ r.body.type = "report" /\ r.body.of = Id(b)

(* A clock that is adjusted takes over the time of the peer up to half the *)
(* difference of two delays, however long the bundles of the exchange have *)
(* waited in the nodes, unless it was adjusted between the request and the *)
(* response.                                                               *)
Spread == Max({(d - e + 1) \div 2 : d, e \in Delays})

SyncIsAccurate ==
  [][\A n \in Nodes : clock'[n].err # clock[n].err =>
       \A b \in FoundIn(n, Head(work[n]["dtntp"])) :
         b.body.originErr = clock[n].err =>
           clock'[n].err - b.body.peerErr \in -Spread..Spread]_coreVars

(* A node that hears the beacons of a reference clock, in a version that   *)
(* carries services, is synchronised: the beacon, the request and the      *)
(* response all find their way.                                            *)
ReferenceIsFollowed ==
  \A n \in Nodes \ Reference :
    (clocks /\ (\E r \in Reference : {n, r} \in Multicast) /\ version[n] # "DTND_IPDISCOVERY") ~>
      clock[n].level < Worst
=============================================================================
