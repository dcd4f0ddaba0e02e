------------------------- MODULE ConnectionManager -------------------------
(***************************************************************************)
(* The neighbours of a daemon: nodes are discovered by announcements,      *)
(* configured statically or known by a TCP connection; each source adds    *)
(* and removes URIs of the node (core/Node, net/ConnectionManager).  A     *)
(* node without URIs and attributes is dropped, which the routing learns   *)
(* by events.  TCP connections are opened for jobs, automatically or       *)
(* immediately, or accepted, and report UP and DOWN by events.             *)
(*                                                                         *)
(* All events go through the FIFO queue of the event switch and are        *)
(* handled by its thread; announcements, connections, management commands  *)
(* and jobs are steps of other threads in between.                         *)
(***************************************************************************)
EXTENDS Queues

CONSTANTS
  Peers,      \* the other nodes
  Inbound,    \* bound: names for accepted connections
  Services,   \* for each peer the [proto, value] pairs it announces
  Static,     \* for each peer the [proto, value] pairs of the configuration
  Immediate,  \* static nodes with the option "immediately"
  Dead,       \* addresses at which nobody listens
  Layers,     \* protocols of the convergence layers, in the order of _cl
  Timeout,    \* seconds until a discovered URI expires
  Interval,   \* auto-connect interval, 0: off
  Idle,       \* TRUE if connections may be closed while the peer is present
  Punctual,   \* TRUE if every present peer is heard of once a second
  MaxEvents,  \* bound: events queued before threads other than the handler wait
  None

Protocols == {"tcp", "udp", "lowpan", "attr"}
Unspecified == 0   \* the address of an accepted connection, "0.0.0.0"
Entry == [proto : Protocols, value : Nat]

ASSUME ManagerAssumption ==
  /\ Peers \cap Inbound = {} /\ None \notin Peers \cup Protocols
  /\ Services \in [Peers -> SUBSET Entry] /\ Static \in [Peers -> SUBSET Entry]
  /\ Immediate \subseteq Peers
  /\ Layers \in Seq(Protocols \ {"attr"})
  /\ Timeout \in Nat \ {0} /\ Interval \in Nat /\ MaxEvents \in Nat
  /\ Idle \in BOOLEAN /\ Punctual \in BOOLEAN

\* Node::URI; an attribute is a URI with protocol "attr".  Two URIs are the
\* same if they agree in everything but their expiry (0: never).
URI == [type : {"connected", "discovered", "static"}, proto : Protocols, value : Nat]
Timed == [uri : URI, left : 0..Timeout]
NodeInfo == SUBSET Timed

VARIABLES
  list,      \* _nodes: the order of the nodes
  uris,      \* _uri_list and _attr_list of each node in the list
  events,    \* the queue of the event switch
  announced, \* nodes whose last handled NodeEvent was NODE_AVAILABLE
  conns,     \* _connections of the TCP convergence layer
  conn,      \* state, peer and node of each connection
  next,      \* seconds until the next auto-connect
  present    \* environment: the peers in reach

managerVars == <<list, uris, events, announced, conns, conn, next, present>>

Elements(s) == {s[i] : i \in 1..Len(s)}
Conns == Peers \cup Inbound
ConnStates == {"none", "setup", "handshake", "up", "closing"}

EventType == [kind : {"info", "available", "unavailable", "up", "down"}, peer : Peers,
              node : NodeInfo]
ConnType == [state : ConnStates, peer : Peers \cup {None}, node : NodeInfo]

\* The type invariant; a node is in the list once, and has no URIs if it is not.
ManagerTypeOK ==
  /\ list \in Seq(Peers) /\ \A i, j \in 1..Len(list) : list[i] = list[j] => i = j
  /\ uris \in [Peers -> NodeInfo] /\ \A p \in Peers \ Elements(list) : uris[p] = {}
  /\ events \in Seq(EventType)
  /\ announced \subseteq Peers /\ present \subseteq Peers
  /\ conns \subseteq Conns /\ conn \in [Conns -> ConnType]
  /\ next \in 0..Interval

NoConn == [state |-> "none", peer |-> None, node |-> {}]

ManagerInit ==
  /\ list = <<>> /\ uris = [p \in Peers |-> {}]
  /\ events = <<>> /\ announced = {}
  /\ conns = {} /\ conn = [c \in Conns |-> NoConn]
  /\ next = Interval
  /\ present = {}

-----------------------------------------------------------------------------
(* core/Node                                                               *)

Uris(n) == {x.uri : x \in n}

Plus(n, other)  == {x \in n : x.uri \notin Uris(other)} \cup other

Minus(n, other) == {x \in n : x.uri \notin Uris(other)}

Has(n, proto) == \E x \in n : x.uri.proto = proto

IsAvailable(n) == \E x \in n : x.uri.proto # "attr"

\* Node::expire, once a second
Expire(n) ==
  {[x EXCEPT !.left = IF @ = 0 THEN 0 ELSE @ - 1] : x \in {y \in n : y.left # 1}}

Connected(v) ==
  {[uri |-> [type |-> "connected", proto |-> "tcp", value |-> v], left |-> 0]}

ConnectedTo(n) == \E x \in n : x.uri.type = "connected" /\ x.uri.proto = "tcp"

Typed(type, entries, left) ==
  {[uri |-> [type |-> type, proto |-> e.proto, value |-> e.value], left |-> left] : e \in entries}

\* The order of URIs of one protocol
Rank(u) == CASE u.type = "connected" -> 0 [] u.type = "discovered" -> 1 [] u.type = "static" -> 2
Before(u, v) == Rank(u) < Rank(v) \/ (u.type = v.type /\ u.value < v.value)

\* node.get(CONN_TCPIP).front()
FrontTCP(n) ==
  CHOOSE u \in Uris(n) : /\ u.proto = "tcp"
                         /\ \A v \in Uris(n) \ {u} : v.proto = "tcp" => Before(u, v)

-----------------------------------------------------------------------------
(* Opening connections                                                     *)

\* The protocol of the first convergence layer the node can be reached with
LayerOf(n) ==
  LET ok == {i \in 1..Len(Layers) : Has(n, Layers[i])} IN
  IF ok = {} THEN None ELSE Layers[CHOOSE i \in ok : \A j \in ok : i <= j]

Matching(cs, p) == \E c \in conns : cs[c].peer = p

\* ConnectionManager::open or queue of node n of peer p, then
\* TCPConvergenceLayer::open or queue: only this layer has connections.
Opened(S, p, n) ==
  IF LayerOf(n) = "tcp" /\ ~Matching(conn, p) THEN S \cup {[peer |-> p, node |-> n]} ELSE S

\* the connections S are created
Create(S) ==
  /\ conns' = conns \cup {s.peer : s \in S}
  /\ conn' = [c \in Conns |->
       IF \E s \in S : s.peer = c
         THEN LET s == CHOOSE s \in S : s.peer = c IN
              [state |-> "setup", peer |-> s.peer, node |-> s.node]
         ELSE conn[c]]

Event(kind, p, n) == [kind |-> kind, peer |-> p, node |-> n]
Room == Len(events) < MaxEvents

\* BundleCore::transferTo for a neighbour the routing knows
Queue(p) ==
  /\ p \in announced \cap Elements(list)
  /\ LayerOf(uris[p]) = "tcp" /\ ~Matching(conn, p)
  /\ Create({[peer |-> p, node |-> uris[p]]})
  /\ UNCHANGED <<list, uris, events, announced, next, present>>

-----------------------------------------------------------------------------
(* The handlers of ConnectionManager::raiseEvent                           *)

\* A node or some of its URIs become known.
Add(p, n, es) ==
  IF p \in Elements(list)
    THEN /\ uris' = [uris EXCEPT ![p] = Plus(@, n)]
         /\ events' = es /\ UNCHANGED list
    ELSE /\ list' = Append(list, p)
         /\ uris' = [uris EXCEPT ![p] = n]
         /\ events' = Append(es, Event("available", p, n))

\* Seeded error: the URIs of a closed connection stay.
RemoveNothing(p, n) == UNCHANGED uris

Remove(p, n) == uris' = [uris EXCEPT ![p] = Minus(@, n)]

IsNext(kind) == events # <<>> /\ Head(events).kind = kind

\* NODE_INFO_UPDATED
Discovered ==
  /\ IsNext("info")
  /\ Add(Head(events).peer, Head(events).node, Tail(events))
  /\ UNCHANGED <<announced, conns, conn, next, present>>

\* CONNECTION_UP
ConnectionUp ==
  /\ IsNext("up")
  /\ Add(Head(events).peer, Head(events).node, Tail(events))
  /\ UNCHANGED <<announced, conns, conn, next, present>>

\* CONNECTION_DOWN
ConnectionDown ==
  /\ IsNext("down")
  /\ Remove(Head(events).peer, Head(events).node)
  /\ events' = Tail(events)
  /\ UNCHANGED <<list, announced, conns, conn, next, present>>

\* NODE_AVAILABLE: the routing learns of the node, and a node with the
\* option "immediately" is connected.
NodeIsAvailable ==
  /\ IsNext("available")
  /\ LET p == Head(events).peer  n == Head(events).node IN
       /\ announced' = announced \cup {p}
       /\ Create(IF p \in Immediate /\ (\E x \in n : x.uri.type = "static")
                   THEN Opened({}, p, n) ELSE {})
  /\ events' = Tail(events)
  /\ UNCHANGED <<list, uris, next, present>>

NodeIsUnavailable ==
  /\ IsNext("unavailable")
  /\ announced' = announced \ {Head(events).peer}
  /\ events' = Tail(events)
  /\ UNCHANGED <<list, uris, conns, conn, next, present>>

\* check_autoconnect: the nodes without a TCP connection, in their order.
\* open() throws for a node no layer can reach; the ones behind it are left.
AutoConnect(nodes, us) ==
  LET want == Within(nodes, {p \in Peers : IsAvailable(us[p]) /\ ~ConnectedTo(us[p])})
      tried == {i \in 1..Len(want) : \A j \in 1..i : LayerOf(us[want[j]]) # None}
  IN  UNION {Opened({}, want[i], us[want[i]]) : i \in tried}

\* TIME_SECOND_TICK: check_unavailable and check_autoconnect.  The tick is
\* handled at once, possibly before events that were queued earlier.
SecondTick ==
  LET us   == [p \in Peers |-> Expire(uris[p])]
      gone == Within(list, {p \in Peers : us[p] = {}})
      kept == Within(list, {p \in Peers : us[p] # {}})
  IN
  /\ Room
  /\ Punctual => \A p \in present : Typed("discovered", Services[p], Timeout) \subseteq uris[p]
  /\ uris' = us
  /\ list' = kept
  /\ events' = events \o [i \in 1..Len(gone) |-> Event("unavailable", gone[i], {})]
  /\ IF next > 0
       THEN next' = next - 1 /\ UNCHANGED <<conns, conn>>
       ELSE next' = Interval /\ Create(IF Interval = 0 THEN {} ELSE AutoConnect(kept, us))
  /\ UNCHANGED <<announced, present>>

-----------------------------------------------------------------------------
(* Other threads                                                           *)

\* DiscoveryAgent::received
Announcement(p) ==
  /\ p \in present /\ Room
  /\ events' = Append(events, Event("info", p, Typed("discovered", Services[p], Timeout)))
  /\ UNCHANGED <<list, uris, announced, conns, conn, next, present>>

\* addConnection at the start, addConnection and removeConnection later by
\* the management interface
AddConnection(p) ==
  /\ Static[p] # {} /\ Room
  /\ ~(Uris(Typed("static", Static[p], 0)) \subseteq Uris(uris[p]))
  /\ Add(p, Typed("static", Static[p], 0), events)
  /\ UNCHANGED <<announced, conns, conn, next, present>>

RemoveConnection(p) ==
  /\ Static[p] # {} /\ p \in Elements(list)
  /\ Remove(p, Typed("static", Static[p], 0))
  /\ UNCHANGED <<list, events, announced, conns, conn, next, present>>

Close(c) ==
  /\ conns' = conns \ {c}
  /\ conn' = [conn EXCEPT ![c] = NoConn]

\* Seeded error: a connection that could not be set up stays in the list.
SetupLeavesConnection(c) ==
  /\ c \in Peers /\ conn[c].state = "setup"
  /\ LET u == FrontTCP(conn[c].node) IN
       /\ conn' = [conn EXCEPT ![c] =
            IF conn[c].peer \in present /\ u.value \notin Dead \cup {Unspecified}
              THEN [@ EXCEPT !.state = "handshake", !.node = Connected(u.value)]
              ELSE [@ EXCEPT !.state = "none"]]
       /\ UNCHANGED conns
  /\ UNCHANGED <<list, uris, events, announced, next, present>>

\* TCPConnection::setup: every attempt goes to the first address.
Setup(c) ==
  /\ c \in Peers /\ conn[c].state = "setup"
  /\ LET u == FrontTCP(conn[c].node) IN
       IF conn[c].peer \in present /\ u.value \notin Dead \cup {Unspecified}
         THEN /\ conn' = [conn EXCEPT ![c].state = "handshake", ![c].node = Connected(u.value)]
              /\ UNCHANGED conns
         ELSE Close(c)
  /\ UNCHANGED <<list, uris, events, announced, next, present>>

\* TCPConvergenceLayer::componentRun: the peer is known after the handshake
\* only, until then the connection matches no node.
Accept(c) ==
  /\ c \in Inbound /\ conn[c].state = "none"
  /\ conns' = conns \cup {c}
  /\ conn' = [conn EXCEPT ![c] = [state |-> "handshake", peer |-> None, node |-> Connected(Unspecified)]]
  /\ UNCHANGED <<list, uris, events, announced, next, present>>

\* eventConnectionUp
Handshake(c, p) ==
  /\ conn[c].state = "handshake" /\ conn[c].peer \in {p, None} /\ p \in present /\ Room
  /\ conn' = [conn EXCEPT ![c].state = "up", ![c].peer = p]
  /\ events' = Append(events, Event("up", p, conn[c].node))
  /\ UNCHANGED <<list, uris, announced, conns, next, present>>

\* The handshake fails: no event.
HandshakeFails(c) ==
  /\ conn[c].state = "handshake" /\ conn[c].peer \notin present
  /\ Close(c)
  /\ UNCHANGED <<list, uris, events, announced, next, present>>

\* Seeded error: an accepted connection goes down without an event.
DisconnectInboundSilently(c) ==
  /\ conn[c].state = "up" /\ Room
  /\ Idle \/ conn[c].peer \notin present
  /\ conn' = [conn EXCEPT ![c].state = "closing"]
  /\ events' = IF c \in Inbound THEN events ELSE Append(events, Event("down", conn[c].peer, conn[c].node))
  /\ UNCHANGED <<list, uris, announced, conns, next, present>>

\* eventConnectionDown: the peer is gone or the connection is idle.
Disconnect(c) ==
  /\ conn[c].state = "up" /\ Room
  /\ Idle \/ conn[c].peer \notin present
  /\ conn' = [conn EXCEPT ![c].state = "closing"]
  /\ events' = Append(events, Event("down", conn[c].peer, conn[c].node))
  /\ UNCHANGED <<list, uris, announced, conns, next, present>>

\* finally(): the connection leaves the list of the convergence layer.
Finally(c) ==
  /\ conn[c].state = "closing"
  /\ Close(c)
  /\ UNCHANGED <<list, uris, events, announced, next, present>>

\* A peer comes into reach or leaves.
Move(p) ==
  /\ present' = IF p \in present THEN present \ {p} ELSE present \cup {p}
  /\ UNCHANGED <<list, uris, events, announced, conns, conn, next>>

-----------------------------------------------------------------------------
HandleEvent == \/ Discovered \/ ConnectionUp \/ ConnectionDown
               \/ NodeIsAvailable \/ NodeIsUnavailable

ManagerNext ==
  \/ HandleEvent \/ SecondTick
  \/ \E p \in Peers : \/ Queue(p) \/ Announcement(p) \/ Move(p)
                      \/ AddConnection(p) \/ RemoveConnection(p)
  \/ \E c \in Conns : \/ Setup(c) \/ Accept(c) \/ HandshakeFails(c)
                      \/ Disconnect(c) \/ Finally(c)
                      \/ \E p \in Peers : Handshake(c, p)

ManagerSpec == ManagerInit /\ [][ManagerNext]_managerVars

\* The event thread and the clock run, the threads of the connections too;
\* a connection to an absent peer breaks and a present peer announces itself.
FairManagerSpec ==
  /\ ManagerSpec
  /\ WF_managerVars(HandleEvent) /\ SF_managerVars(SecondTick)
  /\ \A p \in Peers : SF_managerVars(Announcement(p))
  /\ \A c \in Conns : /\ WF_managerVars(Setup(c)) /\ WF_managerVars(HandshakeFails(c)) /\ WF_managerVars(Finally(c))
                      /\ SF_managerVars(Disconnect(c) /\ conn[c].peer \notin present)
                      /\ \A p \in Peers : SF_managerVars(Handshake(c, p))

-----------------------------------------------------------------------------
(* Properties.                                                             *)

\* Whether the routing has p for a neighbour after the first k of the events es,
\* if b says so before them.
Told(es, b, p, k) ==
  LET S == {i \in 1..k : es[i].peer = p /\ es[i].kind \in {"available", "unavailable"}} IN
  IF S = {} THEN b ELSE es[CHOOSE i \in S : \A j \in S : j <= i].kind = "available"

\* The routing will know exactly the nodes of the list when it has handled
\* the events on their way, and each announcement changes what it knows: an
\* available node is not announced again, a dropped one is reported once.
AnnouncedIsListed ==
  \A p \in Peers :
    /\ Told(events, p \in announced, p, Len(events)) <=> p \in Elements(list)
    /\ \A i \in 1..Len(events) : events[i].peer = p =>
         /\ events[i].kind = "available" => ~Told(events, p \in announced, p, i - 1)
         /\ events[i].kind = "unavailable" => Told(events, p \in announced, p, i - 1)

Pending(kind, p, n) == \E i \in 1..Len(events) : events[i] = Event(kind, p, n)

\* A URI of type connected belongs to a connection that is up, or the event
\* that will remove it is on its way: no node stays a neighbour because of
\* a connection it no longer has.
ConnectedIsUp ==
  \A p \in Peers : \A x \in uris[p] : x.uri.type = "connected" =>
    \/ \E c \in conns : conn[c].state = "up" /\ conn[c].peer = p /\ x \in conn[c].node
    \/ Pending("down", p, {x})

\* A node with a connection is available once its event has been handled
\* ("returns true, if at least one connection is available").
UpIsAvailable ==
  \A c \in conns : conn[c].state = "up" =>
    \/ Pending("up", conn[c].peer, conn[c].node)
    \/ IsAvailable(uris[conn[c].peer])

\* The URIs of a node and the connections to it agree in both directions, as
\* soon as the events on their way have been handled, and so do the list of
\* nodes and what the routing was told of it.
NodesMatchConnections == ConnectedIsUp /\ UpIsAvailable /\ AnnouncedIsListed

\* A peer that is gone and not, or no longer, configured is a neighbour of
\* the routing no longer.
AbsentIsDropped ==
  \A p \in Peers :
    <>[](p \notin present /\ \A x \in uris[p] : x.uri.type # "static")
      => <>[](p \notin announced)

\* With auto-connect a present peer that announces a TCP address at which it
\* listens has a connection again and again ("keeps connections up").
PresentIsConnected ==
  \A p \in Peers :
    (\E e \in Services[p] : e.proto = "tcp" /\ e.value \notin Dead) =>
      (<>[](p \in present) => []<>(\E c \in conns : conn[c].state = "up" /\ conn[c].peer = p))
=============================================================================
