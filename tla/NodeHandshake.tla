--------------------------- MODULE NodeHandshake ---------------------------
(***************************************************************************)
(* Epidemic routing between several nodes: each node asks its neighbours   *)
(* for their summary and purge vectors (NodeHandshakeExtension), stores    *)
(* them in its neighbour database and forwards the bundles a neighbour     *)
(* does not have (EpidemicRoutingExtension); bundles for the neighbour     *)
(* itself go the way of the neighbour routing extension.                   *)
(*                                                                         *)
(* Requests and responses are bundles themselves: their arrival and the    *)
(* end of their transfer trigger searches like those of any bundle, and    *)
(* the worker thread of the handshake endpoint handles them later.  A      *)
(* vector is the set of bundles in it: the false positives of a bloom      *)
(* filter are left out.  Transfer slots are the subject of Routing; here a *)
(* transfer ends or is lost as a whole.                                    *)
(***************************************************************************)
EXTENDS Naturals, Sequences, FiniteSets

CONSTANTS
  Nodes,     \* the nodes of the network
  Links,     \* ordered pairs of nodes that can become neighbours
  Bundles,   \* the bundles, all with DESTINATION_IS_SINGLETON
  Source,    \* the node that creates each bundle
  Dest,      \* the node each bundle is destined to
  MaxLosses, \* bound: lost transfers
  MaxTicks,  \* bound: expired filters, ended minutes and vanished neighbours
  MaxTasks   \* bound: queued searches of one neighbour; a further one would
             \* only repeat the last of them

ASSUME HandshakeAssumption ==
  /\ Links \subseteq Nodes \X Nodes
  /\ \A l \in Links : l[1] # l[2]
  /\ Source \in [Bundles -> Nodes] /\ Dest \in [Bundles -> Nodes]
  /\ \A b \in Bundles : Source[b] # Dest[b]
  /\ MaxLosses \in Nat /\ MaxTicks \in Nat /\ MaxTasks \in Nat \ {0}

\* BloomFilterSummaryVector::identifier and BloomFilterPurgeVector::identifier
SummaryId == 1
PurgeId   == 1

VARIABLES
  storage, known, purged, \* of each node
  entries,  \* pairs <<n, m>>: m has an entry in n's neighbour database
  avail,    \* those entries whose filter is FILTER_AVAILABLE
  filter,   \* _filter of each entry
  summary,  \* _summary of each entry
  transit,  \* bundles in transit to each neighbour
  black,    \* _blacklist of the handshake endpoint: asked within 60 seconds
  asked,    \* HANDSHAKE_REQUEST events on their way
  tasks,    \* SearchNextBundleTasks of each neighbour
  net,      \* bundles on the links
  inbox,    \* _receive_bundles of the handshake worker
  told,     \* history: the vectors of the last answer that was processed
  losses, ticks \* bounds

dbVars   == <<entries, avail, filter, summary>>
nodeVars == <<storage, known, purged>>
vars == <<nodeVars, dbVars, transit, black, asked, tasks, net, inbox, told, losses, ticks>>

Item     == [id : {SummaryId, PurgeId}, vec : SUBSET Bundles]
Request(n, m, ids) == [kind |-> "request", from |-> n, to |-> m, ids |-> ids]
Response(n, m, items, k, g) ==
  [kind |-> "response", from |-> n, to |-> m, items |-> items, known |-> k, purged |-> g]
Carry(n, m, b) == [kind |-> "bundle", from |-> n, to |-> m, bundle |-> b]

Messages ==
       [kind : {"request"}, from : Nodes, to : Nodes, ids : SUBSET {SummaryId, PurgeId}]
  \cup [kind : {"response"}, from : Nodes, to : Nodes, items : Seq(Item),
        known : SUBSET Bundles, purged : SUBSET Bundles]
  \cup [kind : {"bundle"}, from : Nodes, to : Nodes, bundle : Bundles]

\* The type invariant.
TypeOK ==
  /\ storage \in [Nodes -> SUBSET Bundles]
  /\ known \in [Nodes -> SUBSET Bundles]
  /\ purged \in [Nodes -> SUBSET Bundles]
  /\ entries \subseteq Links /\ avail \subseteq entries
  /\ black \subseteq Links /\ asked \subseteq Links
  /\ filter \in [Links -> SUBSET Bundles]
  /\ summary \in [Links -> SUBSET Bundles]
  /\ transit \in [Links -> SUBSET Bundles]
  /\ tasks \in [Links -> 0..MaxTasks]
  /\ \A x \in net : x \in Messages
  /\ inbox \in [Nodes -> Seq(Messages)]
  /\ told \in [Links -> [known : SUBSET Bundles, purged : SUBSET Bundles]]
  /\ losses \in 0..MaxLosses /\ ticks \in 0..MaxTicks

Init ==
  /\ storage = [n \in Nodes |-> {}] /\ known = [n \in Nodes |-> {}]
  /\ purged = [n \in Nodes |-> {}]
  /\ entries = {} /\ avail = {} /\ black = {} /\ asked = {}
  /\ filter = [l \in Links |-> {}] /\ summary = [l \in Links |-> {}]
  /\ transit = [l \in Links |-> {}] /\ tasks = [l \in Links |-> 0]
  /\ net = {} /\ inbox = [n \in Nodes |-> <<>>]
  /\ told = [l \in Links |-> [known |-> {}, purged |-> {}]]
  /\ losses = 0 /\ ticks = 0

Neighbors(n) == {l \in entries : l[1] = n}

\* One more SearchNextBundleTask in a queue of k
Queued(k) == IF k < MaxTasks THEN k + 1 ELSE k

\* A QueueBundleEvent makes node n search for each of its neighbours.
SearchAll(n) ==
  [l \in Links |-> IF l \in Neighbors(n) THEN Queued(tasks[l]) ELSE tasks[l]]

-----------------------------------------------------------------------------
(* HandshakeEndpoint::query                                                *)

\* The extensions that add something to a request: only the handshake
\* extension, since EpidemicRoutingExtension::requestHandshake has another
\* signature than the virtual method and is never called.
Requested == {PurgeId}

\* Ask the neighbour, at most once in 60 seconds.
Query(l) ==
  IF l \in black THEN UNCHANGED <<black, net>>
  ELSE /\ black' = black \cup {l}
       /\ net' = net \cup {Request(l[1], l[2], Requested)}

\* NODE_AVAILABLE: the entry is created and the neighbour is asked.
NodeAvailable(l) ==
  /\ l \notin entries
  /\ entries' = entries \cup {l}
  /\ Query(l)
  /\ UNCHANGED <<nodeVars, avail, filter, summary, transit, asked, tasks, inbox, told, losses, ticks>>

\* HANDSHAKE_REQUEST: an extension misses the filter of the neighbour.
HandshakeRequest(l) ==
  /\ l \in asked /\ asked' = asked \ {l}
  /\ Query(l)
  /\ UNCHANGED <<nodeVars, dbVars, transit, tasks, inbox, told, losses, ticks>>

Tick == ticks < MaxTicks /\ ticks' = ticks + 1

\* NODE_UNAVAILABLE: the filter is reset, the neighbour may be asked again.
\* It is announced as available right after.
NodeUnavailable(l) ==
  /\ l \in entries /\ Tick
  /\ avail' = avail \ {l}
  /\ black' = black \ {l}
  /\ asked' = asked \cup {l}
  /\ UNCHANGED <<nodeVars, entries, filter, summary, transit, tasks, net, inbox, told, losses>>

\* 60 seconds after it was received the filter expires.
FilterExpires(l) ==
  /\ l \in avail /\ Tick
  /\ avail' = avail \ {l}
  /\ UNCHANGED <<nodeVars, entries, filter, summary, transit, black, asked, tasks, net, inbox, told, losses>>

\* 60 seconds after a query the next one is possible.
MinutePasses(l) ==
  /\ l \in black /\ Tick
  /\ black' = black \ {l}
  /\ UNCHANGED <<nodeVars, dbVars, transit, asked, tasks, net, inbox, told, losses>>

-----------------------------------------------------------------------------
(* Searches and transfers                                                  *)

\* Seeded error: a bundle is removed when its transfer starts.
SendAndForget(l, S) ==
  /\ transit' = [transit EXCEPT ![l] = @ \cup S]
  /\ storage' = [storage EXCEPT ![l[1]] = @ \ S]
  /\ net' = net \cup {Carry(l[1], l[2], b) : b \in S}

\* transferTo of the bundles S
Send(l, S) ==
  /\ transit' = [transit EXCEPT ![l] = @ \cup S]
  /\ net' = net \cup {Carry(l[1], l[2], b) : b \in S}
  /\ UNCHANGED storage

\* The bundles epidemic routing considers for the neighbour: not the ones
\* destined to it or to this node.
Candidates(l) == {b \in storage[l[1]] : Dest[b] \notin {l[1], l[2]}}

Unknown(l) == Candidates(l) \ (filter[l] \cup summary[l])

\* A search; without a filter of the neighbour a handshake is requested
\* instead (BloomfilterNotAvailableException).
SearchNextBundle(l) ==
  /\ tasks[l] > 0 /\ tasks' = [tasks EXCEPT ![l] = @ - 1]
  /\ l \in entries
  /\ \/ /\ Candidates(l) # {} /\ l \notin avail
        /\ asked' = asked \cup {l}
        /\ UNCHANGED <<transit, storage, net>>
     \/ /\ Candidates(l) = {} \/ l \in avail
        /\ Send(l, Unknown(l) \ transit[l])
        /\ UNCHANGED asked
  /\ UNCHANGED <<known, purged, dbVars, black, inbox, told, losses, ticks>>

\* NeighborRoutingExtension: a bundle for the neighbour itself
TransferToNeighbor(l, b) ==
  /\ l \in entries /\ Dest[b] = l[2]
  /\ b \in storage[l[1]] \ transit[l]
  /\ Send(l, {b})
  /\ UNCHANGED <<known, purged, dbVars, black, asked, tasks, inbox, told, losses, ticks>>

\* A bundle is created.
Generate(b) ==
  LET n == Source[b] IN
  /\ b \notin known[n]
  /\ known' = [known EXCEPT ![n] = @ \cup {b}]
  /\ storage' = [storage EXCEPT ![n] = @ \cup {b}]
  /\ tasks' = SearchAll(n)
  /\ UNCHANGED <<purged, dbVars, transit, black, asked, net, inbox, told, losses, ticks>>

\* The singleton bundle has reached its destination.
Delivered(x) == Dest[x.bundle] = x.to

\* The transfer of bundle x is complete on both sides: the receiver stores
\* it if it is new, the sender notes it in the summary of the receiver and,
\* if it is delivered, in its purge vector, and drops it.
BundleArrives(x) ==
  LET l == <<x.from, x.to>>  b == x.bundle IN
  /\ x \in net /\ x.kind = "bundle"
  /\ net' = net \ {x}
  /\ transit' = [transit EXCEPT ![l] = @ \ {b}]
  /\ summary' = [summary EXCEPT ![l] = @ \cup {b}]
  /\ purged' = IF Delivered(x) THEN [purged EXCEPT ![x.from] = @ \cup {b}] ELSE purged
  /\ known' = [known EXCEPT ![x.to] = @ \cup {b}]
  /\ storage' = [n \in Nodes |->
       IF n = x.to /\ b \notin known[n] THEN storage[n] \cup {b}
       ELSE IF n = x.from /\ Delivered(x) THEN storage[n] \ {b} ELSE storage[n]]
  /\ tasks' = IF b \in known[x.to]
                THEN [tasks EXCEPT ![l] = Queued(@)]
                ELSE [SearchAll(x.to) EXCEPT ![l] = Queued(@)]
  /\ UNCHANGED <<entries, avail, filter, black, asked, inbox, told, losses, ticks>>

\* The transfer of a request or a response is complete: the handshake worker
\* of the receiver gets it, both sides search.
HandshakeArrives(x) ==
  LET l == <<x.from, x.to>> IN
  /\ x \in net /\ x.kind # "bundle"
  /\ net' = net \ {x}
  /\ inbox' = [inbox EXCEPT ![x.to] = Append(@, x)]
  /\ tasks' = IF l \in entries THEN [SearchAll(x.to) EXCEPT ![l] = Queued(@)]
              ELSE SearchAll(x.to)
  /\ UNCHANGED <<nodeVars, dbVars, transit, black, asked, told, losses, ticks>>

\* Seeded error: the neighbour is assumed to have what was sent.
LoseNoted(x) ==
  LET l == <<x.from, x.to>> IN
  /\ x \in net /\ losses < MaxLosses /\ losses' = losses + 1
  /\ net' = net \ {x}
  /\ IF x.kind = "bundle"
       THEN /\ transit' = [transit EXCEPT ![l] = @ \ {x.bundle}]
            /\ summary' = [summary EXCEPT ![l] = @ \cup {x.bundle}]
            /\ tasks' = [tasks EXCEPT ![l] = Queued(@)]
       ELSE UNCHANGED <<transit, summary, tasks>>
  /\ UNCHANGED <<nodeVars, entries, avail, filter, black, asked, inbox, told, ticks>>

\* A transfer fails.  The slot of a bundle is released and a search follows;
\* a handshake bundle expires.
Lose(x) ==
  LET l == <<x.from, x.to>> IN
  /\ x \in net /\ losses < MaxLosses /\ losses' = losses + 1
  /\ net' = net \ {x}
  /\ IF x.kind = "bundle"
       THEN /\ transit' = [transit EXCEPT ![l] = @ \ {x.bundle}]
            /\ tasks' = [tasks EXCEPT ![l] = Queued(@)]
       ELSE UNCHANGED <<transit, tasks>>
  /\ UNCHANGED <<nodeVars, dbVars, black, asked, inbox, told, ticks>>

-----------------------------------------------------------------------------
(* NodeHandshakeExtension::processHandshake                                *)

\* Seeded error: the identifier of the request is not recognised.
ItemsOfNothing(n, ids) == <<>>

\* responseHandshake: both vectors are sent as BloomFilterSummaryVector.
Items(n, ids) ==
  (IF SummaryId \in ids THEN <<[id |-> SummaryId, vec |-> known[n]]>> ELSE <<>>)
  \o
  (IF PurgeId \in ids THEN <<[id |-> SummaryId, vec |-> purged[n]]>> ELSE <<>>)

AnswerRequest(n) ==
  /\ inbox[n] # <<>> /\ Head(inbox[n]).kind = "request"
  /\ LET x == Head(inbox[n]) IN
       net' = net \cup {Response(n, x.from, Items(n, x.ids), known[n], purged[n])}
  /\ inbox' = [inbox EXCEPT ![n] = Tail(@)]
  /\ UNCHANGED <<nodeVars, dbVars, transit, black, asked, tasks, told, losses, ticks>>

\* _raw_items after the items have been read: a later item replaces an
\* earlier one with the same identifier
RawItems(items) ==
  [i \in {items[k].id : k \in 1..Len(items)} |->
     LET last == CHOOSE k \in 1..Len(items) :
                   /\ items[k].id = i
                   /\ \A j \in k+1..Len(items) : items[j].id # i
     IN  items[last].vec]

\* get<BloomFilterSummaryVector>() and NeighborEntry::update
UpdateFilter(l, raw) ==
  IF SummaryId \in DOMAIN raw /\ l \in entries
    THEN avail' = avail \cup {l} /\ filter' = [filter EXCEPT ![l] = raw[SummaryId]]
    ELSE UNCHANGED <<avail, filter>>

\* get<BloomFilterPurgeVector>(): an item of its identifier that has been
\* read as a summary vector before is no purge vector (bad_cast)
PurgeVector(raw) ==
  IF PurgeId \in DOMAIN raw \ {SummaryId} THEN raw[PurgeId] ELSE {}

\* The HANDSHAKE_COMPLETED event at the end names the endpoint "/routing" of
\* the peer, which is no neighbour: the search it triggers ends at once.
ProcessResponse(n) ==
  /\ inbox[n] # <<>> /\ Head(inbox[n]).kind = "response"
  /\ LET x   == Head(inbox[n])
         l   == <<n, x.from>>
         raw == RawItems(x.items)
         old == PurgeVector(raw) \cap storage[n]
     IN  /\ UpdateFilter(l, raw)
         /\ storage' = [storage EXCEPT ![n] = @ \ old]
         /\ purged' = [purged EXCEPT ![n] = @ \cup old]
         /\ told' = [told EXCEPT ![l] = [known |-> x.known, purged |-> x.purged]]
  /\ inbox' = [inbox EXCEPT ![n] = Tail(@)]
  /\ UNCHANGED <<known, entries, summary, transit, black, asked, tasks, net, losses, ticks>>

-----------------------------------------------------------------------------
Next ==
  \/ \E l \in Links : \/ NodeAvailable(l) \/ NodeUnavailable(l)
                      \/ HandshakeRequest(l) \/ SearchNextBundle(l)
                      \/ FilterExpires(l) \/ MinutePasses(l)
                      \/ \E b \in Bundles : TransferToNeighbor(l, b)
  \/ \E b \in Bundles : Generate(b)
  \/ \E x \in net : BundleArrives(x) \/ HandshakeArrives(x) \/ Lose(x)
  \/ \E n \in Nodes : AnswerRequest(n) \/ ProcessResponse(n)

Spec == Init /\ [][Next]_vars

\* The threads of the daemons run and transfers come to an end.
FairSpec ==
  /\ Spec
  /\ \A l \in Links : /\ WF_vars(NodeAvailable(l)) /\ WF_vars(HandshakeRequest(l))
                      /\ WF_vars(SearchNextBundle(l))
                      /\ \A b \in Bundles : WF_vars(TransferToNeighbor(l, b))
  /\ WF_vars(\E x \in net : BundleArrives(x) \/ HandshakeArrives(x))
  /\ \A n \in Nodes : WF_vars(AnswerRequest(n)) /\ WF_vars(ProcessResponse(n))

-----------------------------------------------------------------------------
(* Properties.                                                             *)

\* Neither the filter nor the summary of a neighbour claims too much: what
\* is in them the neighbour has seen, so no bundle is withheld from a
\* neighbour that lacks it, whatever transfers and answers are lost or late.
FilterIsSound ==
  \A l \in Links : filter[l] \cup summary[l] \subseteq known[l[2]]

\* Only a bundle that its destination has received is in a purge vector.
PurgedIsDelivered ==
  \A n \in Nodes : \A b \in purged[n] : b \in known[Dest[b]]

\* What a node believes of others is true: its filters and summaries of them
\* and the purge vector it hands on.
BeliefsAreSound == FilterIsSound /\ PurgedIsDelivered

\* A bundle is not lost on its way: until its destination has it some node
\* keeps a copy, whatever transfers fail and whatever is purged.
NoBundleVanishes ==
  \A b \in Bundles : b \in known[Source[b]] =>
    \/ b \in known[Dest[b]]
    \/ \E n \in Nodes : b \in storage[n]

\* Every query is followed by a filter of the neighbour, as long as nothing
\* is lost, no filter expires and no neighbour vanishes.
QueryIsAnswered ==
  \A l \in Links : (l \in black) ~> (l \in avail \/ losses + ticks > 0)

\* After a handshake no bundle of the received purge vector is stored
\* ("delete bundles in the purge vector").
PurgeIsApplied ==
  \A l \in Links : storage[l[1]] \cap told[l].purged = {}

\* A bundle is forwarded to every neighbour that does not know it, once the
\* handshake with the neighbour is complete.
EpidemicSpreads ==
  \A l \in Links, b \in Bundles :
    (b \in storage[l[1]] /\ Dest[b] \notin {l[1], l[2]})
      ~> (b \in known[l[2]] \/ b \notin storage[l[1]])
=============================================================================
