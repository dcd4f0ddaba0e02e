-------------------------- MODULE NeighbourProofs --------------------------
(***************************************************************************)
(* What holds of the neighbours of a node: of epidemic routing with        *)
(* handshakes in any network, for any nodes and links, any set of bundles  *)
(* and any number of lost transfers, expired filters and vanished          *)
(* neighbours; and of the connection manager, for any peers, addresses,    *)
(* connections and configuration.                                          *)
(***************************************************************************)
EXTENDS NodeHandshake, ConnectionManager, QueueLemmas

\* What a node sends is true when it is sent, and stays true: a bundle it
\* has seen, and vectors of bundles it has seen.  All vectors of an answer
\* carry the identifier of the summary vector.
Truthful(x) ==
  /\ x.kind = "bundle" => x.bundle \in known[x.from]
  /\ x.kind = "response" =>
       \A k \in 1..Len(x.items) : /\ x.items[k].id = SummaryId
                                  /\ x.items[k].vec \subseteq known[x.from]

MessagesAreTruthful ==
  /\ \A x \in net : Truthful(x)
  /\ \A n \in Nodes : \A i \in 1..Len(inbox[n]) : Truthful(inbox[n][i])

\* What a node stores or takes for delivered, it has seen.
OwnIsKnown ==
  \A n \in Nodes : storage[n] \subseteq known[n] /\ purged[n] \subseteq known[n]

\* The inductive invariant.
Inv == TypeOK /\ OwnIsKnown /\ MessagesAreTruthful /\ BeliefsAreSound /\ NoBundleVanishes

-----------------------------------------------------------------------------
(* Operators of the model.                                                 *)

\* One more task fits into the queue.
LEMMA QueuedType ==
  ASSUME NEW k \in 0..MaxTasks
  PROVE  Queued(k) \in 0..MaxTasks
  BY HandshakeAssumption DEF Queued

\* A search for each neighbour changes nothing but the tasks.
LEMMA SearchAllType ==
  ASSUME TypeOK, NEW n \in Nodes
  PROVE  SearchAll(n) \in [Links -> 0..MaxTasks]
  BY QueuedType DEF SearchAll, TypeOK

\* An assignment at an index, which may be outside of the array.
LEMMA AssignmentType ==
  ASSUME NEW A, NEW B, NEW f \in [A -> B], NEW l, NEW e, l \in A => e \in B
  PROVE  [f EXCEPT ![l] = e] \in [A -> B]
  OBVIOUS

\* The messages of the model are Messages.
LEMMA MessageTypes ==
  ASSUME NEW n \in Nodes, NEW m \in Nodes
  PROVE  /\ \A ids \in SUBSET {SummaryId, PurgeId} : Request(n, m, ids) \in Messages
         /\ \A items \in Seq(Item), k, g \in SUBSET Bundles :
              Response(n, m, items, k, g) \in Messages
         /\ \A b \in Bundles : Carry(n, m, b) \in Messages
<1>1. ASSUME NEW ids \in SUBSET {SummaryId, PurgeId}
      PROVE  Request(n, m, ids) \in Messages
  BY DEF Request, Messages
<1>2. ASSUME NEW items \in Seq(Item), NEW k \in SUBSET Bundles, NEW g \in SUBSET Bundles
      PROVE  Response(n, m, items, k, g) \in Messages
  BY DEF Response, Messages
<1>3. ASSUME NEW b \in Bundles
      PROVE  Carry(n, m, b) \in Messages
  BY DEF Carry, Messages
<1> QED
  BY <1>1, <1>2, <1>3

\* Whatever kind a message has, its fields are of their types.
LEMMA MessageFields ==
  ASSUME NEW x \in Messages
  PROVE  /\ x.kind \in {"request", "response", "bundle"}
         /\ x.from \in Nodes /\ x.to \in Nodes
         /\ x.kind = "request" => x.ids \subseteq {SummaryId, PurgeId}
         /\ x.kind = "response" => /\ x.items \in Seq(Item)
                                   /\ x.known \subseteq Bundles
                                   /\ x.purged \subseteq Bundles
         /\ x.kind = "bundle" => x.bundle \in Bundles
  BY DEF Messages

\* responseHandshake: each vector is named a summary vector and holds what
\* the node has seen.
LEMMA ItemsAreSummaries ==
  ASSUME TypeOK, OwnIsKnown, NEW n \in Nodes, NEW ids
  PROVE  /\ Items(n, ids) \in Seq(Item)
         /\ \A k \in 1..Len(Items(n, ids)) : /\ Items(n, ids)[k].id = SummaryId
                                             /\ Items(n, ids)[k].vec \subseteq known[n]
<1> DEFINE own == [id |-> SummaryId, vec |-> known[n]]
           old == [id |-> SummaryId, vec |-> purged[n]]
           p == IF SummaryId \in ids THEN <<own>> ELSE <<>>
           q == IF PurgeId \in ids THEN <<old>> ELSE <<>>
<1>1. /\ own \in Item /\ own.id = SummaryId /\ own.vec \subseteq known[n]
      /\ old \in Item /\ old.id = SummaryId /\ old.vec \subseteq known[n]
  BY DEF TypeOK, OwnIsKnown, Item
<1>2. Items(n, ids) = p \o q
  BY DEF Items
<1>3. p \in Seq(Item) /\ \A k \in 1..Len(p) : p[k] = own
  BY <1>1
<1>4. q \in Seq(Item) /\ \A k \in 1..Len(q) : q[k] = old
  BY <1>1
<1> HIDE DEF p, q, own, old
<1>5. /\ p \o q \in Seq(Item)
      /\ \A k \in 1..Len(p \o q) : (p \o q)[k] \in {own, old}
  BY <1>3, <1>4
<1> QED
  BY <1>1, <1>2, <1>5

\* Reading items that are all named summary vectors yields no purge vector,
\* and a summary vector of what was in one of the items.
LEMMA RawItemsOfSummaries ==
  ASSUME NEW items \in Seq(Item), NEW K,
         \A k \in 1..Len(items) : /\ items[k].id = SummaryId
                                  /\ items[k].vec \subseteq K
  PROVE  /\ PurgeVector(RawItems(items)) = {}
         /\ SummaryId \in DOMAIN RawItems(items) =>
              /\ RawItems(items)[SummaryId] \subseteq K
              /\ RawItems(items)[SummaryId] \subseteq Bundles
<1>1. PurgeVector(RawItems(items)) = {}
  BY DEF PurgeVector, PurgeId, SummaryId
<1>2. ASSUME SummaryId \in DOMAIN RawItems(items)
      PROVE  /\ RawItems(items)[SummaryId] \subseteq K
             /\ RawItems(items)[SummaryId] \subseteq Bundles
  <2> DEFINE IsLast(k) == /\ items[k].id = SummaryId
                          /\ \A j \in k+1..Len(items) : items[j].id # SummaryId
             last == CHOOSE k \in 1..Len(items) : IsLast(k)
  <2>1. RawItems(items)[SummaryId] = items[last].vec
    BY <1>2 DEF RawItems
  <2>2. Len(items) \in Nat /\ 1..Len(items) # {}
    BY <1>2 DEF RawItems
  <2>3. IsLast(Len(items)) /\ Len(items) \in 1..Len(items)
    BY <2>2
  <2>4. last \in 1..Len(items)
    <3> HIDE DEF IsLast
    <3> QED BY <2>3
  <2>5. items[last] \in Item /\ items[last].vec \subseteq K
    BY <2>4
  <2> QED
    BY <2>1, <2>5 DEF Item
<1> QED
  BY <1>1, <1>2

\* What processHandshake reads from the answer that comes next: no purge
\* vector, and at most bundles that the sender has seen.
LEMMA RespondedItems ==
  ASSUME TypeOK, MessagesAreTruthful, NEW n \in Nodes,
         inbox[n] # <<>>, Head(inbox[n]).kind = "response"
  PROVE  LET x   == Head(inbox[n])
             raw == RawItems(x.items)
         IN  /\ PurgeVector(raw) = {}
             /\ SummaryId \in DOMAIN raw =>
                  /\ raw[SummaryId] \subseteq known[x.from]
                  /\ raw[SummaryId] \subseteq Bundles
<1> DEFINE x == Head(inbox[n])
<1>1. inbox[n] \in Seq(Messages)
  BY DEF TypeOK
<1>2. x = inbox[n][1] /\ 1 \in 1..Len(inbox[n]) /\ x \in Messages
  BY <1>1
<1>3. Truthful(inbox[n][1])
  BY <1>2 DEF MessagesAreTruthful
<1> HIDE DEF x
<1>4. Truthful(x)
  BY <1>2, <1>3
<1>5. x.items \in Seq(Item) /\ x.kind = "response"
  BY <1>2, MessageFields DEF x
<1>6. \A k \in 1..Len(x.items) : /\ x.items[k].id = SummaryId
                                 /\ x.items[k].vec \subseteq known[x.from]
  BY <1>4, <1>5 DEF Truthful
<1> QED
  BY <1>5, <1>6, RawItemsOfSummaries DEF x

-----------------------------------------------------------------------------
(* Type correctness.                                                       *)

\* All neighbours unknown, nothing stored, nothing on the links.
LEMMA TypeInit == Init => TypeOK
  BY HandshakeAssumption DEF Init, TypeOK

\* Every step of every node keeps the types.
LEMMA TypeStep ==
  ASSUME TypeOK, OwnIsKnown, MessagesAreTruthful, [Next]_vars
  PROVE  TypeOK'
<1>m. \A x \in net : x \in Messages
  BY DEF TypeOK
<1>h. ASSUME NEW n \in Nodes, inbox[n] # <<>>
      PROVE  Head(inbox[n]) \in Messages /\ Tail(inbox[n]) \in Seq(Messages)
  <2>1. inbox[n] \in Seq(Messages)
    BY DEF TypeOK
  <2> QED
    BY <1>h, <2>1
<1>l. ASSUME NEW l \in Links
      PROVE  l[1] \in Nodes /\ l[2] \in Nodes
  BY HandshakeAssumption
<1>t. Tick => ticks' \in 0..MaxTicks
  BY HandshakeAssumption DEF Tick, TypeOK
<1>r. ASSUME NEW l \in Links, Query(l)
      PROVE  black' \subseteq Links /\ (\A x \in net' : x \in Messages)
  <2>1. Requested \in SUBSET {SummaryId, PurgeId}
    BY DEF Requested
  <2>2. Request(l[1], l[2], Requested) \in Messages
    BY <1>l, <2>1, MessageTypes
  <2> QED
    BY <1>r, <1>m, <2>2 DEF Query, TypeOK
<1>s. ASSUME NEW l \in Links, NEW S \in SUBSET Bundles, Send(l, S)
      PROVE  /\ transit' \in [Links -> SUBSET Bundles]
             /\ storage' = storage
             /\ \A x \in net' : x \in Messages
  <2>1. \A b \in S : Carry(l[1], l[2], b) \in Messages
    BY <1>l, MessageTypes
  <2> QED
    BY <1>s, <1>m, <2>1 DEF Send, TypeOK
<1>1. ASSUME NEW l \in Links, NodeAvailable(l)
      PROVE  TypeOK'
  BY <1>1, <1>r DEF NodeAvailable, nodeVars, TypeOK
<1>2. ASSUME NEW l \in Links, NodeUnavailable(l)
      PROVE  TypeOK'
  BY <1>2, <1>t DEF NodeUnavailable, nodeVars, TypeOK
<1>3. ASSUME NEW l \in Links, HandshakeRequest(l)
      PROVE  TypeOK'
  BY <1>3, <1>r DEF HandshakeRequest, nodeVars, dbVars, TypeOK
<1>4. ASSUME NEW l \in Links, SearchNextBundle(l)
      PROVE  TypeOK'
  <2>1. tasks' \in [Links -> 0..MaxTasks]
    <3>1. tasks[l] - 1 \in 0..MaxTasks
      BY <1>4, HandshakeAssumption DEF SearchNextBundle, TypeOK
    <3> QED
      BY <1>4, <3>1 DEF SearchNextBundle, TypeOK
  <2>2. Unknown(l) \ transit[l] \subseteq Bundles
    BY <1>l DEF Unknown, Candidates, TypeOK
  <2>3. /\ transit' \in [Links -> SUBSET Bundles]
        /\ storage' = storage
        /\ \A x \in net' : x \in Messages
    BY <1>4, <1>s, <1>m, <2>2 DEF SearchNextBundle, TypeOK
  <2>4. asked' \subseteq Links
    BY <1>4 DEF SearchNextBundle, TypeOK
  <2> QED
    BY <1>4, <2>1, <2>3, <2>4 DEF SearchNextBundle, dbVars, TypeOK
<1>5. ASSUME NEW l \in Links, FilterExpires(l)
      PROVE  TypeOK'
  BY <1>5, <1>t DEF FilterExpires, nodeVars, TypeOK
<1>6. ASSUME NEW l \in Links, MinutePasses(l)
      PROVE  TypeOK'
  BY <1>6, <1>t DEF MinutePasses, nodeVars, dbVars, TypeOK
<1>7. ASSUME NEW l \in Links, NEW b \in Bundles, TransferToNeighbor(l, b)
      PROVE  TypeOK'
  <2>1. {b} \in SUBSET Bundles
    OBVIOUS
  <2>2. Send(l, {b})
    BY <1>7 DEF TransferToNeighbor
  <2>3. /\ transit' \in [Links -> SUBSET Bundles]
        /\ storage' = storage
        /\ \A x \in net' : x \in Messages
    BY <2>1, <2>2, <1>s
  <2> QED
    BY <1>7, <2>3 DEF TransferToNeighbor, dbVars, TypeOK
<1>8. ASSUME NEW b \in Bundles, Generate(b)
      PROVE  TypeOK'
  <2>1. Source[b] \in Nodes
    BY HandshakeAssumption
  <2>2. tasks' \in [Links -> 0..MaxTasks]
    BY <1>8, <2>1, SearchAllType DEF Generate
  <2> QED
    BY <1>8, <2>1, <2>2 DEF Generate, dbVars, TypeOK
<1>9. ASSUME NEW x \in net, BundleArrives(x)
      PROVE  TypeOK'
  <2> DEFINE l == <<x.from, x.to>>
  <2>1. /\ x.from \in Nodes /\ x.to \in Nodes /\ x.bundle \in Bundles
    BY <1>9, <1>m, MessageFields DEF BundleArrives
  <2>2. tasks' \in [Links -> 0..MaxTasks]
    <3>1. \A k \in 0..MaxTasks : Queued(k) \in 0..MaxTasks
      BY QueuedType
    <3>2. SearchAll(x.to) \in [Links -> 0..MaxTasks]
      BY <2>1, SearchAllType
    <3>3. tasks \in [Links -> 0..MaxTasks]
      BY DEF TypeOK
    <3> QED
      BY <1>9, <3>1, <3>2, <3>3 DEF BundleArrives
  <2>3. storage' \in [Nodes -> SUBSET Bundles]
    BY <1>9, <2>1 DEF BundleArrives, TypeOK
  <2>4. /\ known' \in [Nodes -> SUBSET Bundles]
        /\ purged' \in [Nodes -> SUBSET Bundles]
        /\ transit' \in [Links -> SUBSET Bundles]
        /\ summary' \in [Links -> SUBSET Bundles]
    BY <1>9, <2>1 DEF BundleArrives, TypeOK
  <2> QED
    BY <1>9, <1>m, <2>2, <2>3, <2>4 DEF BundleArrives, TypeOK
<1>10. ASSUME NEW x \in net, HandshakeArrives(x)
       PROVE  TypeOK'
  <2>1. x \in Messages /\ x.from \in Nodes /\ x.to \in Nodes
    BY <1>m, MessageFields
  <2>2. tasks' \in [Links -> 0..MaxTasks]
    <3>1. \A k \in 0..MaxTasks : Queued(k) \in 0..MaxTasks
      BY QueuedType
    <3>2. SearchAll(x.to) \in [Links -> 0..MaxTasks]
      BY <2>1, SearchAllType
    <3> QED
      BY <1>10, <3>1, <3>2 DEF HandshakeArrives
  <2>3. inbox' \in [Nodes -> Seq(Messages)]
    BY <1>10, <2>1 DEF HandshakeArrives, TypeOK
  <2> QED
    BY <1>10, <1>m, <2>2, <2>3 DEF HandshakeArrives, nodeVars, dbVars, TypeOK
<1>11. ASSUME NEW x \in net, Lose(x)
       PROVE  TypeOK'
  <2> DEFINE l == <<x.from, x.to>>
  <2>1. losses' \in 0..MaxLosses
    BY SMTT(30), <1>11, HandshakeAssumption DEF Lose, TypeOK
  <2>2. tasks' \in [Links -> 0..MaxTasks]
    <3>1. tasks \in [Links -> 0..MaxTasks]
      BY DEF TypeOK
    <3>2. l \in Links => Queued(tasks[l]) \in 0..MaxTasks
      BY <3>1, QueuedType
    <3>3. [tasks EXCEPT ![l] = Queued(tasks[l])] \in [Links -> 0..MaxTasks]
      BY <3>1, <3>2, AssignmentType
    <3> QED
      BY <1>11, <3>1, <3>3 DEF Lose
  <2>3. transit' \in [Links -> SUBSET Bundles]
    <3>1. transit \in [Links -> SUBSET Bundles]
      BY DEF TypeOK
    <3>2. l \in Links => transit[l] \ {x.bundle} \in SUBSET Bundles
      BY <3>1
    <3>3. [transit EXCEPT ![l] = transit[l] \ {x.bundle}] \in [Links -> SUBSET Bundles]
      BY <3>1, <3>2, AssignmentType
    <3> QED
      BY <1>11, <3>1, <3>3 DEF Lose
  <2> QED
    BY <1>11, <1>m, <2>1, <2>2, <2>3 DEF Lose, nodeVars, dbVars, TypeOK
<1>12. ASSUME NEW n \in Nodes, AnswerRequest(n)
       PROVE  TypeOK'
  <2> DEFINE x == Head(inbox[n])
  <2>1. x \in Messages /\ Tail(inbox[n]) \in Seq(Messages)
    BY <1>12, <1>h DEF AnswerRequest
  <2>2. Response(n, x.from, Items(n, x.ids), known[n], purged[n]) \in Messages
    BY <2>1, MessageFields, ItemsAreSummaries, MessageTypes DEF TypeOK
  <2> HIDE DEF x
  <2>3. \A y \in net' : y \in Messages
    BY <1>12, <1>m, <2>2 DEF AnswerRequest, x
  <2>4. inbox' \in [Nodes -> Seq(Messages)]
    BY <1>12, <2>1 DEF AnswerRequest, TypeOK
  <2> QED
    BY <1>12, <2>3, <2>4 DEF AnswerRequest, nodeVars, dbVars, TypeOK
<1>13. ASSUME NEW n \in Nodes, ProcessResponse(n)
       PROVE  TypeOK'
  <2>1. Head(inbox[n]) \in Messages /\ Tail(inbox[n]) \in Seq(Messages)
    BY <1>13, <1>h DEF ProcessResponse
  <2>2. filter' \in [Links -> SUBSET Bundles] /\ avail' \subseteq entries
    BY <1>13, RespondedItems DEF ProcessResponse, UpdateFilter, TypeOK
  <2>3. storage' = storage /\ purged' = purged
    BY <1>13, RespondedItems DEF ProcessResponse, TypeOK
  <2>4. told' \in [Links -> [known : SUBSET Bundles, purged : SUBSET Bundles]]
    BY <1>13, <2>1, MessageFields DEF ProcessResponse, TypeOK
  <2>5. inbox' \in [Nodes -> Seq(Messages)]
    BY <1>13, <2>1 DEF ProcessResponse, TypeOK
  <2> QED
    BY <1>13, <1>m, <2>2, <2>3, <2>4, <2>5 DEF ProcessResponse, TypeOK
<1>14. CASE UNCHANGED vars
  BY <1>14, <1>m DEF vars, nodeVars, dbVars, TypeOK
<1> QED
  BY <1>1, <1>2, <1>3, <1>4, <1>5, <1>6, <1>7, <1>8, <1>9, <1>10, <1>11,
     <1>12, <1>13, <1>14 DEF Next

-----------------------------------------------------------------------------
(* What the nodes know.                                                    *)

\* The bundles a node has seen: no step forgets one, and only the creation
\* and the arrival of a bundle add one.
LEMMA KnownGrows ==
  ASSUME TypeOK, [Next]_vars
  PROVE  /\ \A n \in Nodes : known[n] \subseteq known'[n]
         /\ \/ known' = known
            \/ \E b \in Bundles : Generate(b)
            \/ \E x \in net : BundleArrives(x)
<1>1. CASE known' = known
  BY <1>1
<1>2. ASSUME NEW b \in Bundles, Generate(b)
      PROVE  \A n \in Nodes : known[n] \subseteq known'[n]
  BY <1>2, HandshakeAssumption DEF Generate, TypeOK
<1>3. ASSUME NEW x \in net, BundleArrives(x)
      PROVE  \A n \in Nodes : known[n] \subseteq known'[n]
  BY <1>3 DEF BundleArrives, TypeOK
<1> QED
  BY <1>1, <1>2, <1>3 DEF Next, NodeAvailable, NodeUnavailable, HandshakeRequest,
     SearchNextBundle, FilterExpires, MinutePasses, TransferToNeighbor,
     HandshakeArrives, Lose, AnswerRequest, ProcessResponse, vars, nodeVars

\* What a step does to the storages and the purge vectors: a bundle is
\* removed from a storage only after its delivery, and only then it gets
\* into a purge vector.
LEMMA StorageStep ==
  ASSUME TypeOK, MessagesAreTruthful, [Next]_vars
  PROVE  \/ UNCHANGED nodeVars
         \/ \E b \in Bundles : Generate(b)
         \/ \E x \in net : BundleArrives(x)
<1>1. ASSUME NEW l \in Links, SearchNextBundle(l)
      PROVE  UNCHANGED nodeVars
  BY <1>1 DEF SearchNextBundle, Send, nodeVars
<1>2. ASSUME NEW l \in Links, NEW b \in Bundles, TransferToNeighbor(l, b)
      PROVE  UNCHANGED nodeVars
  BY <1>2 DEF TransferToNeighbor, Send, nodeVars
<1>3. ASSUME NEW n \in Nodes, ProcessResponse(n)
      PROVE  UNCHANGED nodeVars
  BY <1>3, RespondedItems DEF ProcessResponse, TypeOK, nodeVars
<1>4. ASSUME NEW n \in Nodes, AnswerRequest(n)
      PROVE  UNCHANGED nodeVars
  BY <1>4 DEF AnswerRequest
<1> QED
  BY <1>1, <1>2, <1>3, <1>4 DEF Next, NodeAvailable, NodeUnavailable,
     HandshakeRequest, FilterExpires, MinutePasses, HandshakeArrives, Lose, vars

\* A bundle on a link is one that its sender has seen.
LEMMA CarriedIsKnown ==
  ASSUME TypeOK, MessagesAreTruthful, NEW x \in net, BundleArrives(x)
  PROVE  /\ x.from \in Nodes /\ x.to \in Nodes /\ x.bundle \in Bundles
         /\ x.bundle \in known[x.from]
<1>1. x \in Messages /\ x.kind = "bundle" /\ Truthful(x)
  BY DEF TypeOK, BundleArrives, MessagesAreTruthful
<1> QED
  BY <1>1, MessageFields DEF Truthful

\* Every step keeps what a node stores or purges among what it has seen.
LEMMA OwnStep ==
  ASSUME TypeOK, OwnIsKnown, MessagesAreTruthful, [Next]_vars
  PROVE  OwnIsKnown'
<1>1. CASE UNCHANGED nodeVars
  BY <1>1 DEF OwnIsKnown, nodeVars
<1>2. ASSUME NEW b \in Bundles, Generate(b)
      PROVE  OwnIsKnown'
  BY <1>2, HandshakeAssumption DEF Generate, TypeOK, OwnIsKnown
<1>3. ASSUME NEW x \in net, BundleArrives(x)
      PROVE  OwnIsKnown'
  <2>1. /\ x.from \in Nodes /\ x.to \in Nodes /\ x.bundle \in Bundles
        /\ x.bundle \in known[x.from]
    BY <1>3, CarriedIsKnown
  <2>2. \A n \in Nodes : storage'[n] \subseteq known'[n]
    BY <1>3, <2>1 DEF BundleArrives, TypeOK, OwnIsKnown
  <2>3. \A n \in Nodes : purged'[n] \subseteq known'[n]
    BY <1>3, <2>1 DEF BundleArrives, TypeOK, OwnIsKnown
  <2> QED
    BY <2>2, <2>3 DEF OwnIsKnown
<1> QED
  BY <1>1, <1>2, <1>3, StorageStep

\* Only what a node knows of itself gets into its messages, and a message
\* that is on its way or waits in an inbox stays true.
LEMMA MessagesStep ==
  ASSUME TypeOK, OwnIsKnown, MessagesAreTruthful, [Next]_vars
  PROVE  MessagesAreTruthful'
<1>g. \A n \in Nodes : known[n] \subseteq known'[n]
  BY KnownGrows
<1>s. ASSUME NEW x \in Messages, Truthful(x)
      PROVE  Truthful(x)'
  <2>1. x.from \in Nodes
    BY MessageFields
  <2> QED
    BY <1>s, <1>g, <2>1 DEF Truthful
<1>n. \A x \in net : x \in Messages /\ Truthful(x)
  BY DEF TypeOK, MessagesAreTruthful
<1>i. ASSUME NEW n \in Nodes, NEW i \in 1..Len(inbox[n])
      PROVE  inbox[n][i] \in Messages /\ Truthful(inbox[n][i])
  BY DEF TypeOK, MessagesAreTruthful
<1>1. ASSUME NEW x \in net', x \notin net
      PROVE  Truthful(x)'
  <2>1. ASSUME NEW l \in Links, Query(l)
        PROVE  Truthful(x)'
    BY <1>1, <2>1 DEF Query, Request, Truthful
  <2>2. ASSUME NEW l \in Links, NEW S, S \subseteq storage[l[1]], Send(l, S)
        PROVE  Truthful(x)'
    <3>1. PICK b \in S : x = Carry(l[1], l[2], b)
      BY <1>1, <2>2 DEF Send
    <3>2. l[1] \in Nodes
      BY HandshakeAssumption
    <3>3. x.kind = "bundle" /\ x.bundle = b /\ x.from = l[1]
      BY <3>1 DEF Carry
    <3>4. b \in known'[l[1]]
      BY <2>2, <3>2, <1>g DEF OwnIsKnown
    <3> QED
      BY <3>3, <3>4 DEF Truthful
  <2>3. ASSUME NEW n \in Nodes, AnswerRequest(n)
        PROVE  Truthful(x)'
    <3> DEFINE items == Items(n, Head(inbox[n]).ids)
    <3>1. x.kind = "response" /\ x.items = items /\ x.from = n
      BY <1>1, <2>3 DEF AnswerRequest, Response
    <3>2. \A k \in 1..Len(items) : /\ items[k].id = SummaryId
                                   /\ items[k].vec \subseteq known[n]
      BY ItemsAreSummaries
    <3> HIDE DEF items
    <3> QED
      BY <3>1, <3>2, <1>g DEF Truthful
  <2>4. ASSUME NEW l \in Links, SearchNextBundle(l)
        PROVE  Truthful(x)'
    <3>1. Send(l, Unknown(l) \ transit[l])
      BY <1>1, <2>4 DEF SearchNextBundle
    <3>2. Unknown(l) \ transit[l] \subseteq storage[l[1]]
      BY DEF Unknown, Candidates
    <3> QED
      BY <3>1, <3>2, <2>2
  <2>5. ASSUME NEW l \in Links, NEW b \in Bundles, TransferToNeighbor(l, b)
        PROVE  Truthful(x)'
    BY <2>5, <2>2 DEF TransferToNeighbor
  <2> QED
    BY <1>1, <2>1, <2>3, <2>4, <2>5 DEF Next, NodeAvailable, NodeUnavailable,
       HandshakeRequest, FilterExpires, MinutePasses, Generate, BundleArrives,
       HandshakeArrives, Lose, ProcessResponse, vars
<1>2. ASSUME NEW n \in Nodes, NEW i \in 1..Len(inbox'[n]),
             NEW y, y = inbox'[n][i]
      PROVE  Truthful(y)'
  <2>t. inbox \in [Nodes -> Seq(Messages)]
    BY DEF TypeOK
  <2>1. CASE inbox' = inbox
    BY <1>2, <2>1, <1>i, <1>s
  <2>2. ASSUME NEW x \in net, HandshakeArrives(x)
        PROVE  Truthful(y)'
    <3>1. inbox'[n] \in {inbox[n], Append(inbox[n], x)}
      BY <2>2, <2>t DEF HandshakeArrives
    <3>2. \/ y = x
          \/ i \in 1..Len(inbox[n]) /\ y = inbox[n][i]
      <4>1. inbox[n] \in Seq(Messages) /\ i \in 1..Len(inbox'[n]) /\ y = inbox'[n][i]
        BY <1>2, <2>t
      <4>2. CASE inbox'[n] = inbox[n]
        BY <4>1, <4>2
      <4>3. CASE inbox'[n] = Append(inbox[n], x)
        <5> DEFINE q == inbox[n]
        <5>1. q \in Seq(Messages) /\ i \in 1..Len(Append(q, x)) /\ y = Append(q, x)[i]
          BY <4>1, <4>3
        <5> HIDE DEF q
        <5>2. y = x \/ (i \in 1..Len(q) /\ y = q[i])
          BY <5>1
        <5> QED
          BY <5>2 DEF q
      <4> QED
        BY <3>1, <4>2, <4>3
    <3> QED
      BY <3>2, <1>i, <1>n, <1>s
  <2>3. ASSUME NEW m \in Nodes, AnswerRequest(m) \/ ProcessResponse(m)
        PROVE  Truthful(y)'
    <3>1. \/ inbox'[n] = inbox[n]
          \/ inbox[n] # <<>> /\ inbox'[n] = Tail(inbox[n])
      BY <2>3, <2>t DEF AnswerRequest, ProcessResponse
    <3>2. \E j \in 1..Len(inbox[n]) : y = inbox[n][j]
      <4>1. CASE inbox'[n] = inbox[n]
        BY <4>1, <1>2
      <4>2. CASE inbox[n] # <<>> /\ inbox'[n] = Tail(inbox[n])
        <5>1. inbox[n] \in Seq(Messages)
          BY <2>t
        <5>2. i + 1 \in 1..Len(inbox[n]) /\ y = inbox[n][i + 1]
          BY <1>2, <4>2, <5>1
        <5> QED
          BY <5>2
      <4> QED
        BY <3>1, <4>1, <4>2
    <3> QED
      BY <3>2, <1>i, <1>s
  <2> QED
    BY <2>1, <2>2, <2>3 DEF Next, NodeAvailable, NodeUnavailable, HandshakeRequest,
       SearchNextBundle, FilterExpires, MinutePasses, TransferToNeighbor,
       Generate, BundleArrives, Lose, vars
<1> QED
  BY <1>1, <1>2, <1>n, <1>s DEF MessagesAreTruthful, Truthful

-----------------------------------------------------------------------------
(* Beliefs are sound.                                                      *)

\* A filter is replaced by a vector of an answer, and a summary gets the
\* bundle that has just arrived: what is in them the neighbour has seen.
LEMMA FilterStep ==
  ASSUME TypeOK, OwnIsKnown, MessagesAreTruthful, FilterIsSound, [Next]_vars
  PROVE  FilterIsSound'
<1>g. \A n \in Nodes : known[n] \subseteq known'[n]
  BY KnownGrows
<1>l. \A l \in Links : l[1] \in Nodes /\ l[2] \in Nodes /\ l = <<l[1], l[2]>>
  BY HandshakeAssumption
<1>1. CASE UNCHANGED <<filter, summary>>
  BY <1>1, <1>g, <1>l DEF FilterIsSound
<1>2. ASSUME NEW n \in Nodes, ProcessResponse(n)
      PROVE  FilterIsSound'
  <2> DEFINE x == Head(inbox[n])
             raw == RawItems(x.items)
             m == <<n, x.from>>
  <2>1. summary' = summary /\ known' = known
    BY <1>2 DEF ProcessResponse
  <2>2. \/ filter' = filter
        \/ SummaryId \in DOMAIN raw /\ filter' = [filter EXCEPT ![m] = raw[SummaryId]]
    BY <1>2 DEF ProcessResponse, UpdateFilter
  <2>3. SummaryId \in DOMAIN raw => raw[SummaryId] \subseteq known[x.from]
    BY <1>2, RespondedItems DEF ProcessResponse
  <2>m. m[2] = x.from
    OBVIOUS
  <2> HIDE DEF x, raw, m
  <2>4. \A l \in Links : filter'[l] = filter[l] \/ filter'[l] \subseteq known[l[2]]
    BY <2>m, <2>2, <2>3 DEF TypeOK
  <2> QED
    BY <2>1, <2>4 DEF FilterIsSound
<1>3. ASSUME NEW x \in net, BundleArrives(x)
      PROVE  FilterIsSound'
  <2> DEFINE m == <<x.from, x.to>>
  <2>1. x.to \in Nodes /\ x.bundle \in known'[x.to]
    BY <1>3, CarriedIsKnown DEF BundleArrives, TypeOK
  <2>2. filter' = filter /\ summary' = [summary EXCEPT ![m] = @ \cup {x.bundle}]
    BY <1>3 DEF BundleArrives
  <2>m. m[2] = x.to
    OBVIOUS
  <2> HIDE DEF m
  <2>3. ASSUME NEW l \in Links
        PROVE  summary'[l] \subseteq summary[l] \cup known'[l[2]]
    BY <2>m, <2>1, <2>2 DEF TypeOK
  <2> QED
    BY <2>2, <2>3, <1>g, <1>l DEF FilterIsSound
<1> QED
  BY <1>1, <1>2, <1>3 DEF Next, NodeAvailable, NodeUnavailable, HandshakeRequest,
     SearchNextBundle, FilterExpires, MinutePasses, TransferToNeighbor, Generate,
     HandshakeArrives, Lose, AnswerRequest, vars, dbVars

\* A bundle gets into a purge vector when its destination receives it.
LEMMA PurgedStep ==
  ASSUME TypeOK, MessagesAreTruthful, PurgedIsDelivered, [Next]_vars
  PROVE  PurgedIsDelivered'
<1>g. \A n \in Nodes : known[n] \subseteq known'[n]
  BY KnownGrows
<1>d. \A b \in Bundles : Dest[b] \in Nodes
  BY HandshakeAssumption
<1>p. \A n \in Nodes : purged[n] \subseteq Bundles
  BY DEF TypeOK
<1>1. CASE purged' = purged
  BY <1>1, <1>g, <1>d, <1>p DEF PurgedIsDelivered
<1>2. ASSUME NEW x \in net, BundleArrives(x)
      PROVE  PurgedIsDelivered'
  <2>1. /\ x.from \in Nodes /\ x.to \in Nodes /\ x.bundle \in Bundles
        /\ x.bundle \in known'[x.to]
    BY <1>2, CarriedIsKnown DEF BundleArrives, TypeOK
  <2>2. ASSUME NEW n \in Nodes, NEW b \in purged'[n]
        PROVE  b \in purged[n] \/ (b = x.bundle /\ Dest[b] = x.to)
    BY <1>2, <2>1 DEF BundleArrives, Delivered, TypeOK
  <2> QED
    BY <2>1, <2>2, <1>g, <1>d, <1>p DEF PurgedIsDelivered
<1> QED
  BY <1>1, <1>2, StorageStep DEF Generate, nodeVars

\* The initial state: nobody believes or has anything.
LEMMA InitInv == Init => Inv
<1> SUFFICES ASSUME Init
             PROVE  Inv
  OBVIOUS
<1>1. TypeOK
  BY TypeInit
<1>2. OwnIsKnown
  BY DEF Init, OwnIsKnown
<1>3. MessagesAreTruthful
  BY DEF Init, MessagesAreTruthful
<1>4. BeliefsAreSound
  BY HandshakeAssumption DEF Init, BeliefsAreSound, FilterIsSound, PurgedIsDelivered
<1>5. NoBundleVanishes
  BY HandshakeAssumption DEF Init, NoBundleVanishes
<1> QED
  BY <1>1, <1>2, <1>3, <1>4, <1>5 DEF Inv

-----------------------------------------------------------------------------
(* No bundle vanishes.                                                     *)

\* A copy is dropped only by the node that has just given the bundle to its
\* destination.
LEMMA VanishStep ==
  ASSUME TypeOK, MessagesAreTruthful, NoBundleVanishes, [Next]_vars
  PROVE  NoBundleVanishes'
<1>g. \A n \in Nodes : known[n] \subseteq known'[n]
  BY KnownGrows
<1>d. \A b \in Bundles : Source[b] \in Nodes /\ Dest[b] \in Nodes
  BY HandshakeAssumption
<1>1. CASE UNCHANGED nodeVars
  BY <1>1 DEF NoBundleVanishes, nodeVars
<1>2. ASSUME NEW c \in Bundles, Generate(c)
      PROVE  NoBundleVanishes'
  <2>1. ASSUME NEW b \in Bundles, NEW n \in Nodes, b \in known'[n]
        PROVE  b \in known[n] \/ b \in storage'[n]
    BY <1>2, <2>1, <1>d DEF Generate, TypeOK
  <2>2. ASSUME NEW n \in Nodes
        PROVE  storage[n] \subseteq storage'[n]
    BY <1>2, <1>d DEF Generate, TypeOK
  <2> QED
    BY <2>1, <2>2, <1>g, <1>d DEF NoBundleVanishes
<1>3. ASSUME NEW x \in net, BundleArrives(x)
      PROVE  NoBundleVanishes'
  <2>1. /\ x.from \in Nodes /\ x.to \in Nodes /\ x.bundle \in Bundles
        /\ x.bundle \in known'[x.to]
    BY <1>3, CarriedIsKnown DEF BundleArrives, TypeOK
  <2>2. ASSUME NEW b \in Bundles, NEW n \in Nodes, b \in known'[n]
        PROVE  b \in known[n] \/ b \in storage'[n]
    BY <1>3, <2>1, <2>2 DEF BundleArrives, TypeOK
  <2>3. ASSUME NEW b \in Bundles, NEW n \in Nodes, b \in storage[n]
        PROVE  b \in storage'[n] \/ b \in known'[Dest[b]]
    <3>1. CASE b = x.bundle /\ Delivered(x)
      BY <3>1, <2>1 DEF Delivered
    <3>2. CASE ~(b = x.bundle /\ Delivered(x))
      BY <1>3, <2>1, <2>3, <3>2 DEF BundleArrives, TypeOK
    <3> QED
      BY <3>1, <3>2
  <2> QED
    BY <2>2, <2>3, <1>g, <1>d DEF NoBundleVanishes
<1> QED
  BY <1>1, <1>2, <1>3, StorageStep

\* Every step of every node keeps the invariant.
LEMMA NextInv == Inv /\ [Next]_vars => Inv'
  BY TypeStep, OwnStep, MessagesStep, FilterStep, PurgedStep, VanishStep
  DEF Inv, BeliefsAreSound

\* Nodes, bundles, links and vectors are always well typed.
THEOREM TypeCorrect == Spec => []TypeOK
<1>1. Inv => TypeOK
  BY DEF Inv
<1> QED
  BY <1>1, InitInv, NextInv, PTL DEF Spec

\* In every network, whatever is lost, late or repeated: a node never
\* believes of a neighbour that it has seen a bundle it has not, and never
\* takes a bundle for delivered that has not reached its destination.  So
\* epidemic routing withholds no bundle from a node that lacks it.
THEOREM SoundBeliefs == Spec => []BeliefsAreSound
<1>1. Inv => BeliefsAreSound
  BY DEF Inv
<1> QED
  BY <1>1, InitInv, NextInv, PTL DEF Spec

\* In every network a bundle that was created is stored somewhere until its
\* destination has seen it, whatever transfers fail and whatever is purged.
THEOREM BundlesAreKept == Spec => []NoBundleVanishes
<1>1. Inv => NoBundleVanishes
  BY DEF Inv
<1> QED
  BY <1>1, InitInv, NextInv, PTL DEF Spec

-----------------------------------------------------------------------------
(* The connection manager: what the routing has been told.                 *)

\* An event tells the routing of p.
About(e, p) == e.peer = p /\ e.kind \in {"available", "unavailable"}

\* The last of the first k events that does.
LastAbout(es, p, k, m) ==
  m \in 1..k /\ About(es[m], p) /\ \A j \in 1..k : About(es[j], p) => j <= m

NoneAbout(es, p, k) == \A j \in 1..k : ~About(es[j], p)

\* Either there is none, or there is a last one.
LEMMA LastExists ==
  ASSUME NEW es, NEW p, NEW k \in Nat
  PROVE  NoneAbout(es, p, k) \/ \E m : LastAbout(es, p, k, m)
<1> DEFINE T == {n \in Nat : \E j \in 1..k : About(es[j], p) /\ n = k - j}
<1>1. CASE T = {}
  <2>1. ASSUME NEW j \in 1..k, About(es[j], p)
        PROVE  FALSE
    <3>1. k - j \in Nat
      OBVIOUS
    <3>2. k - j \in T
      BY <2>1, <3>1
    <3> QED
      BY <1>1, <3>2
  <2> QED
    BY <2>1 DEF NoneAbout
<1>2. CASE T # {}
  <2>1. PICK n \in T : \A y \in T : n <= y
    BY <1>2, LeastNumber
  <2>2. PICK m \in 1..k : About(es[m], p) /\ n = k - m
    BY <2>1
  <2>3. ASSUME NEW j \in 1..k, About(es[j], p)
        PROVE  j <= m
    <3>1. k - j \in Nat
      OBVIOUS
    <3>2. k - j \in T
      BY <2>3, <3>1
    <3>3. k - m <= k - j
      BY <2>1, <2>2, <3>2
    <3> QED
      BY <3>3
  <2> QED
    BY <2>2, <2>3 DEF LastAbout
<1> QED
  BY <1>1, <1>2

\* What the routing was told last.
LEMMA ToldNone ==
  ASSUME NEW es, NEW p, NEW k \in Nat, NEW b \in BOOLEAN, NoneAbout(es, p, k)
  PROVE  Told(es, b, p, k) <=> b
<1>1. {i \in 1..k : es[i].peer = p /\ es[i].kind \in {"available", "unavailable"}} = {}
  BY DEF NoneAbout, About
<1> QED
  BY <1>1 DEF Told

LEMMA ToldLast ==
  ASSUME NEW es, NEW p, NEW k \in Nat, NEW b \in BOOLEAN, NEW m, LastAbout(es, p, k, m)
  PROVE  Told(es, b, p, k) <=> es[m].kind = "available"
<1> DEFINE S == {i \in 1..k : es[i].peer = p /\ es[i].kind \in {"available", "unavailable"}}
           c == CHOOSE i \in S : \A j \in S : j <= i
<1>1. m \in S /\ \A j \in S : j <= m
  BY DEF LastAbout, About
<1>2. c \in S /\ \A j \in S : j <= c
  BY <1>1
<1>3. c <= m /\ m <= c /\ c \in Int /\ m \in Int
  BY <1>1, <1>2
<1>4. c = m
  BY <1>3
<1>5. Told(es, b, p, k) <=> es[c].kind = "available"
  BY <1>1 DEF Told
<1> QED
  BY <1>4, <1>5

\* Only the first k events matter.
LEMMA ToldSame ==
  ASSUME NEW es, NEW fs, NEW p, NEW k \in Nat, NEW b \in BOOLEAN,
         \A i \in 1..k : es[i] = fs[i]
  PROVE  Told(es, b, p, k) <=> Told(fs, b, p, k)
<1>1. CASE NoneAbout(es, p, k)
  <2>1. NoneAbout(fs, p, k)
    BY <1>1 DEF NoneAbout
  <2> QED
    BY <1>1, <2>1, ToldNone
<1>2. CASE \E m : LastAbout(es, p, k, m)
  <2>1. PICK m : LastAbout(es, p, k, m)
    BY <1>2
  <2>2. LastAbout(fs, p, k, m) /\ es[m] = fs[m]
    BY <2>1 DEF LastAbout
  <2> QED
    BY <2>1, <2>2, ToldLast
<1> QED
  BY <1>1, <1>2, LastExists

\* One event more.
LEMMA ToldMore ==
  ASSUME NEW es, NEW p, NEW k \in Nat, NEW b \in BOOLEAN
  PROVE  /\ About(es[k + 1], p) => (Told(es, b, p, k + 1) <=> es[k + 1].kind = "available")
         /\ ~About(es[k + 1], p) => (Told(es, b, p, k + 1) <=> Told(es, b, p, k))
<1>0. k + 1 \in Nat /\ \A j \in 1..(k + 1) : j \in 1..k \/ j = k + 1
  OBVIOUS
<1>1. CASE About(es[k + 1], p)
  <2>1. LastAbout(es, p, k + 1, k + 1)
    BY <1>1 DEF LastAbout
  <2> QED
    BY <1>0, <1>1, <2>1, ToldLast
<1>2. CASE ~About(es[k + 1], p)
  <2>1. CASE NoneAbout(es, p, k)
    <3>1. NoneAbout(es, p, k + 1)
      BY <1>0, <1>2, <2>1 DEF NoneAbout
    <3> QED
      BY <1>0, <1>2, <2>1, <3>1, ToldNone
  <2>2. CASE \E m : LastAbout(es, p, k, m)
    <3>1. PICK m : LastAbout(es, p, k, m)
      BY <2>2
    <3>2. LastAbout(es, p, k + 1, m)
      BY <1>0, <1>2, <3>1 DEF LastAbout
    <3> QED
      BY <1>0, <1>2, <3>1, <3>2, ToldLast
  <2> QED
    BY <2>1, <2>2, LastExists
<1> QED
  BY <1>1, <1>2

\* What is told after the first event, if c was told by it or before.
LEMMA ToldLater ==
  ASSUME NEW es, NEW fs, NEW p, NEW k \in Nat, NEW b \in BOOLEAN, NEW c \in BOOLEAN,
         \A i \in 1..k : fs[i] = es[i + 1],
         c <=> IF About(es[1], p) THEN es[1].kind = "available" ELSE b
  PROVE  Told(fs, c, p, k) <=> Told(es, b, p, k + 1)
<1>0. k + 1 \in Nat /\ 1 \in 1..(k + 1)
  OBVIOUS
<1>1. CASE NoneAbout(fs, p, k)
  <2>1. ASSUME NEW j \in 1..(k + 1), j # 1
        PROVE  ~About(es[j], p)
    <3>1. j - 1 \in 1..k /\ (j - 1) + 1 = j
      BY <2>1
    <3>2. fs[j - 1] = es[j]
      BY <3>1
    <3> QED
      BY <1>1, <3>1, <3>2 DEF NoneAbout
  <2>2. CASE About(es[1], p)
    <3>1. LastAbout(es, p, k + 1, 1)
      BY <1>0, <2>1, <2>2 DEF LastAbout
    <3> QED
      BY <1>0, <1>1, <2>2, <3>1, ToldNone, ToldLast
  <2>3. CASE ~About(es[1], p)
    <3>1. NoneAbout(es, p, k + 1)
      BY <2>1, <2>3 DEF NoneAbout
    <3> QED
      BY <1>0, <1>1, <2>3, <3>1, ToldNone
  <2> QED
    BY <2>2, <2>3
<1>2. CASE \E m : LastAbout(fs, p, k, m)
  <2>1. PICK m : LastAbout(fs, p, k, m)
    BY <1>2
  <2>2. m \in 1..k /\ m + 1 \in 1..(k + 1) /\ es[m + 1] = fs[m]
    BY <2>1 DEF LastAbout
  <2>3. ASSUME NEW j \in 1..(k + 1), About(es[j], p)
        PROVE  j <= m + 1
    <3>1. CASE j = 1
      BY <2>2, <3>1
    <3>2. CASE j # 1
      <4>1. j - 1 \in 1..k /\ (j - 1) + 1 = j
        BY <3>2
      <4>2. fs[j - 1] = es[j]
        BY <4>1
      <4>3. j - 1 <= m
        BY <2>1, <2>3, <4>1, <4>2 DEF LastAbout
      <4> QED
        BY <2>2, <4>3
    <3> QED
      BY <3>1, <3>2
  <2>4. LastAbout(es, p, k + 1, m + 1)
    BY <2>1, <2>2, <2>3 DEF LastAbout
  <2> QED
    BY <1>0, <2>1, <2>2, <2>4, ToldLast
<1> QED
  BY <1>1, <1>2, LastExists

\* Events that do not tell of p change nothing.
LEMMA ToldQuiet ==
  ASSUME NEW es, NEW p, NEW n \in Nat, NEW k \in Nat, n <= k, NEW b \in BOOLEAN,
         \A i \in 1..k : i > n => ~About(es[i], p)
  PROVE  Told(es, b, p, k) <=> Told(es, b, p, n)
<1>1. CASE NoneAbout(es, p, n)
  <2>1. NoneAbout(es, p, k)
    BY <1>1 DEF NoneAbout
  <2> QED
    BY <1>1, <2>1, ToldNone
<1>2. CASE \E m : LastAbout(es, p, n, m)
  <2>1. PICK m : LastAbout(es, p, n, m)
    BY <1>2
  <2>2. LastAbout(es, p, k, m)
    BY <2>1 DEF LastAbout
  <2> QED
    BY <2>1, <2>2, ToldLast
<1> QED
  BY <1>1, <1>2, LastExists

\* The events es, with b before them, make p a neighbour or not, as l says, and
\* each of them is news.
News(es, b, p, i) ==
  /\ es[i].kind = "available" => ~Told(es, b, p, i - 1)
  /\ es[i].kind = "unavailable" => Told(es, b, p, i - 1)

Listed(es, b, p, l) ==
  /\ Told(es, b, p, Len(es)) <=> l
  /\ \A i \in 1..Len(es) : es[i].peer = p => News(es, b, p, i)

\* fs has more events than es; at most one of these tells of p, and is news.
LEMMA ListedGrows ==
  ASSUME NEW es, NEW fs, NEW p, NEW b \in BOOLEAN, NEW l \in BOOLEAN, NEW m \in BOOLEAN,
         Len(es) \in Nat, Len(fs) \in Nat, Len(es) <= Len(fs),
         \A i \in 1..Len(es) : fs[i] = es[i],
         Listed(es, b, p, l),
         \/ /\ \A i \in 1..Len(fs) : i > Len(es) => ~About(fs[i], p)
            /\ m <=> l
         \/ \E d \in 1..Len(fs) :
              /\ d > Len(es) /\ About(fs[d], p)
              /\ \A i \in 1..Len(fs) : i > Len(es) /\ i # d => ~About(fs[i], p)
              /\ fs[d].kind = "available" <=> m
              /\ m <=> ~l
  PROVE  Listed(fs, b, p, m)
<1> DEFINE n == Len(es)
<1>1. Told(fs, b, p, n) <=> l
  BY ToldSame DEF Listed
<1>2. ASSUME NEW i \in 1..n, fs[i].peer = p
      PROVE  News(fs, b, p, i)
  <2>1. i - 1 \in Nat /\ \A j \in 1..(i - 1) : es[j] = fs[j]
    OBVIOUS
  <2>2. Told(es, b, p, i - 1) <=> Told(fs, b, p, i - 1)
    BY <2>1, ToldSame
  <2>3. News(es, b, p, i) /\ es[i] = fs[i]
    BY <1>2 DEF Listed
  <2> QED
    BY <2>2, <2>3 DEF News
<1>3. CASE /\ \A i \in 1..Len(fs) : i > n => ~About(fs[i], p)
           /\ m <=> l
  <2>1. Told(fs, b, p, Len(fs)) <=> l
    BY <1>1, <1>3, ToldQuiet
  <2>2. ASSUME NEW i \in 1..Len(fs), fs[i].peer = p
        PROVE  News(fs, b, p, i)
    <3>1. CASE i \in 1..n
      BY <1>2, <2>2, <3>1
    <3>2. CASE i > n
      BY <1>3, <2>2, <3>2 DEF About, News
    <3> QED
      BY <3>1, <3>2
  <2> QED
    BY <1>3, <2>1, <2>2 DEF Listed
<1>4. ASSUME NEW d \in 1..Len(fs), d > n, About(fs[d], p),
             \A i \in 1..Len(fs) : i > n /\ i # d => ~About(fs[i], p),
             fs[d].kind = "available" <=> m, m <=> ~l
      PROVE  Listed(fs, b, p, m)
  <2>1. LastAbout(fs, p, Len(fs), d)
    BY <1>4 DEF LastAbout
  <2>2. Told(fs, b, p, Len(fs)) <=> m
    BY <1>4, <2>1, ToldLast
  <2>3. d - 1 \in Nat /\ n <= d - 1 /\ \A i \in 1..(d - 1) : i > n => ~About(fs[i], p)
    BY <1>4
  <2>4. Told(fs, b, p, d - 1) <=> l
    BY <1>1, <2>3, ToldQuiet
  <2>5. ASSUME NEW i \in 1..Len(fs), fs[i].peer = p
        PROVE  News(fs, b, p, i)
    <3>1. CASE i \in 1..n
      BY <1>2, <2>5, <3>1
    <3>2. CASE i = d
      BY <1>4, <2>4, <3>2 DEF News, About
    <3>3. CASE i > n /\ i # d
      BY <1>4, <2>5, <3>3 DEF About, News
    <3> QED
      BY <3>1, <3>2, <3>3
  <2> QED
    BY <2>2, <2>5 DEF Listed
<1> QED
  BY <1>3, <1>4

\* The first event is handled.
LEMMA ListedLater ==
  ASSUME NEW es, NEW fs, NEW p, NEW b \in BOOLEAN, NEW c \in BOOLEAN, NEW l \in BOOLEAN,
         Len(es) \in Nat \ {0}, Len(fs) = Len(es) - 1,
         \A i \in 1..Len(fs) : fs[i] = es[i + 1],
         Listed(es, b, p, l),
         c <=> IF About(es[1], p) THEN es[1].kind = "available" ELSE b
  PROVE  Listed(fs, c, p, l)
<1>1. Len(fs) \in Nat /\ Len(fs) + 1 = Len(es)
  OBVIOUS
<1>2. Told(fs, c, p, Len(fs)) <=> l
  <2>1. Told(fs, c, p, Len(fs)) <=> Told(es, b, p, Len(fs) + 1)
    BY <1>1, ToldLater
  <2> QED
    BY <1>1, <2>1 DEF Listed
<1>3. ASSUME NEW i \in 1..Len(fs), fs[i].peer = p
      PROVE  News(fs, c, p, i)
  <2>1. /\ i - 1 \in Nat /\ i + 1 \in 1..Len(es) /\ (i - 1) + 1 = (i + 1) - 1
        /\ \A j \in 1..(i - 1) : fs[j] = es[j + 1]
    <3>1. i \in Nat /\ 1 <= i /\ i <= Len(fs)
      BY <1>1
    <3>2. \A j \in 1..(i - 1) : j \in 1..Len(fs)
      BY <1>1, <3>1
    <3>3. i - 1 \in Nat /\ i + 1 \in 1..Len(es) /\ (i - 1) + 1 = (i + 1) - 1
      BY <1>1, <3>1
    <3> QED
      BY <3>2, <3>3
  <2>2. Told(fs, c, p, i - 1) <=> Told(es, b, p, (i + 1) - 1)
    <3>1. ASSUME NEW k \in Nat, \A j \in 1..k : fs[j] = es[j + 1]
          PROVE  Told(fs, c, p, k) <=> Told(es, b, p, k + 1)
      BY <3>1, ToldLater
    <3>2. PICK k \in Nat : k = i - 1
      BY <2>1
    <3>3. k + 1 = (i + 1) - 1 /\ \A j \in 1..k : fs[j] = es[j + 1]
      BY <2>1, <3>2
    <3> QED
      BY <3>1, <3>2, <3>3
  <2>3. News(es, b, p, i + 1) /\ fs[i] = es[i + 1]
    BY <1>3, <2>1 DEF Listed
  <2> QED
    BY <2>1, <2>2, <2>3 DEF News
<1> QED
  BY <1>2, <1>3 DEF Listed

-----------------------------------------------------------------------------
(* The connection manager: its invariant.                                  *)

\* A connection is in the list while it is anything; one that was opened has the
\* peer it is named after and was set up with an address.
ConnectionOK(k, c) ==
  /\ c \in Peers /\ k.state # "none" => k.peer = c
  /\ k.state = "setup" => c \in Peers /\ Has(k.node, "tcp")
  /\ k.state \in {"handshake", "up"} =>
       \E v \in Nat : k.node = Connected(v) /\ (c \in Inbound <=> v = Unspecified)
  /\ k.state = "up" => k.peer \in Peers

ConnectionsOK ==
  \A c \in Conns : /\ ConnectionOK(conn[c], c)
                   /\ conn[c].state # "none" <=> c \in conns

\* The URI of a connection does not expire.
UrisOK == \A p \in Peers : \A x \in uris[p] : x.uri.type = "connected" => x.left = 0

\* What the events carry.
EventOK(e) ==
  /\ e.kind = "info" => \A x \in e.node : x.uri.type = "discovered"
  /\ e.kind \in {"up", "down"} => \E v \in Nat : e.node = Connected(v)

EventsOK == \A i \in 1..Len(events) : EventOK(events[i])

IsUp(c, e) == conn[c].state = "up" /\ conn[c].peer = e.peer /\ conn[c].node = e.node

\* A connection that was reported up is up or will be reported down.
UpsEnd ==
  \A i \in 1..Len(events) : events[i].kind = "up" =>
    \/ \E c \in Conns : IsUp(c, events[i])
    \/ \E j \in 1..Len(events) : j > i /\ events[j] = Event("down", events[i].peer, events[i].node)

\* A URI of type connected belongs to a connection that is up, or will be removed.
Justified(p, x) ==
  \/ \E c \in Conns : conn[c].state = "up" /\ conn[c].peer = p /\ x \in conn[c].node
  \/ \E i \in 1..Len(events) : events[i] = Event("down", p, {x})

UrisJustified == \A p \in Peers : \A x \in uris[p] : x.uri.type = "connected" => Justified(p, x)

\* A connection that is up is known or will be, and nothing is to undo that.
UpKnown(c) ==
  LET p == conn[c].peer  n == conn[c].node IN
  \/ \E i \in 1..Len(events) :
       /\ events[i] = Event("up", p, n)
       /\ \A j \in 1..Len(events) : j > i => events[j] # Event("down", p, n)
  \/ /\ n \subseteq uris[p]
     /\ \A j \in 1..Len(events) : events[j] # Event("down", p, n)

UpsKnown == \A c \in Conns : conn[c].state = "up" => UpKnown(c)

RoutingKnows == \A p \in Peers : Listed(events, p \in announced, p, p \in Elements(list))

ManagerInv ==
  /\ ManagerTypeOK /\ ConnectionsOK /\ UrisOK /\ EventsOK
  /\ UpsEnd /\ UrisJustified /\ RoutingKnows

\* Two accepted connections of one peer cannot be told apart by their URIs.
OneInbound == \A c, d \in Inbound : c = d

-----------------------------------------------------------------------------
(* The connection manager: operators of the model.                         *)

\* The URI of a connection.
LEMMA ConnectedFacts ==
  ASSUME NEW v \in Nat
  PROVE  /\ Connected(v) \in NodeInfo
         /\ \A x \in Connected(v) : /\ x.uri.type = "connected" /\ x.uri.proto = "tcp" /\ x.left = 0
                                    /\ x.uri.value = v /\ Connected(v) = {x}
         /\ \E x : x \in Connected(v)
<1>1. [type |-> "connected", proto |-> "tcp", value |-> v] \in URI
  BY DEF URI, Protocols
<1>2. 0 \in 0..Timeout
  BY ManagerAssumption
<1> DEFINE u == [type |-> "connected", proto |-> "tcp", value |-> v]
           y == [uri |-> u, left |-> 0]
<1>3. Connected(v) = {y} /\ y.uri = u /\ y.left = 0
  BY DEF Connected
<1>4. y \in Timed
  BY <1>1, <1>2 DEF Timed
<1>5. Connected(v) \in NodeInfo
  BY <1>3, <1>4 DEF NodeInfo
<1>6. u.type = "connected" /\ u.proto = "tcp" /\ u.value = v
  OBVIOUS
<1> HIDE DEF y, u
<1>7. \A x \in Connected(v) : x = y
  BY <1>3
<1> QED
  BY <1>3, <1>5, <1>6, <1>7

\* Adding and removing the URIs of another node.
LEMMA PlusMinus ==
  ASSUME NEW n \in NodeInfo, NEW o \in NodeInfo
  PROVE  /\ Plus(n, o) \in NodeInfo /\ Minus(n, o) \in NodeInfo
         /\ \A x \in Plus(n, o) : x \in n \/ x \in o
         /\ Minus(n, o) \subseteq n
         /\ o \subseteq Plus(n, o)
         /\ \A x \in n : (\A y \in o : x.uri # y.uri) => x \in Plus(n, o) /\ x \in Minus(n, o)
         /\ \A x \in Minus(n, o) : \A y \in o : x.uri # y.uri
  BY DEF Plus, Minus, Uris, NodeInfo

\* A URI with its time.
LEMMA TimedFields ==
  ASSUME NEW x \in Timed
  PROVE  /\ x.uri \in URI /\ x.left \in 0..Timeout /\ x.left \in Nat
         /\ x = [uri |-> x.uri, left |-> x.left]
<1>1. x.uri \in URI /\ x.left \in 0..Timeout /\ x = [uri |-> x.uri, left |-> x.left]
  BY DEF Timed
<1> QED
  BY <1>1

\* A second takes no URI without an end, and adds none.
LEMMA ExpireFacts ==
  ASSUME NEW n \in NodeInfo
  PROVE  /\ Expire(n) \in NodeInfo
         /\ \A x \in n : x.left = 0 => x \in Expire(n)
         /\ \A x \in Expire(n) : \E y \in n : x.uri = y.uri /\ (y.left = 0 => x = y)
<1> DEFINE less(y) == [y EXCEPT !.left = IF y.left = 0 THEN 0 ELSE y.left - 1]
<1>1. ASSUME NEW y \in n
      PROVE  less(y) \in Timed /\ less(y).uri = y.uri /\ (y.left = 0 => less(y) = y)
  <2>1. y \in Timed /\ y.left \in Nat /\ y.left <= Timeout /\ Timeout \in Nat
    BY ManagerAssumption, TimedFields DEF NodeInfo, Timed
  <2>2. ASSUME NEW t \in 0..Timeout
        PROVE  [y EXCEPT !.left = t] \in Timed /\ [y EXCEPT !.left = t].uri = y.uri
    BY <2>1 DEF Timed
  <2>3. (IF y.left = 0 THEN 0 ELSE y.left - 1) \in 0..Timeout
    BY <2>1
  <2>4. y.left = 0 => [y EXCEPT !.left = 0] = y
    BY <2>1, TimedFields
  <2> QED
    BY <2>2, <2>3, <2>4
<1>2. Expire(n) = {less(x) : x \in {y \in n : y.left # 1}}
  BY DEF Expire
<1> HIDE DEF less
<1>3. Expire(n) \in NodeInfo
  BY <1>1, <1>2 DEF NodeInfo
<1>4. ASSUME NEW x \in n, x.left = 0
      PROVE  x \in Expire(n)
  BY <1>1, <1>2, <1>4
<1>5. ASSUME NEW x \in Expire(n)
      PROVE  \E y \in n : x.uri = y.uri /\ (y.left = 0 => x = y)
  BY <1>1, <1>2
<1> QED
  BY <1>3, <1>4, <1>5

\* The URIs of an announcement and of the configuration.
LEMMA TypedFacts ==
  ASSUME NEW t \in {"discovered", "static"}, NEW E \in SUBSET Entry, NEW l \in 0..Timeout
  PROVE  /\ Typed(t, E, l) \in NodeInfo
         /\ \A x \in Typed(t, E, l) : x.uri.type = t
         /\ E # {} => Typed(t, E, l) # {}
<1>1. ASSUME NEW e \in E
      PROVE  /\ [uri |-> [type |-> t, proto |-> e.proto, value |-> e.value], left |-> l] \in Timed
             /\ [uri |-> [type |-> t, proto |-> e.proto, value |-> e.value], left |-> l].uri.type = t
  BY DEF Timed, URI, Entry
<1> QED
  BY <1>1 DEF Typed, NodeInfo

\* The convergence layer is the TCP one only for a node with such an address.
LEMMA LayerHas ==
  ASSUME NEW n, LayerOf(n) = "tcp"
  PROVE  Has(n, "tcp")
<1> DEFINE ok == {i \in 1..Len(Layers) : Has(n, Layers[i])}
<1>1. ok # {}
  BY ManagerAssumption DEF LayerOf, Protocols
<1>2. ok \in SUBSET Nat
  OBVIOUS
<1>3. \E i \in ok : \A j \in ok : i <= j
  BY <1>1, <1>2, LeastNumber
<1> QED
  BY <1>1, <1>3 DEF LayerOf

\* The first address is one of the node.
LEMMA FrontIs ==
  ASSUME NEW n \in NodeInfo, Has(n, "tcp")
  PROVE  FrontTCP(n) \in Uris(n) /\ FrontTCP(n).proto = "tcp" /\ FrontTCP(n).value \in Nat
<1> DEFINE U == {u \in Uris(n) : u.proto = "tcp"}
           R == {Rank(u) : u \in U}
<1>1. /\ \A u \in U : u \in URI /\ Rank(u) \in Nat /\ u.value \in Nat
      /\ \A u, v \in U : Rank(u) = Rank(v) => u.type = v.type
      /\ U # {}
  BY DEF Uris, NodeInfo, Timed, URI, Rank, Has
<1>2. PICK k \in R : \A j \in R : k <= j
  BY <1>1, LeastNumber
<1> DEFINE V == {u.value : u \in {w \in U : Rank(w) = k}}
<1>3. PICK m \in V : \A j \in V : m <= j
  <2>1. V \in SUBSET Nat /\ V # {}
    BY <1>1, <1>2
  <2> QED
    BY <2>1, LeastNumber
<1>4. PICK u \in U : Rank(u) = k /\ u.value = m
  BY <1>3
<1>5. ASSUME NEW v \in Uris(n) \ {u}, v.proto = "tcp"
      PROVE  Before(u, v)
  <2>1. v \in U /\ k <= Rank(v) /\ Rank(v) \in Nat /\ k \in Nat
    BY <1>1, <1>2, <1>5
  <2>2. CASE Rank(v) = k
    <3>1. u.type = v.type /\ m <= v.value /\ m \in Nat /\ v.value \in Nat
      BY <1>1, <1>3, <1>4, <2>1, <2>2
    <3>2. u.value # v.value
      BY <1>1, <1>4, <1>5, <2>1, <3>1 DEF URI
    <3> QED
      BY <1>4, <3>1, <3>2 DEF Before
  <2>3. CASE Rank(v) # k
    BY <1>4, <2>1, <2>3 DEF Before
  <2> QED
    BY <2>2, <2>3
<1>6. FrontTCP(n) \in Uris(n) /\ FrontTCP(n).proto = "tcp"
  BY <1>4, <1>5 DEF FrontTCP
<1> QED
  BY <1>1, <1>6

-----------------------------------------------------------------------------
(* The connection manager: events and connections in a step.               *)

\* The fields of an event, and an event by its fields.
LEMMA EventFields ==
  ASSUME NEW k \in {"info", "available", "unavailable", "up", "down"}, NEW p \in Peers,
         NEW n \in NodeInfo
  PROVE  /\ Event(k, p, n) \in EventType
         /\ Event(k, p, n).kind = k /\ Event(k, p, n).peer = p /\ Event(k, p, n).node = n
  BY DEF Event, EventType

LEMMA EventParts ==
  ASSUME NEW e \in EventType
  PROVE  /\ e.kind \in {"info", "available", "unavailable", "up", "down"}
         /\ e.peer \in Peers /\ e.node \in NodeInfo
         /\ e = Event(e.kind, e.peer, e.node)
  BY DEF Event, EventType

\* The types, taken apart for the proofs below.
LEMMA ManagerTyped ==
  ASSUME ManagerTypeOK
  PROVE  /\ Len(events) \in Nat /\ \A i \in 1..Len(events) : events[i] \in EventType
         /\ \A p \in Peers : uris[p] \in NodeInfo
         /\ \A c \in Conns : conn[c] \in ConnType
         /\ Len(list) \in Nat /\ \A i \in 1..Len(list) : list[i] \in Peers
  BY DEF ManagerTypeOK

\* The first k events are handled, others that are in S follow.
EventsMove(k, S) ==
  /\ events' \in Seq(EventType) /\ k \in {0, 1} /\ k <= Len(events)
  /\ Len(events') >= Len(events) - k
  /\ \A i \in 1..Len(events') :
       IF i + k <= Len(events) THEN events'[i] = events[i + k] ELSE events'[i] \in S

\* An event that is not handled moves up.
LEMMA EventMoves ==
  ASSUME ManagerTypeOK, NEW k, NEW S, EventsMove(k, S)
  PROVE  /\ Len(events') \in Nat /\ Len(events) \in Nat /\ k \in Nat
         /\ \A i \in 1..Len(events) : i > k =>
              i - k \in 1..Len(events') /\ events'[i - k] = events[i]
         /\ \A i \in 1..Len(events') :
              \/ i + k \in 1..Len(events) /\ events'[i] = events[i + k]
              \/ i > Len(events) - k /\ events'[i] \in S
<1>1. Len(events') \in Nat /\ Len(events) \in Nat /\ k \in Nat
  BY DEF EventsMove, ManagerTypeOK
<1>2. ASSUME NEW i \in 1..Len(events), i > k
      PROVE  i - k \in 1..Len(events') /\ events'[i - k] = events[i]
  <2>1. i - k \in 1..Len(events') /\ (i - k) + k = i
    BY <1>1, <1>2 DEF EventsMove
  <2>2. IF (i - k) + k <= Len(events)
        THEN events'[i - k] = events[(i - k) + k] ELSE events'[i - k] \in S
    BY <2>1, Zenon DEF EventsMove
  <2> QED
    BY <1>1, <2>1, <2>2
<1>3. ASSUME NEW i \in 1..Len(events')
      PROVE  \/ i + k \in 1..Len(events) /\ events'[i] = events[i + k]
             \/ i > Len(events) - k /\ events'[i] \in S
  <2>1. IF i + k <= Len(events) THEN events'[i] = events[i + k] ELSE events'[i] \in S
    BY Zenon DEF EventsMove
  <2> QED
    BY <1>1, <1>3, <2>1
<1> QED
  BY <1>1, <1>2, <1>3

\* A connection that is up stays, or is reported down.
UpOrDown(k) ==
  \A c \in Conns : conn[c].state = "up" =>
    \/ conn'[c] = conn[c]
    \/ \E j \in 1..Len(events') :
         /\ j > Len(events) - k
         /\ events'[j] = Event("down", conn[c].peer, conn[c].node)

\* How the parts of the invariant about connections survive a step.
LEMMA UpsEndStay ==
  ASSUME ManagerTypeOK, UpsEnd, NEW k, NEW S, EventsMove(k, S), UpOrDown(k),
         \A e \in S : e.kind = "up" => \E c \in Conns : IsUp(c, e)'
  PROVE  UpsEnd'
<1> SUFFICES ASSUME NEW i \in 1..Len(events'), events'[i].kind = "up"
             PROVE  \/ \E c \in Conns : IsUp(c, events[i])'
                    \/ \E j \in 1..Len(events') :
                         j > i /\ events'[j] = Event("down", events'[i].peer, events'[i].node)
  BY DEF UpsEnd
<1> USE EventMoves
<1>1. CASE i > Len(events) - k /\ events'[i] \in S
  BY <1>1 DEF IsUp
<1>2. CASE i + k \in 1..Len(events) /\ events'[i] = events[i + k]
  <2>1. CASE \E c \in Conns : IsUp(c, events[i + k])
    <3>1. PICK c \in Conns : IsUp(c, events[i + k])
      BY <2>1
    <3>2. CASE conn'[c] = conn[c]
      BY <1>2, <3>1, <3>2 DEF IsUp
    <3>3. CASE conn'[c] # conn[c]
      <4>1. PICK j \in 1..Len(events') :
              /\ j > Len(events) - k
              /\ events'[j] = Event("down", conn[c].peer, conn[c].node)
        BY <3>1, <3>3 DEF UpOrDown, IsUp
      <4>2. j > i
        BY <1>2, <4>1
      <4> QED
        BY <1>2, <3>1, <4>1, <4>2 DEF IsUp
    <3> QED
      BY <3>2, <3>3
  <2>2. CASE ~\E c \in Conns : IsUp(c, events[i + k])
    <3>1. PICK j \in 1..Len(events) :
            j > i + k /\ events[j] = Event("down", events[i + k].peer, events[i + k].node)
      BY <1>2, <2>2 DEF UpsEnd
    <3>2. j > k /\ j - k > i
      BY <3>1
    <3> QED
      BY <1>2, <3>1, <3>2
  <2> QED
    BY <2>1, <2>2
<1> QED
  BY <1>1, <1>2

\* The URIs of connections keep their reason, or find one.
LEMMA UrisStayJustified ==
  ASSUME ManagerTypeOK, UrisJustified, NEW k, NEW S, EventsMove(k, S), UpOrDown(k),
         ConnectionsOK,
         \A p \in Peers : \A x \in uris'[p] : x.uri.type = "connected" =>
           \/ x \in uris[p] /\ (k = 0 \/ events[1] # Event("down", p, {x}))
           \/ Justified(p, x)'
  PROVE  UrisJustified'
<1> SUFFICES ASSUME NEW p \in Peers, NEW x \in uris'[p], x.uri.type = "connected",
                    x \in uris[p], k = 0 \/ events[1] # Event("down", p, {x})
             PROVE  Justified(p, x)'
  BY DEF UrisJustified
<1> USE EventMoves
<1>1. Justified(p, x)
  BY DEF UrisJustified
<1>2. CASE \E c \in Conns : conn[c].state = "up" /\ conn[c].peer = p /\ x \in conn[c].node
  <2>1. PICK c \in Conns : conn[c].state = "up" /\ conn[c].peer = p /\ x \in conn[c].node
    BY <1>2
  <2>2. CASE conn'[c] = conn[c]
    BY <2>1, <2>2 DEF Justified
  <2>3. CASE conn'[c] # conn[c]
    <3>1. PICK j \in 1..Len(events') : events'[j] = Event("down", conn[c].peer, conn[c].node)
      BY <2>1, <2>3 DEF UpOrDown
    <3>2. conn[c].node = {x}
      BY <2>1, ConnectedFacts DEF ConnectionsOK, ConnectionOK
    <3> QED
      BY <2>1, <3>1, <3>2 DEF Justified
  <2> QED
    BY <2>2, <2>3
<1>3. CASE \E i \in 1..Len(events) : events[i] = Event("down", p, {x})
  <2>1. PICK i \in 1..Len(events) : events[i] = Event("down", p, {x})
    BY <1>3
  <2>2. i > k
    BY <2>1 DEF EventsMove
  <2>3. i - k \in 1..Len(events') /\ events'[i - k] = Event("down", p, {x})
    BY <2>1, <2>2
  <2> QED
    BY <2>3 DEF Justified
<1> QED
  BY <1>1, <1>2, <1>3 DEF Justified

\* The URIs of connection c are kept, and it is not reported down.
LEMMA UpStaysKnown ==
  ASSUME ManagerTypeOK, NEW c \in Conns, UpKnown(c), conn'[c] = conn[c],
         NEW k, NEW S, EventsMove(k, S),
         NEW p, p = conn[c].peer, NEW n, n = conn[c].node,
         Event("down", p, n) \notin S,
         \/ n \subseteq uris[p] /\ ~(k = 1 /\ events[1] = Event("down", p, n))
         \/ k = 1 /\ events[1] = Event("up", p, n)
         => n \subseteq uris'[p]
  PROVE  UpKnown(c)'
<1> USE EventMoves
<1> DEFINE down == Event("down", p, n)
           up == Event("up", p, n)
<1>1. SUFFICES \/ \E i \in 1..Len(events') :
                    /\ events'[i] = up
                    /\ \A j \in 1..Len(events') : j > i => events'[j] # down
               \/ n \subseteq uris'[p] /\ \A j \in 1..Len(events') : events'[j] # down
  BY DEF UpKnown, Event
<1> HIDE DEF down, up
<1>2. \/ \E i \in 1..Len(events) :
           /\ events[i] = up
           /\ \A j \in 1..Len(events) : j > i => events[j] # down
      \/ n \subseteq uris[p] /\ \A j \in 1..Len(events) : events[j] # down
  BY DEF UpKnown, down, up
<1>3. CASE n \subseteq uris[p] /\ \A j \in 1..Len(events) : events[j] # down
  <2>1. \A j \in 1..Len(events') : events'[j] # down
    BY <1>3 DEF down
  <2>2. k = 1 => events[1] # down
    BY <1>3 DEF EventsMove
  <2> QED
    BY <1>3, <2>1, <2>2 DEF down
<1>4. ASSUME NEW i \in 1..Len(events), events[i] = up,
             \A j \in 1..Len(events) : j > i => events[j] # down
      PROVE  \/ \E m \in 1..Len(events') :
                  /\ events'[m] = up
                  /\ \A j \in 1..Len(events') : j > m => events'[j] # down
             \/ n \subseteq uris'[p] /\ \A j \in 1..Len(events') : events'[j] # down
  <2>1. ASSUME NEW j \in 1..Len(events'), j + k > i
        PROVE  events'[j] # down
    BY <1>4, <2>1 DEF down
  <2>2. CASE i > k
    <3>1. i - k \in 1..Len(events') /\ events'[i - k] = up
      BY <1>4, <2>2
    <3>2. \A j \in 1..Len(events') : j > i - k => events'[j] # down
      BY <2>1
    <3> QED
      BY <3>1, <3>2
  <2>3. CASE i <= k
    <3>1. i = 1 /\ k = 1
      BY <2>3 DEF EventsMove
    <3>2. n \subseteq uris'[p]
      BY <1>4, <3>1 DEF up
    <3> QED
      BY <2>1, <3>1, <3>2
  <2> QED
    BY <2>2, <2>3
<1> QED
  BY <1>2, <1>3, <1>4

\* Connections that are up stay, and none comes up.
SameUp == \A c \in Conns : conn[c].state = "up" \/ conn'[c].state = "up" => conn'[c] = conn[c]

ConnsKept == conns' \subseteq Conns /\ conn' \in [Conns -> ConnType] /\ ConnectionsOK' /\ SameUp

\* The URIs of connections stay.
UrisKept ==
  \A p \in Peers : \A x : x.uri.type = "connected" => (x \in uris'[p] <=> x \in uris[p])

\* No connection changes.
LEMMA ConnectionsStay ==
  ASSUME ManagerTypeOK, ConnectionsOK, UNCHANGED <<conns, conn>>
  PROVE  ConnsKept
  BY DEF ManagerTypeOK, ConnectionsOK, ConnectionOK, ConnsKept, SameUp

\* One connection changes, that is not up and does not come up.
LEMMA ConnectionChanges ==
  ASSUME ManagerTypeOK, ConnectionsOK, NEW c \in Conns, NEW k \in ConnType,
         conn' = [conn EXCEPT ![c] = k],
         conns' = IF k.state = "none" THEN conns \ {c} ELSE conns \cup {c},
         conn[c].state # "up", k.state # "up", ConnectionOK(k, c)
  PROVE  ConnsKept
<1>1. conn' \in [Conns -> ConnType] /\ conns' \subseteq Conns
  BY DEF ManagerTypeOK
<1>2. \A d \in Conns : conn'[d] = IF d = c THEN k ELSE conn[d]
  BY DEF ManagerTypeOK
<1>3. SameUp
  BY <1>2 DEF SameUp
<1>4. ASSUME NEW d \in Conns
      PROVE  ConnectionOK(conn'[d], d) /\ (conn'[d].state # "none" <=> d \in conns')
  BY <1>2 DEF ConnectionsOK
<1>5. ConnectionsOK'
  BY <1>4 DEF ConnectionsOK, ConnectionOK
<1> QED
  BY <1>1, <1>3, <1>5 DEF ConnsKept

\* Connections that are opened.
LEMMA Creates ==
  ASSUME ManagerTypeOK, ConnectionsOK, NEW S, Create(S),
         \A s \in S : /\ s.peer \in Peers /\ s.node \in NodeInfo /\ Has(s.node, "tcp")
                      /\ ~Matching(conn, s.peer)
  PROVE  ConnsKept
<1> DEFINE made(c) == \E s \in S : s.peer = c
           of(c) == CHOOSE s \in S : s.peer = c
           new(c) == [state |-> "setup", peer |-> of(c).peer, node |-> of(c).node]
<1>1. \A c \in Conns : conn'[c] = IF made(c) THEN new(c) ELSE conn[c]
  BY DEF Create
<1>2. ASSUME NEW c, made(c)
      PROVE  /\ c \in Peers /\ new(c) \in ConnType /\ conn[c].state = "none"
             /\ ConnectionOK(new(c), c) /\ new(c).state = "setup"
  <2>1. of(c) \in S /\ of(c).peer = c
    BY <1>2
  <2>2. c \in Peers /\ of(c).node \in NodeInfo /\ Has(of(c).node, "tcp") /\ c \in Conns
    BY <2>1 DEF Conns
  <2>3. conn[c].state = "none"
    <3>1. c \notin conns \/ conn[c].peer # c
      BY <2>1 DEF Matching
    <3> QED
      BY <2>2, <3>1 DEF ConnectionsOK, ConnectionOK
  <2>4. /\ new(c).state = "setup" /\ new(c).peer = c /\ new(c).node = of(c).node
        /\ new(c) \in ConnType
    BY <2>1, <2>2 DEF ConnType, ConnStates
  <2> HIDE DEF new, of
  <2> QED
    BY <2>2, <2>3, <2>4 DEF ConnectionOK
<1> HIDE DEF new
<1>3. conn' \in [Conns -> ConnType]
  <2>1. conn' = [c \in Conns |-> conn'[c]]
    BY DEF Create
  <2>2. \A c \in Conns : conn'[c] \in ConnType
    BY <1>1, <1>2, ManagerTyped
  <2> QED
    BY <2>1, <2>2
<1>4. conns' \subseteq Conns /\ \A c : c \in conns' <=> c \in conns \/ made(c)
  BY DEF Create, ManagerTypeOK, Conns
<1> HIDE DEF made
<1>5. SameUp
  BY <1>1, <1>2 DEF SameUp
<1>6. ASSUME NEW c \in Conns
      PROVE  ConnectionOK(conn'[c], c) /\ (conn'[c].state # "none" <=> c \in conns')
  BY <1>1, <1>2, <1>4 DEF ConnectionsOK
<1>7. ConnectionsOK'
  BY <1>6 DEF ConnectionsOK, ConnectionOK
<1> QED
  BY <1>3, <1>4, <1>5, <1>7 DEF ConnsKept

\* A step in which no connection comes up or goes down.
Calm(k, S) ==
  /\ ConnsKept /\ EventsMove(k, S) /\ UrisKept
  /\ \A e \in S : e.kind \notin {"up", "down"} /\ EventOK(e)
  /\ k = 1 => events[1].kind \notin {"up", "down"}

\* New events carry what they should.
LEMMA EventsStayOK ==
  ASSUME ManagerTypeOK, EventsOK, NEW k, NEW S, EventsMove(k, S), \A e \in S : EventOK(e)
  PROVE  EventsOK'
<1> SUFFICES ASSUME NEW i \in 1..Len(events')
             PROVE  EventOK(events'[i])
  BY DEF EventsOK, EventOK
<1> QED
  BY EventMoves DEF EventsOK

\* It keeps what is said of connections.
LEMMA CalmKeeps ==
  ASSUME ManagerInv, OneInbound => UpsKnown, NEW k, NEW S, Calm(k, S)
  PROVE  /\ ConnectionsOK' /\ UrisOK' /\ EventsOK' /\ UpsEnd' /\ UrisJustified'
         /\ (OneInbound => UpsKnown)'
<1>1. ManagerTypeOK /\ EventsMove(k, S) /\ SameUp /\ ConnectionsOK'
  BY DEF ManagerInv, Calm, ConnsKept
<1>2. EventsOK'
  BY <1>1, EventsStayOK DEF ManagerInv, Calm
<1>3. UrisOK'
  BY DEF ManagerInv, Calm, UrisKept, UrisOK
<1>4. UpOrDown(k)
  BY <1>1 DEF UpOrDown, SameUp
<1>5. UpsEnd'
  BY <1>1, <1>4, UpsEndStay DEF ManagerInv, Calm
<1>6. UrisJustified'
  <2>1. \A p, x : k = 0 \/ events[1] # Event("down", p, {x})
    BY <1>1 DEF Calm, Event, EventsMove
  <2>2. \A p \in Peers : \A x \in uris'[p] : x.uri.type = "connected" => x \in uris[p]
    BY DEF Calm, UrisKept
  <2> QED
    BY <1>1, <1>4, <2>1, <2>2, UrisStayJustified DEF ManagerInv
<1>7. ASSUME OneInbound
      PROVE  UpsKnown'
  <2> SUFFICES ASSUME NEW c \in Conns, conn'[c].state = "up"
               PROVE  UpKnown(c)'
    BY DEF UpsKnown, UpKnown
  <2>1. conn'[c] = conn[c] /\ conn[c].state = "up"
    BY <1>1 DEF SameUp
  <2>2. UpKnown(c)
    BY <1>7, <2>1 DEF UpsKnown
  <2> DEFINE p == conn[c].peer
             n == conn[c].node
  <2>3. p \in Peers /\ \A x \in n : x.uri.type = "connected"
    BY <1>1, <2>1, ConnectedFacts DEF ManagerInv, ConnectionsOK, ConnectionOK
  <2>4. Event("down", p, n) \notin S
    BY DEF Calm, Event
  <2>5. k = 1 => events[1] # Event("up", p, n) /\ events[1] # Event("down", p, n)
    BY DEF Calm, Event
  <2>6. n \subseteq uris[p] => n \subseteq uris'[p]
    BY <2>3 DEF Calm, UrisKept
  <2> HIDE DEF p, n
  <2>7. p = conn[c].peer /\ n = conn[c].node
    BY DEF p, n
  <2> QED
    BY <1>1, <2>1, <2>2, <2>4, <2>5, <2>6, <2>7, UpStaysKnown
<1> QED
  BY <1>1, <1>2, <1>3, <1>5, <1>6, <1>7 DEF OneInbound

-----------------------------------------------------------------------------
(* The connection manager: the list of nodes and the routing.              *)

\* What the events on their way change for the routing after a step that handles
\* k events: nothing, or one new event is news of the node.
Tells(k, p) ==
  \/ /\ \A i \in 1..Len(events') : i > Len(events) - k => ~About(events'[i], p)
     /\ p \in Elements(list') <=> p \in Elements(list)
  \/ \E d \in 1..Len(events') :
       /\ d > Len(events) - k /\ About(events'[d], p)
       /\ \A i \in 1..Len(events') : i > Len(events) - k /\ i # d => ~About(events'[i], p)
       /\ events'[d].kind = "available" <=> p \in Elements(list')
       /\ p \in Elements(list') <=> p \notin Elements(list)

\* What the routing knows of p after the first k events.
Learns(k, p) ==
  p \in announced' <=> IF k = 1 /\ About(events[1], p) THEN events[1].kind = "available"
                       ELSE p \in announced

\* What the routing knows and will be told stays in step with the list.
LEMMA RoutingStays ==
  ASSUME ManagerTypeOK, RoutingKnows, NEW k, NEW S, EventsMove(k, S),
         \A p \in Peers : Tells(k, p) /\ Learns(k, p)
  PROVE  RoutingKnows'
<1> SUFFICES ASSUME NEW p \in Peers
             PROVE  Listed(events', p \in announced', p, p \in Elements(list'))
  BY DEF RoutingKnows
<1> DEFINE b == p \in announced
           c == p \in announced'
           l == p \in Elements(list)
           m == p \in Elements(list')
           fs == events'
           n == Len(events) - k
           es == [i \in 1..n |-> events[i + k]]
<1>1. /\ b \in BOOLEAN /\ c \in BOOLEAN /\ l \in BOOLEAN /\ m \in BOOLEAN
      /\ Listed(events, b, p, l)
  BY DEF RoutingKnows
<1>2. c <=> IF k = 1 /\ About(events[1], p) THEN events[1].kind = "available" ELSE b
  BY DEF Learns
<1>3. n \in Nat /\ Len(events) \in Nat /\ Len(fs) \in Nat /\ n <= Len(fs) /\ k \in {0, 1}
  BY EventMoves DEF EventsMove
<1>4. Len(es) = n /\ \A i \in 1..n : es[i] = events[i + k]
  BY <1>3
<1>5. \A i \in 1..n : fs[i] = es[i]
  BY <1>3, <1>4 DEF EventsMove
<1>6. \/ /\ \A i \in 1..Len(fs) : i > n => ~About(fs[i], p)
         /\ m <=> l
      \/ \E d \in 1..Len(fs) :
           /\ d > n /\ About(fs[d], p)
           /\ \A i \in 1..Len(fs) : i > n /\ i # d => ~About(fs[i], p)
           /\ fs[d].kind = "available" <=> m
           /\ m <=> ~l
  BY DEF Tells
<1>7. n = Len(events) - k
  OBVIOUS
<1> HIDE DEF b, c, l, m, fs, n, es
<1>8. Listed(es, c, p, l)
  <2>1. CASE k = 1
    <3>1. Len(events) \in Nat \ {0} /\ Len(es) = Len(events) - 1
      BY <1>3, <1>4, <1>7, <2>1
    <3>2. \A i \in 1..Len(es) : es[i] = events[i + 1]
      BY <1>4, <2>1
    <3>3. c <=> IF About(events[1], p) THEN events[1].kind = "available" ELSE b
      BY <1>2, <2>1
    <3> QED
      BY <1>1, <3>1, <3>2, <3>3, ListedLater
  <2>2. CASE k = 0
    <3>1. Len(es) = Len(events) /\ \A i \in 1..Len(events) : es[i] = events[i]
      BY <1>3, <1>4, <1>7, <2>2
    <3>2. c <=> b
      BY <1>2, <2>2
    <3>3. \A i \in 1..Len(es) : i > Len(events) => ~About(es[i], p)
      BY <3>1
    <3>4. Listed(es, b, p, l)
      <4>1. Len(es) \in Nat /\ Len(events) <= Len(es)
        BY <1>3, <3>1
      <4> QED
        BY <1>1, <1>3, <3>1, <3>3, <4>1, ListedGrows
    <3>5. c = b
      BY <1>1, <3>2
    <3> QED
      BY <3>4, <3>5
  <2> QED
    BY <1>3, <2>1, <2>2
<1>9. Listed(fs, c, p, m)
  BY <1>1, <1>3, <1>4, <1>5, <1>6, <1>8, ListedGrows
<1> QED
  BY <1>9 DEF fs, c, m

\* Nothing is told and nothing is learnt.
LEMMA QuietStep ==
  ASSUME ManagerTypeOK, RoutingKnows, NEW k, NEW S, EventsMove(k, S),
         \A e \in S : e.kind \notin {"available", "unavailable"},
         k = 1 => events[1].kind \notin {"available", "unavailable"},
         UNCHANGED <<announced, list>>
  PROVE  RoutingKnows'
<1>1. ASSUME NEW p \in Peers
      PROVE  Tells(k, p)
  <2>1. \A i \in 1..Len(events') : i > Len(events) - k => events'[i] \in S
    BY EventMoves
  <2> QED
    BY <2>1 DEF Tells, About, Elements
<1>2. ASSUME NEW p \in Peers
      PROVE  Learns(k, p)
  BY DEF Learns, About
<1> QED
  BY <1>1, <1>2, RoutingStays

\* The queue does not change, its first event is handled, or an event is queued.
LEMMA SameEvents ==
  ASSUME ManagerTypeOK, events' = events
  PROVE  EventsMove(0, {})
  BY DEF EventsMove, ManagerTypeOK

LEMMA FirstHandled ==
  ASSUME ManagerTypeOK, events # <<>>, events' = Tail(events)
  PROVE  EventsMove(1, {}) /\ Head(events) = events[1] /\ events[1] \in EventType
  BY DEF EventsMove, ManagerTypeOK

LEMMA EventQueued ==
  ASSUME ManagerTypeOK, NEW e \in EventType, events' = Append(events, e)
  PROVE  EventsMove(0, {e}) /\ Len(events') = Len(events) + 1 /\ events'[Len(events) + 1] = e
  BY DEF EventsMove, ManagerTypeOK

LEMMA HandledAndQueued ==
  ASSUME ManagerTypeOK, events # <<>>, NEW e \in EventType, events' = Append(Tail(events), e)
  PROVE  EventsMove(1, {e}) /\ Len(events') = Len(events) /\ events'[Len(events)] = e
  BY DEF EventsMove, ManagerTypeOK

\* What an Add() does, with the queue as it is or after its first event.
Remaining(k) == IF k = 1 THEN Tail(events) ELSE events

\* An Add() tells the routing of a node that was not in the list.
LEMMA AddFacts ==
  ASSUME ManagerTypeOK, NEW p \in Peers, NEW n \in NodeInfo, NEW k \in {0, 1},
         k = 1 => events # <<>>, Add(p, n, Remaining(k))
  PROVE  /\ EventsMove(k, {Event("available", p, n)})
         /\ \A q \in Peers : Tells(k, q)
         /\ uris' \in [Peers -> NodeInfo]
         /\ \A q \in Peers : uris'[q] = IF q = p THEN Plus(uris[p], n) ELSE uris[q]
         /\ list' \in Seq(Peers) /\ \A i, j \in 1..Len(list') : list'[i] = list'[j] => i = j
         /\ \A q \in Peers \ Elements(list') : uris'[q] = {}
<1> DEFINE e == Event("available", p, n)
           S == {e}
<1>1. e \in EventType /\ e.kind = "available" /\ e.peer = p
  BY EventFields
<1>2. /\ uris \in [Peers -> NodeInfo] /\ uris[p] \in NodeInfo /\ Plus(uris[p], n) \in NodeInfo
      /\ list \in Seq(Peers) /\ Len(list) \in Nat
      /\ events \in Seq(EventType) /\ Len(events) \in Nat
  BY PlusMinus DEF ManagerTypeOK
<1> HIDE DEF e
<1>3. CASE p \in Elements(list)
  <2>1. events' = Remaining(k) /\ list' = list /\ uris' = [uris EXCEPT ![p] = Plus(uris[p], n)]
    BY <1>3 DEF Add
  <2>2. EventsMove(k, {})
    BY <2>1, SameEvents, FirstHandled DEF Remaining
  <2>3. EventsMove(k, S) /\ \A i \in 1..Len(events') : ~(i > Len(events) - k)
    BY <1>2, <2>2, EventMoves DEF EventsMove
  <2>4. \A q \in Peers : Tells(k, q)
    BY <2>1, <2>3 DEF Tells, Elements
  <2>5. Elements(list') = Elements(list)
    BY <2>1 DEF Elements
  <2> QED
    BY <1>2, <1>3, <2>1, <2>3, <2>4, <2>5 DEF ManagerTypeOK, e
<1>4. CASE p \notin Elements(list)
  <2>1. /\ events' = Append(Remaining(k), e) /\ list' = Append(list, p)
        /\ uris' = [uris EXCEPT ![p] = n]
    BY <1>4 DEF Add, e
  <2>2. /\ EventsMove(k, S)
        /\ Len(events') = Len(events) - k + 1 /\ events'[Len(events) - k + 1] = e
    <3>1. CASE k = 1
      <4>1. events # <<>> /\ events' = Append(Tail(events), e)
        BY <2>1, <3>1 DEF Remaining
      <4>2. EventsMove(1, {e}) /\ Len(events') = Len(events) /\ events'[Len(events)] = e
        BY <1>1, <4>1, HandledAndQueued
      <4>3. Len(events) - 1 + 1 = Len(events)
        BY <1>2
      <4> QED
        BY <3>1, <4>2, <4>3
    <3>2. CASE k = 0
      <4>1. events' = Append(events, e)
        BY <2>1, <3>2 DEF Remaining
      <4>2. /\ EventsMove(0, {e}) /\ Len(events') = Len(events) + 1
            /\ events'[Len(events) + 1] = e
        BY <1>1, <4>1, EventQueued
      <4>3. Len(events) - 0 + 1 = Len(events) + 1
        BY <1>2
      <4> QED
        BY <3>2, <4>2, <4>3
    <3> QED
      BY <3>1, <3>2
  <2>3. /\ Len(list') = Len(list) + 1 /\ list' \in Seq(Peers)
        /\ \A i \in 1..Len(list) : list'[i] = list[i]
        /\ list'[Len(list) + 1] = p
    BY <1>2, <2>1
  <2>4. \A i \in 1..Len(list) : list[i] # p
    BY <1>4 DEF Elements
  <2>5. \A i, j \in 1..Len(list') : list'[i] = list'[j] => i = j
    <3>1. \A i, j \in 1..Len(list) : list[i] = list[j] => i = j
      BY DEF ManagerTypeOK
    <3>2. \A i \in 1..Len(list') : i \in 1..Len(list) \/ i = Len(list) + 1
      BY <1>2, <2>3
    <3> QED
      BY <2>3, <2>4, <3>1, <3>2
  <2>6. \A q : q \in Elements(list') <=> q \in Elements(list) \/ q = p
    <3>1. \A i \in 1..Len(list') : i \in 1..Len(list) \/ i = Len(list) + 1
      BY <1>2, <2>3
    <3>2. 1..Len(list) \subseteq 1..Len(list') /\ Len(list) + 1 \in 1..Len(list')
      BY <1>2, <2>3
    <3> QED
      BY <2>3, <3>1, <3>2 DEF Elements
  <2>7. uris[p] = {} /\ Plus(uris[p], n) = n
    BY <1>4 DEF ManagerTypeOK, Plus
  <2>8. ASSUME NEW q \in Peers
        PROVE  Tells(k, q)
    <3>1. CASE q = p
      <4>1. Len(events) - k + 1 \in 1..Len(events') /\ Len(events) - k + 1 > Len(events) - k
        BY <1>2, <2>2 DEF EventsMove
      <4>2. \A i \in 1..Len(events') : i > Len(events) - k => i = Len(events) - k + 1
        BY <1>2, <2>2
      <4>3. About(events'[Len(events) - k + 1], p)
        BY <1>1, <2>2 DEF About
      <4>4. p \in Elements(list') /\ p \notin Elements(list)
        BY <1>4, <2>6
      <4> QED
        BY <1>1, <2>2, <3>1, <4>1, <4>2, <4>3, <4>4 DEF Tells
    <3>2. CASE q # p
      <4>1. \A i \in 1..Len(events') : i > Len(events) - k => events'[i] = e
        BY <2>2, EventMoves
      <4>2. \A i \in 1..Len(events') : i > Len(events) - k => ~About(events'[i], q)
        BY <1>1, <3>2, <4>1 DEF About
      <4>3. q \in Elements(list') <=> q \in Elements(list)
        BY <2>6, <3>2
      <4> QED
        BY <4>2, <4>3 DEF Tells
    <3> QED
      BY <3>1, <3>2
  <2>9. /\ uris' \in [Peers -> NodeInfo]
        /\ \A q \in Peers : uris'[q] = IF q = p THEN Plus(uris[p], n) ELSE uris[q]
    BY <1>2, <2>1, <2>7
  <2>10. \A q \in Peers \ Elements(list') : uris'[q] = {}
    BY <2>6, <2>9 DEF ManagerTypeOK
  <2> QED
    BY <2>2, <2>3, <2>5, <2>8, <2>9, <2>10 DEF e
<1> QED
  BY <1>3, <1>4

\* Two are two.
LEMMA PairCounts ==
  ASSUME NEW i, NEW j, i # j
  PROVE  Cardinality({i, j}) = 2
<1> DEFINE one == Cardinality({i})
           two == Cardinality({i} \cup {j})
<1>1. IsFiniteSet({i}) /\ one = 1
  BY FS_Singleton
<1>2. two = one + 1
  <2>1. j \notin {i}
    OBVIOUS
  <2> QED
    BY <1>1, <2>1, FS_AddElement
<1>3. {i} \cup {j} = {i, j}
  OBVIOUS
<1> HIDE DEF one
<1>4. two = 2
  <2> HIDE DEF two
  <2> QED
    BY <1>1, <1>2
<1> QED
  BY <1>3, <1>4

\* A list without an element twice.
Once(s) == \A i, j \in 1..Len(s) : s[i] = s[j] => i = j

Places(s, a) == {i \in 1..Len(s) : s[i] = a}

LEMMA OnceCounts ==
  ASSUME NEW A, NEW s \in Seq(A)
  PROVE  /\ Once(s) <=> \A a : Count(s, {a}) <= 1
         /\ \A a : a \in Elements(s) <=> Count(s, {a}) # 0
<1>1. ASSUME NEW a
      PROVE  /\ IsFiniteSet(Places(s, a)) /\ Count(s, {a}) = Cardinality(Places(s, a))
             /\ Count(s, {a}) \in Nat
  <2>1. Places(s, a) = {i \in 1..Len(s) : s[i] \in {a}}
    BY DEF Places
  <2>2. /\ IsFiniteSet({i \in 1..Len(s) : s[i] \in {a}}) /\ Count(s, {a}) \in Nat
    BY CountType
  <2> QED
    BY <2>1, <2>2 DEF Count
<1>2. \A a : Places(s, a) = {} <=> Count(s, {a}) = 0
  BY <1>1, FS_EmptySet
<1>3. \A a : a \in Elements(s) <=> Places(s, a) # {}
  BY DEF Elements, Places
<1>4. ASSUME Once(s), NEW a
      PROVE  Count(s, {a}) <= 1
  <2>1. CASE Places(s, a) = {}
    <3>1. Count(s, {a}) = 0
      BY <1>2, <2>1
    <3> QED
      BY <3>1
  <2>2. CASE Places(s, a) # {}
    <3>1. PICK i \in Places(s, a) : TRUE
      BY <2>2
    <3>2. Places(s, a) = {i}
      BY <1>4, <3>1 DEF Once, Places
    <3> QED
      <4>1. Cardinality({i}) = 1 /\ Count(s, {a}) = Cardinality({i})
        BY <1>1, <3>2, FS_Singleton
      <4> QED
        BY <4>1
  <2> QED
    BY <2>1, <2>2
<1>5. ASSUME \A a : Count(s, {a}) <= 1
      PROVE  Once(s)
  <2> SUFFICES ASSUME NEW i \in 1..Len(s), NEW j \in 1..Len(s), s[i] = s[j], i # j
               PROVE  FALSE
    BY DEF Once
  <2>1. {i, j} \subseteq Places(s, s[i])
    BY DEF Places
  <2>2. Cardinality({i, j}) = 2
    BY PairCounts
  <2>3. Cardinality({i, j}) <= Cardinality(Places(s, s[i]))
    BY <1>1, <2>1, FS_Subset
  <2>4. /\ Count(s, {s[i]}) <= 1 /\ Count(s, {s[i]}) = Cardinality(Places(s, s[i]))
        /\ Count(s, {s[i]}) \in Nat
    BY <1>1, <1>5
  <2> QED
    BY <2>2, <2>3, <2>4
<1> QED
  BY <1>2, <1>3, <1>4, <1>5

\* What is kept of such a list.
LEMMA WithinOnce ==
  ASSUME NEW A, NEW s \in Seq(A), Once(s), NEW S
  PROVE  /\ Within(s, S) \in Seq(A \cap S) /\ Within(s, S) \in Seq(A) /\ Once(Within(s, S))
         /\ \A a : a \in Elements(Within(s, S)) <=> a \in Elements(s) /\ a \in S
<1> DEFINE t == Within(s, S)
<1>1. t \in Seq(A \cap S) /\ t \in Seq(A)
  <2>1. t \in Seq(A \cap S)
    BY WithinType
  <2> HIDE DEF t
  <2> QED
    BY <2>1
<1>2. \A a \in S : Count(t, {a}) = Count(s, {a})
  BY WithinCount DEF PartOf
<1> HIDE DEF t
<1>3. \A a : a \in Elements(t) => a \in S
  BY <1>1 DEF Elements
<1>4. \A a : a \notin S => Count(t, {a}) = 0
  BY <1>1, <1>3, OnceCounts
<1>5. Once(t)
  <2>1. \A a : Count(s, {a}) <= 1
    BY OnceCounts
  <2>2. ASSUME NEW a
        PROVE  Count(t, {a}) <= 1
    <3>1. CASE a \in S
      <4>1. Count(t, {a}) = Count(s, {a})
        BY <1>2, <3>1
      <4> QED
        BY <2>1, <4>1
    <3>2. CASE a \notin S
      <4>1. Count(t, {a}) = 0
        BY <1>4, <3>2
      <4> QED
        BY <4>1
    <3> QED
      BY <3>1, <3>2
  <2> QED
    BY <1>1, <2>2, OnceCounts
<1>6. \A a : a \in Elements(t) <=> a \in Elements(s) /\ a \in S
  BY <1>1, <1>2, <1>3, OnceCounts
<1> QED
  BY <1>1, <1>5, <1>6 DEF t

\* The nodes gone are dropped and reported.
Dropped(gone) ==
  events' = events \o [i \in 1..Len(gone) |-> Event("unavailable", gone[i], {})]

LEMMA NodesDropped ==
  ASSUME ManagerTypeOK, NEW us \in [Peers -> NodeInfo],
         Dropped(Within(list, {p \in Peers : us[p] = {}})),
         list' = Within(list, {p \in Peers : us[p] # {}})
  PROVE  /\ list' \in Seq(Peers) /\ Once(list')
         /\ \A p : p \in Elements(list') <=> p \in Elements(list) /\ p \in Peers /\ us[p] # {}
         /\ EventsMove(0, {Event("unavailable", p, {}) : p \in Peers})
         /\ \A p \in Peers : Tells(0, p)
<1> DEFINE S == {Event("unavailable", p, {}) : p \in Peers}
           G == {p \in Peers : us[p] = {}}
           K == {p \in Peers : us[p] # {}}
           gone == Within(list, G)
           more == [i \in 1..Len(gone) |-> Event("unavailable", gone[i], {})]
           n == Len(events)
<1>1. list \in Seq(Peers) /\ Once(list) /\ events \in Seq(EventType) /\ n \in Nat
  BY DEF ManagerTypeOK, Once
<1>2. /\ gone \in Seq(Peers) /\ Once(gone)
      /\ \A p : p \in Elements(gone) <=> p \in Elements(list) /\ p \in Peers /\ us[p] = {}
  <2>1. \A p : p \in G <=> p \in Peers /\ us[p] = {}
    OBVIOUS
  <2> HIDE DEF G
  <2> QED
    BY <1>1, <2>1, WithinOnce
<1>3. /\ list' \in Seq(Peers) /\ Once(list')
      /\ \A p : p \in Elements(list') <=> p \in Elements(list) /\ p \in Peers /\ us[p] # {}
  <2> DEFINE kept == Within(list, K)
  <2>1. (\A p : p \in K <=> p \in Peers /\ us[p] # {}) /\ list' = kept
    OBVIOUS
  <2>2. /\ kept \in Seq(Peers) /\ Once(kept)
        /\ \A p : p \in Elements(kept) <=> p \in Elements(list) /\ p \in K
    <3> HIDE DEF K
    <3> QED
      BY <1>1, WithinOnce
  <2> HIDE DEF K, kept
  <2> QED
    BY <2>1, <2>2
<1>d. events' = events \o more
  BY DEF Dropped
<1> HIDE DEF gone
<1>4. Len(gone) \in Nat /\ \A i \in 1..Len(gone) : gone[i] \in Peers
  BY <1>1, <1>2
<1>5. \A p \in Peers : /\ Event("unavailable", p, {}) \in EventType
                       /\ Event("unavailable", p, {}).kind = "unavailable"
                       /\ Event("unavailable", p, {}).peer = p
  <2>1. {} \in NodeInfo
    BY DEF NodeInfo
  <2> QED
    BY <2>1, EventFields
<1>6. more \in Seq(EventType) /\ Len(more) = Len(gone)
  BY <1>4, <1>5
<1>7. \A i \in 1..Len(gone) : /\ more[i] = Event("unavailable", gone[i], {})
                              /\ more[i] \in S /\ more[i].kind = "unavailable"
                              /\ more[i].peer = gone[i]
  BY <1>4, <1>5
<1> HIDE DEF more, S
<1>8. /\ events' \in Seq(EventType) /\ Len(events') = n + Len(gone)
      /\ \A j \in 1..n : events'[j] = events[j]
      /\ \A j \in n+1..n+Len(gone) : events'[j] = more[j - n]
  <2>1. n = Len(events)
    OBVIOUS
  <2>2. /\ events \o more \in Seq(EventType) /\ Len(events \o more) = Len(events) + Len(more)
        /\ \A j \in 1..Len(events) : (events \o more)[j] = events[j]
        /\ \A j \in Len(events)+1..Len(events)+Len(more) :
             (events \o more)[j] = more[j - Len(events)]
    BY <1>1, <1>6, Concatenation
  <2> HIDE DEF n
  <2> QED
    BY <1>6, <1>d, <2>1, <2>2
<1> HIDE DEF n
<1>9. \A j \in 1..Len(events') : j > n => j - n \in 1..Len(gone) /\ events'[j] = more[j - n]
  BY <1>1, <1>4, <1>8
<1>10. EventsMove(0, S)
  <2>1. Len(events') >= n - 0 /\ 0 <= n
    BY <1>1, <1>4, <1>8
  <2>2. ASSUME NEW j \in 1..Len(events')
        PROVE  IF j + 0 <= n THEN events'[j] = events[j + 0] ELSE events'[j] \in S
    <3>1. j + 0 = j /\ (j <= n => j \in 1..n)
      OBVIOUS
    <3> QED
      BY <1>1, <1>4, <1>7, <1>8, <1>9, <3>1
  <2> QED
    BY <1>8, <2>1, <2>2 DEF EventsMove, n
<1>11. ASSUME NEW p \in Peers
       PROVE  Tells(0, p)
  <2>1. CASE p \in Elements(gone)
    <3>1. PICK i \in 1..Len(gone) : gone[i] = p
      BY <2>1 DEF Elements
    <3>2. PICK d \in 1..Len(events') : d = n + i /\ d > n /\ d - n = i
      <4>1. n + i \in 1..Len(events') /\ n + i > n /\ (n + i) - n = i
        BY <1>1, <1>4, <1>8
      <4> QED
        BY <4>1
    <3>3. About(events'[d], p) /\ events'[d].kind = "unavailable"
      BY <1>7, <1>9, <3>1, <3>2 DEF About
    <3>4. ASSUME NEW j \in 1..Len(events'), j > n, j # d
          PROVE  ~About(events'[j], p)
      <4>1. j - n \in 1..Len(gone) /\ j - n # i
        BY <1>1, <1>4, <1>9, <3>2, <3>4
      <4>2. gone[j - n] # p
        BY <1>2, <3>1, <4>1 DEF Once
      <4> QED
        BY <1>7, <1>9, <3>4, <4>1, <4>2 DEF About
    <3>5. p \in Elements(list) /\ p \notin Elements(list')
      BY <1>2, <1>3, <2>1
    <3>6. Len(events) - 0 = n
      BY <1>1, <1>4 DEF n
    <3> QED
      BY <3>2, <3>3, <3>4, <3>5, <3>6 DEF Tells
  <2>2. CASE p \notin Elements(gone)
    <3>1. ASSUME NEW j \in 1..Len(events'), j > n
          PROVE  ~About(events'[j], p)
      BY <1>7, <1>9, <2>2, <3>1 DEF About, Elements
    <3>2. p \in Elements(list') <=> p \in Elements(list)
      BY <1>2, <1>3, <2>2
    <3>3. Len(events) - 0 = n
      BY <1>1, <1>4 DEF n
    <3> QED
      BY <3>1, <3>2, <3>3 DEF Tells
  <2> QED
    BY <2>1, <2>2
<1> QED
  BY <1>3, <1>10, <1>11 DEF S

\* Connections are opened to nodes with an address, that have none.
LEMMA AutoConnects ==
  ASSUME NEW nodes \in Seq(Peers), NEW us \in [Peers -> NodeInfo],
         NEW s \in AutoConnect(nodes, us)
  PROVE  s.peer \in Peers /\ s.node \in NodeInfo /\ Has(s.node, "tcp") /\ ~Matching(conn, s.peer)
<1> DEFINE W == {p \in Peers : IsAvailable(us[p]) /\ ~ConnectedTo(us[p])}
           want == Within(nodes, W)
<1>1. want \in Seq(Peers)
  <2>1. want \in Seq(Peers \cap W)
    BY WithinType
  <2> HIDE DEF want
  <2> QED
    BY <2>1
<1>2. PICK i \in 1..Len(want) : s \in Opened({}, want[i], us[want[i]])
  BY DEF AutoConnect
<1> HIDE DEF want
<1>3. want[i] \in Peers /\ us[want[i]] \in NodeInfo
  BY <1>1
<1>4. s = [peer |-> want[i], node |-> us[want[i]]] /\ LayerOf(us[want[i]]) = "tcp"
      /\ ~Matching(conn, want[i])
  BY <1>2 DEF Opened
<1> QED
  BY <1>3, <1>4, LayerHas

-----------------------------------------------------------------------------
(* The connection manager: steps in which no connection comes up or goes down. *)

\* The invariant, with the part that needs one accepted connection at most.
Sound == ManagerInv /\ (OneInbound => UpsKnown)

\* The types of the nodes, and of what is neither node, event nor connection.
NodesOK ==
  /\ list \in Seq(Peers) /\ Once(list) /\ uris \in [Peers -> NodeInfo]
  /\ \A p \in Peers \ Elements(list) : uris[p] = {}

RestOK == announced \subseteq Peers /\ present \subseteq Peers /\ next \in 0..Interval

\* A calm step keeps everything, if the nodes stay in step with the routing.
LEMMA CalmStep ==
  ASSUME Sound, NEW k, NEW S, Calm(k, S), NodesOK', RestOK', RoutingKnows'
  PROVE  Sound'
<1>1. ManagerTypeOK'
  <2>1. NodesOK' /\ RestOK' /\ events' \in Seq(EventType)
        /\ conns' \subseteq Conns /\ conn' \in [Conns -> ConnType]
    BY DEF Calm, EventsMove, ConnsKept
  <2> QED
    BY <2>1 DEF ManagerTypeOK, NodesOK, RestOK, Once
<1>2. /\ ConnectionsOK' /\ UrisOK' /\ EventsOK' /\ UpsEnd' /\ UrisJustified'
      /\ (OneInbound => UpsKnown)'
  BY CalmKeeps DEF Sound
<1> QED
  BY <1>1, <1>2 DEF Sound, ManagerInv

\* Only connections change.
LEMMA ConnectionStep ==
  ASSUME Sound, ConnsKept, UNCHANGED <<list, uris, events, announced, next, present>>
  PROVE  Sound'
<1>1. ManagerTypeOK /\ RoutingKnows
  BY DEF Sound, ManagerInv
<1>2. EventsMove(0, {})
  BY <1>1, SameEvents
<1>3. RoutingKnows'
  BY <1>1, <1>2, QuietStep
<1>4. NodesOK' /\ RestOK'
  BY <1>1 DEF ManagerTypeOK, NodesOK, RestOK, Once, Elements
<1>5. UrisKept
  BY DEF UrisKept
<1>6. Calm(0, {})
  BY <1>2, <1>5 DEF Calm
<1> QED
  BY <1>3, <1>4, <1>6, CalmStep

\* Each action in turn.
LEMMA QueueKeeps ==
  ASSUME Sound, NEW p \in Peers, Queue(p)
  PROVE  Sound'
<1>1. ManagerTypeOK /\ ConnectionsOK
  BY DEF Sound, ManagerInv
<1>2. uris[p] \in NodeInfo /\ LayerOf(uris[p]) = "tcp" /\ ~Matching(conn, p)
  BY <1>1 DEF ManagerTypeOK, Queue
<1>3. Has(uris[p], "tcp")
  BY <1>2, LayerHas
<1>4. Create({[peer |-> p, node |-> uris[p]]})
  BY DEF Queue
<1>5. ConnsKept
  BY <1>1, <1>2, <1>3, <1>4, Creates
<1> QED
  BY <1>5, ConnectionStep DEF Queue

\* A connection that is not up is closed.
LEMMA CloseKeeps ==
  ASSUME ManagerTypeOK, ConnectionsOK, NEW c \in Conns, Close(c), conn[c].state # "up"
  PROVE  ConnsKept
<1>1. NoConn \in ConnType /\ NoConn.state = "none"
  BY DEF NoConn, ConnType, ConnStates, NodeInfo
<1>2. ConnectionOK(NoConn, c)
  BY <1>1 DEF ConnectionOK
<1>3. conn' = [conn EXCEPT ![c] = NoConn]
      /\ conns' = IF NoConn.state = "none" THEN conns \ {c} ELSE conns \cup {c}
  BY <1>1 DEF Close
<1> QED
  BY <1>1, <1>2, <1>3, ConnectionChanges

LEMMA SetupKeeps ==
  ASSUME Sound, NEW c \in Conns, Setup(c)
  PROVE  Sound'
<1>1. ManagerTypeOK /\ ConnectionsOK
  BY DEF Sound, ManagerInv
<1>2. /\ c \in Peers /\ conn[c].state = "setup" /\ conn[c] \in ConnType /\ c \in conns
      /\ conn[c].peer = c /\ Has(conn[c].node, "tcp") /\ conn[c].node \in NodeInfo
  BY <1>1 DEF Setup, ManagerTypeOK, ConnectionsOK, ConnectionOK, ConnType
<1> DEFINE u == FrontTCP(conn[c].node)
           k == [state |-> "handshake", peer |-> c, node |-> Connected(u.value)]
<1>3. u.value \in Nat
  BY <1>2, FrontIs
<1>4. CASE conn[c].peer \in present /\ u.value \notin Dead \cup {Unspecified}
  <2>1. conn' = [conn EXCEPT ![c].state = "handshake", ![c].node = Connected(u.value)]
        /\ UNCHANGED conns
    BY <1>4 DEF Setup
  <2>2. conn' = [conn EXCEPT ![c] = k]
    <3>1. [conn[c] EXCEPT !.state = "handshake", !.node = Connected(u.value)] = k
      <4>1. ASSUME NEW r \in ConnType, NEW n
            PROVE  [r EXCEPT !.state = "handshake", !.node = n]
                     = [state |-> "handshake", peer |-> r.peer, node |-> n]
        <5> DEFINE q == [r EXCEPT !.state = "handshake"]
        <5>1. q = [state |-> "handshake", peer |-> r.peer, node |-> r.node] /\ q \in ConnType
          BY DEF ConnType, ConnStates
        <5>2. [r EXCEPT !.state = "handshake", !.node = n] = [q EXCEPT !.node = n]
          OBVIOUS
        <5> HIDE DEF q
        <5>3. [q EXCEPT !.node = n] = [state |-> q.state, peer |-> q.peer, node |-> n]
          BY <5>1 DEF ConnType
        <5>4. q.state = "handshake" /\ q.peer = r.peer
          BY <5>1
        <5> QED
          BY <5>2, <5>3, <5>4
      <4> HIDE DEF u
      <4> QED
        BY <1>2, <4>1
    <3> HIDE DEF u, k
    <3> QED
      BY <1>1, <2>1, <3>1 DEF ManagerTypeOK
  <2>3. k \in ConnType /\ k.state = "handshake" /\ k.peer = c /\ k.node = Connected(u.value)
    BY <1>2, <1>3, ConnectedFacts DEF ConnType, ConnStates
  <2>4. u.value # Unspecified /\ c \notin Inbound
    BY <1>2, <1>4, ManagerAssumption
  <2> HIDE DEF k
  <2>5. ConnectionOK(k, c)
    BY <1>2, <1>3, <2>3, <2>4 DEF ConnectionOK
  <2>6. conns' = IF k.state = "none" THEN conns \ {c} ELSE conns \cup {c}
    BY <1>2, <2>1, <2>3
  <2>7. ConnsKept
    BY <1>1, <1>2, <2>2, <2>3, <2>5, <2>6, ConnectionChanges
  <2> QED
    BY <2>7, ConnectionStep DEF Setup
<1>5. CASE ~(conn[c].peer \in present /\ u.value \notin Dead \cup {Unspecified})
  <2>1. Close(c)
    BY <1>5 DEF Setup
  <2>2. ConnsKept
    BY <1>1, <1>2, <2>1, CloseKeeps
  <2> QED
    BY <2>2, ConnectionStep DEF Setup
<1> QED
  BY <1>4, <1>5

LEMMA AcceptKeeps ==
  ASSUME Sound, NEW c \in Conns, Accept(c)
  PROVE  Sound'
<1>1. ManagerTypeOK /\ ConnectionsOK
  BY DEF Sound, ManagerInv
<1> DEFINE k == [state |-> "handshake", peer |-> None, node |-> Connected(Unspecified)]
<1>2. /\ Unspecified \in Nat /\ k \in ConnType /\ k.state = "handshake" /\ k.peer = None
      /\ k.node = Connected(Unspecified)
  BY ConnectedFacts DEF ConnType, ConnStates, Unspecified
<1>3. conn' = [conn EXCEPT ![c] = k] /\ conns' = conns \cup {c} /\ c \in Inbound
  BY DEF Accept
<1>4. c \notin Peers /\ conn[c].state = "none"
  BY <1>3, ManagerAssumption DEF Accept
<1> HIDE DEF k
<1>5. ConnectionOK(k, c)
  BY <1>2, <1>3, <1>4 DEF ConnectionOK
<1>6. ConnsKept
  BY <1>1, <1>2, <1>3, <1>4, <1>5, ConnectionChanges
<1> QED
  BY <1>6, ConnectionStep DEF Accept

LEMMA HandshakeFailsKeeps ==
  ASSUME Sound, NEW c \in Conns, HandshakeFails(c)
  PROVE  Sound'
  BY CloseKeeps, ConnectionStep DEF HandshakeFails, Sound, ManagerInv

LEMMA FinallyKeeps ==
  ASSUME Sound, NEW c \in Conns, Finally(c)
  PROVE  Sound'
  BY CloseKeeps, ConnectionStep DEF Finally, Sound, ManagerInv

LEMMA MoveKeeps ==
  ASSUME Sound, NEW p \in Peers, Move(p)
  PROVE  Sound'
<1>1. ManagerTypeOK /\ RoutingKnows /\ ConnectionsOK
  BY DEF Sound, ManagerInv
<1>2. UNCHANGED <<list, uris, events, announced, conns, conn, next>>
  BY DEF Move
<1>3. ConnsKept
  BY <1>1, <1>2, ConnectionsStay
<1>4. EventsMove(0, {})
  BY <1>1, <1>2, SameEvents
<1>5. RoutingKnows'
  BY <1>1, <1>2, <1>4, QuietStep
<1>6. NodesOK'
  BY <1>1, <1>2 DEF ManagerTypeOK, NodesOK, Once, Elements
<1>7. RestOK'
  BY <1>1 DEF ManagerTypeOK, RestOK, Move
<1>8. UrisKept
  BY <1>2 DEF UrisKept
<1>9. Calm(0, {})
  BY <1>3, <1>4, <1>8 DEF Calm
<1> QED
  BY <1>5, <1>6, <1>7, <1>9, CalmStep

LEMMA AnnouncementKeeps ==
  ASSUME Sound, NEW p \in Peers, Announcement(p)
  PROVE  Sound'
<1>1. ManagerTypeOK /\ RoutingKnows /\ ConnectionsOK
  BY DEF Sound, ManagerInv
<1>2. UNCHANGED <<list, uris, announced, conns, conn, next, present>>
  BY DEF Announcement
<1> DEFINE n == Typed("discovered", Services[p], Timeout)
           e == Event("info", p, n)
<1>3. n \in NodeInfo /\ \A x \in n : x.uri.type = "discovered"
  <2>1. Services[p] \in SUBSET Entry /\ Timeout \in 0..Timeout
    BY ManagerAssumption
  <2> QED
    BY <2>1, TypedFacts
<1>4. events' = Append(events, e)
  BY DEF Announcement
<1> HIDE DEF n
<1>5. e \in EventType /\ e.kind = "info" /\ e.node = n
  BY <1>3, EventFields
<1> HIDE DEF e
<1>6. EventsMove(0, {e})
  BY <1>1, <1>4, <1>5, EventQueued
<1>7. RoutingKnows'
  BY <1>1, <1>2, <1>5, <1>6, QuietStep
<1>8. NodesOK' /\ RestOK'
  BY <1>1, <1>2 DEF ManagerTypeOK, NodesOK, RestOK, Once, Elements
<1>9. UrisKept
  BY <1>2 DEF UrisKept
<1>10. ConnsKept
  BY <1>1, <1>2, ConnectionsStay
<1>11. Calm(0, {e})
  BY <1>3, <1>5, <1>6, <1>9, <1>10 DEF Calm, EventOK
<1> QED
  BY <1>7, <1>8, <1>11, CalmStep

\* The routing learns of a node.
LEMMA LearnsStep ==
  ASSUME ManagerTypeOK, RoutingKnows, NEW p \in Peers, NEW kind,
         IsNext(kind), Head(events).peer = p, kind \in {"available", "unavailable"},
         announced' = IF kind = "available" THEN announced \cup {p} ELSE announced \ {p},
         events' = Tail(events), UNCHANGED list
  PROVE  EventsMove(1, {}) /\ RoutingKnows' /\ events[1].kind = kind
<1>1. EventsMove(1, {}) /\ Head(events) = events[1]
  BY FirstHandled DEF IsNext
<1>2. events[1].kind = kind /\ events[1].peer = p
  BY <1>1 DEF IsNext
<1>3. ASSUME NEW q \in Peers
      PROVE  Tells(1, q) /\ Learns(1, q)
  <2>1. \A i \in 1..Len(events') : ~(i > Len(events) - 1)
    BY <1>1, EventMoves
  <2>2. Tells(1, q)
    BY <2>1 DEF Tells, Elements
  <2>3. CASE q = p
    BY <1>2, <2>2, <2>3 DEF Learns, About
  <2>4. CASE q # p
    BY <1>2, <2>2, <2>4 DEF Learns, About
  <2> QED
    BY <2>3, <2>4
<1> QED
  BY <1>1, <1>2, <1>3, RoutingStays

LEMMA NodeIsAvailableKeeps ==
  ASSUME Sound, NodeIsAvailable
  PROVE  Sound'
<1>1. ManagerTypeOK /\ RoutingKnows /\ ConnectionsOK
  BY DEF Sound, ManagerInv
<1>2. events # <<>> /\ Head(events).kind = "available" /\ events' = Tail(events)
      /\ UNCHANGED <<list, uris, next, present>>
  BY DEF NodeIsAvailable, IsNext
<1>3. Head(events) \in EventType
  BY <1>1, <1>2, FirstHandled
<1> DEFINE p == Head(events).peer
           n == Head(events).node
           S == IF p \in Immediate /\ (\E x \in n : x.uri.type = "static")
                  THEN Opened({}, p, n) ELSE {}
<1>4. p \in Peers /\ n \in NodeInfo
  BY <1>3, EventParts
<1>5. announced' = announced \cup {p} /\ Create(S)
  BY DEF NodeIsAvailable
<1>6. ConnsKept
  <2>1. ASSUME NEW s \in S
        PROVE  /\ s.peer \in Peers /\ s.node \in NodeInfo /\ Has(s.node, "tcp")
               /\ ~Matching(conn, s.peer)
    <3>1. s \in Opened({}, p, n)
      BY <2>1
    <3> HIDE DEF p, n
    <3>2. s = [peer |-> p, node |-> n] /\ LayerOf(n) = "tcp" /\ ~Matching(conn, p)
      BY <3>1 DEF Opened
    <3> QED
      BY <1>4, <3>2, LayerHas
  <2> HIDE DEF S
  <2> QED
    BY <1>1, <1>5, <2>1, Creates
<1>7. EventsMove(1, {}) /\ RoutingKnows' /\ events[1].kind = "available"
  <2>1. IsNext("available")
    BY <1>2 DEF IsNext
  <2>2. announced' = IF "available" = "available" THEN announced \cup {p} ELSE announced \ {p}
    BY <1>5
  <2> HIDE DEF S
  <2> QED
    BY <1>1, <1>2, <1>4, <2>1, <2>2, LearnsStep
<1>8. NodesOK' /\ RestOK'
  BY <1>1, <1>2, <1>4, <1>5 DEF ManagerTypeOK, NodesOK, RestOK, Once, Elements
<1>9. UrisKept
  BY <1>2 DEF UrisKept
<1>10. Calm(1, {})
  BY <1>6, <1>7, <1>9 DEF Calm
<1> QED
  BY <1>7, <1>8, <1>10, CalmStep

LEMMA NodeIsUnavailableKeeps ==
  ASSUME Sound, NodeIsUnavailable
  PROVE  Sound'
<1>1. ManagerTypeOK /\ RoutingKnows /\ ConnectionsOK
  BY DEF Sound, ManagerInv
<1>2. events # <<>> /\ Head(events).kind = "unavailable" /\ events' = Tail(events)
      /\ UNCHANGED <<list, uris, conns, conn, next, present>>
  BY DEF NodeIsUnavailable, IsNext
<1>3. Head(events) \in EventType
  BY <1>1, <1>2, FirstHandled
<1> DEFINE p == Head(events).peer
<1>4. p \in Peers
  BY <1>3, EventParts
<1>5. announced' = announced \ {p}
  BY DEF NodeIsUnavailable
<1>6. ConnsKept
  BY <1>1, <1>2, ConnectionsStay
<1>7. EventsMove(1, {}) /\ RoutingKnows' /\ events[1].kind = "unavailable"
  <2>1. IsNext("unavailable")
    BY <1>2 DEF IsNext
  <2>2. announced' = IF "unavailable" = "available" THEN announced \cup {p} ELSE announced \ {p}
    BY <1>5
  <2> QED
    BY <1>1, <1>2, <1>4, <2>1, <2>2, LearnsStep
<1>8. NodesOK' /\ RestOK'
  BY <1>1, <1>2, <1>4, <1>5 DEF ManagerTypeOK, NodesOK, RestOK, Once, Elements
<1>9. UrisKept
  BY <1>2 DEF UrisKept
<1>10. Calm(1, {})
  BY <1>6, <1>7, <1>9 DEF Calm
<1> QED
  BY <1>7, <1>8, <1>10, CalmStep

\* Adding and removing URIs of another type keeps those of connections.
LEMMA OthersKept ==
  ASSUME NEW n \in NodeInfo, NEW o \in NodeInfo, \A x \in o : x.uri.type # "connected",
         NEW x, x.uri.type = "connected"
  PROVE  (x \in Plus(n, o) <=> x \in n) /\ (x \in Minus(n, o) <=> x \in n)
<1>1. \A y \in o : x.uri # y.uri
  OBVIOUS
<1> QED
  BY <1>1, PlusMinus

\* Such URIs become known.
NodesOnly == UNCHANGED <<announced, conns, conn, next, present>>

LEMMA AddKeeps ==
  ASSUME Sound, NEW p \in Peers, NEW n \in NodeInfo, NEW k \in {0, 1},
         k = 1 => events # <<>> /\ events[1].kind = "info",
         Add(p, n, Remaining(k)), NodesOnly,
         \A x \in n : x.uri.type # "connected"
  PROVE  Sound'
<1>1. ManagerTypeOK /\ RoutingKnows /\ ConnectionsOK
  BY DEF Sound, ManagerInv
<1> DEFINE e == Event("available", p, n)
<1>2. e.kind = "available" /\ e.node = n
  BY EventFields
<1>3. /\ EventsMove(k, {e}) /\ \A q \in Peers : Tells(k, q)
      /\ uris' \in [Peers -> NodeInfo]
      /\ \A q \in Peers : uris'[q] = IF q = p THEN Plus(uris[p], n) ELSE uris[q]
      /\ list' \in Seq(Peers) /\ \A i, j \in 1..Len(list') : list'[i] = list'[j] => i = j
      /\ \A q \in Peers \ Elements(list') : uris'[q] = {}
  <2>1. k = 1 => events # <<>>
    OBVIOUS
  <2> QED
    BY <1>1, <2>1, AddFacts
<1> HIDE DEF e
<1>4. \A q \in Peers : Learns(k, q)
  BY DEF Learns, About, NodesOnly
<1>5. RoutingKnows'
  BY <1>1, <1>3, <1>4, RoutingStays
<1>6. NodesOK' /\ RestOK'
  <2>1. NodesOK'
    BY <1>3 DEF NodesOK, Once
  <2>2. RestOK'
    BY <1>1 DEF RestOK, ManagerTypeOK, NodesOnly
  <2> QED
    BY <2>1, <2>2
<1>7. UrisKept
  BY <1>1, <1>3, OthersKept DEF UrisKept, ManagerTypeOK
<1>8. ConnsKept
  BY <1>1, ConnectionsStay DEF NodesOnly
<1>9. Calm(k, {e})
  BY <1>2, <1>3, <1>7, <1>8 DEF Calm, EventOK
<1> QED
  BY <1>5, <1>6, <1>9, CalmStep

LEMMA DiscoveredKeeps ==
  ASSUME Sound, Discovered
  PROVE  Sound'
<1>1. ManagerTypeOK /\ EventsOK
  BY DEF Sound, ManagerInv
<1>2. events # <<>> /\ Head(events).kind = "info"
      /\ Add(Head(events).peer, Head(events).node, Tail(events))
      /\ UNCHANGED <<announced, conns, conn, next, present>>
  BY DEF Discovered, IsNext
<1>3. Head(events) = events[1] /\ events[1] \in EventType /\ 1 \in 1..Len(events)
  <2>1. events \in Seq(EventType)
    BY <1>1 DEF ManagerTypeOK
  <2> QED
    BY <1>2, <2>1
<1>4. events[1].peer \in Peers /\ events[1].node \in NodeInfo
  BY <1>3, EventParts
<1>5. \A x \in events[1].node : x.uri.type # "connected"
  BY <1>1, <1>2, <1>3 DEF EventsOK, EventOK
<1>6. Add(events[1].peer, events[1].node, Remaining(1))
  BY <1>2, <1>3 DEF Remaining
<1> QED
  BY <1>2, <1>3, <1>4, <1>5, <1>6, AddKeeps DEF NodesOnly

\* The configured URIs are not those of connections.
LEMMA StaticFacts ==
  ASSUME NEW p \in Peers
  PROVE  /\ Typed("static", Static[p], 0) \in NodeInfo
         /\ \A x \in Typed("static", Static[p], 0) : x.uri.type # "connected"
<1>1. Static[p] \in SUBSET Entry /\ 0 \in 0..Timeout
  BY ManagerAssumption
<1> QED
  BY <1>1, TypedFacts

LEMMA AddConnectionKeeps ==
  ASSUME Sound, NEW p \in Peers, AddConnection(p)
  PROVE  Sound'
<1>1. Add(p, Typed("static", Static[p], 0), Remaining(0))
      /\ UNCHANGED <<announced, conns, conn, next, present>>
  BY DEF AddConnection, Remaining
<1> QED
  BY <1>1, StaticFacts, AddKeeps DEF NodesOnly

LEMMA RemoveConnectionKeeps ==
  ASSUME Sound, NEW p \in Peers, RemoveConnection(p)
  PROVE  Sound'
<1>1. ManagerTypeOK /\ RoutingKnows /\ ConnectionsOK
  BY DEF Sound, ManagerInv
<1>2. UNCHANGED <<list, events, announced, conns, conn, next, present>>
  BY DEF RemoveConnection
<1> DEFINE n == Typed("static", Static[p], 0)
<1>3. n \in NodeInfo /\ \A x \in n : x.uri.type # "connected"
  BY StaticFacts
<1>4. uris' = [uris EXCEPT ![p] = Minus(uris[p], n)] /\ p \in Elements(list)
  BY DEF RemoveConnection, Remove
<1> HIDE DEF n
<1>5. uris \in [Peers -> NodeInfo] /\ Minus(uris[p], n) \in NodeInfo
  BY <1>1, <1>3, PlusMinus DEF ManagerTypeOK
<1>6. uris' \in [Peers -> NodeInfo]
      /\ \A q \in Peers : uris'[q] = IF q = p THEN Minus(uris[p], n) ELSE uris[q]
  BY <1>4, <1>5
<1>7. EventsMove(0, {})
  BY <1>1, <1>2, SameEvents
<1>8. RoutingKnows'
  BY <1>1, <1>2, <1>7, QuietStep
<1>9. NodesOK' /\ RestOK'
  <2>1. list' \in Seq(Peers) /\ Once(list') /\ Elements(list') = Elements(list)
    BY <1>1, <1>2 DEF ManagerTypeOK, Once, Elements
  <2>2. \A q \in Peers \ Elements(list') : uris'[q] = {}
    BY <1>1, <1>4, <1>6, <2>1 DEF ManagerTypeOK
  <2>3. RestOK'
    BY <1>1, <1>2 DEF ManagerTypeOK, RestOK
  <2> QED
    BY <1>6, <2>1, <2>2, <2>3 DEF NodesOK
<1>10. UrisKept
  BY <1>3, <1>5, <1>6, OthersKept DEF UrisKept
<1>11. ConnsKept
  BY <1>1, <1>2, ConnectionsStay
<1>12. Calm(0, {})
  BY <1>7, <1>10, <1>11 DEF Calm
<1> QED
  BY <1>8, <1>9, <1>12, CalmStep

LEMMA SecondTickKeeps ==
  ASSUME Sound, SecondTick
  PROVE  Sound'
<1>1. ManagerTypeOK /\ RoutingKnows /\ ConnectionsOK /\ UrisOK
  BY DEF Sound, ManagerInv
<1> DEFINE us == [p \in Peers |-> Expire(uris[p])]
           kept == Within(list, {p \in Peers : us[p] # {}})
           S == {Event("unavailable", p, {}) : p \in Peers}
<1>2. /\ uris' = us /\ list' = kept /\ Dropped(Within(list, {p \in Peers : us[p] = {}}))
      /\ UNCHANGED <<announced, present>>
      /\ \/ next > 0 /\ next' = next - 1 /\ UNCHANGED <<conns, conn>>
         \/ next' = Interval /\ Create(IF Interval = 0 THEN {} ELSE AutoConnect(kept, us))
  BY DEF SecondTick, Dropped
<1>3. us \in [Peers -> NodeInfo] /\ \A p \in Peers : us[p] = Expire(uris[p]) /\ uris[p] \in NodeInfo
  BY <1>1, ExpireFacts DEF ManagerTypeOK
<1> HIDE DEF us
<1>4. /\ list' \in Seq(Peers) /\ Once(list')
      /\ \A p : p \in Elements(list') <=> p \in Elements(list) /\ p \in Peers /\ us[p] # {}
      /\ EventsMove(0, S)
      /\ \A p \in Peers : Tells(0, p)
  BY <1>1, <1>2, <1>3, NodesDropped
<1> HIDE DEF kept
<1>5. RoutingKnows'
  <2>1. \A p \in Peers : Learns(0, p)
    BY <1>2 DEF Learns
  <2> HIDE DEF S
  <2> QED
    BY <1>1, <1>4, <2>1, RoutingStays
<1>6. UrisKept
  <2> SUFFICES ASSUME NEW p \in Peers, NEW x, x.uri.type = "connected"
               PROVE  x \in us[p] <=> x \in uris[p]
    BY <1>2 DEF UrisKept
  <2>1. us[p] = Expire(uris[p]) /\ uris[p] \in NodeInfo
    BY <1>3
  <2>2. ASSUME x \in uris[p]
        PROVE  x \in us[p]
    BY <1>1, <2>1, <2>2, ExpireFacts DEF UrisOK
  <2>3. ASSUME x \in us[p]
        PROVE  x \in uris[p]
    <3>1. PICK y \in uris[p] : x.uri = y.uri /\ (y.left = 0 => x = y)
      BY <2>1, <2>3, ExpireFacts
    <3> QED
      BY <1>1, <3>1 DEF UrisOK
  <2> QED
    BY <2>2, <2>3
<1>7. NodesOK'
  <2>1. ASSUME NEW p \in Peers, p \notin Elements(list')
        PROVE  us[p] = {}
    <3>1. CASE p \in Elements(list)
      BY <1>4, <2>1, <3>1
    <3>2. CASE p \notin Elements(list)
      <4>1. uris[p] = {}
        BY <1>1, <3>2 DEF ManagerTypeOK
      <4> QED
        BY <1>3, <4>1, ExpireFacts
    <3> QED
      BY <3>1, <3>2
  <2> QED
    BY <1>2, <1>3, <1>4, <2>1 DEF NodesOK
<1>8. RestOK'
  <2>1. next' \in 0..Interval
    BY <1>1, <1>2, ManagerAssumption DEF ManagerTypeOK
  <2> QED
    BY <1>1, <1>2, <2>1 DEF ManagerTypeOK, RestOK
<1>9. ConnsKept
  <2>1. CASE UNCHANGED <<conns, conn>>
    BY <1>1, <2>1, ConnectionsStay
  <2>2. CASE Create(IF Interval = 0 THEN {} ELSE AutoConnect(kept, us))
    <3> DEFINE C == IF Interval = 0 THEN {} ELSE AutoConnect(kept, us)
    <3>1. kept \in Seq(Peers)
      BY <1>2, <1>4
    <3>2. \A s \in C : /\ s.peer \in Peers /\ s.node \in NodeInfo /\ Has(s.node, "tcp")
                       /\ ~Matching(conn, s.peer)
      BY <1>3, <3>1, AutoConnects
    <3>3. Create(C)
      BY <2>2
    <3> HIDE DEF C
    <3> QED
      BY <1>1, <3>2, <3>3, Creates
  <2> QED
    BY <1>2, <2>1, <2>2
<1>10. Calm(0, S)
  <2>1. \A e \in S : e.kind = "unavailable"
    <3>1. {} \in NodeInfo
      BY DEF NodeInfo
    <3> QED
      BY <3>1, EventFields
  <2> HIDE DEF S
  <2> QED
    BY <1>4, <1>6, <1>9, <2>1 DEF Calm, EventOK
<1> QED
  BY <1>5, <1>7, <1>8, <1>10, CalmStep

-----------------------------------------------------------------------------
(* The connection manager: connections that come up and go down.           *)

\* The event of a connection carries its one URI.
LEMMA ConnectedSame ==
  ASSUME NEW v \in Nat, NEW w \in Nat
  PROVE  /\ Connected(v) = Connected(w) => v = w
         /\ \A x \in Connected(v) : \A y \in Connected(w) : x.uri = y.uri => x = y /\ v = w
<1>1. \A x \in Connected(v) : \A y \in Connected(w) : x.uri = y.uri => x = y /\ v = w
  <2> SUFFICES ASSUME NEW x \in Connected(v), NEW y \in Connected(w), x.uri = y.uri
               PROVE  x = y /\ v = w
    OBVIOUS
  <2>1. v = w
    BY ConnectedFacts
  <2> QED
    BY <2>1, ConnectedFacts
<1>2. ASSUME Connected(v) = Connected(w)
      PROVE  v = w
  <2>1. PICK x : x \in Connected(v)
    BY ConnectedFacts
  <2> QED
    BY <1>1, <1>2, <2>1
<1> QED
  BY <1>1, <1>2

\* With one accepted connection, its peer and URI tell a connection that is up.
LEMMA UpsDiffer ==
  ASSUME OneInbound, ConnectionsOK, NEW c \in Conns, NEW d \in Conns,
         conn[c].state = "up", conn[d].state = "up",
         conn[c].peer = conn[d].peer, conn[c].node = conn[d].node
  PROVE  c = d
<1>1. PICK v \in Nat : conn[c].node = Connected(v) /\ (c \in Inbound <=> v = Unspecified)
  BY DEF ConnectionsOK, ConnectionOK
<1>2. PICK w \in Nat : conn[d].node = Connected(w) /\ (d \in Inbound <=> w = Unspecified)
  BY DEF ConnectionsOK, ConnectionOK
<1>3. v = w
  BY <1>1, <1>2, ConnectedSame
<1>4. CASE c \in Inbound
  BY <1>1, <1>2, <1>3, <1>4 DEF OneInbound
<1>5. CASE c \notin Inbound
  <2>1. c \in Peers /\ d \in Peers
    BY <1>1, <1>2, <1>3, <1>5 DEF Conns
  <2> QED
    BY <2>1 DEF ConnectionsOK, ConnectionOK
<1> QED
  BY <1>4, <1>5

\* What Sound' consists of.
LEMMA SoundParts ==
  ASSUME NodesOK', RestOK', events' \in Seq(EventType),
         conns' \subseteq Conns, conn' \in [Conns -> ConnType],
         ConnectionsOK', UrisOK', EventsOK', UpsEnd', UrisJustified', RoutingKnows',
         OneInbound => UpsKnown'
  PROVE  Sound'
<1>1. ManagerTypeOK'
  BY DEF ManagerTypeOK, NodesOK, RestOK, Once
<1> QED
  BY <1>1 DEF Sound, ManagerInv, OneInbound

\* Connection c takes the state k.
Becomes(c, k) == conn' = [conn EXCEPT ![c] = k] /\ UNCHANGED conns

LEMMA BecomesFacts ==
  ASSUME ManagerTypeOK, ConnectionsOK, NEW c \in Conns, NEW k \in ConnType, Becomes(c, k),
         k.state # "none", conn[c].state # "none", ConnectionOK(k, c)
  PROVE  /\ \A d \in Conns : conn'[d] = IF d = c THEN k ELSE conn[d]
         /\ conn' \in [Conns -> ConnType] /\ conns' \subseteq Conns /\ ConnectionsOK'
<1>1. /\ \A d \in Conns : conn'[d] = IF d = c THEN k ELSE conn[d]
      /\ conn' \in [Conns -> ConnType] /\ conns' = conns /\ conns \subseteq Conns
  BY DEF ManagerTypeOK, Becomes
<1>2. ASSUME NEW d \in Conns
      PROVE  ConnectionOK(conn'[d], d) /\ (conn'[d].state # "none" <=> d \in conns')
  BY <1>1 DEF ConnectionsOK
<1>3. ConnectionsOK'
  BY <1>2 DEF ConnectionsOK, ConnectionOK
<1> QED
  BY <1>1, <1>3

\* The nodes stay; an event e reports a connection that came up or went down.
NodesStay == UNCHANGED <<list, uris, announced, next, present>>

LEMMA Reports ==
  ASSUME Sound, NEW e \in EventType, events' = Append(events, e), e.kind \in {"up", "down"},
         NodesStay, UpOrDown(0), EventOK(e), e.kind = "up" => \E c \in Conns : IsUp(c, e)'
  PROVE  /\ NodesOK' /\ RestOK' /\ events' \in Seq(EventType) /\ EventsMove(0, {e})
         /\ UrisOK' /\ EventsOK' /\ UpsEnd' /\ UrisJustified' /\ RoutingKnows'
<1>1. ManagerInv /\ ManagerTypeOK
  BY DEF Sound, ManagerInv
<1>2. EventsMove(0, {e})
  BY <1>1, EventQueued
<1>3. NodesOK' /\ RestOK' /\ UrisOK'
  BY <1>1 DEF ManagerTypeOK, NodesOK, RestOK, Once, Elements, ManagerInv, UrisOK, NodesStay
<1>4. EventsOK' /\ UpsEnd'
  BY <1>1, <1>2, EventsStayOK, UpsEndStay DEF ManagerInv
<1>5. RoutingKnows'
  BY <1>1, <1>2, QuietStep DEF ManagerInv, NodesStay
<1>6. UrisJustified'
  <2>1. \A p \in Peers : \A x \in uris'[p] : x \in uris[p]
    BY DEF NodesStay
  <2> QED
    BY <1>1, <1>2, <2>1, UrisStayJustified DEF ManagerInv
<1>7. events' \in Seq(EventType)
  BY <1>2 DEF EventsMove
<1> QED
  BY <1>2, <1>3, <1>4, <1>5, <1>6, <1>7

LEMMA DisconnectKeeps ==
  ASSUME Sound, NEW c \in Conns, Disconnect(c)
  PROVE  Sound'
<1>1. ManagerInv /\ ManagerTypeOK /\ ConnectionsOK
  BY DEF Sound, ManagerInv
<1> DEFINE p == conn[c].peer
           n == conn[c].node
           k == [state |-> "closing", peer |-> p, node |-> n]
           e == Event("down", p, n)
<1>2. /\ conn[c].state = "up" /\ p \in Peers /\ n \in NodeInfo /\ conn[c] \in ConnType
      /\ c \in Peers => p = c
      /\ \E v \in Nat : n = Connected(v)
  BY <1>1 DEF Disconnect, ConnectionsOK, ConnectionOK, ManagerTypeOK, ConnType
<1>3. Becomes(c, k)
  <2>1. [conn[c] EXCEPT !.state = "closing"] = k
    BY <1>2 DEF ConnType
  <2>2. conn' = [conn EXCEPT ![c] = [conn[c] EXCEPT !.state = "closing"]] /\ UNCHANGED conns
    BY DEF Disconnect
  <2> QED
    BY <2>1, <2>2 DEF Becomes
<1>4. k \in ConnType /\ k.state = "closing" /\ k.peer = p /\ k.node = n
  BY <1>2 DEF ConnType, ConnStates
<1>5. events' = Append(events, e) /\ NodesStay
  BY DEF Disconnect, NodesStay
<1>6. e \in EventType /\ e.kind = "down" /\ e.peer = p /\ e.node = n
  BY <1>2, EventFields
<1> HIDE DEF k
<1>7. ConnectionOK(k, c)
  BY <1>2, <1>4 DEF ConnectionOK
<1>8. /\ \A d \in Conns : conn'[d] = IF d = c THEN k ELSE conn[d]
      /\ conn' \in [Conns -> ConnType] /\ conns' \subseteq Conns /\ ConnectionsOK'
  BY <1>1, <1>2, <1>3, <1>4, <1>7, BecomesFacts
<1>9. UpOrDown(0)
  <2>1. Len(events) \in Nat
    BY <1>1 DEF ManagerTypeOK
  <2>2. /\ Len(events) + 1 \in 1..Len(events') /\ Len(events) + 1 > Len(events) - 0
        /\ events'[Len(events) + 1] = e
    <3>1. Len(events') = Len(events) + 1 /\ events'[Len(events) + 1] = e
      BY <1>1, <1>5, <1>6, EventQueued
    <3> QED
      BY <2>1, <3>1
  <2> HIDE DEF e
  <2>3. e = Event("down", p, n)
    BY DEF e
  <2> QED
    BY <1>8, <2>2, <2>3 DEF UpOrDown
<1> HIDE DEF e
<1>10. EventOK(e)
  BY <1>2, <1>6 DEF EventOK
<1>11. /\ NodesOK' /\ RestOK' /\ events' \in Seq(EventType) /\ EventsMove(0, {e})
       /\ UrisOK' /\ EventsOK' /\ UpsEnd' /\ UrisJustified' /\ RoutingKnows'
  BY <1>5, <1>6, <1>9, <1>10, Reports
<1>12. ASSUME OneInbound
       PROVE  UpsKnown'
  <2> SUFFICES ASSUME NEW d \in Conns, conn'[d].state = "up"
               PROVE  UpKnown(d)'
    BY DEF UpsKnown, UpKnown
  <2>1. d # c /\ conn'[d] = conn[d] /\ conn[d].state = "up"
    BY <1>4, <1>8
  <2>2. UpKnown(d)
    BY <1>12, <2>1 DEF Sound, UpsKnown
  <2> DEFINE q == conn[d].peer
             m == conn[d].node
  <2>3. Event("down", q, m) # e
    <3>1. ~(q = p /\ m = n)
      BY <1>1, <1>2, <1>12, <2>1, UpsDiffer
    <3>2. q \in Peers /\ m \in NodeInfo
      BY <1>1, <2>1 DEF ConnectionsOK, ConnectionOK, ManagerTypeOK, ConnType
    <3> HIDE DEF q, m, p, n
    <3>3. Event("down", q, m).peer = q /\ Event("down", q, m).node = m
      BY <3>2, EventFields
    <3> QED
      BY <1>6, <3>1, <3>3
  <2>4. m \subseteq uris[q] => m \subseteq uris'[q]
    BY <1>5 DEF NodesStay
  <2> HIDE DEF q, m
  <2>5. q = conn[d].peer /\ m = conn[d].node /\ Event("down", q, m) \notin {e} /\ 0 # 1
    BY <2>3 DEF q, m
  <2> QED
    BY <1>1, <1>11, <2>1, <2>2, <2>4, <2>5, UpStaysKnown
<1> QED
  BY <1>8, <1>11, <1>12, SoundParts

LEMMA HandshakeKeeps ==
  ASSUME Sound, NEW c \in Conns, NEW p \in Peers, Handshake(c, p)
  PROVE  Sound'
<1>1. ManagerInv /\ ManagerTypeOK /\ ConnectionsOK
  BY DEF Sound, ManagerInv
<1>n. PICK n : n = conn[c].node
  OBVIOUS
<1> DEFINE k == [state |-> "up", peer |-> p, node |-> n]
           e == Event("up", p, n)
<1>2. /\ conn[c].state = "handshake" /\ n \in NodeInfo /\ conn[c] \in ConnType
      /\ \E v \in Nat : n = Connected(v) /\ (c \in Inbound <=> v = Unspecified)
  BY <1>1, <1>n DEF Handshake, ConnectionsOK, ConnectionOK, ManagerTypeOK, ConnType
<1>3. c \in Peers => p = c
  <2>1. None \notin Peers
    BY ManagerAssumption
  <2> QED
    BY <1>1, <1>2, <2>1 DEF Handshake, ConnectionsOK, ConnectionOK
<1>4. Becomes(c, k)
  <2>1. [conn[c] EXCEPT !.state = "up", !.peer = p] = k
    <3>1. ASSUME NEW r \in ConnType
          PROVE  [r EXCEPT !.state = "up", !.peer = p] = [state |-> "up", peer |-> p, node |-> r.node]
      <4> DEFINE q == [r EXCEPT !.state = "up"]
      <4>1. q = [state |-> "up", peer |-> r.peer, node |-> r.node] /\ q \in ConnType
        BY DEF ConnType, ConnStates
      <4>2. [r EXCEPT !.state = "up", !.peer = p] = [q EXCEPT !.peer = p]
        OBVIOUS
      <4> HIDE DEF q
      <4>3. [q EXCEPT !.peer = p] = [state |-> q.state, peer |-> p, node |-> q.node]
        BY <4>1 DEF ConnType
      <4>4. q.state = "up" /\ q.node = r.node
        BY <4>1
      <4> QED
        BY <4>2, <4>3, <4>4
    <3> QED
      BY <1>2, <1>n, <3>1
  <2>2. conn' = [conn EXCEPT ![c].state = "up", ![c].peer = p] /\ UNCHANGED conns
    BY DEF Handshake
  <2> HIDE DEF k
  <2>3. conn' = [conn EXCEPT ![c] = k]
    BY <1>1, <2>1, <2>2 DEF ManagerTypeOK
  <2> QED
    BY <2>2, <2>3 DEF Becomes
<1>5. k \in ConnType /\ k.state = "up" /\ k.peer = p /\ k.node = n
  BY <1>2 DEF ConnType, ConnStates
<1>6. events' = Append(events, e) /\ NodesStay
  BY <1>n DEF Handshake, NodesStay
<1>7. e \in EventType /\ e.kind = "up" /\ e.peer = p /\ e.node = n
  BY <1>2, EventFields
<1> HIDE DEF k
<1>8. ConnectionOK(k, c)
  BY <1>2, <1>3, <1>5 DEF ConnectionOK
<1>9. /\ \A d \in Conns : conn'[d] = IF d = c THEN k ELSE conn[d]
      /\ conn' \in [Conns -> ConnType] /\ conns' \subseteq Conns /\ ConnectionsOK'
  BY <1>1, <1>2, <1>4, <1>5, <1>8, BecomesFacts
<1>10. UpOrDown(0)
  BY <1>2, <1>9 DEF UpOrDown
<1>11. EventOK(e) /\ IsUp(c, e)'
  <2>1. EventOK(e)
    <3> HIDE DEF e
    <3> QED
      BY <1>2, <1>7 DEF EventOK
  <2>2. conn'[c].state = "up" /\ conn'[c].peer = e.peer /\ conn'[c].node = e.node
    <3> HIDE DEF e
    <3> QED
      BY <1>5, <1>7, <1>9
  <2> QED
    BY <2>1, <2>2 DEF IsUp
<1>12. /\ NodesOK' /\ RestOK' /\ events' \in Seq(EventType) /\ EventsMove(0, {e})
       /\ UrisOK' /\ EventsOK' /\ UpsEnd' /\ UrisJustified' /\ RoutingKnows'
  <2>1. e.kind = "up" => \E d \in Conns : IsUp(d, e)'
    BY <1>11
  <2> HIDE DEF e
  <2> QED
    BY <1>6, <1>7, <1>10, <1>11, <2>1, Reports
<1>13. ASSUME OneInbound
       PROVE  UpsKnown'
  <2> SUFFICES ASSUME NEW d \in Conns, conn'[d].state = "up"
               PROVE  UpKnown(d)'
    BY DEF UpsKnown, UpKnown
  <2>1. CASE d = c
    <3>1. Len(events) \in Nat /\ Len(events') = Len(events) + 1 /\ events'[Len(events) + 1] = e
      BY <1>1, <1>6, <1>7, EventQueued DEF ManagerTypeOK
    <3>2. conn'[c].peer = p /\ conn'[c].node = n
      BY <1>5, <1>9
    <3>3. /\ Len(events) + 1 \in 1..Len(events')
          /\ \A j \in 1..Len(events') : ~(j > Len(events) + 1)
      BY <3>1
    <3>4. \E i \in 1..Len(events') :
            /\ events'[i] = Event("up", p, n)
            /\ \A j \in 1..Len(events') : j > i => events'[j] # Event("down", p, n)
      BY <3>1, <3>3
    <3> HIDE DEF e
    <3> QED
      BY <2>1, <3>2, <3>4 DEF UpKnown
  <2>2. CASE d # c
    <3>1. conn'[d] = conn[d] /\ conn[d].state = "up"
      BY <1>9, <2>2
    <3>2. UpKnown(d)
      BY <1>13, <3>1 DEF Sound, UpsKnown
    <3> DEFINE q == conn[d].peer
               m == conn[d].node
    <3>3. Event("down", q, m) # e
      BY DEF Event
    <3>4. m \subseteq uris[q] => m \subseteq uris'[q]
      BY <1>6 DEF NodesStay
    <3> HIDE DEF q, m, e
    <3>5. q = conn[d].peer /\ m = conn[d].node /\ Event("down", q, m) \notin {e} /\ 0 # 1
      BY <3>3 DEF q, m
    <3> QED
      BY <1>1, <1>12, <3>1, <3>2, <3>4, <3>5, UpStaysKnown
  <2> QED
    BY <2>1, <2>2
<1> QED
  BY <1>9, <1>12, <1>13, SoundParts

\* Only URIs and events change.
ConnsStay == UNCHANGED <<announced, conns, conn, next, present>>

LEMMA ConnectionUpKeeps ==
  ASSUME Sound, ConnectionUp
  PROVE  Sound'
<1>1. ManagerInv /\ ManagerTypeOK /\ ConnectionsOK /\ UrisOK /\ EventsOK /\ RoutingKnows
  BY DEF Sound, ManagerInv
<1>2. PICK p, n : p = Head(events).peer /\ n = Head(events).node
  OBVIOUS
<1>3. events # <<>> /\ Head(events).kind = "up" /\ Add(p, n, Remaining(1)) /\ ConnsStay
  BY <1>2 DEF ConnectionUp, IsNext, Remaining, ConnsStay
<1>4. /\ Head(events) = events[1] /\ events[1] \in EventType /\ 1 \in 1..Len(events)
      /\ Len(events) \in Nat
  <2>1. events \in Seq(EventType)
    BY <1>1 DEF ManagerTypeOK
  <2> QED
    BY <1>3, <2>1
<1>5. /\ p \in Peers /\ n \in NodeInfo /\ events[1] = Event("up", p, n)
      /\ events[1].kind = "up" /\ events[1].peer = p /\ events[1].node = n
  BY <1>2, <1>3, <1>4, EventParts
<1>6. PICK v \in Nat : n = Connected(v)
  BY <1>1, <1>4, <1>5 DEF EventsOK, EventOK
<1>7. PICK e : e = Event("available", p, n)
  OBVIOUS
<1>8. e.kind = "available" /\ e.node = n
  BY <1>5, <1>7, EventFields
<1>9. /\ EventsMove(1, {e}) /\ \A q \in Peers : Tells(1, q)
      /\ uris' \in [Peers -> NodeInfo]
      /\ \A q \in Peers : uris'[q] = IF q = p THEN Plus(uris[p], n) ELSE uris[q]
      /\ list' \in Seq(Peers) /\ \A i, j \in 1..Len(list') : list'[i] = list'[j] => i = j
      /\ \A q \in Peers \ Elements(list') : uris'[q] = {}
  <2>1. /\ ManagerTypeOK /\ 1 \in {0, 1} /\ events # <<>> /\ Add(p, n, Remaining(1))
        /\ p \in Peers /\ n \in NodeInfo
    BY <1>1, <1>3, <1>5
  <2>2. EventsMove(1, {Event("available", p, n)}) /\ \A q \in Peers : Tells(1, q)
    BY <2>1, AddFacts
  <2>3. /\ uris' \in [Peers -> NodeInfo]
        /\ \A q \in Peers : uris'[q] = IF q = p THEN Plus(uris[p], n) ELSE uris[q]
        /\ list' \in Seq(Peers) /\ \A i, j \in 1..Len(list') : list'[i] = list'[j] => i = j
        /\ \A q \in Peers \ Elements(list') : uris'[q] = {}
    BY <2>1, AddFacts
  <2> QED
    BY <1>7, <2>2, <2>3
<1>10. \A q \in Peers : uris[q] \in NodeInfo
  BY <1>1, ManagerTyped
<1>11. NodesOK' /\ RestOK' /\ events' \in Seq(EventType)
  <2>1. NodesOK'
    BY <1>9 DEF NodesOK, Once
  <2>2. RestOK'
    BY <1>1, <1>3 DEF RestOK, ManagerTypeOK, ConnsStay
  <2> QED
    BY <1>9, <2>1, <2>2 DEF EventsMove
<1>12. ConnsKept
  BY <1>1, <1>3, ConnectionsStay DEF ConnsStay
<1>13. /\ conns' \subseteq Conns /\ conn' \in [Conns -> ConnType] /\ ConnectionsOK'
       /\ conn' = conn /\ UpOrDown(1)
  BY <1>3, <1>12 DEF ConnsKept, UpOrDown, ConnsStay
<1>14. RoutingKnows'
  <2>1. \A q \in Peers : Learns(1, q)
    BY <1>3, <1>5 DEF Learns, About, ConnsStay
  <2> QED
    BY <1>1, <1>9, <2>1, RoutingStays
<1>15. ASSUME NEW q \in Peers, NEW x \in uris'[q]
       PROVE  x \in uris[q] \/ (q = p /\ x \in n)
  BY <1>5, <1>9, <1>10, PlusMinus
<1>16. UrisOK'
  BY <1>1, <1>6, <1>15, ConnectedFacts DEF UrisOK
<1>17. EventsOK' /\ UpsEnd'
  <2>1. \A f \in {e} : EventOK(f) /\ f.kind # "up"
    BY <1>8 DEF EventOK
  <2> QED
    BY <1>1, <1>9, <1>13, <2>1, EventsStayOK, UpsEndStay DEF ManagerInv
<1>18. UrisJustified'
  <2>1. ASSUME NEW q \in Peers, NEW x \in uris'[q], x.uri.type = "connected"
        PROVE  \/ x \in uris[q] /\ events[1] # Event("down", q, {x})
               \/ Justified(q, x)'
    <3>1. CASE x \in uris[q]
      BY <1>5, <3>1 DEF Event
    <3>2. CASE q = p /\ x \in n
      <4>1. n = {x}
        BY <1>6, <3>2, ConnectedFacts
      <4>2. CASE \E c \in Conns : IsUp(c, events[1])
        BY <1>5, <1>13, <3>2, <4>2 DEF IsUp, Justified
      <4>3. CASE \E j \in 1..Len(events) : j > 1 /\ events[j] = Event("down", p, n)
        <5>1. PICK j \in 1..Len(events) : j > 1 /\ events[j] = Event("down", p, n)
          BY <4>3
        <5>2. j - 1 \in 1..Len(events') /\ events'[j - 1] = events[j]
          BY <1>1, <1>9, <5>1, EventMoves
        <5> QED
          BY <3>2, <4>1, <5>1, <5>2 DEF Justified
      <4> QED
        BY <1>1, <1>4, <1>5, <4>2, <4>3 DEF ManagerInv, UpsEnd
    <3> QED
      BY <1>15, <3>1, <3>2
  <2> QED
    BY <1>1, <1>9, <1>13, <2>1, UrisStayJustified DEF ManagerInv
<1>19. ASSUME OneInbound
       PROVE  UpsKnown'
  <2> SUFFICES ASSUME NEW c \in Conns, conn'[c].state = "up"
               PROVE  UpKnown(c)'
    BY DEF UpsKnown, UpKnown
  <2>1. conn'[c] = conn[c] /\ conn[c].state = "up" /\ UpKnown(c)
    BY <1>13, <1>19 DEF Sound, UpsKnown
  <2>2. PICK q, m : q = conn[c].peer /\ m = conn[c].node
    OBVIOUS
  <2>3. q \in Peers /\ \E w \in Nat : m = Connected(w)
    BY <1>1, <2>1, <2>2 DEF ConnectionsOK, ConnectionOK
  <2>4. ASSUME m \subseteq uris[q]
        PROVE  m \subseteq uris'[q]
    <3>1. CASE q # p
      BY <1>9, <2>3, <2>4, <3>1
    <3>2. CASE q = p
      <4>1. ASSUME NEW x \in m
            PROVE  x \in Plus(uris[p], n)
        <5>1. CASE \E y \in n : x.uri = y.uri
          <6>1. x \in n
            BY <1>6, <2>3, <5>1, ConnectedSame
          <6> QED
            BY <1>5, <1>10, <6>1, PlusMinus
        <5>2. CASE \A y \in n : x.uri # y.uri
          BY <1>5, <1>10, <2>4, <3>2, <5>2, PlusMinus
        <5> QED
          BY <5>1, <5>2
      <4> QED
        BY <1>5, <1>9, <3>2, <4>1
    <3> QED
      BY <3>1, <3>2
  <2>5. ASSUME events[1] = Event("up", q, m)
        PROVE  m \subseteq uris'[q]
    <3>1. q = p /\ m = n
      BY <1>5, <2>5 DEF Event
    <3> QED
      BY <1>5, <1>9, <1>10, <3>1, PlusMinus
  <2>6. Event("down", q, m) \notin {e}
    BY <1>7 DEF Event
  <2> QED
    BY <1>1, <1>9, <2>1, <2>2, <2>4, <2>5, <2>6, UpStaysKnown
<1> QED
  BY <1>11, <1>13, <1>14, <1>16, <1>17, <1>18, <1>19, SoundParts

LEMMA ConnectionDownKeeps ==
  ASSUME Sound, ConnectionDown
  PROVE  Sound'
<1>1. ManagerInv /\ ManagerTypeOK /\ ConnectionsOK /\ UrisOK /\ EventsOK /\ RoutingKnows
  BY DEF Sound, ManagerInv
<1>2. PICK p, n : p = Head(events).peer /\ n = Head(events).node
  OBVIOUS
<1>3. /\ events # <<>> /\ Head(events).kind = "down" /\ Remove(p, n)
      /\ events' = Tail(events) /\ ConnsStay /\ UNCHANGED list
  BY <1>2 DEF ConnectionDown, IsNext, ConnsStay
<1>4. /\ Head(events) = events[1] /\ events[1] \in EventType /\ 1 \in 1..Len(events)
      /\ Len(events) \in Nat /\ EventsMove(1, {})
  <2>1. events \in Seq(EventType)
    BY <1>1 DEF ManagerTypeOK
  <2> QED
    BY <1>1, <1>3, <2>1, FirstHandled
<1>5. /\ p \in Peers /\ n \in NodeInfo /\ events[1] = Event("down", p, n)
      /\ events[1].kind = "down" /\ events[1].peer = p /\ events[1].node = n
  BY <1>2, <1>3, <1>4, EventParts
<1>6. PICK v \in Nat : n = Connected(v)
  BY <1>1, <1>4, <1>5 DEF EventsOK, EventOK
<1>7. \A q \in Peers : uris[q] \in NodeInfo
  BY <1>1, ManagerTyped
<1>8. /\ uris' \in [Peers -> NodeInfo]
      /\ \A q \in Peers : uris'[q] = IF q = p THEN Minus(uris[p], n) ELSE uris[q]
  <2>1. Minus(uris[p], n) \in NodeInfo /\ uris \in [Peers -> NodeInfo]
    BY <1>1, <1>5, <1>7, PlusMinus DEF ManagerTypeOK
  <2> QED
    BY <1>3, <1>5, <2>1 DEF Remove
<1>9. ASSUME NEW q \in Peers, NEW x \in uris'[q]
      PROVE  x \in uris[q] /\ (q = p => \A y \in n : x.uri # y.uri)
  <2>1. CASE q = p
    BY <1>5, <1>7, <1>8, <2>1, PlusMinus
  <2>2. CASE q # p
    BY <1>8, <2>2
  <2> QED
    BY <2>1, <2>2
<1>10. NodesOK' /\ RestOK' /\ events' \in Seq(EventType)
  <2>1. list' \in Seq(Peers) /\ Once(list') /\ Elements(list') = Elements(list)
    BY <1>1, <1>3 DEF ManagerTypeOK, Once, Elements
  <2>2. \A q \in Peers \ Elements(list') : uris'[q] = {}
    <3>1. \A q \in Peers \ Elements(list) : uris[q] = {}
      BY <1>1 DEF ManagerTypeOK
    <3> QED
      BY <1>9, <2>1, <3>1
  <2>3. RestOK'
    BY <1>1, <1>3 DEF ManagerTypeOK, RestOK, ConnsStay
  <2> QED
    BY <1>4, <1>8, <2>1, <2>2, <2>3 DEF NodesOK, EventsMove
<1>11. ConnsKept
  BY <1>1, <1>3, ConnectionsStay DEF ConnsStay
<1>12. /\ conns' \subseteq Conns /\ conn' \in [Conns -> ConnType] /\ ConnectionsOK'
       /\ conn' = conn /\ UpOrDown(1)
  BY <1>3, <1>11 DEF ConnsKept, UpOrDown, ConnsStay
<1>13. RoutingKnows'
  BY <1>1, <1>3, <1>4, <1>5, QuietStep DEF ConnsStay
<1>14. UrisOK'
  BY <1>1, <1>9 DEF UrisOK
<1>15. EventsOK' /\ UpsEnd'
  BY <1>1, <1>4, <1>12, EventsStayOK, UpsEndStay DEF ManagerInv
<1>16. UrisJustified'
  <2>1. ASSUME NEW q \in Peers, NEW x \in uris'[q]
        PROVE  x \in uris[q] /\ events[1] # Event("down", q, {x})
    <3>1. ASSUME events[1] = Event("down", q, {x})
          PROVE  FALSE
      <4>1. q = p /\ x \in n
        BY <1>5, <3>1 DEF Event
      <4> QED
        BY <1>9, <2>1, <4>1
    <3> QED
      BY <1>9, <3>1
  <2> QED
    BY <1>1, <1>4, <1>12, <2>1, UrisStayJustified DEF ManagerInv
<1>17. ASSUME OneInbound
       PROVE  UpsKnown'
  <2> SUFFICES ASSUME NEW c \in Conns, conn'[c].state = "up"
               PROVE  UpKnown(c)'
    BY DEF UpsKnown, UpKnown
  <2>1. conn'[c] = conn[c] /\ conn[c].state = "up" /\ UpKnown(c)
    BY <1>12, <1>17 DEF Sound, UpsKnown
  <2>2. PICK q, m : q = conn[c].peer /\ m = conn[c].node
    OBVIOUS
  <2>3. q \in Peers /\ \E w \in Nat : m = Connected(w)
    BY <1>1, <2>1, <2>2 DEF ConnectionsOK, ConnectionOK
  <2>4. ASSUME m \subseteq uris[q], events[1] # Event("down", q, m)
        PROVE  m \subseteq uris'[q]
    <3>1. CASE q # p
      BY <1>8, <2>3, <2>4, <3>1
    <3>2. CASE q = p
      <4>1. m # n
        BY <1>5, <2>4, <3>2
      <4>2. \A x \in m : \A y \in n : x.uri # y.uri
        BY <1>6, <2>3, <4>1, ConnectedSame
      <4>3. \A x \in m : x \in Minus(uris[p], n)
        BY <1>5, <1>7, <2>4, <3>2, <4>2, PlusMinus
      <4> QED
        BY <1>5, <1>8, <3>2, <4>3
    <3> QED
      BY <3>1, <3>2
  <2>5. events[1] # Event("up", q, m)
    BY <1>5 DEF Event
  <2> QED
    BY <1>1, <1>4, <2>1, <2>2, <2>4, <2>5, UpStaysKnown
<1> QED
  BY <1>8, <1>10, <1>12, <1>13, <1>14, <1>15, <1>16, <1>17, SoundParts

-----------------------------------------------------------------------------
(* The connection manager: theorems.                                       *)

\* The invariant holds at first, and every step keeps it.
LEMMA ManagerBegins == ManagerInit => Sound
<1> SUFFICES ASSUME ManagerInit
             PROVE  Sound
  OBVIOUS
<1>1. /\ list = <<>> /\ events = <<>> /\ announced = {} /\ conns = {} /\ present = {}
      /\ next = Interval /\ uris = [p \in Peers |-> {}] /\ conn = [c \in Conns |-> NoConn]
  BY DEF ManagerInit
<1>2. NoConn \in ConnType /\ NoConn.state = "none" /\ {} \in NodeInfo
  BY DEF NoConn, ConnType, ConnStates, NodeInfo
<1>3. Len(list) = 0 /\ Len(events) = 0 /\ Elements(list) = {}
  BY <1>1 DEF Elements
<1>4. ManagerTypeOK
  <2>1. next \in 0..Interval
    BY <1>1, ManagerAssumption
  <2>2. list \in Seq(Peers) /\ events \in Seq(EventType)
    BY <1>1
  <2>3. uris \in [Peers -> NodeInfo] /\ conn \in [Conns -> ConnType]
    BY <1>1, <1>2
  <2> QED
    BY <1>1, <1>3, <2>1, <2>2, <2>3 DEF ManagerTypeOK
<1>5. ConnectionsOK
  BY <1>1, <1>2 DEF ConnectionsOK, ConnectionOK
<1>6. UrisOK /\ EventsOK /\ UpsEnd /\ UrisJustified /\ UpsKnown
  BY <1>1, <1>2, <1>3 DEF UrisOK, EventsOK, UpsEnd, UrisJustified, UpsKnown
<1>7. RoutingKnows
  <2> SUFFICES ASSUME NEW p \in Peers
               PROVE  Listed(events, p \in announced, p, p \in Elements(list))
    BY DEF RoutingKnows
  <2>1. NoneAbout(events, p, 0)
    BY DEF NoneAbout
  <2>2. (p \in announced) = FALSE /\ (p \in Elements(list)) = FALSE
    BY <1>1, <1>3
  <2>3. Told(events, FALSE, p, 0) <=> FALSE
    BY <2>1, ToldNone
  <2>4. Listed(events, FALSE, p, FALSE)
    <3>1. Told(events, FALSE, p, Len(events)) <=> FALSE
      <4>1. Len(events) = 0
        BY <1>3
      <4> QED
        BY <2>3, <4>1, Zenon
    <3>2. \A i \in 1..Len(events) : events[i].peer = p => News(events, FALSE, p, i)
      <4>1. Len(events) = 0
        BY <1>3
      <4> QED
        BY <4>1
    <3> QED
      BY <3>1, <3>2, Zenon DEF Listed
  <2> QED
    BY <2>2, <2>4
<1> QED
  BY <1>4, <1>5, <1>6, <1>7 DEF Sound, ManagerInv

LEMMA ManagerStays == Sound /\ UNCHANGED managerVars => Sound'
<1> SUFFICES ASSUME Sound, UNCHANGED managerVars
             PROVE  Sound'
  OBVIOUS
<1>1. ManagerTypeOK /\ ConnectionsOK
  BY DEF Sound, ManagerInv
<1>2. UNCHANGED <<list, uris, events, announced, conns, conn, next, present>>
  BY DEF managerVars
<1>3. ConnsKept
  BY <1>1, <1>2, ConnectionsStay
<1> QED
  BY <1>2, <1>3, ConnectionStep

LEMMA ManagerStep == Sound /\ [ManagerNext]_managerVars => Sound'
<1> SUFFICES ASSUME Sound, ManagerNext
             PROVE  Sound'
  BY ManagerStays
<1>1. CASE HandleEvent
  BY <1>1, DiscoveredKeeps, ConnectionUpKeeps, ConnectionDownKeeps, NodeIsAvailableKeeps,
     NodeIsUnavailableKeeps DEF HandleEvent
<1>2. CASE SecondTick
  BY <1>2, SecondTickKeeps
<1>3. CASE \E p \in Peers : \/ Queue(p) \/ Announcement(p) \/ Move(p)
                            \/ AddConnection(p) \/ RemoveConnection(p)
  BY <1>3, QueueKeeps, AnnouncementKeeps, MoveKeeps, AddConnectionKeeps, RemoveConnectionKeeps
<1>4. CASE \E c \in Conns : \/ Setup(c) \/ Accept(c) \/ HandshakeFails(c)
                            \/ Disconnect(c) \/ Finally(c)
                            \/ \E p \in Peers : Handshake(c, p)
  BY <1>4, SetupKeeps, AcceptKeeps, HandshakeFailsKeeps, DisconnectKeeps, FinallyKeeps,
     HandshakeKeeps
<1> QED
  BY <1>1, <1>2, <1>3, <1>4 DEF ManagerNext

LEMMA ManagerIsSound == ManagerSpec => []Sound
  BY ManagerBegins, ManagerStep, PTL DEF ManagerSpec

\* The three parts of NodesMatchConnections.
LEMMA ListIsAnnounced == ManagerInv => AnnouncedIsListed
  BY DEF ManagerInv, RoutingKnows, AnnouncedIsListed, Listed, News

LEMMA ConnectedHasReason == ManagerInv => ConnectedIsUp
<1> SUFFICES ASSUME ManagerInv, NEW p \in Peers, NEW x \in uris[p], x.uri.type = "connected"
             PROVE  \/ \E c \in conns : conn[c].state = "up" /\ conn[c].peer = p /\ x \in conn[c].node
                    \/ Pending("down", p, {x})
  BY DEF ConnectedIsUp
<1>1. Justified(p, x)
  BY DEF ManagerInv, UrisJustified
<1>2. \A c \in Conns : conn[c].state = "up" => c \in conns
  BY DEF ManagerInv, ConnectionsOK
<1> QED
  BY <1>1, <1>2 DEF Justified, Pending

LEMMA UpHasReason == ManagerInv /\ UpsKnown => UpIsAvailable
<1> SUFFICES ASSUME ManagerInv, UpsKnown, NEW c \in conns, conn[c].state = "up"
             PROVE  \/ Pending("up", conn[c].peer, conn[c].node)
                    \/ IsAvailable(uris[conn[c].peer])
  BY DEF UpIsAvailable
<1>1. c \in Conns
  BY DEF ManagerInv, ManagerTypeOK
<1>2. UpKnown(c)
  BY <1>1 DEF UpsKnown
<1>3. CASE conn[c].node \subseteq uris[conn[c].peer]
  <2>1. PICK v \in Nat : conn[c].node = Connected(v)
    BY <1>1 DEF ManagerInv, ConnectionsOK, ConnectionOK
  <2>2. PICK x : x \in Connected(v) /\ x.uri.proto = "tcp"
    BY ConnectedFacts
  <2> QED
    BY <1>3, <2>1, <2>2 DEF IsAvailable
<1> QED
  BY <1>2, <1>3 DEF UpKnown, Pending

\* The types of all variables; a node is in the list once, however often it is
\* announced, configured and connected, and has no URIs when it is not
\* (ConnectionManager::discovered, check_unavailable).
THEOREM ManagerTypeCorrect == ManagerSpec => []ManagerTypeOK
<1>1. Sound => ManagerTypeOK
  BY DEF Sound, ManagerInv
<1> QED
  BY <1>1, ManagerIsSound, PTL

\* For any peers, addresses, configuration and number of connections: a URI of
\* type connected has a connection that is up or an event that will remove it,
\* and what the routing was told of the nodes and will be told by the events on
\* their way is the list, each announcement being news
\* (ConnectionManager::raiseEvent, check_unavailable; Node::remove).
THEOREM ConnectedAndListed == ManagerSpec => [](ConnectedIsUp /\ AnnouncedIsListed)
<1>1. Sound => ConnectedIsUp /\ AnnouncedIsListed
  BY ListIsAnnounced, ConnectedHasReason DEF Sound
<1> QED
  BY <1>1, ManagerIsSound, PTL

\* If no two accepted connections exist at a time, the node of a connection that
\* is up is available as well, once its event has been handled: two of one peer
\* would have one URI, which the end of the first removes
\* (TCPConnection::eventConnectionUp, eventConnectionDown).
THEOREM NodesMatch == OneInbound => (ManagerSpec => []NodesMatchConnections)
<1> SUFFICES ASSUME OneInbound
             PROVE  ManagerSpec => []NodesMatchConnections
  OBVIOUS
<1>1. Sound => NodesMatchConnections
  BY ListIsAnnounced, ConnectedHasReason, UpHasReason DEF Sound, NodesMatchConnections
<1> QED
  BY <1>1, ManagerIsSound, PTL
=============================================================================
