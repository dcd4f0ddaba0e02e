------------------------------- MODULE ApiServer -------------------------------
(***************************************************************************)
(* The application interface of the daemon (daemon/src/api): the server    *)
(* with its list of registrations and clients and its garbage collector,   *)
(* the thread of each client with the protocol it has switched to, the     *)
(* sender thread of the extended and the binary protocol, and the handling *)
(* of the event that announces a new bundle.                               *)
(***************************************************************************)
EXTENDS Registration

CONSTANTS
    Clients,     \* client connections
    Handles,     \* 1..n, handles of registrations
    MaxLifetime, \* bound on the lifetime a client asks for
    Scenarios    \* bounds on the environment: what each client does, and how often,
                 \* and the bundles that arrive

Protocols == {"extended", "tcpcl", "management", "event"}

Kinds == Protocols \cup {"accept", "level0", "add", "del", "save", "load", "bundle"}

ASSUME ApiAssumption ==
    /\ Handles \subseteq Nat \ {0} /\ MaxLifetime \in Nat
    /\ Scenarios \subseteq [plan : [Clients -> [kinds : SUBSET Kinds, left : Nat]],
                            due : SUBSET Bundles]

VARIABLES
    srv,     \* "up", "ending" (shutdown raised), "stopping" (componentDown), "down"
    regs,    \* _registrations, by handle
    cl,      \* the ClientHandler of each client and its protocol handler
    snd,     \* the sender thread of the handler
    pend,    \* _bundle_queue of the extended, _sentqueue of the binary handler
    store,   \* bundles in the storage
    queued,  \* bundles whose QueueBundleEvent waits in the event switch
    tell,    \* events that wait for the event handler of a client: <<client, bundle>>
    evt,     \* raiseEvent(): the clients left to visit and the registration in use
    due,     \* bundles that are still to arrive
    plan,    \* the commands a client may still give
    gc       \* the time left until the garbage collector fires, or Never

vars == <<srv, regs, cl, snd, pend, store, queued, tell, evt, due, plan, gc>>

Never == MaxLifetime + 1
NoHandle == 0
NoBundle == "no bundle"

\* at: off, idle (reads commands at level 0), run (inside the protocol handler),
\* load (registration load waits for the sender of the old registration), join (the handler is finalised and waits for its sender), free (taken off the
\* list, the registration still to be released).
ClientType ==
    [at : {"off", "idle", "run", "load", "join", "free"}, proto : {"none"} \cup Protocols,
     reg : Handles \cup {NoHandle}, good : BOOLEAN, listed : BOOLEAN,
     bound : BOOLEAN, eid : SUBSET Endpoints, register : Bundles \cup {NoBundle},
     next : Handles \cup {NoHandle}]

NoClient == [at |-> "off", proto |-> "none", reg |-> NoHandle, good |-> FALSE,
             listed |-> FALSE, bound |-> FALSE, eid |-> {}, register |-> NoBundle,
             next |-> NoHandle]

\* The sender thread: off, loop (receive()), none (the query found nothing and
\* _no_more_bundles is still to be set), wait (wait_for_bundle()), and the
\* registration it was started with.
SenderType == [pc : {"off", "loop", "none", "wait"}, reg : Handles \cup {NoHandle}]
NoSender == [pc |-> "off", reg |-> NoHandle]

NoEvent == [active |-> FALSE, b |-> NoBundle, todo |-> {}, ref |-> NoHandle, stale |-> FALSE]

TypeOK ==
    /\ srv \in {"up", "ending", "stopping", "down"}
    /\ regs \in [Handles -> RegistrationType]
    /\ cl \in [Clients -> ClientType]
    /\ snd \in [Clients -> SenderType]
    /\ pend \in [Clients -> Seq(Bundles)]
    /\ store \subseteq Bundles /\ queued \subseteq Bundles /\ tell \subseteq Clients \X Bundles
    /\ due \subseteq Bundles /\ gc \in 0..Never

Init ==
    /\ srv = "up" /\ regs = [h \in Handles |-> Released]
    /\ cl = [c \in Clients |-> NoClient] /\ snd = [c \in Clients |-> NoSender]
    /\ pend = [c \in Clients |-> <<>>] /\ store = {} /\ queued = {} /\ tell = {}
    /\ evt = NoEvent /\ gc = Never
    /\ \E s \in Scenarios : plan = s.plan /\ due = s.due

Reg(c) == regs[cl[c].reg]
SetReg(h, r) == regs' = [regs EXCEPT ![h] = r]
\* The client reads commands of the extended protocol.
Extended(c) == cl[c].at = "run" /\ cl[c].proto = "extended" /\ cl[c].good
\* raiseEvent() holds _connection_lock while it walks the list of clients.
ConnectionLockFree == ~evt.active

-------------------------------------------------------------------------------
(* The registrations of the server.                                         *)

\* nextRegistrationExpiry(): the next expiry among the detached registrations,
\* at once if one has expired, Never (StopTimerException) if there is none.
nextRegistrationExpiry(rs) ==
    LET idle == {h \in Handles : attachable(rs[h])}
        over == {h \in idle : ~isPersistent(rs[h])}
    IN  IF over # {} THEN 0 ELSE Min({rs[h].expiry : h \in idle} \cup {Never})

\* startGarbageCollector(): leaves the timer alone if nothing will expire.
startGarbageCollector(rs) ==
    gc' = IF nextRegistrationExpiry(rs) = Never THEN gc ELSE nextRegistrationExpiry(rs)

\* freeRegistration(): a persistent registration is detached, another is erased.
\* Its caller has aborted the registration.
freeRegistration(h) ==
    LET rs == [regs EXCEPT ![h] = IF isPersistent(@) THEN detach(@) ELSE Released]
    IN  /\ regs' = rs
        /\ IF rs[h].live THEN startGarbageCollector(rs) ELSE gc' = gc

\* Seeded error: the collector looks at the lifetime only.
TimeoutAttached ==
    LET rs == [h \in Handles |-> IF regs[h].live /\ regs[h].persistent
                                    /\ ~isPersistent(regs[h])
                                 THEN Released ELSE regs[h]]
    IN  /\ gc = 0 /\ srv = "up"
        /\ regs' = rs /\ gc' = nextRegistrationExpiry(rs)
        /\ UNCHANGED <<plan, tell, srv, cl, snd, pend, store, queued, evt, due>>

\* Seeded error: the collector runs once.
TimeoutStops ==
    /\ gc = 0 /\ srv = "up" /\ gc' = Never
    /\ regs' = [h \in Handles |-> IF attachable(regs[h]) /\ ~isPersistent(regs[h])
                                  THEN Released ELSE regs[h]]
    /\ UNCHANGED <<plan, tell, srv, cl, snd, pend, store, queued, evt, due>>

\* timeout(): the garbage collector releases the detached registrations whose
\* lifetime is over, sets its next time or stops.
Timeout ==
    LET rs == [h \in Handles |-> IF attachable(regs[h]) /\ ~isPersistent(regs[h])
                                 THEN Released ELSE regs[h]]
    IN  /\ gc = 0 /\ srv = "up"
        /\ regs' = rs /\ gc' = nextRegistrationExpiry(rs)
        /\ UNCHANGED <<plan, tell, srv, cl, snd, pend, store, queued, evt, due>>

\* A unit of time passes; it matters once a lifetime runs.
Tick ==
    /\ gc > 0 /\ \E h \in Handles : isPersistent(regs[h])
    /\ regs' = [h \in Handles |-> [regs[h] EXCEPT !.expiry = Max({@ - 1, 0})]]
    /\ gc' = IF gc = Never THEN gc ELSE gc - 1
    /\ UNCHANGED <<plan, tell, srv, cl, snd, pend, store, queued, evt, due>>

-------------------------------------------------------------------------------
(* Clients: from accept() to the end of the thread.                         *)

\* componentRun(): a client connects and gets a registration of its own.  The
\* accept thread is stopped only after componentDown() has returned.
Accept(c) ==
    /\ srv # "down" /\ cl[c].at = "off" /\ ConnectionLockFree
    /\ \E h \in {x \in Handles : ~regs[x].live} :
          /\ \A x \in Handles : x < h => regs[x].live
          /\ SetReg(h, NewRegistration)
          /\ cl' = [cl EXCEPT ![c] = [NoClient EXCEPT !.at = "idle", !.reg = h,
                                                    !.good = TRUE, !.listed = TRUE]]
    /\ UNCHANGED <<tell, srv, snd, pend, store, queued, evt, due, gc>>

\* The client closes its stream.
Close(c) ==
    /\ cl[c].good
    /\ cl' = [cl EXCEPT ![c].good = FALSE]
    /\ UNCHANGED <<plan, tell, srv, regs, snd, pend, store, queued, evt, due, gc>>

\* core shutdown in the management protocol raises GLOBAL_SHUTDOWN.
ManagementShutdown(c) ==
    /\ srv = "up" /\ cl[c].at = "run" /\ cl[c].proto = "management" /\ cl[c].good
    /\ srv' = "ending"
    /\ UNCHANGED <<plan, tell, regs, cl, snd, pend, store, queued, evt, due, gc>>

\* componentDown(): the server leaves the event switch, pauses the collector and
\* stops every client on the list, which closes its stream.
ComponentDown ==
    /\ srv = "ending" /\ ConnectionLockFree
    /\ srv' = "stopping" /\ queued' = {}
    /\ cl' = [c \in Clients |-> IF cl[c].listed THEN [cl[c] EXCEPT !.good = FALSE] ELSE cl[c]]
    /\ UNCHANGED <<plan, tell, regs, snd, pend, store, evt, due, gc>>

\* componentDown() returns once the list of clients is empty.
ComponentIsDown ==
    /\ srv = "stopping" /\ \A c \in Clients : ~cl[c].listed
    /\ srv' = "down"
    /\ UNCHANGED <<plan, tell, regs, cl, snd, pend, store, queued, evt, due, gc>>

\* protocol <p> at level 0: the handler is created, set up and run.
Protocol(c, p, eid) ==
    /\ cl[c].at = "idle" /\ cl[c].good
    /\ cl' = [cl EXCEPT ![c].at = "run", ![c].proto = p, ![c].bound = (p = "event"),
                        ![c].eid = eid]
    /\ UNCHANGED <<srv, pend, store, queued, tell, evt, due, gc>>

\* The extended handler starts its sender.
ProtocolExtended(c) ==
    /\ Protocol(c, "extended", {})
    /\ snd' = [snd EXCEPT ![c] = [pc |-> "loop", reg |-> cl[c].reg]]
    /\ UNCHANGED regs

\* The binary handler shakes hands, eventConnectionUp() subscribes the endpoint of
\* the client, and its sender is started.
ProtocolBinary(c, e) ==
    /\ Protocol(c, "tcpcl", {e})
    /\ SetReg(cl[c].reg, subscribe(Reg(c), e))
    /\ snd' = [snd EXCEPT ![c] = [pc |-> "loop", reg |-> cl[c].reg]]

\* The event handler binds itself to the event switch.
ProtocolEvent(c) == Protocol(c, "event", {}) /\ UNCHANGED <<regs, snd>>

ProtocolManagement(c) == Protocol(c, "management", {}) /\ UNCHANGED <<regs, snd>>

\* set endpoint, registration add and del at level 0
ProcessCommand(c, e) ==
    /\ cl[c].at = "idle" /\ cl[c].good
    /\ SetReg(cl[c].reg, subscribe(Reg(c), e)) \/ SetReg(cl[c].reg, unsubscribe(Reg(c), e))
    /\ UNCHANGED <<srv, cl, snd, pend, store, queued, tell, evt, due, gc>>

\* A handler has left run() and been finalised; the thread will delete it.
HandlerEnds(c, p) ==
    /\ cl[c].at = "run" /\ cl[c].proto = p
    /\ cl' = [cl EXCEPT ![c].at = "join", ![c].bound = FALSE]
    /\ UNCHANGED <<plan, srv, snd, pend, store, queued, evt, due, gc>>

\* ExtendedApiHandler::finally() aborts the registration, which ends the sender.
ExtendedEnds(c) ==
    /\ ~cl[c].good /\ HandlerEnds(c, "extended")
    /\ SetReg(cl[c].reg, abort(Reg(c))) /\ UNCHANGED tell

\* The stream of the binary client is closed: eventConnectionDown() unsubscribes
\* its endpoint, and stopping the sender aborts the registration.
BinaryEnds(c) ==
    /\ ~cl[c].good /\ HandlerEnds(c, "tcpcl")
    /\ SetReg(cl[c].reg, abort([Reg(c) EXCEPT !.eps = @ \ cl[c].eid])) /\ UNCHANGED tell

\* exit, or the end of the stream; finally() unbinds the handler, and with it go
\* the events that are queued for it.
EventEndsProtocol(c) ==
    /\ HandlerEnds(c, "event")
    /\ tell' = {t \in tell : t[1] # c} /\ UNCHANGED regs

ManagementEnds(c) == HandlerEnds(c, "management") /\ UNCHANGED <<regs, tell>>

\* The handler joins its sender and is deleted with its queue and its register.
HandlerJoins(c) ==
    /\ cl[c].at = "join" /\ snd[c].pc = "off"
    /\ cl' = [cl EXCEPT ![c].at = "idle", ![c].proto = "none", ![c].register = NoBundle,
                        ![c].eid = {}]
    /\ pend' = [pend EXCEPT ![c] = <<>>]
    /\ UNCHANGED <<plan, tell, srv, regs, snd, store, queued, evt, due, gc>>

\* ClientHandler::finally(): the client leaves the list, ...
ConnectionDown(c) ==
    /\ cl[c].at = "idle" /\ ~cl[c].good /\ ConnectionLockFree
    /\ cl' = [cl EXCEPT ![c].at = "free", ![c].listed = FALSE]
    /\ UNCHANGED <<plan, tell, srv, regs, snd, pend, store, queued, evt, due, gc>>

\* ... and its registration is aborted and released.
ClientEnds(c) ==
    /\ cl[c].at = "free"
    /\ freeRegistration(cl[c].reg)
    /\ cl' = [cl EXCEPT ![c] = NoClient]
    /\ UNCHANGED <<plan, tell, srv, snd, pend, store, queued, evt, due>>

-------------------------------------------------------------------------------
(* The sender thread of the extended and the binary protocol.               *)

\* receive() of the binary sender: the next bundle of the queue is loaded, or
\* skipped if the storage has lost it, noted as sent and transmitted.
BinaryReceives(c) ==
    LET r == regs[snd[c].reg] IN
    /\ snd[c].pc = "loop" /\ cl[c].proto = "tcpcl" /\ cl[c].good /\ r.queue # <<>>
    /\ SetReg(snd[c].reg, [r EXCEPT !.queue = Tail(@)])
    /\ pend' = IF Head(r.queue) \in store THEN [pend EXCEPT ![c] = Append(@, Head(r.queue))]
               ELSE pend
    /\ UNCHANGED <<plan, tell, srv, cl, snd, store, queued, evt, due, gc>>

\* receiveMetaBundle() of the extended sender: the next bundle is queued for the
\* client and announced.
ExtendedReceives(c) ==
    LET r == regs[snd[c].reg] IN
    /\ snd[c].pc = "loop" /\ cl[c].proto = "extended" /\ cl[c].good /\ r.queue # <<>>
    /\ SetReg(snd[c].reg, [r EXCEPT !.queue = Tail(@)])
    /\ pend' = [pend EXCEPT ![c] = Append(@, Head(r.queue))]
    /\ UNCHANGED <<plan, tell, srv, cl, snd, store, queued, evt, due, gc>>

\* underflow(): the queue is empty and the storage is asked for more.
SenderQueries(c) ==
    LET r == regs[snd[c].reg] IN
    /\ snd[c].pc = "loop" /\ cl[c].good /\ r.queue = <<>>
    /\ \E found \in Answers(r, store) :
          /\ SetReg(snd[c].reg, Found(r, found))
          /\ snd' = IF found = {} THEN [snd EXCEPT ![c].pc = "none"] ELSE snd
    /\ UNCHANGED <<plan, tell, srv, cl, pend, store, queued, evt, due, gc>>

\* underflow() sets _no_more_bundles and throws; the sender goes to wait.
SenderFindsNone(c) ==
    /\ snd[c].pc = "none"
    /\ SetReg(snd[c].reg, [regs[snd[c].reg] EXCEPT !.none = TRUE])
    /\ snd' = [snd EXCEPT ![c].pc = "wait"]
    /\ UNCHANGED <<plan, tell, srv, cl, pend, store, queued, evt, due, gc>>

\* wait_for_bundle() returns when the flag has been cleared.
SenderWakes(c) ==
    /\ snd[c].pc = "wait" /\ ~regs[snd[c].reg].none
    /\ snd' = [snd EXCEPT ![c].pc = "loop"]
    /\ UNCHANGED <<plan, tell, srv, regs, cl, pend, store, queued, evt, due, gc>>

\* The thread ends because the stream is closed, or because abort() ends its
\* wait; finally() of the extended sender aborts the registration.
SenderEnds(c) ==
    /\ \/ snd[c].pc = "loop" /\ ~cl[c].good
       \/ snd[c].pc = "wait" /\ regs[snd[c].reg].none /\ regs[snd[c].reg].aborted
    /\ regs' = IF cl[c].proto = "extended" THEN [regs EXCEPT ![cl[c].reg] = abort(@)] ELSE regs
    /\ snd' = [snd EXCEPT ![c] = NoSender]
    /\ UNCHANGED <<plan, tell, srv, cl, pend, store, queued, evt, due, gc>>

-------------------------------------------------------------------------------
(* Commands of the extended protocol and answers of the binary protocol.    *)

\* set endpoint, registration add
RegistrationAdd(c, e) ==
    /\ Extended(c)
    /\ SetReg(cl[c].reg, subscribe(Reg(c), e))
    /\ UNCHANGED <<tell, srv, cl, snd, pend, store, queued, evt, due, gc>>

RegistrationDel(c, e) ==
    /\ Extended(c)
    /\ SetReg(cl[c].reg, unsubscribe(Reg(c), e))
    /\ UNCHANGED <<tell, srv, cl, snd, pend, store, queued, evt, due, gc>>

\* registration save
RegistrationSave(c, l) ==
    /\ Extended(c)
    /\ SetReg(cl[c].reg, setPersistent(Reg(c), l))
    /\ UNCHANGED <<tell, srv, cl, snd, pend, store, queued, evt, due, gc>>

\* registration load: getRegistration() attaches the registration of the handle,
\* the sender of the old one is aborted and joined.  A handle that is unknown,
\* expired or in use is answered with an error.
RegistrationLoad(c, h) ==
    /\ Extended(c) /\ attachable(regs[h]) /\ isPersistent(regs[h])
    /\ regs' = [[regs EXCEPT ![h] = attach(@)] EXCEPT ![cl[c].reg] = abort(@)]
    /\ cl' = [cl EXCEPT ![c].at = "load", ![c].next = h]
    /\ UNCHANGED <<tell, srv, snd, pend, store, queued, evt, due, gc>>

\* The sender has ended: switchRegistration() releases the old registration, a
\* new sender is started for the other one.
RegistrationSwitch(c) ==
    /\ cl[c].at = "load" /\ snd[c].pc = "off"
    /\ freeRegistration(cl[c].reg)
    /\ cl' = [cl EXCEPT ![c].at = "run", ![c].reg = cl[c].next, ![c].next = NoHandle]
    /\ snd' = [snd EXCEPT ![c] = [pc |-> "loop", reg |-> cl[c].next]]
    /\ evt' = [evt EXCEPT !.stale = @ \/ evt.ref = cl[c].reg]
    /\ UNCHANGED <<plan, tell, srv, pend, store, queued, due>>

\* bundle load queue, bundle load <id>: a bundle the storage does not have
\* leaves the register as it is.
BundleLoad(c, b) ==
    /\ Extended(c)
    /\ \/ /\ pend[c] # <<>> /\ b = Head(pend[c])
          /\ pend' = [pend EXCEPT ![c] = Tail(@)]
       \/ /\ b \in store /\ pend' = pend
    /\ cl' = IF b \in store THEN [cl EXCEPT ![c].register = b] ELSE cl
    /\ UNCHANGED <<tell, srv, regs, snd, store, queued, evt, due, gc>>

\* bundle clear, and bundle free, which takes the bundle out of the storage.
BundleClear(c) ==
    /\ Extended(c) /\ cl[c].register # NoBundle
    /\ store' \in {store, store \ {cl[c].register}}
    /\ cl' = [cl EXCEPT ![c].register = NoBundle]
    /\ UNCHANGED <<tell, srv, regs, snd, pend, queued, evt, due, gc>>

\* Registration::delivered(): a bundle for a single endpoint leaves the storage.
delivered(b) == store' = store \ ({b} \cap Singleton)

\* bundle delivered <id>
BundleDelivered(c, b) ==
    /\ Extended(c) /\ b \in store
    /\ delivered(b)
    /\ UNCHANGED <<tell, srv, regs, cl, snd, pend, queued, evt, due, gc>>

\* bundle store: the register goes into the storage, no event announces it.
BundleStore(c) ==
    /\ Extended(c) /\ cl[c].register # NoBundle
    /\ store' = store \cup {cl[c].register}
    /\ UNCHANGED <<tell, srv, regs, cl, snd, pend, queued, evt, due, gc>>

\* The binary client has acknowledged (eventBundleForwarded) or refused
\* (eventBundleRefused) the oldest bundle it was sent.
BundleAnswered(c) ==
    /\ cl[c].at = "run" /\ cl[c].proto = "tcpcl" /\ cl[c].good /\ pend[c] # <<>>
    /\ pend' = [pend EXCEPT ![c] = Tail(@)]
    /\ delivered(Head(pend[c])) \/ store' = store
    /\ UNCHANGED <<plan, tell, srv, regs, cl, snd, queued, evt, due, gc>>

-------------------------------------------------------------------------------
(* Bundles and the event that announces them.                               *)

\* A bundle comes from a neighbour, or from a client (bundle send, a bundle of
\* the binary protocol) by processIncomingBundle(): it is stored, and its
\* QueueBundleEvent is raised.
BundleArrives(b) ==
    /\ b \in due /\ due' = due \ {b}
    /\ store' = store \cup {b}
    /\ queued' = IF srv \in {"up", "ending"} THEN queued \cup {b} ELSE queued
    /\ tell' = tell \cup {<<c, b>> : c \in {d \in Clients : cl[d].bound}}
    /\ UNCHANGED <<plan, srv, regs, cl, snd, pend, evt, gc>>

\* EventConnection::raiseEvent() writes the event to its client.
EventShown(c, b) ==
    /\ <<c, b>> \in tell
    /\ tell' = tell \ {<<c, b>>}
    /\ UNCHANGED <<plan, srv, regs, cl, snd, pend, store, queued, evt, due, gc>>

\* raiseEvent() takes the event and locks the list of clients, ...
EventStarts(b) ==
    /\ ConnectionLockFree /\ b \in queued
    /\ queued' = queued \ {b}
    /\ evt' = [NoEvent EXCEPT !.active = TRUE, !.b = b, !.todo = {c \in Clients : cl[c].listed}]
    /\ UNCHANGED <<plan, tell, srv, regs, cl, snd, pend, store, due, gc>>

\* ... takes a reference to the registration of each, ...
EventLooks(c) ==
    /\ evt.active /\ evt.ref = NoHandle /\ c \in evt.todo
    /\ evt' = [evt EXCEPT !.todo = @ \ {c}, !.ref = cl[c].reg]
    /\ UNCHANGED <<plan, tell, srv, regs, cl, snd, pend, store, queued, due, gc>>

\* ... notifies it if it has subscribed to the destination of the bundle, ...
EventNotifies ==
    /\ evt.ref # NoHandle
    /\ regs' = IF hasSubscribed(regs[evt.ref], Dest[evt.b])
               THEN [regs EXCEPT ![evt.ref] = Notify(@)] ELSE regs
    /\ evt' = [evt EXCEPT !.ref = NoHandle, !.stale = FALSE]
    /\ UNCHANGED <<plan, tell, srv, cl, snd, pend, store, queued, due, gc>>

\* ... and unlocks the list.
EventEnds ==
    /\ evt.active /\ evt.ref = NoHandle /\ evt.todo = {}
    /\ evt' = NoEvent
    /\ UNCHANGED <<plan, tell, srv, regs, cl, snd, pend, store, queued, due, gc>>

-------------------------------------------------------------------------------
Sender(c) == BinaryReceives(c) \/ ExtendedReceives(c) \/ SenderQueries(c)
             \/ SenderFindsNone(c) \/ SenderWakes(c) \/ SenderEnds(c)

\* What the thread of a client does once its stream is closed.
Thread(c) == ExtendedEnds(c) \/ BinaryEnds(c) \/ (~cl[c].good /\ ManagementEnds(c))
             \/ (~cl[c].good /\ EventEndsProtocol(c)) \/ HandlerJoins(c)
             \/ ConnectionDown(c) \/ ClientEnds(c) \/ RegistrationSwitch(c)

\* What a client asks for, within its plan.
May(c, kind) == /\ plan[c].left > 0 /\ kind \in plan[c].kinds
                /\ plan' = [plan EXCEPT ![c].left = @ - 1]
Command(c) ==
    \/ May(c, "accept") /\ Accept(c)
    \/ May(c, "extended") /\ ProtocolExtended(c)
    \/ May(c, "event") /\ ProtocolEvent(c)
    \/ May(c, "management") /\ ProtocolManagement(c)
    \/ \E e \in Endpoints : \/ May(c, "tcpcl") /\ ProtocolBinary(c, e)
                            \/ May(c, "level0") /\ ProcessCommand(c, e)
                            \/ May(c, "add") /\ RegistrationAdd(c, e)
                            \/ May(c, "del") /\ RegistrationDel(c, e)
    \/ \E l \in 1..MaxLifetime : May(c, "save") /\ RegistrationSave(c, l)
    \/ \E h \in Handles : May(c, "load") /\ RegistrationLoad(c, h)
    \/ \E b \in Bundles : May(c, "bundle") /\ (BundleLoad(c, b) \/ BundleDelivered(c, b))
    \/ May(c, "bundle") /\ (BundleClear(c) \/ BundleStore(c))

Exit(c) == cl[c].good /\ (ManagementEnds(c) \/ EventEndsProtocol(c))

Event == (\E b \in Bundles : EventStarts(b)) \/ (\E c \in Clients : EventLooks(c))
         \/ EventNotifies \/ EventEnds

Next ==
    \/ \E c \in Clients : Sender(c) \/ Thread(c) \/ Command(c) \/ Close(c)
                         \/ Exit(c) \/ ManagementShutdown(c) \/ BundleAnswered(c)
                         \/ \E b \in Bundles : EventShown(c, b)
    \/ Event \/ (\E b \in Bundles : BundleArrives(b))
    \/ Timeout \/ Tick \/ ComponentDown \/ ComponentIsDown

\* The threads of the daemon run and the clock advances; clients owe nothing.
Fairness ==
    /\ \A c \in Clients : WF_vars(Sender(c)) /\ WF_vars(Thread(c))
    /\ WF_vars(Event) /\ WF_vars(Timeout) /\ WF_vars(Tick)

Spec == Init /\ [][Next]_vars /\ Fairness

-------------------------------------------------------------------------------
(* Properties.                                                              *)

\* Nobody holds a registration or a handler that has been deleted: a client, its
\* sender and a pending load refer to live, attached registrations, no two of
\* them to the same one, raiseEvent() holds a live one unless its client has just
\* loaded another, and the event switch has events only for living event handlers.
\* freeRegistration(), timeout(), getRegistration(), ClientHandler::finally().
NoDangling ==
    LET uses == [c \in Clients |-> {cl[c].reg, cl[c].next, snd[c].reg} \ {NoHandle}]
    IN  /\ \A c \in Clients, h \in Handles :
              h \in uses[c] => regs[h].live /\ ~regs[h].detached
        /\ \A c, d \in Clients : c # d => uses[c] \cap uses[d] = {}
        /\ evt.ref # NoHandle => regs[evt.ref].live \/ evt.stale
        /\ \A t \in tell : cl[t[1]].bound
        /\ \A c \in Clients : cl[c].bound => cl[c].at = "run" /\ cl[c].proto = "event"

\* A sender that waits while the event of a bundle for one of its endpoints is
\* still queued fetches the bundle, unless the bundle, the subscription or the
\* client goes first.  notify(), wait_for_bundle(), underflow().
Serves(c, b) == snd[c].pc # "off" /\ cl[c].good /\ cl[c].at = "run"
                /\ b \in store /\ Dest[b] \in regs[snd[c].reg].eps
NotifiedIsFetched ==
    \A c \in Clients, b \in Bundles :
        (Serves(c, b) /\ snd[c].pc = "wait" /\ b \in queued /\ cl[c].listed)
        ~> (~Serves(c, b) \/ b \in regs[snd[c].reg].received)

\* A client whose stream is closed, by itself or by the shutdown of the daemon,
\* leaves the list with its sender ended and its registration released or
\* detached.  finally() of the handlers and of ClientHandler, abort().
ClosedIsReleased ==
    \A c \in Clients : (cl[c].at # "off" /\ ~cl[c].good) ~> (cl[c].at = "off" /\ snd[c].pc = "off")

\* A detached registration is loaded again or released after its lifetime: the
\* garbage collector is always set for the next expiry.  timeout(),
\* nextRegistrationExpiry(), startGarbageCollector().
DetachedIsReleased ==
    \A h \in Handles : attachable(regs[h]) ~> (~attachable(regs[h]) \/ srv # "up")

\* Nothing a client used is kept for ever: neither its handler and sender once
\* its stream is closed, nor the registration it has left detached.
UsedIsReleased == ClosedIsReleased /\ DetachedIsReleased

\* What daemon/doc/api.tex promises for set endpoint and registration add: a
\* bundle that arrives for a subscribed endpoint is announced.
ArrivedIsFetched ==
    \A c \in Clients, b \in Bundles :
        (Serves(c, b) /\ b \in queued /\ cl[c].listed)
        ~> (~Serves(c, b) \/ b \in regs[snd[c].reg].received)
===============================================================================
