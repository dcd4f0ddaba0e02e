-------------------------- MODULE ApiServerProofs --------------------------
(***************************************************************************)
(* What holds of the application interface for any clients, handles,       *)
(* endpoints, bundles and commands: who may use a registration; and of the *)
(* applications behind it, for any streams, operations and tools: that     *)
(* bytes, answers and replies go where they belong.                        *)
(***************************************************************************)
EXTENDS ApiServer, Applications, FiniteSetTheorems, QueueLemmas

EventTypeOK ==
  evt \in [active : BOOLEAN, b : Bundles \cup {NoBundle}, todo : SUBSET Clients,
           ref : Handles \cup {NoHandle}, stale : BOOLEAN]

PlanTypeOK == plan \in [Clients -> [kinds : SUBSET Kinds, left : Nat]]

TypeInv == TypeOK /\ EventTypeOK /\ PlanTypeOK

\* The registrations a client, its sender and a pending load refer to.
Uses(c) == {cl[c].reg, cl[c].next, snd[c].reg} \ {NoHandle}

\* A client has a registration from accept() to the end of its thread, a second
\* one while it loads it; its sender runs only inside a handler, and uses the
\* registration of the client.
ClientOK(c) ==
  /\ cl[c].at = "off" => cl[c] = NoClient
  /\ cl[c].at # "off" => cl[c].reg # NoHandle
  /\ (cl[c].next # NoHandle) = (cl[c].at = "load")
  /\ cl[c].listed => cl[c].at \notin {"off", "free"}
  /\ cl[c].bound => cl[c].at = "run" /\ cl[c].proto = "event"
  /\ snd[c].pc # "off" => cl[c].at \in {"run", "load", "join"}
  /\ snd[c].reg = IF snd[c].pc = "off" THEN NoHandle ELSE cl[c].reg

\* Every registration in use is live and attached, and has one user.
UsesOK ==
  /\ \A c \in Clients : \A h \in Uses(c) : regs[h].live /\ ~regs[h].detached
  /\ \A c \in Clients : cl[c].next # NoHandle => cl[c].next # cl[c].reg
  /\ \A c, d \in Clients : c # d => Uses(c) \cap Uses(d) = {}

\* raiseEvent() holds the lock of the list, so that the clients it has still to
\* visit stay in it; what it refers to is the registration of a listed client,
\* unless that client has loaded another one meanwhile.
EventOK ==
  /\ evt.active => \A c \in evt.todo : cl[c].listed
  /\ evt.ref # NoHandle => evt.active
  /\ evt.ref # NoHandle /\ ~evt.stale => \E c \in Clients : cl[c].listed /\ cl[c].reg = evt.ref

TellOK == \A t \in tell : cl[t[1]].bound

UseInv == (\A c \in Clients : ClientOK(c)) /\ UsesOK /\ EventOK /\ TellOK

-----------------------------------------------------------------------------
(* Operators of the model.                                                 *)

\* There is no handle 0.
LEMMA NoHandleIsNone == NoHandle \notin Handles
  BY ApiAssumption DEF NoHandle

\* The smallest number of a set.
LEMMA MinOf ==
  ASSUME NEW S \in SUBSET Nat, NEW m \in S
  PROVE  Min(S) \in S /\ Min(S) <= m
<1>1. \E k \in S : \A j \in S : k <= j
  BY LeastNumber
<1> QED
  BY <1>1 DEF Min

LEMMA MaxOf ==
  ASSUME NEW i \in Nat
  PROVE  Max({i - 1, 0}) \in Nat
<1> DEFINE S == {i - 1, 0}
<1>1. \E k \in S : \A j \in S : k >= j
  BY i - 1 >= 0 \/ 0 >= i - 1
<1>2. Max(S) \in S /\ \A j \in S : Max(S) >= j
  BY <1>1 DEF Max
<1> QED
  BY <1>2

\* The elements of a finite set in some order.
LEMMA SetToSeqType ==
  ASSUME NEW S, IsFiniteSet(S)
  PROVE  SetToSeq(S) \in Seq(S)
<1>1. Cardinality(S) \in Nat
  BY FS_CardinalityType
<1>2. PICK f : f \in Bijection(1..Cardinality(S), S)
  BY FS_CountingElements, FS_CardinalityType DEF ExistsBijection
<1>3. f \in [1..Cardinality(S) -> S] /\ IsInjective(f)
  BY <1>2 DEF Bijection, Injection, IsInjective
<1>4. SetToSeq(S) \in [1..Cardinality(S) -> S]
  BY <1>3 DEF SetToSeq
<1> QED
  BY <1>1, <1>4

\* What the methods of a registration leave alone.
Alike(rg, s) == s.live = rg.live /\ s.detached = rg.detached

\* The methods of a registration give a registration, and only attach() and
\* detach() change who may use it.
LEMMA Methods ==
  ASSUME NEW rg \in RegistrationType
  PROVE  /\ Notify(rg) \in RegistrationType /\ Alike(rg, Notify(rg))
         /\ abort(rg) \in RegistrationType /\ Alike(rg, abort(rg))
         /\ [rg EXCEPT !.none = TRUE] \in RegistrationType
         /\ Alike(rg, [rg EXCEPT !.none = TRUE])
         /\ attach(rg) \in RegistrationType /\ attach(rg).live = rg.live /\ ~attach(rg).detached
         /\ detach(rg) \in RegistrationType /\ detach(rg).live = rg.live
  BY DEF RegistrationType, Alike, Notify, abort, attach, detach

LEMMA Subscriptions ==
  ASSUME NEW rg \in RegistrationType, NEW e \in Endpoints
  PROVE  /\ subscribe(rg, e) \in RegistrationType /\ Alike(rg, subscribe(rg, e))
         /\ unsubscribe(rg, e) \in RegistrationType /\ Alike(rg, unsubscribe(rg, e))
  BY DEF RegistrationType, Alike, subscribe, unsubscribe, Notify

LEMMA Unsubscribed ==
  ASSUME NEW rg \in RegistrationType, NEW E
  PROVE  /\ abort([rg EXCEPT !.eps = @ \ E]) \in RegistrationType
         /\ Alike(rg, abort([rg EXCEPT !.eps = @ \ E]))
  BY DEF RegistrationType, Alike, abort

LEMMA Lifetimes ==
  ASSUME NEW rg \in RegistrationType, NEW l \in Nat
  PROVE  /\ setPersistent(rg, l) \in RegistrationType /\ Alike(rg, setPersistent(rg, l))
         /\ [rg EXCEPT !.expiry = l] \in RegistrationType /\ Alike(rg, [rg EXCEPT !.expiry = l])
  BY DEF RegistrationType, Alike, setPersistent

LEMMA Taken ==
  ASSUME NEW rg \in RegistrationType, rg.queue # <<>>
  PROVE  /\ [rg EXCEPT !.queue = Tail(@)] \in RegistrationType
         /\ Alike(rg, [rg EXCEPT !.queue = Tail(@)])
         /\ Head(rg.queue) \in Bundles
<1>1. rg.queue \in Seq(Bundles)
  BY DEF RegistrationType
<1>2. Tail(rg.queue) \in Seq(Bundles) /\ Head(rg.queue) \in Bundles
  BY <1>1
<1> QED
  BY <1>2 DEF RegistrationType, Alike

LEMMA FoundOnes ==
  ASSUME NEW rg \in RegistrationType, NEW S \in SUBSET Bundles, NEW s \in Answers(rg, S)
  PROVE  Found(rg, s) \in RegistrationType /\ Alike(rg, Found(rg, s))
<1>1. s \in SUBSET Bundles
  BY DEF Answers, Wanted
<1>2. SetToSeq(s) \in Seq(Bundles)
  <2>1. SetToSeq(s) \in Seq(s)
    BY <1>1, RegistrationAssumption, FS_Subset, SetToSeqType
  <2> QED
    BY <1>1, <2>1
<1>3. rg.queue \o SetToSeq(s) \in Seq(Bundles)
  BY <1>2 DEF RegistrationType
<1> QED
  BY <1>1, <1>3 DEF RegistrationType, Alike, Found

LEMMA NewOnes ==
  /\ Released \in RegistrationType /\ ~Released.live
  /\ NewRegistration \in RegistrationType /\ NewRegistration.live /\ ~NewRegistration.detached
<1>1. Released \in RegistrationType /\ ~Released.live /\ ~Released.detached
  <2>1. <<>> \in Seq(Bundles) /\ {} \subseteq Endpoints /\ {} \subseteq Bundles /\ 0 \in Nat
    OBVIOUS
  <2> QED
    BY <2>1 DEF Released, RegistrationType
<1> QED
  BY <1>1 DEF NewRegistration, RegistrationType

\* One registration is changed; a handle that is none changes nothing.
LEMMA SetRegType ==
  ASSUME TypeOK, NEW h, NEW rg, h \in Handles => rg \in RegistrationType
  PROVE  [regs EXCEPT ![h] = rg] \in [Handles -> RegistrationType]
  BY DEF TypeOK

-----------------------------------------------------------------------------
(* Type correctness.                                                       *)

StateTypeOK == TypeOK /\ EventTypeOK

LEMMA InitType == Init => TypeInv
<1> SUFFICES ASSUME Init PROVE TypeInv
  OBVIOUS
<1>1. PICK s \in Scenarios : plan = s.plan /\ due = s.due
  BY DEF Init
<1>2. due \subseteq Bundles /\ PlanTypeOK
  BY <1>1, ApiAssumption DEF PlanTypeOK
<1>3. regs \in [Handles -> RegistrationType]
  BY NewOnes DEF Init
<1>4. NoClient \in ClientType /\ NoSender \in SenderType
  BY DEF NoClient, NoSender, ClientType, SenderType
<1>5. cl \in [Clients -> ClientType] /\ snd \in [Clients -> SenderType]
  BY <1>4 DEF Init
<1>6. pend \in [Clients -> Seq(Bundles)]
  BY DEF Init
<1>7. gc \in 0..Never
  BY ApiAssumption DEF Init, Never
<1>8. EventTypeOK
  BY DEF Init, NoEvent, EventTypeOK
<1> QED
  BY <1>2, <1>3, <1>5, <1>6, <1>7, <1>8 DEF Init, TypeInv, TypeOK

\* The registration of a client that has one.
LEMMA RegOf ==
  ASSUME TypeOK, NEW c \in Clients
  PROVE  /\ cl[c].reg \in Handles \cup {NoHandle} /\ snd[c].reg \in Handles \cup {NoHandle}
         /\ cl[c].reg \in Handles => Reg(c) \in RegistrationType
         /\ snd[c].reg \in Handles => regs[snd[c].reg] \in RegistrationType
  BY DEF TypeOK, ClientType, SenderType, Reg

\* The collector is set for a time that it can have.
LEMMA CollectorType ==
  ASSUME TypeOK, NEW rs \in [Handles -> RegistrationType]
  PROVE  /\ nextRegistrationExpiry(rs) \in 0..Never
         /\ startGarbageCollector(rs) => gc' \in 0..Never
<1>1. Never \in Nat
  BY ApiAssumption DEF Never
<1> DEFINE idle == {h \in Handles : attachable(rs[h])}
           S == {rs[h].expiry : h \in idle} \cup {Never}
<1>2. S \in SUBSET Nat /\ Never \in S
  BY <1>1 DEF RegistrationType
<1>3. Min(S) \in 0..Never
  BY <1>1, <1>2, MinOf
<1>4. nextRegistrationExpiry(rs) \in 0..Never
  BY <1>1, <1>3 DEF nextRegistrationExpiry
<1> QED
  BY <1>4 DEF startGarbageCollector, TypeOK

LEMMA FreeType ==
  ASSUME TypeOK, NEW h, freeRegistration(h)
  PROVE  regs' \in [Handles -> RegistrationType] /\ gc' \in 0..Never
<1> DEFINE rg == IF isPersistent(regs[h]) THEN detach(regs[h]) ELSE Released
           rs == [regs EXCEPT ![h] = rg]
<1>1. h \in Handles => rg \in RegistrationType
  BY Methods, NewOnes DEF TypeOK
<1>2. rs \in [Handles -> RegistrationType]
  BY <1>1, SetRegType
<1>3. regs' = rs /\ (startGarbageCollector(rs) \/ gc' = gc)
  BY DEF freeRegistration
<1> QED
  BY <1>2, <1>3, CollectorType DEF TypeOK

LEMMA BinaryReceivesType ==
  ASSUME TypeInv, NEW c \in Clients, ClientOK(c), BinaryReceives(c)
  PROVE  TypeInv'
<1>1. regs' \in [Handles -> RegistrationType]
  BY RegOf, SetRegType, Taken DEF BinaryReceives, SetReg, TypeInv, TypeOK
<1>2. pend' \in [Clients -> Seq(Bundles)]
  <2>1. Head(regs[snd[c].reg].queue) \in Bundles
    <3>1. snd[c].reg \in Handles /\ cl[c].reg \in Handles
      BY RegOf DEF BinaryReceives, ClientOK, TypeInv
    <3> QED
      BY <3>1, RegOf, Taken DEF BinaryReceives, TypeInv
  <2> QED
    BY <2>1 DEF BinaryReceives, TypeInv, TypeOK
<1> QED
  BY <1>1, <1>2 DEF BinaryReceives, TypeInv, TypeOK, EventTypeOK, PlanTypeOK

LEMMA ExtendedReceivesType ==
  ASSUME TypeInv, NEW c \in Clients, ClientOK(c), ExtendedReceives(c)
  PROVE  TypeInv'
<1>1. regs' \in [Handles -> RegistrationType]
  BY RegOf, SetRegType, Taken DEF ExtendedReceives, SetReg, TypeInv, TypeOK
<1>2. pend' \in [Clients -> Seq(Bundles)]
  <2>1. Head(regs[snd[c].reg].queue) \in Bundles
    <3>1. snd[c].reg \in Handles /\ cl[c].reg \in Handles
      BY RegOf DEF ExtendedReceives, ClientOK, TypeInv
    <3> QED
      BY <3>1, RegOf, Taken DEF ExtendedReceives, TypeInv
  <2> QED
    BY <2>1 DEF ExtendedReceives, TypeInv, TypeOK
<1> QED
  BY <1>1, <1>2 DEF ExtendedReceives, TypeInv, TypeOK, EventTypeOK, PlanTypeOK

LEMMA SenderQueriesType ==
  ASSUME TypeInv, NEW c \in Clients, SenderQueries(c)
  PROVE  TypeInv'
<1>1. regs' \in [Handles -> RegistrationType]
  BY RegOf, SetRegType, FoundOnes DEF SenderQueries, SetReg, TypeInv, TypeOK
<1>2. snd' \in [Clients -> SenderType]
  BY DEF SenderQueries, TypeInv, TypeOK, SenderType, ClientType
<1> QED
  BY <1>1, <1>2 DEF SenderQueries, TypeInv, TypeOK, EventTypeOK, PlanTypeOK

LEMMA SenderFindsNoneType ==
  ASSUME TypeInv, NEW c \in Clients, SenderFindsNone(c)
  PROVE  TypeInv'
  BY RegOf, SetRegType, Methods DEF TypeInv, TypeOK, EventTypeOK, PlanTypeOK, SetReg, SenderFindsNone, SenderType

LEMMA SenderWakesType ==
  ASSUME TypeInv, NEW c \in Clients, SenderWakes(c)
  PROVE  TypeInv'
  BY DEF TypeInv, TypeOK, EventTypeOK, PlanTypeOK, SetReg, SenderWakes, SenderType

LEMMA SenderEndsType ==
  ASSUME TypeInv, NEW c \in Clients, SenderEnds(c)
  PROVE  TypeInv'
  BY RegOf, SetRegType, Methods DEF TypeInv, TypeOK, EventTypeOK, PlanTypeOK, SetReg, SenderEnds, SenderType, NoSender, Reg

LEMMA ExtendedEndsType ==
  ASSUME TypeInv, NEW c \in Clients, ExtendedEnds(c)
  PROVE  TypeInv'
<1>1. cl' \in [Clients -> ClientType]
  <2> DEFINE x == [cl[c] EXCEPT !.at = "join", !.bound = FALSE]
  <2>1. x \in ClientType
    BY DEF TypeInv, TypeOK, ClientType
  <2>2. cl' = [cl EXCEPT ![c] = x]
    BY DEF ExtendedEnds, HandlerEnds, TypeInv, TypeOK
  <2> QED
    BY <2>1, <2>2 DEF TypeInv, TypeOK
<1>2. regs' \in [Handles -> RegistrationType]
  BY RegOf, SetRegType, Methods DEF ExtendedEnds, SetReg, TypeInv, TypeOK
<1> QED
  BY <1>1, <1>2 DEF ExtendedEnds, HandlerEnds, TypeInv, TypeOK, EventTypeOK, PlanTypeOK

LEMMA BinaryEndsType ==
  ASSUME TypeInv, NEW c \in Clients, BinaryEnds(c)
  PROVE  TypeInv'
<1>1. cl' \in [Clients -> ClientType]
  <2> DEFINE x == [cl[c] EXCEPT !.at = "join", !.bound = FALSE]
  <2>1. x \in ClientType
    BY DEF TypeInv, TypeOK, ClientType
  <2>2. cl' = [cl EXCEPT ![c] = x]
    BY DEF BinaryEnds, HandlerEnds, TypeInv, TypeOK
  <2> QED
    BY <2>1, <2>2 DEF TypeInv, TypeOK
<1>2. regs' \in [Handles -> RegistrationType]
  BY RegOf, SetRegType, Unsubscribed DEF BinaryEnds, SetReg, TypeInv, TypeOK
<1> QED
  BY <1>1, <1>2 DEF BinaryEnds, HandlerEnds, TypeInv, TypeOK, EventTypeOK, PlanTypeOK

LEMMA ManagementEndsType ==
  ASSUME TypeInv, NEW c \in Clients, ManagementEnds(c)
  PROVE  TypeInv'
<1>1. cl' \in [Clients -> ClientType]
  <2> DEFINE x == [cl[c] EXCEPT !.at = "join", !.bound = FALSE]
  <2>1. x \in ClientType
    BY DEF TypeInv, TypeOK, ClientType
  <2>2. cl' = [cl EXCEPT ![c] = x]
    BY DEF ManagementEnds, HandlerEnds, TypeInv, TypeOK
  <2> QED
    BY <2>1, <2>2 DEF TypeInv, TypeOK
<1> QED
  BY <1>1 DEF ManagementEnds, HandlerEnds, TypeInv, TypeOK, EventTypeOK, PlanTypeOK

LEMMA EventEndsProtocolType ==
  ASSUME TypeInv, NEW c \in Clients, EventEndsProtocol(c)
  PROVE  TypeInv'
<1>1. cl' \in [Clients -> ClientType]
  <2> DEFINE x == [cl[c] EXCEPT !.at = "join", !.bound = FALSE]
  <2>1. x \in ClientType
    BY DEF TypeInv, TypeOK, ClientType, Protocols
  <2>2. cl' = [cl EXCEPT ![c] = x]
    BY DEF EventEndsProtocol, HandlerEnds, TypeInv, TypeOK
  <2> QED
    BY <2>1, <2>2 DEF TypeInv, TypeOK
<1> QED
  BY <1>1 DEF EventEndsProtocol, HandlerEnds, TypeInv, TypeOK, EventTypeOK, PlanTypeOK

LEMMA HandlerJoinsType ==
  ASSUME TypeInv, NEW c \in Clients, HandlerJoins(c)
  PROVE  TypeInv'
<1>1. cl' \in [Clients -> ClientType]
  <2> DEFINE x == [cl[c] EXCEPT !.at = "idle", !.proto = "none", !.register = NoBundle, !.eid = {}]
  <2>1. x \in ClientType
    BY DEF TypeInv, TypeOK, ClientType
  <2>2. cl' = [cl EXCEPT ![c] = x]
    BY DEF HandlerJoins, TypeInv, TypeOK
  <2> QED
    BY <2>1, <2>2 DEF TypeInv, TypeOK
<1> QED
  BY <1>1 DEF HandlerJoins, TypeInv, TypeOK, EventTypeOK, PlanTypeOK

LEMMA ConnectionDownType ==
  ASSUME TypeInv, NEW c \in Clients, ConnectionDown(c)
  PROVE  TypeInv'
<1>1. cl' \in [Clients -> ClientType]
  <2> DEFINE x == [cl[c] EXCEPT !.at = "free", !.listed = FALSE]
  <2>1. x \in ClientType
    BY DEF TypeInv, TypeOK, ClientType
  <2>2. cl' = [cl EXCEPT ![c] = x]
    BY DEF ConnectionDown, TypeInv, TypeOK
  <2> QED
    BY <2>1, <2>2 DEF TypeInv, TypeOK
<1> QED
  BY <1>1 DEF ConnectionDown, TypeInv, TypeOK, EventTypeOK, PlanTypeOK

LEMMA ClientEndsType ==
  ASSUME TypeInv, NEW c \in Clients, ClientEnds(c)
  PROVE  TypeInv'
  BY FreeType DEF TypeInv, TypeOK, EventTypeOK, PlanTypeOK, SetReg, ClientEnds, NoClient, ClientType, NoHandle, NoBundle

LEMMA RegistrationSwitchType ==
  ASSUME TypeInv, NEW c \in Clients, RegistrationSwitch(c)
  PROVE  TypeInv'
<1>1. cl' \in [Clients -> ClientType]
  <2> DEFINE x == [cl[c] EXCEPT !.at = "run", !.reg = cl[c].next, !.next = NoHandle]
  <2>1. x \in ClientType
    BY DEF TypeInv, TypeOK, ClientType
  <2>2. cl' = [cl EXCEPT ![c] = x]
    BY DEF RegistrationSwitch, TypeInv, TypeOK
  <2> QED
    BY <2>1, <2>2 DEF TypeInv, TypeOK
<1>2. snd' \in [Clients -> SenderType]
  BY DEF RegistrationSwitch, TypeInv, TypeOK, SenderType, ClientType
<1> QED
  BY <1>1, <1>2, FreeType DEF RegistrationSwitch, TypeInv, TypeOK, EventTypeOK, PlanTypeOK

LEMMA CloseType ==
  ASSUME TypeInv, NEW c \in Clients, Close(c)
  PROVE  TypeInv'
<1>1. cl' \in [Clients -> ClientType]
  <2> DEFINE x == [cl[c] EXCEPT !.good = FALSE]
  <2>1. x \in ClientType
    BY DEF TypeInv, TypeOK, ClientType
  <2>2. cl' = [cl EXCEPT ![c] = x]
    BY DEF Close, TypeInv, TypeOK
  <2> QED
    BY <2>1, <2>2 DEF TypeInv, TypeOK
<1> QED
  BY <1>1 DEF Close, TypeInv, TypeOK, EventTypeOK, PlanTypeOK

LEMMA ManagementShutdownType ==
  ASSUME TypeInv, NEW c \in Clients, ManagementShutdown(c)
  PROVE  TypeInv'
  BY DEF TypeInv, TypeOK, EventTypeOK, PlanTypeOK, SetReg, ManagementShutdown

LEMMA BundleAnsweredType ==
  ASSUME TypeInv, NEW c \in Clients, BundleAnswered(c)
  PROVE  TypeInv'
  BY DEF TypeInv, TypeOK, EventTypeOK, PlanTypeOK, SetReg, BundleAnswered, delivered

LEMMA EventShownType ==
  ASSUME TypeInv, NEW c \in Clients, NEW b \in Bundles, EventShown(c, b)
  PROVE  TypeInv'
  BY DEF TypeInv, TypeOK, EventTypeOK, PlanTypeOK, SetReg, EventShown

LEMMA EventStartsType ==
  ASSUME TypeInv, NEW b \in Bundles, EventStarts(b)
  PROVE  TypeInv'
  BY DEF TypeInv, TypeOK, EventTypeOK, PlanTypeOK, SetReg, EventStarts, NoEvent

LEMMA EventLooksType ==
  ASSUME TypeInv, NEW c \in Clients, EventLooks(c)
  PROVE  TypeInv'
  BY RegOf DEF TypeInv, TypeOK, EventTypeOK, PlanTypeOK, SetReg, EventLooks

LEMMA EventNotifiesType ==
  ASSUME TypeInv, EventNotifies
  PROVE  TypeInv'
  BY SetRegType, Methods DEF TypeInv, TypeOK, EventTypeOK, PlanTypeOK, SetReg, EventNotifies

LEMMA EventEndsType ==
  ASSUME TypeInv, EventEnds
  PROVE  TypeInv'
  BY DEF TypeInv, TypeOK, EventTypeOK, PlanTypeOK, SetReg, EventEnds, NoEvent, NoHandle, NoBundle

LEMMA BundleArrivesType ==
  ASSUME TypeInv, NEW b \in Bundles, BundleArrives(b)
  PROVE  TypeInv'
  BY DEF TypeInv, TypeOK, EventTypeOK, PlanTypeOK, SetReg, BundleArrives

LEMMA TimeoutType ==
  ASSUME TypeInv, Timeout
  PROVE  TypeInv'
  BY NewOnes, CollectorType DEF TypeInv, TypeOK, EventTypeOK, PlanTypeOK, SetReg, Timeout

LEMMA TickType ==
  ASSUME TypeInv, Tick
  PROVE  TypeInv'
<1>1. ASSUME NEW h \in Handles
      PROVE  [regs[h] EXCEPT !.expiry = Max({@ - 1, 0})] \in RegistrationType
  <2>1. regs[h] \in RegistrationType /\ regs[h].expiry \in Nat
    BY DEF TypeInv, TypeOK, RegistrationType
  <2>2. Max({regs[h].expiry - 1, 0}) \in Nat
    BY <2>1, MaxOf
  <2> QED
    BY <2>1, <2>2, Lifetimes
<1>2. regs' \in [Handles -> RegistrationType]
  BY <1>1 DEF Tick
<1>3. gc' \in 0..Never
  <2>1. Never \in Nat
    BY ApiAssumption DEF Never
  <2> QED
    BY <2>1 DEF Tick, TypeInv, TypeOK
<1> QED
  BY <1>2, <1>3 DEF Tick, TypeInv, TypeOK, EventTypeOK, PlanTypeOK

LEMMA ComponentDownType ==
  ASSUME TypeInv, ComponentDown
  PROVE  TypeInv'
<1>1. cl' \in [Clients -> ClientType]
  <2>1. ASSUME NEW c \in Clients
        PROVE  [cl[c] EXCEPT !.good = FALSE] \in ClientType
    BY DEF TypeInv, TypeOK, ClientType
  <2> QED
    BY <2>1 DEF ComponentDown, TypeInv, TypeOK
<1> QED
  BY <1>1 DEF ComponentDown, TypeInv, TypeOK, EventTypeOK, PlanTypeOK

LEMMA ComponentIsDownType ==
  ASSUME TypeInv, ComponentIsDown
  PROVE  TypeInv'
  BY DEF TypeInv, TypeOK, EventTypeOK, PlanTypeOK, SetReg, ComponentIsDown

LEMMA AcceptType ==
  ASSUME TypeInv, NEW c \in Clients, Accept(c)
  PROVE  StateTypeOK'
<1>1. cl' \in [Clients -> ClientType]
  <2>1. PICK h \in Handles :
          cl' = [cl EXCEPT ![c] = [NoClient EXCEPT !.at = "idle", !.reg = h,
                                                   !.good = TRUE, !.listed = TRUE]]
    BY DEF Accept
  <2>2. [NoClient EXCEPT !.at = "idle", !.reg = h, !.good = TRUE, !.listed = TRUE] \in ClientType
    BY DEF NoClient, ClientType
  <2> QED
    BY <2>1, <2>2 DEF TypeInv, TypeOK
<1>2. regs' \in [Handles -> RegistrationType]
  BY SetRegType, NewOnes DEF Accept, SetReg, TypeInv, TypeOK
<1> QED
  BY <1>1, <1>2 DEF Accept, TypeInv, TypeOK, EventTypeOK, StateTypeOK

LEMMA ProtocolExtendedType ==
  ASSUME TypeInv, NEW c \in Clients, ProtocolExtended(c)
  PROVE  StateTypeOK'
<1>1. cl' \in [Clients -> ClientType]
  <2> DEFINE x == [cl[c] EXCEPT !.at = "run", !.proto = "extended", !.bound = FALSE, !.eid = {}]
  <2>1. x \in ClientType
    BY DEF TypeInv, TypeOK, ClientType, Protocols
  <2>2. cl' = [cl EXCEPT ![c] = x]
    BY DEF ProtocolExtended, Protocol, TypeInv, TypeOK
  <2> QED
    BY <2>1, <2>2 DEF TypeInv, TypeOK
<1>2. snd' \in [Clients -> SenderType]
  BY DEF ProtocolExtended, Protocol, TypeInv, TypeOK, SenderType, ClientType
<1> QED
  BY <1>1, <1>2 DEF ProtocolExtended, Protocol, TypeInv, TypeOK, EventTypeOK, StateTypeOK

LEMMA ProtocolBinaryType ==
  ASSUME TypeInv, NEW c \in Clients, NEW e \in Endpoints, ProtocolBinary(c, e)
  PROVE  StateTypeOK'
<1>1. cl' \in [Clients -> ClientType]
  <2> DEFINE x == [cl[c] EXCEPT !.at = "run", !.proto = "tcpcl", !.bound = FALSE, !.eid = {e}]
  <2>1. x \in ClientType
    BY DEF TypeInv, TypeOK, ClientType, Protocols
  <2>2. cl' = [cl EXCEPT ![c] = x]
    BY DEF ProtocolBinary, Protocol, TypeInv, TypeOK
  <2> QED
    BY <2>1, <2>2 DEF TypeInv, TypeOK
<1>2. regs' \in [Handles -> RegistrationType]
  BY RegOf, SetRegType, Subscriptions DEF ProtocolBinary, SetReg, TypeInv, TypeOK
<1>3. snd' \in [Clients -> SenderType]
  BY DEF ProtocolBinary, Protocol, TypeInv, TypeOK, SenderType, ClientType
<1> QED
  BY <1>1, <1>2, <1>3 DEF ProtocolBinary, Protocol, TypeInv, TypeOK, EventTypeOK, StateTypeOK

LEMMA ProtocolEventType ==
  ASSUME TypeInv, NEW c \in Clients, ProtocolEvent(c)
  PROVE  StateTypeOK'
<1>1. cl' \in [Clients -> ClientType]
  <2> DEFINE x == [cl[c] EXCEPT !.at = "run", !.proto = "event", !.bound = TRUE, !.eid = {}]
  <2>1. x \in ClientType
    BY DEF TypeInv, TypeOK, ClientType, Protocols
  <2>2. cl' = [cl EXCEPT ![c] = x]
    BY DEF ProtocolEvent, Protocol, TypeInv, TypeOK
  <2> QED
    BY <2>1, <2>2 DEF TypeInv, TypeOK
<1> QED
  BY <1>1 DEF ProtocolEvent, Protocol, TypeInv, TypeOK, EventTypeOK, StateTypeOK

LEMMA ProtocolManagementType ==
  ASSUME TypeInv, NEW c \in Clients, ProtocolManagement(c)
  PROVE  StateTypeOK'
<1>1. cl' \in [Clients -> ClientType]
  <2> DEFINE x == [cl[c] EXCEPT !.at = "run", !.proto = "management", !.bound = FALSE, !.eid = {}]
  <2>1. ASSUME NEW k \in ClientType
        PROVE  [k EXCEPT !.at = "run", !.proto = "management", !.bound = FALSE, !.eid = {}]
                 \in ClientType
    BY DEF ClientType, Protocols
  <2>2. cl' = [cl EXCEPT ![c] = x]
    BY DEF ProtocolManagement, Protocol, TypeInv, TypeOK
  <2>3. x \in ClientType
    <3>1. cl[c] \in ClientType
      BY DEF TypeInv, TypeOK
    <3> QED
      BY <2>1, <3>1, Zenon
  <2> QED
    BY <2>2, <2>3 DEF TypeInv, TypeOK
<1> QED
  BY <1>1 DEF ProtocolManagement, Protocol, TypeInv, TypeOK, EventTypeOK, StateTypeOK

LEMMA ProcessCommandType ==
  ASSUME TypeInv, NEW c \in Clients, NEW e \in Endpoints, ProcessCommand(c, e)
  PROVE  StateTypeOK'
<1>1. regs' \in [Handles -> RegistrationType]
  BY RegOf, SetRegType, Subscriptions DEF ProcessCommand, SetReg, TypeInv, TypeOK
<1> QED
  BY <1>1 DEF ProcessCommand, TypeInv, TypeOK, EventTypeOK, StateTypeOK

LEMMA RegistrationAddType ==
  ASSUME TypeInv, NEW c \in Clients, NEW e \in Endpoints, RegistrationAdd(c, e)
  PROVE  StateTypeOK'
  BY RegOf, SetRegType, Subscriptions DEF TypeInv, TypeOK, EventTypeOK, StateTypeOK, SetReg, RegistrationAdd

LEMMA RegistrationDelType ==
  ASSUME TypeInv, NEW c \in Clients, NEW e \in Endpoints, RegistrationDel(c, e)
  PROVE  StateTypeOK'
  BY RegOf, SetRegType, Subscriptions DEF TypeInv, TypeOK, EventTypeOK, StateTypeOK, SetReg, RegistrationDel

LEMMA RegistrationSaveType ==
  ASSUME TypeInv, NEW c \in Clients, NEW l \in 1..MaxLifetime, RegistrationSave(c, l)
  PROVE  StateTypeOK'
<1>0. l \in Nat
  BY ApiAssumption
<1>1. regs' \in [Handles -> RegistrationType]
  BY <1>0, RegOf, SetRegType, Lifetimes DEF RegistrationSave, SetReg, TypeInv, TypeOK
<1> QED
  BY <1>1 DEF RegistrationSave, TypeInv, TypeOK, EventTypeOK, StateTypeOK

LEMMA RegistrationLoadType ==
  ASSUME TypeInv, NEW c \in Clients, NEW h \in Handles, RegistrationLoad(c, h)
  PROVE  StateTypeOK'
<1>1. cl' \in [Clients -> ClientType]
  <2> DEFINE x == [cl[c] EXCEPT !.at = "load", !.next = h]
  <2>1. x \in ClientType
    BY DEF TypeInv, TypeOK, ClientType
  <2>2. cl' = [cl EXCEPT ![c] = x]
    BY DEF RegistrationLoad, TypeInv, TypeOK
  <2> QED
    BY <2>1, <2>2 DEF TypeInv, TypeOK
<1>2. regs' \in [Handles -> RegistrationType]
  <2> DEFINE r1 == [regs EXCEPT ![h] = attach(regs[h])]
             j == cl[c].reg
  <2>1. r1 \in [Handles -> RegistrationType]
    BY SetRegType, Methods DEF TypeInv, TypeOK
  <2>2. j \in Handles => abort(r1[j]) \in RegistrationType
    BY <2>1, Methods
  <2> HIDE DEF r1
  <2>3. regs' = [r1 EXCEPT ![j] = abort(r1[j])]
    BY DEF RegistrationLoad, r1
  <2> QED
    BY <2>1, <2>2, <2>3
<1> QED
  BY <1>1, <1>2 DEF RegistrationLoad, TypeInv, TypeOK, EventTypeOK, StateTypeOK

LEMMA BundleLoadType ==
  ASSUME TypeInv, NEW c \in Clients, NEW b \in Bundles, BundleLoad(c, b)
  PROVE  StateTypeOK'
<1>1. cl' \in [Clients -> ClientType]
  <2> DEFINE x == [cl[c] EXCEPT !.register = b]
  <2>1. x \in ClientType
    BY DEF TypeInv, TypeOK, ClientType
  <2>2. cl' = IF b \in store THEN [cl EXCEPT ![c] = x] ELSE cl
    BY DEF BundleLoad, TypeInv, TypeOK
  <2> QED
    BY <2>1, <2>2 DEF TypeInv, TypeOK
<1>2. pend' \in [Clients -> Seq(Bundles)]
  <2>1. pend[c] \in Seq(Bundles)
    BY DEF TypeInv, TypeOK
  <2>2. pend[c] # <<>> => Tail(pend[c]) \in Seq(Bundles)
    BY <2>1
  <2> QED
    BY <2>2 DEF BundleLoad, TypeInv, TypeOK
<1> QED
  BY <1>1, <1>2 DEF BundleLoad, TypeInv, TypeOK, EventTypeOK, StateTypeOK

LEMMA BundleClearType ==
  ASSUME TypeInv, NEW c \in Clients, BundleClear(c)
  PROVE  StateTypeOK'
<1>1. cl' \in [Clients -> ClientType]
  <2> DEFINE x == [cl[c] EXCEPT !.register = NoBundle]
  <2>1. x \in ClientType
    BY DEF TypeInv, TypeOK, ClientType
  <2>2. cl' = [cl EXCEPT ![c] = x]
    BY DEF BundleClear, TypeInv, TypeOK
  <2> QED
    BY <2>1, <2>2 DEF TypeInv, TypeOK
<1> QED
  BY <1>1 DEF BundleClear, TypeInv, TypeOK, EventTypeOK, StateTypeOK

LEMMA BundleDeliveredType ==
  ASSUME TypeInv, NEW c \in Clients, NEW b \in Bundles, BundleDelivered(c, b)
  PROVE  StateTypeOK'
  BY DEF TypeInv, TypeOK, EventTypeOK, StateTypeOK, SetReg, BundleDelivered, delivered

LEMMA BundleStoreType ==
  ASSUME TypeInv, NEW c \in Clients, BundleStore(c)
  PROVE  StateTypeOK'
  BY DEF TypeInv, TypeOK, EventTypeOK, StateTypeOK, SetReg, BundleStore, ClientType

-----------------------------------------------------------------------------
(* Who uses what.                                                          *)

LEMMA InitUse == Init => UseInv
<1> SUFFICES ASSUME Init PROVE UseInv
  OBVIOUS
<1>1. \A c \in Clients : ClientOK(c) /\ Uses(c) = {} /\ cl[c].next = NoHandle
  BY DEF Init, ClientOK, Uses, NoClient, NoSender
<1>2. UsesOK
  BY <1>1 DEF UsesOK
<1> QED
  BY <1>1, <1>2 DEF Init, UseInv, EventOK, TellOK, NoEvent

\* One registration is changed by one of its methods.
LEMMA AlikeSet ==
  ASSUME TypeOK, NEW h, NEW rg, h \in Handles => Alike(regs[h], rg),
         regs' = [regs EXCEPT ![h] = rg]
  PROVE  \A k \in Handles : Alike(regs[k], regs'[k])
  BY DEF TypeOK, Alike

LEMMA AlikeSame ==
  ASSUME regs' = regs
  PROVE  \A k \in Handles : Alike(regs[k], regs'[k])
  BY DEF Alike

\* Nobody uses what it has not used before.
LEMMA UsesKept ==
  ASSUME UsesOK, \A c \in Clients : Uses(c)' \subseteq Uses(c) /\ Uses(c) \subseteq Handles,
         \A c \in Clients : cl'[c].next # NoHandle =>
           cl'[c].next = cl[c].next /\ cl'[c].reg = cl[c].reg,
         \A k \in Handles : (\E c \in Clients : k \in Uses(c)') => Alike(regs[k], regs'[k])
  PROVE  UsesOK'
<1>1. ASSUME NEW c \in Clients, NEW h \in Uses(c)'
      PROVE  regs'[h].live /\ ~regs'[h].detached
  BY <1>1 DEF UsesOK, Alike
<1>2. \A c \in Clients : cl'[c].next # NoHandle => cl'[c].next # cl'[c].reg
  BY DEF UsesOK
<1>3. \A c, d \in Clients : c # d => Uses(c)' \cap Uses(d)' = {}
  BY DEF UsesOK
<1> QED
  BY <1>1, <1>2, <1>3 DEF UsesOK

LEMMA UsesType ==
  ASSUME TypeOK, NEW c \in Clients
  PROVE  Uses(c) \subseteq Handles
  BY DEF TypeOK, ClientType, SenderType, Uses

\* A step that changes no client and no sender but the place where it is.
LEMMA UsersKept ==
  ASSUME TypeOK, UseInv, UNCHANGED <<cl, evt, tell>>,
         \A c \in Clients : /\ snd'[c].reg = snd[c].reg
                            /\ (snd'[c].pc = "off") = (snd[c].pc = "off"),
         \A k \in Handles : Alike(regs[k], regs'[k])
  PROVE  UseInv'
<1>1. \A c \in Clients : ClientOK(c)'
  BY DEF UseInv, ClientOK
<1>2. \A c \in Clients : Uses(c)' = Uses(c)
  BY DEF Uses
<1>3. UsesOK'
  BY <1>2, UsesType, UsesKept DEF UseInv
<1> QED
  BY <1>1, <1>3 DEF UseInv, EventOK, TellOK

\* One client takes a step.
LEMMA ClientsKept ==
  ASSUME NEW c \in Clients, UseInv, ClientOK(c)',
         \A d \in Clients \ {c} : cl'[d] = cl[d] /\ snd'[d] = snd[d]
  PROVE  \A d \in Clients : ClientOK(d)'
  BY DEF UseInv, ClientOK

LEMMA BinaryReceivesUse ==
  ASSUME TypeInv, UseInv, NEW c \in Clients, BinaryReceives(c)
  PROVE  UseInv'
<1> DEFINE h == snd[c].reg
           rg == [regs[snd[c].reg] EXCEPT !.queue = Tail(@)]
<1>1. h \in Handles => Alike(regs[h], rg)
  BY RegOf, Taken DEF TypeInv, TypeOK, Reg, BinaryReceives
<1>2. regs' = [regs EXCEPT ![h] = rg]
  BY DEF BinaryReceives, SetReg
<1>3. \A k \in Handles : Alike(regs[k], regs'[k])
  BY <1>1, <1>2, AlikeSet DEF TypeInv
<1> QED
  BY <1>3, UsersKept DEF BinaryReceives, TypeInv, TypeOK, SenderType

LEMMA ExtendedReceivesUse ==
  ASSUME TypeInv, UseInv, NEW c \in Clients, ExtendedReceives(c)
  PROVE  UseInv'
<1> DEFINE h == snd[c].reg
           rg == [regs[snd[c].reg] EXCEPT !.queue = Tail(@)]
<1>1. h \in Handles => Alike(regs[h], rg)
  BY RegOf, Taken DEF TypeInv, TypeOK, Reg, ExtendedReceives
<1>2. regs' = [regs EXCEPT ![h] = rg]
  BY DEF ExtendedReceives, SetReg
<1>3. \A k \in Handles : Alike(regs[k], regs'[k])
  BY <1>1, <1>2, AlikeSet DEF TypeInv
<1> QED
  BY <1>3, UsersKept DEF ExtendedReceives, TypeInv, TypeOK, SenderType

LEMMA SenderFindsNoneUse ==
  ASSUME TypeInv, UseInv, NEW c \in Clients, SenderFindsNone(c)
  PROVE  UseInv'
<1> DEFINE h == snd[c].reg
           rg == [regs[snd[c].reg] EXCEPT !.none = TRUE]
<1>1. h \in Handles => Alike(regs[h], rg)
  BY RegOf, Methods DEF TypeInv, TypeOK, Reg
<1>2. regs' = [regs EXCEPT ![h] = rg]
  BY DEF SenderFindsNone, SetReg
<1>3. \A k \in Handles : Alike(regs[k], regs'[k])
  BY <1>1, <1>2, AlikeSet DEF TypeInv
<1> QED
  BY <1>3, UsersKept DEF SenderFindsNone, TypeInv, TypeOK, SenderType

LEMMA RegistrationAddUse ==
  ASSUME TypeInv, UseInv, NEW c \in Clients, NEW e \in Endpoints, RegistrationAdd(c, e)
  PROVE  UseInv'
<1> DEFINE h == cl[c].reg
           rg == subscribe(Reg(c), e)
<1>1. h \in Handles => Alike(regs[h], rg)
  BY RegOf, Subscriptions DEF TypeInv, TypeOK, Reg
<1>2. regs' = [regs EXCEPT ![h] = rg]
  BY DEF RegistrationAdd, SetReg
<1>3. \A k \in Handles : Alike(regs[k], regs'[k])
  BY <1>1, <1>2, AlikeSet DEF TypeInv
<1> QED
  BY <1>3, UsersKept DEF RegistrationAdd, TypeInv, TypeOK, SenderType

LEMMA RegistrationDelUse ==
  ASSUME TypeInv, UseInv, NEW c \in Clients, NEW e \in Endpoints, RegistrationDel(c, e)
  PROVE  UseInv'
<1> DEFINE h == cl[c].reg
           rg == unsubscribe(Reg(c), e)
<1>1. h \in Handles => Alike(regs[h], rg)
  BY RegOf, Subscriptions DEF TypeInv, TypeOK, Reg
<1>2. regs' = [regs EXCEPT ![h] = rg]
  BY DEF RegistrationDel, SetReg
<1>3. \A k \in Handles : Alike(regs[k], regs'[k])
  BY <1>1, <1>2, AlikeSet DEF TypeInv
<1> QED
  BY <1>3, UsersKept DEF RegistrationDel, TypeInv, TypeOK, SenderType

LEMMA BundleDeliveredUse ==
  ASSUME TypeInv, UseInv, NEW c \in Clients, NEW b \in Bundles, BundleDelivered(c, b)
  PROVE  UseInv'
  BY AlikeSame, UsersKept DEF BundleDelivered, TypeInv, TypeOK

LEMMA BundleStoreUse ==
  ASSUME TypeInv, UseInv, NEW c \in Clients, BundleStore(c)
  PROVE  UseInv'
  BY AlikeSame, UsersKept DEF BundleStore, TypeInv, TypeOK

LEMMA BundleAnsweredUse ==
  ASSUME TypeInv, UseInv, NEW c \in Clients, BundleAnswered(c)
  PROVE  UseInv'
  BY AlikeSame, UsersKept DEF BundleAnswered, TypeInv, TypeOK

LEMMA ManagementShutdownUse ==
  ASSUME TypeInv, UseInv, NEW c \in Clients, ManagementShutdown(c)
  PROVE  UseInv'
  BY AlikeSame, UsersKept DEF ManagementShutdown, TypeInv, TypeOK

LEMMA ComponentIsDownUse ==
  ASSUME TypeInv, UseInv, ComponentIsDown
  PROVE  UseInv'
  BY AlikeSame, UsersKept DEF ComponentIsDown, TypeInv, TypeOK

LEMMA SenderWakesUse ==
  ASSUME TypeInv, UseInv, NEW c \in Clients, SenderWakes(c)
  PROVE  UseInv'
  BY AlikeSame, UsersKept DEF SenderWakes, TypeInv, TypeOK, SenderType

LEMMA SenderQueriesUse ==
  ASSUME TypeInv, UseInv, NEW c \in Clients, SenderQueries(c)
  PROVE  UseInv'
<1> DEFINE h == snd[c].reg
<1>1. PICK found \in Answers(regs[h], store) :
        /\ regs' = [regs EXCEPT ![h] = Found(regs[h], found)]
        /\ snd' = IF found = {} THEN [snd EXCEPT ![c].pc = "none"] ELSE snd
  BY DEF SenderQueries, SetReg
<1>2. h \in Handles => Alike(regs[h], Found(regs[h], found))
  BY FoundOnes DEF TypeInv, TypeOK
<1>3. \A k \in Handles : Alike(regs[k], regs'[k])
  BY <1>1, <1>2, AlikeSet DEF TypeInv
<1>4. snd[c].pc = "loop" /\ UNCHANGED <<cl, evt, tell>>
  BY DEF SenderQueries
<1>5. \A d \in Clients : /\ snd'[d].reg = snd[d].reg
                         /\ (snd'[d].pc = "off") = (snd[d].pc = "off")
  BY <1>1, <1>4 DEF TypeInv, TypeOK, SenderType
<1> QED
  BY <1>3, <1>4, <1>5, UsersKept DEF TypeInv

LEMMA ProcessCommandUse ==
  ASSUME TypeInv, UseInv, NEW c \in Clients, NEW e \in Endpoints, ProcessCommand(c, e)
  PROVE  UseInv'
<1> DEFINE h == cl[c].reg
<1>1. PICK rg \in {subscribe(Reg(c), e), unsubscribe(Reg(c), e)} : regs' = [regs EXCEPT ![h] = rg]
  BY DEF ProcessCommand, SetReg
<1>2. h \in Handles => Alike(regs[h], rg)
  BY <1>1, RegOf, Subscriptions DEF TypeInv, TypeOK, Reg
<1>3. \A k \in Handles : Alike(regs[k], regs'[k])
  BY <1>1, <1>2, AlikeSet DEF TypeInv
<1> QED
  BY <1>3, UsersKept DEF ProcessCommand, TypeInv

LEMMA RegistrationSaveUse ==
  ASSUME TypeInv, UseInv, NEW c \in Clients, NEW l \in 1..MaxLifetime, RegistrationSave(c, l)
  PROVE  UseInv'
<1> DEFINE h == cl[c].reg
<1>1. l \in Nat
  BY ApiAssumption
<1>2. h \in Handles => Alike(regs[h], setPersistent(Reg(c), l))
  BY <1>1, RegOf, Lifetimes DEF TypeInv, TypeOK, Reg
<1>3. regs' = [regs EXCEPT ![h] = setPersistent(Reg(c), l)]
  BY DEF RegistrationSave, SetReg
<1>4. \A k \in Handles : Alike(regs[k], regs'[k])
  BY <1>2, <1>3, AlikeSet DEF TypeInv
<1> QED
  BY <1>4, UsersKept DEF RegistrationSave, TypeInv

\* The lifetimes run.
LEMMA TickUse ==
  ASSUME TypeInv, UseInv, Tick
  PROVE  UseInv'
<1>1. ASSUME NEW k \in Handles
      PROVE  Alike(regs[k], [regs[k] EXCEPT !.expiry = Max({@ - 1, 0})])
  BY DEF TypeInv, TypeOK, RegistrationType, Alike
<1>2. \A k \in Handles : Alike(regs[k], regs'[k])
  BY <1>1 DEF Tick
<1> QED
  BY <1>2, UsersKept DEF Tick, TypeInv

\* A step of one client that takes no registration: it does not refer to more
\* than before, and the others are not touched.
LEMMA ClientSteps ==
  ASSUME TypeOK, UseInv, NEW c \in Clients, ClientOK(c)',
         \A d \in Clients \ {c} : cl'[d] = cl[d] /\ snd'[d] = snd[d],
         cl'[c].reg = cl[c].reg, cl'[c].next = cl[c].next,
         snd'[c].reg \in {snd[c].reg, NoHandle, cl[c].reg},
         \A k \in Handles : Alike(regs[k], regs'[k])
  PROVE  (\A d \in Clients : ClientOK(d)') /\ UsesOK'
<1>1. \A d \in Clients : Uses(d)' \subseteq Uses(d) /\ Uses(d) \subseteq Handles
  BY UsesType DEF Uses
<1>2. UsesOK'
  BY <1>1, UsesKept DEF UseInv
<1> QED
  BY <1>2, ClientsKept

LEMMA ExtendedEndsUse ==
  ASSUME TypeInv, UseInv, NEW c \in Clients, ExtendedEnds(c)
  PROVE  UseInv'
<1>1. \A d \in Clients \ {c} : cl'[d] = cl[d] /\ snd'[d] = snd[d]
  BY DEF ExtendedEnds, HandlerEnds, TypeInv, TypeOK
<1>2. /\ ClientOK(c)' /\ cl'[c].reg = cl[c].reg /\ cl'[c].next = cl[c].next
      /\ cl'[c].listed = cl[c].listed
      /\ snd'[c].reg \in {snd[c].reg, NoHandle, cl[c].reg}
  <2>1. /\ cl[c].at = "run"
        /\ cl'[c].reg = cl[c].reg /\ cl'[c].next = cl[c].next
        /\ cl'[c].listed = cl[c].listed
        /\ cl'[c].at = "join" /\ cl'[c].proto = cl[c].proto /\ ~cl'[c].bound
    BY DEF ExtendedEnds, HandlerEnds, TypeInv, TypeOK, ClientType
  <2>2. snd'[c] = snd[c]
    BY DEF ExtendedEnds, HandlerEnds, TypeInv, TypeOK, SenderType
  <2>3. ClientOK(c)
    BY DEF UseInv
  <2> QED
    BY <2>1, <2>2, <2>3 DEF ClientOK, NoClient
<1>3. \A k \in Handles : Alike(regs[k], regs'[k])
  <2> DEFINE h == cl[c].reg
             rg == abort(Reg(c))
  <2>1. h \in Handles => Alike(regs[h], rg)
    BY RegOf, Methods DEF TypeInv, TypeOK, Reg
  <2>2. regs' = [regs EXCEPT ![h] = rg]
    BY DEF ExtendedEnds, SetReg
  <2> QED
    BY <2>1, <2>2, AlikeSet DEF TypeInv
<1>4. (\A d \in Clients : ClientOK(d)') /\ UsesOK'
  BY <1>1, <1>2, <1>3, ClientSteps DEF TypeInv
<1>5. EventOK'
  BY <1>1, <1>2 DEF ExtendedEnds, HandlerEnds, UseInv, EventOK, ConnectionLockFree, TypeInv, EventTypeOK
<1>6. TellOK'
  BY <1>1, <1>2 DEF ExtendedEnds, HandlerEnds, UseInv, TellOK, TypeInv, TypeOK, ClientOK, ClientType
<1> QED
  BY <1>4, <1>5, <1>6 DEF UseInv

LEMMA BinaryEndsUse ==
  ASSUME TypeInv, UseInv, NEW c \in Clients, BinaryEnds(c)
  PROVE  UseInv'
<1>1. \A d \in Clients \ {c} : cl'[d] = cl[d] /\ snd'[d] = snd[d]
  BY DEF BinaryEnds, HandlerEnds, TypeInv, TypeOK
<1>2. /\ ClientOK(c)' /\ cl'[c].reg = cl[c].reg /\ cl'[c].next = cl[c].next
      /\ cl'[c].listed = cl[c].listed
      /\ snd'[c].reg \in {snd[c].reg, NoHandle, cl[c].reg}
  <2>1. /\ cl[c].at = "run"
        /\ cl'[c].reg = cl[c].reg /\ cl'[c].next = cl[c].next
        /\ cl'[c].listed = cl[c].listed
        /\ cl'[c].at = "join" /\ cl'[c].proto = cl[c].proto /\ ~cl'[c].bound
    BY DEF BinaryEnds, HandlerEnds, TypeInv, TypeOK, ClientType
  <2>2. snd'[c] = snd[c]
    BY DEF BinaryEnds, HandlerEnds, TypeInv, TypeOK, SenderType
  <2>3. ClientOK(c)
    BY DEF UseInv
  <2> QED
    BY <2>1, <2>2, <2>3 DEF ClientOK, NoClient
<1>3. \A k \in Handles : Alike(regs[k], regs'[k])
  <2> DEFINE h == cl[c].reg
             rg == abort([Reg(c) EXCEPT !.eps = @ \ cl[c].eid])
  <2>1. h \in Handles => Alike(regs[h], rg)
    BY RegOf, Unsubscribed DEF TypeInv, TypeOK, Reg
  <2>2. regs' = [regs EXCEPT ![h] = rg]
    BY DEF BinaryEnds, SetReg
  <2> QED
    BY <2>1, <2>2, AlikeSet DEF TypeInv
<1>4. (\A d \in Clients : ClientOK(d)') /\ UsesOK'
  BY <1>1, <1>2, <1>3, ClientSteps DEF TypeInv
<1>5. EventOK'
  BY <1>1, <1>2 DEF BinaryEnds, HandlerEnds, UseInv, EventOK, ConnectionLockFree, TypeInv, EventTypeOK
<1>6. TellOK'
  BY <1>1, <1>2 DEF BinaryEnds, HandlerEnds, UseInv, TellOK, TypeInv, TypeOK, ClientOK, ClientType
<1> QED
  BY <1>4, <1>5, <1>6 DEF UseInv

LEMMA ManagementEndsUse ==
  ASSUME TypeInv, UseInv, NEW c \in Clients, ManagementEnds(c)
  PROVE  UseInv'
<1>1. \A d \in Clients \ {c} : cl'[d] = cl[d] /\ snd'[d] = snd[d]
  BY DEF ManagementEnds, HandlerEnds, TypeInv, TypeOK
<1>2. /\ ClientOK(c)' /\ cl'[c].reg = cl[c].reg /\ cl'[c].next = cl[c].next
      /\ cl'[c].listed = cl[c].listed
      /\ snd'[c].reg \in {snd[c].reg, NoHandle, cl[c].reg}
  <2>1. /\ cl[c].at = "run"
        /\ cl'[c].reg = cl[c].reg /\ cl'[c].next = cl[c].next
        /\ cl'[c].listed = cl[c].listed
        /\ cl'[c].at = "join" /\ cl'[c].proto = cl[c].proto /\ ~cl'[c].bound
    BY DEF ManagementEnds, HandlerEnds, TypeInv, TypeOK, ClientType
  <2>2. snd'[c] = snd[c]
    BY DEF ManagementEnds, HandlerEnds, TypeInv, TypeOK, SenderType
  <2>3. ClientOK(c)
    BY DEF UseInv
  <2> QED
    BY <2>1, <2>2, <2>3 DEF ClientOK, NoClient
<1>3. \A k \in Handles : Alike(regs[k], regs'[k])
  BY AlikeSame DEF ManagementEnds, HandlerEnds
<1>4. (\A d \in Clients : ClientOK(d)') /\ UsesOK'
  BY <1>1, <1>2, <1>3, ClientSteps DEF TypeInv
<1>5. EventOK'
  BY <1>1, <1>2 DEF ManagementEnds, HandlerEnds, UseInv, EventOK, ConnectionLockFree, TypeInv, EventTypeOK
<1>6. TellOK'
  BY <1>1, <1>2 DEF ManagementEnds, HandlerEnds, UseInv, TellOK, TypeInv, TypeOK, ClientOK, ClientType
<1> QED
  BY <1>4, <1>5, <1>6 DEF UseInv

LEMMA EventEndsProtocolUse ==
  ASSUME TypeInv, UseInv, NEW c \in Clients, EventEndsProtocol(c)
  PROVE  UseInv'
<1>1. \A d \in Clients \ {c} : cl'[d] = cl[d] /\ snd'[d] = snd[d]
  BY DEF EventEndsProtocol, HandlerEnds, TypeInv, TypeOK
<1>2. /\ ClientOK(c)' /\ cl'[c].reg = cl[c].reg /\ cl'[c].next = cl[c].next
      /\ cl'[c].listed = cl[c].listed
      /\ snd'[c].reg \in {snd[c].reg, NoHandle, cl[c].reg}
  <2>1. /\ cl[c].at = "run"
        /\ cl'[c].reg = cl[c].reg /\ cl'[c].next = cl[c].next
        /\ cl'[c].listed = cl[c].listed
        /\ cl'[c].at = "join" /\ cl'[c].proto = cl[c].proto /\ ~cl'[c].bound
    BY DEF EventEndsProtocol, HandlerEnds, TypeInv, TypeOK, ClientType
  <2>2. snd'[c] = snd[c]
    BY DEF EventEndsProtocol, HandlerEnds, TypeInv, TypeOK, SenderType
  <2>3. ClientOK(c)
    BY DEF UseInv
  <2> QED
    BY <2>1, <2>2, <2>3 DEF ClientOK, NoClient
<1>3. \A k \in Handles : Alike(regs[k], regs'[k])
  BY AlikeSame DEF EventEndsProtocol, HandlerEnds
<1>4. (\A d \in Clients : ClientOK(d)') /\ UsesOK'
  BY <1>1, <1>2, <1>3, ClientSteps DEF TypeInv
<1>5. EventOK'
  BY <1>1, <1>2 DEF EventEndsProtocol, HandlerEnds, UseInv, EventOK, ConnectionLockFree, TypeInv, EventTypeOK
<1>6. TellOK'
  BY <1>1, <1>2 DEF EventEndsProtocol, HandlerEnds, UseInv, TellOK, TypeInv, TypeOK, ClientOK, ClientType
<1> QED
  BY <1>4, <1>5, <1>6 DEF UseInv

LEMMA HandlerJoinsUse ==
  ASSUME TypeInv, UseInv, NEW c \in Clients, HandlerJoins(c)
  PROVE  UseInv'
<1>1. \A d \in Clients \ {c} : cl'[d] = cl[d] /\ snd'[d] = snd[d]
  BY DEF HandlerJoins, TypeInv, TypeOK
<1>2. /\ ClientOK(c)' /\ cl'[c].reg = cl[c].reg /\ cl'[c].next = cl[c].next
      /\ cl'[c].listed = cl[c].listed
      /\ snd'[c].reg \in {snd[c].reg, NoHandle, cl[c].reg}
  <2>1. /\ cl[c].at = "join"
        /\ cl'[c].reg = cl[c].reg /\ cl'[c].next = cl[c].next
        /\ cl'[c].listed = cl[c].listed
        /\ cl'[c].at = "idle" /\ cl'[c].bound = cl[c].bound
    BY DEF HandlerJoins, TypeInv, TypeOK, ClientType
  <2>2. snd'[c] = snd[c] /\ snd[c].pc = "off"
    BY DEF HandlerJoins, TypeInv, TypeOK, SenderType
  <2>3. ClientOK(c)
    BY DEF UseInv
  <2> QED
    BY <2>1, <2>2, <2>3 DEF ClientOK, NoClient
<1>3. \A k \in Handles : Alike(regs[k], regs'[k])
  BY AlikeSame DEF HandlerJoins
<1>4. (\A d \in Clients : ClientOK(d)') /\ UsesOK'
  BY <1>1, <1>2, <1>3, ClientSteps DEF TypeInv
<1>5. EventOK'
  BY <1>1, <1>2 DEF HandlerJoins, UseInv, EventOK, ConnectionLockFree, TypeInv, EventTypeOK
<1>6. TellOK'
  BY <1>1, <1>2 DEF HandlerJoins, UseInv, TellOK, TypeInv, TypeOK, ClientOK, ClientType
<1> QED
  BY <1>4, <1>5, <1>6 DEF UseInv

LEMMA ConnectionDownUse ==
  ASSUME TypeInv, UseInv, NEW c \in Clients, ConnectionDown(c)
  PROVE  UseInv'
<1>1. \A d \in Clients \ {c} : cl'[d] = cl[d] /\ snd'[d] = snd[d]
  BY DEF ConnectionDown, ConnectionLockFree, TypeInv, TypeOK
<1>2. /\ ClientOK(c)' /\ cl'[c].reg = cl[c].reg /\ cl'[c].next = cl[c].next
      /\ cl'[c].listed = FALSE
      /\ snd'[c].reg \in {snd[c].reg, NoHandle, cl[c].reg}
  <2>1. /\ cl[c].at = "idle"
        /\ cl'[c].reg = cl[c].reg /\ cl'[c].next = cl[c].next
        /\ cl'[c].listed = FALSE
        /\ cl'[c].at = "free" /\ cl'[c].bound = cl[c].bound
    BY DEF ConnectionDown, ConnectionLockFree, TypeInv, TypeOK, ClientType
  <2>2. snd'[c] = snd[c]
    BY DEF ConnectionDown, ConnectionLockFree, TypeInv, TypeOK, SenderType
  <2>3. ClientOK(c)
    BY DEF UseInv
  <2> QED
    BY <2>1, <2>2, <2>3 DEF ClientOK, NoClient
<1>3. \A k \in Handles : Alike(regs[k], regs'[k])
  BY AlikeSame DEF ConnectionDown, ConnectionLockFree
<1>4. (\A d \in Clients : ClientOK(d)') /\ UsesOK'
  BY <1>1, <1>2, <1>3, ClientSteps DEF TypeInv
<1>5. EventOK'
  BY <1>1, <1>2 DEF ConnectionDown, ConnectionLockFree, UseInv, EventOK, ConnectionLockFree, TypeInv, EventTypeOK
<1>6. TellOK'
  BY <1>1, <1>2 DEF ConnectionDown, ConnectionLockFree, UseInv, TellOK, TypeInv, TypeOK, ClientOK, ClientType
<1> QED
  BY <1>4, <1>5, <1>6 DEF UseInv

LEMMA CloseUse ==
  ASSUME TypeInv, UseInv, NEW c \in Clients, Close(c)
  PROVE  UseInv'
<1>1. \A d \in Clients \ {c} : cl'[d] = cl[d] /\ snd'[d] = snd[d]
  BY DEF Close, TypeInv, TypeOK
<1>2. /\ ClientOK(c)' /\ cl'[c].reg = cl[c].reg /\ cl'[c].next = cl[c].next
      /\ cl'[c].listed = cl[c].listed
      /\ snd'[c].reg \in {snd[c].reg, NoHandle, cl[c].reg}
  BY DEF Close, TypeInv, TypeOK, ClientType, SenderType, UseInv, ClientOK, Extended, NoClient
<1>3. \A k \in Handles : Alike(regs[k], regs'[k])
  BY AlikeSame DEF Close
<1>4. (\A d \in Clients : ClientOK(d)') /\ UsesOK'
  BY <1>1, <1>2, <1>3, ClientSteps DEF TypeInv
<1>5. EventOK'
  BY <1>1, <1>2 DEF Close, UseInv, EventOK, ConnectionLockFree, TypeInv, EventTypeOK
<1>6. TellOK'
  BY <1>1, <1>2 DEF Close, UseInv, TellOK, TypeInv, TypeOK, ClientOK, ClientType
<1> QED
  BY <1>4, <1>5, <1>6 DEF UseInv

LEMMA ProtocolExtendedUse ==
  ASSUME TypeInv, UseInv, NEW c \in Clients, ProtocolExtended(c)
  PROVE  UseInv'
<1>1. \A d \in Clients \ {c} : cl'[d] = cl[d] /\ snd'[d] = snd[d]
  BY DEF ProtocolExtended, Protocol, TypeInv, TypeOK
<1>2. /\ ClientOK(c)' /\ cl'[c].reg = cl[c].reg /\ cl'[c].next = cl[c].next
      /\ cl'[c].listed = cl[c].listed
      /\ snd'[c].reg \in {snd[c].reg, NoHandle, cl[c].reg}
  <2>1. /\ cl[c].at = "idle"
        /\ cl'[c].reg = cl[c].reg /\ cl'[c].next = cl[c].next
        /\ cl'[c].listed = cl[c].listed
        /\ cl'[c].at = "run" /\ cl'[c].proto = "extended" /\ cl'[c].bound = FALSE
    BY DEF ProtocolExtended, Protocol, TypeInv, TypeOK, ClientType
  <2>2. snd'[c].pc = "loop" /\ snd'[c].reg = cl[c].reg
    BY DEF ProtocolExtended, Protocol, TypeInv, TypeOK, SenderType
  <2>3. ClientOK(c)
    BY DEF UseInv
  <2> QED
    BY <2>1, <2>2, <2>3 DEF ClientOK, NoClient
<1>3. \A k \in Handles : Alike(regs[k], regs'[k])
  BY AlikeSame DEF ProtocolExtended, Protocol
<1>4. (\A d \in Clients : ClientOK(d)') /\ UsesOK'
  BY <1>1, <1>2, <1>3, ClientSteps DEF TypeInv
<1>5. EventOK'
  BY <1>1, <1>2 DEF ProtocolExtended, Protocol, UseInv, EventOK, ConnectionLockFree, TypeInv, EventTypeOK
<1>6. TellOK'
  BY <1>1, <1>2 DEF ProtocolExtended, Protocol, UseInv, TellOK, TypeInv, TypeOK, ClientOK, ClientType
<1> QED
  BY <1>4, <1>5, <1>6 DEF UseInv

LEMMA ProtocolEventUse ==
  ASSUME TypeInv, UseInv, NEW c \in Clients, ProtocolEvent(c)
  PROVE  UseInv'
<1>1. \A d \in Clients \ {c} : cl'[d] = cl[d] /\ snd'[d] = snd[d]
  BY DEF ProtocolEvent, Protocol, TypeInv, TypeOK
<1>2. /\ ClientOK(c)' /\ cl'[c].reg = cl[c].reg /\ cl'[c].next = cl[c].next
      /\ cl'[c].listed = cl[c].listed
      /\ snd'[c].reg \in {snd[c].reg, NoHandle, cl[c].reg}
  <2>1. /\ cl[c].at = "idle"
        /\ cl'[c].reg = cl[c].reg /\ cl'[c].next = cl[c].next
        /\ cl'[c].listed = cl[c].listed
        /\ cl'[c].at = "run" /\ cl'[c].proto = "event" /\ cl'[c].bound = TRUE
    BY DEF ProtocolEvent, Protocol, TypeInv, TypeOK, ClientType
  <2>2. snd'[c] = snd[c]
    BY DEF ProtocolEvent, Protocol, TypeInv, TypeOK, SenderType
  <2>3. ClientOK(c)
    BY DEF UseInv
  <2> QED
    BY <2>1, <2>2, <2>3 DEF ClientOK, NoClient
<1>3. \A k \in Handles : Alike(regs[k], regs'[k])
  BY AlikeSame DEF ProtocolEvent, Protocol
<1>4. (\A d \in Clients : ClientOK(d)') /\ UsesOK'
  BY <1>1, <1>2, <1>3, ClientSteps DEF TypeInv
<1>5. EventOK'
  BY <1>1, <1>2 DEF ProtocolEvent, Protocol, UseInv, EventOK, ConnectionLockFree, TypeInv, EventTypeOK
<1>6. TellOK'
  BY <1>1, <1>2 DEF ProtocolEvent, Protocol, UseInv, TellOK, TypeInv, TypeOK, ClientOK, ClientType
<1> QED
  BY <1>4, <1>5, <1>6 DEF UseInv

LEMMA ProtocolManagementUse ==
  ASSUME TypeInv, UseInv, NEW c \in Clients, ProtocolManagement(c)
  PROVE  UseInv'
<1>1. \A d \in Clients \ {c} : cl'[d] = cl[d] /\ snd'[d] = snd[d]
  BY DEF ProtocolManagement, Protocol, TypeInv, TypeOK
<1>2. /\ ClientOK(c)' /\ cl'[c].reg = cl[c].reg /\ cl'[c].next = cl[c].next
      /\ cl'[c].listed = cl[c].listed
      /\ snd'[c].reg \in {snd[c].reg, NoHandle, cl[c].reg}
  <2>1. /\ cl[c].at = "idle"
        /\ cl'[c].reg = cl[c].reg /\ cl'[c].next = cl[c].next
        /\ cl'[c].listed = cl[c].listed
        /\ cl'[c].at = "run" /\ cl'[c].proto = "management" /\ cl'[c].bound = FALSE
    BY DEF ProtocolManagement, Protocol, TypeInv, TypeOK, ClientType
  <2>2. snd'[c] = snd[c]
    BY DEF ProtocolManagement, Protocol, TypeInv, TypeOK, SenderType
  <2>3. ClientOK(c)
    BY DEF UseInv
  <2> QED
    BY <2>1, <2>2, <2>3 DEF ClientOK, NoClient
<1>3. \A k \in Handles : Alike(regs[k], regs'[k])
  BY AlikeSame DEF ProtocolManagement, Protocol
<1>4. (\A d \in Clients : ClientOK(d)') /\ UsesOK'
  BY <1>1, <1>2, <1>3, ClientSteps DEF TypeInv
<1>5. EventOK'
  BY <1>1, <1>2 DEF ProtocolManagement, Protocol, UseInv, EventOK, ConnectionLockFree, TypeInv, EventTypeOK
<1>6. TellOK'
  BY <1>1, <1>2 DEF ProtocolManagement, Protocol, UseInv, TellOK, TypeInv, TypeOK, ClientOK, ClientType
<1> QED
  BY <1>4, <1>5, <1>6 DEF UseInv

LEMMA ProtocolBinaryUse ==
  ASSUME TypeInv, UseInv, NEW c \in Clients, NEW e \in Endpoints, ProtocolBinary(c, e)
  PROVE  UseInv'
<1>1. \A d \in Clients \ {c} : cl'[d] = cl[d] /\ snd'[d] = snd[d]
  BY DEF ProtocolBinary, Protocol, TypeInv, TypeOK
<1>2. /\ ClientOK(c)' /\ cl'[c].reg = cl[c].reg /\ cl'[c].next = cl[c].next
      /\ cl'[c].listed = cl[c].listed
      /\ snd'[c].reg \in {snd[c].reg, NoHandle, cl[c].reg}
  <2>1. /\ cl[c].at = "idle"
        /\ cl'[c].reg = cl[c].reg /\ cl'[c].next = cl[c].next
        /\ cl'[c].listed = cl[c].listed
        /\ cl'[c].at = "run" /\ cl'[c].proto = "tcpcl" /\ cl'[c].bound = FALSE
    BY DEF ProtocolBinary, Protocol, TypeInv, TypeOK, ClientType
  <2>2. snd'[c].pc = "loop" /\ snd'[c].reg = cl[c].reg
    BY DEF ProtocolBinary, Protocol, TypeInv, TypeOK, SenderType
  <2>3. ClientOK(c)
    BY DEF UseInv
  <2> QED
    BY <2>1, <2>2, <2>3 DEF ClientOK, NoClient
<1>3. \A k \in Handles : Alike(regs[k], regs'[k])
  <2> DEFINE h == cl[c].reg
             rg == subscribe(Reg(c), e)
  <2>1. h \in Handles => Alike(regs[h], rg)
    BY RegOf, Subscriptions DEF TypeInv, TypeOK, Reg
  <2>2. regs' = [regs EXCEPT ![h] = rg]
    BY DEF ProtocolBinary, SetReg
  <2> QED
    BY <2>1, <2>2, AlikeSet DEF TypeInv
<1>4. (\A d \in Clients : ClientOK(d)') /\ UsesOK'
  BY <1>1, <1>2, <1>3, ClientSteps DEF TypeInv
<1>5. EventOK'
  BY <1>1, <1>2 DEF ProtocolBinary, Protocol, UseInv, EventOK, ConnectionLockFree, TypeInv, EventTypeOK
<1>6. TellOK'
  BY <1>1, <1>2 DEF ProtocolBinary, Protocol, UseInv, TellOK, TypeInv, TypeOK, ClientOK, ClientType
<1> QED
  BY <1>4, <1>5, <1>6 DEF UseInv

LEMMA BundleLoadUse ==
  ASSUME TypeInv, UseInv, NEW c \in Clients, NEW b \in Bundles, BundleLoad(c, b)
  PROVE  UseInv'
<1>1. \A d \in Clients \ {c} : cl'[d] = cl[d] /\ snd'[d] = snd[d]
  BY DEF BundleLoad, TypeInv, TypeOK
<1>2. /\ ClientOK(c)' /\ cl'[c].reg = cl[c].reg /\ cl'[c].next = cl[c].next
      /\ cl'[c].listed = cl[c].listed
      /\ snd'[c].reg \in {snd[c].reg, NoHandle, cl[c].reg}
  BY DEF BundleLoad, TypeInv, TypeOK, ClientType, SenderType, UseInv, ClientOK, Extended, NoClient
<1>3. \A k \in Handles : Alike(regs[k], regs'[k])
  BY AlikeSame DEF BundleLoad
<1>4. (\A d \in Clients : ClientOK(d)') /\ UsesOK'
  BY <1>1, <1>2, <1>3, ClientSteps DEF TypeInv
<1>5. EventOK'
  BY <1>1, <1>2 DEF BundleLoad, UseInv, EventOK, ConnectionLockFree, TypeInv, EventTypeOK
<1>6. TellOK'
  BY <1>1, <1>2 DEF BundleLoad, UseInv, TellOK, TypeInv, TypeOK, ClientOK, ClientType
<1> QED
  BY <1>4, <1>5, <1>6 DEF UseInv

LEMMA BundleClearUse ==
  ASSUME TypeInv, UseInv, NEW c \in Clients, BundleClear(c)
  PROVE  UseInv'
<1>1. \A d \in Clients \ {c} : cl'[d] = cl[d] /\ snd'[d] = snd[d]
  BY DEF BundleClear, TypeInv, TypeOK
<1>2. /\ ClientOK(c)' /\ cl'[c].reg = cl[c].reg /\ cl'[c].next = cl[c].next
      /\ cl'[c].listed = cl[c].listed
      /\ snd'[c].reg \in {snd[c].reg, NoHandle, cl[c].reg}
  BY DEF BundleClear, TypeInv, TypeOK, ClientType, SenderType, UseInv, ClientOK, Extended, NoClient
<1>3. \A k \in Handles : Alike(regs[k], regs'[k])
  BY AlikeSame DEF BundleClear
<1>4. (\A d \in Clients : ClientOK(d)') /\ UsesOK'
  BY <1>1, <1>2, <1>3, ClientSteps DEF TypeInv
<1>5. EventOK'
  BY <1>1, <1>2 DEF BundleClear, UseInv, EventOK, ConnectionLockFree, TypeInv, EventTypeOK
<1>6. TellOK'
  BY <1>1, <1>2 DEF BundleClear, UseInv, TellOK, TypeInv, TypeOK, ClientOK, ClientType
<1> QED
  BY <1>4, <1>5, <1>6 DEF UseInv

LEMMA SenderEndsUse ==
  ASSUME TypeInv, UseInv, NEW c \in Clients, SenderEnds(c)
  PROVE  UseInv'
<1>1. \A d \in Clients \ {c} : cl'[d] = cl[d] /\ snd'[d] = snd[d]
  BY DEF SenderEnds, NoSender, TypeInv, TypeOK
<1>2. /\ ClientOK(c)' /\ cl'[c].reg = cl[c].reg /\ cl'[c].next = cl[c].next
      /\ cl'[c].listed = cl[c].listed
      /\ snd'[c].reg \in {snd[c].reg, NoHandle, cl[c].reg}
  BY DEF SenderEnds, NoSender, TypeInv, TypeOK, ClientType, SenderType, UseInv, ClientOK, Extended, NoClient
<1>3. \A k \in Handles : Alike(regs[k], regs'[k])
  <2>1. cl[c].reg \in Handles => Alike(Reg(c), abort(Reg(c)))
    BY RegOf, Methods DEF TypeInv
  <2> QED
    BY <2>1, AlikeSet, AlikeSame DEF SenderEnds, TypeInv, Reg
<1>4. (\A d \in Clients : ClientOK(d)') /\ UsesOK'
  BY <1>1, <1>2, <1>3, ClientSteps DEF TypeInv
<1>5. EventOK'
  BY <1>1, <1>2 DEF SenderEnds, NoSender, UseInv, EventOK, ConnectionLockFree, TypeInv, EventTypeOK
<1>6. TellOK'
  BY <1>1, <1>2 DEF SenderEnds, NoSender, UseInv, TellOK, TypeInv, TypeOK, ClientOK, ClientType
<1> QED
  BY <1>4, <1>5, <1>6 DEF UseInv

\* The events of raiseEvent() and of the event handlers.
LEMMA EventSteps ==
  ASSUME TypeInv, UseInv, UNCHANGED <<cl, snd>>,
         \A k \in Handles : Alike(regs[k], regs'[k])
  PROVE  (\A c \in Clients : ClientOK(c)') /\ UsesOK'
<1>1. \A c \in Clients : ClientOK(c)' /\ Uses(c)' = Uses(c)
  BY DEF UseInv, ClientOK, Uses
<1>2. UsesOK'
  BY <1>1, UsesType, UsesKept DEF UseInv, TypeInv
<1> QED
  BY <1>1, <1>2

LEMMA EventShownUse ==
  ASSUME TypeInv, UseInv, NEW c \in Clients, NEW b \in Bundles, EventShown(c, b)
  PROVE  UseInv'
<1>1. (\A d \in Clients : ClientOK(d)') /\ UsesOK'
  BY AlikeSame, EventSteps DEF EventShown
<1> QED
  BY <1>1 DEF EventShown, UseInv, EventOK, TellOK

LEMMA BundleArrivesUse ==
  ASSUME TypeInv, UseInv, NEW b \in Bundles, BundleArrives(b)
  PROVE  UseInv'
<1>1. (\A d \in Clients : ClientOK(d)') /\ UsesOK'
  BY AlikeSame, EventSteps DEF BundleArrives
<1> QED
  BY <1>1 DEF BundleArrives, UseInv, EventOK, TellOK

LEMMA EventStartsUse ==
  ASSUME TypeInv, UseInv, NEW b \in Bundles, EventStarts(b)
  PROVE  UseInv'
<1>1. (\A d \in Clients : ClientOK(d)') /\ UsesOK'
  BY AlikeSame, EventSteps DEF EventStarts
<1> QED
  BY <1>1 DEF EventStarts, NoEvent, UseInv, EventOK, TellOK

LEMMA EventLooksUse ==
  ASSUME TypeInv, UseInv, NEW c \in Clients, EventLooks(c)
  PROVE  UseInv'
<1>1. (\A d \in Clients : ClientOK(d)') /\ UsesOK'
  BY AlikeSame, EventSteps DEF EventLooks
<1>2. /\ evt.active /\ cl[c].listed
      /\ evt'.active = evt.active /\ evt'.todo \subseteq evt.todo /\ evt'.ref = cl[c].reg
  BY DEF EventLooks, UseInv, EventOK, TypeInv, EventTypeOK
<1>3. EventOK'
  BY <1>2 DEF EventLooks, UseInv, EventOK
<1> QED
  BY <1>1, <1>3 DEF EventLooks, UseInv, TellOK

LEMMA EventNotifiesUse ==
  ASSUME TypeInv, UseInv, EventNotifies
  PROVE  UseInv'
<1>1. \A k \in Handles : Alike(regs[k], regs'[k])
  <2>1. evt.ref \in Handles => Alike(regs[evt.ref], Notify(regs[evt.ref]))
    BY Methods DEF TypeInv, TypeOK
  <2> QED
    BY <2>1, AlikeSet, AlikeSame DEF EventNotifies, TypeInv
<1>2. (\A d \in Clients : ClientOK(d)') /\ UsesOK'
  BY <1>1, EventSteps DEF EventNotifies
<1>3. evt'.active = evt.active /\ evt'.todo = evt.todo /\ evt'.ref = NoHandle
  BY DEF EventNotifies, TypeInv, EventTypeOK
<1> QED
  BY <1>2, <1>3 DEF EventNotifies, UseInv, EventOK, TellOK

LEMMA EventEndsUse ==
  ASSUME TypeInv, UseInv, EventEnds
  PROVE  UseInv'
<1>1. (\A d \in Clients : ClientOK(d)') /\ UsesOK'
  BY AlikeSame, EventSteps DEF EventEnds
<1> QED
  BY <1>1 DEF EventEnds, NoEvent, UseInv, EventOK, TellOK

\* The collector releases what nobody uses.
LEMMA TimeoutUse ==
  ASSUME TypeInv, UseInv, Timeout
  PROVE  UseInv'
<1>1. \A c \in Clients : ClientOK(c)' /\ Uses(c)' = Uses(c)
  BY DEF Timeout, UseInv, ClientOK, Uses
<1>2. \A k \in Handles : (\E c \in Clients : k \in Uses(c)') => Alike(regs[k], regs'[k])
  <2> SUFFICES ASSUME NEW k \in Handles, NEW c \in Clients, k \in Uses(c)
               PROVE  Alike(regs[k], regs'[k])
    BY <1>1
  <2>1. ~regs[k].detached
    BY DEF UseInv, UsesOK
  <2> QED
    BY <2>1 DEF Timeout, attachable, Alike
<1>3. UsesOK'
  BY <1>1, <1>2, UsesType, UsesKept DEF UseInv, TypeInv, Timeout
<1> QED
  BY <1>1, <1>3 DEF Timeout, UseInv, EventOK, TellOK

\* Every client on the list is stopped.
LEMMA ComponentDownUse ==
  ASSUME TypeInv, UseInv, ComponentDown
  PROVE  UseInv'
<1>1. ASSUME NEW c \in Clients
      PROVE  /\ cl'[c].at = cl[c].at /\ cl'[c].reg = cl[c].reg /\ cl'[c].next = cl[c].next
             /\ cl'[c].listed = cl[c].listed /\ cl'[c].bound = cl[c].bound
             /\ cl'[c].proto = cl[c].proto
             /\ ~cl[c].listed => cl'[c] = cl[c]
  BY DEF ComponentDown, TypeInv, TypeOK, ClientType
<1>2. snd' = snd /\ regs' = regs
  BY DEF ComponentDown
<1>3. \A c \in Clients : ClientOK(c)' /\ Uses(c)' = Uses(c)
  BY <1>1, <1>2 DEF UseInv, ClientOK, Uses
<1>4. UsesOK'
  BY <1>1, <1>2, <1>3, AlikeSame, UsesType, UsesKept DEF UseInv, TypeInv
<1>5. EventOK'
  BY <1>1 DEF ComponentDown, UseInv, EventOK, TypeInv, EventTypeOK
<1>6. TellOK'
  BY <1>1 DEF ComponentDown, UseInv, TellOK, TypeInv, TypeOK
<1> QED
  BY <1>3, <1>4, <1>5, <1>6 DEF UseInv

\* A client that connects gets a registration nobody has.
LEMMA AcceptUse ==
  ASSUME TypeInv, UseInv, NEW c \in Clients, Accept(c)
  PROVE  UseInv'
<1> DEFINE x(h) == [NoClient EXCEPT !.at = "idle", !.reg = h, !.good = TRUE, !.listed = TRUE]
<1>1. PICK h \in Handles : /\ ~regs[h].live
                           /\ regs' = [regs EXCEPT ![h] = NewRegistration]
                           /\ cl' = [cl EXCEPT ![c] = x(h)]
  BY DEF Accept, SetReg
<1>2. /\ cl[c].at = "off" /\ ~evt.active /\ UNCHANGED <<snd, evt, tell>>
      /\ cl[c] = NoClient /\ snd[c].pc = "off" /\ snd[c].reg = NoHandle
  BY DEF Accept, ConnectionLockFree, UseInv, ClientOK
<1>3. \A d \in Clients \ {c} : cl'[d] = cl[d] /\ snd'[d] = snd[d]
  BY <1>1, <1>2 DEF TypeInv, TypeOK
<1>4. cl'[c] = x(h) /\ h # NoHandle
  BY <1>1, NoHandleIsNone DEF TypeInv, TypeOK
<1>5. ClientOK(c)' /\ Uses(c)' = {h}
  BY <1>2, <1>4 DEF ClientOK, Uses, NoClient
<1>6. \A d \in Clients : ClientOK(d)'
  BY <1>3, <1>5, ClientsKept
<1>7. \A d \in Clients \ {c} : Uses(d)' = Uses(d) /\ h \notin Uses(d) /\ Uses(d) \subseteq Handles
  BY <1>1, <1>3, UsesType DEF Uses, UseInv, UsesOK, TypeInv
<1>8. UsesOK'
  <2>1. ASSUME NEW d \in Clients, NEW k \in Uses(d)'
        PROVE  regs'[k].live /\ ~regs'[k].detached
    <3>1. CASE d = c
      BY <3>1, <1>1, <1>5, NewOnes DEF TypeInv, TypeOK
    <3>2. CASE d # c
      BY <3>2, <1>1, <1>7 DEF UseInv, UsesOK, TypeInv, TypeOK
    <3> QED
      BY <3>1, <3>2
  <2>2. \A d \in Clients : cl'[d].next # NoHandle => cl'[d].next # cl'[d].reg
    BY <1>3, <1>4 DEF UseInv, UsesOK, NoClient
  <2>3. \A d, e \in Clients : d # e => Uses(d)' \cap Uses(e)' = {}
    BY <1>5, <1>7 DEF UseInv, UsesOK
  <2> QED
    BY <2>1, <2>2, <2>3 DEF UsesOK
<1>9. EventOK'
  BY <1>2 DEF UseInv, EventOK
<1>10. TellOK'
  <2>1. \A t \in tell : t[1] \in Clients /\ cl[t[1]].bound
    BY DEF UseInv, TellOK, TypeInv, TypeOK
  <2>2. ~cl[c].bound
    BY <1>2 DEF NoClient
  <2>3. \A t \in tell : cl'[t[1]] = cl[t[1]]
    BY <2>1, <2>2, <1>3
  <2> QED
    BY <1>2, <2>1, <2>3 DEF TellOK
<1> QED
  BY <1>6, <1>8, <1>9, <1>10 DEF UseInv

\* A registration that is detached has no user, and gets one.
LEMMA RegistrationLoadUse ==
  ASSUME TypeInv, UseInv, NEW c \in Clients, NEW h \in Handles, RegistrationLoad(c, h)
  PROVE  UseInv'
<1> DEFINE r1 == [regs EXCEPT ![h] = attach(regs[h])]
           j == cl[c].reg
<1>1. /\ cl[c].at = "run" /\ cl[c].proto = "extended" /\ ~cl[c].bound
      /\ regs[h].live /\ regs[h].detached /\ UNCHANGED <<snd, evt, tell>>
  BY DEF RegistrationLoad, Extended, attachable, UseInv, ClientOK
<1>2. \A d \in Clients : h \notin Uses(d)
  BY <1>1 DEF UseInv, UsesOK
<1>3. j \in Handles /\ j \in Uses(c) /\ j # h /\ h # NoHandle
  BY <1>1, <1>2, RegOf, NoHandleIsNone DEF UseInv, ClientOK, Uses, TypeInv
<1>4. /\ regs'[h].live /\ ~regs'[h].detached
      /\ \A k \in Handles \ {h} : Alike(regs[k], regs'[k])
  <2>1. regs' = [r1 EXCEPT ![j] = abort(r1[j])]
    BY DEF RegistrationLoad
  <2>2. r1 \in [Handles -> RegistrationType]
    BY SetRegType, Methods DEF TypeInv, TypeOK
  <2>3. regs'[h] = attach(regs[h]) /\ regs'[j] = abort(regs[j])
        /\ \A k \in Handles \ {h, j} : regs'[k] = regs[k]
    BY <1>3, <2>1 DEF TypeInv, TypeOK
  <2>4. regs[h] \in RegistrationType /\ regs[j] \in RegistrationType
    BY <1>3 DEF TypeInv, TypeOK
  <2>5. regs'[h].live /\ ~regs'[h].detached
    BY <1>1, <2>3, <2>4, Methods
  <2>6. Alike(regs[j], regs'[j])
    BY <2>3, <2>4, Methods
  <2>7. \A k \in Handles \ {h, j} : Alike(regs[k], regs'[k])
    BY <2>3 DEF Alike
  <2> QED
    BY <2>5, <2>6, <2>7
<1>5. \A d \in Clients \ {c} : cl'[d] = cl[d]
  BY DEF RegistrationLoad, TypeInv, TypeOK
<1>6. /\ cl'[c].at = "load" /\ cl'[c].next = h /\ cl'[c].reg = j
      /\ cl'[c].listed = cl[c].listed /\ ~cl'[c].bound /\ snd'[c] = snd[c]
  BY <1>1 DEF RegistrationLoad, TypeInv, TypeOK, ClientType
<1>7. ClientOK(c)'
  <2>1. ClientOK(c)
    BY DEF UseInv
  <2> QED
    BY <1>1, <1>3, <1>6, <2>1 DEF ClientOK
<1>8. \A d \in Clients : ClientOK(d)'
  BY <1>1, <1>5, <1>7, ClientsKept
<1>9. /\ Uses(c)' \subseteq Uses(c) \cup {h}
      /\ \A d \in Clients \ {c} : Uses(d)' = Uses(d)
      /\ \A d \in Clients : Uses(d) \subseteq Handles
  BY <1>1, <1>5, <1>6, UsesType DEF Uses, TypeInv
<1>10. UsesOK'
  <2>1. ASSUME NEW d \in Clients, NEW k \in Uses(d)'
        PROVE  regs'[k].live /\ ~regs'[k].detached
    BY <1>4, <1>9 DEF UseInv, UsesOK, Alike
  <2>2. \A d \in Clients : cl'[d].next # NoHandle => cl'[d].next # cl'[d].reg
    BY <1>3, <1>5, <1>6 DEF UseInv, UsesOK
  <2>3. \A d, e \in Clients : d # e => Uses(d)' \cap Uses(e)' = {}
    BY <1>2, <1>9 DEF UseInv, UsesOK
  <2> QED
    BY <2>1, <2>2, <2>3 DEF UsesOK
<1>11. EventOK'
  BY <1>1, <1>5, <1>6 DEF UseInv, EventOK, TypeInv, EventTypeOK
<1>12. TellOK'
  BY <1>1, <1>5, <1>6 DEF UseInv, TellOK, TypeInv, TypeOK
<1> QED
  BY <1>8, <1>10, <1>11, <1>12 DEF UseInv

\* What freeRegistration() does to the other registrations.
LEMMA FreeOne ==
  ASSUME TypeInv, NEW h, freeRegistration(h)
  PROVE  \A k \in Handles \ {h} : regs'[k] = regs[k]
  BY DEF freeRegistration, TypeInv, TypeOK

\* The thread of a client that is not on the list any more releases its
\* registration: raiseEvent() does not refer to it.
LEMMA ClientEndsUse ==
  ASSUME TypeInv, UseInv, NEW c \in Clients, ClientEnds(c)
  PROVE  UseInv'
<1> DEFINE j == cl[c].reg
<1>1. /\ cl[c].at = "free" /\ ~cl[c].listed /\ ~cl[c].bound /\ snd[c].pc = "off"
      /\ snd[c].reg = NoHandle /\ UNCHANGED <<snd, evt, tell>>
  BY DEF ClientEnds, UseInv, ClientOK
<1>2. cl'[c] = NoClient /\ \A d \in Clients \ {c} : cl'[d] = cl[d]
  BY DEF ClientEnds, TypeInv, TypeOK
<1>3. ClientOK(c)' /\ Uses(c)' = {}
  BY <1>1, <1>2 DEF ClientOK, Uses, NoClient
<1>4. \A d \in Clients : ClientOK(d)'
  BY <1>1, <1>2, <1>3, ClientsKept
<1>5. \A d \in Clients \ {c} : Uses(d)' = Uses(d) /\ j \notin Uses(d)
  <2>1. j \in Uses(c)
    BY <1>1 DEF UseInv, ClientOK, Uses
  <2> QED
    BY <1>1, <1>2, <2>1 DEF Uses, UseInv, UsesOK
<1>6. UsesOK'
  <2>1. \A d \in Clients : Uses(d)' \subseteq Uses(d) /\ Uses(d) \subseteq Handles
    BY <1>3, <1>5, UsesType DEF TypeInv
  <2>2. \A k \in Handles : (\E d \in Clients : k \in Uses(d)') => Alike(regs[k], regs'[k])
    BY <1>3, <1>5, FreeOne DEF ClientEnds, Alike
  <2>3. \A d \in Clients : cl'[d].next # NoHandle =>
           cl'[d].next = cl[d].next /\ cl'[d].reg = cl[d].reg
    BY <1>2 DEF NoClient
  <2> QED
    BY <2>1, <2>2, <2>3, UsesKept DEF UseInv
<1>7. EventOK'
  BY <1>1, <1>2 DEF UseInv, EventOK, TypeInv, EventTypeOK
<1>8. TellOK'
  BY <1>1, <1>2 DEF UseInv, TellOK, TypeInv, TypeOK
<1> QED
  BY <1>4, <1>6, <1>7, <1>8 DEF UseInv

\* The old registration of a client is released; raiseEvent() may refer to it.
LEMMA RegistrationSwitchUse ==
  ASSUME TypeInv, UseInv, NEW c \in Clients, RegistrationSwitch(c)
  PROVE  UseInv'
<1> DEFINE j == cl[c].reg
           n == cl[c].next
<1>1. /\ cl[c].at = "load" /\ n # NoHandle /\ n # j /\ ~cl[c].bound /\ j \in Uses(c)
      /\ n \in Uses(c) /\ tell' = tell
  BY DEF RegistrationSwitch, UseInv, ClientOK, UsesOK, Uses
<1>2. \A d \in Clients \ {c} : cl'[d] = cl[d] /\ snd'[d] = snd[d]
  BY DEF RegistrationSwitch, TypeInv, TypeOK
<1>3. /\ cl'[c].at = "run" /\ cl'[c].reg = n /\ cl'[c].next = NoHandle
      /\ cl'[c].listed = cl[c].listed /\ ~cl'[c].bound
      /\ snd'[c].pc = "loop" /\ snd'[c].reg = n
  BY <1>1 DEF RegistrationSwitch, TypeInv, TypeOK, ClientType, SenderType
<1>4. ClientOK(c)' /\ Uses(c)' = {n}
  BY <1>1, <1>3 DEF ClientOK, Uses
<1>5. \A d \in Clients : ClientOK(d)'
  BY <1>2, <1>4, ClientsKept
<1>6. \A d \in Clients \ {c} : Uses(d)' = Uses(d) /\ j \notin Uses(d)
  BY <1>1, <1>2 DEF Uses, UseInv, UsesOK
<1>7. UsesOK'
  <2>1. \A d \in Clients : Uses(d)' \subseteq Uses(d) /\ Uses(d) \subseteq Handles
    BY <1>1, <1>4, <1>6, UsesType DEF TypeInv
  <2>2. \A k \in Handles : (\E d \in Clients : k \in Uses(d)') => Alike(regs[k], regs'[k])
    BY <1>1, <1>4, <1>6, FreeOne DEF RegistrationSwitch, Alike
  <2>3. \A d \in Clients : cl'[d].next # NoHandle =>
           cl'[d].next = cl[d].next /\ cl'[d].reg = cl[d].reg
    BY <1>2, <1>3
  <2> QED
    BY <2>1, <2>2, <2>3, UsesKept DEF UseInv
<1>8. EventOK'
  <2>1. /\ evt'.active = evt.active /\ evt'.todo = evt.todo /\ evt'.ref = evt.ref
        /\ evt'.stale = (evt.stale \/ evt.ref = j)
    BY DEF RegistrationSwitch, TypeInv, EventTypeOK
  <2> QED
    BY <1>2, <1>3, <2>1 DEF UseInv, EventOK, TypeInv, EventTypeOK
<1>9. TellOK'
  BY <1>1, <1>2, <1>3 DEF UseInv, TellOK, TypeInv, TypeOK
<1> QED
  BY <1>5, <1>7, <1>8, <1>9 DEF UseInv
-----------------------------------------------------------------------------
(* Every step.                                                             *)

Inv == TypeInv /\ UseInv

\* A command takes one from the plan of its client.
LEMMA MayType ==
  ASSUME TypeInv, NEW c \in Clients, NEW kind, May(c, kind)
  PROVE  PlanTypeOK'
<1>1. plan[c] \in [kinds : SUBSET Kinds, left : Nat] /\ plan[c].left > 0
  BY DEF May, TypeInv, PlanTypeOK
<1>2. plan[c].left - 1 \in Nat
  BY <1>1
<1>3. [plan[c] EXCEPT !.left = @ - 1] \in [kinds : SUBSET Kinds, left : Nat]
  BY <1>1, <1>2
<1>4. plan' = [plan EXCEPT ![c] = [plan[c] EXCEPT !.left = @ - 1]]
  BY DEF May
<1> QED
  BY <1>3, <1>4 DEF TypeInv, PlanTypeOK

\* The parts of the next state put together.
LEMMA Together ==
  ASSUME StateTypeOK', PlanTypeOK', UseInv'
  PROVE  Inv'
  BY DEF StateTypeOK, TypeInv, Inv

LEMMA SenderStep ==
  ASSUME Inv, NEW c \in Clients, Sender(c)
  PROVE  Inv'
<1>1. TypeInv /\ UseInv /\ ClientOK(c)
  BY DEF Inv, UseInv
<1>2. CASE BinaryReceives(c)
  BY <1>1, <1>2, BinaryReceivesType, BinaryReceivesUse DEF Inv
<1>3. CASE ExtendedReceives(c)
  BY <1>1, <1>3, ExtendedReceivesType, ExtendedReceivesUse DEF Inv
<1>4. CASE SenderQueries(c)
  BY <1>1, <1>4, SenderQueriesType, SenderQueriesUse DEF Inv
<1>5. CASE SenderFindsNone(c)
  BY <1>1, <1>5, SenderFindsNoneType, SenderFindsNoneUse DEF Inv
<1>6. CASE SenderWakes(c)
  BY <1>1, <1>6, SenderWakesType, SenderWakesUse DEF Inv
<1>7. CASE SenderEnds(c)
  BY <1>1, <1>7, SenderEndsType, SenderEndsUse DEF Inv
<1> QED
  BY <1>2, <1>3, <1>4, <1>5, <1>6, <1>7 DEF Sender

LEMMA ThreadStep ==
  ASSUME Inv, NEW c \in Clients, Thread(c) \/ Exit(c)
  PROVE  Inv'
<1>1. TypeInv /\ UseInv
  BY DEF Inv
<1>2. CASE ExtendedEnds(c)
  BY <1>1, <1>2, ExtendedEndsType, ExtendedEndsUse DEF Inv
<1>3. CASE BinaryEnds(c)
  BY <1>1, <1>3, BinaryEndsType, BinaryEndsUse DEF Inv
<1>4. CASE ManagementEnds(c)
  BY <1>1, <1>4, ManagementEndsType, ManagementEndsUse DEF Inv
<1>5. CASE EventEndsProtocol(c)
  BY <1>1, <1>5, EventEndsProtocolType, EventEndsProtocolUse DEF Inv
<1>6. CASE HandlerJoins(c)
  BY <1>1, <1>6, HandlerJoinsType, HandlerJoinsUse DEF Inv
<1>7. CASE ConnectionDown(c)
  BY <1>1, <1>7, ConnectionDownType, ConnectionDownUse DEF Inv
<1>8. CASE ClientEnds(c)
  BY <1>1, <1>8, ClientEndsType, ClientEndsUse DEF Inv
<1>9. CASE RegistrationSwitch(c)
  BY <1>1, <1>9, RegistrationSwitchType, RegistrationSwitchUse DEF Inv
<1> QED
  BY <1>2, <1>3, <1>4, <1>5, <1>6, <1>7, <1>8, <1>9 DEF Thread, Exit

LEMMA CommandStep ==
  ASSUME Inv, NEW c \in Clients, Command(c)
  PROVE  Inv'
<1>1. TypeInv /\ UseInv
  BY DEF Inv
<1>2. \A kind : May(c, kind) => PlanTypeOK'
  BY <1>1, MayType
<1>3. PlanTypeOK'
  BY <1>2 DEF Command
<1>4. CASE Accept(c)
  BY <1>1, <1>3, <1>4, AcceptType, AcceptUse, Together
<1>5. CASE ProtocolExtended(c)
  BY <1>1, <1>3, <1>5, ProtocolExtendedType, ProtocolExtendedUse, Together
<1>6. CASE ProtocolEvent(c)
  BY <1>1, <1>3, <1>6, ProtocolEventType, ProtocolEventUse, Together
<1>7. CASE ProtocolManagement(c)
  BY <1>1, <1>3, <1>7, ProtocolManagementType, ProtocolManagementUse, Together
<1>8. ASSUME NEW e \in Endpoints, ProtocolBinary(c, e)
      PROVE  Inv'
  BY <1>1, <1>3, <1>8, ProtocolBinaryType, ProtocolBinaryUse, Together
<1>9. ASSUME NEW e \in Endpoints, ProcessCommand(c, e)
      PROVE  Inv'
  BY <1>1, <1>3, <1>9, ProcessCommandType, ProcessCommandUse, Together
<1>10. ASSUME NEW e \in Endpoints, RegistrationAdd(c, e)
       PROVE  Inv'
  BY <1>1, <1>3, <1>10, RegistrationAddType, RegistrationAddUse, Together
<1>11. ASSUME NEW e \in Endpoints, RegistrationDel(c, e)
       PROVE  Inv'
  BY <1>1, <1>3, <1>11, RegistrationDelType, RegistrationDelUse, Together
<1>12. ASSUME NEW l \in 1..MaxLifetime, RegistrationSave(c, l)
       PROVE  Inv'
  BY <1>1, <1>3, <1>12, RegistrationSaveType, RegistrationSaveUse, Together
<1>13. ASSUME NEW h \in Handles, RegistrationLoad(c, h)
       PROVE  Inv'
  BY <1>1, <1>3, <1>13, RegistrationLoadType, RegistrationLoadUse, Together
<1>14. ASSUME NEW b \in Bundles, BundleLoad(c, b)
       PROVE  Inv'
  BY <1>1, <1>3, <1>14, BundleLoadType, BundleLoadUse, Together
<1>15. ASSUME NEW b \in Bundles, BundleDelivered(c, b)
       PROVE  Inv'
  BY <1>1, <1>3, <1>15, BundleDeliveredType, BundleDeliveredUse, Together
<1>16. CASE BundleClear(c)
  BY <1>1, <1>3, <1>16, BundleClearType, BundleClearUse, Together
<1>17. CASE BundleStore(c)
  BY <1>1, <1>3, <1>17, BundleStoreType, BundleStoreUse, Together
<1> QED
  BY <1>4, <1>5, <1>6, <1>7, <1>8, <1>9, <1>10, <1>11, <1>12, <1>13, <1>14, <1>15,
     <1>16, <1>17 DEF Command

\* The closing, shutting down and answering of clients, and the events they are
\* shown.
LEMMA ClientStep ==
  ASSUME Inv, NEW c \in Clients,
         \/ Close(c) \/ ManagementShutdown(c) \/ BundleAnswered(c)
         \/ \E b \in Bundles : EventShown(c, b)
  PROVE  Inv'
<1>1. TypeInv /\ UseInv
  BY DEF Inv
<1>2. CASE Close(c)
  BY <1>1, <1>2, CloseType, CloseUse DEF Inv
<1>3. CASE ManagementShutdown(c)
  BY <1>1, <1>3, ManagementShutdownType, ManagementShutdownUse DEF Inv
<1>4. CASE BundleAnswered(c)
  BY <1>1, <1>4, BundleAnsweredType, BundleAnsweredUse DEF Inv
<1>5. ASSUME NEW b \in Bundles, EventShown(c, b)
      PROVE  Inv'
  BY <1>1, <1>5, EventShownType, EventShownUse DEF Inv
<1> QED
  BY <1>2, <1>3, <1>4, <1>5

LEMMA ServerStep ==
  ASSUME Inv,
         \/ Event \/ (\E b \in Bundles : BundleArrives(b))
         \/ Timeout \/ Tick \/ ComponentDown \/ ComponentIsDown
  PROVE  Inv'
<1>1. TypeInv /\ UseInv
  BY DEF Inv
<1>2. ASSUME NEW b \in Bundles, EventStarts(b)
      PROVE  Inv'
  BY <1>1, <1>2, EventStartsType, EventStartsUse DEF Inv
<1>3. ASSUME NEW c \in Clients, EventLooks(c)
      PROVE  Inv'
  BY <1>1, <1>3, EventLooksType, EventLooksUse DEF Inv
<1>4. CASE EventNotifies
  BY <1>1, <1>4, EventNotifiesType, EventNotifiesUse DEF Inv
<1>5. CASE EventEnds
  BY <1>1, <1>5, EventEndsType, EventEndsUse DEF Inv
<1>6. ASSUME NEW b \in Bundles, BundleArrives(b)
      PROVE  Inv'
  BY <1>1, <1>6, BundleArrivesType, BundleArrivesUse DEF Inv
<1>7. CASE Timeout
  BY <1>1, <1>7, TimeoutType, TimeoutUse DEF Inv
<1>8. CASE Tick
  BY <1>1, <1>8, TickType, TickUse DEF Inv
<1>9. CASE ComponentDown
  BY <1>1, <1>9, ComponentDownType, ComponentDownUse DEF Inv
<1>10. CASE ComponentIsDown
  BY <1>1, <1>10, ComponentIsDownType, ComponentIsDownUse DEF Inv
<1> QED
  BY <1>2, <1>3, <1>4, <1>5, <1>6, <1>7, <1>8, <1>9, <1>10 DEF Event

LEMMA Unchanged ==
  ASSUME Inv, UNCHANGED vars
  PROVE  Inv'
<1>1. TypeInv'
  BY DEF vars, Inv, TypeInv, TypeOK, EventTypeOK, PlanTypeOK
<1>2. UseInv'
  BY DEF vars, Inv, UseInv, UsesOK, Uses, ClientOK, EventOK, TellOK
<1> QED
  BY <1>1, <1>2 DEF Inv

LEMMA Inductive == Spec => []Inv
<1>1. Init => Inv
  BY InitType, InitUse DEF Inv
<1>2. Inv /\ [Next]_vars => Inv'
  <2> SUFFICES ASSUME Inv, [Next]_vars PROVE Inv'
    OBVIOUS
  <2>1. ASSUME NEW c \in Clients, Sender(c)
        PROVE  Inv'
    BY <2>1, SenderStep
  <2>2. ASSUME NEW c \in Clients, Thread(c) \/ Exit(c)
        PROVE  Inv'
    BY <2>2, ThreadStep
  <2>3. ASSUME NEW c \in Clients, Command(c)
        PROVE  Inv'
    BY <2>3, CommandStep
  <2>4. ASSUME NEW c \in Clients,
               \/ Close(c) \/ ManagementShutdown(c) \/ BundleAnswered(c)
               \/ \E b \in Bundles : EventShown(c, b)
        PROVE  Inv'
    BY <2>4, ClientStep
  <2>5. ASSUME \/ Event \/ (\E b \in Bundles : BundleArrives(b))
               \/ Timeout \/ Tick \/ ComponentDown \/ ComponentIsDown
        PROVE  Inv'
    BY <2>5, ServerStep
  <2>6. CASE UNCHANGED vars
    BY <2>6, Unchanged
  <2> QED
    BY <2>1, <2>2, <2>3, <2>4, <2>5, <2>6 DEF Next
<1> QED
  BY <1>1, <1>2, PTL DEF Spec

-----------------------------------------------------------------------------
(* The theorems.                                                           *)

\* The server, its registrations and its clients are what TypeOK says, for any
\* clients, handles, endpoints and bundles.  ApiServer.h, ClientHandler.h,
\* Registration.h.
THEOREM TypeCorrect == Spec => []TypeOK
<1>1. Inv => TypeOK
  BY DEF Inv, TypeInv
<1> QED
  BY <1>1, Inductive, PTL

\* Nobody refers to a registration that has been released, detached or given to
\* another client, nor to the handler of a client that has gone.
\* freeRegistration(), timeout(), getRegistration(), switchRegistration(),
\* ClientHandler::finally(), raiseEvent().
THEOREM NothingDangles == Spec => []NoDangling
<1>1. Inv => NoDangling
  <2> SUFFICES ASSUME Inv PROVE NoDangling
    OBVIOUS
  <2> DEFINE uses == [c \in Clients |-> {cl[c].reg, cl[c].next, snd[c].reg} \ {NoHandle}]
  <2>1. \A c \in Clients : uses[c] = Uses(c)
    BY DEF Uses
  <2>2. \A c \in Clients, h \in Handles : h \in uses[c] => regs[h].live /\ ~regs[h].detached
    BY <2>1 DEF Inv, UseInv, UsesOK
  <2>3. \A c, d \in Clients : c # d => uses[c] \cap uses[d] = {}
    BY <2>1 DEF Inv, UseInv, UsesOK
  <2>4. evt.ref # NoHandle => regs[evt.ref].live \/ evt.stale
    <3> SUFFICES ASSUME evt.ref # NoHandle, ~evt.stale PROVE regs[evt.ref].live
      OBVIOUS
    <3>1. PICK c \in Clients : cl[c].reg = evt.ref
      BY DEF Inv, UseInv, EventOK
    <3> QED
      BY <3>1 DEF Inv, UseInv, UsesOK, Uses
  <2>5. \A t \in tell : cl[t[1]].bound
    BY DEF Inv, UseInv, TellOK
  <2>6. \A c \in Clients : cl[c].bound => cl[c].at = "run" /\ cl[c].proto = "event"
    BY DEF Inv, UseInv, ClientOK
  <2> QED
    BY <2>2, <2>3, <2>4, <2>5, <2>6 DEF NoDangling
<1> QED
  BY <1>1, Inductive, PTL

-----------------------------------------------------------------------------
(* The command line tools.                                                 *)

\* A bundle as the tools see it, and a reply with the bundle it was counted for.
Bundle == [seq : Nat, src : STRING \cup {"echo"}]
CountedReply == [for : Nat, of : Bundle]

\* dtnping waits for a reply to the bundle it has sent last, and has counted
\* none for it.
ToolInv ==
  /\ prog \in Programs
  /\ seq \in Nat /\ inq \in Seq(Bundle) /\ air \subseteq Bundle
  /\ counted \in Seq(CountedReply)
  /\ \A i \in 1..Len(counted) :
       /\ counted[i].of = [seq |-> counted[i].for, src |-> "echo"]
       /\ counted[i].for <= seq
       /\ pc = "reply" => counted[i].for < seq
  /\ \A i, j \in 1..Len(counted) : i < j => counted[i].for < counted[j].for

\* Every tool begins in the invariant.
LEMMA ToolBegins ==
  ASSUME prog \in Programs, Tool!Begin
  PROVE  ToolInv
<1>1. prog \in Tool!ProgramType
  BY ApplicationsAssumption DEF Tool!ClientAssumption
<1>2. air \subseteq Bundle
  BY <1>1 DEF Tool!ProgramType, Tool!Begin, Bundle
<1> QED
  BY <1>2 DEF ToolInv, Tool!Begin

\* No step of a tool leaves the invariant: the only one that counts a reply is the
\* one that has compared it with the last bundle sent.
LEMMA ToolSteps ==
  ASSUME ToolInv, Tool!Next
  PROVE  ToolInv'
<1> USE DEF Tool!still, Tool!link, Tool!own
<1>0. seq \in Nat /\ \A i \in 1..Len(counted) : counted[i].for \in Nat
  <2>1. \A i \in 1..Len(counted) : counted[i] \in CountedReply
    BY DEF ToolInv
  <2> QED
    BY <2>1 DEF ToolInv, CountedReply
<1>1. CASE Tool!Reply
  <2>1. /\ pc = "reply" /\ inq # <<>> /\ inq' = Tail(inq)
        /\ UNCHANGED <<prog, seq, air>>
    BY <1>1 DEF Tool!Reply
  <2>2. inq' \in Seq(Bundle) /\ Head(inq) \in Bundle
    BY <2>1 DEF ToolInv
  <2>3. CASE Tool!checkReply(Head(inq))
    <3>1. counted' = Append(counted, [for |-> seq, of |-> Head(inq)]) /\ pc' = "pause"
      BY <1>1, <2>3 DEF Tool!Reply
    <3>2. Head(inq) = [seq |-> seq, src |-> "echo"]
      BY <2>2, <2>3 DEF Tool!checkReply, Bundle
    <3>3. [for |-> seq, of |-> Head(inq)] \in CountedReply
      BY <2>2 DEF ToolInv, CountedReply
    <3> DEFINE e == [for |-> seq, of |-> Head(inq)]
    <3>4. /\ counted' \in Seq(CountedReply) /\ Len(counted') = Len(counted) + 1
          /\ counted'[Len(counted) + 1] = e
          /\ \A i \in 1..Len(counted) : counted'[i] = counted[i]
      BY <3>1, <3>3 DEF ToolInv
    <3>5. e.for = seq /\ e.of = [seq |-> e.for, src |-> "echo"]
      BY <3>2
    <3>6. Len(counted) \in Nat /\ pc' # "reply" /\ seq' = seq /\ pc = "reply"
      BY <2>1, <3>1 DEF ToolInv
    <3> HIDE DEF e
    <3>7. ASSUME NEW i \in 1..Len(counted')
          PROVE  /\ counted'[i].of = [seq |-> counted'[i].for, src |-> "echo"]
                 /\ counted'[i].for <= seq'
      <4>1. CASE i = Len(counted) + 1
        <5>1. counted'[i] = e
          BY <4>1, <3>4
        <5>2. e.for <= seq
          BY <1>0, <3>5
        <5> QED
          BY <5>1, <5>2, <3>5, <3>6
      <4>2. CASE i \in 1..Len(counted)
        BY <4>2, <3>4, <3>6 DEF ToolInv
      <4> QED
        BY <4>1, <4>2, <3>4, <3>6
    <3>8. \A i, j \in 1..Len(counted') : i < j => counted'[i].for < counted'[j].for
      <4> SUFFICES ASSUME NEW i \in 1..Len(counted'), NEW j \in 1..Len(counted'), i < j
                   PROVE  counted'[i].for < counted'[j].for
        OBVIOUS
      <4>1. i \in 1..Len(counted) /\ counted'[i] = counted[i]
        BY <3>4, <3>6
      <4>2. CASE j = Len(counted) + 1
        <5>1. counted'[j] = e
          BY <4>2, <3>4
        <5>2. counted[i].for < seq
          BY <4>1, <3>6 DEF ToolInv
        <5> QED
          BY <4>1, <5>1, <5>2, <3>5
      <4>3. CASE j \in 1..Len(counted)
        BY <4>1, <4>3, <3>4 DEF ToolInv
      <4> QED
        BY <4>2, <4>3, <3>4, <3>6
    <3> QED
      BY <2>1, <2>2, <3>4, <3>6, <3>7, <3>8 DEF ToolInv
  <2>4. CASE ~Tool!checkReply(Head(inq))
    <3>1. UNCHANGED counted
      BY <1>1, <2>4 DEF Tool!Reply
    <3> QED
      BY <2>1, <2>2, <3>1 DEF ToolInv
  <2> QED
    BY <2>3, <2>4
<1>2. CASE Tool!Echo
  <2>1. /\ seq' = seq + 1 /\ UNCHANGED <<prog, inq, counted>>
        /\ air' \in {air, air \cup {[seq |-> seq + 1, src |-> "echo"]}}
    BY <1>2 DEF Tool!Echo
  <2>2. air' \subseteq Bundle
    <3>1. [seq |-> seq + 1, src |-> "echo"] \in Bundle
      BY <1>0 DEF Bundle
    <3> QED
      BY <2>1, <3>1 DEF ToolInv
  <2> QED
    BY <1>0, <2>1, <2>2 DEF ToolInv
<1>3. CASE Tool!Receive
  <2>1. /\ UNCHANGED <<prog, pc, seq, counted>> /\ air' \subseteq air
        /\ inq' = inq \/ \E b \in air : inq' = Append(inq, b)
    BY <1>3 DEF Tool!Receive
  <2>2. inq' \in Seq(Bundle)
    BY <2>1 DEF ToolInv
  <2> QED
    BY <2>1, <2>2 DEF ToolInv
<1>4. CASE Tool!SendFails \/ Tool!SendCopy \/ Tool!Trace
  <2>1. seq' = seq + 1 /\ UNCHANGED <<prog, inq, counted, air>>
    BY <1>4 DEF Tool!SendFails, Tool!SendCopy, Tool!Trace
  <2> QED
    BY <1>0, <2>1 DEF ToolInv
<1>5. CASE Tool!Extract \/ Tool!RunScript \/ Tool!WriteOut \/ Tool!Report
  <2>1. inq # <<>> /\ inq' = Tail(inq) /\ UNCHANGED <<prog, seq, counted, air>> /\ pc' # "reply"
    BY <1>5 DEF Tool!Extract, Tool!RunScript, Tool!WriteOut, Tool!Report, Tool!GetBundle
  <2>2. inq' \in Seq(Bundle)
    BY <2>1 DEF ToolInv
  <2> QED
    BY <2>1, <2>2 DEF ToolInv
<1>6. CASE Tool!Open
  <2>1. inq' = <<>> /\ UNCHANGED <<prog, seq, counted, air>> /\ pc' # "reply"
    BY <1>6 DEF Tool!Open
  <2> QED
    BY <2>1 DEF ToolInv
<1>7. CASE UNCHANGED <<prog, seq, inq, counted, air>> /\ (pc' = "reply" => pc = "reply")
  BY <1>7 DEF ToolInv
<1>8. CASE Tool!Start \/ Tool!OpenFails \/ Tool!Connect \/ Tool!ConnectFails \/ Tool!Close
           \/ Tool!Destroy \/ Tool!Unwound \/ Tool!Backoff \/ Tool!Loop \/ Tool!GetFails
           \/ Tool!NoMoreReports
  <2>1. UNCHANGED <<prog, seq, inq, counted, air>> /\ (pc' = "reply" => pc = "reply")
    BY <1>8 DEF Tool!Start, Tool!OpenFails, Tool!Connect, Tool!ConnectFails, Tool!Close,
       Tool!Destroy, Tool!Unwound, Tool!Backoff, Tool!Loop, Tool!GetFails,
       Tool!NoMoreReports, Tool!Shutdown
  <2> QED
    BY <2>1, <1>7
<1>9. CASE Tool!ReplyTimeout \/ Tool!ReplyAborted \/ Tool!Pause \/ Tool!Pack \/ Tool!Put
           \/ Tool!Sleep
  <2>1. UNCHANGED <<prog, seq, inq, counted, air>> /\ (pc' = "reply" => pc = "reply")
    BY <1>9 DEF Tool!ReplyTimeout, Tool!ReplyAborted, Tool!Pause, Tool!Pack, Tool!Put,
       Tool!Sleep, Tool!NextEcho
  <2> QED
    BY <2>1, <1>7
<1>10. CASE Tool!ReceiveFails \/ Tool!NewFile \/ Tool!Flip \/ Tool!Signal
  <2>1. UNCHANGED <<prog, seq, inq, counted, air>> /\ (pc' = "reply" => pc = "reply")
    BY <1>10 DEF Tool!ReceiveFails, Tool!NewFile, Tool!Flip, Tool!Signal, Tool!SignalPing,
       Tool!SignalRecv, Tool!SignalBox, Tool!Kill, Tool!Signalled, Tool!Shutdown, Tool!sigStill
  <2> QED
    BY <2>1, <1>7
<1> QED
  BY <1>1, <1>2, <1>3, <1>4, <1>5, <1>6, <1>8, <1>9, <1>10 DEF Tool!Next, Tool!Main

\* The invariant is what the property asks for.
LEMMA RepliesAreCounted ==
  ASSUME ToolInv
  PROVE  Tool!ReplyIsCounted
<1>1. DOMAIN counted = 1..Len(counted)
  BY DEF ToolInv
<1> QED
  BY <1>1 DEF ToolInv, Tool!ReplyIsCounted

-----------------------------------------------------------------------------
(* Streams over bundles.                                                   *)

\* A chunk, the writer and the reader.
ChunkType == [src : {"peer", "other"}, seq : Nat, from : Nat, len : Nat, last : BOOLEAN]
WriterType == [taken : Nat, len : Nat, seq : Nat, first : BOOLEAN, done : BOOLEAN]
ReaderType == [pc : {"first", "gap", "ended"}, chunks : SUBSET ChunkType, seq : Nat,
               offset : Nat, streaming : BOOLEAN, last : BOOLEAN, aborted : BOOLEAN]

\* The types of a stream whose writer is v and whose bundles under way are N.
StreamTypeOK(v, N) ==
  /\ opt \in StreamOptions
  /\ v \in WriterType /\ N \subseteq ChunkType /\ r \in ReaderType
  /\ out \in Seq(Nat) /\ confirmed \subseteq ChunkType

\* The chunks of the peer that can still be read.
Chunks(N) == {c \in N \cup r.chunks : c.src = "peer"}

\* Where the chunks that have been sent end.
SentTo(v) == v.taken - v.len

\* The chunks follow each other without a gap.
ChunksFollow(v, N) ==
  /\ v.len <= v.taken /\ v.taken <= opt.total
  /\ \A c \in Chunks(N) :
       /\ c.seq < v.seq /\ c.from + c.len <= SentTo(v)
       /\ c.seq = v.seq - 1 => c.from + c.len = SentTo(v)
  /\ \A c, d \in Chunks(N) :
       /\ c.seq = d.seq => c = d
       /\ c.seq < d.seq => c.from + c.len <= d.from
       /\ d.seq = c.seq + 1 => c.from + c.len = d.from

\* The reader holds chunks of the peer it has not read yet.
ReaderHolds(N) ==
  /\ \A c \in r.chunks : c.src = "peer" /\ c.seq >= r.seq
  /\ r.pc = "gap" => r.chunks # {}
  /\ \A c \in N : c.src = "peer" \/ opt.reader = "handler"
  /\ r.offset > 0 =>
       \E c \in r.chunks : /\ c.seq = r.seq /\ r.offset <= c.len
                           /\ \A k \in 1..r.offset : \E i \in 1..Len(out) : out[i] = c.from + k

\* What has been handed on is in order and before what is still to be read.
OutBefore(v, N) ==
  /\ r.seq <= v.seq
  /\ \A i \in 1..Len(out) :
       /\ out[i] \in 1..SentTo(v)
       /\ \A c \in Chunks(N) : /\ c.seq > r.seq => out[i] <= c.from
                               /\ c.seq = r.seq => out[i] <= c.from + r.offset
  /\ \A i, j \in 1..Len(out) : i < j => out[i] < out[j]

\* If nothing is skipped, the next byte is the one after the last.
Complete == opt.zero /\ ~opt.timeout

OutComplete(v, N) ==
  Complete =>
    /\ r.streaming
    /\ \A i \in 1..Len(out) : out[i] = i
    /\ r.seq = v.seq => Len(out) = SentTo(v)
    /\ \A c \in Chunks(N) : c.seq = r.seq => Len(out) = c.from + r.offset

\* A chunk that was reported as delivered was handed on whole.
DeliveredIsRead ==
  \A c \in confirmed : \A k \in 1..c.len : \E i \in 1..Len(out) : out[i] = c.from + k

\* The invariant; the writer and the bundles under way are parameters because one
\* write sends several chunks, with the invariant between any two of them.
StreamOK(v, N) ==
  /\ StreamTypeOK(v, N) /\ ChunksFollow(v, N) /\ ReaderHolds(N)
  /\ OutBefore(v, N) /\ OutComplete(v, N) /\ DeliveredIsRead

StreamInv == StreamOK(w, net)

\* What StreamAssumption says of the options of a stream.
LEMMA OptionsTyped ==
  ASSUME opt \in StreamOptions
  PROVE  /\ opt.writer \in {"handler", "tool"} /\ opt.reader \in {"handler", "tool"}
         /\ opt.total \in Nat /\ opt.chunk \in Nat
         /\ opt.zero \in BOOLEAN /\ opt.timeout \in BOOLEAN /\ opt.foreign \in BOOLEAN
         /\ opt.reader = "tool" => ~opt.foreign
         /\ BufSize \in Nat \ {0}
<1>1. Stream!StreamAssumption
  BY ApplicationsAssumption
<1>2. opt \in Stream!OptionType
  BY <1>1 DEF Stream!StreamAssumption
<1> QED
  BY <1>1, <1>2 DEF Stream!StreamAssumption, Stream!OptionType

\* A stream begins in the invariant.
LEMMA StreamBegins ==
  ASSUME opt \in StreamOptions, Stream!Begin
  PROVE  StreamInv
<1> USE OptionsTyped DEF Stream!Begin
<1>1. net \subseteq ChunkType /\ \A c \in net : c.src # "peer"
  <2>1. Stream!Foreign \in ChunkType /\ Stream!Foreign.src = "other"
    BY DEF Stream!Foreign, ChunkType
  <2> QED
    BY <2>1
<1>2. \A c \in net : opt.reader = "handler"
  OBVIOUS
<1>3. Chunks(net) = {}
  BY <1>1 DEF Chunks
<1>4. /\ w \in WriterType /\ r \in ReaderType /\ SentTo(w) = 0
      /\ w.taken = 0 /\ w.len = 0 /\ w.seq = 0 /\ r.seq = 0 /\ Len(out) = 0
      /\ r.streaming = opt.zero /\ confirmed = {}
  BY DEF WriterType, ReaderType, SentTo
<1>5. StreamTypeOK(w, net)
  BY <1>1, <1>4 DEF StreamTypeOK
<1>6. ChunksFollow(w, net)
  <2>1. opt.total \in Nat
    BY OptionsTyped
  <2>2. w.len <= w.taken /\ w.taken <= opt.total
    BY <1>4, <2>1
  <2> QED
    BY <1>3, <2>2 DEF ChunksFollow
<1>7. ReaderHolds(net)
  BY <1>2 DEF ReaderHolds
<1> HIDE DEF Stream!Begin
<1>8. OutBefore(w, net) /\ DeliveredIsRead
  BY <1>3, <1>4 DEF OutBefore, DeliveredIsRead
<1>9. OutComplete(w, net)
  BY <1>3, <1>4 DEF OutComplete, Complete
<1> QED
  BY <1>5, <1>6, <1>7, <1>8, <1>9 DEF StreamInv, StreamOK

\* Bytes that are put into the buffer have not been sent.
LEMMA Appended ==
  ASSUME NEW v, NEW N, StreamOK(v, N), NEW n \in Nat, v.taken + n <= opt.total
  PROVE  /\ StreamOK(Stream!append(v, n), N)
         /\ Stream!append(v, n).taken = v.taken + n
<1> DEFINE a == Stream!append(v, n)
<1>1. v \in WriterType
  BY DEF StreamOK, StreamTypeOK
<1>2. /\ a \in WriterType /\ a.taken = v.taken + n /\ a.len = v.len + n /\ a.seq = v.seq
      /\ SentTo(a) = SentTo(v)
  <2>1. /\ v.taken \in Nat /\ v.len \in Nat /\ v.seq \in Nat
        /\ v.first \in BOOLEAN /\ v.done \in BOOLEAN
    BY <1>1 DEF WriterType
  <2>2. a = [v EXCEPT !.taken = v.taken + n, !.len = v.len + n]
    BY DEF Stream!append
  <2> HIDE DEF a
  <2>3. a \in WriterType
    <3>1. ASSUME NEW t \in Nat, NEW l \in Nat
          PROVE  [v EXCEPT !.taken = t, !.len = l] \in WriterType
      BY <1>1 DEF WriterType
    <3>2. v.taken + n \in Nat /\ v.len + n \in Nat
      BY <2>1
    <3> QED
      BY <2>2, <3>1, <3>2
  <2>4. a.taken = v.taken + n /\ a.len = v.len + n /\ a.seq = v.seq
    BY <1>1, <2>2 DEF WriterType
  <2> QED
    BY <2>1, <2>3, <2>4 DEF SentTo
<1> HIDE DEF a
<1>3. StreamTypeOK(a, N)
  BY <1>2 DEF StreamOK, StreamTypeOK
<1>4. ChunksFollow(a, N)
  BY <1>1, <1>2 DEF StreamOK, ChunksFollow, WriterType
<1>5. OutBefore(a, N) /\ OutComplete(a, N)
  BY <1>2 DEF StreamOK, OutBefore, OutComplete
<1> QED
  BY <1>2, <1>3, <1>4, <1>5 DEF StreamOK, a

\* A chunk that is sent follows all others.
LEMMA Flushed ==
  ASSUME NEW v, NEW N, StreamOK(v, N), NEW f \in BOOLEAN
  PROVE  LET p == Stream!flushPayload(v, f) IN
         /\ StreamOK(p.w, N \cup p.sent)
         /\ p.w.taken = v.taken
<1> DEFINE p == Stream!flushPayload(v, f)
           c == Stream!Chunk(v, f)
           u == [v EXCEPT !.len = 0, !.seq = @ + 1, !.first = FALSE]
<1>0. v \in WriterType /\ opt \in StreamOptions /\ N \subseteq ChunkType /\ r \in ReaderType
  BY DEF StreamOK, StreamTypeOK
<1>1. CASE ~Stream!IsFlushed(v)
  <2>1. p.sent = {} /\ p.w = v
    BY <1>1 DEF Stream!flushPayload
  <2>2. N \cup {} = N
    OBVIOUS
  <2> QED
    BY <2>1, <2>2
<1>2. CASE Stream!IsFlushed(v)
  <2>1. p.sent = {c} /\ p.w = u
    BY <1>2 DEF Stream!flushPayload
  <2>2. /\ u \in WriterType /\ u.taken = v.taken /\ u.len = 0 /\ u.seq = v.seq + 1
        /\ SentTo(u) = v.taken /\ SentTo(u) \in Nat
    <3>1. v.taken \in Nat /\ v.seq \in Nat /\ v.done \in BOOLEAN
      BY <1>0 DEF WriterType
    <3>3. u \in WriterType
      <4>1. ASSUME NEW q \in Nat
            PROVE  [v EXCEPT !.len = 0, !.seq = q, !.first = FALSE] \in WriterType
        BY <1>0 DEF WriterType
      <4>2. v.seq + 1 \in Nat
        BY <3>1
      <4> QED
        BY <4>1, <4>2
    <3>4. u.taken = v.taken /\ u.len = 0 /\ u.seq = v.seq + 1
      BY <1>0 DEF WriterType
    <3> HIDE DEF u
    <3> QED
      BY <3>1, <3>3, <3>4 DEF SentTo
  <2>3. SentTo(v) \in Nat /\ v.len <= v.taken /\ v.taken <= opt.total
    BY <1>0 DEF StreamOK, ChunksFollow, SentTo, WriterType
  <2>4. /\ c \in ChunkType /\ c.src = "peer" /\ c.seq = v.seq /\ c.from = SentTo(v)
        /\ c.len = v.len /\ c.from + c.len = SentTo(u)
    <3>1. /\ c.src = "peer" /\ c.seq = v.seq /\ c.from = SentTo(v) /\ c.len = v.len
          /\ c \in ChunkType
      BY <1>0, <2>3 DEF Stream!Chunk, ChunkType, WriterType, SentTo
    <3> QED
      BY <3>1, <2>2, <2>3, <1>0 DEF SentTo, WriterType
  <2> DEFINE M == N \cup {c}
  <2> HIDE DEF c, u, p
  <2>5. Chunks(M) = Chunks(N) \cup {c} /\ Chunks(N) \subseteq ChunkType
    BY <2>4, <1>0 DEF Chunks, ReaderType
  <2>6. \A d \in Chunks(N) : /\ d.seq \in Nat /\ d.from \in Nat /\ d.len \in Nat
                             /\ d.seq < v.seq /\ d.from + d.len <= SentTo(v)
                             /\ d.seq = v.seq - 1 => d.from + d.len = SentTo(v)
    BY <2>5 DEF StreamOK, ChunksFollow, ChunkType
  <2>7. v.seq \in Nat /\ v.len \in Nat /\ v.taken \in Nat /\ r.seq \in Nat /\ r.offset \in Nat
    BY <1>0 DEF WriterType, ReaderType
  <2>8. StreamTypeOK(u, M)
    BY <2>2, <2>4 DEF StreamOK, StreamTypeOK
  <2>9. ChunksFollow(u, M)
    <3>1. u.len <= u.taken /\ u.taken <= opt.total
      BY <2>2, <2>3, <2>7
    <3>2. ASSUME NEW d \in Chunks(M)
          PROVE  /\ d.seq < u.seq /\ d.from + d.len <= SentTo(u)
                 /\ d.seq = u.seq - 1 => d.from + d.len = SentTo(u)
      <4>1. CASE d = c
        BY <4>1, <2>2, <2>4, <2>7
      <4>2. CASE d \in Chunks(N)
        BY <4>2, <2>2, <2>3, <2>4, <2>6, <2>7
      <4> QED
        BY <4>1, <4>2, <2>5
    <3>3. ASSUME NEW d \in Chunks(M), NEW e \in Chunks(M)
          PROVE  /\ d.seq = e.seq => d = e
                 /\ d.seq < e.seq => d.from + d.len <= e.from
                 /\ e.seq = d.seq + 1 => d.from + d.len = e.from
      <4>1. CASE d = c /\ e = c
        BY <4>1, <2>4, <2>7
      <4>2. CASE d \in Chunks(N) /\ e = c
        BY <4>2, <2>4, <2>6, <2>7
      <4>3. CASE d = c /\ e \in Chunks(N)
        BY <4>3, <2>4, <2>6, <2>7
      <4>4. CASE d \in Chunks(N) /\ e \in Chunks(N)
        BY <4>4 DEF StreamOK, ChunksFollow
      <4> QED
        BY <4>1, <4>2, <4>3, <4>4, <2>5
    <3> QED
      BY <3>1, <3>2, <3>3 DEF ChunksFollow
  <2>10. ReaderHolds(M)
    BY <2>4 DEF StreamOK, ReaderHolds
  <2>11. r.seq = v.seq => r.offset = 0
    <3>1. ASSUME r.offset > 0 PROVE r.seq < v.seq
      <4>1. PICK d \in r.chunks : d.seq = r.seq
        BY <3>1 DEF StreamOK, ReaderHolds
      <4>2. d \in Chunks(N)
        BY <4>1 DEF StreamOK, ReaderHolds, Chunks
      <4> QED
        BY <4>1, <4>2, <2>6
    <3> QED
      BY <3>1, <2>7
  <2>12. OutBefore(u, M)
    <3>1. r.seq <= u.seq
      BY <2>2, <2>7 DEF StreamOK, OutBefore
    <3>2. ASSUME NEW i \in 1..Len(out)
          PROVE  /\ out[i] \in 1..SentTo(u)
                 /\ \A d \in Chunks(M) : /\ d.seq > r.seq => out[i] <= d.from
                                         /\ d.seq = r.seq => out[i] <= d.from + r.offset
      <4>1. out[i] \in 1..SentTo(v)
        BY DEF StreamOK, OutBefore
      <4>2. out[i] \in 1..SentTo(u)
        BY <4>1, <2>2, <2>3, <2>4, <2>7
      <4>3. out[i] <= c.from /\ out[i] <= c.from + r.offset
        BY <4>1, <2>3, <2>4, <2>7
      <4> QED
        BY <4>2, <4>3, <2>5 DEF StreamOK, OutBefore
    <3> QED
      BY <3>1, <3>2 DEF StreamOK, OutBefore
  <2>13. OutComplete(u, M)
    <3> SUFFICES ASSUME Complete PROVE OutComplete(u, M)
      BY DEF OutComplete
    <3>1. r.seq # u.seq
      BY <2>2, <2>7 DEF StreamOK, OutBefore
    <3>2. c.seq = r.seq => Len(out) = c.from + r.offset
      BY <2>3, <2>4, <2>11 DEF StreamOK, OutComplete
    <3> QED
      BY <3>1, <3>2, <2>5 DEF StreamOK, OutComplete
  <2> QED
    BY <2>1, <2>2, <2>8, <2>9, <2>10, <2>12, <2>13 DEF StreamOK, p
<1> QED
  BY <1>1, <1>2

\* A write that fills the buffer sends what was in it first.
LEMMA Overflown ==
  ASSUME StreamInv, NEW n \in Nat, w.taken + n <= opt.total
  PROVE  LET p == Stream!overflow(n) IN
         /\ StreamOK(p.w, net \cup p.sent) /\ p.w.taken = w.taken + n
<1> DEFINE v == Stream!append(w, n)
           p == Stream!overflow(n)
<1>1. StreamOK(v, net) /\ v.taken = w.taken + n
  BY Appended DEF StreamInv
<1> HIDE DEF v
<1>2. CASE v.len > opt.chunk
  <2>1. p = Stream!flushPayload(v, FALSE)
    BY <1>2 DEF Stream!overflow, v
  <2> QED
    BY <2>1, <1>1, Flushed
<1>3. CASE ~(v.len > opt.chunk)
  <2>1. p.w = v /\ net \cup p.sent = net
    BY <1>3 DEF Stream!overflow, v
  <2> QED
    BY <2>1, <1>1
<1> QED
  BY <1>2, <1>3

\* Of chunks there is one with the lowest number.
LEMMA LowestOf ==
  ASSUME NEW S \in SUBSET ChunkType, S # {}
  PROVE  /\ Stream!Lowest(S) \in Nat
         /\ \E c \in S : c.seq = Stream!Lowest(S)
         /\ \A c \in S : Stream!Lowest(S) <= c.seq
<1> DEFINE T == {c.seq : c \in S}
<1>1. T \in SUBSET Nat /\ T # {}
  BY DEF ChunkType
<1>2. \E k \in T : \A j \in T : k <= j
  BY <1>1, LeastNumber
<1>3. Stream!Lowest(S) \in T /\ \A j \in T : Stream!Lowest(S) <= j
  BY <1>2 DEF Stream!Lowest, Stream!Min
<1> QED
  BY <1>1, <1>3

\* The types, taken apart for the proofs below.
LEMMA ReaderTyped ==
  ASSUME StreamInv
  PROVE  /\ r \in ReaderType /\ r.chunks \subseteq ChunkType /\ net \subseteq ChunkType
         /\ r.seq \in Nat /\ r.offset \in Nat /\ r.streaming \in BOOLEAN
         /\ opt \in StreamOptions /\ w \in WriterType /\ out \in Seq(Nat)
         /\ Len(out) \in Nat
         /\ SentTo(w) \in Nat /\ w.seq \in Nat
<1>1. r \in ReaderType /\ w \in WriterType /\ w.len <= w.taken
  BY DEF StreamInv, StreamOK, StreamTypeOK, ChunksFollow
<1> QED
  BY <1>1 DEF StreamInv, StreamOK, StreamTypeOK, ReaderType, WriterType, SentTo

\* While a chunk is being read it is the lowest one.
LEMMA GapHasNoOffset ==
  ASSUME StreamInv, Stream!InGap
  PROVE  r.offset = 0 /\ r.chunks # {}
<1>1. r.chunks # {} /\ r.seq # Stream!Lowest(r.chunks)
  BY DEF Stream!InGap, StreamInv, StreamOK, ReaderHolds
<1>2. ASSUME r.offset > 0 PROVE FALSE
  <2>1. PICK c \in r.chunks : c.seq = r.seq
    BY <1>2 DEF StreamInv, StreamOK, ReaderHolds
  <2>2. PICK d \in r.chunks : d.seq = Stream!Lowest(r.chunks)
    BY <1>1, LowestOf, ReaderTyped
  <2>3. d.seq <= c.seq
    BY <1>1, <2>2, LowestOf, ReaderTyped
  <2>4. d.seq >= r.seq /\ d.seq \in Nat
    BY ReaderTyped DEF StreamInv, StreamOK, ReaderHolds, ChunkType
  <2> QED
    BY <1>1, <2>1, <2>2, <2>3, <2>4, ReaderTyped
<1> QED
  BY <1>1, <1>2, ReaderTyped

\* A step of the reader that hands nothing on: chunks come from the network or
\* are lost there, and chunks that are missing may be skipped.
LEMMA ReaderWaits ==
  ASSUME StreamInv, UNCHANGED <<opt, w, out, confirmed>>,
         net' \subseteq net, r' \in ReaderType, r.chunks \subseteq r'.chunks,
         \A c \in r'.chunks : c \in r.chunks \/ (c \in net /\ c.src = "peer" /\ c.seq >= r.seq),
         r'.offset = r.offset, r'.pc = "gap" => r'.chunks # {},
         \/ r'.seq = r.seq /\ r'.streaming = r.streaming
         \/ Stream!InGap /\ ~Complete /\ r'.seq = Stream!Lowest(r'.chunks)
  PROVE  StreamInv'
<1>1. Chunks(net)' \subseteq Chunks(net)
  BY DEF Chunks
<1>2. StreamTypeOK(w, net)'
  BY ReaderTyped DEF StreamInv, StreamOK, StreamTypeOK
<1>3. ChunksFollow(w, net)'
  BY <1>1 DEF StreamInv, StreamOK, ChunksFollow, SentTo
<1>4. DeliveredIsRead'
  BY DEF StreamInv, StreamOK, DeliveredIsRead
<1>5. \A c \in r'.chunks : c.src = "peer" /\ c.seq >= r.seq
  BY DEF StreamInv, StreamOK, ReaderHolds
<1>6. \A c \in net' : c.src = "peer" \/ opt'.reader = "handler"
  BY DEF StreamInv, StreamOK, ReaderHolds
<1>7. CASE r'.seq = r.seq /\ r'.streaming = r.streaming
  <2>1. ReaderHolds(net)'
    BY <1>5, <1>6, <1>7 DEF StreamInv, StreamOK, ReaderHolds
  <2>2. OutBefore(w, net)' /\ OutComplete(w, net)'
    BY <1>1, <1>7 DEF StreamInv, StreamOK, OutBefore, OutComplete, Complete, SentTo
  <2> QED
    BY <1>2, <1>3, <1>4, <2>1, <2>2 DEF StreamInv, StreamOK
<1>8. CASE Stream!InGap /\ ~Complete /\ r'.seq = Stream!Lowest(r'.chunks)
  <2>1. r.offset = 0 /\ r'.chunks # {} /\ r'.chunks \subseteq ChunkType
    BY <1>8, GapHasNoOffset DEF ReaderType
  <2>2. /\ r'.seq \in Nat /\ \A c \in r'.chunks : r'.seq <= c.seq
        /\ \E c \in r'.chunks : c.seq = r'.seq
    BY <1>8, <2>1, LowestOf
  <2>3. PICK d \in r'.chunks : d.seq = r'.seq
    BY <2>2
  <2>4. d \in Chunks(net) /\ d.seq >= r.seq
    BY <1>5 DEF Chunks
  <2>5. r'.seq >= r.seq /\ r'.seq < w.seq
    BY <2>3, <2>4 DEF StreamInv, StreamOK, ChunksFollow
  <2>6. ReaderHolds(net)'
    BY <1>5, <1>6, <2>1, <2>2 DEF ReaderHolds
  <2>7. OutBefore(w, net)'
    <3>1. ASSUME NEW i \in 1..Len(out), NEW c \in Chunks(net)'
          PROVE  c.seq >= r'.seq => out[i] <= c.from
      <4>1. c \in Chunks(net) /\ c.seq \in Nat /\ c.from \in Nat
        BY <1>1, ReaderTyped DEF Chunks, ChunkType
      <4>2. /\ c.seq > r.seq => out[i] <= c.from
            /\ c.seq = r.seq => out[i] <= c.from + r.offset
        BY <4>1 DEF StreamInv, StreamOK, OutBefore
      <4> QED
        BY <2>1, <2>2, <2>5, <4>1, <4>2, ReaderTyped
    <3>2. ASSUME NEW i \in 1..Len(out), NEW c \in Chunks(net)'
          PROVE  /\ c.seq > r'.seq => out[i] <= c.from
                 /\ c.seq = r'.seq => out[i] <= c.from + r'.offset
      <4>1. c.from \in Nat /\ c.from + r'.offset = c.from /\ c.seq \in Nat
        BY <1>1, <2>1, ReaderTyped DEF Chunks, ChunkType
      <4> QED
        BY <3>1, <4>1, <2>2
    <3>3. r'.seq <= w.seq
      BY <2>2, <2>5, ReaderTyped
    <3> QED
      BY <3>2, <3>3 DEF StreamInv, StreamOK, OutBefore, SentTo
  <2>8. OutComplete(w, net)'
    BY <1>8 DEF OutComplete, Complete
  <2> QED
    BY <1>2, <1>3, <1>4, <2>6, <2>7, <2>8 DEF StreamInv, StreamOK
<1> QED
  BY <1>7, <1>8

\* The lesser of two numbers.
LEMMA LesserOf ==
  ASSUME NEW i \in Int, NEW j \in Int
  PROVE  Stream!Min({i, j}) = IF i <= j THEN i ELSE j
<1>1. \E k \in {i, j} : \A m \in {i, j} : k <= m
  BY i <= j \/ j <= i
<1>2. Stream!Min({i, j}) \in {i, j} /\ \A m \in {i, j} : Stream!Min({i, j}) <= m
  BY <1>1 DEF Stream!Min
<1> QED
  BY <1>2

\* What one read of a chunk hands on.
LEMMA BytesRead ==
  ASSUME StreamInv, NEW c \in r.chunks, c.seq = r.seq
  PROVE  /\ c \in ChunkType /\ c \in Chunks(net) /\ r.offset <= c.len
         /\ Stream!Bytes(c) \in Nat /\ r.offset + Stream!Bytes(c) <= c.len
         /\ Stream!AtEnd(c) => r.offset + Stream!Bytes(c) = c.len
         /\ \A k \in 1..r.offset : \E i \in 1..Len(out) : out[i] = c.from + k
<1>1. c \in ChunkType /\ c \in Chunks(net) /\ c.len \in Nat /\ r.offset \in Nat
  BY ReaderTyped DEF StreamInv, StreamOK, ReaderHolds, Chunks, ChunkType
<1>2. r.offset <= c.len /\ \A k \in 1..r.offset : \E i \in 1..Len(out) : out[i] = c.from + k
  <2>1. CASE r.offset = 0
    BY <1>1, <2>1
  <2>2. CASE r.offset > 0
    <3>1. PICK d \in r.chunks : /\ d.seq = r.seq /\ r.offset <= d.len
                                /\ \A k \in 1..r.offset : \E i \in 1..Len(out) : out[i] = d.from + k
      BY <2>2 DEF StreamInv, StreamOK, ReaderHolds
    <3>2. d \in Chunks(net)
      BY DEF StreamInv, StreamOK, ReaderHolds, Chunks
    <3>3. d = c
      BY <1>1, <3>1, <3>2 DEF StreamInv, StreamOK, ChunksFollow
    <3> QED
      BY <3>1, <3>3
  <2> QED
    BY <1>1, <2>1, <2>2
<1>3. BufSize \in Nat
  BY ReaderTyped, OptionsTyped
<1>4. Stream!Bytes(c) = IF BufSize <= c.len - r.offset THEN BufSize ELSE c.len - r.offset
  BY <1>1, <1>3, LesserOf DEF Stream!Bytes
<1> QED
  BY <1>1, <1>2, <1>3, <1>4 DEF Stream!AtEnd

\* A sequence goes on with the n numbers behind f.
GoOn(s, f, n) == s \o [i \in 1..n |-> f + i]

\* s ends with the numbers from a to a + o, as far as there are some.
EndsWith(s, a, o) ==
  /\ \A i \in 1..Len(s) : s[i] >= 1 /\ s[i] <= a + o
  /\ \A i, j \in 1..Len(s) : i < j => s[i] < s[j]
  /\ \A k \in 1..o : \E i \in 1..Len(s) : s[i] = a + k

\* What is known of u if it is s with n more numbers.
WentOn(u, s, a, o, n) ==
  /\ u \in Seq(Nat) /\ Len(u) = Len(s) + n
  /\ \A i \in 1..Len(s) : i \in 1..Len(u) /\ u[i] = s[i]
  /\ \A i \in 1..Len(u) : u[i] >= 1 /\ u[i] <= a + o + n
  /\ \A i, j \in 1..Len(u) : i < j => u[i] < u[j]
  /\ \A k \in 1..(o + n) : \E i \in 1..Len(u) : u[i] = a + k
  /\ (Len(s) = a + o /\ \A i \in 1..Len(s) : s[i] = i) =>
        Len(u) = a + o + n /\ \A i \in 1..Len(u) : u[i] = i

\* Bytes handed on after those of the same chunk keep the output in order.
LEMMA GoesOn ==
  ASSUME NEW s \in Seq(Nat), NEW a \in Nat, NEW o \in Nat, NEW n \in Nat,
         EndsWith(s, a, o),
         NEW u, u = GoOn(s, a + o, n)
  PROVE  WentOn(u, s, a, o, n)
<1> USE DEF EndsWith
<1> DEFINE t == [i \in 1..n |-> a + o + i]
           m == Len(s)
<1>0. m \in Nat /\ \A i \in 1..m : s[i] \in Nat
  OBVIOUS
<1>1. t \in Seq(Nat) /\ Len(t) = n
  OBVIOUS
<1>2. \A i \in 1..n : t[i] = a + o + i
  OBVIOUS
<1> HIDE DEF t
<1>3. /\ u \in Seq(Nat) /\ Len(u) = m + n
      /\ \A i \in 1..m : u[i] = s[i]
      /\ \A i \in m+1..m+n : u[i] = t[i - m]
  BY <1>1, Concatenation DEF t, GoOn
<1> HIDE DEF m
<1>4. ASSUME NEW i \in 1..Len(u)
      PROVE  \/ i \in 1..m /\ u[i] = s[i]
             \/ i > m /\ u[i] = a + o + (i - m) /\ i - m \in 1..n
  <2>1. CASE i \in 1..m
    BY <2>1, <1>3
  <2>2. CASE i \notin 1..m
    <3>1. i \in m+1..m+n /\ i - m \in 1..n
      BY <1>0, <1>3, <2>2
    <3>2. u[i] = t[i - m]
      BY <3>1, <1>3
    <3>3. t[i - m] = a + o + (i - m)
      BY <3>1, <1>2
    <3> QED
      BY <1>0, <3>1, <3>2, <3>3
  <2> QED
    BY <2>1, <2>2
<1>5. \A i \in 1..Len(u) : u[i] >= 1 /\ u[i] <= a + o + n
  <2> SUFFICES ASSUME NEW i \in 1..Len(u) PROVE u[i] >= 1 /\ u[i] <= a + o + n
    OBVIOUS
  <2>1. CASE i \in 1..m /\ u[i] = s[i]
    BY <1>0, <2>1 DEF m
  <2>2. CASE i > m /\ u[i] = a + o + (i - m) /\ i - m \in 1..n
    BY <1>0, <2>2
  <2> QED
    BY <1>4, <2>1, <2>2
<1>6. \A i, j \in 1..Len(u) : i < j => u[i] < u[j]
  <2> SUFFICES ASSUME NEW i \in 1..Len(u), NEW j \in 1..Len(u), i < j PROVE u[i] < u[j]
    OBVIOUS
  <2>1. CASE j \in 1..m
    <3>1. i \in 1..m
      BY <1>0, <2>1
    <3>2. s[i] < s[j]
      BY <2>1, <3>1 DEF m
    <3> QED
      BY <3>1, <3>2, <2>1, <1>3
  <2>2. CASE i \in 1..m /\ j > m
    <3>1. s[i] <= a + o /\ s[i] \in Nat /\ u[i] = s[i]
      BY <1>0, <1>3, <2>2 DEF m
    <3>2. u[j] = a + o + (j - m) /\ j - m \in 1..n
      BY <1>0, <1>4, <2>2
    <3> QED
      BY <3>1, <3>2
  <2>3. CASE i > m /\ j > m
    <3>1. u[i] = a + o + (i - m) /\ u[j] = a + o + (j - m)
      BY <1>0, <1>4, <2>3
    <3> QED
      BY <3>1, <1>0
  <2> QED
    BY <1>0, <1>4, <2>1, <2>2, <2>3
<1>7. \A k \in 1..(o + n) : \E i \in 1..Len(u) : u[i] = a + k
  <2> SUFFICES ASSUME NEW k \in 1..(o + n)
               PROVE  \E i \in 1..Len(u) : u[i] = a + k
    OBVIOUS
  <2>1. CASE k \in 1..o
    <3>1. PICK i \in 1..m : s[i] = a + k
      BY <2>1 DEF m
    <3>2. i \in 1..Len(u)
      BY <1>0, <1>3
    <3> QED
      BY <3>1, <3>2, <1>3
  <2>2. CASE k \notin 1..o
    <3> DEFINE i == m + (k - o)
    <3>1. i \in m+1..m+n /\ i \in 1..Len(u) /\ i > m /\ i - m = k - o /\ ~(i \in 1..m)
      BY <1>0, <1>3, <2>2
    <3>2. u[i] = a + o + (i - m)
      BY <3>1, <1>4
    <3>3. u[i] = a + k
      BY <3>1, <3>2
    <3> QED
      BY <3>1, <3>3
  <2> QED
    BY <2>1, <2>2
<1>8. ASSUME m = a + o, \A i \in 1..m : s[i] = i
      PROVE  Len(u) = a + o + n /\ \A i \in 1..Len(u) : u[i] = i
  <2> SUFFICES ASSUME NEW i \in 1..Len(u) PROVE u[i] = i
    BY <1>3, <1>8
  <2>1. CASE i \in 1..m /\ u[i] = s[i]
    BY <1>8, <2>1
  <2>2. CASE i > m /\ u[i] = a + o + (i - m) /\ i - m \in 1..n
    <3>1. u[i] = m + (i - m)
      BY <1>8, <2>2
    <3> QED
      BY <1>0, <3>1
  <2> QED
    BY <1>4, <2>1, <2>2
<1>9. \A i \in 1..m : i \in 1..Len(u) /\ u[i] = s[i]
  BY <1>0, <1>3
<1> QED
  BY <1>3, <1>5, <1>6, <1>7, <1>8, <1>9 DEF m, WentOn

\* What a read of the chunk c hands on.
HandsOn(c) == out' = GoOn(out, c.from + r.offset, Stream!Bytes(c))

\* A read keeps the invariant, whether it ends the chunk or not.
LEMMA ReadsOn ==
  ASSUME StreamInv, UNCHANGED <<opt, w, net>>, NEW c \in r.chunks, c.seq = r.seq,
         HandsOn(c),
         r' \in ReaderType, r'.streaming = r.streaming, r'.pc = "first",
         \/ /\ Stream!AtEnd(c)
            /\ r'.chunks = r.chunks \ {c} /\ r'.seq = r.seq + 1 /\ r'.offset = 0
            /\ confirmed' \in {confirmed, confirmed \cup {c}}
         \/ /\ r'.chunks = r.chunks /\ r'.seq = r.seq
            /\ r'.offset = r.offset + Stream!Bytes(c)
            /\ confirmed' = confirmed
  PROVE  StreamInv'
<1> DEFINE n == Stream!Bytes(c)
           end == c.from + r.offset + n
<1>1. /\ c \in ChunkType /\ c \in Chunks(net) /\ r.offset <= c.len /\ n \in Nat
      /\ r.offset + n <= c.len /\ (Stream!AtEnd(c) => r.offset + n = c.len)
      /\ \A k \in 1..r.offset : \E i \in 1..Len(out) : out[i] = c.from + k
  BY BytesRead
<1>2. HandsOn(c) <=> out' = GoOn(out, c.from + r.offset, n)
  BY DEF HandsOn
<1> HIDE DEF n
<1>3. /\ c.from \in Nat /\ c.len \in Nat /\ c.seq \in Nat /\ r.offset \in Nat /\ r.seq \in Nat
      /\ end \in Nat /\ Len(out) \in Nat /\ out \in Seq(Nat)
      /\ SentTo(w) \in Nat /\ w.seq \in Nat
  BY <1>1, ReaderTyped DEF ChunkType
<1>4. /\ \A i \in 1..Len(out) : out[i] >= 1 /\ out[i] <= c.from + r.offset
      /\ \A i, j \in 1..Len(out) : i < j => out[i] < out[j]
  BY <1>1 DEF StreamInv, StreamOK, OutBefore
<1>5. /\ out' \in Seq(Nat) /\ Len(out') = Len(out) + n
      /\ \A i \in 1..Len(out) : i \in 1..Len(out') /\ out'[i] = out[i]
      /\ \A i \in 1..Len(out') : out'[i] >= 1 /\ out'[i] <= end
      /\ \A i, j \in 1..Len(out') : i < j => out'[i] < out'[j]
      /\ \A k \in 1..(r.offset + n) : \E i \in 1..Len(out') : out'[i] = c.from + k
      /\ (Len(out) = c.from + r.offset /\ \A i \in 1..Len(out) : out[i] = i) =>
            Len(out') = end /\ \A i \in 1..Len(out') : out'[i] = i
  <2>1. EndsWith(out, c.from, r.offset)
    BY <1>1, <1>4 DEF EndsWith
  <2>2. WentOn(out', out, c.from, r.offset, n)
    BY <1>1, <1>2, <1>3, <2>1, GoesOn
  <2> QED
    BY <2>2 DEF WentOn
<1>6. end <= SentTo(w) /\ c.seq < w.seq /\ (c.seq = w.seq - 1 => c.from + c.len = SentTo(w))
  <2>1. /\ c.from + c.len <= SentTo(w) /\ c.seq < w.seq
        /\ (c.seq = w.seq - 1 => c.from + c.len = SentTo(w))
    BY <1>1 DEF StreamInv, StreamOK, ChunksFollow
  <2> QED
    BY <1>1, <1>3, <2>1
<1>7. Chunks(net)' \subseteq Chunks(net) /\ Chunks(net) \subseteq ChunkType
  BY ReaderTyped DEF Chunks
<1>8. ASSUME NEW d \in Chunks(net)
      PROVE  /\ d.seq \in Nat /\ d.from \in Nat
             /\ d.seq > r.seq => end <= d.from
             /\ d.seq = r.seq => d = c
             /\ d.seq = r.seq + 1 => c.from + c.len = d.from
  <2>1. d.seq \in Nat /\ d.from \in Nat
    BY <1>7 DEF ChunkType
  <2>2. /\ c.seq = d.seq => c = d
        /\ c.seq < d.seq => c.from + c.len <= d.from
        /\ d.seq = c.seq + 1 => c.from + c.len = d.from
    BY <1>1 DEF StreamInv, StreamOK, ChunksFollow
  <2>3. end <= c.from + c.len
    BY <1>1, <1>3
  <2> QED
    BY <1>3, <2>1, <2>2, <2>3
<1> HIDE DEF end
<1>11. ASSUME NEW i \in 1..Len(out')
       PROVE  /\ out'[i] \in 1..SentTo(w)
              /\ out'[i] <= end /\ \A d \in Chunks(net) : d.seq > r.seq => out'[i] <= d.from
  <2>1. out'[i] \in Nat /\ out'[i] >= 1 /\ out'[i] <= end
    BY <1>5
  <2> QED
    BY <1>3, <1>6, <1>8, <2>1
<1>12. Complete => /\ r.streaming /\ \A i \in 1..Len(out') : out'[i] = i
                   /\ Len(out') = end
  <2> SUFFICES ASSUME Complete
               PROVE  /\ r.streaming /\ \A i \in 1..Len(out') : out'[i] = i
                      /\ Len(out') = end
    OBVIOUS
  <2>1. /\ r.streaming /\ \A i \in 1..Len(out) : out[i] = i
        /\ Len(out) = c.from + r.offset
    BY <1>1 DEF StreamInv, StreamOK, OutComplete
  <2> QED
    BY <1>5, <2>1
<1>13. StreamTypeOK(w, net)'
  BY <1>1, <1>5 DEF StreamInv, StreamOK, StreamTypeOK
<1>14. ChunksFollow(w, net)'
  BY <1>7 DEF StreamInv, StreamOK, ChunksFollow, SentTo
<1>15. DeliveredIsRead'
  <2> SUFFICES ASSUME NEW d \in confirmed', NEW k \in 1..d.len
               PROVE  \E i \in 1..Len(out') : out'[i] = d.from + k
    BY DEF DeliveredIsRead
  <2>1. CASE d \in confirmed
    <3>1. PICK i \in 1..Len(out) : out[i] = d.from + k
      BY <2>1 DEF StreamInv, StreamOK, DeliveredIsRead
    <3> QED
      BY <3>1, <1>5
  <2>2. CASE d = c /\ Stream!AtEnd(c)
    BY <1>1, <1>5, <2>2
  <2> QED
    BY <2>1, <2>2
<1>16. \A d \in net' : d.src = "peer" \/ opt'.reader = "handler"
  BY DEF StreamInv, StreamOK, ReaderHolds
<1>17. CASE r'.chunks = r.chunks \ {c} /\ r'.seq = r.seq + 1 /\ r'.offset = 0 /\ Stream!AtEnd(c)
  <2>1. end = c.from + c.len
    BY <1>1, <1>3, <1>17 DEF end
  <2>2. \A d \in r'.chunks : d.src = "peer" /\ d.seq >= r'.seq
    <3> SUFFICES ASSUME NEW d \in r'.chunks PROVE d.src = "peer" /\ d.seq >= r'.seq
      OBVIOUS
    <3>1. d.src = "peer" /\ d.seq >= r.seq /\ d \in Chunks(net) /\ d # c
      BY <1>17 DEF StreamInv, StreamOK, ReaderHolds, Chunks
    <3> QED
      BY <1>3, <1>8, <1>17, <3>1
  <2>3. ReaderHolds(net)'
    BY <1>16, <1>17, <2>2 DEF ReaderHolds
  <2>4. OutBefore(w, net)'
    <3>1. r'.seq <= w.seq
      BY <1>3, <1>6, <1>17
    <3>2. ASSUME NEW i \in 1..Len(out'), NEW d \in Chunks(net)'
          PROVE  /\ d.seq > r'.seq => out'[i] <= d.from
                 /\ d.seq = r'.seq => out'[i] <= d.from + r'.offset
      <4>1. d \in Chunks(net)
        BY <1>7
      <4>2. d.seq \in Nat /\ d.from \in Nat /\ (d.seq > r.seq => out'[i] <= d.from)
        BY <4>1, <1>8, <1>11
      <4> QED
        BY <1>3, <1>17, <4>2
    <3> QED
      BY <1>5, <1>11, <3>1, <3>2 DEF OutBefore, SentTo
  <2>5. OutComplete(w, net)'
    <3> SUFFICES ASSUME Complete' PROVE OutComplete(w, net)'
      BY DEF OutComplete
    <3>1. Complete
      BY DEF Complete
    <3>2. r'.seq = w.seq => Len(out') = SentTo(w)
      BY <1>3, <1>6, <1>12, <1>17, <2>1, <3>1
    <3>3. \A d \in Chunks(net)' : d.seq = r'.seq => Len(out') = d.from + r'.offset
      BY <1>3, <1>7, <1>8, <1>12, <1>17, <2>1, <3>1
    <3> QED
      BY <1>12, <3>1, <3>2, <3>3 DEF OutComplete, SentTo
  <2> QED
    BY <1>13, <1>14, <1>15, <2>3, <2>4, <2>5 DEF StreamInv, StreamOK
<1>18. CASE r'.chunks = r.chunks /\ r'.seq = r.seq /\ r'.offset = r.offset + n
  <2>1. ReaderHolds(net)'
    BY <1>1, <1>5, <1>16, <1>18 DEF StreamInv, StreamOK, ReaderHolds
  <2>2. OutBefore(w, net)'
    <3>1. ASSUME NEW i \in 1..Len(out'), NEW d \in Chunks(net)'
          PROVE  /\ d.seq > r'.seq => out'[i] <= d.from
                 /\ d.seq = r'.seq => out'[i] <= d.from + r'.offset
      <4>1. /\ d \in Chunks(net) /\ d.seq \in Nat /\ (d.seq = r.seq => d = c)
            /\ (d.seq > r.seq => out'[i] <= d.from) /\ out'[i] <= end
        BY <1>7, <1>8, <1>11
      <4>2. end = c.from + r'.offset
        BY <1>1, <1>3, <1>18 DEF end
      <4> QED
        BY <1>18, <4>1, <4>2
    <3>2. r'.seq <= w.seq
      BY <1>18 DEF StreamInv, StreamOK, OutBefore
    <3> QED
      BY <1>5, <1>11, <3>1, <3>2 DEF OutBefore, SentTo
  <2>3. OutComplete(w, net)'
    <3> SUFFICES ASSUME Complete' PROVE OutComplete(w, net)'
      BY DEF OutComplete
    <3>1. Complete
      BY DEF Complete
    <3>2. r'.seq # w.seq
      BY <1>3, <1>6, <1>18
    <3>3. \A d \in Chunks(net)' : d.seq = r'.seq => Len(out') = d.from + r'.offset
      <4>1. end = c.from + r'.offset
        BY <1>1, <1>3, <1>18 DEF end
      <4> QED
        BY <1>7, <1>8, <1>12, <1>18, <3>1, <4>1
    <3> QED
      BY <1>12, <3>1, <3>2, <3>3 DEF OutComplete
  <2> QED
    BY <1>13, <1>14, <1>15, <2>1, <2>2, <2>3 DEF StreamInv, StreamOK
<1> QED
  BY <1>17, <1>18 DEF n

\* The writer and the network after a step, seen by a reader that did nothing.
LEMMA SameReader ==
  ASSUME StreamOK(w', net'), UNCHANGED <<opt, r, out, confirmed>>
  PROVE  StreamInv'
  BY DEF StreamInv, StreamOK, StreamTypeOK, ChunksFollow, Chunks, SentTo, ReaderHolds,
     OutBefore, OutComplete, Complete, DeliveredIsRead

\* The end of the writer changes nothing the invariant speaks of.
LEMMA DoneOrNot ==
  ASSUME NEW v, NEW N, StreamOK(v, N)
  PROVE  StreamOK([v EXCEPT !.done = TRUE], N)
<1> DEFINE u == [v EXCEPT !.done = TRUE]
<1>1. v \in WriterType
  BY DEF StreamOK, StreamTypeOK
<1>2. u \in WriterType /\ u.taken = v.taken /\ u.len = v.len /\ u.seq = v.seq
  BY <1>1 DEF WriterType
<1>3. SentTo(u) = SentTo(v)
  BY <1>2 DEF SentTo
<1> HIDE DEF u
<1>4. StreamTypeOK(u, N) /\ ChunksFollow(u, N)
  BY <1>2, <1>3 DEF StreamOK, StreamTypeOK, ChunksFollow
<1>5. OutBefore(u, N) /\ OutComplete(u, N)
  BY <1>2, <1>3 DEF StreamOK, OutBefore, OutComplete
<1> QED
  BY <1>4, <1>5 DEF StreamOK, u

\* The steps of the writer.
LEMMA ChunksWritten ==
  ASSUME StreamInv, Stream!Writing
  PROVE  StreamInv'
<1>0. /\ opt \in StreamOptions /\ opt.total \in Nat /\ BufSize \in Nat /\ w \in WriterType
      /\ w.taken \in Nat /\ w.taken <= opt.total
  BY ReaderTyped, OptionsTyped DEF WriterType, StreamInv, StreamOK, ChunksFollow
<1>1. CASE Stream!Overflow
  <2> DEFINE p == Stream!overflow(BufSize)
  <2>1. w' = p.w /\ net' = net \cup p.sent /\ UNCHANGED <<opt, r, out, confirmed>>
        /\ w.taken + BufSize <= opt.total
    BY <1>0, <1>1 DEF Stream!Overflow
  <2>2. StreamOK(p.w, net \cup p.sent)
    BY <1>0, <2>1, Overflown
  <2>3. StreamOK(w', net')
    BY <2>1, <2>2
  <2> QED
    BY <2>1, <2>3, SameReader
<1>2. CASE Stream!Sync
  <2> DEFINE n == opt.total - w.taken
             p == Stream!overflow(n)
             e == Stream!flushPayload(p.w, TRUE)
  <2>1. /\ w' = [e.w EXCEPT !.done = TRUE] /\ net' = net \cup p.sent \cup e.sent
        /\ UNCHANGED <<opt, r, out, confirmed>>
    BY <1>2 DEF Stream!Sync
  <2>2. n \in Nat /\ w.taken + n <= opt.total
    BY <1>0
  <2> HIDE DEF n
  <2>3. StreamOK(p.w, net \cup p.sent)
    BY <2>2, Overflown
  <2> HIDE DEF p
  <2>4. StreamOK(e.w, (net \cup p.sent) \cup e.sent)
    BY <2>3, Flushed
  <2> HIDE DEF e
  <2>5. StreamOK(w', net')
    BY <2>1, <2>4, DoneOrNot
  <2> QED
    BY <2>1, <2>5, SameReader
<1> QED
  BY <1>1, <1>2 DEF Stream!Writing

\* What arrives joins the chunks only if it is of the peer and not yet read.
LEMMA InsertedChunks ==
  ASSUME StreamInv, NEW c \in net
  PROVE  /\ r.chunks \subseteq Stream!Insert(c)
         /\ \A d \in Stream!Insert(c) :
              d \in r.chunks \/ (d \in net /\ d.src = "peer" /\ d.seq >= r.seq)
         /\ Stream!Insert(c) \subseteq ChunkType
<1>1. c.src = "peer" \/ opt.reader = "handler"
  BY DEF StreamInv, StreamOK, ReaderHolds
<1> QED
  BY <1>1, ReaderTyped DEF Stream!Insert, Stream!Accepts

LEMMA ReaderWith ==
  ASSUME r \in ReaderType, NEW C \in SUBSET ChunkType, NEW q \in Nat
  PROVE  /\ [r EXCEPT !.chunks = C] \in ReaderType
         /\ [r EXCEPT !.chunks = C, !.seq = q, !.streaming = TRUE] \in ReaderType
  BY DEF ReaderType

\* What Skip() does to the reader; nothing is skipped from a stream that is to
\* be complete.
LEMMA SkipsOrNot ==
  ASSUME StreamInv, Stream!InGap, NEW C \in SUBSET ChunkType, r.chunks \subseteq C,
         NEW elapsed \in {FALSE, opt.timeout}, r' = Stream!Skip(C, elapsed)
  PROVE  /\ r' \in ReaderType /\ r'.chunks = C /\ r'.offset = r.offset
         /\ r'.pc = "gap" => r'.chunks # {}
         /\ \/ r'.seq = r.seq /\ r'.streaming = r.streaming
            \/ ~Complete /\ r'.seq = Stream!Lowest(r'.chunks)
<1>1. C # {} /\ Stream!Lowest(C) \in Nat /\ r \in ReaderType
  BY GapHasNoOffset, LowestOf, ReaderTyped
<1>2. CASE elapsed \/ ~r.streaming
  <2>1. r' = [r EXCEPT !.chunks = C, !.seq = Stream!Lowest(C), !.streaming = TRUE]
    BY <1>2 DEF Stream!Skip
  <2>2. r' \in ReaderType
    BY <1>1, <2>1, ReaderWith
  <2>3. r'.chunks = C /\ r'.offset = r.offset /\ r'.seq = Stream!Lowest(C)
    BY <1>1, <2>1 DEF ReaderType
  <2>4. ~Complete
    BY <1>2, OptionsTyped, ReaderTyped DEF Complete, StreamInv, StreamOK, OutComplete
  <2> QED
    BY <1>1, <2>2, <2>3, <2>4
<1>3. CASE ~(elapsed \/ ~r.streaming)
  <2>1. r' = [r EXCEPT !.chunks = C]
    BY <1>3 DEF Stream!Skip
  <2>2. r' \in ReaderType
    BY <1>1, <2>1, ReaderWith
  <2>3. r'.chunks = C /\ r'.offset = r.offset /\ r'.seq = r.seq /\ r'.streaming = r.streaming
    BY <1>1, <2>1 DEF ReaderType
  <2> QED
    BY <1>1, <2>2, <2>3
<1> QED
  BY <1>2, <1>3

\* The bundles under way arrive or are lost.
LEMMA ChunksArrive ==
  ASSUME StreamInv, NEW c \in net,
         Stream!GetFirst(c) \/ Stream!Received(c) \/ Stream!GetNext(c) \/ Stream!Lose(c)
  PROVE  StreamInv'
<1>0. r \in ReaderType
  BY ReaderTyped
<1>1. UNCHANGED <<opt, w, out, confirmed>> /\ net' \subseteq net
  BY DEF Stream!GetFirst, Stream!Received, Stream!GetNext, Stream!Lose
<1>2. CASE Stream!GetFirst(c) \/ Stream!Received(c)
  <2>1. r' = [r EXCEPT !.chunks = Stream!Insert(c)]
    BY <1>2 DEF Stream!GetFirst, Stream!Received
  <2>2. r' \in ReaderType
    BY <1>0, <2>1, ReaderWith, InsertedChunks
  <2>3. /\ r'.chunks = Stream!Insert(c) /\ r'.offset = r.offset /\ r'.seq = r.seq
        /\ r'.streaming = r.streaming /\ r'.pc = r.pc
    BY <1>0, <2>1 DEF ReaderType
  <2>4. r'.pc = "gap" => r'.chunks # {}
    BY <2>3, InsertedChunks DEF StreamInv, StreamOK, ReaderHolds
  <2> QED
    BY <1>1, <2>2, <2>3, <2>4, InsertedChunks, ReaderWaits
<1>3. CASE Stream!GetNext(c)
  <2>1. CASE c.src = "peer"
    <3>1. PICK elapsed \in {FALSE, opt.timeout} : r' = Stream!Skip(Stream!Insert(c), elapsed)
      BY <1>3, <2>1 DEF Stream!GetNext
    <3>2. Stream!InGap
      BY <1>3 DEF Stream!GetNext
    <3> DEFINE C == Stream!Insert(c)
    <3>3. C \in SUBSET ChunkType /\ r.chunks \subseteq C
      BY InsertedChunks
    <3>4. /\ r' \in ReaderType /\ r'.chunks = C /\ r'.offset = r.offset
          /\ r'.pc = "gap" => r'.chunks # {}
          /\ \/ r'.seq = r.seq /\ r'.streaming = r.streaming
             \/ ~Complete /\ r'.seq = Stream!Lowest(r'.chunks)
      BY <3>1, <3>2, <3>3, SkipsOrNot
    <3> QED
      BY <1>1, <3>2, <3>4, InsertedChunks, ReaderWaits
  <2>2. CASE c.src # "peer"
    <3>1. r' = r
      BY <1>3, <2>2 DEF Stream!GetNext
    <3> QED
      BY <1>0, <1>1, <3>1, ReaderWaits DEF StreamInv, StreamOK, ReaderHolds
  <2> QED
    BY <2>1, <2>2
<1>4. CASE Stream!Lose(c)
  <2>1. r' = r
    BY <1>4 DEF Stream!Lose
  <2> QED
    BY <1>0, <1>1, <2>1, ReaderWaits DEF StreamInv, StreamOK, ReaderHolds
<1> QED
  BY <1>2, <1>3, <1>4

\* The reader waits, skips what is missing, ends or is closed.
LEMMA WaitEnds ==
  ASSUME StreamInv, Stream!WaitNext \/ Stream!EnterGap \/ Stream!End \/ Stream!Close
  PROVE  StreamInv'
<1>0. r \in ReaderType /\ r.chunks \in SUBSET ChunkType
  BY ReaderTyped
<1>1. UNCHANGED <<opt, w, net, out, confirmed>>
  BY DEF Stream!WaitNext, Stream!EnterGap, Stream!End, Stream!Close
<1>2. CASE Stream!WaitNext
  <2>1. PICK elapsed \in {FALSE, opt.timeout} : r' = Stream!Skip(r.chunks, elapsed)
    BY <1>2 DEF Stream!WaitNext
  <2>2. Stream!InGap
    BY <1>2 DEF Stream!WaitNext
  <2>3. /\ r' \in ReaderType /\ r'.chunks = r.chunks /\ r'.offset = r.offset
        /\ r'.pc = "gap" => r'.chunks # {}
        /\ \/ r'.seq = r.seq /\ r'.streaming = r.streaming
           \/ ~Complete /\ r'.seq = Stream!Lowest(r'.chunks)
    BY <1>0, <2>1, <2>2, SkipsOrNot
  <2> QED
    BY <1>1, <2>2, <2>3, ReaderWaits
<1>3. CASE Stream!EnterGap \/ Stream!End \/ Stream!Close
  <2>1. /\ r' \in ReaderType /\ r'.chunks = r.chunks /\ r'.offset = r.offset
        /\ r'.seq = r.seq /\ r'.streaming = r.streaming
        /\ r'.pc = "gap" => r.pc = "gap" \/ r.chunks # {}
    <3>1. CASE Stream!EnterGap
      <4>1. r' = [r EXCEPT !.pc = "gap"] /\ r.chunks # {}
        BY <3>1 DEF Stream!EnterGap
      <4> QED
        BY <1>0, <4>1 DEF ReaderType
    <3>2. CASE Stream!End
      <4>1. r' = [r EXCEPT !.pc = "ended"]
        BY <3>2 DEF Stream!End
      <4> QED
        BY <1>0, <4>1 DEF ReaderType
    <3>3. CASE Stream!Close
      <4>1. r' = [r EXCEPT !.aborted = TRUE]
        BY <3>3 DEF Stream!Close
      <4> QED
        BY <1>0, <4>1 DEF ReaderType
    <3> QED
      BY <1>3, <3>1, <3>2, <3>3
  <2>2. r'.pc = "gap" => r'.chunks # {}
    BY <2>1 DEF StreamInv, StreamOK, ReaderHolds
  <2> QED
    BY <1>1, <2>1, <2>2, ReaderWaits
<1> QED
  BY <1>2, <1>3

\* The reader reads.
LEMMA BytesHandedOn ==
  ASSUME StreamInv, Stream!Read
  PROVE  StreamInv'
<1>0. r \in ReaderType /\ r.offset \in Nat /\ r.seq \in Nat
  BY ReaderTyped
<1>1. PICK c \in r.chunks :
        /\ c.seq = r.seq
        /\ out' = out \o [i \in 1..Stream!Bytes(c) |-> c.from + r.offset + i]
        /\ r' = IF Stream!AtEnd(c) THEN Stream!Consumed(c)
                ELSE [r EXCEPT !.pc = "first", !.offset = @ + Stream!Bytes(c)]
        /\ confirmed' = IF Stream!AtEnd(c) /\ opt.reader = "handler"
                        THEN confirmed \cup {c} ELSE confirmed
  BY DEF Stream!Read
<1>2. UNCHANGED <<opt, w, net>>
  BY DEF Stream!Read
<1>3. HandsOn(c)
  BY <1>1 DEF HandsOn, GoOn
<1>4. Stream!Bytes(c) \in Nat /\ c.last \in BOOLEAN
  BY <1>1, BytesRead DEF ChunkType
<1>5. CASE Stream!AtEnd(c)
  <2> DEFINE C == r.chunks \ {c}
             l == c.last /\ opt.reader = "handler"
  <2>1. r' = [r EXCEPT !.pc = "first", !.chunks = C, !.offset = 0, !.seq = r.seq + 1, !.last = l]
        /\ confirmed' \in {confirmed, confirmed \cup {c}}
    BY <1>1, <1>5 DEF Stream!Consumed
  <2>2. r' \in ReaderType
    <3>1. ASSUME NEW D \in SUBSET ChunkType, NEW q \in Nat, NEW m \in BOOLEAN
          PROVE  [r EXCEPT !.pc = "first", !.chunks = D, !.offset = 0, !.seq = q, !.last = m]
                   \in ReaderType
      BY <1>0 DEF ReaderType
    <3>2. C \in SUBSET ChunkType /\ r.seq + 1 \in Nat /\ l \in BOOLEAN
      BY <1>0, <1>4, ReaderTyped
    <3> QED
      BY <2>1, <3>1, <3>2
  <2>3. /\ r'.pc = "first" /\ r'.chunks = C /\ r'.offset = 0 /\ r'.seq = r.seq + 1
        /\ r'.streaming = r.streaming
    BY <1>0, <2>1 DEF ReaderType
  <2> QED
    BY <1>1, <1>2, <1>3, <1>5, <2>1, <2>2, <2>3, ReadsOn
<1>6. CASE ~Stream!AtEnd(c)
  <2> DEFINE o == r.offset + Stream!Bytes(c)
  <2>1. r' = [r EXCEPT !.pc = "first", !.offset = o] /\ confirmed' = confirmed
    BY <1>1, <1>6
  <2>2. o \in Nat
    BY <1>0, <1>4
  <2>3. r' \in ReaderType
    <3>1. ASSUME NEW p \in Nat PROVE [r EXCEPT !.pc = "first", !.offset = p] \in ReaderType
      BY <1>0 DEF ReaderType
    <3> QED
      BY <2>1, <2>2, <3>1
  <2>4. /\ r'.pc = "first" /\ r'.chunks = r.chunks /\ r'.offset = o /\ r'.seq = r.seq
        /\ r'.streaming = r.streaming
    BY <1>0, <2>1 DEF ReaderType
  <2> QED
    BY <1>1, <1>2, <1>3, <2>1, <2>3, <2>4, ReadsOn
<1> QED
  BY <1>5, <1>6

\* Every step of a stream keeps the invariant.
LEMMA StreamSteps ==
  ASSUME StreamInv, Stream!Next
  PROVE  StreamInv'
<1>1. CASE Stream!Writing
  BY <1>1, ChunksWritten
<1>2. CASE Stream!Reading
  BY <1>2, WaitEnds, BytesHandedOn DEF Stream!Reading
<1>3. CASE Stream!Arrive
  BY <1>3, ChunksArrive DEF Stream!Arrive
<1>4. CASE Stream!WaitNext \/ Stream!Close
  BY <1>4, WaitEnds
<1>5. CASE \E c \in net : Stream!Lose(c)
  BY <1>5, ChunksArrive
<1> QED
  BY <1>1, <1>2, <1>3, <1>4, <1>5 DEF Stream!Next

\* The invariant is stronger than the property.
LEMMA InputIsHandedOn ==
  ASSUME StreamInv
  PROVE  Stream!OutputIsInput
<1>0. out \in Seq(Nat) /\ DOMAIN out = 1..Len(out) /\ opt.total \in Nat
  BY ReaderTyped, OptionsTyped
<1>1. SentTo(w) <= opt.total /\ SentTo(w) \in Nat
  BY <1>0, ReaderTyped DEF SentTo, WriterType, StreamInv, StreamOK, ChunksFollow
<1>2. \A i \in DOMAIN out : out[i] \in 1..opt.total
  BY <1>0, <1>1 DEF StreamInv, StreamOK, OutBefore
<1>3. \A i, j \in DOMAIN out : i < j => out[i] < out[j]
  BY <1>0 DEF StreamInv, StreamOK, OutBefore
<1>4. opt.zero /\ ~opt.timeout => \A i \in DOMAIN out : out[i] = i
  BY <1>0 DEF StreamInv, StreamOK, OutComplete, Complete
<1>5. \A c \in confirmed : (c.from + 1)..(c.from + c.len) \subseteq Stream!ToSet(out)
  <2> SUFFICES ASSUME NEW c \in confirmed, NEW b \in (c.from + 1)..(c.from + c.len)
               PROVE  b \in Stream!ToSet(out)
    OBVIOUS
  <2>1. c.from \in Nat /\ c.len \in Nat
    BY DEF StreamInv, StreamOK, StreamTypeOK, ChunkType
  <2>2. b - c.from \in 1..c.len /\ b = c.from + (b - c.from)
    BY <2>1
  <2>3. PICK i \in 1..Len(out) : out[i] = b
    BY <2>2 DEF StreamInv, StreamOK, DeliveredIsRead
  <2> QED
    BY <1>0, <2>3 DEF Stream!ToSet
<1> QED
  BY <1>2, <1>3, <1>4, <1>5 DEF Stream!OutputIsInput

-----------------------------------------------------------------------------
(* The client of the text protocol.                                        *)

\* A message, a command without answer, what a call has returned, and where a
\* thread is in its operations.
MsgType == [kind : {"status", "notify", "text"}, n : Nat, ok : BOOLEAN]
AskType == [n : Nat, body : BOOLEAN]
GotType == [m : MsgType, n : Nat]
OpType == [i : Nat \ {0}, j : Nat \ {0}, n : Nat]

\* The types of the threads,
ThreadTypeOK ==
  /\ calls \in Plans
  /\ op \in [DOMAIN calls -> OpType]
  /\ tpc \in [DOMAIN calls -> {"idle", "queue", "waiting", "reading", "failed", "text"}]
  /\ got \in [DOMAIN calls -> Seq(GotType)]

\* and those of what they share.
MessageTypeOK ==
  /\ busy \in BOOLEAN /\ eof \in {"open", "closed", "seen"}
  /\ asked \in Seq(AskType)
  /\ statusq \in Seq(MsgType) /\ notifyq \in Seq(MsgType) /\ stream \in Seq(MsgType)
  /\ notified \in Nat /\ count \in Nat

\* A thread that waits for an answer or for the text behind it.
Owed(t) == tpc[t] \in {"queue", "waiting", "reading", "text"} /\ ~API!IsWait(t)

\* A text follows the answer to the command the thread waits for.
HasBody(t) == API!Operation(t)[op[t].j].body

\* Only a thread inside an operation is anywhere but idle; a thread that is owed an
\* answer is owed the one to the last command sent; the reader holds _get_busy and
\* has nothing in its own queue.
InStep(t) ==
  /\ tpc[t] # "idle" => API!Running(t)
  /\ API!Running(t) =>
       /\ API!IsWait(t) => op[t].n = 0 /\ tpc[t] # "text"
       /\ ~API!IsWait(t) => op[t].j \in DOMAIN API!Operation(t)
  /\ Owed(t) => op[t].n = count /\ count > 0
  /\ tpc[t] = "reading" => busy /\ API!Own(t) = <<>>
  /\ tpc[t] = "text" => HasBody(t)

\* There is one reader.
ThreadsInStep ==
  /\ \A t \in DOMAIN calls : InStep(t)
  /\ \A t, u \in DOMAIN calls : tpc[t] = "reading" /\ tpc[u] = "reading" => t = u

\* The answer to the last command is nowhere or in one place.
AnswerInOnePlace ==
  /\ eof = "open" /\ asked # <<>> =>
       /\ Len(asked) = 1 /\ asked[1].n = count
       /\ statusq = <<>> /\ \A i \in 1..Len(stream) : stream[i].kind = "notify"
       /\ \E s \in DOMAIN calls : /\ Owed(s) /\ tpc[s] # "text"
                                  /\ asked[1].body = HasBody(s)
  /\ eof = "seen" => stream = <<>>
  /\ \A i \in 1..Len(statusq) :
       \/ statusq[i] = API!Empty /\ eof = "seen"
       \/ /\ i = 1 /\ statusq[1] = API!Msg("status", count, statusq[1].ok)
          /\ \A k \in 1..Len(stream) : stream[k].kind = "notify"
          /\ \E s \in DOMAIN calls : Owed(s) /\ tpc[s] # "text" /\ ~HasBody(s)
  /\ \A i \in 1..Len(stream) : stream[i].kind = "status" =>
       /\ stream[i].n = count /\ statusq = <<>>
       /\ \A k \in 1..Len(stream) : stream[k].kind = "status" => k = i
       /\ \E s \in DOMAIN calls :
            /\ Owed(s) /\ tpc[s] # "text"
            /\ stream[i].ok /\ HasBody(s) => i + 1 \in 1..Len(stream) /\ stream[i + 1].kind = "text"

\* A text comes right behind its answer, and only a thread that has taken the
\* answer is to read it.
TextsFollow ==
  /\ \A t \in DOMAIN calls : tpc[t] = "text" =>
       stream # <<>> /\ stream[1] = API!Msg("text", op[t].n, TRUE)
  /\ \A i \in 1..Len(stream) : stream[i].kind = "text" =>
       /\ stream[i] = API!Msg("text", count, TRUE)
       /\ \/ /\ i - 1 \in 1..Len(stream) /\ stream[i - 1].kind = "status" /\ stream[i - 1].ok
          \/ i = 1 /\ \E t \in DOMAIN calls : tpc[t] = "text"
       /\ \E s \in DOMAIN calls : Owed(s) /\ HasBody(s)

\* Notifications are older in the queue than in the stream, and in order in both;
NotificationsInOrder ==
  /\ \A i \in 1..Len(stream) : stream[i].kind = "notify" => stream[i].n <= notified
  /\ \A i, j \in 1..Len(stream) :
       i < j /\ stream[i].kind = "notify" /\ stream[j].kind = "notify" => stream[i].n < stream[j].n
  /\ \A i \in 1..Len(notifyq) : /\ notifyq[i].kind = "notify" /\ notifyq[i].n <= notified
                                /\ \A j \in 1..Len(stream) :
                                     stream[j].kind = "notify" => notifyq[i].n < stream[j].n
  /\ \A i, j \in 1..Len(notifyq) : i < j => notifyq[i].n < notifyq[j].n

\* what a thread has got is older than both.
GotInOrder ==
  \A t \in DOMAIN calls :
    /\ \A i \in 1..Len(got[t]) :
         IF got[t][i].n = 0
         THEN /\ got[t][i].m.kind = "notify" /\ got[t][i].m.n <= notified
              /\ \A j \in 1..Len(notifyq) : got[t][i].m.n < notifyq[j].n
              /\ \A j \in 1..Len(stream) :
                   stream[j].kind = "notify" => got[t][i].m.n < stream[j].n
         ELSE got[t][i].m \in {API!Empty, API!Msg("status", got[t][i].n, got[t][i].m.ok),
                               API!Msg("text", got[t][i].n, TRUE)}
    /\ \A i, j \in 1..Len(got[t]) :
         i < j /\ got[t][i].n = 0 /\ got[t][j].n = 0 => got[t][i].m.n < got[t][j].m.n

\* The invariant of the client.
APIInv ==
  /\ ThreadTypeOK /\ MessageTypeOK /\ ThreadsInStep /\ AnswerInOnePlace
  /\ TextsFollow /\ NotificationsInOrder /\ GotInOrder

\* The commands there are.
Names == {"set endpoint", "registration add", "registration del", "registration list",
          "bundle get plain", "bundle load queue", "bundle put plain", "bundle",
          "bundle clear", "bundle free", "bundle store", "bundle send", "bundle delivered"}
CmdType == [name : Names, body : BOOLEAN]

\* The commands of an operation; wait() alone sends none.
LEMMA CommandsTyped ==
  ASSUME NEW o \in DOMAIN API!Operations
  PROVE  /\ API!Operations[o] \in Seq(CmdType)
         /\ API!Operations[o] = <<>> <=> o = "wait"
<1>1. \A nm \in Names : \A b \in BOOLEAN : API!Cmd(nm, b) \in CmdType
  BY DEF API!Cmd, CmdType
<1>2. \A c \in CmdType : <<c>> \in Seq(CmdType) /\ Len(<<c>>) = 1 /\ <<c>> # <<>>
  OBVIOUS
<1>3. \A c, d \in CmdType : <<c, d>> \in Seq(CmdType) /\ <<c, d>> # <<>>
  OBVIOUS
<1>4. \A c, d \in CmdType : <<c>> \o <<d>> \in Seq(CmdType) /\ <<c>> \o <<d>> # <<>>
  OBVIOUS
<1>5. \A c, d, e \in CmdType : <<c, d>> \o <<e>> \in Seq(CmdType) /\ <<c, d>> \o <<e>> # <<>>
  OBVIOUS
<1>6. \A nm \in Names : nm \in Names
  OBVIOUS
<1> DEFINE c(nm) == API!Cmd(nm, FALSE)
           x(nm) == API!Cmd(nm, TRUE)
<1>7. /\ API!Operations["setEndpoint"] = <<c("set endpoint")>>
      /\ API!Operations["subscribe"] = <<c("registration add")>>
      /\ API!Operations["unsubscribe"] = <<c("registration del")>>
      /\ API!Operations["getSubscriptions"] = <<x("registration list")>>
      /\ API!Operations["get"] = <<c("bundle load queue")>> \o <<x("bundle get plain")>>
      /\ API!Operations["send"] =
           <<c("bundle put plain"), c("bundle")>> \o <<c("bundle send")>>
      /\ API!Operations["wait"] = <<>>
      /\ API!Operations["register_clear"] = <<c("bundle clear")>>
      /\ API!Operations["register_free"] = <<c("bundle free")>>
      /\ API!Operations["register_store"] = <<c("bundle store")>>
      /\ API!Operations["notify_delivered"] = <<c("bundle delivered")>>
  BY DEF API!Operations, API!setEndpoint, API!subscribe, API!unsubscribe,
     API!getSubscriptions, API!register_get, API!get, API!register_put,
     API!register_clear, API!register_free, API!register_store, API!register_send,
     API!send, API!notify_delivered, API!wait
<1>8. \A nm \in Names : c(nm) \in CmdType /\ x(nm) \in CmdType
  BY <1>1
<1> HIDE DEF c, x
<1>9. o \in {"setEndpoint", "subscribe", "unsubscribe", "getSubscriptions", "get", "send",
             "wait", "register_clear", "register_free", "register_store", "notify_delivered"}
  BY DEF API!Operations
<1>10. <<>> \in Seq(CmdType)
  OBVIOUS
<1>11. CASE o = "setEndpoint"
  BY <1>2, <1>7, <1>8, <1>11 DEF Names
<1>12. CASE o = "subscribe"
  BY <1>2, <1>7, <1>8, <1>12 DEF Names
<1>13. CASE o = "unsubscribe"
  BY <1>2, <1>7, <1>8, <1>13 DEF Names
<1>14. CASE o = "getSubscriptions"
  BY <1>2, <1>7, <1>8, <1>14 DEF Names
<1>15. CASE o = "get"
  BY <1>4, <1>7, <1>8, <1>15 DEF Names
<1>16. CASE o = "send"
  <2>1. /\ c("bundle put plain") \in CmdType /\ c("bundle") \in CmdType
        /\ c("bundle send") \in CmdType
    BY <1>8 DEF Names
  <2>2. /\ API!Operations["send"] \in Seq(CmdType) /\ API!Operations["send"] # <<>>
    BY <1>5, <1>7, <2>1, Zenon
  <2> QED
    BY <1>16, <2>2
<1>17. CASE o = "wait"
  BY <1>7, <1>10, <1>17
<1>18. CASE o = "register_clear"
  BY <1>2, <1>7, <1>8, <1>18 DEF Names
<1>19. CASE o = "register_free"
  BY <1>2, <1>7, <1>8, <1>19 DEF Names
<1>20. CASE o = "register_store"
  BY <1>2, <1>7, <1>8, <1>20 DEF Names
<1>21. CASE o = "notify_delivered"
  BY <1>2, <1>7, <1>8, <1>21 DEF Names
<1> QED
  BY <1>9, <1>11, <1>12, <1>13, <1>14, <1>15, <1>16, <1>17, <1>18, <1>19, <1>20, <1>21

\* The operation that a thread with the record o is in.
LEMMA OperationTyped ==
  ASSUME calls \in Plans, NEW t \in DOMAIN calls, NEW k \in 1..Len(calls[t])
  PROVE  /\ calls[t][k] \in DOMAIN API!Operations
         /\ API!Operations[calls[t][k]] \in Seq(CmdType)
         /\ API!Operations[calls[t][k]] = API!wait <=> calls[t][k] = "wait"
<1>1. calls[t] \in Seq(DOMAIN API!Operations)
  BY ApplicationsAssumption DEF API!APIClientAssumption
<1>2. calls[t][k] \in DOMAIN API!Operations
  BY <1>1
<1> QED
  BY <1>2, CommandsTyped DEF API!wait

LEMMA PlanTyped ==
  ASSUME calls \in Plans, NEW t \in DOMAIN calls
  PROVE  Len(calls[t]) \in Nat /\ DOMAIN calls[t] = 1..Len(calls[t])
<1>1. calls[t] \in Seq(DOMAIN API!Operations)
  BY ApplicationsAssumption DEF API!APIClientAssumption
<1> QED
  BY <1>1

\* Of two threads one only waits, and no answer has a text.
LEMMA OneSends ==
  ASSUME APIInv, NEW t \in DOMAIN calls, NEW u \in DOMAIN calls, t # u,
         API!Running(t), ~API!IsWait(t)
  PROVE  ~HasBody(t) /\ (API!Running(u) => API!IsWait(u))
<1>0. calls \in Plans /\ op[t].i \in 1..Len(calls[t])
  BY PlanTyped DEF APIInv, ThreadTypeOK, API!Running, OpType
<1>1. /\ API!OnlyWaits(calls, t) \/ API!OnlyWaits(calls, u)
      /\ \A i \in DOMAIN calls[t] : \A j \in DOMAIN API!Operations[calls[t][i]] :
           ~API!Operations[calls[t][i]][j].body
  BY <1>0, ApplicationsAssumption DEF API!APIClientAssumption
<1>2. op[t].j \in DOMAIN API!Operation(t)
  BY DEF APIInv, ThreadsInStep, InStep
<1>3. ~HasBody(t)
  BY <1>0, <1>1, <1>2, PlanTyped DEF HasBody, API!Operation
<1>4. ~API!OnlyWaits(calls, t)
  <2>1. calls[t][op[t].i] # "wait"
    BY <1>0, OperationTyped DEF API!IsWait, API!Operation
  <2> QED
    BY <1>0, <2>1, PlanTyped DEF API!OnlyWaits
<1>5. ASSUME API!Running(u) PROVE API!IsWait(u)
  <2>1. op[u].i \in 1..Len(calls[u])
    BY <1>0, <1>5, PlanTyped DEF APIInv, ThreadTypeOK, API!Running, OpType
  <2>2. calls[u][op[u].i] = "wait"
    BY <1>0, <1>1, <1>4, <2>1, PlanTyped DEF API!OnlyWaits
  <2> QED
    BY <1>0, <2>1, <2>2, OperationTyped DEF API!IsWait, API!Operation
<1> QED
  BY <1>3, <1>5

\* The types of one thread.
LEMMA ThreadTyped ==
  ASSUME APIInv, NEW t \in DOMAIN calls
  PROVE  /\ op[t] \in OpType /\ op[t].i \in Nat \ {0} /\ op[t].j \in Nat \ {0} /\ op[t].n \in Nat
         /\ got[t] \in Seq(GotType) /\ calls \in Plans
         /\ tpc[t] \in {"idle", "queue", "waiting", "reading", "failed", "text"}
         /\ Len(calls[t]) \in Nat
  BY PlanTyped DEF APIInv, ThreadTypeOK, OpType

\* The types of the queues and of what is in them.
LEMMA MessagesTyped ==
  ASSUME APIInv
  PROVE  /\ asked \in Seq(AskType) /\ Len(asked) \in Nat
         /\ statusq \in Seq(MsgType) /\ notifyq \in Seq(MsgType) /\ stream \in Seq(MsgType)
         /\ Len(statusq) \in Nat /\ Len(notifyq) \in Nat /\ Len(stream) \in Nat
         /\ \A i \in 1..Len(stream) : stream[i] \in MsgType
         /\ notified \in Nat /\ count \in Nat
         /\ eof \in {"open", "closed", "seen"}
  BY DEF APIInv, MessageTypeOK

\* Neither the thread nor its operation has changed.
LEMMA ThreadStays ==
  ASSUME NEW u, calls' = calls, op'[u] = op[u]
  PROVE  /\ API!Running(u)' <=> API!Running(u)
         /\ API!IsWait(u)' <=> API!IsWait(u)
         /\ API!Operation(u)' = API!Operation(u)
         /\ HasBody(u)' <=> HasBody(u)
  BY DEF API!Running, API!IsWait, API!Operation, HasBody

\* Threads that do nothing stay in step.
LEMMA ThreadsStay ==
  ASSUME APIInv, UNCHANGED <<calls, op, tpc, busy, statusq, notifyq, count>>
  PROVE  ThreadsInStep'
  BY DEF APIInv, ThreadsInStep, InStep, Owed, HasBody, API!Own, API!IsWait, API!Operation, API!Running

\* A sequence is its head and its tail.
LEMMA HeadAndTail ==
  ASSUME NEW S, NEW q \in Seq(S), q # <<>>
  PROVE  /\ Len(q) \in Nat /\ 1 \in 1..Len(q) /\ Head(q) = q[1] /\ q[1] \in S
         /\ Tail(q) \in Seq(S) /\ Len(Tail(q)) = Len(q) - 1
         /\ \A i \in 1..Len(Tail(q)) : i + 1 \in 1..Len(q) /\ Tail(q)[i] = q[i + 1]
<1>1. Len(q) \in Nat /\ Len(q) > 0
  OBVIOUS
<1>2. Head(q) = q[1] /\ Tail(q) \in Seq(S) /\ Len(Tail(q)) = Len(q) - 1
  BY <1>1
<1>3. \A i \in 1..Len(q) - 1 : i + 1 \in 1..Len(q) /\ Tail(q)[i] = q[i + 1]
  BY <1>1
<1>4. 1 \in 1..Len(q) /\ q[1] \in S
  BY <1>1
<1> QED
  BY <1>1, <1>2, <1>3, <1>4

LEMMA NoEntry ==
  ASSUME NEW S, NEW q \in Seq(S), Len(q) = 0
  PROVE  q = <<>>
  OBVIOUS

\* A sequence of one entry.
LEMMA OneEntry ==
  ASSUME NEW S, NEW q \in Seq(S), Len(q) = 1
  PROVE  q[1] \in S /\ Head(q) = q[1] /\ Tail(q) = <<>>
<1>1. Tail(q) \in Seq(S) /\ Len(Tail(q)) = 0
  OBVIOUS
<1>2. Tail(q) = <<>>
  BY <1>1, NoEntry, Zenon
<1>3. q[1] \in S /\ Head(q) = q[1]
  OBVIOUS
<1> QED
  BY <1>2, <1>3

\* The notifications that are in the stream afterwards were k places further on.
StreamKept(k) ==
  \A j \in 1..Len(stream') :
    stream'[j].kind = "notify" => j + k \in 1..Len(stream) /\ stream'[j] = stream[j + k]

\* Nothing is new among the notifications when the stream is read or only answers
\* are added to it.
LEMMA NotificationsStay ==
  ASSUME APIInv, NEW k \in {0, 1}, StreamKept(k), UNCHANGED <<notifyq, notified>>,
         Len(stream') \in Nat
  PROVE  NotificationsInOrder'
<1>1. \A i \in 1..Len(stream') : stream'[i].kind = "notify" => stream'[i].n <= notified'
  BY DEF StreamKept, APIInv, NotificationsInOrder
<1>2. ASSUME NEW i \in 1..Len(stream'), NEW j \in 1..Len(stream'), i < j,
             stream'[i].kind = "notify", stream'[j].kind = "notify"
      PROVE  stream'[i].n < stream'[j].n
  <2>1. /\ i + k \in 1..Len(stream) /\ stream'[i] = stream[i + k]
        /\ j + k \in 1..Len(stream) /\ stream'[j] = stream[j + k] /\ i + k < j + k
    <3>1. i + k \in 1..Len(stream) /\ stream'[i] = stream[i + k]
      BY <1>2, Zenon DEF StreamKept
    <3>2. j + k \in 1..Len(stream) /\ stream'[j] = stream[j + k]
      BY <1>2, Zenon DEF StreamKept
    <3>3. i \in Nat /\ j \in Nat /\ k \in Nat /\ i < j
      BY <1>2
    <3>4. i + k < j + k
      BY <3>3
    <3> QED
      BY <3>1, <3>2, <3>4
  <2>2. stream[i + k].kind = "notify" /\ stream[j + k].kind = "notify"
    BY <1>2, <2>1, Zenon
  <2>3. \A a, b \in 1..Len(stream) :
          a < b /\ stream[a].kind = "notify" /\ stream[b].kind = "notify" =>
            stream[a].n < stream[b].n
    BY DEF APIInv, NotificationsInOrder
  <2>4. stream[i + k].n < stream[j + k].n
    <3> DEFINE a == i + k
               b == j + k
    <3>1. a \in 1..Len(stream) /\ b \in 1..Len(stream) /\ a < b
      BY <2>1
    <3>2. stream[a].kind = "notify" /\ stream[b].kind = "notify"
      BY <2>2
    <3> HIDE DEF a, b
    <3>3. stream[a].n < stream[b].n
      BY <3>1, <3>2, <2>3
    <3> QED
      BY <3>3 DEF a, b
  <2> QED
    BY <2>1, <2>4
<1>3. \A i \in 1..Len(notifyq) : \A j \in 1..Len(stream') :
        stream'[j].kind = "notify" => notifyq[i].n < stream'[j].n
  <2> SUFFICES ASSUME NEW i \in 1..Len(notifyq), NEW j \in 1..Len(stream'),
                      stream'[j].kind = "notify"
               PROVE  notifyq[i].n < stream'[j].n
    OBVIOUS
  <2>1. j + k \in 1..Len(stream) /\ stream'[j] = stream[j + k]
    BY DEF StreamKept
  <2> QED
    BY <2>1 DEF APIInv, NotificationsInOrder
<1> QED
  BY <1>1, <1>2, <1>3 DEF APIInv, NotificationsInOrder

LEMMA GotStays ==
  ASSUME APIInv, NEW k \in {0, 1}, StreamKept(k), UNCHANGED <<notifyq, notified, got, calls>>,
         Len(stream') \in Nat
  PROVE  GotInOrder'
<1> SUFFICES ASSUME NEW t \in DOMAIN calls, NEW i \in 1..Len(got[t]), got[t][i].n = 0,
                    NEW j \in 1..Len(stream'), stream'[j].kind = "notify"
             PROVE  got[t][i].m.n < stream'[j].n
  BY DEF APIInv, GotInOrder, API!Msg, API!Empty
<1>1. j + k \in 1..Len(stream) /\ stream'[j] = stream[j + k]
  BY DEF StreamKept
<1> QED
  BY <1>1 DEF APIInv, GotInOrder

\* The daemon answers the last command, with a text or without.
LEMMA CommandAnswered ==
  ASSUME APIInv, API!Answer
  PROVE  APIInv'
<1> USE MessagesTyped
<1>1. /\ asked # <<>> /\ eof = "open" /\ asked' = Tail(asked)
      /\ UNCHANGED <<calls, op, tpc, busy, statusq, notifyq, eof, notified, got, count>>
  BY DEF API!Answer
<1>2. /\ Len(asked) = 1 /\ asked[1].n = count /\ statusq = <<>>
      /\ \A i \in 1..Len(stream) : stream[i].kind = "notify"
  BY <1>1 DEF APIInv, AnswerInOnePlace
<1>3. PICK s \in DOMAIN calls : Owed(s) /\ tpc[s] # "text" /\ (asked[1].body = HasBody(s))
  BY <1>1 DEF APIInv, AnswerInOnePlace
<1>4. Head(asked) = asked[1] /\ asked' = <<>> /\ asked[1].body \in BOOLEAN
  <2>0. asked \in Seq(AskType) /\ Len(asked) = 1
    BY <1>2
  <2>1. asked[1] \in AskType /\ Head(asked) = asked[1] /\ Tail(asked) = <<>>
    BY <2>0, OneEntry
  <2> QED
    BY <1>1, <2>1 DEF AskType
<1> DEFINE b == asked[1].body
           L == Len(stream)
<1>5. PICK ok \in BOOLEAN :
        stream' = stream \o <<API!Msg("status", count, ok)>> \o
                    (IF ok /\ b THEN <<API!Msg("text", count, ok)>> ELSE <<>>)
  BY <1>2, <1>4 DEF API!Answer
<1> DEFINE m == API!Msg("status", count, ok)
           x == API!Msg("text", count, TRUE)
<1>6. /\ m \in MsgType /\ m.kind = "status" /\ m.n = count /\ m.ok = ok
      /\ x \in MsgType /\ x.kind = "text"
  BY DEF MsgType, API!Msg
<1> HIDE DEF m, x
<1>7. /\ stream' \in Seq(MsgType)
      /\ Len(stream') = IF ok /\ b THEN L + 2 ELSE L + 1
      /\ \A i \in 1..L : stream'[i] = stream[i]
      /\ stream'[L + 1] = m
      /\ ok /\ b => stream'[L + 2] = x
  <2>1. CASE ok /\ b
    <3>1. stream' = stream \o <<m>> \o <<x>>
      BY <1>5, <2>1 DEF m, x
    <3> QED
      BY <1>6, <2>1, <3>1
  <2>2. CASE ~(ok /\ b)
    <3>1. stream' = stream \o <<m>> \o <<>>
      BY <1>5, <2>2 DEF m
    <3> QED
      BY <1>6, <2>2, <3>1
  <2> QED
    BY <2>1, <2>2
<1>8. \A i \in 1..Len(stream') :
        \/ i \in 1..L /\ stream'[i] = stream[i] /\ stream'[i].kind = "notify"
        \/ i = L + 1 /\ stream'[i] = m
        \/ i = L + 2 /\ stream'[i] = x /\ ok /\ b
  BY <1>2, <1>7
<1>9. /\ L \in Nat /\ L + 1 \in 1..Len(stream') /\ Len(stream') \in Nat
      /\ ok /\ b => L + 2 \in 1..Len(stream')
  BY <1>7
<1>10. \A t \in DOMAIN calls : tpc[t] # "text"
  <2> SUFFICES ASSUME NEW t \in DOMAIN calls, tpc[t] = "text" PROVE FALSE
    OBVIOUS
  <2>0. stream # <<>> /\ stream[1] = API!Msg("text", op[t].n, TRUE)
    BY DEF APIInv, TextsFollow
  <2>1. stream # <<>> /\ stream[1].kind = "text"
    BY <2>0 DEF API!Msg
  <2>2. 1 \in 1..Len(stream)
    BY <2>1
  <2> QED
    BY <1>2, <2>1, <2>2
<1> HIDE DEF L
<1>11. StreamKept(0)
  <2> SUFFICES ASSUME NEW j \in 1..Len(stream'), stream'[j].kind = "notify"
               PROVE  j + 0 \in 1..Len(stream) /\ stream'[j] = stream[j + 0]
    BY DEF StreamKept
  <2>1. j \in 1..L /\ stream'[j] = stream[j] /\ j + 0 = j
    BY <1>6, <1>8
  <2> QED
    BY <2>1 DEF L
<1>12. ThreadTypeOK' /\ MessageTypeOK'
  <2>1. asked' \in Seq(AskType)
    BY <1>4
  <2> QED
    BY <1>1, <1>7, <2>1 DEF APIInv, ThreadTypeOK, MessageTypeOK
<1>13. /\ \A t \in DOMAIN calls : /\ Owed(t)' <=> Owed(t)
                                  /\ HasBody(t)' <=> HasBody(t)
       /\ API!Empty' = API!Empty
  BY <1>1, ThreadStays DEF Owed, API!Empty
<1>16. ThreadsInStep'
  BY <1>1, ThreadsStay
<1>14. AnswerInOnePlace'
  <2>1. ASSUME NEW i \in 1..Len(stream'), stream'[i].kind = "status"
        PROVE  /\ i = L + 1 /\ stream'[i].n = count
               /\ stream'[i].ok /\ HasBody(s) =>
                    i + 1 \in 1..Len(stream') /\ stream'[i + 1].kind = "text"
    <3>1. i = L + 1 /\ stream'[i] = m
      BY <1>6, <1>8, <2>1
    <3>2. (L + 1) + 1 = L + 2
      BY <1>9
    <3> QED
      BY <1>3, <1>6, <1>7, <1>9, <3>1, <3>2
  <2>2. \A i \in 1..Len(stream') : stream'[i].kind = "status" =>
          /\ stream'[i].n = count'
          /\ \A k \in 1..Len(stream') : stream'[k].kind = "status" => k = i
          /\ Owed(s)' /\ tpc'[s] # "text"
          /\ stream'[i].ok /\ HasBody(s)' =>
                i + 1 \in 1..Len(stream') /\ stream'[i + 1].kind = "text"
    BY <1>1, <1>3, <1>13, <2>1
  <2>3. asked' = <<>> /\ statusq' = <<>> /\ Len(statusq') = 0 /\ eof' = "open"
    BY <1>1, <1>2, <1>4
  <2>4. \A i \in 1..Len(stream') : stream'[i].kind = "status" =>
          /\ stream'[i].n = count' /\ statusq' = <<>>
          /\ \A k \in 1..Len(stream') : stream'[k].kind = "status" => k = i
          /\ \E t \in DOMAIN calls' :
               /\ Owed(t)' /\ tpc'[t] # "text"
               /\ stream'[i].ok /\ HasBody(t)' =>
                    i + 1 \in 1..Len(stream') /\ stream'[i + 1].kind = "text"
    BY <1>1, <2>2, <2>3
  <2>5. \A i \in 1..Len(statusq') : FALSE
    BY <2>3
  <2> QED
    BY <2>3, <2>4, <2>5 DEF AnswerInOnePlace
<1>15. TextsFollow'
  <2>1. ASSUME NEW i \in 1..Len(stream'), stream'[i].kind = "text"
        PROVE  /\ stream'[i] = x /\ i - 1 \in 1..Len(stream') /\ stream'[i - 1] = m /\ ok /\ b
    <3>1. i = L + 2 /\ stream'[i] = x /\ ok /\ b
      BY <1>6, <1>8, <2>1
    <3>2. i - 1 = L + 1
      BY <1>9, <3>1
    <3> QED
      BY <1>7, <1>9, <3>1, <3>2
  <2>2. ASSUME NEW i \in 1..Len(stream'), stream'[i].kind = "text"
        PROVE  /\ stream'[i] = API!Msg("text", count', TRUE)
               /\ i - 1 \in 1..Len(stream') /\ stream'[i - 1].kind = "status"
               /\ stream'[i - 1].ok /\ Owed(s)' /\ HasBody(s)'
    BY <1>1, <1>3, <1>6, <1>13, <2>1, <2>2 DEF x
  <2> QED
    BY <1>1, <1>10, <2>2 DEF TextsFollow
<1> QED
  BY <1>1, <1>9, <1>11, <1>12, <1>14, <1>15, <1>16, NotificationsStay, GotStays DEF APIInv

\* Nothing that has been sent is changed by one more notification.
LEMMA DaemonNotifies ==
  ASSUME APIInv, API!Notify
  PROVE  APIInv'
<1> DEFINE m == API!Msg("notify", notified + 1, TRUE)
           L == Len(stream)
<1>1. /\ notified' = notified + 1 /\ stream' = Append(stream, m)
      /\ UNCHANGED <<calls, op, tpc, busy, statusq, notifyq, asked, eof, got, count>>
  BY DEF API!Notify
<1>2. stream \in Seq(MsgType) /\ L \in Nat /\ notified \in Nat
  BY MessagesTyped
<1>3. m \in MsgType /\ m.kind = "notify" /\ m.n = notified + 1
  BY <1>2 DEF MsgType, API!Msg
<1> HIDE DEF m
<1>4. /\ stream' \in Seq(MsgType) /\ Len(stream') = L + 1 /\ stream'[L + 1] = m
      /\ \A i \in 1..L : stream'[i] = stream[i]
  BY <1>1, <1>2, <1>3
<1>5. /\ \A i \in 1..Len(stream') :
           \/ i \in 1..L /\ stream'[i] = stream[i]
           \/ i = L + 1 /\ stream'[i] = m
      /\ \A i \in 1..L : i \in 1..Len(stream')
  BY <1>2, <1>4
<1>6. /\ \A t \in DOMAIN calls : /\ Owed(t)' <=> Owed(t)
                                 /\ HasBody(t)' <=> HasBody(t)
      /\ API!Empty' = API!Empty
  BY <1>1, ThreadStays DEF Owed, API!Empty
<1>7. ThreadTypeOK' /\ MessageTypeOK'
  <2>1. notified' \in Nat
    BY <1>1, <1>2
  <2> QED
    BY <1>1, <1>4, <2>1 DEF APIInv, ThreadTypeOK, MessageTypeOK
<1>8. ThreadsInStep'
  BY <1>1, ThreadsStay
<1>9. AnswerInOnePlace'
  <2>0. eof # "seen"
    BY DEF API!Notify
  <2>1. eof' = "open" /\ asked' # <<>> =>
           /\ Len(asked) = 1 /\ asked[1].n = count
           /\ statusq = <<>> /\ \A i \in 1..Len(stream') : stream'[i].kind = "notify"
           /\ \E s \in DOMAIN calls : /\ Owed(s)' /\ tpc'[s] # "text"
                                      /\ asked[1].body = HasBody(s)'
    <3> SUFFICES ASSUME eof = "open", asked # <<>>
                 PROVE  /\ Len(asked) = 1 /\ asked[1].n = count
                        /\ statusq = <<>> /\ \A i \in 1..Len(stream') : stream'[i].kind = "notify"
                        /\ \E s \in DOMAIN calls : /\ Owed(s)' /\ tpc'[s] # "text"
                                                   /\ asked[1].body = HasBody(s)'
      BY <1>1
    <3>1. /\ Len(asked) = 1 /\ asked[1].n = count /\ statusq = <<>>
          /\ \A i \in 1..L : stream[i].kind = "notify"
      BY DEF APIInv, AnswerInOnePlace
    <3>2. PICK s \in DOMAIN calls : Owed(s) /\ tpc[s] # "text" /\ (asked[1].body = HasBody(s))
      BY DEF APIInv, AnswerInOnePlace
    <3>3. Owed(s)' /\ tpc'[s] # "text" /\ (asked[1].body = HasBody(s)')
      <4>1. HasBody(s)' = HasBody(s)
        BY <1>1 DEF HasBody, API!Operation
      <4> QED
        BY <1>1, <1>6, <3>2, <4>1
    <3>4. \A i \in 1..Len(stream') : stream'[i].kind = "notify"
      BY <1>3, <1>5, <3>1
    <3> QED
      BY <3>1, <3>3, <3>4
  <2>2. ASSUME NEW i \in 1..Len(statusq)
        PROVE  /\ i = 1 /\ statusq[1] = API!Msg("status", count, statusq[1].ok)
               /\ \A k \in 1..Len(stream') : stream'[k].kind = "notify"
               /\ \E s \in DOMAIN calls : Owed(s)' /\ tpc'[s] # "text" /\ ~HasBody(s)'
    BY <1>1, <1>3, <1>5, <1>6, <2>0 DEF APIInv, AnswerInOnePlace
  <2>3. ASSUME NEW i \in 1..Len(stream'), stream'[i].kind = "status"
        PROVE  /\ stream'[i].n = count /\ statusq = <<>>
               /\ \A k \in 1..Len(stream') : stream'[k].kind = "status" => k = i
               /\ \E s \in DOMAIN calls :
                    /\ Owed(s)' /\ tpc'[s] # "text"
                    /\ stream'[i].ok /\ HasBody(s)' =>
                         i + 1 \in 1..Len(stream') /\ stream'[i + 1].kind = "text"
    <3>1. i \in 1..L /\ stream'[i] = stream[i] /\ stream[i].kind = "status"
      BY <1>3, <1>5, <2>3
    <3>2. stream[i].n = count /\ statusq = <<>>
      BY <3>1 DEF APIInv, AnswerInOnePlace
    <3>3. \A k \in 1..Len(stream') : stream'[k].kind = "status" => k = i
      BY <1>3, <1>5, <3>1 DEF APIInv, AnswerInOnePlace
    <3>4. PICK s \in DOMAIN calls :
            /\ Owed(s) /\ tpc[s] # "text"
            /\ stream[i].ok /\ HasBody(s) => i + 1 \in 1..L /\ stream[i + 1].kind = "text"
      BY <3>1 DEF APIInv, AnswerInOnePlace
    <3>5. stream'[i].ok /\ HasBody(s)' =>
            i + 1 \in 1..Len(stream') /\ stream'[i + 1].kind = "text"
      BY <1>4, <1>5, <1>6, <3>1, <3>4
    <3> QED
      BY <1>1, <1>6, <3>1, <3>2, <3>3, <3>4, <3>5
  <2> QED
    BY <1>1, <2>0, <2>1, <2>2, <2>3 DEF AnswerInOnePlace
<1>10. TextsFollow'
  <2>1. ASSUME NEW t \in DOMAIN calls, tpc[t] = "text"
        PROVE  stream' # <<>> /\ stream'[1] = API!Msg("text", op[t].n, TRUE)
    <3>1. stream # <<>> /\ stream[1] = API!Msg("text", op[t].n, TRUE)
      BY <2>1 DEF APIInv, TextsFollow
    <3>2. 1 \in 1..L /\ stream'[1] = stream[1]
      BY <1>2, <1>4, <3>1, HeadAndTail
    <3>3. stream' # <<>>
      BY <1>2, <1>4
    <3> QED
      BY <3>1, <3>2, <3>3
  <2>2. ASSUME NEW i \in 1..Len(stream'), stream'[i].kind = "text"
        PROVE  /\ stream'[i] = API!Msg("text", count, TRUE)
               /\ \/ /\ i - 1 \in 1..Len(stream') /\ stream'[i - 1].kind = "status"
                     /\ stream'[i - 1].ok
                  \/ i = 1 /\ \E t \in DOMAIN calls : tpc[t] = "text"
               /\ \E s \in DOMAIN calls : Owed(s)' /\ HasBody(s)'
    <3>1. i \in 1..L /\ stream'[i] = stream[i] /\ stream[i].kind = "text"
      BY <1>3, <1>5, <2>2
    <3>2. \/ /\ i - 1 \in 1..L /\ stream[i - 1].kind = "status" /\ stream[i - 1].ok
          \/ i = 1 /\ \E t \in DOMAIN calls : tpc[t] = "text"
      BY <3>1 DEF APIInv, TextsFollow
    <3>3. stream[i] = API!Msg("text", count, TRUE)
      BY <3>1 DEF APIInv, TextsFollow
    <3>4. \E s \in DOMAIN calls : Owed(s)' /\ HasBody(s)'
      BY <1>6, <3>1 DEF APIInv, TextsFollow
    <3> QED
      BY <1>4, <1>5, <3>1, <3>2, <3>3, <3>4
  <2> QED
    BY <1>1, <2>1, <2>2 DEF TextsFollow
<1>11. NotificationsInOrder'
  <2>1. \A i \in 1..Len(stream') : stream'[i].kind = "notify" => stream'[i].n <= notified'
    BY <1>1, <1>2, <1>3, <1>5, MessagesTyped DEF APIInv, NotificationsInOrder, MsgType
  <2>2. ASSUME NEW i \in 1..Len(stream'), NEW j \in 1..Len(stream'), i < j,
               stream'[i].kind = "notify", stream'[j].kind = "notify"
        PROVE  stream'[i].n < stream'[j].n
    <3>1. i \in 1..L /\ stream'[i] = stream[i]
      BY <1>2, <1>4, <1>5, <2>2
    <3>2. CASE j \in 1..L /\ stream'[j] = stream[j]
      BY <2>2, <3>1, <3>2 DEF APIInv, NotificationsInOrder
    <3>3. CASE j = L + 1 /\ stream'[j] = m
      <4>1. stream[i].n <= notified /\ stream[i].n \in Nat
        BY <2>2, <3>1, MessagesTyped DEF APIInv, NotificationsInOrder, MsgType
      <4> QED
        BY <1>2, <1>3, <3>1, <3>3, <4>1
    <3> QED
      BY <1>5, <3>2, <3>3
  <2>3. ASSUME NEW i \in 1..Len(notifyq)
        PROVE  /\ notifyq[i].kind = "notify" /\ notifyq[i].n <= notified + 1
               /\ \A j \in 1..Len(stream') :
                    stream'[j].kind = "notify" => notifyq[i].n < stream'[j].n
    <3>1. notifyq[i].kind = "notify" /\ notifyq[i].n <= notified
      BY DEF APIInv, NotificationsInOrder
    <3>2. notifyq[i].n \in Nat
      <4>1. notifyq[i] \in MsgType
        BY MessagesTyped
      <4> QED
        BY <4>1 DEF MsgType
    <3>3. notifyq[i].n < m.n /\ notifyq[i].n <= notified + 1
      BY <1>2, <1>3, <3>1, <3>2
    <3> QED
      BY <1>5, <3>1, <3>3 DEF APIInv, NotificationsInOrder
  <2> QED
    BY <1>1, <2>1, <2>2, <2>3 DEF APIInv, NotificationsInOrder
<1>12. GotInOrder'
  <2> SUFFICES ASSUME NEW t \in DOMAIN calls, NEW i \in 1..Len(got[t]), got[t][i].n = 0
               PROVE  /\ got[t][i].m.n <= notified + 1
                      /\ \A j \in 1..Len(stream') :
                           stream'[j].kind = "notify" => got[t][i].m.n < stream'[j].n
    BY <1>1 DEF APIInv, GotInOrder, API!Empty, API!Msg
  <2>1. got[t][i].m.n <= notified
    BY DEF APIInv, GotInOrder
  <2>2. got[t][i].m.n \in Nat
    <3>0. got[t] \in Seq(GotType)
      BY ThreadTyped
    <3>1. got[t][i] \in GotType
      BY <3>0
    <3> QED
      BY <3>1 DEF GotType, MsgType
  <2>3. got[t][i].m.n < m.n /\ got[t][i].m.n <= notified + 1
    BY <1>2, <1>3, <2>1, <2>2
  <2> QED
    BY <1>5, <2>3 DEF APIInv, GotInOrder
<1> QED
  BY <1>7, <1>8, <1>9, <1>10, <1>11, <1>12 DEF APIInv

\* Either side closes the connection.
LEMMA ConnectionCloses ==
  ASSUME APIInv, API!Close
  PROVE  APIInv'
<1>1. /\ eof = "open" /\ eof' = "closed"
      /\ UNCHANGED <<calls, op, tpc, busy, statusq, notifyq, stream, asked, notified, got, count>>
  BY DEF API!Close
<1>2. ThreadTypeOK' /\ MessageTypeOK'
  BY <1>1 DEF APIInv, ThreadTypeOK, MessageTypeOK
<1>3. ThreadsInStep'
  BY <1>1, ThreadsStay
<1>4. \A t \in DOMAIN calls : (Owed(t)' <=> Owed(t)) /\ (HasBody(t)' <=> HasBody(t))
  BY <1>1, ThreadStays DEF Owed
<1>5. AnswerInOnePlace' /\ TextsFollow'
  BY <1>1, <1>4 DEF APIInv, AnswerInOnePlace, TextsFollow, API!Msg, API!Empty
<1>6. NotificationsInOrder' /\ GotInOrder'
  BY <1>1 DEF APIInv, NotificationsInOrder, GotInOrder, API!Msg, API!Empty
<1> QED
  BY <1>2, <1>3, <1>5, <1>6 DEF APIInv

\* What is owed to a thread is still owed to it.
OwedKept ==
  /\ \A s \in DOMAIN calls : Owed(s) =>
       /\ Owed(s)' /\ (HasBody(s)' = HasBody(s))
       /\ tpc'[s] = "text" <=> tpc[s] = "text"
  /\ \A s \in DOMAIN calls : tpc'[s] = "text" => tpc[s] = "text" /\ op'[s].n = op[s].n

LEMMA TextIsOwed ==
  ASSUME APIInv, NEW t \in DOMAIN calls, tpc[t] = "text"
  PROVE  Owed(t)
  BY DEF APIInv, ThreadsInStep, InStep, Owed

\* Whoever was owed an answer still is, and the answer is where it was.
LEMMA AnswersStay ==
  ASSUME APIInv, OwedKept, UNCHANGED <<calls, count, stream, asked, statusq, eof>>
  PROVE  AnswerInOnePlace' /\ TextsFollow'
<1>0. API!Empty' = API!Empty /\ \A k, n, ok : API!Msg(k, n, ok)' = API!Msg(k, n, ok)
  OBVIOUS
<1>1. AnswerInOnePlace'
  <2>1. eof = "open" /\ asked # <<>> =>
           /\ Len(asked) = 1 /\ asked[1].n = count
           /\ statusq = <<>> /\ \A i \in 1..Len(stream) : stream[i].kind = "notify"
           /\ \E s \in DOMAIN calls : /\ Owed(s)' /\ tpc'[s] # "text"
                                      /\ asked[1].body = HasBody(s)'
    BY DEF APIInv, AnswerInOnePlace, OwedKept
  <2>2. ASSUME NEW i \in 1..Len(statusq), ~(statusq[i] = API!Empty /\ eof = "seen")
        PROVE  /\ i = 1 /\ statusq[1] = API!Msg("status", count, statusq[1].ok)
               /\ \A k \in 1..Len(stream) : stream[k].kind = "notify"
               /\ \E s \in DOMAIN calls : Owed(s)' /\ tpc'[s] # "text" /\ ~HasBody(s)'
    BY <2>2 DEF APIInv, AnswerInOnePlace, OwedKept
  <2>3. ASSUME NEW i \in 1..Len(stream), stream[i].kind = "status"
        PROVE  /\ stream[i].n = count /\ statusq = <<>>
               /\ \A k \in 1..Len(stream) : stream[k].kind = "status" => k = i
               /\ \E s \in DOMAIN calls :
                    /\ Owed(s)' /\ tpc'[s] # "text"
                    /\ stream[i].ok /\ HasBody(s)' =>
                         i + 1 \in 1..Len(stream) /\ stream[i + 1].kind = "text"
    BY <2>3 DEF APIInv, AnswerInOnePlace, OwedKept
  <2>4. eof = "seen" => stream = <<>>
    BY DEF APIInv, AnswerInOnePlace
  <2> QED
    BY <2>1, <2>2, <2>3, <2>4 DEF AnswerInOnePlace
<1>2. TextsFollow'
  <2>1. ASSUME NEW t \in DOMAIN calls, tpc'[t] = "text"
        PROVE  stream # <<>> /\ stream[1] = API!Msg("text", op'[t].n, TRUE)
    BY <2>1 DEF APIInv, TextsFollow, OwedKept
  <2>2. ASSUME NEW i \in 1..Len(stream), stream[i].kind = "text"
        PROVE  /\ stream[i] = API!Msg("text", count, TRUE)
               /\ \/ /\ i - 1 \in 1..Len(stream) /\ stream[i - 1].kind = "status"
                     /\ stream[i - 1].ok
                  \/ i = 1 /\ \E t \in DOMAIN calls : tpc'[t] = "text"
               /\ \E s \in DOMAIN calls : Owed(s)' /\ HasBody(s)'
    <3>1. \A t \in DOMAIN calls : tpc[t] = "text" => tpc'[t] = "text"
      BY TextIsOwed DEF OwedKept
    <3> QED
      BY <2>2, <3>1 DEF APIInv, TextsFollow, OwedKept
  <2> QED
    BY <2>1, <2>2 DEF TextsFollow
<1> QED
  BY <1>1, <1>2

\* Thread t moves, and threads that wait may be woken.
Moves(t) ==
  /\ calls' = calls
  /\ \A u \in DOMAIN calls \ {t} :
       op'[u] = op[u] /\ (tpc'[u] = tpc[u] \/ (tpc[u] = "waiting" /\ tpc'[u] = "queue"))

\* A thread that is at most woken is owed what it was.
LEMMA OthersStay ==
  ASSUME APIInv, NEW t, Moves(t), NEW u \in DOMAIN calls, u # t
  PROVE  /\ Owed(u)' <=> Owed(u)
         /\ HasBody(u)' = HasBody(u)
         /\ API!IsWait(u)' <=> API!IsWait(u)
         /\ tpc'[u] = "text" <=> tpc[u] = "text"
         /\ tpc'[u] = "reading" <=> tpc[u] = "reading"
         /\ op'[u] = op[u]
<1>1. calls' = calls /\ op'[u] = op[u]
      /\ (tpc'[u] = tpc[u] \/ (tpc[u] = "waiting" /\ tpc'[u] = "queue"))
  BY DEF Moves
<1>2. HasBody(u)' = HasBody(u)
  BY <1>1 DEF HasBody, API!Operation
<1>3. API!IsWait(u)' <=> API!IsWait(u)
  BY <1>1, ThreadStays
<1>4. Owed(u)' <=> Owed(u)
  BY <1>1, <1>3 DEF Owed
<1> QED
  BY <1>1, <1>2, <1>3, <1>4

\* The thread that moves is in step, so all are.
LEMMA ThreadsMove ==
  ASSUME APIInv, NEW t \in DOMAIN calls, Moves(t), InStep(t)',
         count' = count \/ \A u \in DOMAIN calls \ {t} : ~Owed(u),
         \A u \in DOMAIN calls \ {t} :
           tpc[u] = "reading" => API!Own(u)' = <<>> /\ busy' /\ tpc'[t] # "reading"
  PROVE  ThreadsInStep'
<1>1. calls' = calls
  BY DEF Moves
<1>2. ASSUME NEW u \in DOMAIN calls, u # t
      PROVE  InStep(u)'
  <2>1. InStep(u)
    BY DEF APIInv, ThreadsInStep
  <2>2. /\ API!Running(u)' <=> API!Running(u)
        /\ API!Operation(u)' = API!Operation(u)
        /\ HasBody(u)' <=> HasBody(u)
    BY <1>2, ThreadStays DEF Moves
  <2>3. tpc'[u] = "idle" <=> tpc[u] = "idle"
    BY <1>2 DEF Moves
  <2>4. Owed(u)' => op'[u].n = count' /\ count' > 0
    BY <1>2, <2>1, OthersStay DEF InStep
  <2>5. tpc'[u] = "reading" => busy' /\ API!Own(u)' = <<>>
    BY <1>2, OthersStay
  <2> QED
    BY <1>2, <2>1, <2>2, <2>3, <2>4, <2>5, OthersStay DEF InStep
<1>3. \A u, v \in DOMAIN calls : tpc'[u] = "reading" /\ tpc'[v] = "reading" => u = v
  BY OthersStay DEF APIInv, ThreadsInStep
<1> QED
  BY <1>1, <1>2, <1>3 DEF ThreadsInStep

\* While nothing is owed there is no answer anywhere.
LEMMA NothingOwed ==
  ASSUME APIInv, \A s \in DOMAIN calls : ~Owed(s)
  PROVE  /\ eof = "open" => asked = <<>> /\ statusq = <<>>
         /\ \A i \in 1..Len(stream) : stream[i].kind = "notify"
         /\ \A i \in 1..Len(statusq) : statusq[i] = API!Empty /\ eof = "seen"
         /\ \A t \in DOMAIN calls : tpc[t] # "text"
<1>1. eof = "open" => asked = <<>>
  BY DEF APIInv, AnswerInOnePlace
<1>2. \A i \in 1..Len(statusq) : statusq[i] = API!Empty /\ eof = "seen"
  BY DEF APIInv, AnswerInOnePlace
<1>3. eof = "open" => statusq = <<>>
  BY <1>2, MessagesTyped, HeadAndTail
<1>4. ASSUME NEW i \in 1..Len(stream)
      PROVE  stream[i].kind = "notify"
  <2>1. stream[i].kind # "status" /\ stream[i].kind # "text"
    BY DEF APIInv, AnswerInOnePlace, TextsFollow
  <2>2. stream[i] \in MsgType
    BY MessagesTyped
  <2> QED
    BY <2>1, <2>2 DEF MsgType
<1> QED
  BY <1>1, <1>2, <1>3, <1>4, TextIsOwed

\* The record of a thread fits the operation it names.
FitsOperation(t) ==
  API!Running(t) =>
    /\ API!IsWait(t) => op[t].n = 0
    /\ ~API!IsWait(t) => op[t].j \in DOMAIN API!Operation(t)

\* The next command of the operation, or the next operation.
LEMMA OperationGoesOn ==
  ASSUME APIInv, calls' = calls, NEW t \in DOMAIN calls, API!Running(t),
         op' \in {API!NextOp(t), API!NextCmd(t)}
  PROVE  /\ op' \in [DOMAIN calls -> OpType] /\ FitsOperation(t)'
         /\ \A u \in DOMAIN calls \ {t} : op'[u] = op[u]
<1>0. /\ op \in [DOMAIN calls -> OpType] /\ op[t].i \in Nat \ {0} /\ op[t].j \in Nat \ {0}
      /\ op[t].n \in Nat /\ Len(calls[t]) \in Nat /\ calls \in Plans
  BY ThreadTyped DEF APIInv, ThreadTypeOK
<1>1. CASE op' = API!NextOp(t)
  <2> DEFINE o == [i |-> op[t].i + 1, j |-> 1, n |-> 0]
  <2>1. op' = [op EXCEPT ![t] = o]
    BY <1>1 DEF API!NextOp
  <2>2. o \in OpType /\ o.i = op[t].i + 1 /\ o.j = 1 /\ o.n = 0
    BY <1>0 DEF OpType
  <2> HIDE DEF o
  <2>3. /\ op' \in [DOMAIN calls -> OpType] /\ op'[t] = o
        /\ \A u \in DOMAIN calls \ {t} : op'[u] = op[u]
    BY <1>0, <2>1, <2>2
  <2>4. ASSUME API!Running(t)'
        PROVE  ~API!IsWait(t)' => op'[t].j \in DOMAIN API!Operation(t)'
    <3>1. o.i \in 1..Len(calls[t])
      BY <1>0, <2>2, <2>3, <2>4 DEF API!Running
    <3>2. API!Operation(t)' = API!Operations[calls[t][o.i]]
      BY <2>3 DEF API!Operation
    <3>3. /\ API!Operation(t)' \in Seq(CmdType)
          /\ ~API!IsWait(t)' => API!Operation(t)' # <<>>
      BY <1>0, <3>1, <3>2, OperationTyped DEF API!IsWait, API!wait
    <3> HIDE DEF API!Operation
    <3>4. ~API!IsWait(t)' => 1 \in 1..Len(API!Operation(t)')
      BY <3>3, HeadAndTail
    <3>5. DOMAIN API!Operation(t)' = 1..Len(API!Operation(t)')
      BY <3>3
    <3> QED
      BY <2>2, <2>3, <3>4, <3>5
  <2> QED
    BY <2>2, <2>3, <2>4 DEF FitsOperation
<1>2. CASE op' = [op EXCEPT ![t].j = op[t].j + 1] /\ op[t].j < Len(API!Operation(t))
  <2> DEFINE o == [op[t] EXCEPT !.j = op[t].j + 1]
  <2>1. op' = [op EXCEPT ![t] = o]
    BY <1>2
  <2>2. o \in OpType /\ o.i = op[t].i /\ o.j = op[t].j + 1 /\ o.n = op[t].n
    <3>1. op[t] \in OpType
      BY <1>0
    <3>2. ASSUME NEW k \in Nat \ {0}
          PROVE  /\ [op[t] EXCEPT !.j = k] \in OpType /\ [op[t] EXCEPT !.j = k].i = op[t].i
                 /\ [op[t] EXCEPT !.j = k].j = k /\ [op[t] EXCEPT !.j = k].n = op[t].n
      BY <3>1 DEF OpType
    <3>3. op[t].j + 1 \in Nat \ {0}
      BY <1>0
    <3> QED
      BY <3>2, <3>3
  <2> HIDE DEF o
  <2>3. /\ op' \in [DOMAIN calls -> OpType] /\ op'[t] = o
        /\ \A u \in DOMAIN calls \ {t} : op'[u] = op[u]
    BY <1>0, <2>1, <2>2
  <2>4. API!Operation(t)' = API!Operation(t)
    BY <2>2, <2>3 DEF API!Operation
  <2>5. API!Operation(t) \in Seq(CmdType)
    BY <1>0, OperationTyped DEF API!Operation, API!Running
  <2>6. op'[t].j \in DOMAIN API!Operation(t)
    BY <1>0, <1>2, <2>2, <2>3, <2>5
  <2>7. API!IsWait(t)' => op'[t].n = 0
    BY <2>2, <2>3, <2>4 DEF API!IsWait, APIInv, ThreadsInStep, InStep
  <2> QED
    BY <2>3, <2>4, <2>6, <2>7 DEF FitsOperation
<1> QED
  BY <1>1, <1>2 DEF API!NextCmd

\* A call of __get_return() or wait() returns m.
LEMMA CallReturns ==
  ASSUME APIInv, UNCHANGED <<calls, count>>, NEW t \in DOMAIN calls,
         tpc[t] \in {"queue", "reading"}, NEW m \in MsgType,
         NEW pcs, pcs \in [DOMAIN calls -> {"idle", "queue", "waiting", "reading", "failed", "text"}],
         \A u \in DOMAIN calls : pcs[u] = tpc[u] \/ (tpc[u] = "waiting" /\ pcs[u] = "queue"),
         API!Return(t, m, pcs)
  PROVE  /\ ThreadTypeOK' /\ Moves(t) /\ InStep(t)'
         /\ \/ tpc'[t] = "idle" /\ ~(~API!IsWait(t) /\ m.ok /\ HasBody(t))
            \/ /\ tpc'[t] = "text" /\ ~API!IsWait(t) /\ m.ok /\ HasBody(t)
               /\ op'[t] = op[t] /\ Owed(t)' /\ HasBody(t)'
         /\ got'[t] = Append(got[t], [m |-> m, n |-> op[t].n])
         /\ \A u \in DOMAIN calls \ {t} : got'[u] = got[u]
<1>0. API!Running(t) /\ InStep(t)
  BY DEF APIInv, ThreadsInStep, InStep
<1>1. /\ got' = [got EXCEPT ![t] = Append(got[t], [m |-> m, n |-> op[t].n])]
      /\ \/ /\ ~(~API!IsWait(t) /\ m.ok /\ HasBody(t))
            /\ op' \in {API!NextOp(t), API!NextCmd(t)} /\ tpc' = [pcs EXCEPT ![t] = "idle"]
         \/ /\ ~API!IsWait(t) /\ m.ok /\ HasBody(t)
            /\ op' = op /\ tpc' = [pcs EXCEPT ![t] = "text"]
  BY DEF API!Return, HasBody
<1>2. /\ got' \in [DOMAIN calls -> Seq(GotType)]
      /\ got'[t] = Append(got[t], [m |-> m, n |-> op[t].n])
      /\ \A u \in DOMAIN calls \ {t} : got'[u] = got[u]
  <2>1. [m |-> m, n |-> op[t].n] \in GotType
    BY ThreadTyped DEF GotType
  <2>2. Append(got[t], [m |-> m, n |-> op[t].n]) \in Seq(GotType)
    BY <2>1, ThreadTyped
  <2>3. got \in [DOMAIN calls -> Seq(GotType)]
    BY DEF APIInv, ThreadTypeOK
  <2> QED
    BY <1>1, <2>2, <2>3
<1>3. CASE /\ ~(~API!IsWait(t) /\ m.ok /\ HasBody(t))
           /\ op' \in {API!NextOp(t), API!NextCmd(t)} /\ tpc' = [pcs EXCEPT ![t] = "idle"]
  <2>1. /\ op' \in [DOMAIN calls -> OpType] /\ FitsOperation(t)'
        /\ \A u \in DOMAIN calls \ {t} : op'[u] = op[u]
    BY <1>0, <1>3, OperationGoesOn
  <2>2. /\ tpc' \in [DOMAIN calls -> {"idle", "queue", "waiting", "reading", "failed", "text"}]
        /\ tpc'[t] = "idle" /\ \A u \in DOMAIN calls \ {t} : tpc'[u] = pcs[u]
    BY <1>3
  <2>3. Moves(t)
    BY <2>1, <2>2 DEF Moves
  <2>4. InStep(t)'
    BY <2>1, <2>2 DEF InStep, FitsOperation, Owed
  <2> QED
    BY <1>2, <1>3, <2>1, <2>2, <2>3, <2>4 DEF APIInv, ThreadTypeOK
<1>4. CASE /\ ~API!IsWait(t) /\ m.ok /\ HasBody(t)
           /\ op' = op /\ tpc' = [pcs EXCEPT ![t] = "text"]
  <2>1. op \in [DOMAIN calls -> OpType]
    BY DEF APIInv, ThreadTypeOK
  <2>2. /\ tpc' \in [DOMAIN calls -> {"idle", "queue", "waiting", "reading", "failed", "text"}]
        /\ tpc'[t] = "text" /\ \A u \in DOMAIN calls \ {t} : tpc'[u] = pcs[u]
    BY <1>4
  <2>3. Moves(t)
    BY <1>4, <2>2 DEF Moves
  <2>4. /\ API!Running(t)' <=> API!Running(t)
        /\ API!IsWait(t)' <=> API!IsWait(t)
        /\ API!Operation(t)' = API!Operation(t)
        /\ HasBody(t)' <=> HasBody(t)
    BY <1>4, ThreadStays
  <2>5. Owed(t) /\ Owed(t)'
    BY <1>4, <2>2, <2>4 DEF Owed
  <2>6. InStep(t)'
    BY <1>0, <1>4, <2>2, <2>4, <2>5 DEF InStep
  <2> QED
    BY <1>2, <1>4, <2>1, <2>2, <2>3, <2>4, <2>5, <2>6 DEF APIInv, ThreadTypeOK
<1> QED
  BY <1>1, <1>2, <1>3, <1>4

\* No notification is in a queue or in the stream that was in neither.
NoneNew ==
  /\ \A j \in 1..Len(notifyq') :
       \/ \E i \in 1..Len(notifyq) : notifyq'[j] = notifyq[i]
       \/ \E i \in 1..Len(stream) : stream[i].kind = "notify" /\ notifyq'[j] = stream[i]
  /\ \A j \in 1..Len(stream') : stream'[j].kind = "notify" =>
       \E i \in 1..Len(stream) : stream'[j] = stream[i]

\* An entry e that fits what the client got before it.
FitsGot(t, e) ==
  IF e.n = 0
  THEN /\ e.m.kind = "notify" /\ e.m.n <= notified
       /\ \A j \in 1..Len(notifyq') : e.m.n < notifyq'[j].n
       /\ \A j \in 1..Len(stream') : stream'[j].kind = "notify" => e.m.n < stream'[j].n
       /\ \A i \in 1..Len(got[t]) : got[t][i].n = 0 => got[t][i].m.n < e.m.n
  ELSE e.m \in {API!Empty, API!Msg("status", e.n, e.m.ok), API!Msg("text", e.n, TRUE)}

LEMMA GotBefore ==
  ASSUME APIInv, NoneNew, NEW t \in DOMAIN calls, NEW i \in 1..Len(got[t]), got[t][i].n = 0
  PROVE  /\ \A j \in 1..Len(notifyq') : got[t][i].m.n < notifyq'[j].n
         /\ \A j \in 1..Len(stream') :
              stream'[j].kind = "notify" => got[t][i].m.n < stream'[j].n
<1>1. /\ \A j \in 1..Len(notifyq) : got[t][i].m.n < notifyq[j].n
      /\ \A j \in 1..Len(stream) : stream[j].kind = "notify" => got[t][i].m.n < stream[j].n
  BY DEF APIInv, GotInOrder
<1>2. \A j \in 1..Len(notifyq') : got[t][i].m.n < notifyq'[j].n
  BY <1>1 DEF NoneNew
<1>3. \A j \in 1..Len(stream') : stream'[j].kind = "notify" => got[t][i].m.n < stream'[j].n
  BY <1>1 DEF NoneNew
<1> QED
  BY <1>2, <1>3

\* If nothing new comes in, what was got stays in order,
LEMMA GotKept ==
  ASSUME APIInv, NoneNew, UNCHANGED <<calls, got, notified>>
  PROVE  GotInOrder'
<1> SUFFICES ASSUME NEW t \in DOMAIN calls, NEW i \in 1..Len(got[t]), got[t][i].n = 0
             PROVE  /\ \A j \in 1..Len(notifyq') : got[t][i].m.n < notifyq'[j].n
                    /\ \A j \in 1..Len(stream') :
                         stream'[j].kind = "notify" => got[t][i].m.n < stream'[j].n
  BY DEF APIInv, GotInOrder, API!Empty, API!Msg
<1> QED
  BY GotBefore

\* and with one more that fits.
LEMMA GotGrows ==
  ASSUME APIInv, NoneNew, UNCHANGED <<calls, notified>>, NEW t \in DOMAIN calls,
         NEW e \in GotType, FitsGot(t, e),
         got'[t] = Append(got[t], e), \A u \in DOMAIN calls \ {t} : got'[u] = got[u]
  PROVE  GotInOrder'
<1>0. got[t] \in Seq(GotType) /\ Len(got[t]) \in Nat
  BY ThreadTyped
<1>1. /\ Len(got'[t]) = Len(got[t]) + 1 /\ got'[t][Len(got[t]) + 1] = e
      /\ \A i \in 1..Len(got[t]) : got'[t][i] = got[t][i]
  BY <1>0
<1>2. \A i \in 1..Len(got'[t]) :
        \/ i \in 1..Len(got[t]) /\ got'[t][i] = got[t][i]
        \/ i = Len(got[t]) + 1 /\ got'[t][i] = e
  BY <1>0, <1>1
<1>3. ASSUME NEW u \in DOMAIN calls, NEW i \in 1..Len(got'[u])
      PROVE  IF got'[u][i].n = 0
             THEN /\ got'[u][i].m.kind = "notify" /\ got'[u][i].m.n <= notified
                  /\ \A j \in 1..Len(notifyq') : got'[u][i].m.n < notifyq'[j].n
                  /\ \A j \in 1..Len(stream') :
                       stream'[j].kind = "notify" => got'[u][i].m.n < stream'[j].n
             ELSE got'[u][i].m \in {API!Empty, API!Msg("status", got'[u][i].n, got'[u][i].m.ok),
                                    API!Msg("text", got'[u][i].n, TRUE)}
  <2>1. CASE u = t /\ i = Len(got[t]) + 1 /\ got'[u][i] = e
    BY <2>1 DEF FitsGot
  <2>2. CASE i \in 1..Len(got[u]) /\ got'[u][i] = got[u][i]
    <3>1. CASE got[u][i].n = 0
      BY <2>2, <3>1, GotBefore DEF APIInv, GotInOrder
    <3>2. CASE got[u][i].n # 0
      BY <2>2, <3>2 DEF APIInv, GotInOrder
    <3> QED
      BY <3>1, <3>2
  <2> QED
    BY <1>2, <2>1, <2>2
<1>4. ASSUME NEW u \in DOMAIN calls, NEW i \in 1..Len(got'[u]), NEW j \in 1..Len(got'[u]),
             i < j, got'[u][i].n = 0, got'[u][j].n = 0
      PROVE  got'[u][i].m.n < got'[u][j].m.n
  <2>1. CASE u # t
    BY <1>4, <2>1 DEF APIInv, GotInOrder
  <2>2. CASE u = t
    <3>1. i \in 1..Len(got[t]) /\ got'[t][i] = got[t][i]
      BY <1>0, <1>1, <1>2, <1>4, <2>2
    <3>2. CASE j = Len(got[t]) + 1 /\ got'[t][j] = e
      BY <1>4, <2>2, <3>1, <3>2 DEF FitsGot
    <3>3. CASE j \in 1..Len(got[t]) /\ got'[t][j] = got[t][j]
      BY <1>4, <2>2, <3>1, <3>3 DEF APIInv, GotInOrder
    <3> QED
      BY <1>2, <2>2, <3>2, <3>3
  <2> QED
    BY <2>1, <2>2
<1> QED
  BY <1>3, <1>4 DEF GotInOrder, API!Empty, API!Msg

\* Wait(), BecomeReader() and a call of wait().
LEMMA ThreadWaits ==
  ASSUME APIInv, NEW t \in DOMAIN calls,
         API!Wait(t) \/ API!BecomeReader(t) \/ (API!Call(t) /\ API!IsWait(t))
  PROVE  APIInv'
<1>0. tpc \in [DOMAIN calls -> {"idle", "queue", "waiting", "reading", "failed", "text"}]
  BY DEF APIInv, ThreadTypeOK
<1>1. UNCHANGED <<calls, op, statusq, notifyq, stream, asked, eof, notified, got, count>>
  BY DEF API!Wait, API!BecomeReader, API!Call
<1>2. \E p \in {"queue", "waiting", "reading"} :
        /\ tpc' = [tpc EXCEPT ![t] = p]
        /\ p = "reading" => ~busy /\ busy' = TRUE /\ API!Own(t) = <<>>
        /\ p # "reading" => busy' = busy
        /\ tpc[t] = "queue" \/ (tpc[t] = "idle" /\ API!Running(t) /\ API!IsWait(t))
  BY DEF API!Wait, API!BecomeReader, API!Call
<1>3. PICK p \in {"queue", "waiting", "reading"} :
        /\ tpc' = [tpc EXCEPT ![t] = p]
        /\ p = "reading" => ~busy /\ busy' = TRUE /\ API!Own(t) = <<>>
        /\ p # "reading" => busy' = busy
        /\ tpc[t] = "queue" \/ (tpc[t] = "idle" /\ API!Running(t) /\ API!IsWait(t))
  BY <1>2
<1>4. tpc'[t] = p /\ \A u \in DOMAIN calls \ {t} : tpc'[u] = tpc[u]
  BY <1>0, <1>3
<1>5. Moves(t)
  BY <1>1, <1>4 DEF Moves
<1>6. ThreadTypeOK' /\ MessageTypeOK'
  <2>1. busy' \in BOOLEAN
    BY <1>3 DEF APIInv, MessageTypeOK
  <2>2. tpc' \in [DOMAIN calls -> {"idle", "queue", "waiting", "reading", "failed", "text"}]
    BY <1>0, <1>3
  <2> QED
    BY <1>1, <2>1, <2>2 DEF APIInv, ThreadTypeOK, MessageTypeOK
<1>7. /\ API!Running(t)' <=> API!Running(t)
      /\ API!IsWait(t)' <=> API!IsWait(t)
      /\ API!Operation(t)' = API!Operation(t)
      /\ HasBody(t)' = HasBody(t)
  <2>1. HasBody(t)' = HasBody(t)
    BY <1>1 DEF HasBody, API!Operation
  <2> QED
    BY <1>1, <2>1, ThreadStays
<1>8. Owed(t)' <=> Owed(t)
  BY <1>3, <1>4, <1>7 DEF Owed
<1>9. \A u \in DOMAIN calls : API!Own(u)' = API!Own(u)
  BY <1>1 DEF API!Own, API!IsWait, API!Operation
<1>10. InStep(t)'
  <2>1. InStep(t)
    BY DEF APIInv, ThreadsInStep
  <2> QED
    BY <1>1, <1>3, <1>4, <1>7, <1>8, <1>9, <2>1 DEF InStep
<1>11. ThreadsInStep'
  <2>1. ASSUME NEW u \in DOMAIN calls \ {t}, tpc[u] = "reading"
        PROVE  API!Own(u)' = <<>> /\ busy' /\ tpc'[t] # "reading"
    <3>1. busy /\ API!Own(u) = <<>>
      BY <2>1 DEF APIInv, ThreadsInStep, InStep
    <3> QED
      BY <1>3, <1>4, <1>9, <3>1
  <2> QED
    BY <1>1, <1>5, <1>10, <2>1, ThreadsMove
<1>12. AnswerInOnePlace' /\ TextsFollow'
  <2>1. \A u \in DOMAIN calls : /\ Owed(u)' <=> Owed(u)
                                /\ HasBody(u)' = HasBody(u)
                                /\ tpc'[u] = "text" <=> tpc[u] = "text"
    BY <1>3, <1>4, <1>5, <1>7, <1>8, OthersStay
  <2>2. OwedKept
    BY <1>1, <2>1 DEF OwedKept
  <2> QED
    BY <1>1, <2>2, AnswersStay
<1>13. NotificationsInOrder' /\ GotInOrder'
  BY <1>1 DEF APIInv, NotificationsInOrder, GotInOrder, API!Empty, API!Msg
<1> QED
  BY <1>6, <1>11, <1>12, <1>13 DEF APIInv

\* A thread sends a command.
LEMMA CommandCalled ==
  ASSUME APIInv, NEW t \in DOMAIN calls, API!Call(t), ~API!IsWait(t)
  PROVE  APIInv'
<1>0. /\ tpc \in [DOMAIN calls -> {"idle", "queue", "waiting", "reading", "failed", "text"}]
      /\ op \in [DOMAIN calls -> OpType] /\ op[t] \in OpType /\ count \in Nat
      /\ asked \in Seq(AskType)
  BY ThreadTyped, MessagesTyped DEF APIInv, ThreadTypeOK
<1>1. /\ tpc[t] = "idle" /\ API!Running(t) /\ tpc' = [tpc EXCEPT ![t] = "queue"]
      /\ count' = count + 1 /\ op' = [op EXCEPT ![t].n = count + 1]
      /\ asked' = Append(asked, [n |-> count + 1, body |-> HasBody(t)])
      /\ UNCHANGED <<calls, busy, statusq, notifyq, stream, eof, notified, got>>
  BY DEF API!Call, HasBody
<1>2. \A u \in DOMAIN calls : ~Owed(u)
  <2> SUFFICES ASSUME NEW u \in DOMAIN calls, Owed(u) PROVE FALSE
    OBVIOUS
  <2>1. u # t
    BY <1>1 DEF Owed
  <2>2. API!Running(u) /\ ~API!IsWait(u)
    BY DEF Owed, APIInv, ThreadsInStep, InStep
  <2> QED
    BY <1>1, <2>1, <2>2, OneSends
<1>3. /\ eof = "open" => asked = <<>> /\ statusq = <<>>
      /\ \A i \in 1..Len(stream) : stream[i].kind = "notify"
      /\ \A i \in 1..Len(statusq) : statusq[i] = API!Empty /\ eof = "seen"
      /\ \A u \in DOMAIN calls : tpc[u] # "text"
  BY <1>2, NothingOwed
<1>4. HasBody(t) \in BOOLEAN
  <2>1. op[t].j \in DOMAIN API!Operation(t)
    BY <1>1 DEF APIInv, ThreadsInStep, InStep
  <2>2. API!Operation(t) \in Seq(CmdType)
    BY <1>1, ThreadTyped, OperationTyped DEF API!Operation, API!Running
  <2>3. API!Operation(t)[op[t].j] \in CmdType
    BY <2>1, <2>2
  <2> QED
    BY <2>3 DEF HasBody, CmdType
<1> DEFINE o == [op[t] EXCEPT !.n = count + 1]
           a == [n |-> count + 1, body |-> HasBody(t)]
<1>5. o \in OpType /\ o.i = op[t].i /\ o.j = op[t].j /\ o.n = count + 1
  <2>1. ASSUME NEW k \in Nat
        PROVE  /\ [op[t] EXCEPT !.n = k] \in OpType /\ [op[t] EXCEPT !.n = k].i = op[t].i
               /\ [op[t] EXCEPT !.n = k].j = op[t].j /\ [op[t] EXCEPT !.n = k].n = k
    BY <1>0 DEF OpType
  <2>2. count + 1 \in Nat
    BY <1>0
  <2> QED
    BY <2>1, <2>2
<1>6. op' = [op EXCEPT ![t] = o]
  BY <1>1
<1> HIDE DEF o
<1>7. /\ op' \in [DOMAIN calls -> OpType] /\ op'[t] = o /\ tpc'[t] = "queue"
      /\ tpc' \in [DOMAIN calls -> {"idle", "queue", "waiting", "reading", "failed", "text"}]
      /\ \A u \in DOMAIN calls \ {t} : op'[u] = op[u] /\ tpc'[u] = tpc[u]
  BY <1>0, <1>1, <1>5, <1>6
<1>8. Moves(t)
  BY <1>1, <1>7 DEF Moves
<1>9. a \in AskType /\ a.n = count + 1 /\ a.body = HasBody(t)
  BY <1>0, <1>4 DEF AskType
<1>10. asked' \in Seq(AskType) /\ (asked = <<>> => Len(asked') = 1 /\ asked'[1] = a)
  BY <1>0, <1>1, <1>9
<1>11. ThreadTypeOK' /\ MessageTypeOK'
  <2>1. count' \in Nat
    BY <1>0, <1>1
  <2> QED
    BY <1>1, <1>7, <1>10, <2>1 DEF APIInv, ThreadTypeOK, MessageTypeOK
<1> HIDE DEF a
<1>12. /\ API!Operation(t)' = API!Operation(t) /\ ~API!IsWait(t)' /\ API!Running(t)'
       /\ HasBody(t)' = HasBody(t)
  <2>1. API!Operation(t)' = API!Operation(t)
    BY <1>1, <1>5, <1>7 DEF API!Operation
  <2>2. API!Running(t)'
    BY <1>1, <1>5, <1>7 DEF API!Running
  <2> QED
    BY <1>5, <1>7, <2>1, <2>2 DEF API!IsWait, HasBody
<1>13. InStep(t)' /\ Owed(t)'
  <2>1. op[t].j \in DOMAIN API!Operation(t)
    BY <1>1 DEF APIInv, ThreadsInStep, InStep
  <2> QED
    BY <1>0, <1>1, <1>5, <1>7, <1>12, <2>1 DEF InStep, Owed
<1>14. ThreadsInStep'
  <2>1. ASSUME NEW u \in DOMAIN calls \ {t}, tpc[u] = "reading"
        PROVE  API!Own(u)' = <<>> /\ busy' /\ tpc'[t] # "reading"
    <3>1. busy /\ API!Own(u) = <<>>
      BY <2>1 DEF APIInv, ThreadsInStep, InStep
    <3>2. API!IsWait(u)' <=> API!IsWait(u)
      BY <1>8, OthersStay
    <3> QED
      BY <1>1, <1>7, <3>1, <3>2 DEF API!Own
  <2> QED
    BY <1>2, <1>8, <1>13, <2>1, ThreadsMove
<1>15. AnswerInOnePlace'
  <2>1. eof' = "open" => /\ Len(asked') = 1 /\ asked'[1].n = count' /\ statusq' = <<>>
                         /\ asked'[1].body = HasBody(t)'
    BY <1>1, <1>3, <1>9, <1>10, <1>12
  <2>2. \A i \in 1..Len(stream') : stream'[i].kind = "notify"
    BY <1>1, <1>3
  <2>3. \A i \in 1..Len(statusq') : statusq'[i] = API!Empty' /\ eof' = "seen"
    BY <1>1, <1>3 DEF API!Empty
  <2>4. eof' = "seen" => stream' = <<>>
    BY <1>1 DEF APIInv, AnswerInOnePlace
  <2>5. Owed(t)' /\ tpc'[t] # "text" /\ t \in DOMAIN calls'
    BY <1>1, <1>7, <1>13
  <2> QED
    BY <2>1, <2>2, <2>3, <2>4, <2>5 DEF AnswerInOnePlace
<1>16. TextsFollow'
  <2>1. \A u \in DOMAIN calls : tpc'[u] # "text"
    BY <1>3, <1>7
  <2> QED
    BY <1>1, <1>3, <2>1 DEF TextsFollow
<1>17. NotificationsInOrder' /\ GotInOrder'
  BY <1>1 DEF APIInv, NotificationsInOrder, GotInOrder, API!Empty, API!Msg
<1> QED
  BY <1>11, <1>14, <1>15, <1>16, <1>17 DEF APIInv

\* The reader learns that the connection is gone.
LEMMA ReaderFails ==
  ASSUME APIInv, NEW t \in DOMAIN calls, API!ReadFails(t)
  PROVE  APIInv'
<1>0. tpc \in [DOMAIN calls -> {"idle", "queue", "waiting", "reading", "failed", "text"}]
  BY DEF APIInv, ThreadTypeOK
<1>1. /\ tpc[t] = "reading" /\ stream = <<>> /\ eof = "seen"
      /\ tpc' = [tpc EXCEPT ![t] = "failed"]
      /\ UNCHANGED <<calls, op, busy, statusq, notifyq, stream, asked, eof, notified, got, count>>
  BY DEF API!ReadFails
<1>2. tpc'[t] = "failed" /\ \A u \in DOMAIN calls \ {t} : tpc'[u] = tpc[u]
  BY <1>0, <1>1
<1>3. ThreadTypeOK' /\ MessageTypeOK'
  <2>1. tpc' \in [DOMAIN calls -> {"idle", "queue", "waiting", "reading", "failed", "text"}]
    BY <1>0, <1>1
  <2> QED
    BY <1>1, <2>1 DEF APIInv, ThreadTypeOK, MessageTypeOK
<1>4. Moves(t)
  BY <1>1, <1>2 DEF Moves
<1>5. InStep(t)'
  <2>1. InStep(t)
    BY DEF APIInv, ThreadsInStep
  <2>2. /\ API!Running(t)' <=> API!Running(t)
        /\ API!IsWait(t)' <=> API!IsWait(t)
        /\ API!Operation(t)' = API!Operation(t)
    BY <1>1, ThreadStays
  <2> QED
    BY <1>1, <1>2, <2>1, <2>2 DEF InStep, Owed
<1>6. ThreadsInStep'
  <2>1. ASSUME NEW u \in DOMAIN calls \ {t} PROVE tpc[u] # "reading"
    BY <1>1 DEF APIInv, ThreadsInStep
  <2> QED
    BY <1>1, <1>4, <1>5, <2>1, ThreadsMove
<1>7. \A u \in DOMAIN calls : tpc'[u] # "text"
  BY <1>1, <1>2 DEF APIInv, TextsFollow
<1>8. ASSUME NEW i \in 1..Len(statusq)
      PROVE  \/ statusq[i] = API!Empty
             \/ /\ i = 1 /\ statusq[1] = API!Msg("status", count, statusq[1].ok)
                /\ \E s \in DOMAIN calls : Owed(s)' /\ tpc'[s] # "text" /\ ~HasBody(s)'
  <2> SUFFICES ASSUME statusq[i] # API!Empty
               PROVE  /\ i = 1 /\ statusq[1] = API!Msg("status", count, statusq[1].ok)
                      /\ \E s \in DOMAIN calls : Owed(s)' /\ tpc'[s] # "text" /\ ~HasBody(s)'
    OBVIOUS
  <2>1. i = 1 /\ statusq[1] = API!Msg("status", count, statusq[1].ok)
    BY DEF APIInv, AnswerInOnePlace
  <2>2. PICK s \in DOMAIN calls : Owed(s) /\ tpc[s] # "text" /\ ~HasBody(s)
    BY DEF APIInv, AnswerInOnePlace
  <2>3. s # t
    <3>1. ASSUME s = t PROVE FALSE
      <4>1. API!Own(t) = <<>> /\ ~API!IsWait(t)
        BY <1>1, <2>2, <3>1 DEF APIInv, ThreadsInStep, InStep, Owed
      <4>2. statusq = <<>>
        BY <4>1 DEF API!Own
      <4> QED
        BY <4>2
    <3> QED
      BY <3>1
  <2> QED
    BY <1>4, <2>1, <2>2, <2>3, OthersStay
<1>9. AnswerInOnePlace'
  BY <1>1, <1>8 DEF AnswerInOnePlace, API!Empty, API!Msg
<1>10. TextsFollow'
  BY <1>1, <1>7 DEF TextsFollow
<1>11. NotificationsInOrder' /\ GotInOrder'
  BY <1>1 DEF APIInv, NotificationsInOrder, GotInOrder, API!Empty, API!Msg
<1> QED
  BY <1>3, <1>6, <1>9, <1>10, <1>11 DEF APIInv

LEMMA TypesStay ==
  ASSUME APIInv, ThreadTypeOK', busy' \in BOOLEAN, eof' \in {"open", "closed", "seen"},
         statusq' \in Seq(MsgType), notifyq' \in Seq(MsgType), stream' \in Seq(MsgType),
         UNCHANGED <<asked, notified, count>>
  PROVE  MessageTypeOK'
  BY DEF APIInv, MessageTypeOK

\* wait() returns with the first notification of the queue.
LEMMA NotificationTaken ==
  ASSUME APIInv, NEW t \in DOMAIN calls, API!Take(t), API!IsWait(t)
  PROVE  APIInv'
<1>1. /\ tpc[t] = "queue" /\ notifyq # <<>> /\ notifyq' = Tail(notifyq)
      /\ API!Return(t, Head(notifyq), tpc)
      /\ UNCHANGED <<calls, busy, statusq, stream, asked, eof, notified, count>>
  BY DEF API!Take, API!Own
<1>2. /\ Len(notifyq) \in Nat /\ Head(notifyq) = notifyq[1] /\ 1 \in 1..Len(notifyq)
      /\ notifyq[1] \in MsgType
      /\ notifyq' \in Seq(MsgType) /\ Len(notifyq') = Len(notifyq) - 1
      /\ \A i \in 1..Len(notifyq') : i + 1 \in 1..Len(notifyq) /\ notifyq'[i] = notifyq[i + 1]
  BY <1>1, MessagesTyped, HeadAndTail
<1> DEFINE m == notifyq[1]
           e == [m |-> m, n |-> op[t].n]
<1>3. tpc \in [DOMAIN calls -> {"idle", "queue", "waiting", "reading", "failed", "text"}]
  BY DEF APIInv, ThreadTypeOK
<1>4. op[t].n = 0
  BY <1>1 DEF APIInv, ThreadsInStep, InStep
<1>5. /\ ThreadTypeOK' /\ Moves(t) /\ InStep(t)' /\ tpc'[t] = "idle"
      /\ got'[t] = Append(got[t], e) /\ \A u \in DOMAIN calls \ {t} : got'[u] = got[u]
  BY <1>1, <1>2, <1>3, CallReturns
<1>6. /\ e \in GotType /\ e.n = 0 /\ e.m = m
  BY <1>2, <1>4, ThreadTyped DEF GotType
<1> HIDE DEF e
<1>7. MessageTypeOK'
  BY <1>1, <1>2, <1>5, MessagesTyped, TypesStay DEF APIInv, MessageTypeOK
<1>8. ThreadsInStep'
  <2>1. ASSUME NEW u \in DOMAIN calls \ {t}, tpc[u] = "reading"
        PROVE  API!Own(u)' = <<>> /\ busy' /\ tpc'[t] # "reading"
    <3>1. busy /\ API!Own(u) = <<>>
      BY <2>1 DEF APIInv, ThreadsInStep, InStep
    <3>2. ~API!IsWait(u) /\ statusq = <<>>
      BY <1>1, <3>1 DEF API!Own
    <3>3. ~API!IsWait(u)'
      BY <1>5, <3>2, OthersStay
    <3> QED
      BY <1>1, <1>5, <3>1, <3>2, <3>3 DEF API!Own
  <2> QED
    BY <1>1, <1>5, <2>1, ThreadsMove
<1>9. OwedKept
  <2>1. ~Owed(t)
    BY <1>1 DEF Owed
  <2> QED
    BY <1>1, <1>5, <2>1, OthersStay DEF OwedKept
<1>10. AnswerInOnePlace' /\ TextsFollow'
  BY <1>1, <1>9, AnswersStay
<1>11. NotificationsInOrder'
  <2>1. ASSUME NEW i \in 1..Len(notifyq'), NEW j \in 1..Len(notifyq'), i < j
        PROVE  notifyq'[i].n < notifyq'[j].n
    <3>1. i + 1 < j + 1
      BY <2>1, <1>2
    <3> QED
      BY <1>2, <3>1 DEF APIInv, NotificationsInOrder
  <2> QED
    BY <1>1, <1>2, <2>1 DEF APIInv, NotificationsInOrder
<1>12. NoneNew
  <2>1. \A j \in 1..Len(notifyq') : \E i \in 1..Len(notifyq) : notifyq'[j] = notifyq[i]
    BY <1>2
  <2> QED
    BY <1>1, <2>1 DEF NoneNew
<1>13. FitsGot(t, e)
  <2>1. m.kind = "notify" /\ m.n <= notified
    BY <1>2 DEF APIInv, NotificationsInOrder
  <2>2. \A j \in 1..Len(notifyq') : m.n < notifyq'[j].n
    <3> SUFFICES ASSUME NEW j \in 1..Len(notifyq') PROVE m.n < notifyq'[j].n
      OBVIOUS
    <3>1. 1 < j + 1
      BY <1>2
    <3> QED
      BY <1>2, <3>1 DEF APIInv, NotificationsInOrder
  <2>3. \A j \in 1..Len(stream) : stream[j].kind = "notify" => m.n < stream[j].n
    BY <1>2 DEF APIInv, NotificationsInOrder
  <2>4. \A i \in 1..Len(got[t]) : got[t][i].n = 0 => got[t][i].m.n < m.n
    BY <1>2 DEF APIInv, GotInOrder
  <2> HIDE DEF m
  <2> QED
    BY <1>1, <1>6, <2>1, <2>2, <2>3, <2>4 DEF FitsGot
<1>14. GotInOrder'
  BY <1>1, <1>5, <1>6, <1>12, <1>13, GotGrows
<1> QED
  BY <1>5, <1>7, <1>8, <1>10, <1>11, <1>14 DEF APIInv

\* Nobody waits for an answer any more when the only thread it is owed to has
\* got it or, with its text behind it, is about to read the text.
LEMMA OnlyOwed ==
  ASSUME APIInv, NEW t \in DOMAIN calls, Owed(t), NEW s \in DOMAIN calls, Owed(s)
  PROVE  s = t
<1> SUFFICES ASSUME s # t PROVE FALSE
  OBVIOUS
<1>1. API!Running(t) /\ API!Running(s) /\ ~API!IsWait(t) /\ ~API!IsWait(s)
  BY DEF APIInv, ThreadsInStep, InStep, Owed
<1> QED
  BY <1>1, OneSends

\* A command returns with its answer, or reads on if a text follows.
LEMMA StatusTaken ==
  ASSUME APIInv, NEW t \in DOMAIN calls, API!Take(t), ~API!IsWait(t)
  PROVE  APIInv'
<1>1. /\ tpc[t] = "queue" /\ statusq # <<>> /\ statusq' = Tail(statusq)
      /\ API!Return(t, Head(statusq), tpc)
      /\ UNCHANGED <<calls, busy, notifyq, stream, asked, eof, notified, count>>
  BY DEF API!Take, API!Own
<1>2. /\ Len(statusq) \in Nat /\ Head(statusq) = statusq[1] /\ 1 \in 1..Len(statusq)
      /\ statusq[1] \in MsgType
      /\ statusq' \in Seq(MsgType) /\ Len(statusq') = Len(statusq) - 1
      /\ \A i \in 1..Len(statusq') : i + 1 \in 1..Len(statusq) /\ statusq'[i] = statusq[i + 1]
  BY <1>1, MessagesTyped, HeadAndTail
<1> DEFINE m == statusq[1]
           e == [m |-> m, n |-> op[t].n]
<1>3. tpc \in [DOMAIN calls -> {"idle", "queue", "waiting", "reading", "failed", "text"}]
  BY DEF APIInv, ThreadTypeOK
<1>4. Owed(t) /\ op[t].n = count /\ count > 0 /\ count \in Nat
  BY <1>1, MessagesTyped DEF Owed, APIInv, ThreadsInStep, InStep
<1>5. \A u \in DOMAIN calls : Owed(u) => u = t
  BY <1>4, OnlyOwed
<1>6. /\ m = API!Empty \/ m = API!Msg("status", count, m.ok)
      /\ (m = API!Empty /\ eof = "seen") \/ ~HasBody(t)
      /\ \A i \in 1..Len(stream) : stream[i].kind = "notify"
      /\ eof = "open" => asked = <<>>
  <2>1. eof = "open" => asked = <<>>
    BY <1>1 DEF APIInv, AnswerInOnePlace
  <2>2. CASE m = API!Empty /\ eof = "seen"
    <3>1. stream = <<>>
      BY <2>2 DEF APIInv, AnswerInOnePlace
    <3> QED
      BY <2>1, <2>2, <3>1
  <2>3. CASE ~(m = API!Empty /\ eof = "seen")
    <3>1. /\ m = API!Msg("status", count, m.ok)
          /\ \A i \in 1..Len(stream) : stream[i].kind = "notify"
          /\ \E s \in DOMAIN calls : Owed(s) /\ ~HasBody(s)
      BY <1>2, <2>3 DEF APIInv, AnswerInOnePlace
    <3> QED
      BY <1>5, <2>1, <3>1
  <2> QED
    BY <2>2, <2>3
<1>7. ~(m.ok /\ HasBody(t))
  BY <1>6 DEF API!Empty, API!Msg
<1>8. /\ ThreadTypeOK' /\ Moves(t) /\ InStep(t)' /\ tpc'[t] = "idle"
      /\ got'[t] = Append(got[t], e) /\ \A u \in DOMAIN calls \ {t} : got'[u] = got[u]
  BY <1>1, <1>2, <1>3, <1>7, CallReturns
<1>9. /\ e \in GotType /\ e.n = count /\ e.m = m
  BY <1>2, <1>4, ThreadTyped DEF GotType
<1> HIDE DEF e, m
<1>10. MessageTypeOK'
  BY <1>1, <1>2, <1>8, MessagesTyped, TypesStay DEF APIInv, MessageTypeOK
<1>11. ThreadsInStep'
  <2>1. ASSUME NEW u \in DOMAIN calls \ {t}, tpc[u] = "reading"
        PROVE  API!Own(u)' = <<>> /\ busy' /\ tpc'[t] # "reading"
    <3>1. busy /\ API!Own(u) = <<>>
      BY <2>1 DEF APIInv, ThreadsInStep, InStep
    <3>2. API!IsWait(u) /\ notifyq = <<>>
      BY <1>1, <3>1 DEF API!Own
    <3>3. API!IsWait(u)'
      BY <1>8, <3>2, OthersStay
    <3> QED
      BY <1>1, <1>8, <3>1, <3>2, <3>3 DEF API!Own
  <2> QED
    BY <1>1, <1>8, <2>1, ThreadsMove
<1>12. \A i \in 1..Len(statusq') : statusq'[i] = API!Empty /\ eof = "seen"
  <2> SUFFICES ASSUME NEW i \in 1..Len(statusq') PROVE statusq'[i] = API!Empty /\ eof = "seen"
    OBVIOUS
  <2>1. i + 1 \in 1..Len(statusq) /\ i + 1 # 1 /\ statusq'[i] = statusq[i + 1]
    BY <1>2
  <2> QED
    BY <2>1 DEF APIInv, AnswerInOnePlace
<1>13. AnswerInOnePlace'
  <2>1. \A i \in 1..Len(stream) : stream[i].kind # "status"
    BY <1>6
  <2>2. eof = "seen" => stream = <<>>
    BY DEF APIInv, AnswerInOnePlace
  <2> QED
    BY <1>1, <1>6, <1>12, <2>1, <2>2 DEF AnswerInOnePlace, API!Empty
<1>14. TextsFollow'
  <2>1. ASSUME NEW u \in DOMAIN calls, tpc'[u] = "text" PROVE FALSE
    <3>1. u # t /\ tpc[u] = "text"
      BY <1>8, <2>1, OthersStay
    <3> QED
      BY <1>5, <3>1, TextIsOwed
  <2> QED
    BY <1>1, <1>6, <2>1 DEF TextsFollow
<1>15. NotificationsInOrder'
  BY <1>1 DEF APIInv, NotificationsInOrder
<1>16. NoneNew
  BY <1>1 DEF NoneNew
<1>17. FitsGot(t, e)
  <2>1. e.n # 0
    BY <1>4, <1>9
  <2>2. e.m = API!Empty \/ e.m = API!Msg("status", e.n, e.m.ok)
    BY <1>6, <1>9
  <2> QED
    BY <2>1, <2>2 DEF FitsGot
<1>18. GotInOrder'
  BY <1>1, <1>8, <1>9, <1>16, <1>17, GotGrows
<1> QED
  BY <1>8, <1>10, <1>11, <1>13, <1>14, <1>15, <1>18 DEF APIInv

\* The first message of the stream is read.
LEMMA StreamRead ==
  ASSUME APIInv, stream # <<>>, stream' = Tail(stream)
  PROVE  /\ Len(stream) \in Nat /\ 1 \in 1..Len(stream)
         /\ API!Message = stream[1] /\ stream[1] \in MsgType
         /\ stream' \in Seq(MsgType) /\ Len(stream') = Len(stream) - 1 /\ Len(stream') \in Nat
         /\ \A i \in 1..Len(stream') : i + 1 \in 1..Len(stream) /\ stream'[i] = stream[i + 1]
         /\ StreamKept(1)
<1>1. /\ Len(stream) \in Nat /\ Head(stream) = stream[1] /\ 1 \in 1..Len(stream)
      /\ stream[1] \in MsgType
      /\ stream' \in Seq(MsgType) /\ Len(stream') = Len(stream) - 1
      /\ \A i \in 1..Len(stream') : i + 1 \in 1..Len(stream) /\ stream'[i] = stream[i + 1]
  BY MessagesTyped, HeadAndTail
<1>2. Len(stream') \in Nat
  BY <1>1
<1> QED
  BY <1>1, <1>2 DEF API!Message, StreamKept

\* The text behind an answer is read by the thread whose answer it was.
LEMMA TextRead ==
  ASSUME APIInv, NEW t \in DOMAIN calls, API!ReadText(t)
  PROVE  APIInv'
<1>1. /\ tpc[t] = "text"
      /\ got' = [got EXCEPT ![t] = Append(got[t], [m |-> API!Message, n |-> op[t].n])]
      /\ op' = (IF API!Message.ok THEN API!NextCmd(t) ELSE API!NextOp(t))
      /\ tpc' = [tpc EXCEPT ![t] = "idle"]
      /\ UNCHANGED <<calls, busy, statusq, notifyq, asked, eof, notified, count>>
  BY DEF API!ReadText
<1>2. stream # <<>> /\ stream[1] = API!Msg("text", op[t].n, TRUE) /\ stream' = Tail(stream)
  BY <1>1 DEF APIInv, TextsFollow, API!ReadText
<1>3. /\ Len(stream) \in Nat /\ 1 \in 1..Len(stream)
      /\ API!Message = stream[1] /\ stream[1] \in MsgType
      /\ stream' \in Seq(MsgType) /\ Len(stream') = Len(stream) - 1 /\ Len(stream') \in Nat
      /\ \A i \in 1..Len(stream') : i + 1 \in 1..Len(stream) /\ stream'[i] = stream[i + 1]
      /\ StreamKept(1)
  BY <1>2, StreamRead
<1>4. tpc \in [DOMAIN calls -> {"idle", "queue", "waiting", "reading", "failed", "text"}]
      /\ got \in [DOMAIN calls -> Seq(GotType)]
  BY DEF APIInv, ThreadTypeOK
<1>5. Owed(t) /\ op[t].n = count /\ count > 0 /\ count \in Nat /\ API!Running(t)
  BY <1>1, TextIsOwed, MessagesTyped DEF APIInv, ThreadsInStep, InStep
<1>6. \A u \in DOMAIN calls : Owed(u) => u = t
  BY <1>5, OnlyOwed
<1> DEFINE e == [m |-> stream[1], n |-> op[t].n]
<1>7. e \in GotType /\ e.n = op[t].n /\ e.m = stream[1]
  BY <1>3, ThreadTyped DEF GotType
<1>8. got' = [got EXCEPT ![t] = Append(got[t], e)]
  BY <1>1, <1>3
<1> HIDE DEF e
<1>9. /\ got' \in [DOMAIN calls -> Seq(GotType)] /\ got'[t] = Append(got[t], e)
      /\ \A u \in DOMAIN calls \ {t} : got'[u] = got[u]
  <2>1. Append(got[t], e) \in Seq(GotType)
    BY <1>7, ThreadTyped
  <2> QED
    BY <1>4, <1>8, <2>1
<1>10. /\ op' \in [DOMAIN calls -> OpType] /\ FitsOperation(t)'
       /\ \A u \in DOMAIN calls \ {t} : op'[u] = op[u]
  BY <1>1, <1>5, OperationGoesOn
<1>11. /\ tpc' \in [DOMAIN calls -> {"idle", "queue", "waiting", "reading", "failed", "text"}]
       /\ tpc'[t] = "idle" /\ \A u \in DOMAIN calls \ {t} : tpc'[u] = tpc[u]
  BY <1>1, <1>4
<1>12. ThreadTypeOK' /\ MessageTypeOK'
  <2>1. ThreadTypeOK'
    BY <1>1, <1>9, <1>10, <1>11 DEF APIInv, ThreadTypeOK
  <2> QED
    BY <1>1, <1>3, <2>1, MessagesTyped, TypesStay DEF APIInv, MessageTypeOK
<1>13. Moves(t)
  BY <1>1, <1>10, <1>11 DEF Moves
<1>14. InStep(t)'
  BY <1>10, <1>11 DEF InStep, FitsOperation, Owed
<1>15. ThreadsInStep'
  <2>1. ASSUME NEW u \in DOMAIN calls \ {t}, tpc[u] = "reading"
        PROVE  API!Own(u)' = <<>> /\ busy' /\ tpc'[t] # "reading"
    <3>1. busy /\ API!Own(u) = <<>>
      BY <2>1 DEF APIInv, ThreadsInStep, InStep
    <3>2. API!IsWait(u)' <=> API!IsWait(u)
      BY <1>13, OthersStay
    <3> QED
      BY <1>1, <1>11, <3>1, <3>2 DEF API!Own
  <2> QED
    BY <1>1, <1>13, <1>14, <2>1, ThreadsMove
<1>16. /\ \A i \in 1..Len(stream) : stream[i].kind # "status"
       /\ \A i \in 1..Len(stream) : stream[i].kind = "text" => i = 1
       /\ \A i \in 1..Len(statusq) : statusq[i] = API!Empty /\ eof = "seen"
       /\ eof = "open" => asked = <<>>
       /\ eof # "seen"
  <2>1. \A s \in DOMAIN calls : Owed(s) => tpc[s] = "text"
    BY <1>1, <1>6
  <2>2. \A i \in 1..Len(stream) : stream[i].kind # "status"
    BY <2>1 DEF APIInv, AnswerInOnePlace
  <2>3. \A i \in 1..Len(stream) : stream[i].kind = "text" => i = 1
    BY <2>2 DEF APIInv, TextsFollow
  <2>4. \A i \in 1..Len(statusq) : statusq[i] = API!Empty /\ eof = "seen"
    BY <2>1 DEF APIInv, AnswerInOnePlace
  <2>5. eof = "open" => asked = <<>>
    BY <2>1 DEF APIInv, AnswerInOnePlace
  <2>6. eof # "seen"
    BY <1>2 DEF APIInv, AnswerInOnePlace
  <2> QED
    BY <2>2, <2>3, <2>4, <2>5, <2>6
<1>17. \A i \in 1..Len(stream') : stream'[i].kind # "status" /\ stream'[i].kind # "text"
  <2> SUFFICES ASSUME NEW i \in 1..Len(stream')
               PROVE  stream'[i].kind # "status" /\ stream'[i].kind # "text"
    OBVIOUS
  <2>1. i + 1 \in 1..Len(stream) /\ i + 1 # 1 /\ stream'[i] = stream[i + 1]
    BY <1>3
  <2> QED
    BY <1>16, <2>1
<1>18. AnswerInOnePlace'
  BY <1>1, <1>16, <1>17 DEF AnswerInOnePlace, API!Empty
<1>19. TextsFollow'
  <2>1. ASSUME NEW u \in DOMAIN calls, tpc'[u] = "text" PROVE FALSE
    <3>1. u # t /\ tpc[u] = "text"
      BY <1>11, <2>1
    <3> QED
      BY <1>6, <3>1, TextIsOwed
  <2> QED
    BY <1>1, <1>17, <2>1 DEF TextsFollow
<1>20. NotificationsInOrder'
  BY <1>1, <1>3, NotificationsStay
<1>21. NoneNew
  BY <1>1, <1>3 DEF NoneNew
<1>22. FitsGot(t, e)
  <2>1. e.n # 0
    BY <1>5, <1>7
  <2>2. e.m = API!Msg("text", e.n, TRUE)
    BY <1>2, <1>7
  <2> QED
    BY <2>1, <2>2 DEF FitsGot
<1>23. GotInOrder'
  BY <1>1, <1>7, <1>9, <1>21, <1>22, GotGrows
<1> QED
  BY <1>12, <1>15, <1>18, <1>19, <1>20, <1>23 DEF APIInv

\* A notification is taken from the head of the stream.
LEMMA AnswersShift ==
  ASSUME APIInv, OwedKept, UNCHANGED <<calls, count, asked, statusq, eof>>,
         stream # <<>>, stream' = Tail(stream), stream[1].kind = "notify"
  PROVE  AnswerInOnePlace' /\ TextsFollow'
<1>1. /\ Len(stream) \in Nat /\ 1 \in 1..Len(stream)
      /\ Len(stream') = Len(stream) - 1 /\ Len(stream') \in Nat
      /\ \A i \in 1..Len(stream') : i + 1 \in 1..Len(stream) /\ stream'[i] = stream[i + 1]
  BY StreamRead
<1>2. AnswerInOnePlace'
  <2>1. eof = "open" /\ asked # <<>> =>
           /\ Len(asked) = 1 /\ asked[1].n = count
           /\ statusq = <<>> /\ \A i \in 1..Len(stream') : stream'[i].kind = "notify"
           /\ \E s \in DOMAIN calls : /\ Owed(s)' /\ tpc'[s] # "text"
                                      /\ asked[1].body = HasBody(s)'
    BY <1>1 DEF APIInv, AnswerInOnePlace, OwedKept
  <2>2. ASSUME NEW i \in 1..Len(statusq), ~(statusq[i] = API!Empty /\ eof = "seen")
        PROVE  /\ i = 1 /\ statusq[1] = API!Msg("status", count, statusq[1].ok)
               /\ \A k \in 1..Len(stream') : stream'[k].kind = "notify"
               /\ \E s \in DOMAIN calls : Owed(s)' /\ tpc'[s] # "text" /\ ~HasBody(s)'
    BY <1>1, <2>2 DEF APIInv, AnswerInOnePlace, OwedKept
  <2>3. ASSUME NEW j \in 1..Len(stream'), stream'[j].kind = "status"
        PROVE  /\ stream'[j].n = count /\ statusq = <<>>
               /\ \A k \in 1..Len(stream') : stream'[k].kind = "status" => k = j
               /\ \E s \in DOMAIN calls :
                    /\ Owed(s)' /\ tpc'[s] # "text"
                    /\ stream'[j].ok /\ HasBody(s)' =>
                         j + 1 \in 1..Len(stream') /\ stream'[j + 1].kind = "text"
    <3> DEFINE i == j + 1
    <3>1. i \in 1..Len(stream) /\ stream[i].kind = "status" /\ stream'[j] = stream[i]
      BY <1>1, <2>3
    <3>2. stream[i].n = count /\ statusq = <<>>
      BY <3>1 DEF APIInv, AnswerInOnePlace
    <3>3. \A k \in 1..Len(stream') : stream'[k].kind = "status" => k = j
      <4> SUFFICES ASSUME NEW k \in 1..Len(stream'), stream'[k].kind = "status" PROVE k = j
        OBVIOUS
      <4>1. k + 1 \in 1..Len(stream) /\ stream[k + 1].kind = "status"
        BY <1>1
      <4>2. k + 1 = i
        BY <3>1, <4>1 DEF APIInv, AnswerInOnePlace
      <4> QED
        BY <1>1, <4>2
    <3>4. PICK s \in DOMAIN calls :
            /\ Owed(s) /\ tpc[s] # "text"
            /\ stream[i].ok /\ HasBody(s) => i + 1 \in 1..Len(stream) /\ stream[i + 1].kind = "text"
      BY <3>1 DEF APIInv, AnswerInOnePlace
    <3>5. Owed(s)' /\ tpc'[s] # "text" /\ (HasBody(s)' <=> HasBody(s))
      BY <3>4 DEF OwedKept
    <3>6. ASSUME i + 1 \in 1..Len(stream), stream[i + 1].kind = "text"
          PROVE  j + 1 \in 1..Len(stream') /\ stream'[j + 1].kind = "text"
      <4>1. i \in 1..Len(stream')
        BY <1>1, <3>1, <3>6
      <4> QED
        BY <1>1, <3>6, <4>1
    <3> QED
      BY <3>1, <3>2, <3>3, <3>4, <3>5, <3>6
  <2>4. eof # "seen"
    BY DEF APIInv, AnswerInOnePlace
  <2> QED
    BY <2>1, <2>2, <2>3, <2>4 DEF AnswerInOnePlace
<1>3. TextsFollow'
  <2>1. \A u \in DOMAIN calls : tpc'[u] # "text"
    <3> SUFFICES ASSUME NEW u \in DOMAIN calls, tpc'[u] = "text" PROVE FALSE
      OBVIOUS
    <3>1. tpc[u] = "text"
      BY DEF OwedKept
    <3>2. stream[1] = API!Msg("text", op[u].n, TRUE)
      BY <3>1 DEF APIInv, TextsFollow
    <3> QED
      BY <3>2 DEF API!Msg
  <2>2. ASSUME NEW j \in 1..Len(stream'), stream'[j].kind = "text"
        PROVE  /\ stream'[j] = API!Msg("text", count, TRUE)
               /\ j - 1 \in 1..Len(stream') /\ stream'[j - 1].kind = "status"
               /\ stream'[j - 1].ok
               /\ \E s \in DOMAIN calls : Owed(s)' /\ HasBody(s)'
    <3>1. j + 1 \in 1..Len(stream) /\ stream[j + 1].kind = "text" /\ stream'[j] = stream[j + 1]
      BY <1>1, <2>2
    <3>2. (j + 1) - 1 = j /\ j + 1 # 1
      BY <1>1
    <3>3. /\ stream[j + 1] = API!Msg("text", count, TRUE)
          /\ stream[j].kind = "status" /\ stream[j].ok
          /\ \E s \in DOMAIN calls : Owed(s) /\ HasBody(s)
      BY <3>1, <3>2 DEF APIInv, TextsFollow
    <3>4. j # 1
      BY <3>3
    <3>5. j - 1 \in 1..Len(stream') /\ (j - 1) + 1 = j
      BY <1>1, <3>4
    <3>6. stream'[j - 1] = stream[j]
      BY <1>1, <3>5
    <3> QED
      BY <3>1, <3>3, <3>5, <3>6 DEF OwedKept
  <2> QED
    BY <2>1, <2>2 DEF TextsFollow
<1> QED
  BY <1>2, <1>3

\* What every round of the reader does.
LEMMA ReaderReads ==
  ASSUME APIInv, NEW t \in DOMAIN calls, API!ReadMessage(t)
  PROVE  /\ tpc[t] = "reading" /\ API!Running(t) /\ busy /\ API!Own(t) = <<>>
         /\ \A u \in DOMAIN calls \ {t} : tpc[u] # "reading"
         /\ API!Signal(tpc) \in
              [DOMAIN calls -> {"idle", "queue", "waiting", "reading", "failed", "text"}]
         /\ \A u \in DOMAIN calls : \/ API!Signal(tpc)[u] = tpc[u]
                                    \/ tpc[u] = "waiting" /\ API!Signal(tpc)[u] = "queue"
         /\ UNCHANGED <<calls, asked, notified, count>>
         /\ \/ stream # <<>> /\ stream' = Tail(stream) /\ eof' = eof
            \/ /\ stream = <<>> /\ stream' = <<>> /\ eof = "closed" /\ eof' = "seen"
               /\ API!Message = API!Empty
<1>1. tpc[t] = "reading"
  BY DEF API!ReadMessage
<1>2. tpc \in [DOMAIN calls -> {"idle", "queue", "waiting", "reading", "failed", "text"}]
  BY DEF APIInv, ThreadTypeOK
<1>3. API!Running(t) /\ busy /\ API!Own(t) = <<>>
  BY <1>1 DEF APIInv, ThreadsInStep, InStep
<1>4. \A u \in DOMAIN calls \ {t} : tpc[u] # "reading"
  BY <1>1 DEF APIInv, ThreadsInStep
<1>5. UNCHANGED <<calls, asked, notified, count>>
  BY DEF API!ReadMessage
<1>6. \/ stream # <<>> /\ stream' = Tail(stream) /\ eof' = eof
      \/ /\ stream = <<>> /\ stream' = <<>> /\ eof = "closed" /\ eof' = "seen"
         /\ API!Message = API!Empty
  BY DEF API!ReadMessage, API!Message
<1>7. /\ API!Signal(tpc) \in
           [DOMAIN calls -> {"idle", "queue", "waiting", "reading", "failed", "text"}]
      /\ \A u \in DOMAIN calls : \/ API!Signal(tpc)[u] = tpc[u]
                                 \/ tpc[u] = "waiting" /\ API!Signal(tpc)[u] = "queue"
  BY <1>2 DEF API!Signal
<1> QED
  BY <1>1, <1>3, <1>4, <1>5, <1>6, <1>7

\* wait() reads a notification.
LEMMA NotificationRead ==
  ASSUME APIInv, NEW t \in DOMAIN calls, API!ReadMessage(t),
         API!IsWait(t), API!Message.kind = "notify"
  PROVE  APIInv'
<1>1. /\ tpc[t] = "reading" /\ busy /\ UNCHANGED <<calls, asked, notified, count>>
      /\ \A u \in DOMAIN calls \ {t} : tpc[u] # "reading"
  BY ReaderReads
<1>2. stream # <<>> /\ stream' = Tail(stream) /\ eof' = eof
  BY ReaderReads DEF API!Empty, API!Msg
<1>3. notifyq = <<>>
  BY ReaderReads DEF API!Own
<1>4. /\ Len(stream) \in Nat /\ 1 \in 1..Len(stream)
      /\ API!Message = stream[1] /\ stream[1] \in MsgType
      /\ stream' \in Seq(MsgType) /\ Len(stream') = Len(stream) - 1 /\ Len(stream') \in Nat
      /\ \A i \in 1..Len(stream') : i + 1 \in 1..Len(stream) /\ stream'[i] = stream[i + 1]
      /\ StreamKept(1)
  BY <1>2, StreamRead
<1> DEFINE m == stream[1]
           e == [m |-> m, n |-> op[t].n]
<1>5. /\ busy' = FALSE /\ API!Return(t, m, API!Signal(tpc)) /\ UNCHANGED <<statusq, notifyq>>
  BY <1>4 DEF API!ReadMessage, API!IsFor
<1>6. op[t].n = 0
  BY ReaderReads DEF APIInv, ThreadsInStep, InStep
<1>7. /\ ThreadTypeOK' /\ Moves(t) /\ InStep(t)' /\ tpc'[t] = "idle"
      /\ got'[t] = Append(got[t], e) /\ \A u \in DOMAIN calls \ {t} : got'[u] = got[u]
  BY <1>1, <1>4, <1>5, ReaderReads, CallReturns
<1>8. /\ e \in GotType /\ e.n = 0 /\ e.m = m
  BY <1>4, <1>6, ThreadTyped DEF GotType
<1> HIDE DEF e
<1>9. MessageTypeOK'
  BY <1>1, <1>2, <1>4, <1>5, <1>7, TypesStay DEF APIInv, MessageTypeOK
<1>10. ThreadsInStep'
  BY <1>1, <1>7, ThreadsMove
<1>11. OwedKept
  <2>1. ~Owed(t)
    BY DEF Owed
  <2> QED
    BY <1>1, <1>7, <2>1, OthersStay DEF OwedKept
<1>12. AnswerInOnePlace' /\ TextsFollow'
  BY <1>1, <1>2, <1>4, <1>5, <1>11, AnswersShift
<1>13. NotificationsInOrder'
  BY <1>1, <1>4, <1>5, NotificationsStay
<1>14. NoneNew
  BY <1>4, <1>5 DEF NoneNew
<1>15. FitsGot(t, e)
  <2>1. m.kind = "notify" /\ m.n <= notified
    BY <1>4 DEF APIInv, NotificationsInOrder
  <2>2. 1..Len(notifyq') = {}
    BY <1>3, <1>5
  <2>3. \A j \in 1..Len(stream') : stream'[j].kind = "notify" => m.n < stream'[j].n
    <3> SUFFICES ASSUME NEW j \in 1..Len(stream'), stream'[j].kind = "notify"
                 PROVE  m.n < stream'[j].n
      OBVIOUS
    <3>1. j + 1 \in 1..Len(stream) /\ stream'[j] = stream[j + 1] /\ 1 < j + 1
      BY <1>4
    <3> QED
      BY <1>4, <2>1, <3>1 DEF APIInv, NotificationsInOrder
  <2>4. \A i \in 1..Len(got[t]) : got[t][i].n = 0 => got[t][i].m.n < m.n
    BY <1>4, <2>1 DEF APIInv, GotInOrder
  <2> HIDE DEF m
  <2> QED
    BY <1>8, <2>1, <2>2, <2>3, <2>4 DEF FitsGot
<1>16. GotInOrder'
  BY <1>1, <1>7, <1>8, <1>14, <1>15, GotGrows
<1> QED
  BY <1>7, <1>9, <1>10, <1>12, <1>13, <1>16 DEF APIInv

\* A command that is waiting for its answer reads a notification.
LEMMA NotificationSorted ==
  ASSUME APIInv, NEW t \in DOMAIN calls, API!ReadMessage(t),
         ~API!IsWait(t), API!Message.kind = "notify"
  PROVE  APIInv'
<1>1. /\ tpc[t] = "reading" /\ busy /\ UNCHANGED <<calls, asked, notified, count>>
      /\ \A u \in DOMAIN calls \ {t} : tpc[u] # "reading"
  BY ReaderReads
<1>2. stream # <<>> /\ stream' = Tail(stream) /\ eof' = eof
  BY ReaderReads DEF API!Empty, API!Msg
<1>3. statusq = <<>>
  BY ReaderReads DEF API!Own
<1>4. /\ Len(stream) \in Nat /\ 1 \in 1..Len(stream)
      /\ API!Message = stream[1] /\ stream[1] \in MsgType
      /\ stream' \in Seq(MsgType) /\ Len(stream') = Len(stream) - 1 /\ Len(stream') \in Nat
      /\ \A i \in 1..Len(stream') : i + 1 \in 1..Len(stream) /\ stream'[i] = stream[i + 1]
      /\ StreamKept(1)
  BY <1>2, StreamRead
<1> DEFINE m == stream[1]
<1>5. /\ tpc' = API!Signal(tpc) /\ notifyq' = Append(notifyq, m)
      /\ UNCHANGED <<op, got, busy, statusq>>
  BY <1>4 DEF API!ReadMessage, API!IsFor
<1>6. m \in MsgType /\ m.kind = "notify"
  BY <1>4
<1>7. /\ notifyq' \in Seq(MsgType) /\ Len(notifyq) \in Nat
      /\ Len(notifyq') = Len(notifyq) + 1
      /\ notifyq'[Len(notifyq) + 1] = m /\ \A i \in 1..Len(notifyq) : notifyq'[i] = notifyq[i]
  BY <1>5, <1>6, MessagesTyped
<1>8. \A i \in 1..Len(notifyq') : \/ i \in 1..Len(notifyq) /\ notifyq'[i] = notifyq[i]
                                  \/ i = Len(notifyq) + 1 /\ notifyq'[i] = m
  BY <1>7
<1>9. m.n <= notified
      /\ \A i \in 1..Len(notifyq) : notifyq[i].n < m.n
  BY <1>4, <1>6 DEF APIInv, NotificationsInOrder
<1>10. \A j \in 1..Len(stream') : stream'[j].kind = "notify" => m.n < stream'[j].n
  <2> SUFFICES ASSUME NEW j \in 1..Len(stream'), stream'[j].kind = "notify"
               PROVE  m.n < stream'[j].n
    OBVIOUS
  <2>1. j + 1 \in 1..Len(stream) /\ stream'[j] = stream[j + 1] /\ 1 < j + 1
    BY <1>4
  <2> QED
    BY <1>4, <1>6, <2>1 DEF APIInv, NotificationsInOrder
<1> HIDE DEF m
<1>11. ThreadTypeOK'
  <2>1. tpc' \in [DOMAIN calls -> {"idle", "queue", "waiting", "reading", "failed", "text"}]
    BY <1>5, ReaderReads
  <2> QED
    BY <1>1, <1>5, <2>1 DEF APIInv, ThreadTypeOK
<1>12. MessageTypeOK'
  BY <1>1, <1>2, <1>4, <1>5, <1>7, <1>11, TypesStay DEF APIInv, MessageTypeOK
<1>13. Moves(t) /\ tpc'[t] = "reading"
  BY <1>1, <1>5, ReaderReads DEF Moves
<1>14. /\ API!Running(t)' <=> API!Running(t)
       /\ API!IsWait(t)' <=> API!IsWait(t)
       /\ API!Operation(t)' = API!Operation(t)
       /\ HasBody(t)' = HasBody(t)
  <2>1. HasBody(t)' = HasBody(t)
    BY <1>1, <1>5 DEF HasBody, API!Operation
  <2> QED
    BY <1>1, <1>5, <2>1, ThreadStays
<1>15. Owed(t) /\ Owed(t)'
  BY <1>1, <1>13, <1>14 DEF Owed
<1>16. InStep(t)'
  <2>1. InStep(t)
    BY DEF APIInv, ThreadsInStep
  <2>2. API!Own(t)' = <<>>
    BY <1>3, <1>5, <1>14 DEF API!Own
  <2> QED
    BY <1>1, <1>5, <1>13, <1>14, <1>15, <2>1, <2>2 DEF InStep
<1>17. ThreadsInStep'
  BY <1>1, <1>13, <1>16, ThreadsMove
<1>18. OwedKept
  BY <1>1, <1>13, <1>14, <1>15, OthersStay DEF OwedKept
<1>19. AnswerInOnePlace' /\ TextsFollow'
  BY <1>1, <1>2, <1>5, <1>6, <1>18, AnswersShift DEF m
<1>20. NotificationsInOrder'
  <2>1. \A i \in 1..Len(stream') : stream'[i].kind = "notify" => stream'[i].n <= notified
    BY <1>4 DEF APIInv, NotificationsInOrder
  <2>2. ASSUME NEW i \in 1..Len(stream'), NEW j \in 1..Len(stream'), i < j,
               stream'[i].kind = "notify", stream'[j].kind = "notify"
        PROVE  stream'[i].n < stream'[j].n
    <3>1. /\ i + 1 \in 1..Len(stream) /\ stream'[i] = stream[i + 1]
          /\ j + 1 \in 1..Len(stream) /\ stream'[j] = stream[j + 1] /\ i + 1 < j + 1
      BY <1>4, <2>2
    <3> QED
      BY <2>2, <3>1 DEF APIInv, NotificationsInOrder
  <2>3. ASSUME NEW i \in 1..Len(notifyq')
        PROVE  /\ notifyq'[i].kind = "notify" /\ notifyq'[i].n <= notified
               /\ \A j \in 1..Len(stream') :
                    stream'[j].kind = "notify" => notifyq'[i].n < stream'[j].n
    <3>1. CASE i = Len(notifyq) + 1 /\ notifyq'[i] = m
      BY <1>6, <1>9, <1>10, <3>1
    <3>2. CASE i \in 1..Len(notifyq) /\ notifyq'[i] = notifyq[i]
      BY <1>4, <3>2 DEF APIInv, NotificationsInOrder
    <3> QED
      BY <1>8, <3>1, <3>2
  <2>4. ASSUME NEW i \in 1..Len(notifyq'), NEW j \in 1..Len(notifyq'), i < j
        PROVE  notifyq'[i].n < notifyq'[j].n
    <3>1. i \in 1..Len(notifyq) /\ notifyq'[i] = notifyq[i]
      BY <1>7, <1>8, <2>4
    <3>2. CASE j = Len(notifyq) + 1 /\ notifyq'[j] = m
      BY <1>9, <3>1, <3>2
    <3>3. CASE j \in 1..Len(notifyq) /\ notifyq'[j] = notifyq[j]
      BY <2>4, <3>1, <3>3 DEF APIInv, NotificationsInOrder
    <3> QED
      BY <1>8, <3>2, <3>3
  <2> QED
    BY <1>1, <2>1, <2>2, <2>3, <2>4 DEF NotificationsInOrder
<1>21. NoneNew
  <2>1. \A j \in 1..Len(notifyq') :
          \/ \E i \in 1..Len(notifyq) : notifyq'[j] = notifyq[i]
          \/ \E i \in 1..Len(stream) : stream[i].kind = "notify" /\ notifyq'[j] = stream[i]
    BY <1>4, <1>6, <1>8 DEF m
  <2> QED
    BY <1>4, <2>1 DEF NoneNew
<1>22. GotInOrder'
  BY <1>1, <1>5, <1>21, GotKept
<1> QED
  BY <1>11, <1>12, <1>17, <1>19, <1>20, <1>22 DEF APIInv

\* wait() reads an answer, or learns that the stream is closed.
LEMMA StatusSorted ==
  ASSUME APIInv, NEW t \in DOMAIN calls, API!ReadMessage(t),
         API!IsWait(t), API!Message.kind # "notify"
  PROVE  APIInv'
<1>1. /\ tpc[t] = "reading" /\ busy /\ UNCHANGED <<calls, asked, notified, count>>
      /\ \A u \in DOMAIN calls \ {t} : tpc[u] # "reading"
      /\ API!Running(t)
  BY ReaderReads
<1> DEFINE m == API!Message
<1>3. notifyq = <<>>
  BY ReaderReads DEF API!Own
<1>4. /\ tpc' = API!Signal(tpc) /\ statusq' = Append(statusq, m)
      /\ UNCHANGED <<op, got, busy, notifyq>>
  BY DEF API!ReadMessage, API!IsFor
<1>5. /\ stream \in Seq(MsgType) /\ stream' \in Seq(MsgType) /\ m \in MsgType
      /\ eof' \in {"open", "closed", "seen"}
  <2>1. CASE stream # <<>> /\ stream' = Tail(stream) /\ eof' = eof
    BY <2>1, StreamRead, MessagesTyped
  <2>2. CASE stream = <<>> /\ stream' = <<>> /\ eof' = "seen" /\ m = API!Empty
    <3>1. API!Empty \in MsgType
      BY DEF API!Empty, API!Msg, MsgType
    <3> QED
      BY <2>2, <3>1, MessagesTyped
  <2> QED
    BY <2>1, <2>2, ReaderReads
<1>6. /\ statusq' \in Seq(MsgType) /\ Len(statusq) \in Nat
      /\ Len(statusq') = Len(statusq) + 1
      /\ statusq'[Len(statusq) + 1] = m /\ \A i \in 1..Len(statusq) : statusq'[i] = statusq[i]
  BY <1>4, <1>5, MessagesTyped
<1>7. \A i \in 1..Len(statusq') : \/ i \in 1..Len(statusq) /\ statusq'[i] = statusq[i]
                                  \/ i = Len(statusq) + 1 /\ statusq'[i] = m
  BY <1>6
<1>8. ThreadTypeOK'
  <2>1. tpc' \in [DOMAIN calls -> {"idle", "queue", "waiting", "reading", "failed", "text"}]
    BY <1>4, ReaderReads
  <2> QED
    BY <1>1, <1>4, <2>1 DEF APIInv, ThreadTypeOK
<1>9. MessageTypeOK'
  BY <1>1, <1>4, <1>5, <1>6, <1>8, TypesStay, MessagesTyped DEF APIInv, MessageTypeOK
<1>10. Moves(t) /\ tpc'[t] = "reading"
  BY <1>1, <1>4, ReaderReads DEF Moves
<1>11. /\ API!Running(t)' <=> API!Running(t)
       /\ API!IsWait(t)' <=> API!IsWait(t)
       /\ API!Operation(t)' = API!Operation(t)
  BY <1>1, <1>4, ThreadStays
<1>12. ~Owed(t) /\ ~Owed(t)'
  BY <1>11 DEF Owed
<1>13. InStep(t)'
  <2>1. InStep(t)
    BY DEF APIInv, ThreadsInStep
  <2>2. API!Own(t)' = <<>>
    BY <1>3, <1>4, <1>11 DEF API!Own
  <2> QED
    BY <1>1, <1>4, <1>10, <1>11, <1>12, <2>1, <2>2 DEF InStep
<1>14. ThreadsInStep'
  BY <1>1, <1>10, <1>13, ThreadsMove
<1>15. OwedKept
  <2>1. tpc'[t] # "text"
    BY <1>10
  <2> QED
    BY <1>1, <1>10, <1>12, <2>1, OthersStay DEF OwedKept
\* Another thread has sent the command, so its answer has no text.
<1>16. \A s \in DOMAIN calls : Owed(s) => ~HasBody(s) /\ tpc[s] # "text"
  <2> SUFFICES ASSUME NEW s \in DOMAIN calls, Owed(s) PROVE ~HasBody(s) /\ tpc[s] # "text"
    OBVIOUS
  <2>1. s # t /\ API!Running(s) /\ ~API!IsWait(s) /\ InStep(s)
    BY <1>12 DEF Owed, APIInv, ThreadsInStep, InStep
  <2>2. ~HasBody(s)
    BY <2>1, OneSends
  <2> QED
    BY <2>1, <2>2 DEF InStep
<1>17. \A i \in 1..Len(stream) : stream[i].kind # "text"
  BY <1>16 DEF APIInv, TextsFollow
<1>18. \A u \in DOMAIN calls : tpc[u] # "text" /\ tpc'[u] # "text"
  BY <1>16, TextIsOwed, <1>15 DEF OwedKept
<1> HIDE DEF m
<1>19. CASE stream # <<>> /\ stream' = Tail(stream) /\ eof' = eof
  <2>1. /\ Len(stream) \in Nat /\ 1 \in 1..Len(stream) /\ m = stream[1]
        /\ Len(stream') = Len(stream) - 1 /\ Len(stream') \in Nat
        /\ \A i \in 1..Len(stream') : i + 1 \in 1..Len(stream) /\ stream'[i] = stream[i + 1]
        /\ StreamKept(1)
    BY <1>19, StreamRead DEF m
  <2>2. m.kind = "status"
    BY <1>5, <1>17, <2>1 DEF MsgType, m
  <2>3. /\ m.n = count /\ statusq = <<>>
        /\ \A k \in 1..Len(stream) : stream[k].kind = "status" => k = 1
    BY <2>1, <2>2 DEF APIInv, AnswerInOnePlace
  <2>4. PICK s \in DOMAIN calls : Owed(s)
    BY <2>1, <2>2 DEF APIInv, AnswerInOnePlace
  <2>5. m = API!Msg("status", count, m.ok)
    BY <1>5, <2>2, <2>3 DEF MsgType, API!Msg
  <2>6. \A j \in 1..Len(stream') : stream'[j].kind = "notify"
    <3> SUFFICES ASSUME NEW j \in 1..Len(stream') PROVE stream'[j].kind = "notify"
      OBVIOUS
    <3>1. j + 1 \in 1..Len(stream) /\ j + 1 # 1 /\ stream'[j] = stream[j + 1]
      BY <2>1
    <3>2. stream'[j].kind # "status" /\ stream'[j].kind # "text"
      BY <1>17, <2>3, <3>1
    <3>3. stream'[j] \in MsgType
      BY <1>5
    <3> QED
      BY <3>2, <3>3 DEF MsgType
  <2>7. eof = "open" => asked = <<>>
    BY <2>1, <2>2 DEF APIInv, AnswerInOnePlace
  <2>8. eof # "seen"
    BY <1>19 DEF APIInv, AnswerInOnePlace
  <2>9. \A i \in 1..Len(statusq') : i = 1 /\ statusq'[1] = m
    BY <1>6, <1>7, <2>3
  <2>10. Owed(s)' /\ tpc'[s] # "text" /\ ~HasBody(s)'
    BY <1>15, <1>16, <1>18, <2>4 DEF OwedKept
  <2>11. AnswerInOnePlace'
    <3>1. \A i \in 1..Len(statusq') :
            /\ i = 1 /\ statusq'[1] = API!Msg("status", count', statusq'[1].ok)
            /\ \A k \in 1..Len(stream') : stream'[k].kind = "notify"
            /\ \E u \in DOMAIN calls : Owed(u)' /\ tpc'[u] # "text" /\ ~HasBody(u)'
      BY <1>1, <2>5, <2>6, <2>9, <2>10
    <3>2. eof' # "seen" /\ (eof' = "open" => asked' = <<>>)
      BY <1>1, <1>19, <2>7, <2>8
    <3>3. \A k \in 1..Len(stream') : stream'[k].kind # "status"
      BY <2>6
    <3> QED
      BY <1>1, <3>1, <3>2, <3>3 DEF AnswerInOnePlace
  <2>12. TextsFollow'
    BY <1>1, <1>18, <2>6 DEF TextsFollow
  <2>13. NotificationsInOrder' /\ GotInOrder'
    BY <1>1, <1>4, <2>1, NotificationsStay, GotStays
  <2> QED
    BY <1>8, <1>9, <1>14, <2>11, <2>12, <2>13 DEF APIInv
<1>20. CASE stream = <<>> /\ stream' = <<>> /\ eof = "closed" /\ eof' = "seen" /\ m = API!Empty
  <2>1. ASSUME NEW i \in 1..Len(statusq'), statusq'[i] # API!Empty
        PROVE  /\ i = 1 /\ statusq'[1] = API!Msg("status", count, statusq'[1].ok)
               /\ \E s \in DOMAIN calls : Owed(s)' /\ tpc'[s] # "text" /\ ~HasBody(s)'
    <3>1. i \in 1..Len(statusq) /\ statusq'[i] = statusq[i]
      BY <1>7, <1>20, <2>1
    <3>2. /\ i = 1 /\ statusq[1] = API!Msg("status", count, statusq[1].ok)
          /\ \E s \in DOMAIN calls : Owed(s)
      BY <1>20, <2>1, <3>1 DEF APIInv, AnswerInOnePlace
    <3> QED
      BY <1>15, <1>16, <1>18, <3>1, <3>2 DEF OwedKept
  <2>2. AnswerInOnePlace'
    BY <1>1, <1>20, <2>1 DEF AnswerInOnePlace, API!Empty, API!Msg
  <2>3. TextsFollow'
    BY <1>1, <1>18, <1>20 DEF TextsFollow
  <2>4. StreamKept(0) /\ Len(stream') \in Nat
    BY <1>20 DEF StreamKept
  <2>5. NotificationsInOrder' /\ GotInOrder'
    BY <1>1, <1>4, <2>4, NotificationsStay, GotStays
  <2> QED
    BY <1>8, <1>9, <1>14, <2>2, <2>3, <2>5 DEF APIInv
<1> QED
  BY <1>19, <1>20, ReaderReads DEF m

\* A command reads its answer, or learns that the stream is closed.
LEMMA AnswerRead ==
  ASSUME APIInv, NEW t \in DOMAIN calls, API!ReadMessage(t),
         ~API!IsWait(t), API!Message.kind # "notify"
  PROVE  APIInv'
<1>1. /\ tpc[t] = "reading" /\ busy /\ UNCHANGED <<calls, asked, notified, count>>
      /\ \A u \in DOMAIN calls \ {t} : tpc[u] # "reading"
      /\ API!Running(t)
  BY ReaderReads
<1> DEFINE m == API!Message
           e == [m |-> m, n |-> op[t].n]
<1>2. statusq = <<>>
  BY ReaderReads DEF API!Own
<1>3. /\ busy' = FALSE /\ API!Return(t, m, API!Signal(tpc)) /\ UNCHANGED <<statusq, notifyq>>
  BY DEF API!ReadMessage, API!IsFor
<1>4. /\ stream \in Seq(MsgType) /\ stream' \in Seq(MsgType) /\ m \in MsgType
      /\ eof' \in {"open", "closed", "seen"}
  <2>1. CASE stream # <<>> /\ stream' = Tail(stream) /\ eof' = eof
    BY <2>1, StreamRead, MessagesTyped
  <2>2. CASE stream = <<>> /\ stream' = <<>> /\ eof' = "seen" /\ m = API!Empty
    <3>1. API!Empty \in MsgType
      BY DEF API!Empty, API!Msg, MsgType
    <3> QED
      BY <2>2, <3>1, MessagesTyped
  <2> QED
    BY <2>1, <2>2, ReaderReads
<1>5. Owed(t) /\ op[t].n = count /\ count > 0 /\ count \in Nat
  BY <1>1, MessagesTyped DEF Owed, APIInv, ThreadsInStep, InStep
<1>6. \A u \in DOMAIN calls : Owed(u) => u = t
  BY <1>5, OnlyOwed
<1>7. \A u \in DOMAIN calls : tpc[u] # "text"
  BY <1>1, <1>6, TextIsOwed
<1>8. /\ ThreadTypeOK' /\ Moves(t) /\ InStep(t)'
      /\ \/ tpc'[t] = "idle" /\ ~(m.ok /\ HasBody(t))
         \/ /\ tpc'[t] = "text" /\ m.ok /\ HasBody(t)
            /\ op'[t] = op[t] /\ Owed(t)' /\ HasBody(t)'
      /\ got'[t] = Append(got[t], e) /\ \A u \in DOMAIN calls \ {t} : got'[u] = got[u]
  BY <1>1, <1>3, <1>4, ReaderReads, CallReturns
<1>9. /\ e \in GotType /\ e.n = count /\ e.m = m
  BY <1>4, <1>5, ThreadTyped DEF GotType
<1> HIDE DEF e, m
<1>10. MessageTypeOK'
  BY <1>1, <1>3, <1>4, <1>8, MessagesTyped, TypesStay DEF APIInv, MessageTypeOK
<1>11. ThreadsInStep'
  BY <1>1, <1>8, ThreadsMove
<1>12. \A u \in DOMAIN calls : tpc'[u] = "text" => u = t
  BY <1>7, <1>8, OthersStay
<1>13. 1..Len(statusq') = {}
  BY <1>2, <1>3
<1>14. CASE stream # <<>> /\ stream' = Tail(stream) /\ eof' = eof
  <2>1. /\ Len(stream) \in Nat /\ 1 \in 1..Len(stream) /\ m = stream[1]
        /\ Len(stream') = Len(stream) - 1 /\ Len(stream') \in Nat
        /\ \A i \in 1..Len(stream') : i + 1 \in 1..Len(stream) /\ stream'[i] = stream[i + 1]
        /\ StreamKept(1)
    BY <1>14, StreamRead DEF m
  <2>2. m.kind = "status"
    <3>1. m.kind # "text"
      <4> SUFFICES ASSUME stream[1].kind = "text" PROVE FALSE
        BY <2>1
      <4>1. \/ 1 - 1 \in 1..Len(stream)
            \/ \E u \in DOMAIN calls : tpc[u] = "text"
        BY <2>1 DEF APIInv, TextsFollow
      <4> QED
        BY <1>7, <2>1, <4>1
    <3> QED
      BY <1>4, <3>1 DEF MsgType, m
  <2>3. /\ m.n = count
        /\ \A k \in 1..Len(stream) : stream[k].kind = "status" => k = 1
        /\ m.ok /\ HasBody(t) => 2 \in 1..Len(stream) /\ stream[2].kind = "text"
    <3>1. /\ m.n = count
          /\ \A k \in 1..Len(stream) : stream[k].kind = "status" => k = 1
          /\ \E s \in DOMAIN calls :
               /\ Owed(s)
               /\ m.ok /\ HasBody(s) => 1 + 1 \in 1..Len(stream) /\ stream[1 + 1].kind = "text"
      BY <2>1, <2>2 DEF APIInv, AnswerInOnePlace
    <3> QED
      BY <1>6, <3>1
  <2>4. m = API!Msg("status", count, m.ok)
    BY <1>4, <2>2, <2>3 DEF MsgType, API!Msg
  <2>5. \A i \in 1..Len(stream) : stream[i].kind = "text" =>
          i = 2 /\ stream[2] = API!Msg("text", count, TRUE) /\ m.ok /\ HasBody(t)
    <3> SUFFICES ASSUME NEW i \in 1..Len(stream), stream[i].kind = "text"
                 PROVE  i = 2 /\ stream[2] = API!Msg("text", count, TRUE) /\ m.ok /\ HasBody(t)
      OBVIOUS
    <3>1. /\ stream[i] = API!Msg("text", count, TRUE)
          /\ i - 1 \in 1..Len(stream) /\ stream[i - 1].kind = "status" /\ stream[i - 1].ok
          /\ \E s \in DOMAIN calls : Owed(s) /\ HasBody(s)
      BY <1>7 DEF APIInv, TextsFollow
    <3>2. i - 1 = 1 /\ i = 2
      BY <2>1, <2>3, <3>1
    <3> QED
      BY <1>6, <2>1, <3>1, <3>2
  <2>6. \A j \in 1..Len(stream') :
          /\ stream'[j].kind # "status"
          /\ stream'[j].kind = "text" =>
               /\ j = 1 /\ stream'[1] = API!Msg("text", count, TRUE)
               /\ tpc'[t] = "text" /\ Owed(t)' /\ HasBody(t)'
    <3> SUFFICES ASSUME NEW j \in 1..Len(stream')
                 PROVE  /\ stream'[j].kind # "status"
                        /\ stream'[j].kind = "text" =>
                             /\ j = 1 /\ stream'[1] = API!Msg("text", count, TRUE)
                             /\ tpc'[t] = "text" /\ Owed(t)' /\ HasBody(t)'
      OBVIOUS
    <3>1. j + 1 \in 1..Len(stream) /\ j + 1 # 1 /\ stream'[j] = stream[j + 1]
      BY <2>1
    <3>2. j + 1 = 2 => j = 1
      BY <2>1
    <3> QED
      BY <1>8, <2>3, <2>5, <3>1, <3>2
  <2>7. eof = "open" => asked = <<>>
    BY <2>1, <2>2 DEF APIInv, AnswerInOnePlace
  <2>8. eof # "seen"
    BY <1>14 DEF APIInv, AnswerInOnePlace
  <2>9. AnswerInOnePlace'
    BY <1>1, <1>13, <1>14, <2>6, <2>7, <2>8 DEF AnswerInOnePlace
  <2>10. ASSUME tpc'[t] = "text"
         PROVE  stream' # <<>> /\ stream'[1] = API!Msg("text", op'[t].n, TRUE)
    <3>1. m.ok /\ HasBody(t) /\ op'[t].n = count
      BY <1>5, <1>8, <2>10
    <3>2. 2 \in 1..Len(stream) /\ stream[2].kind = "text"
      BY <2>3, <3>1
    <3>3. stream[2] = API!Msg("text", count, TRUE)
      BY <2>5, <3>2
    <3>4. 1 \in 1..Len(stream') /\ stream'[1] = stream[2]
      <4>1. 1 \in 1..Len(stream')
        BY <2>1, <3>2
      <4>2. stream'[1] = stream[1 + 1]
        BY <2>1, <4>1
      <4> QED
        BY <4>1, <4>2
    <3>5. stream' # <<>>
      BY <3>4
    <3> QED
      BY <3>1, <3>3, <3>4, <3>5
  <2>11. TextsFollow'
    BY <1>1, <1>12, <2>6, <2>10 DEF TextsFollow
  <2>12. NotificationsInOrder'
    BY <1>1, <1>3, <2>1, NotificationsStay
  <2>13. NoneNew
    BY <1>3, <2>1 DEF NoneNew
  <2>14. FitsGot(t, e)
    <3>1. e.n # 0
      BY <1>5, <1>9
    <3>2. e.m = API!Msg("status", e.n, e.m.ok)
      BY <1>9, <2>4
    <3> QED
      BY <3>1, <3>2 DEF FitsGot
  <2>15. GotInOrder'
    BY <1>1, <1>8, <1>9, <2>13, <2>14, GotGrows
  <2> QED
    BY <1>8, <1>10, <1>11, <2>9, <2>11, <2>12, <2>15 DEF APIInv
<1>15. CASE stream = <<>> /\ stream' = <<>> /\ eof = "closed" /\ eof' = "seen" /\ m = API!Empty
  <2>1. ~m.ok
    BY <1>15 DEF API!Empty, API!Msg
  <2>2. \A u \in DOMAIN calls : tpc'[u] # "text"
    BY <1>8, <1>12, <2>1
  <2>3. AnswerInOnePlace'
    BY <1>1, <1>13, <1>15 DEF AnswerInOnePlace
  <2>4. TextsFollow'
    BY <1>1, <1>15, <2>2 DEF TextsFollow
  <2>5. StreamKept(0) /\ Len(stream') \in Nat
    BY <1>15 DEF StreamKept
  <2>6. NotificationsInOrder'
    BY <1>1, <1>3, <2>5, NotificationsStay
  <2>7. NoneNew
    BY <1>3, <1>15 DEF NoneNew
  <2>8. FitsGot(t, e)
    <3>1. e.n # 0
      BY <1>5, <1>9
    <3> QED
      BY <1>9, <1>15, <3>1 DEF FitsGot
  <2>9. GotInOrder'
    BY <1>1, <1>8, <1>9, <2>7, <2>8, GotGrows
  <2> QED
    BY <1>8, <1>10, <1>11, <2>3, <2>4, <2>6, <2>9 DEF APIInv
<1> QED
  BY <1>14, <1>15, ReaderReads DEF m

\* A client begins in the invariant.
LEMMA APIBegins ==
  ASSUME calls \in Plans, API!Begin
  PROVE  APIInv
<1> DEFINE o == [i |-> 1, j |-> 1, n |-> 0]
<1>1. /\ op = [t \in DOMAIN calls |-> o] /\ tpc = [t \in DOMAIN calls |-> "idle"]
      /\ got = [t \in DOMAIN calls |-> <<>>]
      /\ busy = FALSE /\ statusq = <<>> /\ notifyq = <<>> /\ stream = <<>> /\ asked = <<>>
      /\ eof = "open" /\ notified = 0 /\ count = 0
  BY DEF API!Begin
<1>2. o \in OpType /\ o.i = 1 /\ o.j = 1 /\ o.n = 0
  BY DEF OpType
<1> HIDE DEF o
<1>3. ThreadTypeOK /\ MessageTypeOK
  <2>1. <<>> \in Seq(GotType) /\ <<>> \in Seq(MsgType) /\ <<>> \in Seq(AskType)
    OBVIOUS
  <2>2. got \in [DOMAIN calls -> Seq(GotType)]
    BY <1>1, <2>1
  <2>3. op \in [DOMAIN calls -> OpType]
    BY <1>1, <1>2
  <2>4. tpc \in [DOMAIN calls -> {"idle", "queue", "waiting", "reading", "failed", "text"}]
    BY <1>1
  <2>5. MessageTypeOK
    BY <1>1, <2>1 DEF MessageTypeOK
  <2> QED
    BY <2>2, <2>3, <2>4, <2>5 DEF ThreadTypeOK
<1>4. ASSUME NEW t \in DOMAIN calls
      PROVE  InStep(t) /\ tpc[t] = "idle" /\ ~Owed(t)
  <2>1. op[t] = o /\ tpc[t] = "idle"
    BY <1>1
  <2>2. ASSUME API!Running(t), ~API!IsWait(t)
        PROVE  op[t].j \in DOMAIN API!Operation(t)
    <3>1. 1 \in 1..Len(calls[t])
      BY <1>2, <2>1, <2>2, PlanTyped DEF API!Running
    <3>2. API!Operation(t) = API!Operations[calls[t][1]]
      BY <1>2, <2>1 DEF API!Operation
    <3>3. API!Operation(t) \in Seq(CmdType) /\ API!Operation(t) # <<>>
      BY <2>2, <3>1, <3>2, OperationTyped DEF API!IsWait, API!wait
    <3> HIDE DEF API!Operation
    <3>4. 1 \in 1..Len(API!Operation(t)) /\ DOMAIN API!Operation(t) = 1..Len(API!Operation(t))
      BY <3>3, HeadAndTail
    <3> QED
      BY <1>2, <2>1, <3>4
  <2> QED
    BY <1>2, <2>1, <2>2 DEF InStep, Owed
<1>5. ThreadsInStep
  BY <1>4 DEF ThreadsInStep
<1>6. AnswerInOnePlace /\ TextsFollow /\ NotificationsInOrder
  BY <1>1, <1>4 DEF AnswerInOnePlace, TextsFollow, NotificationsInOrder
<1>7. GotInOrder
  BY <1>1 DEF GotInOrder
<1> QED
  BY <1>3, <1>5, <1>6, <1>7 DEF APIInv

\* Every step of the client or of the daemon keeps the invariant.
LEMMA APISteps ==
  ASSUME APIInv, API!Next
  PROVE  APIInv'
<1>1. CASE API!Answer \/ API!Notify \/ API!Close
  BY <1>1, CommandAnswered, DaemonNotifies, ConnectionCloses
<1>2. ASSUME NEW t \in DOMAIN calls, API!ThreadStep(t)
      PROVE  APIInv'
  <2>1. CASE API!Call(t)
    BY <2>1, ThreadWaits, CommandCalled
  <2>2. CASE API!Take(t)
    BY <2>2, NotificationTaken, StatusTaken
  <2>3. CASE API!Wait(t) \/ API!BecomeReader(t)
    BY <2>3, ThreadWaits
  <2>4. CASE API!ReadMessage(t)
    BY <2>4, NotificationRead, NotificationSorted, StatusSorted, AnswerRead
  <2>5. CASE API!ReadFails(t) \/ API!ReadText(t)
    BY <2>5, ReaderFails, TextRead
  <2> QED
    BY <1>2, <2>1, <2>2, <2>3, <2>4, <2>5 DEF API!ThreadStep
<1> QED
  BY <1>1, <1>2 DEF API!Next

\* The invariant is stronger than the property.
LEMMA CommandsAreMet ==
  ASSUME APIInv
  PROVE  API!AnswersMeetCommands
<1>1. \A t \in DOMAIN calls : DOMAIN got[t] = 1..Len(got[t])
  BY ThreadTyped
<1> QED
  BY <1>1 DEF APIInv, GotInOrder, API!AnswersMeetCommands

-----------------------------------------------------------------------------
(* The applications together.                                              *)

\* The application that is looked at keeps its invariant, the others do nothing.
AppInv ==
  /\ IF app = "stream" THEN StreamInv ELSE out = <<>> /\ confirmed = {}
  /\ IF app = "api" THEN APIInv ELSE got = [t \in DOMAIN calls |-> <<>>]
  /\ IF app = "tool" THEN ToolInv ELSE counted = <<>>

\* Each application begins in its invariant.
LEMMA AppsBegin == AppInit => AppInv
<1> SUFFICES ASSUME AppInit PROVE AppInv
  OBVIOUS
<1>1. app \in {"stream", "api", "tool"} /\ Stream!Begin /\ API!Begin /\ Tool!Begin
  BY DEF AppInit
<1>2. IF app = "stream" THEN StreamInv ELSE out = <<>> /\ confirmed = {}
  <2>1. CASE app = "stream"
    <3>1. opt \in StreamOptions
      BY <2>1 DEF AppInit, Among
    <3> QED
      BY <2>1, <3>1, <1>1, StreamBegins
  <2>2. CASE app # "stream"
    BY <2>2, <1>1 DEF Stream!Begin
  <2> QED
    BY <2>1, <2>2
<1>3. IF app = "api" THEN APIInv ELSE got = [t \in DOMAIN calls |-> <<>>]
  <2>1. CASE app = "api"
    <3>1. calls \in Plans
      BY <2>1 DEF AppInit, Among
    <3> QED
      BY <2>1, <3>1, <1>1, APIBegins
  <2>2. CASE app # "api"
    BY <2>2, <1>1 DEF API!Begin
  <2> QED
    BY <2>1, <2>2
<1>4. IF app = "tool" THEN ToolInv ELSE counted = <<>>
  <2>1. CASE app = "tool"
    <3>1. prog \in Programs
      BY <2>1 DEF AppInit, Among
    <3> QED
      BY <2>1, <3>1, <1>1, ToolBegins
  <2>2. CASE app # "tool"
    BY <2>2, <1>1 DEF Tool!Begin
  <2> QED
    BY <2>1, <2>2
<1> QED
  BY <1>2, <1>3, <1>4 DEF AppInv

\* An application that stutters keeps its invariant.
LEMMA StreamStays == StreamInv /\ UNCHANGED streamVars => StreamInv'
  BY DEF streamVars, StreamInv, StreamOK, StreamTypeOK, Chunks, SentTo, ChunksFollow,
     ReaderHolds, OutBefore, Complete, OutComplete, DeliveredIsRead

LEMMA APIStays == APIInv /\ UNCHANGED apiVars => APIInv'
<1> SUFFICES ASSUME APIInv, UNCHANGED apiVars PROVE APIInv'
  OBVIOUS
<1>1. UNCHANGED <<calls, op, tpc, busy, statusq, notifyq, stream, asked, eof, notified, got, count>>
  BY DEF apiVars
<1>2. \A t : /\ API!Operation(t)' = API!Operation(t) /\ API!Running(t)' = API!Running(t)
            /\ API!Own(t)' = API!Own(t)
  BY <1>1 DEF API!Operation, API!Running, API!Own, API!IsWait
<1>3. \A t : API!IsWait(t)' = API!IsWait(t) /\ HasBody(t)' = HasBody(t)
  BY <1>1, <1>2 DEF API!IsWait, HasBody
<1>4. \A t : Owed(t)' = Owed(t)
  BY <1>1, <1>3 DEF Owed
<1>5. ThreadTypeOK' /\ MessageTypeOK'
  BY <1>1 DEF APIInv, ThreadTypeOK, MessageTypeOK
<1>6. \A t \in DOMAIN calls : InStep(t)'
  BY <1>1, <1>2, <1>3, <1>4 DEF APIInv, ThreadsInStep, InStep
<1>7. ThreadsInStep'
  BY <1>1, <1>6 DEF APIInv, ThreadsInStep
<1>8. AnswerInOnePlace' /\ TextsFollow'
  <2>1. OwedKept
    BY <1>1, <1>3, <1>4 DEF OwedKept
  <2> QED
    BY <1>1, <2>1, AnswersStay
<1>9. NotificationsInOrder'
  BY <1>1 DEF APIInv, NotificationsInOrder
<1>10. GotInOrder'
  BY <1>1 DEF APIInv, GotInOrder, API!Empty, API!Msg
<1> QED
  BY <1>5, <1>7, <1>8, <1>9, <1>10 DEF APIInv

LEMMA ToolStays == ToolInv /\ UNCHANGED toolVars => ToolInv'
  BY DEF toolVars, ToolInv

\* Every step keeps the invariant.
LEMMA AppsStep == AppInv /\ [AppNext]_appVars => AppInv'
<1> SUFFICES ASSUME AppInv, [AppNext]_appVars PROVE AppInv'
  OBVIOUS
<1>1. CASE app = "stream" /\ Stream!Next /\ UNCHANGED <<app, apiVars, toolVars>>
  <2>1. StreamInv'
    BY <1>1, StreamSteps DEF AppInv
  <2>2. UNCHANGED <<app, got, calls, counted>>
    BY <1>1 DEF apiVars, toolVars
  <2> QED
    BY <1>1, <2>1, <2>2 DEF AppInv
<1>2. CASE app = "api" /\ API!Next /\ UNCHANGED <<app, streamVars, toolVars>>
  <2>1. APIInv'
    BY <1>2, APISteps DEF AppInv
  <2>2. UNCHANGED <<app, out, confirmed, counted>>
    BY <1>2 DEF streamVars, toolVars
  <2> QED
    BY <1>2, <2>1, <2>2 DEF AppInv
<1>3. CASE app = "tool" /\ Tool!Next /\ UNCHANGED <<app, streamVars, apiVars>>
  <2>1. ToolInv'
    BY <1>3, ToolSteps DEF AppInv
  <2>2. UNCHANGED <<app, got, calls, out, confirmed>>
    BY <1>3 DEF streamVars, apiVars
  <2> QED
    BY <1>3, <2>1, <2>2 DEF AppInv
<1>4. CASE UNCHANGED appVars
  <2>1. UNCHANGED <<app, got, calls, out, confirmed, counted>>
    BY <1>4 DEF appVars, streamVars, apiVars, toolVars
  <2>2. app = "stream" => StreamInv'
    BY <1>4, StreamStays DEF AppInv, appVars
  <2>3. app = "api" => APIInv'
    BY <1>4, APIStays DEF AppInv, appVars
  <2>4. app = "tool" => ToolInv'
    BY <1>4, ToolStays DEF AppInv, appVars
  <2> QED
    BY <2>1, <2>2, <2>3, <2>4 DEF AppInv
<1> QED
  BY <1>1, <1>2, <1>3, <1>4 DEF AppNext

\* What a stream hands on is what was written, in its order, none twice and none
\* of another source; none is missing if the reader waits for the first chunk
\* and has no timeout; and a chunk is reported as delivered only after all its
\* bytes were handed on.  BundleStreamBuf::append(), underflow().
THEOREM StreamsAreIntact == AppSpec => []OutputIsInput
<1>1. AppInv => OutputIsInput
  <2> SUFFICES ASSUME AppInv PROVE OutputIsInput
    OBVIOUS
  <2>1. CASE app = "stream"
    BY <2>1, InputIsHandedOn DEF AppInv, OutputIsInput
  <2>2. CASE app # "stream"
    <3>1. out = <<>> /\ confirmed = {} /\ DOMAIN out = {}
      BY <2>2 DEF AppInv
    <3> QED
      BY <3>1 DEF OutputIsInput, Stream!OutputIsInput
  <2> QED
    BY <2>1, <2>2
<1> QED
  BY <1>1, AppsBegin, AppsStep, PTL DEF AppSpec

\* Every command of a client gets its own answer and every wait() the next
\* notification, whichever thread reads the stream; dtnping counts at most one
\* reply to each bundle, the one to it.  Client::__get_return(), checkReply().
THEOREM AnswersAreMet == AppSpec => []AnswersMeetRequests
<1>1. AppInv => AnswersMeetRequests
  <2> SUFFICES ASSUME AppInv PROVE AnswersMeetRequests
    OBVIOUS
  <2>1. API!AnswersMeetCommands
    <3>1. CASE app = "api"
      BY <3>1, CommandsAreMet DEF AppInv
    <3>2. CASE app # "api"
      <4>1. \A t \in DOMAIN calls : DOMAIN got[t] = {}
        BY <3>2 DEF AppInv
      <4> QED
        BY <4>1 DEF API!AnswersMeetCommands
    <3> QED
      BY <3>1, <3>2
  <2>2. Tool!ReplyIsCounted
    <3>1. CASE app = "tool"
      BY <3>1, RepliesAreCounted DEF AppInv
    <3>2. CASE app # "tool"
      <4>1. DOMAIN counted = {}
        BY <3>2 DEF AppInv
      <4> QED
        BY <4>1 DEF Tool!ReplyIsCounted
    <3> QED
      BY <3>1, <3>2
  <2> QED
    BY <2>1, <2>2 DEF AnswersMeetRequests
<1> QED
  BY <1>1, AppsBegin, AppsStep, PTL DEF AppSpec
=============================================================================
