----------------------------- MODULE Registration -----------------------------
(***************************************************************************)
(* A registration of the application interface: the endpoints a client has *)
(* subscribed to, the bundles found for them and the flag its sender waits *)
(* on (daemon/src/api/Registration.cpp).  A registration is a record; the  *)
(* operators below are the critical sections of its methods.               *)
(***************************************************************************)
EXTENDS Naturals, Sequences, FiniteSetsExt, SequencesExt

CONSTANTS
    Endpoints,   \* endpoint identifiers
    Bundles,     \* bundles that may reach the storage
    Dest,        \* [Bundles -> Endpoints], the destination of a bundle
    Singleton,   \* the bundles whose destination is a singleton
    Limit        \* how many bundles one query returns (10 in the code)

ASSUME RegistrationAssumption ==
    /\ Dest \in [Bundles -> Endpoints]
    /\ Singleton \subseteq Bundles
    /\ Limit \in Nat \ {0} /\ IsFiniteSet(Bundles)

\* The record behind a handle.  A handle whose record is not live names no
\* registration; expiry is the time left of _expiry, queue and received are _queue and _received_bundles, none is
\* _no_more_bundles and aborted the state of the queues and the condition
\* after abort().
RegistrationType ==
    [live : BOOLEAN, detached : BOOLEAN, persistent : BOOLEAN, expiry : Nat,
     eps : SUBSET Endpoints, queue : Seq(Bundles), received : SUBSET Bundles,
     none : BOOLEAN, aborted : BOOLEAN]

\* No registration has this handle.
Released ==
    [live |-> FALSE, detached |-> FALSE, persistent |-> FALSE, expiry |-> 0,
     eps |-> {}, queue |-> <<>>, received |-> {}, none |-> FALSE, aborted |-> FALSE]

\* The constructor.  It leaves _no_more_bundles uninitialised; every sender asks
\* the storage, which sets the flag, before it waits on it.
NewRegistration == [Released EXCEPT !.live = TRUE]

\* Seeded error: the flag the sender waits on keeps its value.
NotifyForgets(r) == r

\* notify(NOTIFY_BUNDLE_AVAILABLE)
Notify(r) == [r EXCEPT !.none = FALSE]

hasSubscribed(r, e) == e \in r.eps

subscribe(r, e) == Notify([r EXCEPT !.eps = @ \cup {e}])

unsubscribe(r, e) == [r EXCEPT !.eps = @ \ {e}]

\* The bundles of the storage the filter of underflow() lets pass.
Wanted(r, store) == {b \in store : Dest[b] \in r.eps /\ b \notin r.received}

\* What one query returns: Limit bundles, or all there are.
Answers(r, store) ==
    LET all == Wanted(r, store)
    IN  {s \in SUBSET all : Cardinality(s) = Min({Limit, Cardinality(all)})}

\* underflow() has found bundles: they are queued and noted as received.
Found(r, found) ==
    [r EXCEPT !.queue = @ \o SetToSeq(found), !.received = @ \cup found]

abort(r) == [r EXCEPT !.aborted = TRUE]

setPersistent(r, lifetime) == [r EXCEPT !.persistent = TRUE, !.expiry = lifetime]

isPersistent(r) == r.persistent /\ r.expiry > 0

\* attach() throws AlreadyAttachedException unless the registration is detached.
attachable(r) == r.live /\ r.detached

attach(r) == [r EXCEPT !.detached = FALSE]

detach(r) == [r EXCEPT !.detached = TRUE, !.aborted = FALSE]
===============================================================================
