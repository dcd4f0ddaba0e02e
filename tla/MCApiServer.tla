----------------------------- MODULE MCApiServer -----------------------------
(* The instance of the application interface for TLC.                       *)
EXTENDS ApiServer
CONSTANTS c1, c2

ToEndpoint == [b \in Bundles |-> CHOOSE e \in Endpoints : TRUE]

Plan(k1, n1, k2, n2) == [c \in Clients |-> IF c = c1 THEN [kinds |-> k1, left |-> n1]
                                                    ELSE [kinds |-> k2, left |-> n2]]
\* A client works with the bundles it is told of; one saves a registration, leaves
\* and loads it again; two clients save and load registrations of each other; a
\* binary client is served while the daemon is shut down; a client watches events.
AllScenarios ==
    {[plan |-> Plan({"accept", "level0", "extended", "add", "del", "bundle"}, 5, {}, 0), due |-> Bundles],
     [plan |-> Plan({"accept", "extended", "add", "save", "load"}, 7, {}, 0), due |-> Bundles],
     [plan |-> Plan({"accept", "extended", "save"}, 3,
                    {"accept", "extended", "save", "load"}, 4), due |-> {}],
     [plan |-> Plan({"accept", "tcpcl"}, 2, {"accept", "management"}, 2), due |-> Bundles],
     [plan |-> Plan({"accept", "event"}, 4, {}, 0), due |-> Bundles]}

\* A client subscribes and is told of a bundle.
OneClient == {[plan |-> Plan({"accept", "tcpcl"}, 2, {}, 0), due |-> Bundles]}
==============================================================================
