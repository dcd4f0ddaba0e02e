CONSTANTS
    c1 = c1
    c2 = c2
    Clients = {c1, c2}
    Handles = {1, 2, 3}
    Endpoints = {e1}
    Bundles = {b1}
    Dest <- ToEndpoint
    Singleton = {b1}
    Limit = 1
    MaxLifetime = 2
    Scenarios <- AllScenarios
SPECIFICATION Spec
INVARIANTS NoDangling
PROPERTIES NotifiedIsFetched 
CHECK_DEADLOCK FALSE
