--------------------------- MODULE MCEventSwitch ---------------------------
(***************************************************************************)
(* Small instances of EventSwitch: r1 is a component, r2 another one or an *)
(* EventConnection that comes and goes.                                    *)
(***************************************************************************)
EXTENDS EventSwitch, TLC

CONSTANTS e1, e2, e3, r1, r2, n1, n2

OneName   == [e \in Events |-> n1]
OneOrBoth == [r \in Receivers |-> IF r = r1 THEN <<n1, n2>> ELSE <<n1>>]
OnlyR1    == <<r1>>

\* a blocking event and a shutdown that overtakes it
Overtaking == [e \in Events |-> IF e = e3 THEN "prio" ELSE "normal"]
============================================================================
