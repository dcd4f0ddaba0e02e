----------------------------- MODULE MCRouting -----------------------------
(***************************************************************************)
(* Small instances of Routing with one or two neighbours and two bundles.  *)
(***************************************************************************)
EXTENDS Routing, TLC

CONSTANTS p1, p2, far

OneOfEach == [b \in Bundles |-> IF b = 1 THEN p1 ELSE far]
=============================================================================
