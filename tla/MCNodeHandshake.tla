-------------------------- MODULE MCNodeHandshake --------------------------
(***************************************************************************)
(* Small instances of NodeHandshake: a line of nodes n1 - n2 - n3.         *)
(***************************************************************************)
EXTENDS NodeHandshake, TLC

CONSTANTS n1, n2, n3

Line   == {<<n1, n2>>, <<n2, n1>>, <<n2, n3>>}
Couple == {<<n1, n2>>, <<n2, n1>>}
FromN1 == [b \in Bundles |-> n1]
ToBoth == [b \in Bundles |-> IF b = 1 THEN n2 ELSE n3]
=============================================================================
