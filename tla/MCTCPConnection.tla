-------------------------- MODULE MCTCPConnection --------------------------
(* Instances of TCPConnection for TLC. *)
EXTENDS TCPConnection, TLC

CONSTANTS b1, b2, b3

\* b1 needs two segments, b2 and b3 one.
MCSegCount == [b \in Bundles |-> IF b = b1 THEN 2 ELSE 1]
=============================================================================
