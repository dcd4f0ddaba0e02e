----------------------------- MODULE MCStorages -----------------------------
(***************************************************************************)
(* A small instance of Storages: the limit holds two of the three bundles  *)
(* at most; in the database, a bundle of two blocks and a fragment.        *)
(***************************************************************************)
EXTENDS Storages

CONSTANTS b1, b2, b3

MCSize   == [b \in Bundles |-> IF b = b2 THEN 2 ELSE 1]
MCBlocks == [b \in Bundles |-> IF b = b1 THEN 2 ELSE 1]
MCTTL    == [b \in Bundles |-> IF b = b1 THEN 2 ELSE 1]

\* fragments of two blocks
TwoBlocks == [b \in Bundles |-> 2]
=============================================================================
