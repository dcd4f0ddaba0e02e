------------------------------- MODULE Queues -------------------------------
(***************************************************************************)
(* Queues as sequences: how many of the elements are in a set, and which.  *)
(***************************************************************************)
EXTENDS Integers, Sequences, FiniteSets

\* The number of elements of s that are in S
Count(s, S) == Cardinality({i \in 1..Len(s) : s[i] \in S})

\* The elements of s that are in S, in their order
Within(s, S) ==
  LET kept[i \in 0..Len(s)] == IF i = 0 THEN <<>>
                               ELSE IF s[i] \in S THEN Append(kept[i - 1], s[i])
                               ELSE kept[i - 1]
  IN  kept[Len(s)]
=============================================================================
