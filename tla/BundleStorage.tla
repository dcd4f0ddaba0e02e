--------------------------- MODULE BundleStorage ---------------------------
(***************************************************************************)
(* What every bundle storage promises its users (core/BundleStorage.h): it *)
(* holds a set of bundles which never exceed its size limit, a bundle can  *)
(* be got from the time it is stored until it is removed, expires, or the  *)
(* daemon restarts before it is safe.                                      *)
(***************************************************************************)
EXTENDS Naturals, FiniteSetsExt

CONSTANTS
  Bundles,
  Size,       \* the serialized length of each bundle
  MaxSize     \* limit of the storage, 0 for none

VARIABLES
  content,  \* the bundles get() returns
  doomed    \* removed bundles that a restart may bring back

SumOf(S) == MapThenSumSet(LAMBDA b : Size[b], S)
WithinLimit(S) == MaxSize > 0 => SumOf(S) <= MaxSize

Init == content = {} /\ doomed = {}

Store(b) ==
  /\ WithinLimit(content \cup {b})
  /\ content' = content \cup {b} /\ doomed' = doomed \ {b}

Remove(b) ==
  /\ content' = content \ {b}
  /\ doomed' \in {doomed, doomed \cup {b}}

\* the last traces of removed bundles vanish
Purge == doomed' \subseteq doomed /\ UNCHANGED content

Clear ==
  /\ content' = {}
  /\ doomed \subseteq doomed' /\ doomed' \subseteq doomed \cup content

\* a restart may lose bundles and revive removed ones, but invents none
Restart ==
  /\ content' \subseteq content \cup doomed /\ WithinLimit(content')
  /\ doomed' = {}

Next == Clear \/ Restart \/ Purge \/ \E b \in Bundles : Store(b) \/ Remove(b)

Spec == Init /\ [][Next]_<<content, doomed>>
============================================================================
