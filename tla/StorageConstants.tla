-------------------------- MODULE StorageConstants --------------------------
(***************************************************************************)
(* The bundles, limits and bounds the three bundle storages are            *)
(* parameterised with.                                                     *)
(***************************************************************************)
EXTENDS Naturals, Sequences, FiniteSets, FiniteSetsExt

CONSTANTS
  Bundles,
  Size,       \* the serialized length of each bundle
  Blocks,     \* the number of blocks of each bundle
  TTL,        \* expiretime of each bundle
  Fragments,  \* the bundles that are fragments
  Custody,    \* bundles whose custody the node accepts
  MaxSize,    \* _maxsize, 0 for no limit
  Buffer,     \* write_buffer, 0 for no limit
  Modulus,    \* of the arithmetic of size_t
  MaxStores,  \* bound on the calls of store()
  MaxTime,    \* bound on the ticks of the clock
  MaxCrashes, \* bound: how often the daemon stops and restarts
  Again,      \* a bundle may be stored although it is there
  Overlap,    \* a bundle may be removed or expire before its store() returns
  MayFail,    \* writing a file may fail
  MayClear,   \* clear() is called
  Default,    \* the bundle operator[] creates
  None        \* no bundle, no task

ASSUME StorageAssumption ==
  /\ Size \in [Bundles -> Nat \ {0}]
  /\ Blocks \in [Bundles -> Nat \ {0}] /\ TTL \in [Bundles -> Nat \ {0}]
  /\ Fragments \subseteq Bundles /\ Custody \subseteq Bundles
  /\ MaxSize \in Nat /\ Buffer \in Nat
  /\ MaxStores \in Nat /\ MaxTime \in Nat /\ MaxCrashes \in Nat
  /\ Modulus \in Nat /\ Modulus > MaxSize
  /\ \A x \in {Again, Overlap, MayFail, MayClear} : x \in BOOLEAN
  /\ Default \notin Bundles /\ None \notin Bundles \cup {Default}
=============================================================================
