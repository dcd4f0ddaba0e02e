------------------------ MODULE MemoryBundleStorage ------------------------
(***************************************************************************)
(* The bundle storage in memory.  Every operation runs under _bundleslock, *)
(* so it is one step; the storage is used by all threads of the daemon.    *)
(***************************************************************************)
EXTENDS StorageConstants

VARIABLES
  bundles,    \* _bundles
  list,       \* the BundleList
  index,      \* _priority_index
  lengths,    \* _bundle_lengths, 0 where there is no entry
  cursize,    \* _currentsize
  stores      \* calls of store() so far

vars == <<bundles, list, index, lengths, cursize, stores>>

SizeOf(S) == MapThenSumSet(LAMBDA b : Size[b], S)

Init ==
  /\ bundles = {} /\ list = {} /\ index = {}
  /\ lengths = [b \in Bundles |-> 0]
  /\ cursize = 0 /\ stores = 0

\* the limit holds with the new bundle
Fits(b) == ~(MaxSize > 0 /\ cursize + Size[b] > MaxSize)

\* store(): a duplicate changes nothing but the size
Store(b) ==
  /\ stores < MaxStores
  /\ Again \/ b \notin bundles
  /\ Fits(b)
  /\ cursize' = cursize + Size[b]
  /\ lengths' = [lengths EXCEPT ![b] = Size[b]]
  /\ bundles' = bundles \cup {b}
  /\ \/ /\ b \notin bundles
        /\ list' = list \cup {b} /\ index' = index \cup {b}
     \/ /\ b \in bundles
        /\ UNCHANGED <<list, index>>
  /\ stores' = stores + 1

\* remove() by id: the length is computed again
Remove(b) ==
  /\ b \in bundles
  /\ bundles' = bundles \ {b} /\ list' = list \ {b} /\ index' = index \ {b}
  /\ cursize' = cursize - Size[b]
  /\ UNCHANGED <<lengths, stores>>

\* Seeded error: the recorded length is erased before it is read.
RemoveFilteredUnsized(b) ==
  /\ b \in bundles
  /\ bundles' = bundles \ {b} /\ list' = list \ {b} /\ index' = index \ {b}
  /\ lengths' = [lengths EXCEPT ![b] = 0]
  /\ UNCHANGED <<cursize, stores>>

\* remove() by filter and eventBundleExpired() use the recorded length
RemoveFiltered(b) ==
  /\ b \in bundles
  /\ bundles' = bundles \ {b} /\ list' = list \ {b} /\ index' = index \ {b}
  /\ cursize' = cursize - lengths[b]
  /\ lengths' = [lengths EXCEPT ![b] = 0]
  /\ UNCHANGED stores

\* a tick of the clock expires the bundle, if the list has it
Expire(b) == b \in list /\ RemoveFiltered(b)

Clear ==
  /\ bundles' = {} /\ list' = {} /\ index' = {}
  /\ lengths' = [b \in Bundles |-> 0]
  /\ cursize' = 0
  /\ UNCHANGED stores

Next ==
  \/ \E b \in Bundles : Store(b) \/ Remove(b) \/ RemoveFiltered(b) \/ Expire(b)
  \/ Clear

Spec == Init /\ [][Next]_vars

-----------------------------------------------------------------------------
TypeOK ==
  /\ bundles \subseteq Bundles /\ list \subseteq Bundles /\ index \subseteq Bundles
  /\ lengths \in [Bundles -> Nat] /\ cursize \in Nat /\ stores \in 0..MaxStores

(* _currentsize is the sum of the lengths of the bundles in the storage,   *)
(* and the list, the index and the recorded lengths agree with them, as    *)
(* long as no duplicate is stored.                                         *)
SizeIsExact ==
  /\ cursize = SizeOf(bundles)
  /\ list = bundles /\ index = bundles
  /\ \A b \in bundles : lengths[b] = Size[b]

(* A bundle is refused for lack of space only when there is none.          *)
RefusedOnlyWhenFull ==
  \A b \in Bundles \ bundles : ~Fits(b) => SizeOf(bundles) + Size[b] > MaxSize

Abstract == INSTANCE BundleStorage WITH content <- bundles, doomed <- {}

(* The storage behaves as a set of bundles within the limit.               *)
ImplementsBundleStorage == Abstract!Spec
=============================================================================
