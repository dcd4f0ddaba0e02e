--------------------------- MODULE StorageProofs ---------------------------
(***************************************************************************)
(* The storages in memory, in files and in SQLite for any bundles, sizes   *)
(* and limits: they count their size as they should, lose nothing, bring   *)
(* nothing back and are sets of bundles within their limit.                *)
(***************************************************************************)
EXTENDS Storages, QueueLemmas

-----------------------------------------------------------------------------
(* The sum of the sizes of a finite set of bundles.  The fold behind       *)
(* MapThenSumSet is a recursive function; that it exists, that the set it  *)
(* is defined over does not matter and that the order does not either is   *)
(* proved by the smallest set for which it fails.                          *)

Total(S) == MapThenSumSet(LAMBDA b : Size[b], S)

Pick(s) == CHOOSE x \in s : TRUE

\* f sums up the sets in D.
Sums(f, D) ==
  f = [s \in D |-> IF s = {} THEN 0 ELSE Size[Pick(s)] + f[s \ {Pick(s)}]]

LEMMA TotalIsFold ==
  ASSUME NEW S
  PROVE  Total(S) = (CHOOSE f : Sums(f, SUBSET S))[S]
  BY DEF Total, MapThenSumSet, MapThenFoldSet, Sums, Pick

LEMMA PickIn ==
  ASSUME NEW s, s # {}
  PROVE  Pick(s) \in s
  BY DEF Pick

\* The subsets of S with at most n elements.
Small(S, n) == {s \in SUBSET S : Cardinality(s) <= n}

LEMMA SubsetSize ==
  ASSUME NEW S, IsFiniteSet(S), NEW s \in SUBSET S
  PROVE  /\ IsFiniteSet(s) /\ Cardinality(s) \in Nat /\ Cardinality(s) <= Cardinality(S)
         /\ (Cardinality(s) = 0) = (s = {})
<1>1. IsFiniteSet(s) /\ Cardinality(s) <= Cardinality(S)
  BY FS_Subset
<1>2. Cardinality(s) \in Nat
  BY <1>1, FS_CardinalityType
<1>3. (Cardinality(s) = 0) = (s = {})
  BY <1>1, FS_EmptySet
<1> QED
  BY <1>1, <1>2, <1>3

LEMMA RestSize ==
  ASSUME NEW S, IsFiniteSet(S), NEW s \in SUBSET S, s # {}
  PROVE  /\ s \ {Pick(s)} \in SUBSET S
         /\ Cardinality(s \ {Pick(s)}) = Cardinality(s) - 1
         /\ Cardinality(s) - 1 \in Nat
<1>1. IsFiniteSet(s) /\ Pick(s) \in s
  BY SubsetSize, PickIn
<1>2. Cardinality(s \ {Pick(s)}) = Cardinality(s) - 1
  BY <1>1, FS_RemoveElement
<1>3. Cardinality(s) \in Nat /\ Cardinality(s) # 0
  BY SubsetSize
<1>4. Cardinality(s) - 1 \in Nat
  BY <1>3
<1> QED
  BY <1>2, <1>4

LEMMA SumsExist ==
  ASSUME NEW S, IsFiniteSet(S)
  PROVE  \E f : Sums(f, SUBSET S)
<1> DEFINE Missing == {n \in Nat : ~ \E f : Sums(f, Small(S, n))}
<1>1. \E f : Sums(f, Small(S, 0))
  <2> DEFINE g == [s \in Small(S, 0) |-> 0]
  <2>1. ASSUME NEW s \in Small(S, 0)
        PROVE  s = {}
    <3>1. s \in SUBSET S /\ Cardinality(s) <= 0
      BY DEF Small
    <3>2. Cardinality(s) \in Nat /\ (Cardinality(s) = 0) = (s = {})
      BY <3>1, SubsetSize
    <3> QED
      BY <3>1, <3>2
  <2>2. Sums(g, Small(S, 0))
    BY <2>1 DEF Sums
  <2> QED
    BY <2>2
<1>2. ASSUME NEW n \in Nat, NEW f, Sums(f, Small(S, n))
      PROVE  \E g : Sums(g, Small(S, n + 1))
  <2> DEFINE g == [s \in Small(S, n + 1) |->
                     IF s = {} THEN 0 ELSE Size[Pick(s)] + f[s \ {Pick(s)}]]
  <2>1. ASSUME NEW s \in Small(S, n)
        PROVE  s \in Small(S, n + 1) /\ g[s] = f[s]
    <3>1. s \in Small(S, n + 1)
      <4>1. s \in SUBSET S /\ Cardinality(s) <= n
        BY DEF Small
      <4>2. Cardinality(s) \in Nat
        BY <4>1, SubsetSize
      <4> QED
        BY <4>1, <4>2 DEF Small
    <3>2. f[s] = IF s = {} THEN 0 ELSE Size[Pick(s)] + f[s \ {Pick(s)}]
      BY <1>2 DEF Sums
    <3> QED
      BY <3>1, <3>2
  <2>2. ASSUME NEW s \in Small(S, n + 1), s # {}
        PROVE  s \ {Pick(s)} \in Small(S, n)
    <3>1. s \in SUBSET S /\ Cardinality(s) <= n + 1
      BY DEF Small
    <3>2. /\ s \ {Pick(s)} \in SUBSET S
          /\ Cardinality(s \ {Pick(s)}) = Cardinality(s) - 1
          /\ Cardinality(s) - 1 \in Nat
      BY <2>2, <3>1, RestSize
    <3>3. Cardinality(s) \in Nat
      BY <3>1, SubsetSize
    <3>4. Cardinality(s) - 1 <= n
      BY <3>1, <3>3
    <3> QED
      BY <3>2, <3>4 DEF Small
  <2>3. \A s \in Small(S, n + 1) : s # {} => f[s \ {Pick(s)}] = g[s \ {Pick(s)}]
    BY <2>1, <2>2
  <2>4. g = [s \in Small(S, n + 1) |->
               IF s = {} THEN 0 ELSE Size[Pick(s)] + g[s \ {Pick(s)}]]
    BY <2>3
  <2> HIDE DEF g
  <2> QED
    BY <2>4 DEF Sums
<1>3. Missing = {}
  <2> SUFFICES ASSUME Missing # {} PROVE FALSE
    OBVIOUS
  <2>1. PICK m \in Missing : \A y \in Missing : m <= y
    BY LeastNumber
  <2>2. m \in Nat /\ m # 0
    BY <2>1, <1>1
  <2>3. m - 1 \in Nat /\ m - 1 \notin Missing
    BY <2>1, <2>2
  <2>4. PICK f : Sums(f, Small(S, m - 1))
    BY <2>3
  <2>5. \E g : Sums(g, Small(S, m - 1 + 1))
    BY <2>3, <2>4, <1>2
  <2> QED
    BY <2>1, <2>2, <2>5
<1>4. Cardinality(S) \in Nat
  BY FS_CardinalityType
<1>5. \A s \in SUBSET S : Cardinality(s) <= Cardinality(S)
  BY SubsetSize
<1>6. Small(S, Cardinality(S)) = SUBSET S
  BY <1>5 DEF Small
<1> QED
  BY <1>3, <1>4, <1>6

LEMMA SumsUnique ==
  ASSUME NEW S, IsFiniteSet(S), NEW T, IsFiniteSet(T), NEW f, NEW g,
         Sums(f, SUBSET S), Sums(g, SUBSET T), NEW u, u \subseteq S, u \subseteq T
  PROVE  f[u] = g[u]
<1> DEFINE Bad(n) == \E s \in SUBSET S : s \in SUBSET T /\ Cardinality(s) = n /\ f[s] # g[s]
           N == {n \in Nat : Bad(n)}
<1> SUFFICES ASSUME N # {} PROVE FALSE
  <2>1. Cardinality(u) \in Nat
    BY SubsetSize
  <2> QED
    BY <2>1
<1>1. PICK m \in N : \A y \in N : m <= y
  BY LeastNumber
<1>2. PICK s \in SUBSET S : s \in SUBSET T /\ Cardinality(s) = m /\ f[s] # g[s]
  BY <1>1
<1>3. /\ f[s] = IF s = {} THEN 0 ELSE Size[Pick(s)] + f[s \ {Pick(s)}]
      /\ g[s] = IF s = {} THEN 0 ELSE Size[Pick(s)] + g[s \ {Pick(s)}]
  BY <1>2 DEF Sums
<1>4. s # {}
  BY <1>2, <1>3
<1> DEFINE r == s \ {Pick(s)}
<1>5. r \in SUBSET S /\ r \in SUBSET T /\ Cardinality(r) = m - 1 /\ m - 1 \in Nat
  <2>1. IsFiniteSet(S) /\ s \in SUBSET S /\ s # {} /\ Cardinality(s) = m
    BY <1>2, <1>4
  <2>2. r \in SUBSET S /\ Cardinality(r) = m - 1 /\ m - 1 \in Nat
    BY <2>1, RestSize
  <2>3. r \in SUBSET T
    BY <1>2
  <2> QED
    BY <2>2, <2>3
<1>6. f[r] = g[r]
  <2>1. m - 1 \notin N
    BY <1>1, <1>5
  <2> QED
    BY <2>1, <1>5
<1> QED
  BY <1>2, <1>3, <1>4, <1>6

\* The sum of a set is that of the set without one element and its size.
LEMMA TotalUnfolds ==
  ASSUME NEW S, IsFiniteSet(S)
  PROVE  Total(S) = IF S = {} THEN 0 ELSE Size[Pick(S)] + Total(S \ {Pick(S)})
<1> DEFINE f == CHOOSE h : Sums(h, SUBSET S)
           R == S \ {Pick(S)}
           g == CHOOSE h : Sums(h, SUBSET R)
<1>1. Sums(f, SUBSET S) /\ Total(S) = f[S]
  BY SumsExist, TotalIsFold
<1>2. IsFiniteSet(R) /\ R \subseteq S
  BY FS_RemoveElement
<1>3. Sums(g, SUBSET R) /\ Total(R) = g[R]
  BY <1>2, SumsExist, TotalIsFold
<1> HIDE DEF f, g
<1>4. f[S] = IF S = {} THEN 0 ELSE Size[Pick(S)] + f[R]
  BY <1>1 DEF Sums
<1>5. f[R] = g[R]
  <2>1. R \subseteq R
    OBVIOUS
  <2> HIDE DEF R
  <2> QED
    BY <1>1, <1>2, <1>3, <2>1, SumsUnique
<1> QED
  BY <1>1, <1>3, <1>4, <1>5

LEMMA TotalType ==
  ASSUME NEW S \in SUBSET Bundles, IsFiniteSet(S)
  PROVE  Total(S) \in Nat
<1> DEFINE N == {n \in Nat : \E s \in SUBSET S : Cardinality(s) = n /\ Total(s) \notin Nat}
<1> SUFFICES ASSUME N # {} PROVE FALSE
  <2>1. Cardinality(S) \in Nat
    BY FS_CardinalityType
  <2> QED
    BY <2>1
<1>1. PICK m \in N : \A y \in N : m <= y
  BY LeastNumber
<1>2. PICK s \in SUBSET S : Cardinality(s) = m /\ Total(s) \notin Nat
  BY <1>1
<1>3. IsFiniteSet(s)
  BY SubsetSize
<1>4. Total(s) = IF s = {} THEN 0 ELSE Size[Pick(s)] + Total(s \ {Pick(s)})
  BY <1>3, TotalUnfolds
<1>5. s # {}
  BY <1>2, <1>4
<1>6. Total(s \ {Pick(s)}) \in Nat
  <2>1. s \ {Pick(s)} \in SUBSET S /\ Cardinality(s \ {Pick(s)}) = m - 1 /\ m - 1 \in Nat
    BY <1>2, <1>5, RestSize
  <2>2. m - 1 \notin N
    BY <1>1, <2>1
  <2> QED
    BY <2>1, <2>2
<1>7. Size[Pick(s)] \in Nat
  BY <1>5, PickIn, StorageAssumption
<1> QED
  BY <1>2, <1>4, <1>5, <1>6, <1>7

\* A bundle that is added adds its size.
LEMMA TotalAdds ==
  ASSUME NEW S \in SUBSET Bundles, IsFiniteSet(S), NEW b \in Bundles, b \notin S
  PROVE  Total(S \cup {b}) = Total(S) + Size[b]
<1> DEFINE All == S \cup {b}
           Bad(s, e) == Total(s \cup {e}) # Total(s) + Size[e]
           N == {n \in Nat : \E s \in SUBSET All : \E e \in All \ s :
                                Cardinality(s) = n /\ Bad(s, e)}
<1>1. IsFiniteSet(All) /\ All \subseteq Bundles
  BY FS_AddElement
<1> SUFFICES ASSUME N # {} PROVE FALSE
  <2>1. Cardinality(S) \in Nat
    BY FS_CardinalityType
  <2> QED
    BY <2>1
<1>2. PICK m \in N : \A y \in N : m <= y
  BY LeastNumber
<1>3. PICK s \in SUBSET All : \E e \in All \ s : Cardinality(s) = m /\ Bad(s, e)
  BY <1>2
<1>4. PICK e \in All \ s : Cardinality(s) = m /\ Bad(s, e)
  BY <1>3
<1> HIDE DEF All, Bad
<1> DEFINE t == s \cup {e}
           x == Pick(t)
           r == s \ {x}
<1>5. IsFiniteSet(s) /\ s \subseteq Bundles /\ e \in Bundles /\ e \notin s
  BY <1>1, <1>3, <1>4, SubsetSize
<1>6. IsFiniteSet(t) /\ t # {}
  BY <1>5, FS_AddElement
<1>7. x \in t
  BY <1>6, PickIn
<1>8. Total(t) = Size[x] + Total(t \ {x})
  BY <1>6, TotalUnfolds
<1> HIDE DEF x
<1>9. Size[x] \in Nat /\ Size[e] \in Nat
  BY <1>5, <1>7, StorageAssumption
<1>10. CASE x = e
  <2>1. t \ {x} = s
    BY <1>5, <1>10
  <2>2. Total(s) \in Nat
    BY <1>5, TotalType
  <2> QED
    BY <1>4, <1>8, <1>9, <1>10, <2>1, <2>2 DEF Bad
<1>11. CASE x # e
  <2>1. x \in s /\ t \ {x} = r \cup {e} /\ r \cup {x} = s /\ r \subseteq Bundles
    BY <1>5, <1>7, <1>11
  <2>2. r \in SUBSET All /\ e \in All \ r /\ x \in All \ r
    BY <1>3, <1>4, <2>1
  <2>3. IsFiniteSet(r) /\ Cardinality(r) = m - 1
    BY <1>4, <1>5, <2>1, FS_RemoveElement
  <2>4. m - 1 \in Nat /\ m - 1 \notin N
    <3>1. Cardinality(r) \in Nat
      BY <2>3, FS_CardinalityType
    <3>2. m - 1 \in Nat /\ m \in Nat
      BY <1>2, <2>3, <3>1
    <3> QED
      BY <1>2, <3>2
  <2>5. ~Bad(r, e) /\ ~Bad(r, x)
    BY <2>2, <2>3, <2>4
  <2>6. Total(r) \in Nat
    BY <2>1, <2>3, TotalType
  <2>7. Total(t) = Size[x] + (Total(r) + Size[e]) /\ Total(s) = Total(r) + Size[x]
    BY <1>8, <2>1, <2>5 DEF Bad
  <2> QED
    BY <1>4, <1>9, <2>6, <2>7 DEF Bad
<1> QED
  BY <1>10, <1>11

LEMMA TotalEmpty == Total({}) = 0
  BY FS_EmptySet, TotalUnfolds

\* A bundle that is removed takes its size.
LEMMA TotalRemoves ==
  ASSUME NEW S \in SUBSET Bundles, IsFiniteSet(S), NEW b \in S
  PROVE  /\ IsFiniteSet(S \ {b}) /\ Total(S \ {b}) \in Nat /\ Size[b] \in Nat
         /\ Total(S) = Total(S \ {b}) + Size[b]
<1> DEFINE R == S \ {b}
<1>1. IsFiniteSet(R) /\ R \in SUBSET Bundles /\ b \in Bundles /\ b \notin R /\ R \cup {b} = S
  BY FS_RemoveElement
<1> HIDE DEF R
<1>2. Total(R \cup {b}) = Total(R) + Size[b]
  BY <1>1, TotalAdds
<1>3. Total(R) \in Nat /\ Size[b] \in Nat
  BY <1>1, TotalType, StorageAssumption
<1> QED
  BY <1>1, <1>2, <1>3 DEF R

\* A larger set has no smaller sum.
LEMMA TotalMonotone ==
  ASSUME NEW A \in SUBSET Bundles, NEW B \in SUBSET Bundles, A \subseteq B, IsFiniteSet(B)
  PROVE  Total(A) <= Total(B)
<1> DEFINE Bad(s) == A \subseteq s /\ ~(Total(A) <= Total(s))
           N == {n \in Nat : \E s \in SUBSET B : Cardinality(s) = n /\ Bad(s)}
<1> SUFFICES ASSUME N # {} PROVE FALSE
  <2>1. Cardinality(B) \in Nat
    BY FS_CardinalityType
  <2> QED
    BY <2>1
<1>1. PICK m \in N : \A y \in N : m <= y
  BY LeastNumber
<1>2. PICK s \in SUBSET B : Cardinality(s) = m /\ Bad(s)
  BY <1>1
<1>3. IsFiniteSet(s) /\ s \in SUBSET Bundles /\ IsFiniteSet(A) /\ A \subseteq s
  BY <1>2, FS_Subset
<1>4. Total(A) \in Nat /\ Total(s) \in Nat
  BY <1>3, TotalType
<1>5. PICK x \in s : x \notin A
  BY <1>2, <1>3, <1>4
<1>6. Total(s) = Total(s \ {x}) + Size[x] /\ Total(s \ {x}) \in Nat /\ Size[x] \in Nat
  BY <1>3, TotalRemoves
<1>7. Bad(s \ {x})
  BY <1>2, <1>3, <1>4, <1>5, <1>6
<1>8. Cardinality(s \ {x}) = m - 1 /\ Cardinality(s \ {x}) \in Nat
  BY <1>2, <1>3, FS_RemoveElement, FS_CardinalityType
<1> HIDE DEF Bad
<1>9. m - 1 \in N
  BY <1>7, <1>8
<1> QED
  BY <1>1, <1>9

-----------------------------------------------------------------------------
(* The storage in memory.                                                  *)

\* _currentsize is at least the size of the bundles, and is more only when a
\* bundle was stored twice; the recorded lengths are those of the bundles.
MemoryInv ==
  /\ kind = "memory"
  /\ bundles \in SUBSET Bundles /\ IsFiniteSet(bundles)
  /\ lengths \in [Bundles -> Nat] /\ cursize \in Nat
  /\ cursize >= Total(bundles)
  /\ \A b \in bundles : lengths[b] = Size[b]
  /\ ~Again => cursize = Total(bundles) /\ list = bundles /\ index = bundles

LEMMA MemoryInit ==
  ASSUME Init, kind = "memory"
  PROVE  MemoryInv
<1>1. bundles = {} /\ list = {} /\ index = {} /\ lengths = [b \in Bundles |-> 0] /\ cursize = 0
  BY DEF Init, Memory!Init
<1> QED
  BY <1>1, TotalEmpty, FS_EmptySet DEF MemoryInv

LEMMA StoreKeeps ==
  ASSUME MemoryInv, kind' = kind, NEW b \in Bundles, Memory!Store(b)
  PROVE  MemoryInv'
<1>1. /\ cursize' = cursize + Size[b] /\ lengths' = [lengths EXCEPT ![b] = Size[b]]
      /\ bundles' = bundles \cup {b} /\ (Again \/ b \notin bundles)
      /\ b \notin bundles => list' = list \cup {b} /\ index' = index \cup {b}
  BY DEF Memory!Store
<1>2. bundles' \in SUBSET Bundles /\ IsFiniteSet(bundles') /\ Size[b] \in Nat
      /\ Total(bundles) \in Nat /\ cursize \in Nat /\ cursize >= Total(bundles)
  BY <1>1, FS_AddElement, TotalType, StorageAssumption DEF MemoryInv
<1>3. lengths' \in [Bundles -> Nat] /\ \A a \in bundles' : lengths'[a] = Size[a]
  BY <1>1, <1>2 DEF MemoryInv
<1>4. b \notin bundles => Total(bundles') = Total(bundles) + Size[b]
  BY <1>1, TotalAdds DEF MemoryInv
<1>5. b \in bundles => Total(bundles') = Total(bundles)
  BY <1>1
<1>6. cursize' \in Nat /\ cursize' >= Total(bundles')
  BY <1>1, <1>2, <1>4, <1>5
<1>7. ~Again => cursize' = Total(bundles') /\ list' = bundles' /\ index' = bundles'
  BY <1>1, <1>4 DEF MemoryInv
<1> QED
  BY <1>2, <1>3, <1>6, <1>7 DEF MemoryInv

LEMMA RemoveKeeps ==
  ASSUME MemoryInv, kind' = kind, NEW b \in Bundles, Memory!Remove(b) \/ Memory!RemoveFiltered(b)
  PROVE  MemoryInv'
<1>1. /\ b \in bundles /\ bundles' = bundles \ {b} /\ list' = list \ {b} /\ index' = index \ {b}
      /\ cursize' = cursize - Size[b]
      /\ lengths' \in {lengths, [lengths EXCEPT ![b] = 0]}
  BY DEF Memory!Remove, Memory!RemoveFiltered, MemoryInv
<1>2. /\ IsFiniteSet(bundles') /\ Total(bundles') \in Nat /\ Size[b] \in Nat
      /\ Total(bundles) = Total(bundles') + Size[b]
  BY <1>1, TotalRemoves DEF MemoryInv
<1>3. cursize \in Nat /\ cursize >= Total(bundles)
  BY DEF MemoryInv
<1>4. cursize' \in Nat /\ cursize' >= Total(bundles')
  BY <1>1, <1>2, <1>3
<1>5. lengths' \in [Bundles -> Nat] /\ \A a \in bundles' : lengths'[a] = Size[a]
  BY <1>1 DEF MemoryInv
<1>6. ~Again => cursize' = Total(bundles') /\ list' = bundles' /\ index' = bundles'
  BY <1>1, <1>2, <1>3 DEF MemoryInv
<1> QED
  BY <1>1, <1>2, <1>4, <1>5, <1>6 DEF MemoryInv

LEMMA ClearKeeps ==
  ASSUME MemoryInv, kind' = kind, Memory!Clear
  PROVE  MemoryInv'
  BY TotalEmpty, FS_EmptySet DEF MemoryInv, Memory!Clear

LEMMA MemoryStep ==
  ASSUME MemoryInv, [Next]_vars
  PROVE  MemoryInv'
<1>1. CASE UNCHANGED vars
  <2>1. UNCHANGED <<kind, bundles, list, index, lengths, cursize>>
    BY <1>1 DEF vars, Memory!vars
  <2> QED
    BY <2>1 DEF MemoryInv
<1>2. CASE Next
  <2>1. kind' = kind /\ Memory!Next
    BY <1>2 DEF Next, SimpleNext, MemoryNext, SQLiteNext, MemoryInv
  <2>2. ASSUME NEW b \in Bundles, Memory!Store(b)
        PROVE  MemoryInv'
    BY <2>1, <2>2, StoreKeeps
  <2>3. ASSUME NEW b \in Bundles,
               Memory!Remove(b) \/ Memory!RemoveFiltered(b) \/ Memory!Expire(b)
        PROVE  MemoryInv'
    BY <2>1, <2>3, RemoveKeeps DEF Memory!Expire
  <2>4. CASE Memory!Clear
    BY <2>1, <2>4, ClearKeeps
  <2> QED
    BY <2>1, <2>2, <2>3, <2>4 DEF Memory!Next
<1> QED
  BY <1>1, <1>2

LEMMA MemoryInductive == kind = "memory" /\ FairSpec => []MemoryInv
<1>1. Init /\ kind = "memory" => MemoryInv
  BY MemoryInit
<1>2. MemoryInv /\ [Next]_vars => MemoryInv'
  BY MemoryStep
<1> QED
  BY <1>1, <1>2, PTL DEF FairSpec

-----------------------------------------------------------------------------
(* The storage in files: the list under its lock, the thread that writes   *)
(* and removes the files.                                                  *)

\* The tasks of DataStorage for a bundle.
StoreOf(b)  == [op |-> "store", b |-> b]
RemoveOf(b) == [op |-> "remove", b |-> b]

\* The thread stores b; it removes b; its file has gone, its entry has not.
Storing(b) == wpc \in {"write", "stored", "failed"} /\ task = StoreOf(b)
Erasing(b) == wpc \in {"unlink", "removed"} /\ task = RemoveOf(b)
Erased(b)  == wpc = "removed" /\ task = RemoveOf(b) /\ stored[b] # None

\* How often b is on its way to the disk.
Waits(b) == (IF b \in storing THEN 1 ELSE 0) + Count(tasks, {StoreOf(b)})
              + (IF Storing(b) THEN 1 ELSE 0)

SimpleTypes ==
  /\ list \subseteq known /\ known \in SUBSET Bundles /\ IsFiniteSet(known)
  /\ pending \in [Bundles -> {"none", "own", "prev"}]
  /\ stored \in [Simple!Metas -> Bundles \cup {None}]
  /\ bsize \in [Simple!Metas -> Nat]
  /\ storing \in SUBSET Bundles /\ failed \in SUBSET Bundles
  /\ tasks \in Seq(Simple!Task)
  /\ disk \in [Bundles -> {"none", "part", "full"}]
  /\ cleared \in BOOLEAN /\ crashes \in Nat

\* The thread has the task its stage is about, and the file is as that left it.
WorkerOK ==
  /\ wpc \in {"idle", "write", "stored", "failed", "unlink", "removed"}
  /\ wpc \in {"write", "stored", "failed"} => \E b \in Bundles : task = StoreOf(b)
  /\ wpc \in {"unlink", "removed"} => \E b \in Bundles : task = RemoveOf(b)
  /\ \A b \in Bundles :
       /\ wpc = "write" /\ task = StoreOf(b) => disk[b] = "part"
       /\ wpc = "stored" /\ task = StoreOf(b) => disk[b] = "full"
       /\ wpc = "failed" /\ task = StoreOf(b) => disk[b] # "full"
       /\ wpc = "removed" /\ task = RemoveOf(b) => disk[b] = "none"

\* A pending bundle is on its way to the disk once, no other is, and only the
\* thread that writes it has touched its file.
WaitsOK(b) ==
  /\ Waits(b) = IF pending[b] # "none" THEN 1 ELSE 0
  /\ pending[b] # "none" => b \in known /\ (disk[b] # "none" => Storing(b))
  /\ disk[b] # "none" => b \in known

\* b takes up space, or its file has just gone.
Held(b) == pending[b] # "none" \/ disk[b] = "full" \/ Erased(b)

\* The entries of b in _bundle_size and _stored_bundles say so.
EntryOK(b) ==
  /\ bsize[b] = IF Held(b) THEN Size[b] ELSE 0
  /\ stored[b] = IF Held(b) /\ pending[b] = "none" THEN b ELSE None

\* A listed bundle is somewhere, and nothing in the queue will remove it.
ListOK(b) ==
  /\ b \in list => pending[b] # "none" \/ disk[b] = "full" \/ b \in failed
  /\ b \in list => ~Erasing(b) /\ Count(tasks, {RemoveOf(b)}) = 0
  /\ b \notin known => Count(tasks, {RemoveOf(b)}) = 0 /\ ~Erasing(b)

\* The bundles with an entry in _bundle_size.
Counted == {b \in Bundles : bsize[b] # 0}

\* The sizes of all bundles that are stored fit in size_t.
SizesFit == \A S \in SUBSET Bundles : IsFiniteSet(S) => Total(S) < Modulus

\* _currentsize is the sum of the entries, and within the limit until a restart
\* after clear().
SizeOK ==
  /\ stored[Default] = None /\ bsize[Default] = 0 /\ (cleared => MayClear)
  /\ SizesFit /\ ~cleared => cursize = Total(Counted)
  /\ (SizesFit /\ ~cleared /\ MaxSize > 0 /\ (MayClear => crashes = 0)) => cursize <= MaxSize

BundleOK(b) == WaitsOK(b) /\ EntryOK(b) /\ ListOK(b)

SimpleInv == SimpleTypes /\ WorkerOK /\ SizeOK /\ \A b \in Bundles : BundleOK(b)

LEMMA AddFits ==
  ASSUME NEW x \in Nat, NEW y \in Nat, x + y < Modulus
  PROVE  Simple!Add(x, y) = x + y
<1>1. Modulus \in Nat
  BY StorageAssumption
<1> QED
  BY <1>1 DEF Simple!Add

LEMMA SubFits ==
  ASSUME NEW x \in Nat, NEW y \in Nat, x + y < Modulus
  PROVE  Simple!Sub(x + y, y) = x
<1>1. Modulus \in Nat
  BY StorageAssumption
<1>2. x + y + Modulus - y = x + Modulus
  BY <1>1
<1>3. (x + Modulus) % Modulus = x
  BY <1>1
<1> QED
  BY <1>2, <1>3 DEF Simple!Sub

LEMMA TaskFacts ==
  ASSUME NEW b \in Bundles, NEW c \in Bundles
  PROVE  /\ StoreOf(b) \in Simple!Task /\ RemoveOf(b) \in Simple!Task
         /\ StoreOf(b) # RemoveOf(c)
         /\ StoreOf(b) = StoreOf(c) <=> b = c
         /\ RemoveOf(b) = RemoveOf(c) <=> b = c
         /\ StoreOf(b).op = "store" /\ StoreOf(b).b = b
         /\ RemoveOf(b).op = "remove" /\ RemoveOf(b).b = b
  BY DEF StoreOf, RemoveOf, Simple!Task

LEMMA TaskKinds ==
  ASSUME NEW t \in Simple!Task
  PROVE  /\ t.b \in Bundles
         /\ \/ t.op = "store" /\ t = StoreOf(t.b)
            \/ t.op = "remove" /\ t = RemoveOf(t.b)
  BY DEF StoreOf, RemoveOf, Simple!Task

\* Where nothing concerns b, nothing changes for it.
Alike(b) ==
  /\ UNCHANGED <<pending[b], disk[b], stored[b], bsize[b]>>
  /\ b \in storing' <=> b \in storing
  /\ b \in known' <=> b \in known
  /\ b \in list' => b \in list
  /\ b \in failed => b \in failed'
  /\ Count(tasks', {StoreOf(b)}) = Count(tasks, {StoreOf(b)})
  /\ Count(tasks', {RemoveOf(b)}) = Count(tasks, {RemoveOf(b)})
  /\ Storing(b)' <=> Storing(b)
  /\ Erasing(b)' <=> Erasing(b)
  /\ Erased(b)' <=> Erased(b)

LEMMA AlikeKeeps ==
  ASSUME NEW b \in Bundles, BundleOK(b), Alike(b)
  PROVE  BundleOK(b)'
<1>1. Waits(b)' = Waits(b) /\ Held(b)' = Held(b)
  BY DEF Alike, Waits, Held
<1>2. WaitsOK(b)'
  BY <1>1 DEF BundleOK, WaitsOK, Alike
<1>3. EntryOK(b)'
  BY <1>1 DEF BundleOK, EntryOK, Alike
<1>4. ListOK(b)'
  BY DEF BundleOK, ListOK, Alike
<1> QED
  BY <1>2, <1>3, <1>4 DEF BundleOK

LEMMA CountedKnown ==
  ASSUME SimpleInv
  PROVE  /\ Counted \in SUBSET known /\ Counted \in SUBSET Bundles /\ IsFiniteSet(Counted)
         /\ Total(Counted) \in Nat
<1>1. ASSUME NEW b \in Bundles, bsize[b] # 0
      PROVE  b \in known
  <2>1. Held(b)
    BY <1>1 DEF SimpleInv, BundleOK, EntryOK
  <2> QED
    BY <2>1 DEF Held, Erased, SimpleInv, BundleOK, WaitsOK, ListOK, Erasing
<1>2. Counted \in SUBSET known /\ Counted \in SUBSET Bundles
  BY <1>1 DEF Counted
<1>3. IsFiniteSet(Counted)
  BY <1>2, FS_Subset DEF SimpleInv, SimpleTypes
<1> QED
  BY <1>2, <1>3, TotalType

\* The recorded sizes change for b alone, from 0 to its size.
LEMMA CountedGrows ==
  ASSUME SimpleInv, NEW b \in Bundles, bsize[b] = 0, Size[b] # 0,
         bsize' = [bsize EXCEPT ![b] = Size[b]]
  PROVE  /\ IsFiniteSet(Counted') /\ Counted' \in SUBSET Bundles
         /\ Total(Counted') = Total(Counted) + Size[b]
<1>1. Counted \in SUBSET Bundles /\ IsFiniteSet(Counted)
  BY CountedKnown
<1>2. Counted' = Counted \cup {b} /\ b \notin Counted
  BY DEF Counted, SimpleInv, SimpleTypes, Simple!Metas
<1> QED
  BY <1>1, <1>2, TotalAdds, FS_AddElement

\* And from its size to 0.
LEMMA CountedShrinks ==
  ASSUME SimpleInv, NEW b \in Bundles, bsize[b] = Size[b], Size[b] # 0,
         bsize' = [bsize EXCEPT ![b] = 0]
  PROVE  /\ Total(Counted') \in Nat /\ Size[b] \in Nat
         /\ Total(Counted) = Total(Counted') + Size[b]
<1>1. Counted \in SUBSET Bundles /\ IsFiniteSet(Counted)
  BY CountedKnown
<1>2. Counted' = Counted \ {b} /\ b \in Counted
  BY DEF Counted, SimpleInv, SimpleTypes, Simple!Metas
<1> QED
  BY <1>1, <1>2, TotalRemoves

-----------------------------------------------------------------------------
(* The steps of its users, of the thread of DataStorage and a restart.     *)

\* What a task that is queued changes.
LEMMA Queued ==
  ASSUME SimpleTypes, NEW e \in Simple!Task, tasks' = Append(tasks, e), NEW x
  PROVE  /\ tasks' \in Seq(Simple!Task) /\ Count(tasks, {x}) \in Nat
         /\ Count(tasks', {x}) = Count(tasks, {x}) + (IF e = x THEN 1 ELSE 0)
<1>1. tasks \in Seq(Simple!Task)
  BY DEF SimpleTypes
<1>2. Count(Append(tasks, e), {x}) = Count(tasks, {x}) + (IF e \in {x} THEN 1 ELSE 0)
  BY <1>1, CountAppend
<1>3. Count(tasks, {x}) \in Nat
  BY <1>1, CountType
<1>4. Append(tasks, e) \in Seq(Simple!Task)
  BY <1>1
<1> QED
  BY <1>2, <1>3, <1>4

\* What the task that is taken changes.
LEMMA Taken ==
  ASSUME SimpleTypes, tasks # <<>>, tasks' = Tail(tasks), NEW x
  PROVE  /\ tasks' \in Seq(Simple!Task) /\ Count(tasks', {x}) \in Nat
         /\ Head(tasks) \in Simple!Task
         /\ Count(tasks, {x}) = Count(tasks', {x}) + (IF Head(tasks) = x THEN 1 ELSE 0)
<1>1. tasks \in Seq(Simple!Task)
  BY DEF SimpleTypes
<1>2. /\ Head(tasks) \in Simple!Task /\ Tail(tasks) \in Seq(Simple!Task)
      /\ Count(tasks, {x}) = Count(Tail(tasks), {x}) + (IF Head(tasks) \in {x} THEN 1 ELSE 0)
  BY <1>1, CountTail
<1>3. Count(Tail(tasks), {x}) \in Nat
  BY <1>2, CountType
<1> QED
  BY <1>2, <1>3

\* Nothing is on its way for a bundle that is not pending.
LEMMA Idle ==
  ASSUME SimpleInv, NEW b \in Bundles
  PROVE  /\ Count(tasks, {StoreOf(b)}) \in Nat
         /\ pending[b] = "none" => /\ b \notin storing /\ ~Storing(b)
                                   /\ Count(tasks, {StoreOf(b)}) = 0
         /\ Storing(b) => /\ pending[b] # "none" /\ b \notin storing
                          /\ Count(tasks, {StoreOf(b)}) = 0
         /\ Count(tasks, {StoreOf(b)}) # 0 =>
              /\ pending[b] # "none" /\ b \notin storing /\ ~Storing(b)
              /\ Count(tasks, {StoreOf(b)}) = 1
<1>1. Count(tasks, {StoreOf(b)}) \in Nat
  BY CountType DEF SimpleInv, SimpleTypes
<1>2. Waits(b) = IF pending[b] # "none" THEN 1 ELSE 0
  BY DEF SimpleInv, BundleOK, WaitsOK
<1> QED
  BY <1>1, <1>2 DEF Waits

LEMMA SimpleStore ==
  ASSUME SimpleInv, ~Again, NEW b \in Bundles, Simple!Store(b)
  PROVE  SimpleInv'
<1>1. /\ b \notin storing /\ b \notin known
      /\ ~(MaxSize > 0 /\ Simple!Add(cursize, Size[b]) > MaxSize)
      /\ pending' = [pending EXCEPT ![b] = Simple!Custodian(b)]
      /\ bsize' = [bsize EXCEPT ![b] = Size[b]]
      /\ cursize' = Simple!Add(cursize, Size[b])
      /\ list' = list \cup {b} /\ storing' = storing \cup {b} /\ known' = known \cup {b}
      /\ UNCHANGED <<stored, tasks, task, wpc, disk, failed, crashes, cleared>>
  BY DEF Simple!Store, Simple!workVars
<1>2. SimpleTypes /\ WorkerOK /\ SizeOK /\ BundleOK(b) /\ Size[b] \in Nat /\ Size[b] # 0
  BY StorageAssumption DEF SimpleInv
<1>3. Simple!Custodian(b) \in {"own", "prev"}
  BY DEF Simple!Custodian
<1>4. SimpleTypes'
  <2>1. IsFiniteSet(known') /\ b \in Simple!Metas
    BY <1>1, <1>2, FS_AddElement DEF SimpleTypes, Simple!Metas
  <2> QED
    BY <1>1, <1>2, <1>3, <2>1 DEF SimpleTypes
<1>5. WorkerOK'
  BY <1>1, <1>2 DEF WorkerOK
<1>6. pending[b] = "none" /\ disk[b] = "none" /\ ~Erasing(b) /\ b \notin list
      /\ Count(tasks, {RemoveOf(b)}) = 0
  BY <1>1, <1>2 DEF BundleOK, WaitsOK, ListOK, SimpleTypes
<1>7. Count(tasks, {StoreOf(b)}) = 0 /\ ~Storing(b)
  BY <1>6, Idle
<1>8. ~Held(b) /\ bsize[b] = 0 /\ stored[b] = None
  BY <1>2, <1>6 DEF Held, Erased, Erasing, BundleOK, EntryOK
<1>9. SizeOK'
  <2>1. Total(Counted') = Total(Counted) + Size[b] /\ (SizesFit => Total(Counted') < Modulus)
    BY <1>1, <1>2, <1>8, CountedGrows DEF SizesFit
  <2>2. Total(Counted) \in Nat
    BY CountedKnown
  <2>3. SizesFit /\ ~cleared => cursize' = Total(Counted')
    BY <1>1, <1>2, <2>1, <2>2, AddFits DEF SizeOK
  <2>4. bsize'[Default] = 0
    BY <1>1, <1>2, StorageAssumption DEF SizeOK, SimpleTypes, Simple!Metas
  <2>5. SizesFit /\ ~cleared /\ MaxSize > 0 => cursize' <= MaxSize
    BY <1>1, <2>1, <2>2, <2>3, <1>2, StorageAssumption
  <2> QED
    BY <1>1, <1>2, <2>3, <2>4, <2>5 DEF SizeOK
<1>10. ASSUME NEW c \in Bundles
       PROVE  BundleOK(c)'
  <2>1. CASE c = b
    <3>1. pending'[b] \in {"own", "prev"} /\ bsize'[b] = Size[b]
      BY <1>1, <1>2, <1>3 DEF SimpleTypes, Simple!Metas
    <3>2. Waits(b)' = 1 /\ Held(b)'
      BY <1>1, <1>7, <3>1 DEF Waits, Storing, Held
    <3>3. WaitsOK(b)'
      BY <1>1, <1>6, <3>1, <3>2 DEF WaitsOK
    <3>4. EntryOK(b)'
      BY <1>1, <1>8, <3>1, <3>2 DEF EntryOK
    <3>5. ListOK(b)'
      BY <1>1, <1>6, <3>1 DEF ListOK, Erasing
    <3> QED
      BY <2>1, <3>3, <3>4, <3>5 DEF BundleOK
  <2>2. CASE c # b
    <3>1. UNCHANGED <<pending[c], bsize[c]>>
      BY <1>1, <1>2, <2>2 DEF SimpleTypes, Simple!Metas
    <3>2. Alike(c)
      BY <1>1, <2>2, <3>1 DEF Alike, Storing, Erasing, Erased
    <3> QED
      BY <3>2, AlikeKeeps DEF SimpleInv
  <2> QED
    BY <2>1, <2>2
<1> QED
  BY <1>4, <1>5, <1>9, <1>10 DEF SimpleInv

LEMMA SimpleQueueStore ==
  ASSUME SimpleInv, NEW b \in Bundles, Simple!QueueStore(b)
  PROVE  SimpleInv'
<1>1. /\ b \in storing /\ storing' = storing \ {b} /\ tasks' = Append(tasks, StoreOf(b))
      /\ UNCHANGED <<list, pending, stored, bsize, cursize, task, wpc, disk,
                     known, failed, crashes, cleared>>
  BY DEF Simple!QueueStore, Simple!listVars, Simple!bookVars, Simple!workVars,
         Simple!pastVars, StoreOf
<1>2. SimpleTypes /\ WorkerOK /\ SizeOK
  BY DEF SimpleInv
<1>3. ASSUME NEW x
      PROVE  /\ tasks' \in Seq(Simple!Task) /\ Count(tasks, {x}) \in Nat
             /\ Count(tasks', {x}) = Count(tasks, {x}) + (IF StoreOf(b) = x THEN 1 ELSE 0)
  BY <1>1, <1>2, TaskFacts, Queued
<1>4. SimpleTypes' /\ WorkerOK'
  BY <1>1, <1>2, <1>3 DEF SimpleTypes, WorkerOK
<1>5. SizeOK'
  BY <1>1, <1>2 DEF SizeOK, Counted
<1>6. ASSUME NEW c \in Bundles
      PROVE  BundleOK(c)'
  <2>1. /\ Count(tasks, {StoreOf(c)}) \in Nat
        /\ Count(tasks', {StoreOf(c)}) = Count(tasks, {StoreOf(c)}) + (IF c = b THEN 1 ELSE 0)
        /\ Count(tasks', {RemoveOf(c)}) = Count(tasks, {RemoveOf(c)})
    <3>1. /\ Count(tasks, {StoreOf(c)}) \in Nat
          /\ Count(tasks', {StoreOf(c)}) =
               Count(tasks, {StoreOf(c)}) + (IF StoreOf(b) = StoreOf(c) THEN 1 ELSE 0)
      BY <1>3
    <3>2. /\ Count(tasks, {RemoveOf(c)}) \in Nat
          /\ Count(tasks', {RemoveOf(c)}) =
               Count(tasks, {RemoveOf(c)}) + (IF StoreOf(b) = RemoveOf(c) THEN 1 ELSE 0)
      BY <1>3
    <3> QED
      BY <3>1, <3>2, TaskFacts
  <2>2. CASE c = b
    <3>1. BundleOK(b) /\ Waits(b)' = Waits(b) /\ Held(b)' = Held(b)
      BY <1>1, <2>1, <2>2 DEF SimpleInv, Waits, Storing, Held, Erased
    <3>2. (Storing(b)' <=> Storing(b)) /\ (Erasing(b)' <=> Erasing(b))
      BY <1>1 DEF Storing, Erasing
    <3> QED
      BY <1>1, <2>1, <2>2, <3>1, <3>2 DEF BundleOK, WaitsOK, EntryOK, ListOK
  <2>3. CASE c # b
    <3>1. Alike(c)
      BY <1>1, <2>1, <2>3 DEF Alike, Storing, Erasing, Erased
    <3> QED
      BY <3>1, AlikeKeeps DEF SimpleInv
  <2> QED
    BY <2>2, <2>3
<1> QED
  BY <1>4, <1>5, <1>6 DEF SimpleInv

LEMMA SimpleDrop ==
  ASSUME SimpleInv, NEW b \in Bundles, Simple!DropAndQueue(b)
  PROVE  SimpleInv'
<1>1. /\ b \in list /\ list' = list \ {b} /\ tasks' = Append(tasks, RemoveOf(b))
      /\ UNCHANGED <<storing, pending, stored, bsize, cursize, task, wpc, disk,
                     known, failed, crashes, cleared>>
  BY DEF Simple!DropAndQueue, Simple!bookVars, Simple!workVars, Simple!pastVars, RemoveOf
<1>2. SimpleTypes /\ WorkerOK /\ SizeOK /\ b \in known
  BY <1>1 DEF SimpleInv, SimpleTypes
<1>3. ASSUME NEW x
      PROVE  /\ tasks' \in Seq(Simple!Task) /\ Count(tasks, {x}) \in Nat
             /\ Count(tasks', {x}) = Count(tasks, {x}) + (IF RemoveOf(b) = x THEN 1 ELSE 0)
  BY <1>1, <1>2, TaskFacts, Queued
<1>4. SimpleTypes' /\ WorkerOK'
  BY <1>1, <1>2, <1>3 DEF SimpleTypes, WorkerOK
<1>5. SizeOK'
  BY <1>1, <1>2 DEF SizeOK, Counted
<1>6. ASSUME NEW c \in Bundles
      PROVE  BundleOK(c)'
  <2>1. /\ Count(tasks', {StoreOf(c)}) = Count(tasks, {StoreOf(c)})
        /\ c # b => Count(tasks', {RemoveOf(c)}) = Count(tasks, {RemoveOf(c)})
    <3>1. /\ Count(tasks, {StoreOf(c)}) \in Nat
          /\ Count(tasks', {StoreOf(c)}) =
               Count(tasks, {StoreOf(c)}) + (IF RemoveOf(b) = StoreOf(c) THEN 1 ELSE 0)
      BY <1>3
    <3>2. /\ Count(tasks, {RemoveOf(c)}) \in Nat
          /\ Count(tasks', {RemoveOf(c)}) =
               Count(tasks, {RemoveOf(c)}) + (IF RemoveOf(b) = RemoveOf(c) THEN 1 ELSE 0)
      BY <1>3
    <3> QED
      BY <3>1, <3>2, TaskFacts
  <2>2. CASE c = b
    <3>1. BundleOK(b) /\ Waits(b)' = Waits(b) /\ Held(b)' = Held(b)
      BY <1>1, <2>1, <2>2 DEF SimpleInv, Waits, Storing, Held, Erased
    <3>2. (Storing(b)' <=> Storing(b)) /\ (Erasing(b)' <=> Erasing(b))
      BY <1>1 DEF Storing, Erasing
    <3> QED
      BY <1>1, <1>2, <2>2, <3>1, <3>2 DEF BundleOK, WaitsOK, EntryOK, ListOK
  <2>3. CASE c # b
    <3>1. Alike(c)
      BY <1>1, <2>1, <2>3 DEF Alike, Storing, Erasing, Erased
    <3> QED
      BY <3>1, AlikeKeeps DEF SimpleInv
  <2> QED
    BY <2>2, <2>3
<1> QED
  BY <1>4, <1>5, <1>6 DEF SimpleInv

\* A finite set can be listed.
LEMMA ListedSet ==
  ASSUME NEW S, IsFiniteSet(S)
  PROVE  Simple!Seqs!SetToSeq(S) \in Seq(S)
<1>1. Cardinality(S) \in Nat
  BY FS_CardinalityType
<1>2. PICK f : f \in Bijection(1..Cardinality(S), S)
  BY FS_CountingElements, FS_CardinalityType DEF ExistsBijection
<1>3. f \in [1..Cardinality(S) -> S] /\ Simple!Seqs!IsInjective(f)
  BY <1>2 DEF Bijection, Injection, IsInjective, Simple!Seqs!IsInjective
<1>4. Simple!Seqs!SetToSeq(S) \in [1..Cardinality(S) -> S]
  <2>1. Simple!Seqs!Cardinality(S) = Cardinality(S)
    BY DEF Simple!Seqs!Cardinality, Cardinality
  <2>2. f \in [1..Simple!Seqs!Cardinality(S) -> S]
    BY <1>3, <2>1
  <2>3. Simple!Seqs!SetToSeq(S) \in [1..Simple!Seqs!Cardinality(S) -> S]
    BY <1>3, <2>2, Zenon DEF Simple!Seqs!SetToSeq
  <2> QED
    BY <2>1, <2>3
<1> QED
  BY <1>1, <1>4

\* The tasks that remove the bundles of a set.
LEMMA RemovalTasks ==
  ASSUME NEW R \in SUBSET Bundles, IsFiniteSet(R),
         NEW s, s = Simple!Seqs!SetToSeq({[op |-> "remove", b |-> b] : b \in R})
  PROVE  /\ s \in Seq(Simple!Task)
         /\ \A c \in Bundles : /\ Count(s, {StoreOf(c)}) = 0
                               /\ c \notin R => Count(s, {RemoveOf(c)}) = 0
<1> DEFINE S == {RemoveOf(b) : b \in R}
<1>1. IsFiniteSet(S)
  <2> DEFINE f == [b \in R |-> RemoveOf(b)]
  <2>1. f \in Surjection(R, S)
    BY DEF Surjection
  <2> QED
    BY <2>1, FS_Surjection
<1>2. S = {[op |-> "remove", b |-> b] : b \in R}
  BY DEF RemoveOf
<1>3. s \in Seq(S)
  <2>1. Simple!Seqs!SetToSeq(S) \in Seq(S)
    BY <1>1, ListedSet
  <2> QED
    BY <1>2, <2>1
<1>4. S \subseteq Simple!Task
  BY TaskFacts
<1>5. ASSUME NEW i \in 1..Len(s)
      PROVE  \E b \in R : s[i] = RemoveOf(b)
  <2>1. s[i] \in S
    <3> HIDE DEF S
    <3> QED
      BY <1>3
  <2> QED
    BY <2>1
<1>6. s \in Seq(Simple!Task)
  BY <1>3, <1>4
<1>7. ASSUME NEW c \in Bundles
      PROVE  /\ Count(s, {StoreOf(c)}) = 0
             /\ c \notin R => Count(s, {RemoveOf(c)}) = 0
  <2>1. \A i \in 1..Len(s) : s[i] \notin {StoreOf(c)}
    BY <1>5, TaskFacts
  <2>2. c \notin R => \A i \in 1..Len(s) : s[i] \notin {RemoveOf(c)}
    BY <1>5, TaskFacts
  <2> QED
    BY <2>1, <2>2, CountNone
<1> QED
  BY <1>6, <1>7

LEMMA SimpleClear ==
  ASSUME SimpleInv, Simple!Clear
  PROVE  SimpleInv'
<1> DEFINE s == Simple!Seqs!SetToSeq({[op |-> "remove", b |-> b] : b \in list})
<1>1. /\ MayClear /\ list' = {} /\ cleared' = TRUE /\ tasks' = tasks \o s
      /\ UNCHANGED <<storing, pending, stored, bsize, task, wpc, disk, known, failed, crashes>>
  BY DEF Simple!Clear, Simple!workVars
<1>2. SimpleTypes /\ WorkerOK /\ SizeOK /\ list \in SUBSET Bundles /\ IsFiniteSet(list)
  BY FS_Subset DEF SimpleInv, SimpleTypes
<1>3. /\ s \in Seq(Simple!Task)
      /\ \A c \in Bundles : /\ Count(s, {StoreOf(c)}) = 0
                            /\ c \notin list => Count(s, {RemoveOf(c)}) = 0
  BY <1>2, RemovalTasks
<1> HIDE DEF s
<1>4. ASSUME NEW x
      PROVE  /\ tasks' \in Seq(Simple!Task)
             /\ Count(tasks', {x}) = Count(tasks, {x}) + Count(s, {x})
             /\ Count(tasks, {x}) \in Nat
  <2>1. tasks \in Seq(Simple!Task)
    BY <1>2 DEF SimpleTypes
  <2>2. /\ tasks \o s \in Seq(Simple!Task)
        /\ Count(tasks \o s, {x}) = Count(tasks, {x}) + Count(s, {x})
    BY <1>3, <2>1, CountConcat
  <2>3. Count(tasks, {x}) \in Nat
    BY <2>1, CountType
  <2> QED
    BY <1>1, <2>2, <2>3
<1>5. SimpleTypes' /\ WorkerOK'
  BY <1>1, <1>2, <1>4 DEF SimpleTypes, WorkerOK
<1>6. SizeOK'
  BY <1>1, <1>2 DEF SizeOK
<1>7. ASSUME NEW c \in Bundles
      PROVE  BundleOK(c)'
  <2>1. /\ Count(tasks', {StoreOf(c)}) = Count(tasks, {StoreOf(c)})
        /\ c \notin list => Count(tasks', {RemoveOf(c)}) = Count(tasks, {RemoveOf(c)})
    <3>1. /\ Count(tasks', {StoreOf(c)}) = Count(tasks, {StoreOf(c)}) + Count(s, {StoreOf(c)})
          /\ Count(tasks, {StoreOf(c)}) \in Nat
      BY <1>4
    <3>2. /\ Count(tasks', {RemoveOf(c)}) = Count(tasks, {RemoveOf(c)}) + Count(s, {RemoveOf(c)})
          /\ Count(tasks, {RemoveOf(c)}) \in Nat
      BY <1>4
    <3> QED
      BY <1>3, <3>1, <3>2
  <2>2. CASE c \in list
    <3>1. BundleOK(c) /\ Waits(c)' = Waits(c) /\ Held(c)' = Held(c) /\ c \in known
      BY <1>1, <1>2, <2>1, <2>2 DEF SimpleInv, SimpleTypes, Waits, Storing, Held, Erased
    <3>2. Storing(c)' <=> Storing(c)
      BY <1>1 DEF Storing
    <3> QED
      BY <1>1, <3>1, <3>2 DEF BundleOK, WaitsOK, EntryOK, ListOK
  <2>3. CASE c \notin list
    <3>1. Alike(c)
      BY <1>1, <2>1, <2>3 DEF Alike, Storing, Erasing, Erased
    <3> QED
      BY <3>1, AlikeKeeps DEF SimpleInv
  <2> QED
    BY <2>2, <2>3
<1> QED
  BY <1>5, <1>6, <1>7 DEF SimpleInv

\* What the thread takes from the queue.
LEMMA SimpleTake ==
  ASSUME SimpleInv, Simple!TakeTask
  PROVE  SimpleInv'
<1>1. /\ wpc = "idle" /\ tasks # <<>> /\ task' = Head(tasks) /\ tasks' = Tail(tasks)
      /\ UNCHANGED <<storing, list, pending, stored, bsize, cursize, known, failed,
                     crashes, cleared>>
  BY DEF Simple!TakeTask, Simple!listVars, Simple!bookVars, Simple!pastVars
<1>2. SimpleTypes /\ WorkerOK /\ SizeOK
  BY DEF SimpleInv
<1>3. ASSUME NEW x
      PROVE  /\ tasks' \in Seq(Simple!Task) /\ Count(tasks', {x}) \in Nat
             /\ Head(tasks) \in Simple!Task
             /\ Count(tasks, {x}) = Count(tasks', {x}) + (IF Head(tasks) = x THEN 1 ELSE 0)
  BY <1>1, <1>2, Taken
<1>4. Head(tasks) \in Simple!Task
  BY <1>3
<1>5. PICK b \in Bundles :
        \/ /\ Head(tasks) = StoreOf(b) /\ wpc' = "write"
           /\ disk' = [disk EXCEPT ![b] = "part"]
        \/ Head(tasks) = RemoveOf(b) /\ wpc' = "unlink" /\ UNCHANGED disk
  BY <1>4, TaskKinds DEF Simple!TakeTask
<1>6. SizeOK'
  BY <1>1, <1>2 DEF SizeOK, Counted
<1>7. ASSUME NEW c \in Bundles
      PROVE  ~Storing(c) /\ ~Erasing(c) /\ ~Erased(c)
  BY <1>1 DEF Storing, Erasing, Erased
<1>8. CASE Head(tasks) = StoreOf(b) /\ wpc' = "write" /\ disk' = [disk EXCEPT ![b] = "part"]
  <2>1. SimpleTypes'
    BY <1>1, <1>2, <1>3, <1>8 DEF SimpleTypes
  <2>2. disk'[b] = "part" /\ task' = StoreOf(b)
    BY <1>1, <1>2, <1>8 DEF SimpleTypes
  <2>3. WorkerOK'
    BY <1>8, <2>2, TaskFacts DEF WorkerOK
  <2>4. ASSUME NEW c \in Bundles
        PROVE  /\ c # b => Count(tasks', {StoreOf(c)}) = Count(tasks, {StoreOf(c)})
               /\ c = b => /\ Count(tasks, {StoreOf(c)}) # 0
                           /\ Count(tasks, {StoreOf(c)}) = 1 => Count(tasks', {StoreOf(c)}) = 0
               /\ Count(tasks', {RemoveOf(c)}) = Count(tasks, {RemoveOf(c)})
    <3>1. /\ Count(tasks', {StoreOf(c)}) \in Nat
          /\ Count(tasks, {StoreOf(c)}) =
               Count(tasks', {StoreOf(c)}) + (IF Head(tasks) = StoreOf(c) THEN 1 ELSE 0)
      BY <1>3
    <3>2. /\ Count(tasks', {RemoveOf(c)}) \in Nat
          /\ Count(tasks, {RemoveOf(c)}) =
               Count(tasks', {RemoveOf(c)}) + (IF Head(tasks) = RemoveOf(c) THEN 1 ELSE 0)
      BY <1>3
    <3> QED
      BY <1>8, <3>1, <3>2, TaskFacts
  <2>5. ASSUME NEW c \in Bundles
        PROVE  BundleOK(c)'
    <3>1. (Storing(c)' <=> c = b) /\ ~Erasing(c)' /\ ~Erased(c)'
      BY <1>8, <2>2, TaskFacts DEF Storing, Erasing, Erased
    <3>2. CASE c = b
      <4>1. pending[b] # "none" /\ b \notin storing /\ Count(tasks', {StoreOf(b)}) = 0
        <5>1. Count(tasks, {StoreOf(b)}) # 0
          BY <2>4
        <5>2. /\ pending[b] # "none" /\ b \notin storing
              /\ Count(tasks, {StoreOf(b)}) = 1
          BY <5>1, Idle
        <5> QED
          BY <2>4, <5>2
      <4>2. BundleOK(b)
        BY <3>2 DEF SimpleInv
      <4>3. WaitsOK(b)'
        BY <1>1, <3>1, <3>2, <4>1, <4>2 DEF WaitsOK, Waits, BundleOK
      <4>4. EntryOK(b)'
        BY <1>1, <4>1, <4>2 DEF EntryOK, Held, BundleOK
      <4>5. ListOK(b)'
        BY <1>1, <2>4, <3>1, <3>2, <4>1, <4>2 DEF ListOK, BundleOK
      <4> QED
        BY <3>2, <4>3, <4>4, <4>5 DEF BundleOK
    <3>3. CASE c # b
      <4>1. disk'[c] = disk[c]
        BY <1>2, <1>8, <3>3 DEF SimpleTypes
      <4>2. Alike(c)
        BY <1>1, <1>7, <2>4, <3>1, <3>3, <4>1 DEF Alike
      <4> QED
        BY <4>2, AlikeKeeps DEF SimpleInv
    <3> QED
      BY <3>2, <3>3
  <2> QED
    BY <1>6, <2>1, <2>3, <2>5 DEF SimpleInv
<1>9. CASE Head(tasks) = RemoveOf(b) /\ wpc' = "unlink" /\ UNCHANGED disk
  <2>1. SimpleTypes' /\ WorkerOK'
    BY <1>1, <1>2, <1>3, <1>9 DEF SimpleTypes, WorkerOK
  <2>2. ASSUME NEW c \in Bundles
        PROVE  /\ c # b => Count(tasks', {RemoveOf(c)}) = Count(tasks, {RemoveOf(c)})
               /\ c = b => Count(tasks, {RemoveOf(c)}) # 0
               /\ Count(tasks', {StoreOf(c)}) = Count(tasks, {StoreOf(c)})
    <3>1. /\ Count(tasks', {StoreOf(c)}) \in Nat
          /\ Count(tasks, {StoreOf(c)}) =
               Count(tasks', {StoreOf(c)}) + (IF Head(tasks) = StoreOf(c) THEN 1 ELSE 0)
      BY <1>3
    <3>2. /\ Count(tasks', {RemoveOf(c)}) \in Nat
          /\ Count(tasks, {RemoveOf(c)}) =
               Count(tasks', {RemoveOf(c)}) + (IF Head(tasks) = RemoveOf(c) THEN 1 ELSE 0)
      BY <1>3
    <3> QED
      BY <1>9, <3>1, <3>2, TaskFacts
  <2>3. ASSUME NEW c \in Bundles
        PROVE  BundleOK(c)'
    <3>1. (Erasing(c)' <=> c = b) /\ ~Storing(c)' /\ ~Erased(c)'
      BY <1>1, <1>9, TaskFacts DEF Storing, Erasing, Erased
    <3>2. CASE c = b
      <4>1. BundleOK(b) /\ Waits(b)' = Waits(b) /\ Held(b)' = Held(b)
        BY <1>1, <1>7, <1>9, <2>2, <3>1, <3>2 DEF SimpleInv, Waits, Held
      <4>2. Count(tasks, {RemoveOf(b)}) # 0
        BY <2>2, <3>2
      <4>3. b \in known /\ b \notin list
        BY <4>1, <4>2 DEF BundleOK, ListOK
      <4> QED
        BY <1>1, <1>7, <1>9, <3>1, <3>2, <4>1, <4>3 DEF BundleOK, WaitsOK, EntryOK, ListOK
    <3>3. CASE c # b
      <4>1. Alike(c)
        BY <1>1, <1>7, <1>9, <2>2, <3>1, <3>3 DEF Alike
      <4> QED
        BY <4>1, AlikeKeeps DEF SimpleInv
    <3> QED
      BY <3>2, <3>3
  <2> QED
    BY <1>6, <2>1, <2>3 DEF SimpleInv
<1> QED
  BY <1>5, <1>8, <1>9

LEMMA SimpleOpenFails ==
  ASSUME SimpleInv, Simple!OpenFails
  PROVE  SimpleInv'
<1>1. /\ wpc = "idle" /\ tasks # <<>> /\ task' = Head(tasks) /\ tasks' = Tail(tasks)
      /\ wpc' = "failed"
      /\ UNCHANGED <<storing, list, pending, stored, bsize, cursize, disk, known,
                     failed, crashes, cleared>>
  BY DEF Simple!OpenFails, Simple!listVars, Simple!bookVars, Simple!pastVars
<1>2. SimpleTypes /\ WorkerOK /\ SizeOK
  BY DEF SimpleInv
<1>3. ASSUME NEW x
      PROVE  /\ tasks' \in Seq(Simple!Task) /\ Count(tasks', {x}) \in Nat
             /\ Head(tasks) \in Simple!Task
             /\ Count(tasks, {x}) = Count(tasks', {x}) + (IF Head(tasks) = x THEN 1 ELSE 0)
  BY <1>1, <1>2, Taken
<1>4. Head(tasks) \in Simple!Task
  BY <1>3
<1>5. PICK b \in Bundles : Head(tasks) = StoreOf(b)
  BY <1>4, TaskKinds DEF Simple!OpenFails
<1>6. SimpleTypes' /\ SizeOK'
  BY <1>1, <1>2, <1>3 DEF SimpleTypes, SizeOK, Counted
<1>7. ASSUME NEW c \in Bundles
      PROVE  /\ ~Storing(c) /\ ~Erasing(c) /\ ~Erased(c)
             /\ (Storing(c)' <=> c = b) /\ ~Erasing(c)' /\ ~Erased(c)'
  BY <1>1, <1>5, TaskFacts DEF Storing, Erasing, Erased
<1>8. ASSUME NEW c \in Bundles
      PROVE  /\ c # b => Count(tasks', {StoreOf(c)}) = Count(tasks, {StoreOf(c)})
             /\ c = b => /\ Count(tasks, {StoreOf(c)}) # 0
                         /\ Count(tasks, {StoreOf(c)}) = 1 => Count(tasks', {StoreOf(c)}) = 0
             /\ Count(tasks', {RemoveOf(c)}) = Count(tasks, {RemoveOf(c)})
  <2>1. /\ Count(tasks', {StoreOf(c)}) \in Nat
        /\ Count(tasks, {StoreOf(c)}) =
             Count(tasks', {StoreOf(c)}) + (IF Head(tasks) = StoreOf(c) THEN 1 ELSE 0)
    BY <1>3
  <2>2. /\ Count(tasks', {RemoveOf(c)}) \in Nat
        /\ Count(tasks, {RemoveOf(c)}) =
             Count(tasks', {RemoveOf(c)}) + (IF Head(tasks) = RemoveOf(c) THEN 1 ELSE 0)
    BY <1>3
  <2> QED
    BY <1>5, <2>1, <2>2, TaskFacts
<1>9. /\ pending[b] # "none" /\ b \notin storing
      /\ Count(tasks, {StoreOf(b)}) = 1 /\ Count(tasks', {StoreOf(b)}) = 0
  <2>1. Count(tasks, {StoreOf(b)}) # 0
    BY <1>8
  <2>2. pending[b] # "none" /\ b \notin storing /\ Count(tasks, {StoreOf(b)}) = 1
    BY <2>1, Idle
  <2> QED
    BY <1>8, <2>2
<1>10. WorkerOK'
  <2>1. disk[b] = "none"
    BY <1>7, <1>9, <1>2 DEF SimpleInv, BundleOK, WaitsOK
  <2> QED
    BY <1>1, <1>5, <2>1, TaskFacts DEF WorkerOK
<1>11. ASSUME NEW c \in Bundles
       PROVE  BundleOK(c)'
  <2>1. CASE c = b
    <3>1. BundleOK(b) /\ Held(b)' = Held(b)
      BY <1>1, <1>7 DEF SimpleInv, Held
    <3>2. Waits(b)' = 1
      BY <1>1, <1>7, <1>9 DEF Waits
    <3>3. WaitsOK(b)'
      BY <1>1, <1>7, <1>9, <3>1, <3>2 DEF BundleOK, WaitsOK
    <3>4. EntryOK(b)' /\ ListOK(b)'
      BY <1>1, <1>7, <1>8, <3>1 DEF BundleOK, EntryOK, ListOK
    <3> QED
      BY <2>1, <3>3, <3>4 DEF BundleOK
  <2>2. CASE c # b
    <3>1. Alike(c)
      BY <1>1, <1>7, <1>8, <2>2 DEF Alike
    <3> QED
      BY <3>1, AlikeKeeps DEF SimpleInv
  <2> QED
    BY <2>1, <2>2
<1> QED
  BY <1>2, <1>6, <1>10, <1>11 DEF SimpleInv

LEMMA SimpleWriteFile ==
  ASSUME SimpleInv, Simple!WriteFile
  PROVE  SimpleInv'
<1>1. /\ wpc = "write"
      /\ UNCHANGED <<tasks, task, storing, list, pending, stored, bsize, cursize, known,
                     failed, crashes, cleared>>
  BY DEF Simple!WriteFile, Simple!listVars, Simple!bookVars, Simple!pastVars
<1>2. SimpleTypes /\ WorkerOK /\ SizeOK
  BY DEF SimpleInv
<1>3. PICK b \in Bundles : task = StoreOf(b)
  BY <1>1, <1>2 DEF WorkerOK
<1>4. \/ disk' = [disk EXCEPT ![b] = "full"] /\ wpc' = "stored"
      \/ wpc' = "failed" /\ UNCHANGED disk
  BY <1>3, TaskFacts DEF Simple!WriteFile
<1>5. /\ \A c \in Bundles : c # b => disk'[c] = disk[c]
      /\ \/ disk'[b] = "full" /\ wpc' = "stored"
         \/ disk'[b] = "part" /\ wpc' = "failed"
  BY <1>1, <1>2, <1>3, <1>4 DEF SimpleTypes, WorkerOK
<1>6. SimpleTypes' /\ SizeOK'
  BY <1>1, <1>2, <1>4 DEF SimpleTypes, SizeOK, Counted
<1>7. WorkerOK'
  BY <1>1, <1>3, <1>5, TaskFacts DEF WorkerOK
<1>8. ASSUME NEW c \in Bundles
      PROVE  /\ (Storing(c) <=> c = b) /\ ~Erasing(c) /\ ~Erased(c)
             /\ (Storing(c)' <=> c = b) /\ ~Erasing(c)' /\ ~Erased(c)'
  BY <1>1, <1>3, <1>5, TaskFacts DEF Storing, Erasing, Erased
<1>9. ASSUME NEW c \in Bundles
      PROVE  BundleOK(c)'
  <2>1. CASE c = b
    <3>1. BundleOK(b) /\ pending[b] # "none"
      BY <1>8, Idle DEF SimpleInv
    <3>2. Held(b) /\ Held(b)' /\ Waits(b)' = Waits(b)
      BY <1>1, <1>8, <3>1 DEF Held, Waits
    <3> QED
      BY <1>1, <1>8, <2>1, <3>1, <3>2 DEF BundleOK, WaitsOK, EntryOK, ListOK
  <2>2. CASE c # b
    <3>1. Alike(c)
      BY <1>1, <1>5, <1>8, <2>2 DEF Alike
    <3> QED
      BY <3>1, AlikeKeeps DEF SimpleInv
  <2> QED
    BY <2>1, <2>2
<1> QED
  BY <1>6, <1>7, <1>9 DEF SimpleInv

LEMMA SimpleEventStored ==
  ASSUME SimpleInv, Simple!EventStored
  PROVE  SimpleInv'
<1>1. /\ wpc = "stored" /\ wpc' = "idle" /\ task' = None
      /\ pending' = [pending EXCEPT ![task.b] = "none"]
      /\ UNCHANGED <<tasks, storing, list, bsize, cursize, disk, known, failed, crashes, cleared>>
  BY DEF Simple!EventStored, Simple!listVars, Simple!pastVars
<1>2. SimpleTypes /\ WorkerOK /\ SizeOK
  BY DEF SimpleInv
<1>3. PICK b \in Bundles : task = StoreOf(b)
  BY <1>1, <1>2 DEF WorkerOK
<1>4. ASSUME NEW c \in Bundles
      PROVE  /\ (Storing(c) <=> c = b) /\ ~Erasing(c) /\ ~Erased(c)
             /\ ~Storing(c)' /\ ~Erasing(c)' /\ ~Erased(c)'
  BY <1>1, <1>3, TaskFacts DEF Storing, Erasing, Erased
<1>5. /\ pending[b] # "none" /\ b \notin storing /\ Count(tasks, {StoreOf(b)}) = 0
      /\ disk[b] = "full" /\ task.b = b
  BY <1>1, <1>2, <1>3, <1>4, Idle, TaskFacts DEF WorkerOK
<1>6. stored' = [stored EXCEPT ![b] = b] /\ pending' = [pending EXCEPT ![b] = "none"]
  BY <1>1, <1>5 DEF Simple!EventStored
<1>7. b # Default /\ b \in Simple!Metas
  BY StorageAssumption DEF Simple!Metas
<1>8. SimpleTypes'
  BY <1>1, <1>2, <1>6, <1>7 DEF SimpleTypes
<1>9. SizeOK'
  BY <1>1, <1>2, <1>6, <1>7 DEF SizeOK, Counted, SimpleTypes, Simple!Metas
<1>10. WorkerOK'
  BY <1>1 DEF WorkerOK
<1>11. ASSUME NEW c \in Bundles
       PROVE  BundleOK(c)'
  <2>1. CASE c = b
    <3>1. BundleOK(b) /\ pending'[b] = "none" /\ stored'[b] = b
      BY <1>2, <1>6, <1>7 DEF SimpleInv, SimpleTypes
    <3>2. Held(b) /\ Held(b)' /\ Waits(b)' = 0
      BY <1>1, <1>4, <1>5, <3>1 DEF Held, Waits
    <3> QED
      BY <1>1, <1>4, <1>5, <2>1, <3>1, <3>2 DEF BundleOK, WaitsOK, EntryOK, ListOK
  <2>2. CASE c # b
    <3>1. pending'[c] = pending[c] /\ stored'[c] = stored[c]
      BY <1>2, <1>6, <2>2 DEF SimpleTypes, Simple!Metas
    <3>2. Alike(c)
      BY <1>1, <1>4, <2>2, <3>1 DEF Alike
    <3> QED
      BY <3>2, AlikeKeeps DEF SimpleInv
  <2> QED
    BY <2>1, <2>2
<1> QED
  BY <1>8, <1>9, <1>10, <1>11 DEF SimpleInv

LEMMA SimpleEventStoreFailed ==
  ASSUME SimpleInv, Simple!EventStoreFailed
  PROVE  SimpleInv'
<1>1. /\ wpc = "failed" /\ wpc' = "idle" /\ task' = None
      /\ UNCHANGED <<tasks, storing, list, stored, disk, known, crashes, cleared>>
  BY DEF Simple!EventStoreFailed, Simple!listVars
<1>2. SimpleTypes /\ WorkerOK /\ SizeOK
  BY DEF SimpleInv
<1>3. PICK b \in Bundles : task = StoreOf(b)
  BY <1>1, <1>2 DEF WorkerOK
<1>4. ASSUME NEW c \in Bundles
      PROVE  /\ (Storing(c) <=> c = b) /\ ~Erasing(c) /\ ~Erased(c)
             /\ ~Storing(c)' /\ ~Erasing(c)' /\ ~Erased(c)'
  BY <1>1, <1>3, TaskFacts DEF Storing, Erasing, Erased
<1>5. /\ pending[b] # "none" /\ b \notin storing /\ Count(tasks, {StoreOf(b)}) = 0
      /\ disk[b] # "full" /\ task.b = b
  BY <1>1, <1>2, <1>3, <1>4, Idle, TaskFacts DEF WorkerOK
<1>6. /\ cursize' = Simple!Sub(cursize, bsize[b]) /\ bsize' = [bsize EXCEPT ![b] = 0]
      /\ pending' = [pending EXCEPT ![b] = "none"] /\ failed' = failed \cup {b}
  BY <1>5 DEF Simple!EventStoreFailed
<1>7. b # Default /\ b \in Simple!Metas /\ Size[b] \in Nat /\ Size[b] # 0
  BY StorageAssumption DEF Simple!Metas
<1>8. BundleOK(b) /\ Held(b) /\ bsize[b] = Size[b] /\ stored[b] = None
  BY <1>5 DEF SimpleInv, BundleOK, EntryOK, Held
<1>9. SimpleTypes'
  BY <1>1, <1>2, <1>6, <1>7 DEF SimpleTypes
<1>10. SizeOK'
  <2>1. /\ Total(Counted') \in Nat /\ Total(Counted) = Total(Counted') + Size[b]
        /\ SizesFit => Total(Counted) < Modulus
    BY <1>6, <1>7, <1>8, CountedShrinks, CountedKnown DEF SizesFit
  <2>2. SizesFit /\ ~cleared => cursize' = Total(Counted')
    BY <1>2, <1>6, <1>7, <1>8, <2>1, SubFits DEF SizeOK
  <2>3. SizesFit /\ ~cleared /\ MaxSize > 0 /\ (MayClear => crashes = 0) => cursize' <= MaxSize
    BY <1>2, <1>7, <2>1, <2>2, StorageAssumption DEF SizeOK
  <2>4. bsize'[Default] = 0
    BY <1>2, <1>6, <1>7 DEF SizeOK, SimpleTypes, Simple!Metas
  <2> QED
    BY <1>1, <1>2, <2>2, <2>3, <2>4 DEF SizeOK
<1>11. WorkerOK'
  BY <1>1 DEF WorkerOK
<1>12. ASSUME NEW c \in Bundles
       PROVE  BundleOK(c)'
  <2>1. CASE c = b
    <3>1. pending'[b] = "none" /\ bsize'[b] = 0 /\ b \in failed'
      BY <1>2, <1>6, <1>7 DEF SimpleTypes
    <3>2. ~Held(b)' /\ Waits(b)' = 0
      BY <1>1, <1>4, <1>5, <3>1 DEF Held, Waits
    <3> QED
      BY <1>1, <1>4, <1>5, <1>8, <2>1, <3>1, <3>2 DEF BundleOK, WaitsOK, EntryOK, ListOK
  <2>2. CASE c # b
    <3>1. pending'[c] = pending[c] /\ bsize'[c] = bsize[c]
      BY <1>2, <1>6, <2>2 DEF SimpleTypes, Simple!Metas
    <3>2. Alike(c)
      BY <1>1, <1>4, <1>6, <2>2, <3>1 DEF Alike
    <3> QED
      BY <3>2, AlikeKeeps DEF SimpleInv
  <2> QED
    BY <2>1, <2>2
<1> QED
  BY <1>9, <1>10, <1>11, <1>12 DEF SimpleInv

LEMMA SimpleUnlink ==
  ASSUME SimpleInv, Simple!Unlink
  PROVE  SimpleInv'
<1>1. /\ wpc = "unlink"
      /\ UNCHANGED <<tasks, storing, list, pending, stored, bsize, cursize, known,
                     failed, crashes, cleared>>
  BY DEF Simple!Unlink, Simple!listVars, Simple!bookVars, Simple!pastVars
<1>2. SimpleTypes /\ WorkerOK /\ SizeOK
  BY DEF SimpleInv
<1>3. PICK b \in Bundles : task = RemoveOf(b)
  BY <1>1, <1>2 DEF WorkerOK
<1>4. \/ disk[b] = "none" /\ wpc' = "idle" /\ task' = None /\ UNCHANGED disk
      \/ /\ disk[b] # "none" /\ disk' = [disk EXCEPT ![b] = "none"]
         /\ wpc' = "removed" /\ task' = RemoveOf(b)
  BY <1>3, TaskFacts DEF Simple!Unlink
<1>5. SimpleTypes' /\ SizeOK'
  BY <1>1, <1>2, <1>4 DEF SimpleTypes, SizeOK, Counted
<1>6. disk'[b] = "none" /\ \A c \in Bundles : c # b => disk'[c] = disk[c]
  BY <1>2, <1>4 DEF SimpleTypes
<1>7. WorkerOK'
  BY <1>4, <1>6, TaskFacts DEF WorkerOK
<1>8. ASSUME NEW c \in Bundles
      PROVE  /\ ~Storing(c) /\ (Erasing(c) <=> c = b) /\ ~Erased(c)
             /\ ~Storing(c)' /\ (c # b => ~Erasing(c)' /\ ~Erased(c)')
  BY <1>1, <1>3, <1>4, TaskFacts DEF Storing, Erasing, Erased
<1>9. b \in known /\ b \notin list
  BY <1>8 DEF SimpleInv, BundleOK, ListOK
<1>10. ASSUME NEW c \in Bundles
       PROVE  BundleOK(c)'
  <2>1. CASE c = b
    <3>1. BundleOK(b) /\ Waits(b)' = Waits(b)
      BY <1>1, <1>8 DEF SimpleInv, Waits
    <3>2. disk[b] # "none" => pending[b] = "none"
      BY <1>8, <3>1 DEF BundleOK, WaitsOK
    <3>3. Held(b)' = Held(b)
      <4>1. CASE disk[b] = "none"
        BY <1>1, <1>4, <1>8, <4>1 DEF Held, Erased
      <4>2. CASE disk[b] # "none"
        <5>1. pending'[b] = "none" /\ wpc' = "removed" /\ task' = RemoveOf(b)
          BY <1>1, <1>4, <3>2, <4>2
        <5>2. Held(b)' = (stored[b] # None)
          BY <1>1, <1>6, <5>1 DEF Held, Erased
        <5>3. Held(b) = (stored[b] # None)
          BY <1>8, <3>1, <3>2, <4>2, StorageAssumption DEF BundleOK, EntryOK, Held
        <5> QED
          BY <5>2, <5>3
      <4> QED
        BY <4>1, <4>2
    <3>4. WaitsOK(b)' /\ EntryOK(b)'
      BY <1>1, <1>6, <3>1, <3>3 DEF BundleOK, WaitsOK, EntryOK
    <3>5. ListOK(b)'
      BY <1>1, <1>9 DEF ListOK
    <3> QED
      BY <2>1, <3>4, <3>5 DEF BundleOK
  <2>2. CASE c # b
    <3>1. Alike(c)
      BY <1>1, <1>6, <1>8, <2>2 DEF Alike
    <3> QED
      BY <3>1, AlikeKeeps DEF SimpleInv
  <2> QED
    BY <2>1, <2>2
<1> QED
  BY <1>5, <1>7, <1>10 DEF SimpleInv

\* Only the entry of a bundle has its hash.
LEMMA Hashes ==
  ASSUME SimpleInv, NEW b \in Bundles, NEW m \in Simple!Metas, stored[m] = b
  PROVE  m = b
<1>1. CASE m = Default
  BY <1>1, StorageAssumption DEF SimpleInv, SizeOK
<1>2. CASE m \in Bundles
  BY <1>2, StorageAssumption DEF SimpleInv, BundleOK, EntryOK
<1> QED
  BY <1>1, <1>2 DEF Simple!Metas

LEMMA SimpleEventRemoved ==
  ASSUME SimpleInv, Simple!EventRemoved
  PROVE  SimpleInv'
<1>1. /\ wpc = "removed" /\ wpc' = "idle" /\ task' = None
      /\ UNCHANGED <<tasks, storing, list, pending, disk, known, failed, crashes, cleared>>
  BY DEF Simple!EventRemoved, Simple!listVars, Simple!pastVars
<1>2. SimpleTypes /\ WorkerOK /\ SizeOK
  BY DEF SimpleInv
<1>3. PICK b \in Bundles : task = RemoveOf(b)
  BY <1>1, <1>2 DEF WorkerOK
<1>4. task.b = b /\ disk[b] = "none" /\ b # Default /\ b \in Simple!Metas
      /\ Size[b] \in Nat /\ Size[b] # 0 /\ b # None
  BY <1>1, <1>2, <1>3, TaskFacts, StorageAssumption DEF WorkerOK, Simple!Metas
<1>5. ASSUME NEW c \in Bundles
      PROVE  /\ ~Storing(c) /\ (Erasing(c) <=> c = b) /\ (c # b => ~Erased(c))
             /\ ~Storing(c)' /\ ~Erasing(c)' /\ ~Erased(c)'
  BY <1>1, <1>3, TaskFacts DEF Storing, Erasing, Erased
<1>6. BundleOK(b) /\ b \in known /\ b \notin list
  BY <1>5 DEF SimpleInv, BundleOK, ListOK
<1>7. WorkerOK'
  BY <1>1 DEF WorkerOK
<1>8. CASE stored[b] # b
  <2>1. {m \in Simple!Metas : stored[m] = task.b} = {}
    BY <1>4, <1>8, Hashes
  <2>2. UNCHANGED <<stored, bsize, cursize>>
    BY <2>1 DEF Simple!EventRemoved
  <2>3. SimpleTypes' /\ SizeOK'
    BY <1>1, <1>2, <2>2 DEF SimpleTypes, SizeOK, Counted
  <2>4. stored[b] = None
    BY <1>6, <1>8 DEF BundleOK, EntryOK
  <2>5. ASSUME NEW c \in Bundles
        PROVE  BundleOK(c)'
    <3>1. ~Erased(c)
      BY <1>5, <2>4 DEF Erased
    <3>2. BundleOK(c) /\ Waits(c)' = Waits(c) /\ Held(c)' = Held(c)
      BY <1>1, <1>5, <3>1 DEF SimpleInv, Waits, Held
    <3> QED
      BY <1>1, <1>5, <2>2, <3>1, <3>2 DEF BundleOK, WaitsOK, EntryOK, ListOK
  <2> QED
    BY <1>7, <2>3, <2>5 DEF SimpleInv
<1>9. CASE stored[b] = b
  <2>1. {m \in Simple!Metas : stored[m] = task.b} = {b}
    BY <1>4, <1>9, Hashes
  <2>2. /\ cursize' = Simple!Sub(cursize, bsize[b])
        /\ bsize' = [bsize EXCEPT ![b] = 0] /\ stored' = [stored EXCEPT ![b] = None]
    BY <2>1 DEF Simple!EventRemoved
  <2>3. Held(b) /\ pending[b] = "none" /\ bsize[b] = Size[b]
    BY <1>4, <1>6, <1>9 DEF BundleOK, EntryOK
  <2>4. SimpleTypes'
    BY <1>1, <1>2, <1>4, <2>2 DEF SimpleTypes
  <2>5. SizeOK'
    <3>1. /\ Total(Counted') \in Nat /\ Total(Counted) = Total(Counted') + Size[b]
          /\ SizesFit => Total(Counted) < Modulus
      BY <1>4, <2>2, <2>3, CountedShrinks, CountedKnown DEF SizesFit
    <3>2. SizesFit /\ ~cleared => cursize' = Total(Counted')
      BY <1>2, <1>4, <2>2, <2>3, <3>1, SubFits DEF SizeOK
    <3>3. SizesFit /\ ~cleared /\ MaxSize > 0 /\ (MayClear => crashes = 0) => cursize' <= MaxSize
      BY <1>2, <1>4, <3>1, <3>2, StorageAssumption DEF SizeOK
    <3>4. bsize'[Default] = 0 /\ stored'[Default] = None
      BY <1>2, <1>4, <2>2 DEF SizeOK, SimpleTypes, Simple!Metas
    <3> QED
      BY <1>1, <1>2, <3>2, <3>3, <3>4 DEF SizeOK
  <2>6. ASSUME NEW c \in Bundles
        PROVE  BundleOK(c)'
    <3>1. CASE c = b
      <4>1. bsize'[b] = 0 /\ stored'[b] = None
        BY <1>2, <1>4, <2>2 DEF SimpleTypes
      <4>2. ~Held(b)' /\ Waits(b)' = Waits(b)
        BY <1>1, <1>4, <1>5, <2>3 DEF Held, Waits
      <4> QED
        BY <1>1, <1>4, <1>5, <1>6, <2>3, <3>1, <4>1, <4>2 DEF BundleOK, WaitsOK, EntryOK, ListOK
    <3>2. CASE c # b
      <4>1. stored'[c] = stored[c] /\ bsize'[c] = bsize[c]
        BY <1>2, <2>2, <3>2 DEF SimpleTypes, Simple!Metas
      <4>2. Alike(c)
        BY <1>1, <1>5, <3>2, <4>1 DEF Alike
      <4> QED
        BY <4>2, AlikeKeeps DEF SimpleInv
    <3> QED
      BY <3>1, <3>2
  <2> QED
    BY <1>7, <2>4, <2>5, <2>6 DEF SimpleInv
<1> QED
  BY <1>8, <1>9

\* The sum the storage computes is Total.
LEMMA SimpleSum ==
  ASSUME NEW S
  PROVE  Simple!SizeOf(S) = Total(S)
  BY DEF Simple!SizeOf, Simple!MapThenSumSet, Simple!MapThenFoldSet,
         Total, MapThenSumSet, MapThenFoldSet

LEMMA SimpleRestart ==
  ASSUME SimpleInv, Simple!Restart
  PROVE  SimpleInv'
<1> DEFINE readable == {b \in Bundles : disk[b] = "full"}
           broken   == {b \in Bundles : disk[b] = "part"}
<1>1. /\ crashes' = crashes + 1 /\ list' = readable
      /\ pending' = [b \in Bundles |-> "none"]
      /\ stored' = [m \in Simple!Metas |-> IF m \in readable THEN m ELSE None]
      /\ bsize' = [m \in Simple!Metas |-> IF m \in readable THEN Size[m] ELSE 0]
      /\ cursize' = Simple!SizeOf(readable)
      /\ storing' = {} /\ task' = None /\ wpc' = "idle"
      /\ tasks' = Simple!Seqs!SetToSeq({[op |-> "remove", b |-> b] : b \in broken})
      /\ failed' = {} /\ cleared' = FALSE
      /\ UNCHANGED <<disk, known>>
  BY DEF Simple!Restart
<1>2. SimpleTypes /\ SizeOK
  BY DEF SimpleInv
<1>3. \A b \in Bundles : disk[b] # "none" => b \in known
  BY DEF SimpleInv, BundleOK, WaitsOK
<1>4. /\ readable \in SUBSET known /\ broken \in SUBSET known
      /\ readable \in SUBSET Bundles /\ broken \in SUBSET Bundles
  BY <1>3
<1>5. IsFiniteSet(readable) /\ IsFiniteSet(broken)
  BY <1>2, <1>4, FS_Subset DEF SimpleTypes
<1>6. /\ tasks' \in Seq(Simple!Task)
      /\ \A c \in Bundles : /\ Count(tasks', {StoreOf(c)}) = 0
                            /\ c \notin broken => Count(tasks', {RemoveOf(c)}) = 0
  BY <1>1, <1>4, <1>5, RemovalTasks
<1>7. ASSUME NEW b \in Bundles
      PROVE  Size[b] \in Nat /\ Size[b] # 0 /\ b # Default /\ b \in Simple!Metas
  BY StorageAssumption DEF Simple!Metas
<1>8. ASSUME NEW b \in Bundles
      PROVE  /\ b \in readable <=> disk[b] = "full"
             /\ b \in broken <=> disk[b] = "part"
  OBVIOUS
<1>9. Default \notin readable /\ Default \in Simple!Metas
  BY <1>7 DEF Simple!Metas
<1> HIDE DEF readable, broken
<1>10. SimpleTypes'
  <2>1. stored' \in [Simple!Metas -> Bundles \cup {None}] /\ bsize' \in [Simple!Metas -> Nat]
    BY <1>1, <1>4, <1>7
  <2>2. pending' \in [Bundles -> {"none", "own", "prev"}] /\ crashes' \in Nat
    BY <1>1, <1>2 DEF SimpleTypes
  <2> QED
    BY <1>1, <1>2, <1>4, <1>6, <2>1, <2>2 DEF SimpleTypes
<1>11. WorkerOK'
  BY <1>1 DEF WorkerOK
<1>12. SizeOK'
  <2>1. ASSUME NEW b \in Bundles
        PROVE  bsize'[b] # 0 <=> b \in readable
    BY <1>1, <1>7
  <2>2. Counted' = readable
    BY <1>4, <2>1 DEF Counted
  <2>3. cursize' = Total(readable)
    BY <1>1, SimpleSum
  <2>4. stored'[Default] = None /\ bsize'[Default] = 0
    BY <1>1, <1>9
  <2>5. ASSUME SizesFit, MaxSize > 0, MayClear => crashes' = 0
        PROVE  cursize' <= MaxSize
    <3>1. crashes' # 0
      BY <1>1, <1>2 DEF SimpleTypes
    <3>2. ~cleared /\ ~MayClear
      BY <1>2, <2>5, <3>1 DEF SizeOK
    <3>3. cursize = Total(Counted) /\ cursize <= MaxSize
      BY <1>2, <2>5, <3>2 DEF SizeOK
    <3>4. Counted \in SUBSET Bundles /\ IsFiniteSet(Counted) /\ Total(Counted) \in Nat
      BY CountedKnown
    <3>5. readable \subseteq Counted
      BY <1>4, <1>7, <1>8 DEF Counted, SimpleInv, BundleOK, EntryOK, Held
    <3>6. Total(readable) <= Total(Counted)
      BY <1>4, <3>4, <3>5, TotalMonotone
    <3>7. Total(readable) \in Nat
      BY <1>4, <1>5, TotalType
    <3> QED
      BY <2>3, <3>3, <3>4, <3>6, <3>7, StorageAssumption
  <2> QED
    BY <1>1, <2>2, <2>3, <2>4, <2>5 DEF SizeOK
<1>13. ASSUME NEW c \in Bundles
       PROVE  BundleOK(c)'
  <2>1. /\ pending'[c] = "none" /\ disk'[c] = disk[c]
        /\ stored'[c] = (IF c \in readable THEN c ELSE None)
        /\ bsize'[c] = (IF c \in readable THEN Size[c] ELSE 0)
    BY <1>1, <1>7
  <2>2. ~Storing(c)' /\ ~Erasing(c)' /\ ~Erased(c)'
    BY <1>1 DEF Storing, Erasing, Erased
  <2>3. Waits(c)' = 0
    <3>1. c \notin storing' /\ Count(tasks', {StoreOf(c)}) = 0
      BY <1>1, <1>6
    <3> QED
      BY <2>2, <3>1 DEF Waits
  <2>4. Held(c)' <=> c \in readable
    BY <1>8, <2>1, <2>2 DEF Held
  <2>5. WaitsOK(c)'
    BY <1>1, <1>3, <2>1, <2>3 DEF WaitsOK
  <2>6. EntryOK(c)'
    BY <2>1, <2>4 DEF EntryOK
  <2>7. ListOK(c)'
    BY <1>1, <1>3, <1>6, <1>8, <2>1, <2>2 DEF ListOK
  <2> QED
    BY <2>5, <2>6, <2>7 DEF BundleOK
<1> QED
  BY <1>10, <1>11, <1>12, <1>13 DEF SimpleInv

LEMMA SimpleInit ==
  ASSUME Simple!Init
  PROVE  SimpleInv
<1>1. /\ list = {} /\ pending = [b \in Bundles |-> "none"]
      /\ stored = [m \in Simple!Metas |-> None] /\ bsize = [m \in Simple!Metas |-> 0]
      /\ cursize = 0 /\ storing = {} /\ tasks = <<>> /\ wpc = "idle"
      /\ disk = [b \in Bundles |-> "none"] /\ known = {} /\ failed = {}
      /\ crashes = 0 /\ cleared = FALSE
  BY DEF Simple!Init
<1>2. SimpleTypes /\ WorkerOK
  <2>1. IsFiniteSet(known)
    BY <1>1, FS_EmptySet
  <2>2. tasks \in Seq(Simple!Task)
    BY <1>1
  <2>3. SimpleTypes
    BY <1>1, <2>1, <2>2 DEF SimpleTypes
  <2>4. WorkerOK
    BY <1>1 DEF WorkerOK
  <2> QED
    BY <2>3, <2>4
<1>3. SizeOK
  <2>1. Counted = {}
    BY <1>1 DEF Counted, Simple!Metas
  <2> QED
    BY <1>1, <2>1, TotalEmpty, StorageAssumption DEF SizeOK, Simple!Metas
<1>4. ASSUME NEW b \in Bundles
      PROVE  BundleOK(b)
  <2>1. Count(tasks, {StoreOf(b)}) = 0 /\ Count(tasks, {RemoveOf(b)}) = 0
    BY <1>1, CountEmpty
  <2>2. ~Storing(b) /\ ~Erasing(b) /\ ~Erased(b)
    BY <1>1 DEF Storing, Erasing, Erased
  <2>3. Waits(b) = 0 /\ ~Held(b)
    BY <1>1, <2>1, <2>2 DEF Waits, Held
  <2> QED
    BY <1>1, <2>1, <2>2, <2>3 DEF BundleOK, WaitsOK, EntryOK, ListOK, Simple!Metas
<1> QED
  BY <1>2, <1>3, <1>4 DEF SimpleInv

LEMMA SimpleStep ==
  ASSUME SimpleInv, kind = "simple", ~Again, [Next]_vars
  PROVE  SimpleInv'
<1>1. CASE UNCHANGED vars
  <2>1. UNCHANGED <<list, pending, stored, bsize, cursize, storing, tasks, task, wpc, disk,
                    known, failed, crashes, cleared>>
    BY <1>1 DEF vars, Simple!vars, Simple!listVars, Simple!bookVars, Simple!workVars,
                Simple!pastVars
  <2>2. SimpleTypes' /\ WorkerOK' /\ SizeOK'
    BY <2>1 DEF SimpleInv, SimpleTypes, WorkerOK, SizeOK, Counted
  <2>3. ASSUME NEW b \in Bundles
        PROVE  BundleOK(b)'
    BY <2>1 DEF SimpleInv, BundleOK, WaitsOK, EntryOK, ListOK, Waits, Held,
                Storing, Erasing, Erased
  <2> QED
    BY <2>2, <2>3 DEF SimpleInv
<1>2. CASE Next
  <2>1. Simple!Next
    BY <1>2 DEF Next, SimpleNext, MemoryNext, SQLiteNext
  <2>2. ASSUME NEW b \in Bundles,
               Simple!Store(b) \/ Simple!QueueStore(b)
               \/ Simple!Remove(b) \/ Simple!Expire(b) \/ Simple!GetBroken(b)
        PROVE  SimpleInv'
    BY <2>2, SimpleStore, SimpleQueueStore, SimpleDrop
       DEF Simple!Remove, Simple!Expire, Simple!GetBroken
  <2>3. CASE Simple!Clear
    BY <2>3, SimpleClear
  <2>4. CASE Simple!WorkerStep
    BY <2>4, SimpleTake, SimpleOpenFails, SimpleWriteFile, SimpleEventStored,
       SimpleEventStoreFailed, SimpleUnlink, SimpleEventRemoved DEF Simple!WorkerStep
  <2>5. CASE Simple!Restart
    BY <2>5, SimpleRestart
  <2> QED
    BY <2>1, <2>2, <2>3, <2>4, <2>5 DEF Simple!Next
<1> QED
  BY <1>1, <1>2

SimpleHolds == kind = "simple" /\ SimpleInv

LEMMA SimpleInductive ==
  ~Again => (kind = "simple" /\ FairSpec => []SimpleHolds)
<1>1. Init /\ kind = "simple" => SimpleHolds
  BY SimpleInit DEF Init, SimpleHolds
<1>2. CASE Again
  BY <1>2, PTL
<1>3. CASE ~Again
  <2>1. SimpleHolds /\ [Next]_vars => SimpleHolds'
    BY <1>3, SimpleStep DEF SimpleHolds, Next, SimpleNext, MemoryNext, SQLiteNext, vars
  <2> QED
    BY <1>1, <2>1, PTL DEF FairSpec
<1> QED
  BY <1>2, <1>3

\* What the users of the storage see of each step.
Stores(b) ==
  /\ stores' = stores + 1 /\ ~Held(b) /\ ~(MaxSize > 0 /\ Simple!Add(cursize, Size[b]) > MaxSize)
  /\ Content' = Content \cup {b} /\ Doomed' = Doomed \ {b}
Loses(b)  == Content' = Content \ {b} /\ Doomed' \in {Doomed, Doomed \cup {b}}
Purges    == Content' = Content /\ Doomed' \subseteq Doomed
Clears    ==
  /\ MayClear /\ Content' = {}
  /\ Doomed \subseteq Doomed' /\ Doomed' \subseteq Doomed \cup Content
Restarts  ==
  /\ crashes < MaxCrashes /\ crashes' = crashes + 1
  /\ Content' = {b \in Bundles : disk[b] = "full"} /\ Doomed' = {}
  /\ Content' \subseteq Content \cup Doomed

LEMMA SimpleEffects ==
  ASSUME SimpleInv, kind = "simple", ~Again, [Next]_vars
  PROVE  \/ \E b \in Bundles : Stores(b) \/ Loses(b)
         \/ Purges \/ Clears \/ Restarts
<1>1. kind' = "simple" /\ list \in SUBSET Bundles /\ list \subseteq known
  BY DEF Next, SimpleNext, MemoryNext, SQLiteNext, vars, SimpleInv, SimpleTypes
<1>2. /\ Content = {b \in list : pending[b] # "none" \/ disk[b] = "full"}
      /\ Doomed = {b \in Bundles \ list : disk[b] = "full"}
      /\ Content' = {b \in list' : pending'[b] # "none" \/ disk'[b] = "full"}
      /\ Doomed' = {b \in Bundles \ list' : disk'[b] = "full"}
  BY <1>1 DEF Content, Doomed, Simple!Content, Simple!Doomed, Simple!Readable
<1>3. SimpleTypes /\ WorkerOK
  BY DEF SimpleInv
<1>4. ASSUME UNCHANGED <<list, pending, disk>>
      PROVE  Purges
  BY <1>2, <1>4 DEF Purges
<1>5. CASE UNCHANGED vars
  BY <1>4, <1>5 DEF vars, Simple!vars, Simple!listVars, Simple!bookVars
<1>6. CASE Next
  <2>1. Simple!Next
    BY <1>1, <1>6 DEF Next, SimpleNext, MemoryNext, SQLiteNext
  <2>2. ASSUME NEW b \in Bundles, Simple!Store(b)
        PROVE  Stores(b)
    <3>1. /\ stores' = stores + 1 /\ b \notin known
          /\ ~(MaxSize > 0 /\ Simple!Add(cursize, Size[b]) > MaxSize)
          /\ pending' = [pending EXCEPT ![b] = Simple!Custodian(b)]
          /\ list' = list \cup {b} /\ disk' = disk
      BY <2>2 DEF Simple!Store
    <3>2. pending'[b] # "none" /\ \A c \in Bundles : c # b => pending'[c] = pending[c]
      BY <1>3, <3>1 DEF SimpleTypes, Simple!Custodian
    <3>3. pending[b] = "none" /\ disk[b] = "none" /\ ~Erasing(b)
      BY <3>1 DEF SimpleInv, BundleOK, WaitsOK, ListOK
    <3>4. ~Held(b)
      BY <3>3 DEF Held, Erased, Erasing
    <3>5. Content' = Content \cup {b} /\ Doomed' = Doomed \ {b}
      BY <1>1, <1>2, <3>1, <3>2
    <3> QED
      BY <3>1, <3>4, <3>5 DEF Stores
  <2>3. ASSUME NEW b \in Bundles, Simple!QueueStore(b)
        PROVE  Purges
    BY <1>4, <2>3 DEF Simple!QueueStore, Simple!listVars, Simple!bookVars
  <2>4. ASSUME NEW b \in Bundles, Simple!DropAndQueue(b)
        PROVE  Loses(b)
    <3>1. list' = list \ {b} /\ UNCHANGED <<pending, disk>>
      BY <2>4 DEF Simple!DropAndQueue, Simple!bookVars
    <3>2. Content' = Content \ {b}
      BY <1>2, <3>1
    <3>3. Doomed' \in {Doomed, Doomed \cup {b}}
      <4>1. CASE disk[b] = "full"
        BY <1>2, <3>1, <4>1
      <4>2. CASE disk[b] # "full"
        BY <1>2, <3>1, <4>2
      <4> QED
        BY <4>1, <4>2
    <3> QED
      BY <3>2, <3>3 DEF Loses
  <2>5. CASE Simple!Clear
    <3>1. MayClear /\ list' = {} /\ UNCHANGED <<pending, disk>>
      BY <2>5 DEF Simple!Clear
    <3> QED
      BY <1>1, <1>2, <3>1 DEF Clears
  <2>6. CASE Simple!TakeTask
    <3>1. list' = list /\ pending' = pending /\ wpc = "idle" /\ tasks # <<>>
      BY <2>6 DEF Simple!TakeTask, Simple!listVars, Simple!bookVars
    <3>2. /\ Head(tasks) \in Simple!Task
          /\ \A b \in Bundles : Head(tasks) = StoreOf(b) => Count(tasks, {StoreOf(b)}) # 0
      <4>1. tasks \in Seq(Simple!Task)
        BY <1>3 DEF SimpleTypes
      <4>2. ASSUME NEW b \in Bundles, Head(tasks) = StoreOf(b)
            PROVE  Count(tasks, {StoreOf(b)}) # 0
        <5>1. Head(tasks) \in {StoreOf(b)} /\ Tail(tasks) \in Seq(Simple!Task)
          BY <3>1, <4>1, <4>2
        <5>2. Count(tasks, {StoreOf(b)}) = Count(Tail(tasks), {StoreOf(b)}) + 1
          BY <3>1, <4>1, <5>1, CountTail
        <5>3. Count(Tail(tasks), {StoreOf(b)}) \in Nat
          BY <5>1, CountType
        <5> QED
          BY <5>2, <5>3
      <4> QED
        BY <3>1, <4>1, <4>2
    <3>3. CASE UNCHANGED disk
      BY <1>4, <3>1, <3>3
    <3>4. CASE Head(tasks).op = "store" /\ disk' = [disk EXCEPT ![Head(tasks).b] = "part"]
      <4>1. PICK b \in Bundles : Head(tasks) = StoreOf(b) /\ Head(tasks).b = b
        BY <3>2, <3>4, TaskKinds
      <4>2. pending[b] # "none" /\ ~Storing(b)
        BY <3>2, <4>1, Idle
      <4>3. disk[b] # "full"
        BY <4>2 DEF SimpleInv, BundleOK, WaitsOK
      <4>4. \A c \in Bundles : disk'[c] = IF c = b THEN "part" ELSE disk[c]
        BY <1>3, <3>4, <4>1 DEF SimpleTypes
      <4>5. Content' = Content /\ Doomed' = Doomed
        BY <1>1, <1>2, <3>1, <4>2, <4>3, <4>4
      <4> QED
        BY <4>5 DEF Purges
    <3> QED
      BY <2>6, <3>3, <3>4 DEF Simple!TakeTask
  <2>7. CASE Simple!OpenFails
    BY <1>4, <2>7 DEF Simple!OpenFails, Simple!listVars, Simple!bookVars
  <2>8. CASE Simple!WriteFile
    <3>1. PICK b \in Bundles : task = StoreOf(b) /\ task.b = b
      BY <1>3, <2>8, TaskFacts DEF Simple!WriteFile, WorkerOK
    <3>2. wpc = "write" /\ list' = list /\ pending' = pending
      BY <2>8 DEF Simple!WriteFile, Simple!listVars, Simple!bookVars
    <3>3. CASE UNCHANGED disk
      BY <1>4, <3>2, <3>3
    <3>4. CASE disk' = [disk EXCEPT ![b] = "full"]
      <4>1. pending[b] # "none" /\ disk[b] = "part"
        BY <1>3, <3>1, <3>2, Idle DEF Storing, WorkerOK
      <4>2. \A c \in Bundles : disk'[c] = IF c = b THEN "full" ELSE disk[c]
        BY <1>3, <3>4 DEF SimpleTypes
      <4>3. CASE b \in list
        <5>1. Content' = Content /\ Doomed' = Doomed
          BY <1>1, <1>2, <3>2, <4>1, <4>2, <4>3
        <5> QED
          BY <5>1 DEF Purges
      <4>4. CASE b \notin list
        <5>1. Content' = Content /\ b \notin Content /\ Doomed' = Doomed \cup {b}
          BY <1>1, <1>2, <3>2, <4>2, <4>4
        <5>2. Loses(b)
          BY <5>1 DEF Loses
        <5> QED
          BY <5>2
      <4> QED
        BY <4>3, <4>4
    <3> QED
      BY <2>8, <3>1, <3>3, <3>4 DEF Simple!WriteFile
  <2>9. CASE Simple!EventStored
    <3>1. PICK b \in Bundles : task = StoreOf(b) /\ task.b = b
      BY <1>3, <2>9, TaskFacts DEF Simple!EventStored, WorkerOK
    <3>2. /\ wpc = "stored" /\ list' = list /\ disk' = disk
          /\ pending' = [pending EXCEPT ![b] = "none"]
      BY <2>9, <3>1 DEF Simple!EventStored, Simple!listVars
    <3>3. disk[b] = "full" /\ \A c \in Bundles : c # b => pending'[c] = pending[c]
      BY <1>3, <3>1, <3>2 DEF WorkerOK, SimpleTypes
    <3>4. Content' = Content /\ Doomed' = Doomed
      BY <1>1, <1>2, <3>2, <3>3
    <3> QED
      BY <3>4 DEF Purges
  <2>10. CASE Simple!EventStoreFailed
    <3>1. PICK b \in Bundles : task = StoreOf(b) /\ task.b = b
      BY <1>3, <2>10, TaskFacts DEF Simple!EventStoreFailed, WorkerOK
    <3>2. /\ wpc = "failed" /\ list' = list /\ disk' = disk
          /\ pending' = [pending EXCEPT ![b] = "none"]
      BY <2>10, <3>1 DEF Simple!EventStoreFailed, Simple!listVars
    <3>3. /\ disk[b] # "full" /\ pending'[b] = "none"
          /\ \A c \in Bundles : c # b => pending'[c] = pending[c]
      BY <1>3, <3>1, <3>2 DEF WorkerOK, SimpleTypes
    <3>4. Content' = Content \ {b} /\ Doomed' = Doomed
      BY <1>1, <1>2, <3>2, <3>3
    <3>5. Loses(b)
      BY <3>4 DEF Loses
    <3> QED
      BY <3>5
  <2>11. CASE Simple!Unlink
    <3>1. PICK b \in Bundles : task = RemoveOf(b) /\ task.b = b
      BY <1>3, <2>11, TaskFacts DEF Simple!Unlink, WorkerOK
    <3>2. wpc = "unlink" /\ list' = list /\ pending' = pending
      BY <2>11 DEF Simple!Unlink, Simple!listVars, Simple!bookVars
    <3>3. CASE UNCHANGED disk
      BY <1>4, <3>2, <3>3
    <3>4. CASE disk' = [disk EXCEPT ![b] = "none"]
      <4>1. b \notin list
        BY <3>1, <3>2 DEF SimpleInv, BundleOK, ListOK, Erasing
      <4>2. \A c \in Bundles : disk'[c] = IF c = b THEN "none" ELSE disk[c]
        BY <1>3, <3>4 DEF SimpleTypes
      <4>3. Content' = Content /\ Doomed' \subseteq Doomed
        BY <1>1, <1>2, <3>2, <4>1, <4>2
      <4> QED
        BY <4>3 DEF Purges
    <3> QED
      BY <2>11, <3>1, <3>3, <3>4 DEF Simple!Unlink
  <2>12. CASE Simple!EventRemoved
    BY <1>4, <2>12 DEF Simple!EventRemoved, Simple!listVars
  <2>13. CASE Simple!Restart
    <3>1. /\ crashes < MaxCrashes /\ crashes' = crashes + 1
          /\ list' = {b \in Bundles : disk[b] = "full"} /\ disk' = disk
      BY <2>13 DEF Simple!Restart
    <3>2. Content' = {b \in Bundles : disk[b] = "full"} /\ Doomed' = {}
      BY <1>2, <3>1
    <3>3. Content' \subseteq Content \cup Doomed
      BY <1>2, <3>2
    <3> QED
      BY <3>1, <3>2, <3>3 DEF Restarts
  <2> QED
    BY <2>1, <2>2, <2>3, <2>4, <2>5, <2>6, <2>7, <2>8, <2>9, <2>10, <2>11, <2>12, <2>13
       DEF Simple!Next, Simple!Remove, Simple!Expire, Simple!GetBroken, Simple!WorkerStep
<1> QED
  BY <1>5, <1>6

-----------------------------------------------------------------------------
(* The storage in SQLite: the tables as all threads see them, the tables   *)
(* a restart finds, the block files, the deletion list and the tasks.      *)

\* How the database is used: a bundle is not stored twice, it is not removed
\* before its store() returns, and the fragments have one block.
DatabaseUse == ~Again /\ ~Overlap /\ \A b \in Fragments \cap Rowed : Blocks[b] = 1

InRows(b, R) == \E r \in R : r.b = b
BlocksOf(b, B) == {f \in B : f.b = b}

\* The first k blocks of b, from the store() with number n; all of them.
FirstBlocks(b, n, k) == {[b |-> b, n |-> n, i |-> i] : i \in 1..k}
Complete(b, B) == \E n \in 1..MaxStores : BlocksOf(b, B) = FirstBlocks(b, n, Blocks[b])

\* b has expired; TaskExpire removes its files; TaskRemove works on it.
Late(b) == now >= TTL[b]
Expiring(b) == wpc = "files" /\ task.op = "expire" /\ TTL[b] <= task.at
Deleting(b) == wpc \in {"files", "min", "set", "forget"} /\ task = RemoveOf(b)

DatabaseTypes ==
  /\ rows \subseteq SQLite!Row /\ IsFiniteSet(rows)
  /\ blks \subseteq SQLite!File /\ files \subseteq SQLite!File
  /\ tx # None => /\ tx \in [rows : SUBSET SQLite!Row, blks : SUBSET SQLite!File]
                  /\ IsFiniteSet(tx.rows)
  /\ deletion \subseteq Rowed /\ tasks \in Seq(SQLite!Task)
  /\ now \in 0..MaxTime /\ stores \in 0..MaxStores

\* A transaction is open exactly while a store() writes.
StoreOK ==
  /\ st # None =>
       /\ st \in [b : Rowed, n : 1..MaxStores, i : Nat \ {0}, pc : {"blocks", "end", "time"}]
       /\ st.pc = "blocks" => st.i <= Blocks[st.b]
  /\ tx # None <=> st # None /\ st.pc \in {"blocks", "end"}

\* The thread of the storage has a task for each place it is in, and it
\* expires nothing before its time.
ThreadOK ==
  /\ wpc \in {"idle", "files", "min", "set", "forget", "vacuum"}
  /\ wpc \in {"files", "min", "set"} =>
       (\E b \in Rowed : task = RemoveOf(b)) \/ (\E t \in 0..now : task = [op |-> "expire", at |-> t])
  /\ wpc = "forget" => \E b \in Rowed : task = RemoveOf(b)
  /\ \A i \in 1..Len(tasks) : tasks[i].op = "expire" => tasks[i].at <= now

\* A row comes with all blocks; without it there is none, or the bundle has
\* expired while it was stored.
TablesOK(b, R, B) ==
  IF InRows(b, R) THEN Complete(b, B) ELSE BlocksOf(b, B) = {} \/ Late(b)

Written(b) == FirstBlocks(b, st.n, IF st.pc = "blocks" THEN st.i - 1 ELSE Blocks[b])

CurrentOK(b) ==
  IF SQLite!Storing(b)
    THEN /\ b \notin deletion /\ BlocksOf(b, blks) \subseteq Written(b)
         /\ IF InRows(b, rows) THEN BlocksOf(b, blks) = Written(b) ELSE Late(b)
    ELSE TablesOK(b, rows, blks)

\* The transaction is about the bundle that is stored alone.
CommittedOK(b) == tx # None =>
  IF SQLite!Storing(b)
    THEN ~InRows(b, tx.rows) /\ BlocksOf(b, tx.blks) = {}
    ELSE /\ TablesOK(b, tx.rows, tx.blks)
         /\ InRows(b, rows) => InRows(b, tx.rows) /\ BlocksOf(b, tx.blks) = BlocksOf(b, blks)

FilesOK(b) ==
  InRows(b, rows) /\ b \notin deletion /\ ~Expiring(b) => BlocksOf(b, blks) \subseteq files

\* One task removes b, and b is on the deletion list until its rows are gone.
RemovalOK(b) ==
  /\ \A i, j \in 1..Len(tasks) : tasks[i] = RemoveOf(b) /\ tasks[j] = RemoveOf(b) => i = j
  /\ \A i \in 1..Len(tasks) : tasks[i] = RemoveOf(b) => b \in deletion /\ ~Deleting(b)
  /\ Deleting(b) => b \in deletion /\ (wpc # "files" => ~InRows(b, rows))

EachOK(b) == CurrentOK(b) /\ CommittedOK(b) /\ FilesOK(b) /\ RemovalOK(b)

DatabaseInv == DatabaseTypes /\ StoreOK /\ ThreadOK /\ \A b \in Rowed : EachOK(b)

LEMMA DatabaseTasks ==
  ASSUME NEW b \in Rowed, NEW c \in Rowed
  PROVE  /\ RemoveOf(b) \in SQLite!Task /\ RemoveOf(b).op = "remove" /\ RemoveOf(b).b = b
         /\ RemoveOf(b) = RemoveOf(c) <=> b = c
  BY DEF RemoveOf, SQLite!Task

LEMMA DatabaseTaskKinds ==
  ASSUME NEW t \in SQLite!Task
  PROVE  \/ t.op = "remove" /\ \E b \in Rowed : t = RemoveOf(b)
         \/ t.op = "expire" /\ t.at \in 0..MaxTime /\ t = [op |-> "expire", at |-> t.at]
         \/ t.op = "idle"
  BY DEF RemoveOf, SQLite!Task

\* Where nothing concerns b, what holds of it still holds.
LEMMA SameCurrent ==
  ASSUME NEW b, CurrentOK(b), InRows(b, rows') <=> InRows(b, rows),
         BlocksOf(b, blks') = BlocksOf(b, blks),
         SQLite!Storing(b)' <=> SQLite!Storing(b), SQLite!Storing(b) => st' = st,
         b \in deletion' => b \in deletion \/ ~SQLite!Storing(b), Late(b) => Late(b)'
  PROVE  CurrentOK(b)'
<1>1. CASE SQLite!Storing(b)
  <2>1. Written(b)' = Written(b)
    BY <1>1 DEF Written
  <2> QED
    BY <1>1, <2>1 DEF CurrentOK
<1>2. CASE ~SQLite!Storing(b)
  BY <1>2 DEF CurrentOK, TablesOK, Complete
<1> QED
  BY <1>1, <1>2

LEMMA SameCommitted ==
  ASSUME NEW b, CommittedOK(b), tx' = tx,
         InRows(b, rows') => InRows(b, rows) /\ BlocksOf(b, blks') = BlocksOf(b, blks),
         SQLite!Storing(b)' <=> SQLite!Storing(b), Late(b) => Late(b)'
  PROVE  CommittedOK(b)'
  BY DEF CommittedOK, TablesOK

LEMMA SameFiles ==
  ASSUME NEW b, FilesOK(b),
         InRows(b, rows') => InRows(b, rows) /\ BlocksOf(b, blks') = BlocksOf(b, blks),
         b \in deletion => b \in deletion', Expiring(b) => Expiring(b)',
         BlocksOf(b, blks) \cap files \subseteq files'
  PROVE  FilesOK(b)'
  BY DEF FilesOK

LEMMA SameRemoval ==
  ASSUME NEW b, RemovalOK(b), UNCHANGED <<tasks, task, wpc>>,
         b \in deletion => b \in deletion', InRows(b, rows') => InRows(b, rows)
  PROVE  RemovalOK(b)'
<1>1. Deleting(b)' <=> Deleting(b)
  BY DEF Deleting
<1> QED
  BY <1>1 DEF RemovalOK

LEMMA FewBlocks ==
  ASSUME NEW b, NEW n, NEW k \in Nat
  PROVE  /\ FirstBlocks(b, n, 0) = {}
         /\ FirstBlocks(b, n, k + 1) = FirstBlocks(b, n, k) \cup {[b |-> b, n |-> n, i |-> k + 1]}
<1>1. FirstBlocks(b, n, 0) = {}
  BY DEF FirstBlocks
<1>2. 1..k+1 = 1..k \cup {k+1}
  OBVIOUS
<1> QED
  BY <1>1, <1>2 DEF FirstBlocks

LEMMA DatabaseStore ==
  ASSUME DatabaseInv, DatabaseUse, NEW b \in Rowed, SQLite!Store(b)
  PROVE  /\ DatabaseInv' /\ ~InRows(b, rows)
         /\ tx = None /\ tx' # None /\ tx'.rows = rows /\ tx'.blks = blks
         /\ SQLite!Storing(b)' /\ st'.pc = "blocks" /\ UNCHANGED <<blks, files, deletion>>
         /\ \A c \in Rowed : c # b => /\ InRows(c, rows') <=> InRows(c, rows)
                                      /\ ~SQLite!Storing(c) /\ ~SQLite!Storing(c)'
<1>1. /\ st = None /\ stores < MaxStores /\ now < TTL[b] /\ b \notin deletion
      /\ SQLite!RowsOf(b) = {} /\ stores' = stores + 1
      /\ UNCHANGED <<blks, files, deletion, tasks, task, wpc, now>>
  BY DEF SQLite!Store, SQLite!MayStore, SQLite!worker, DatabaseUse
<1>2. ~InRows(b, rows)
  BY <1>1 DEF SQLite!RowsOf, InRows
<1>3. DatabaseTypes /\ StoreOK /\ ThreadOK
  BY DEF DatabaseInv
<1>4. tx = None /\ SQLite!Committed = [rows |-> rows, blks |-> blks]
  BY <1>1, <1>3 DEF StoreOK, SQLite!Committed
<1> DEFINE r == [b |-> b, n |-> stores + 1, own |-> FALSE]
           s == [b |-> b, n |-> stores + 1, i |-> 1, pc |-> "blocks"]
<1>5. tx' = [rows |-> rows, blks |-> blks] /\ rows' = rows \cup {r} /\ st' = s
  BY <1>1, <1>4 DEF SQLite!Store
<1>6. stores + 1 \in 1..MaxStores /\ Blocks[b] \in Nat \ {0} /\ TTL[b] \in Nat /\ now \in Nat
  BY <1>1, <1>3, StorageAssumption, RowedAssumption DEF DatabaseTypes
<1>7. r \in SQLite!Row
  BY <1>6 DEF SQLite!Row
<1>8. s \in [b : Rowed, n : 1..MaxStores, i : Nat \ {0}, pc : {"blocks", "end", "time"}] /\ s # None
  BY <1>6, NoneAssumption
<1>9. tx' \in [rows : SUBSET SQLite!Row, blks : SUBSET SQLite!File] /\ tx' # None
  BY <1>3, <1>5, NoneAssumption DEF DatabaseTypes
<1>10. DatabaseTypes'
  <2>1. IsFiniteSet(rows') /\ rows' \subseteq SQLite!Row
    BY <1>3, <1>5, <1>7, FS_AddElement DEF DatabaseTypes
  <2> QED
    BY <1>1, <1>3, <1>5, <1>6, <1>9, <2>1 DEF DatabaseTypes
<1>11. StoreOK'
  BY <1>5, <1>6, <1>8, <1>9 DEF StoreOK
<1>12. ThreadOK'
  BY <1>1, <1>3 DEF ThreadOK
<1>13. ASSUME NEW c \in Rowed
       PROVE  EachOK(c)'
  <2>1. /\ ~SQLite!Storing(c) /\ (SQLite!Storing(c)' <=> c = b)
        /\ (Late(c)' <=> Late(c)) /\ (Expiring(c)' <=> Expiring(c))
    BY <1>1, <1>5, <1>8 DEF SQLite!Storing, Late, Expiring
  <2>2. InRows(c, rows') <=> InRows(c, rows) \/ c = b
    <3>1. r.b = b /\ \A x : x \in rows' <=> x \in rows \/ x = r
      BY <1>5
    <3> HIDE DEF r
    <3> QED
      BY <3>1 DEF InRows
  <2>3. EachOK(c)
    BY DEF DatabaseInv
  <2>4. CASE c = b
    <3>1. BlocksOf(b, blks) = {}
      BY <1>1, <1>2, <1>6, <2>1, <2>3, <2>4 DEF EachOK, CurrentOK, TablesOK, Late
    <3>2. Written(b)' = {}
      BY <1>5, FewBlocks DEF Written
    <3>3. CurrentOK(b)'
      BY <1>1, <2>1, <2>2, <2>4, <3>1, <3>2 DEF CurrentOK
    <3>4. CommittedOK(b)'
      BY <1>2, <1>5, <2>1, <2>4, <3>1 DEF CommittedOK
    <3>5. FilesOK(b)'
      BY <1>1, <3>1 DEF FilesOK
    <3>6. RemovalOK(b)'
      BY <1>1, <2>3, <2>4 DEF EachOK, RemovalOK, Deleting
    <3> QED
      BY <2>4, <3>3, <3>4, <3>5, <3>6 DEF EachOK
  <2>5. CASE c # b
    <3>1. CurrentOK(c)' /\ FilesOK(c)' /\ RemovalOK(c)'
      BY <1>1, <2>1, <2>2, <2>3, <2>5, SameCurrent, SameFiles, SameRemoval DEF EachOK
    <3>2. CommittedOK(c)'
      BY <1>1, <1>5, <2>1, <2>2, <2>3, <2>5 DEF EachOK, CurrentOK, CommittedOK, TablesOK
    <3> QED
      BY <3>1, <3>2 DEF EachOK
  <2> QED
    BY <2>4, <2>5
<1>14. ASSUME NEW c \in Rowed, c # b
       PROVE  /\ InRows(c, rows') <=> InRows(c, rows)
              /\ ~SQLite!Storing(c) /\ ~SQLite!Storing(c)'
  <2>1. \A x \in rows' : x \in rows \/ x.b = b
    BY <1>5
  <2>2. rows \subseteq rows'
    BY <1>5
  <2> QED
    BY <1>1, <1>5, <1>14, <2>1, <2>2 DEF InRows, SQLite!Storing
<1>15. SQLite!Storing(b)' /\ st'.pc = "blocks"
  BY <1>5, <1>8 DEF SQLite!Storing
<1> QED
  BY <1>1, <1>2, <1>4, <1>5, <1>9, <1>10, <1>11, <1>12, <1>13, <1>14, <1>15 DEF DatabaseInv

LEMMA DatabaseStoreFails ==
  ASSUME DatabaseInv, DatabaseUse, NEW b \in Rowed, SQLite!StoreFails(b)
  PROVE  DatabaseInv' /\ UNCHANGED <<rows, blks, tx, files, deletion>>
<1>1. /\ st = None /\ st' = None /\ stores < MaxStores /\ stores' = stores + 1
      /\ UNCHANGED <<files, deletion, tasks, task, wpc, now, st>>
  BY DEF SQLite!StoreFails, SQLite!MayStore, SQLite!worker
<1>2. DatabaseTypes /\ StoreOK /\ ThreadOK
  BY DEF DatabaseInv
<1>3. tx = None /\ UNCHANGED <<rows, blks, tx>>
  BY <1>1, <1>2 DEF StoreOK, SQLite!Committed, SQLite!StoreFails
<1>4. DatabaseTypes' /\ StoreOK' /\ ThreadOK'
  BY <1>1, <1>2, <1>3, StorageAssumption DEF DatabaseTypes, StoreOK, ThreadOK
<1>5. ASSUME NEW c \in Rowed
      PROVE  EachOK(c)'
  <2>1. /\ ~SQLite!Storing(c) /\ ~SQLite!Storing(c)'
        /\ (Late(c)' <=> Late(c)) /\ (Expiring(c)' <=> Expiring(c))
    BY <1>1 DEF SQLite!Storing, Late, Expiring
  <2>2. EachOK(c)
    BY DEF DatabaseInv
  <2> QED
    BY <1>1, <1>3, <2>1, <2>2, SameCurrent, SameCommitted, SameFiles, SameRemoval DEF EachOK
<1> QED
  BY <1>1, <1>3, <1>4, <1>5 DEF DatabaseInv

\* A task that is queued.
LEMMA TaskQueued ==
  ASSUME DatabaseTypes, ThreadOK, NEW e \in SQLite!Task, tasks' = Append(tasks, e),
         UNCHANGED <<task, wpc>>, now' >= now, now' \in Nat,
         e.op = "expire" => e.at <= now'
  PROVE  /\ tasks' \in Seq(SQLite!Task) /\ ThreadOK'
         /\ \A c \in Rowed : /\ RemovalOK(c) /\ e # RemoveOf(c)
                             /\ c \in deletion => c \in deletion'
                             /\ InRows(c, rows') => InRows(c, rows)
                             => RemovalOK(c)'
<1>1. tasks \in Seq(SQLite!Task) /\ now \in Nat
  BY StorageAssumption DEF DatabaseTypes
<1>2. /\ tasks' \in Seq(SQLite!Task) /\ Len(tasks') = Len(tasks) + 1 /\ Len(tasks) \in Nat
      /\ tasks'[Len(tasks) + 1] = e /\ \A i \in 1..Len(tasks) : tasks'[i] = tasks[i]
  BY <1>1
<1>3. ThreadOK'
  <2>1. ASSUME NEW i \in 1..Len(tasks'), tasks'[i].op = "expire"
        PROVE  tasks'[i].at <= now'
    <3>1. CASE i \in 1..Len(tasks)
      <4>1. tasks[i] \in SQLite!Task /\ tasks[i].op = "expire" /\ tasks'[i] = tasks[i]
        BY <1>1, <1>2, <2>1, <3>1
      <4>2. tasks[i].at \in Nat /\ tasks[i].at <= now
        BY <3>1, <4>1, DatabaseTaskKinds, StorageAssumption DEF ThreadOK
      <4> QED
        BY <1>1, <4>1, <4>2
    <3>2. CASE i = Len(tasks) + 1
      BY <1>2, <2>1, <3>2
    <3> QED
      BY <1>2, <3>1, <3>2
  <2>2. 0..now \subseteq 0..now'
    BY <1>1
  <2> QED
    BY <2>1, <2>2 DEF ThreadOK
<1>4. ASSUME NEW c \in Rowed, RemovalOK(c), e # RemoveOf(c), c \in deletion => c \in deletion',
             InRows(c, rows') => InRows(c, rows)
      PROVE  RemovalOK(c)'
  <2>1. \A i \in 1..Len(tasks') : tasks'[i] = RemoveOf(c) => i \in 1..Len(tasks) /\ tasks[i] = RemoveOf(c)
    BY <1>2, <1>4
  <2>2. Deleting(c)' <=> Deleting(c)
    BY DEF Deleting
  <2> QED
    BY <1>4, <2>1, <2>2 DEF RemovalOK
<1> QED
  BY <1>2, <1>3, <1>4

\* The custodian of a bundle changes.
LEMMA OwnerChanged ==
  ASSUME DatabaseTypes, NEW b \in Rowed, NEW v \in BOOLEAN,
         rows' = (rows \ SQLite!RowsOf(b)) \cup {[r EXCEPT !.own = v] : r \in SQLite!RowsOf(b)}
  PROVE  /\ rows' \subseteq SQLite!Row /\ IsFiniteSet(rows')
         /\ \A c : InRows(c, rows') <=> InRows(c, rows)
<1> DEFINE S == SQLite!RowsOf(b)
           T == {[r EXCEPT !.own = v] : r \in S}
<1>1. S \subseteq rows /\ rows \subseteq SQLite!Row /\ IsFiniteSet(rows)
  BY DEF SQLite!RowsOf, DatabaseTypes
<1>2. IsFiniteSet(T)
  <2> DEFINE f == [r \in S |-> [r EXCEPT !.own = v]]
  <2>1. f \in Surjection(S, T)
    BY DEF Surjection
  <2>2. IsFiniteSet(S)
    BY <1>1, FS_Subset
  <2> QED
    BY <2>1, <2>2, FS_Surjection
<1>3. ASSUME NEW r \in S
      PROVE  [r EXCEPT !.own = v] \in SQLite!Row /\ [r EXCEPT !.own = v].b = r.b /\ r.b = b
  <2>1. r \in SQLite!Row
    BY <1>1
  <2> QED
    BY <2>1 DEF SQLite!Row, SQLite!RowsOf
<1>4. rows' = (rows \ S) \cup T
  OBVIOUS
<1>5. T \subseteq SQLite!Row
  BY <1>3
<1>6. IsFiniteSet(rows')
  BY <1>1, <1>2, <1>4, FS_Subset, FS_Union
<1>7. ASSUME NEW c
      PROVE  InRows(c, rows') <=> InRows(c, rows)
  <2>1. ASSUME NEW r \in rows, r.b = c
        PROVE  \E x \in rows' : x.b = c
    BY <1>3, <1>4, <2>1
  <2>2. ASSUME NEW x \in rows', x.b = c
        PROVE  \E r \in rows : r.b = c
    <3>1. CASE x \in rows
      BY <2>2, <3>1
    <3>2. CASE x \in T
      <4>1. PICK r \in S : x = [r EXCEPT !.own = v]
        BY <3>2
      <4>2. x.b = r.b /\ r \in rows
        BY <1>1, <1>3, <4>1
      <4> QED
        BY <2>2, <4>2
    <3> QED
      BY <1>4, <3>1, <3>2
  <2> QED
    BY <2>1, <2>2 DEF InRows
<1> QED
  BY <1>1, <1>4, <1>5, <1>6, <1>7

\* What is written in a step of store().
LEMMA BlockWritten ==
  ASSUME DatabaseInv, DatabaseUse, SQLite!StoreBlock
  PROVE  LET f == [b |-> st.b, n |-> st.n, i |-> st.i] IN
         /\ st # None /\ st.b \in Rowed /\ st.pc = "blocks" /\ tx # None
         /\ f \in SQLite!File /\ files' = files \cup {f} /\ blks' = blks \cup {f}
         /\ st' \in [b : Rowed, n : 1..MaxStores, i : Nat \ {0}, pc : {"blocks", "end", "time"}]
         /\ st'.b = st.b /\ st'.n = st.n /\ st'.pc \in {"blocks", "end"}
         /\ st'.pc = "blocks" => st'.i = st.i + 1 /\ st.i < Blocks[st.b]
         /\ st'.pc = "end" => st.i = Blocks[st.b]
         /\ Written(st.b)' = Written(st.b) \cup {f}
<1> DEFINE b == st.b
           f == [b |-> st.b, n |-> st.n, i |-> st.i]
<1>1. /\ st # None /\ st.pc = "blocks" /\ StoreOK /\ b \in Rowed
      /\ st \in [b : Rowed, n : 1..MaxStores, i : Nat \ {0}, pc : {"blocks", "end", "time"}]
      /\ st.i <= Blocks[b] /\ tx # None
  BY DEF SQLite!StoreBlock, DatabaseInv, StoreOK
<1>2. Blocks[b] \in Nat \ {0} /\ st.i \in Nat \ {0} /\ st.n \in 1..MaxStores
  BY <1>1, StorageAssumption, RowedAssumption
<1>3. ~(b \in Fragments \cap Rowed /\ SQLite!BlksOf(b) # {})
  <2> SUFFICES ASSUME b \in Fragments \cap Rowed
               PROVE  SQLite!BlksOf(b) = {}
    OBVIOUS
  <2>1. st.i = 1
    BY <1>1, <1>2 DEF DatabaseUse
  <2>2. SQLite!Storing(b) /\ Written(b) = {}
    BY <1>1, <2>1, FewBlocks DEF SQLite!Storing, Written
  <2>3. BlocksOf(b, blks) = {}
    BY <1>1, <2>2 DEF DatabaseInv, EachOK, CurrentOK
  <2> QED
    BY <2>3 DEF SQLite!BlksOf, BlocksOf
<1>4. /\ files' = files \cup {f} /\ blks' = blks \cup {f}
      /\ st' = IF st.i < Blocks[b] THEN [st EXCEPT !.i = @ + 1] ELSE [st EXCEPT !.pc = "end"]
  BY <1>3 DEF SQLite!StoreBlock
<1>5. f \in SQLite!File
  BY <1>1, <1>2 DEF SQLite!File
<1>6. /\ st' \in [b : Rowed, n : 1..MaxStores, i : Nat \ {0}, pc : {"blocks", "end", "time"}]
      /\ st'.b = b /\ st'.n = st.n
      /\ IF st.i < Blocks[b] THEN st'.pc = "blocks" /\ st'.i = st.i + 1
                             ELSE st'.pc = "end" /\ st.i = Blocks[b]
  BY <1>1, <1>2, <1>4
<1>7. Written(b) = FirstBlocks(b, st.n, st.i - 1) /\ Written(b)' = FirstBlocks(b, st.n, st.i)
  BY <1>1, <1>2, <1>6 DEF Written
<1>8. FirstBlocks(b, st.n, st.i) = FirstBlocks(b, st.n, st.i - 1) \cup {f}
  <2>1. st.i - 1 \in Nat /\ (st.i - 1) + 1 = st.i
    BY <1>2
  <2> QED
    BY <2>1, FewBlocks
<1> QED
  BY <1>1, <1>4, <1>5, <1>6, <1>7, <1>8

LEMMA DatabaseStoreBlock ==
  ASSUME DatabaseInv, DatabaseUse, SQLite!StoreBlock
  PROVE  DatabaseInv'
<1> DEFINE b == st.b
           f == [b |-> st.b, n |-> st.n, i |-> st.i]
<1>1. /\ st # None /\ b \in Rowed /\ st.pc = "blocks" /\ tx # None
      /\ f \in SQLite!File /\ files' = files \cup {f} /\ blks' = blks \cup {f}
      /\ st' \in [b : Rowed, n : 1..MaxStores, i : Nat \ {0}, pc : {"blocks", "end", "time"}]
      /\ st'.b = b /\ st'.pc \in {"blocks", "end"}
      /\ st'.pc = "blocks" => st'.i = st.i + 1 /\ st.i < Blocks[b]
      /\ Written(b)' = Written(b) \cup {f}
  BY BlockWritten
<1>2. DatabaseTypes /\ StoreOK /\ ThreadOK
  BY DEF DatabaseInv
<1>3. /\ UNCHANGED <<rows, tx, deletion, tasks, task, wpc, now, stores>>
      /\ st' # None
  <2>1. st' # None
    BY <1>1, NoneAssumption
  <2> QED
    BY <2>1 DEF SQLite!StoreBlock, SQLite!worker, SQLite!past
<1>4. DatabaseTypes' /\ ThreadOK'
  BY <1>1, <1>2, <1>3 DEF DatabaseTypes, ThreadOK
<1>5. StoreOK'
  <2>1. st'.pc = "blocks" => st'.i <= Blocks[b]
    BY <1>1, <1>2, StorageAssumption, RowedAssumption DEF StoreOK
  <2> QED
    BY <1>1, <1>3, <2>1 DEF StoreOK
<1>6. ASSUME NEW c \in Rowed
      PROVE  EachOK(c)'
  <2>1. /\ (SQLite!Storing(c) <=> c = b) /\ (SQLite!Storing(c)' <=> c = b)
        /\ (Late(c)' <=> Late(c)) /\ (Expiring(c)' <=> Expiring(c))
    BY <1>1, <1>3 DEF SQLite!Storing, Late, Expiring
  <2>2. EachOK(c)
    BY DEF DatabaseInv
  <2>3. RemovalOK(c)'
    BY <1>3, <2>2, SameRemoval DEF EachOK
  <2>4. CASE c = b
    <3>1. BlocksOf(c, blks') = BlocksOf(c, blks) \cup {f} /\ f \in files'
      BY <1>1, <2>4 DEF BlocksOf
    <3>2. Written(c)' = Written(c) \cup {f}
      BY <1>1, <2>4 DEF Written
    <3>3. CurrentOK(c)'
      BY <1>3, <2>1, <2>2, <2>4, <3>1, <3>2 DEF EachOK, CurrentOK
    <3>4. CommittedOK(c)'
      BY <1>3, <2>1, <2>2, <2>4 DEF EachOK, CommittedOK
    <3>5. FilesOK(c)'
      BY <1>1, <1>3, <2>1, <2>2, <3>1 DEF EachOK, FilesOK
    <3> QED
      BY <2>3, <3>3, <3>4, <3>5 DEF EachOK
  <2>5. CASE c # b
    <3>1. BlocksOf(c, blks') = BlocksOf(c, blks)
      BY <1>1, <2>5 DEF BlocksOf
    <3> QED
      BY <1>1, <1>3, <2>1, <2>2, <2>3, <2>5, <3>1, SameCurrent, SameCommitted, SameFiles DEF EachOK
  <2> QED
    BY <2>4, <2>5
<1> QED
  BY <1>4, <1>5, <1>6 DEF DatabaseInv

LEMMA DatabaseStoreEnd ==
  ASSUME DatabaseInv, SQLite!StoreEnd
  PROVE  DatabaseInv'
<1>1. /\ st # None /\ st.pc = "end" /\ tx' = None /\ st' = [st EXCEPT !.pc = "time"]
      /\ UNCHANGED <<rows, blks, files, deletion, tasks, task, wpc, now, stores>>
  BY DEF SQLite!StoreEnd, SQLite!worker, SQLite!past
<1>2. DatabaseTypes /\ StoreOK /\ ThreadOK
  BY DEF DatabaseInv
<1>3. /\ st' \in [b : Rowed, n : 1..MaxStores, i : Nat \ {0}, pc : {"blocks", "end", "time"}]
      /\ st' # None /\ st'.b = st.b /\ st'.n = st.n /\ st'.pc = "time"
  <2>1. st' \in [b : Rowed, n : 1..MaxStores, i : Nat \ {0}, pc : {"blocks", "end", "time"}]
    BY <1>1, <1>2 DEF StoreOK
  <2>2. st'.b = st.b /\ st'.n = st.n /\ st'.pc = "time"
    BY <1>1, <1>2 DEF StoreOK
  <2> QED
    BY <2>1, <2>2, NoneAssumption
<1>4. DatabaseTypes' /\ ThreadOK'
  BY <1>1, <1>2 DEF DatabaseTypes, ThreadOK
<1>5. StoreOK'
  BY <1>1, <1>3 DEF StoreOK
<1>6. ASSUME NEW c \in Rowed
      PROVE  EachOK(c)'
  <2>1. /\ SQLite!Storing(c)' <=> SQLite!Storing(c)
        /\ (Late(c)' <=> Late(c)) /\ (Expiring(c)' <=> Expiring(c))
    BY <1>1, <1>3 DEF SQLite!Storing, Late, Expiring
  <2>2. EachOK(c) /\ Written(c)' = Written(c)
    BY <1>1, <1>3 DEF DatabaseInv, Written
  <2>3. CurrentOK(c)'
    BY <1>1, <2>1, <2>2 DEF EachOK, CurrentOK, TablesOK
  <2>4. CommittedOK(c)'
    BY <1>1 DEF CommittedOK
  <2> QED
    BY <1>1, <2>1, <2>2, <2>3, <2>4, SameFiles, SameRemoval DEF EachOK
<1> QED
  BY <1>4, <1>5, <1>6 DEF DatabaseInv

LEMMA DatabaseStoreReturn ==
  ASSUME DatabaseInv, SQLite!StoreReturn
  PROVE  DatabaseInv' /\ UNCHANGED <<blks, tx, files, deletion>> /\ tx = None
         /\ \A c : InRows(c, rows') <=> InRows(c, rows)
<1>1. /\ st # None /\ st.pc = "time" /\ st' = None
      /\ UNCHANGED <<blks, tx, files, deletion, tasks, task, wpc, now, stores>>
  BY DEF SQLite!StoreReturn, SQLite!worker, SQLite!past
<1>2. DatabaseTypes /\ StoreOK /\ ThreadOK
  BY DEF DatabaseInv
<1>3. /\ st.b \in Rowed /\ st.n \in 1..MaxStores /\ tx = None
  BY <1>1, <1>2 DEF StoreOK
<1>4. /\ rows' \subseteq SQLite!Row /\ IsFiniteSet(rows')
      /\ \A c : InRows(c, rows') <=> InRows(c, rows)
  <2>1. CASE rows' = rows
    BY <1>2, <2>1 DEF DatabaseTypes
  <2>2. CASE rows' # rows
    <3>1. rows' = (rows \ SQLite!RowsOf(st.b)) \cup
                    {[r EXCEPT !.own = TRUE] : r \in SQLite!RowsOf(st.b)}
      BY <2>2 DEF SQLite!StoreReturn
    <3> QED
      BY <1>2, <1>3, <3>1, OwnerChanged
  <2> QED
    BY <2>1, <2>2
<1>5. DatabaseTypes' /\ ThreadOK' /\ StoreOK'
  BY <1>1, <1>2, <1>3, <1>4 DEF DatabaseTypes, ThreadOK, StoreOK
<1>6. ASSUME NEW c \in Rowed
      PROVE  EachOK(c)'
  <2>1. /\ (SQLite!Storing(c) <=> c = st.b) /\ ~SQLite!Storing(c)'
        /\ (Late(c)' <=> Late(c)) /\ (Expiring(c)' <=> Expiring(c))
    BY <1>1 DEF SQLite!Storing, Late, Expiring
  <2>2. EachOK(c)
    BY DEF DatabaseInv
  <2>3. CurrentOK(c)'
    <3>1. CASE c = st.b
      <4>1. Written(c) = FirstBlocks(c, st.n, Blocks[c])
        BY <1>1 DEF Written
      <4>2. InRows(c, rows) => Complete(c, blks)
        BY <1>3, <2>1, <2>2, <3>1, <4>1 DEF DatabaseInv, EachOK, CurrentOK, Complete
      <4>3. ~InRows(c, rows) => Late(c)
        BY <2>1, <2>2, <3>1 DEF DatabaseInv, EachOK, CurrentOK
      <4> QED
        BY <1>1, <1>4, <2>1, <4>2, <4>3 DEF CurrentOK, TablesOK
    <3>2. CASE c # st.b
      BY <1>1, <1>4, <2>1, <2>2, <3>2, SameCurrent DEF DatabaseInv, EachOK
    <3> QED
      BY <3>1, <3>2
  <2>4. CommittedOK(c)'
    BY <1>1, <1>3 DEF CommittedOK
  <2> QED
    BY <1>1, <1>4, <2>1, <2>2, <2>3, <2>4, SameFiles, SameRemoval DEF EachOK
<1> QED
  BY <1>1, <1>3, <1>4, <1>5, <1>6 DEF DatabaseInv

LEMMA DatabaseRemove ==
  ASSUME DatabaseInv, DatabaseUse, NEW b \in Rowed, SQLite!Remove(b)
  PROVE  DatabaseInv'
<1>1. /\ b \notin deletion /\ ~SQLite!Storing(b)
      /\ deletion' = deletion \cup {b} /\ tasks' = Append(tasks, RemoveOf(b))
      /\ UNCHANGED <<rows, blks, tx, files, task, wpc, st, now, stores>>
  BY DEF SQLite!Remove, SQLite!worker, SQLite!past, SQLite!tables, RemoveOf, DatabaseUse
<1>2. DatabaseTypes /\ StoreOK /\ ThreadOK /\ now' \in Nat /\ now' >= now
  BY <1>1, StorageAssumption DEF DatabaseInv, DatabaseTypes
<1>3. RemoveOf(b) \in SQLite!Task /\ RemoveOf(b).op # "expire"
  BY DatabaseTasks
<1>4. /\ tasks' \in Seq(SQLite!Task) /\ ThreadOK'
      /\ \A c \in Rowed : /\ RemovalOK(c) /\ RemoveOf(b) # RemoveOf(c)
                          /\ c \in deletion => c \in deletion'
                          /\ InRows(c, rows') => InRows(c, rows)
                          => RemovalOK(c)'
  BY <1>1, <1>2, <1>3, TaskQueued
<1>5. DatabaseTypes' /\ StoreOK'
  BY <1>1, <1>2, <1>4 DEF DatabaseTypes, StoreOK
<1>6. ASSUME NEW c \in Rowed
      PROVE  EachOK(c)'
  <2>1. /\ SQLite!Storing(c)' <=> SQLite!Storing(c)
        /\ (Late(c)' <=> Late(c)) /\ (Expiring(c)' <=> Expiring(c))
    BY <1>1 DEF SQLite!Storing, Late, Expiring
  <2>2. EachOK(c)
    BY DEF DatabaseInv
  <2>3. RemovalOK(c)'
    <3>1. CASE c # b
      BY <1>1, <1>4, <2>2, <3>1, DatabaseTasks DEF EachOK
    <3>2. CASE c = b
      <4>1. ~Deleting(b)' /\ \A i \in 1..Len(tasks) : tasks[i] # RemoveOf(b)
        BY <1>1, <2>2, <3>2 DEF EachOK, RemovalOK, Deleting
      <4>2. \A i \in 1..Len(tasks') : tasks'[i] = RemoveOf(b) => i = Len(tasks) + 1
        BY <1>1, <1>2, <1>3, <4>1 DEF DatabaseTypes
      <4> QED
        BY <1>1, <3>2, <4>1, <4>2 DEF RemovalOK
    <3> QED
      BY <3>1, <3>2
  <2>4. CurrentOK(c)'
    BY <1>1, <2>1, <2>2, SameCurrent DEF EachOK
  <2> QED
    BY <1>1, <2>1, <2>2, <2>3, <2>4, SameCommitted, SameFiles DEF EachOK
<1> QED
  BY <1>4, <1>5, <1>6 DEF DatabaseInv

LEMMA DatabaseReleaseCustody ==
  ASSUME DatabaseInv, NEW b \in Rowed, SQLite!ReleaseCustody(b)
  PROVE  DatabaseInv' /\ UNCHANGED <<blks, tx, files, deletion>>
         /\ \A c : InRows(c, rows') <=> InRows(c, rows)
<1>1. /\ rows' = (rows \ SQLite!RowsOf(b)) \cup {[r EXCEPT !.own = FALSE] : r \in SQLite!RowsOf(b)}
      /\ UNCHANGED <<blks, tx, files, deletion, tasks, task, wpc, st, now, stores>>
  BY DEF SQLite!ReleaseCustody, SQLite!worker, SQLite!past
<1>2. DatabaseTypes /\ StoreOK /\ ThreadOK
  BY DEF DatabaseInv
<1>3. /\ rows' \subseteq SQLite!Row /\ IsFiniteSet(rows')
      /\ \A c : InRows(c, rows') <=> InRows(c, rows)
  BY <1>1, <1>2, OwnerChanged
<1>4. DatabaseTypes' /\ StoreOK' /\ ThreadOK'
  BY <1>1, <1>2, <1>3 DEF DatabaseTypes, StoreOK, ThreadOK
<1>5. ASSUME NEW c \in Rowed
      PROVE  EachOK(c)'
  <2>1. /\ SQLite!Storing(c)' <=> SQLite!Storing(c)
        /\ (Late(c)' <=> Late(c)) /\ (Expiring(c)' <=> Expiring(c))
    BY <1>1 DEF SQLite!Storing, Late, Expiring
  <2>2. EachOK(c)
    BY DEF DatabaseInv
  <2> QED
    BY <1>1, <1>3, <2>1, <2>2, SameCurrent, SameCommitted, SameFiles, SameRemoval DEF EachOK
<1> QED
  BY <1>1, <1>3, <1>4, <1>5 DEF DatabaseInv

LEMMA DatabaseClear ==
  ASSUME DatabaseInv, SQLite!Clear
  PROVE  DatabaseInv' /\ rows' = {} /\ tx' = None
<1>1. /\ st = None /\ wpc = "idle" /\ rows' = {} /\ blks' = {} /\ files' \subseteq files
      /\ UNCHANGED <<tx, deletion, tasks, task, wpc, st, now, stores>>
  BY DEF SQLite!Clear, SQLite!worker, SQLite!past
<1>2. DatabaseTypes /\ StoreOK /\ ThreadOK
  BY DEF DatabaseInv
<1>3. tx = None /\ tx' = None
  BY <1>1, <1>2 DEF StoreOK
<1>4. DatabaseTypes' /\ StoreOK' /\ ThreadOK'
  BY <1>1, <1>2, FS_EmptySet DEF DatabaseTypes, StoreOK, ThreadOK
<1>5. ASSUME NEW c \in Rowed
      PROVE  EachOK(c)'
  <2>1. ~SQLite!Storing(c)' /\ ~InRows(c, rows') /\ BlocksOf(c, blks') = {}
    BY <1>1 DEF SQLite!Storing, InRows, BlocksOf
  <2>2. RemovalOK(c)'
    BY <1>1, <2>1, SameRemoval DEF DatabaseInv, EachOK
  <2>3. CurrentOK(c)' /\ FilesOK(c)'
    BY <2>1 DEF CurrentOK, TablesOK, FilesOK
  <2> QED
    BY <1>3, <2>2, <2>3 DEF EachOK, CommittedOK
<1> QED
  BY <1>1, <1>3, <1>4, <1>5 DEF DatabaseInv

LEMMA DatabaseTick ==
  ASSUME DatabaseInv, SQLite!Tick \/ SQLite!GoIdle \/ SQLite!GoBusy
  PROVE  DatabaseInv' /\ UNCHANGED <<rows, blks, tx, files, deletion>>
<1>1. /\ UNCHANGED <<rows, blks, tx, files, deletion, task, wpc, st, stores>>
      /\ now' \in {now, now + 1} /\ now' \in 0..MaxTime
      /\ \/ tasks' = tasks
         \/ tasks' = Append(tasks, [op |-> "expire", at |-> now'])
         \/ tasks' = Append(tasks, [op |-> "idle"])
  BY StorageAssumption DEF SQLite!Tick, SQLite!GoIdle, SQLite!GoBusy, SQLite!worker,
     SQLite!past, SQLite!tables, DatabaseInv, DatabaseTypes
<1>2. DatabaseTypes /\ StoreOK /\ ThreadOK /\ now' \in Nat /\ now \in Nat /\ now' >= now
  BY <1>1, StorageAssumption DEF DatabaseInv, DatabaseTypes
<1>3. /\ tasks' \in Seq(SQLite!Task) /\ ThreadOK'
      /\ \A c \in Rowed : RemovalOK(c) => RemovalOK(c)'
  <2>1. CASE tasks' = tasks
    <3>1. ThreadOK'
      <4>1. 0..now \subseteq 0..now'
        BY <1>2
      <4>2. \A i \in 1..Len(tasks) : tasks[i].op = "expire" => tasks[i].at <= now'
        <5>1. ASSUME NEW i \in 1..Len(tasks), tasks[i].op = "expire"
              PROVE  tasks[i].at <= now'
          <6>1. tasks[i] \in SQLite!Task
            BY <1>2 DEF DatabaseTypes
          <6>2. tasks[i].at \in Nat /\ tasks[i].at <= now
            BY <1>2, <5>1, <6>1, DatabaseTaskKinds, StorageAssumption DEF ThreadOK
          <6> QED
            BY <1>2, <6>2
        <5> QED
          BY <5>1
      <4> QED
        BY <1>1, <1>2, <2>1, <4>1, <4>2 DEF ThreadOK
    <3>2. \A c \in Rowed : RemovalOK(c) => RemovalOK(c)'
      BY <1>1, <2>1, SameRemoval
    <3> QED
      BY <1>2, <2>1, <3>1, <3>2 DEF DatabaseTypes
  <2>2. ASSUME NEW e, tasks' = Append(tasks, e), e \in SQLite!Task, e.op # "remove",
               e.op = "expire" => e.at <= now'
        PROVE  /\ tasks' \in Seq(SQLite!Task) /\ ThreadOK'
               /\ \A c \in Rowed : RemovalOK(c) => RemovalOK(c)'
    <3>1. \A c \in Rowed : e # RemoveOf(c)
      BY <2>2, DatabaseTasks
    <3> QED
      BY <1>1, <1>2, <2>2, <3>1, TaskQueued
  <2>3. CASE tasks' = Append(tasks, [op |-> "expire", at |-> now'])
    <3> DEFINE e == [op |-> "expire", at |-> now']
    <3>1. e \in SQLite!Task /\ e.op = "expire" /\ e.at = now' /\ e.at <= now'
      BY <1>1, <1>2 DEF SQLite!Task
    <3> HIDE DEF e
    <3>2. tasks' = Append(tasks, e)
      BY <2>3 DEF e
    <3> QED
      BY <2>2, <3>1, <3>2
  <2>4. CASE tasks' = Append(tasks, [op |-> "idle"])
    <3> DEFINE e == [op |-> "idle"]
    <3>1. e \in SQLite!Task /\ e.op = "idle"
      BY DEF SQLite!Task
    <3> HIDE DEF e
    <3>2. tasks' = Append(tasks, e)
      BY <2>4 DEF e
    <3> QED
      BY <2>2, <3>1, <3>2
  <2> QED
    BY <1>1, <2>1, <2>3, <2>4
<1>4. DatabaseTypes' /\ StoreOK'
  BY <1>1, <1>2, <1>3 DEF DatabaseTypes, StoreOK
<1>5. ASSUME NEW c \in Rowed
      PROVE  EachOK(c)'
  <2>1. TTL[c] \in Nat
    BY StorageAssumption, RowedAssumption
  <2>2. /\ SQLite!Storing(c)' <=> SQLite!Storing(c)
        /\ (Late(c) => Late(c)') /\ (Expiring(c)' <=> Expiring(c))
    BY <1>1, <1>2, <2>1 DEF SQLite!Storing, Late, Expiring
  <2>3. EachOK(c)
    BY DEF DatabaseInv
  <2> QED
    BY <1>1, <1>3, <2>2, <2>3, SameCurrent, SameCommitted, SameFiles DEF EachOK
<1> QED
  BY <1>1, <1>3, <1>4, <1>5 DEF DatabaseInv

LEMMA DatabaseTakeTask ==
  ASSUME DatabaseInv, SQLite!TakeTask
  PROVE  DatabaseInv' /\ UNCHANGED <<rows, blks, tx, files, deletion>>
<1> DEFINE t == Head(tasks)
<1>1. /\ wpc = "idle" /\ tasks # <<>> /\ tasks' = Tail(tasks)
      /\ \/ UNCHANGED <<task, wpc>>
         \/ task' = t /\ wpc' = IF t.op = "idle" THEN "vacuum" ELSE "files"
      /\ UNCHANGED <<rows, blks, tx, files, deletion, st, now, stores>>
  BY DEF SQLite!TakeTask, SQLite!past, SQLite!tables
<1>2. DatabaseTypes /\ StoreOK /\ ThreadOK
  BY DEF DatabaseInv
<1>3. /\ tasks' \in Seq(SQLite!Task) /\ Len(tasks') = Len(tasks) - 1 /\ Len(tasks) \in Nat
      /\ 1 \in 1..Len(tasks) /\ t = tasks[1] /\ t \in SQLite!Task
      /\ \A i \in 1..Len(tasks') : i + 1 \in 1..Len(tasks) /\ i + 1 # 1 /\ tasks'[i] = tasks[i + 1]
  BY <1>1, <1>2 DEF DatabaseTypes
<1> HIDE DEF t
<1>4. DatabaseTypes' /\ StoreOK'
  BY <1>1, <1>2, <1>3 DEF DatabaseTypes, StoreOK
<1>5. ThreadOK'
  <2>1. t.op # "idle" => (\E b \in Rowed : t = RemoveOf(b)) \/ (\E x \in 0..now : t = [op |-> "expire", at |-> x])
    <3> SUFFICES ASSUME t.op = "expire"
                 PROVE  \E x \in 0..now : t = [op |-> "expire", at |-> x]
      BY <1>3, DatabaseTaskKinds
    <3>1. t.at \in 0..MaxTime /\ t = [op |-> "expire", at |-> t.at]
      BY <1>3, DatabaseTaskKinds, DatabaseTasks
    <3>2. t.at <= now
      BY <1>2, <1>3 DEF ThreadOK
    <3>3. t.at \in 0..now
      BY <1>2, <3>1, <3>2, StorageAssumption DEF DatabaseTypes
    <3> QED
      BY <3>1, <3>3
  <2>2. \A i \in 1..Len(tasks') : tasks'[i].op = "expire" => tasks'[i].at <= now
    BY <1>2, <1>3 DEF ThreadOK
  <2>3. CASE UNCHANGED <<task, wpc>>
    BY <1>1, <2>2, <2>3 DEF ThreadOK
  <2>4. CASE task' = t /\ wpc' = IF t.op = "idle" THEN "vacuum" ELSE "files"
    BY <1>1, <2>1, <2>2, <2>4 DEF ThreadOK
  <2> QED
    BY <1>1, <2>3, <2>4
<1>6. ASSUME NEW c \in Rowed
      PROVE  EachOK(c)'
  <2>1. /\ SQLite!Storing(c)' <=> SQLite!Storing(c)
        /\ (Late(c)' <=> Late(c)) /\ ~Expiring(c) /\ ~Deleting(c)
    BY <1>1 DEF SQLite!Storing, Late, Expiring, Deleting
  <2>2. EachOK(c)
    BY DEF DatabaseInv
  <2>3. RemovalOK(c)'
    <3>1. /\ \A i \in 1..Len(tasks') : tasks'[i] = RemoveOf(c) => c \in deletion /\ t # RemoveOf(c)
          /\ \A i, j \in 1..Len(tasks') : tasks'[i] = RemoveOf(c) /\ tasks'[j] = RemoveOf(c) => i = j
      BY <1>3, <2>2 DEF EachOK, RemovalOK
    <3>2. Deleting(c)' => t = RemoveOf(c) /\ wpc' = "files"
      BY <1>1 DEF Deleting
    <3>3. t = RemoveOf(c) => c \in deletion
      BY <1>3, <2>2 DEF EachOK, RemovalOK
    <3> QED
      BY <1>1, <3>1, <3>2, <3>3 DEF RemovalOK
  <2> QED
    BY <1>1, <2>1, <2>2, <2>3, SameCurrent, SameCommitted, SameFiles DEF EachOK
<1> QED
  BY <1>1, <1>4, <1>5, <1>6 DEF DatabaseInv

\* What the thread of the storage has to do with a bundle.
LEMMA TaskOf ==
  ASSUME ThreadOK, now \in Nat, wpc = "files"
  PROVE  \/ /\ task.op = "expire" /\ task.at \in Nat /\ task.at <= now
            /\ \A c \in Rowed : ~Deleting(c) /\ (Expiring(c) <=> TTL[c] <= task.at)
         \/ /\ task.op = "remove" /\ task.b \in Rowed
            /\ \A c \in Rowed : ~Expiring(c) /\ (Deleting(c) <=> c = task.b)
<1>1. CASE \E b \in Rowed : task = RemoveOf(b)
  <2>1. PICK b \in Rowed : task = RemoveOf(b)
    BY <1>1
  <2>2. task.op = "remove" /\ task.b = b
    BY <2>1, DatabaseTasks
  <2> QED
    BY <2>1, <2>2, DatabaseTasks DEF Expiring, Deleting
<1>2. CASE \E t \in 0..now : task = [op |-> "expire", at |-> t]
  <2>1. task.op = "expire" /\ task.at \in Nat /\ task.at <= now
    BY <1>2
  <2>2. \A c \in Rowed : task # RemoveOf(c)
    BY <2>1, DatabaseTasks
  <2> QED
    BY <2>1, <2>2 DEF Expiring, Deleting
<1> QED
  BY <1>1, <1>2 DEF ThreadOK

\* Only files of a bundle that is being removed or expires are deleted.
LEMMA BlockUnlinked ==
  ASSUME DatabaseInv, SQLite!UnlinkBlock
  PROVE  /\ \E f \in files \cap blks : /\ files' = files \ {f} /\ f.b \in Rowed
                                       /\ f.b \in deletion \/ Expiring(f.b)
         /\ UNCHANGED <<rows, blks, tx, deletion, tasks, task, wpc, st, now, stores>>
<1>1. PICK f \in files \cap blks : SQLite!Chosen(f) /\ files' = files \ {f}
  BY DEF SQLite!UnlinkBlock
<1>2. /\ wpc = "files"
      /\ UNCHANGED <<rows, blks, tx, deletion, tasks, task, wpc, st, now, stores>>
  BY DEF SQLite!UnlinkBlock, SQLite!tables, SQLite!worker, SQLite!past
<1>3. ThreadOK /\ now \in Nat /\ f.b \in Rowed
  BY StorageAssumption DEF DatabaseInv, DatabaseTypes, SQLite!File
<1>4. CASE task.op = "expire" /\ \A c \in Rowed : Expiring(c) <=> TTL[c] <= task.at
  <2>1. PICK r \in SQLite!Selected : r.b = f.b
    BY <1>1, <1>4 DEF SQLite!Chosen
  <2>2. r \in rows /\ TTL[f.b] <= task.at
    BY <1>4, <2>1 DEF SQLite!Selected
  <2> QED
    BY <1>1, <1>2, <1>3, <1>4, <2>2
<1>5. CASE task.op = "remove" /\ \A c \in Rowed : Deleting(c) <=> c = task.b
  <2>1. f.b = task.b
    BY <1>1, <1>5 DEF SQLite!Chosen
  <2>2. f.b \in deletion
    BY <1>3, <1>5, <2>1 DEF DatabaseInv, EachOK, RemovalOK
  <2> QED
    BY <1>1, <1>2, <1>3, <2>2
<1> QED
  BY <1>2, <1>3, <1>4, <1>5, TaskOf

LEMMA DatabaseUnlink ==
  ASSUME DatabaseInv, SQLite!UnlinkBlock
  PROVE  DatabaseInv'
<1>1. PICK f \in files \cap blks : /\ files' = files \ {f} /\ f.b \in Rowed
                                   /\ f.b \in deletion \/ Expiring(f.b)
  BY BlockUnlinked
<1>2. UNCHANGED <<rows, blks, tx, deletion, tasks, task, wpc, st, now, stores>>
  BY BlockUnlinked
<1>3. DatabaseTypes' /\ StoreOK' /\ ThreadOK'
  BY <1>1, <1>2 DEF DatabaseInv, DatabaseTypes, StoreOK, ThreadOK
<1>4. ASSUME NEW c \in Rowed
      PROVE  EachOK(c)'
  <2>1. /\ SQLite!Storing(c)' <=> SQLite!Storing(c)
        /\ (Late(c)' <=> Late(c)) /\ (Expiring(c)' <=> Expiring(c))
    BY <1>2 DEF SQLite!Storing, Late, Expiring
  <2>2. EachOK(c)
    BY DEF DatabaseInv
  <2>3. FilesOK(c)'
    <3>1. c \notin deletion /\ ~Expiring(c) => f.b # c
      BY <1>1
    <3> QED
      BY <1>1, <1>2, <2>1, <2>2, <3>1 DEF EachOK, FilesOK, BlocksOf
  <2> QED
    BY <1>2, <2>1, <2>2, <2>3, SameCurrent, SameCommitted, SameRemoval DEF EachOK
<1> QED
  BY <1>3, <1>4 DEF DatabaseInv

\* The rows and blocks that are deleted, and those that are left.
LEMMA RowsDeleted ==
  ASSUME DatabaseInv, SQLite!DeleteRows
  PROVE  /\ wpc = "files" /\ wpc' = "min"
         /\ UNCHANGED <<tx, files, deletion, tasks, task, st, now, stores>>
         /\ rows' \subseteq rows /\ blks' \subseteq blks
         /\ \A c \in Rowed :
              \/ /\ InRows(c, rows) /\ ~InRows(c, rows') /\ BlocksOf(c, blks') = {}
                 /\ BlocksOf(c, blks) \cap files = {}
                 /\ c \in deletion \/ Late(c)
              \/ /\ (InRows(c, rows') <=> InRows(c, rows)) /\ BlocksOf(c, blks') = BlocksOf(c, blks)
                 /\ Deleting(c) \/ Expiring(c) => ~InRows(c, rows)
<1>1. /\ wpc = "files" /\ wpc' = "min"
      /\ UNCHANGED <<tx, files, deletion, tasks, task, st, now, stores>>
      /\ rows' = rows \ SQLite!Selected /\ blks' = {f \in blks : \A r \in SQLite!Selected : r.b # f.b}
      /\ \A f \in files \cap blks : ~SQLite!Chosen(f)
  BY DEF SQLite!DeleteRows, SQLite!past
<1>2. ThreadOK /\ now \in Nat
  BY StorageAssumption DEF DatabaseInv, DatabaseTypes
<1>3. ASSUME NEW c \in Rowed
      PROVE  \/ /\ InRows(c, rows) /\ ~InRows(c, rows') /\ BlocksOf(c, blks') = {}
                /\ BlocksOf(c, blks) \cap files = {}
                /\ c \in deletion \/ Late(c)
             \/ /\ (InRows(c, rows') <=> InRows(c, rows)) /\ BlocksOf(c, blks') = BlocksOf(c, blks)
                /\ Deleting(c) \/ Expiring(c) => ~InRows(c, rows)
  <2>1. /\ \A r \in rows : r.b = c => (r \in SQLite!Selected <=> Deleting(c) \/ Expiring(c))
        /\ Deleting(c) \/ Expiring(c) => c \in deletion \/ Late(c)
        /\ \A f \in blks : f.b = c /\ (Deleting(c) \/ Expiring(c)) /\ InRows(c, rows) => SQLite!Chosen(f)
    <3>1. TTL[c] \in Nat
      BY StorageAssumption, RowedAssumption
    <3>2. CASE /\ task.op = "expire" /\ task.at \in Nat /\ task.at <= now
               /\ \A d \in Rowed : ~Deleting(d) /\ (Expiring(d) <=> TTL[d] <= task.at)
      <4>1. \A r \in rows : r.b = c => (r \in SQLite!Selected <=> Expiring(c))
        BY <3>2 DEF SQLite!Selected
      <4>2. Expiring(c) => Late(c)
        BY <1>2, <3>1, <3>2 DEF Late
      <4>3. \A f \in blks : f.b = c /\ Expiring(c) /\ InRows(c, rows) => SQLite!Chosen(f)
        BY <3>2, <4>1 DEF SQLite!Chosen, InRows
      <4> QED
        BY <3>2, <4>1, <4>2, <4>3
    <3>3. CASE /\ task.op = "remove"
               /\ \A d \in Rowed : ~Expiring(d) /\ (Deleting(d) <=> d = task.b)
      <4>1. \A r \in rows : r.b = c => (r \in SQLite!Selected <=> Deleting(c))
        BY <3>3 DEF SQLite!Selected
      <4>2. Deleting(c) => c \in deletion
        BY DEF DatabaseInv, EachOK, RemovalOK
      <4>3. \A f \in blks : f.b = c /\ Deleting(c) => SQLite!Chosen(f)
        BY <3>3 DEF SQLite!Chosen
      <4> QED
        BY <3>3, <4>1, <4>2, <4>3
    <3> QED
      BY <1>1, <1>2, <3>2, <3>3, TaskOf
  <2>2. CASE InRows(c, rows) /\ (Deleting(c) \/ Expiring(c))
    <3>1. ~InRows(c, rows')
      BY <1>1, <2>1, <2>2 DEF InRows
    <3>2. BlocksOf(c, blks') = {}
      BY <1>1, <2>1, <2>2 DEF InRows, BlocksOf
    <3>3. BlocksOf(c, blks) \cap files = {}
      BY <1>1, <2>1, <2>2 DEF BlocksOf
    <3> QED
      BY <2>1, <2>2, <3>1, <3>2, <3>3
  <2>3. CASE ~(InRows(c, rows) /\ (Deleting(c) \/ Expiring(c)))
    <3>1. \A r \in rows : r.b = c => r \notin SQLite!Selected
      BY <2>1, <2>3 DEF InRows
    <3>2. InRows(c, rows') <=> InRows(c, rows)
      BY <1>1, <3>1 DEF InRows
    <3>3. SQLite!Selected \subseteq rows
      BY DEF SQLite!Selected
    <3>4. BlocksOf(c, blks') = BlocksOf(c, blks)
      BY <1>1, <3>1, <3>3 DEF BlocksOf
    <3> QED
      BY <2>3, <3>2, <3>4
  <2> QED
    BY <2>2, <2>3
<1> QED
  BY <1>1, <1>3

LEMMA DatabaseDeleteRows ==
  ASSUME DatabaseInv, SQLite!DeleteRows
  PROVE  DatabaseInv'
<1>1. /\ wpc = "files" /\ wpc' = "min" /\ rows' \subseteq rows /\ blks' \subseteq blks
      /\ UNCHANGED <<tx, files, deletion, tasks, task, st, now, stores>>
  BY RowsDeleted
<1>2. DatabaseTypes /\ StoreOK /\ ThreadOK
  BY DEF DatabaseInv
<1>3. DatabaseTypes' /\ StoreOK' /\ ThreadOK'
  <2>1. IsFiniteSet(rows')
    BY <1>1, <1>2, FS_Subset DEF DatabaseTypes
  <2> QED
    BY <1>1, <1>2, <2>1 DEF DatabaseTypes, StoreOK, ThreadOK
<1>4. ASSUME NEW c \in Rowed
      PROVE  EachOK(c)'
  <2>1. /\ SQLite!Storing(c)' <=> SQLite!Storing(c)
        /\ (Late(c)' <=> Late(c)) /\ ~Expiring(c)' /\ (Deleting(c)' <=> Deleting(c))
    BY <1>1 DEF SQLite!Storing, Late, Expiring, Deleting
  <2>2. EachOK(c)
    BY DEF DatabaseInv
  <2>3. CASE /\ InRows(c, rows) /\ ~InRows(c, rows') /\ BlocksOf(c, blks') = {}
             /\ c \in deletion \/ Late(c)
    <3>1. CurrentOK(c)'
      BY <1>1, <2>1, <2>2, <2>3 DEF EachOK, CurrentOK, TablesOK
    <3>2. CommittedOK(c)' /\ FilesOK(c)'
      BY <1>1, <2>1, <2>2, <2>3, SameCommitted DEF EachOK, FilesOK
    <3>3. RemovalOK(c)'
      BY <1>1, <2>1, <2>2, <2>3 DEF EachOK, RemovalOK
    <3> QED
      BY <3>1, <3>2, <3>3 DEF EachOK
  <2>4. CASE /\ (InRows(c, rows') <=> InRows(c, rows)) /\ BlocksOf(c, blks') = BlocksOf(c, blks)
             /\ Deleting(c) \/ Expiring(c) => ~InRows(c, rows)
    <3>1. CurrentOK(c)' /\ CommittedOK(c)'
      BY <1>1, <2>1, <2>2, <2>4, SameCurrent, SameCommitted DEF EachOK
    <3>2. FilesOK(c)'
      BY <1>1, <2>2, <2>4 DEF EachOK, FilesOK
    <3>3. RemovalOK(c)'
      BY <1>1, <2>1, <2>2, <2>4 DEF EachOK, RemovalOK
    <3> QED
      BY <3>1, <3>2, <3>3 DEF EachOK
  <2> QED
    BY <2>3, <2>4, RowsDeleted
<1> QED
  BY <1>3, <1>4 DEF DatabaseInv

LEMMA DatabaseGoesOn ==
  ASSUME DatabaseInv, SQLite!ReadExpireTime \/ SQLite!SetExpireTime \/ SQLite!EndIdle
  PROVE  DatabaseInv' /\ UNCHANGED <<rows, blks, tx, files, deletion>>
<1>1. UNCHANGED <<rows, blks, tx, files, deletion, tasks, st, now, stores>>
  BY DEF SQLite!ReadExpireTime, SQLite!SetExpireTime, SQLite!EndIdle, SQLite!tables, SQLite!past
<1>2. DatabaseTypes /\ StoreOK /\ ThreadOK
  BY DEF DatabaseInv
<1>3. /\ wpc # "files" /\ wpc' \in {"set", "forget", "idle"}
      /\ wpc' = "set" => wpc = "min" /\ task' = task
      /\ wpc' = "forget" => wpc = "set" /\ task' = task /\ task.op = "remove"
  BY DEF SQLite!ReadExpireTime, SQLite!SetExpireTime, SQLite!EndIdle
<1>4. DatabaseTypes' /\ StoreOK'
  BY <1>1, <1>2 DEF DatabaseTypes, StoreOK
<1>5. ThreadOK'
  <2>1. wpc' = "forget" => \E b \in Rowed : task' = RemoveOf(b)
    BY <1>2, <1>3 DEF ThreadOK
  <2> QED
    BY <1>1, <1>2, <1>3, <2>1 DEF ThreadOK
<1>6. ASSUME NEW c \in Rowed
      PROVE  EachOK(c)'
  <2>1. /\ SQLite!Storing(c)' <=> SQLite!Storing(c)
        /\ (Late(c)' <=> Late(c)) /\ ~Expiring(c) /\ (Deleting(c)' => Deleting(c))
    BY <1>1, <1>3 DEF SQLite!Storing, Late, Expiring, Deleting
  <2>2. EachOK(c)
    BY DEF DatabaseInv
  <2>3. RemovalOK(c)'
    BY <1>1, <1>3, <2>1, <2>2 DEF EachOK, RemovalOK
  <2> QED
    BY <1>1, <2>1, <2>2, <2>3, SameCurrent, SameCommitted, SameFiles DEF EachOK
<1> QED
  BY <1>1, <1>4, <1>5, <1>6 DEF DatabaseInv

LEMMA DatabaseForget ==
  ASSUME DatabaseInv, SQLite!ForgetDeletion
  PROVE  /\ DatabaseInv' /\ UNCHANGED <<rows, blks, tx, files>>
         /\ \E b \in Rowed : ~InRows(b, rows) /\ deletion' = deletion \ {b}
<1>1. /\ wpc = "forget" /\ wpc' = "idle" /\ deletion' = deletion \ {task.b}
      /\ UNCHANGED <<rows, blks, tx, files, tasks, st, now, stores>>
  BY DEF SQLite!ForgetDeletion, SQLite!tables, SQLite!past
<1>2. DatabaseTypes /\ StoreOK /\ ThreadOK
  BY DEF DatabaseInv
<1>3. PICK b \in Rowed : task = RemoveOf(b)
  BY <1>1, <1>2 DEF ThreadOK
<1>4. deletion' = deletion \ {b}
  BY <1>1, <1>3, DatabaseTasks
<1>5. b \in deletion /\ ~InRows(b, rows) /\ \A i \in 1..Len(tasks) : tasks[i] # RemoveOf(b)
  BY <1>1, <1>3 DEF DatabaseInv, EachOK, RemovalOK, Deleting
<1>6. DatabaseTypes' /\ StoreOK' /\ ThreadOK'
  BY <1>1, <1>2, <1>4 DEF DatabaseTypes, StoreOK, ThreadOK
<1>7. ASSUME NEW c \in Rowed
      PROVE  EachOK(c)'
  <2>1. /\ SQLite!Storing(c)' <=> SQLite!Storing(c)
        /\ (Late(c)' <=> Late(c)) /\ ~Expiring(c) /\ ~Deleting(c)'
    BY <1>1 DEF SQLite!Storing, Late, Expiring, Deleting
  <2>2. EachOK(c)
    BY DEF DatabaseInv
  <2>3. RemovalOK(c)'
    BY <1>1, <1>4, <1>5, <2>1, <2>2 DEF EachOK, RemovalOK
  <2>4. FilesOK(c)'
    BY <1>1, <1>4, <1>5, <2>1, <2>2 DEF EachOK, FilesOK
  <2> QED
    BY <1>1, <1>4, <2>1, <2>2, <2>3, <2>4, SameCurrent, SameCommitted DEF EachOK
<1> QED
  BY <1>1, <1>4, <1>5, <1>6, <1>7 DEF DatabaseInv

\* The tasks of a set, each of them once.
LEMMA TasksListed ==
  ASSUME NEW S, IsFiniteSet(S), NEW s, s = SQLite!Seqs!SetToSeq(S)
  PROVE  s \in Seq(S) /\ \A i, j \in 1..Len(s) : s[i] = s[j] => i = j
<1>1. Cardinality(S) \in Nat
  BY FS_CardinalityType
<1>2. PICK f : f \in Bijection(1..Cardinality(S), S)
  BY FS_CountingElements, FS_CardinalityType DEF ExistsBijection
<1>3. f \in [1..Cardinality(S) -> S] /\ SQLite!Seqs!IsInjective(f)
  BY <1>2 DEF Bijection, Injection, IsInjective, SQLite!Seqs!IsInjective
<1>4. s \in [1..Cardinality(S) -> S] /\ SQLite!Seqs!IsInjective(s)
  <2>1. SQLite!Seqs!Cardinality(S) = Cardinality(S)
    BY DEF SQLite!Seqs!Cardinality, Cardinality
  <2>2. f \in [1..SQLite!Seqs!Cardinality(S) -> S]
    BY <1>3, <2>1
  <2>3. /\ SQLite!Seqs!SetToSeq(S) \in [1..SQLite!Seqs!Cardinality(S) -> S]
        /\ SQLite!Seqs!IsInjective(SQLite!Seqs!SetToSeq(S))
    BY <1>3, <2>2, Zenon DEF SQLite!Seqs!SetToSeq
  <2> QED
    BY <2>1, <2>3
<1> QED
  BY <1>1, <1>4 DEF SQLite!Seqs!IsInjective

\* What a restart finds in the database.
LEMMA CommittedTables ==
  ASSUME DatabaseInv
  PROVE  /\ SQLite!Committed.rows \subseteq SQLite!Row /\ IsFiniteSet(SQLite!Committed.rows)
         /\ SQLite!Committed.blks \subseteq SQLite!File
         /\ \A c \in Rowed : TablesOK(c, SQLite!Committed.rows, SQLite!Committed.blks)
         /\ tx = None => SQLite!Committed.rows = rows /\ SQLite!Committed.blks = blks
         /\ \A c \in Rowed : ~SQLite!Storing(c) /\ InRows(c, rows) =>
              /\ InRows(c, SQLite!Committed.rows)
              /\ BlocksOf(c, SQLite!Committed.blks) = BlocksOf(c, blks)
         /\ \A c \in Rowed : tx # None /\ SQLite!Storing(c) => ~InRows(c, SQLite!Committed.rows)
<1>1. DatabaseTypes /\ StoreOK
  BY DEF DatabaseInv
<1>2. CASE tx = None
  <2>1. SQLite!Committed.rows = rows /\ SQLite!Committed.blks = blks
    BY <1>2 DEF SQLite!Committed
  <2>2. ASSUME NEW c \in Rowed
        PROVE  TablesOK(c, rows, blks)
    <3>1. CurrentOK(c)
      BY DEF DatabaseInv, EachOK
    <3>2. CASE SQLite!Storing(c)
      <4>1. st # None /\ st.b = c /\ st.n \in 1..MaxStores /\ st.pc # "blocks"
        BY <1>1, <1>2, <3>2 DEF SQLite!Storing, StoreOK
      <4>2. Written(c) = FirstBlocks(c, st.n, Blocks[c])
        BY <4>1 DEF Written
      <4> QED
        BY <3>1, <3>2, <4>1, <4>2 DEF CurrentOK, TablesOK, Complete
    <3> QED
      BY <3>1, <3>2 DEF CurrentOK
  <2> QED
    BY <1>1, <1>2, <2>1, <2>2 DEF DatabaseTypes
<1>3. CASE tx # None
  <2>1. SQLite!Committed = tx
    BY <1>3 DEF SQLite!Committed
  <2>2. /\ tx.rows \subseteq SQLite!Row /\ IsFiniteSet(tx.rows) /\ tx.blks \subseteq SQLite!File
    BY <1>1, <1>3 DEF DatabaseTypes
  <2>3. \A c \in Rowed : CommittedOK(c)
    BY DEF DatabaseInv, EachOK
  <2> QED
    BY <1>3, <2>1, <2>2, <2>3 DEF CommittedOK, TablesOK
<1> QED
  BY <1>2, <1>3

LEMMA DatabaseRestart ==
  ASSUME DatabaseInv, SQLite!Restart
  PROVE  /\ DatabaseInv' /\ crashes' = crashes + 1
         /\ rows' = SQLite!Committed.rows /\ blks' = SQLite!Committed.blks /\ tx' = None
         /\ files' = files \cap blks'
         /\ \A c \in Rowed : c \in deletion' <=>
              InRows(c, rows') /\ ~(BlocksOf(c, blks') \subseteq files)
<1> DEFINE R == SQLite!Committed.rows
           B == SQLite!Committed.blks
           corrupt == {r.b : r \in {x \in R : \E f \in B : f.b = x.b /\ f \notin files}}
           S == {[op |-> "remove", b |-> b] : b \in corrupt}
<1>1. /\ rows' = R /\ blks' = B /\ tx' = None /\ files' = files \cap B /\ crashes' = crashes + 1
      /\ deletion' = corrupt /\ tasks' = SQLite!Seqs!SetToSeq(S)
      /\ wpc' = "idle" /\ st' = None /\ UNCHANGED <<now, stores>>
  BY DEF SQLite!Restart
<1>2. DatabaseTypes /\ now \in Nat
  BY StorageAssumption DEF DatabaseInv, DatabaseTypes
<1>3. /\ R \subseteq SQLite!Row /\ IsFiniteSet(R) /\ B \subseteq SQLite!File
      /\ \A c \in Rowed : TablesOK(c, R, B)
  BY CommittedTables
<1>4. corrupt \subseteq Rowed /\ IsFiniteSet(corrupt)
  <2> DEFINE X == {x \in R : \E f \in B : f.b = x.b /\ f \notin files}
             g == [r \in X |-> r.b]
  <2>1. g \in Surjection(X, corrupt)
    BY DEF Surjection
  <2>2. IsFiniteSet(X)
    BY <1>3, FS_Subset
  <2>3. IsFiniteSet(corrupt)
    BY <2>1, <2>2, FS_Surjection
  <2> QED
    BY <1>3, <2>3 DEF SQLite!Row
<1>5. \A c : c \in corrupt <=> InRows(c, R) /\ ~(BlocksOf(c, B) \subseteq files)
  BY DEF InRows, BlocksOf
<1> HIDE DEF R, B, corrupt
<1>6. IsFiniteSet(S) /\ S \subseteq SQLite!Task
  <2> DEFINE g == [b \in corrupt |-> [op |-> "remove", b |-> b]]
  <2>1. g \in Surjection(corrupt, S)
    BY DEF Surjection
  <2> QED
    BY <1>4, <2>1, FS_Surjection DEF SQLite!Task
<1>7. /\ tasks' \in Seq(S) /\ \A i, j \in 1..Len(tasks') : tasks'[i] = tasks'[j] => i = j
  <2> HIDE DEF S
  <2> QED
    BY <1>1, <1>6, TasksListed
<1>8. tasks' \in Seq(SQLite!Task)
  BY <1>6, <1>7
<1>9. ASSUME NEW i \in 1..Len(tasks')
      PROVE  \E b \in corrupt : tasks'[i] = RemoveOf(b)
  <2>1. tasks'[i] \in S
    <3> HIDE DEF S
    <3> QED
      BY <1>7
  <2> QED
    BY <2>1 DEF RemoveOf
<1>10. DatabaseTypes'
  <2>1. files' \subseteq SQLite!File
    BY <1>1, <1>3
  <2> QED
    BY <1>1, <1>2, <1>3, <1>4, <1>8, <2>1 DEF DatabaseTypes
<1>11. StoreOK'
  BY <1>1 DEF StoreOK
<1>12. ThreadOK'
  <2>1. \A i \in 1..Len(tasks') : tasks'[i].op # "expire"
    BY <1>4, <1>9, DatabaseTasks
  <2> QED
    BY <1>1, <2>1 DEF ThreadOK
<1>13. ASSUME NEW c \in Rowed
       PROVE  EachOK(c)'
  <2>1. /\ ~SQLite!Storing(c)' /\ (Late(c)' <=> Late(c)) /\ ~Deleting(c)'
    BY <1>1 DEF SQLite!Storing, Late, Deleting
  <2>2. CurrentOK(c)' /\ CommittedOK(c)'
    BY <1>1, <1>3, <2>1 DEF CurrentOK, CommittedOK, TablesOK
  <2>3. FilesOK(c)'
    <3>1. InRows(c, R) /\ c \notin corrupt => BlocksOf(c, B) \subseteq files \cap B
      BY <1>5 DEF BlocksOf
    <3> QED
      BY <1>1, <3>1 DEF FilesOK
  <2>4. RemovalOK(c)'
    <3>1. \A i \in 1..Len(tasks') : tasks'[i] = RemoveOf(c) => c \in corrupt
      BY <1>4, <1>9, DatabaseTasks
    <3> QED
      BY <1>1, <1>7, <2>1, <3>1 DEF RemovalOK
  <2> QED
    BY <2>2, <2>3, <2>4 DEF EachOK
<1> QED
  BY <1>1, <1>5, <1>10, <1>11, <1>12, <1>13 DEF DatabaseInv, R, B

LEMMA DatabaseInit ==
  ASSUME SQLite!Init
  PROVE  DatabaseInv
<1>1. /\ rows = {} /\ blks = {} /\ tx = None /\ files = {} /\ deletion = {}
      /\ tasks = <<>> /\ wpc = "idle" /\ st = None /\ now = 0 /\ stores = 0
  BY DEF SQLite!Init
<1>2. DatabaseTypes /\ StoreOK /\ ThreadOK
  BY <1>1, StorageAssumption, FS_EmptySet DEF DatabaseTypes, StoreOK, ThreadOK
<1>3. ASSUME NEW c \in Rowed
      PROVE  EachOK(c)
  <2>1. ~InRows(c, rows) /\ BlocksOf(c, blks) = {} /\ ~SQLite!Storing(c) /\ ~Deleting(c)
    BY <1>1 DEF InRows, BlocksOf, SQLite!Storing, Deleting
  <2> QED
    BY <1>1, <2>1 DEF EachOK, CurrentOK, CommittedOK, FilesOK, RemovalOK, TablesOK
<1> QED
  BY <1>2, <1>3 DEF DatabaseInv

LEMMA DatabaseStep ==
  ASSUME DatabaseInv, DatabaseUse, SQLite!Next \/ UNCHANGED SQLite!vars
  PROVE  DatabaseInv'
<1>1. CASE SQLite!Next
  <2>1. ASSUME NEW b \in Rowed,
               SQLite!Store(b) \/ SQLite!StoreFails(b) \/ SQLite!Remove(b) \/ SQLite!ReleaseCustody(b)
        PROVE  DatabaseInv'
    BY <2>1, DatabaseStore, DatabaseStoreFails, DatabaseRemove, DatabaseReleaseCustody
  <2>2. CASE SQLite!StoreStep
    BY <2>2, DatabaseStoreBlock, DatabaseStoreEnd, DatabaseStoreReturn DEF SQLite!StoreStep
  <2>3. CASE SQLite!WorkerStep
    BY <2>3, DatabaseTakeTask, DatabaseUnlink, DatabaseDeleteRows, DatabaseGoesOn, DatabaseForget
       DEF SQLite!WorkerStep
  <2>4. CASE SQLite!Clear \/ SQLite!Tick \/ SQLite!GoIdle \/ SQLite!GoBusy \/ SQLite!Restart
    BY <2>4, DatabaseClear, DatabaseTick, DatabaseRestart
  <2> QED
    BY <1>1, <2>1, <2>2, <2>3, <2>4 DEF SQLite!Next
<1>2. CASE UNCHANGED SQLite!vars
  <2>1. UNCHANGED <<rows, blks, tx, files, deletion, tasks, task, wpc, st, now, stores>>
    BY <1>2 DEF SQLite!vars, SQLite!tables, SQLite!worker, SQLite!past
  <2>2. DatabaseTypes' /\ StoreOK' /\ ThreadOK'
    BY <2>1 DEF DatabaseInv, DatabaseTypes, StoreOK, ThreadOK
  <2>3. ASSUME NEW c \in Rowed
        PROVE  EachOK(c)'
    <3>1. /\ SQLite!Storing(c)' <=> SQLite!Storing(c)
          /\ (Late(c)' <=> Late(c)) /\ (Expiring(c)' <=> Expiring(c))
      BY <2>1 DEF SQLite!Storing, Late, Expiring
    <3>2. EachOK(c)
      BY DEF DatabaseInv
    <3> QED
      BY <2>1, <3>1, <3>2, SameCurrent, SameCommitted, SameFiles, SameRemoval DEF EachOK
  <2> QED
    BY <2>2, <2>3 DEF DatabaseInv
<1> QED
  BY <1>1, <1>2

DatabaseHolds == kind = "sqlite" /\ crashes \in Nat /\ DatabaseInv

LEMMA DatabaseCrashes ==
  ASSUME SQLite!Next \/ UNCHANGED SQLite!vars
  PROVE  crashes' = crashes \/ (SQLite!Restart /\ crashes' = crashes + 1)
BY DEF SQLite!vars, SQLite!past, SQLite!Next, SQLite!Store, SQLite!StoreFails, SQLite!Remove,
       SQLite!ReleaseCustody, SQLite!StoreStep, SQLite!StoreBlock, SQLite!StoreEnd,
       SQLite!StoreReturn, SQLite!WorkerStep, SQLite!TakeTask, SQLite!UnlinkBlock,
       SQLite!DeleteRows, SQLite!ReadExpireTime, SQLite!SetExpireTime, SQLite!ForgetDeletion,
       SQLite!EndIdle, SQLite!Clear, SQLite!Tick, SQLite!GoIdle, SQLite!GoBusy, SQLite!Restart

LEMMA DatabaseInductive ==
  DatabaseUse => (kind = "sqlite" /\ FairSpec => []DatabaseHolds)
<1>1. Init /\ kind = "sqlite" => DatabaseHolds
  <2>1. Init => SQLite!Init
    BY DEF Init
  <2>2. SQLite!Init => crashes = 0
    BY DEF SQLite!Init
  <2> QED
    BY <2>1, <2>2, DatabaseInit DEF DatabaseHolds
<1>2. CASE ~DatabaseUse
  BY <1>2, PTL
<1>3. CASE DatabaseUse
  <2>1. DatabaseHolds /\ [Next]_vars => DatabaseHolds'
    <3> SUFFICES ASSUME DatabaseHolds, [Next]_vars
                 PROVE  kind' = "sqlite" /\ (SQLite!Next \/ UNCHANGED SQLite!vars)
      BY <1>3, DatabaseStep, DatabaseCrashes DEF DatabaseHolds
    <3> QED
      BY DEF DatabaseHolds, Next, SimpleNext, MemoryNext, SQLiteNext, vars
  <2> QED
    BY <1>1, <2>1, PTL DEF FairSpec
<1> QED
  BY <1>2, <1>3

\* All blocks of a bundle.
AllBlocks(b, B) ==
  {f.i : f \in BlocksOf(b, B)} = 1..Blocks[b] /\ Cardinality(BlocksOf(b, B)) = Blocks[b]

LEMMA CompleteHasAll ==
  ASSUME NEW b \in Rowed, NEW B, Complete(b, B)
  PROVE  AllBlocks(b, B)
<1>1. PICK n \in 1..MaxStores : BlocksOf(b, B) = FirstBlocks(b, n, Blocks[b])
  BY DEF Complete
<1> DEFINE k == Blocks[b]
           f == [i \in 1..k |-> [b |-> b, n |-> n, i |-> i]]
           Q == FirstBlocks(b, n, k)
<1>2. k \in Nat
  BY StorageAssumption, RowedAssumption
<1> HIDE DEF k
<1>3. f \in [1..k -> Q] /\ \A i, j \in 1..k : f[i] = f[j] => i = j
  BY DEF FirstBlocks
<1>4. \A q \in Q : \E i \in 1..k : f[i] = q
  BY DEF FirstBlocks
<1>5. IsFiniteSet(1..k) /\ Cardinality(1..k) = k
  BY <1>2, FS_Interval
<1>6. Cardinality(Q) = k
  <2> HIDE DEF f, Q
  <2> QED
    BY <1>3, <1>4, <1>5, MatchingSets
<1>7. {x.i : x \in Q} = 1..k
  <2>1. \A q \in Q : q.i \in 1..k
    BY DEF FirstBlocks
  <2>2. \A i \in 1..k : f[i] \in Q /\ f[i].i = i
    BY DEF FirstBlocks
  <2> HIDE DEF f, Q
  <2> QED
    BY <2>1, <2>2
<1> QED
  BY <1>1, <1>6, <1>7 DEF AllBlocks, k

LEMMA FewAreNotAll ==
  ASSUME NEW b \in Rowed, NEW B, NEW n, NEW k \in Nat, k < Blocks[b],
         BlocksOf(b, B) \subseteq FirstBlocks(b, n, k)
  PROVE  ~AllBlocks(b, B)
<1>1. Blocks[b] \in Nat
  BY StorageAssumption, RowedAssumption
<1>2. \A f \in BlocksOf(b, B) : f.i \in 1..k
  BY DEF FirstBlocks
<1>3. Blocks[b] \in 1..Blocks[b] /\ Blocks[b] \notin {f.i : f \in BlocksOf(b, B)}
  BY <1>1, <1>2
<1> QED
  BY <1>3 DEF AllBlocks

Left(b) == SQLite!Whole(b, SQLite!Committed.rows, SQLite!Committed.blks)

\* What get() returns, and what it would return after a restart.
Got(b) ==
  /\ b \notin deletion /\ InRows(b, rows) /\ BlocksOf(b, blks) \subseteq files
  /\ ~(SQLite!Storing(b) /\ st.pc = "blocks")

Kept(b) == InRows(b, SQLite!Committed.rows) /\ BlocksOf(b, SQLite!Committed.blks) \subseteq files

Visible ==
  DatabaseInv => \A b \in Rowed : (SQLite!Readable(b) <=> Got(b)) /\ (Left(b) <=> Kept(b))

LEMMA VisibleHolds == Visible
<1> SUFFICES ASSUME DatabaseInv, NEW b \in Rowed
             PROVE  (SQLite!Readable(b) <=> Got(b)) /\ (Left(b) <=> Kept(b))
  BY DEF Visible
<1>1. ASSUME NEW R, NEW B
      PROVE  SQLite!Whole(b, R, B) <=> InRows(b, R) /\ AllBlocks(b, B) /\ BlocksOf(b, B) \subseteq files
  BY DEF SQLite!Whole, InRows, AllBlocks, BlocksOf, SQLite!Cardinality, Cardinality
<1>2. CurrentOK(b) /\ StoreOK
  BY DEF DatabaseInv, EachOK
<1>3. ASSUME InRows(b, rows)
      PROVE  AllBlocks(b, blks) <=> ~(SQLite!Storing(b) /\ st.pc = "blocks")
  <2>1. CASE SQLite!Storing(b)
    <3>1. st # None /\ st.b = b /\ st.n \in 1..MaxStores /\ BlocksOf(b, blks) = Written(b)
      BY <1>2, <1>3, <2>1 DEF CurrentOK, StoreOK, SQLite!Storing
    <3>2. CASE st.pc = "blocks"
      <4>1. st.i - 1 \in Nat /\ st.i - 1 < Blocks[b]
        BY <1>2, <3>1, <3>2, StorageAssumption, RowedAssumption DEF StoreOK
      <4>2. BlocksOf(b, blks) = FirstBlocks(b, st.n, st.i - 1)
        BY <3>1, <3>2 DEF Written
      <4> QED
        BY <2>1, <3>2, <4>1, <4>2, FewAreNotAll
    <3>3. CASE st.pc # "blocks"
      <4>1. BlocksOf(b, blks) = FirstBlocks(b, st.n, Blocks[b])
        BY <3>1, <3>3 DEF Written
      <4>2. Complete(b, blks)
        BY <3>1, <4>1 DEF Complete
      <4> QED
        BY <3>3, <4>2, CompleteHasAll
    <3> QED
      BY <3>2, <3>3
  <2>2. CASE ~SQLite!Storing(b)
    BY <1>2, <1>3, <2>2, CompleteHasAll DEF CurrentOK, TablesOK
  <2> QED
    BY <2>1, <2>2
<1>4. SQLite!Readable(b) <=> Got(b)
  BY <1>1, <1>3 DEF SQLite!Readable, Got
<1>5. Left(b) <=> Kept(b)
  <2>1. InRows(b, SQLite!Committed.rows) => AllBlocks(b, SQLite!Committed.blks)
    BY CommittedTables, CompleteHasAll DEF TablesOK
  <2> QED
    BY <1>1, <2>1 DEF Left, Kept
<1> QED
  BY <1>4, <1>5

LEMMA VisibleNext == Visible'
  BY VisibleHolds, PTL

\* What the users of the database see of each step.
Adds(b) == SQLite!Storing(b) /\ Content' = Content \cup {b} /\ Doomed' = Doomed \ {b}
Empties == Content' = {} /\ Doomed' = {}
Revives ==
  /\ crashes' # crashes /\ Content' \subseteq Content \cup Doomed /\ Doomed' = {}
  /\ \A b \in Content : SQLite!Storing(b) \/ b \in Content'

LEMMA DatabaseView ==
  ASSUME kind = "sqlite", kind' = "sqlite", DatabaseInv, DatabaseInv'
  PROVE  /\ Content = {b \in Rowed : Got(b)} /\ Content' = {b \in Rowed : Got(b)'}
         /\ Doomed = {b \in Rowed : Kept(b) /\ ~Got(b)}
         /\ Doomed' = {b \in Rowed : Kept(b)' /\ ~Got(b)'}
<1>1. \A b \in Rowed : (SQLite!Readable(b) <=> Got(b)) /\ (Left(b) <=> Kept(b))
  BY VisibleHolds DEF Visible
<1>2. \A b \in Rowed : (SQLite!Readable(b)' <=> Got(b)') /\ (Left(b)' <=> Kept(b)')
  BY VisibleNext DEF Visible
<1>3. /\ Content = {b \in Rowed : SQLite!Readable(b)} /\ Content' = {b \in Rowed : SQLite!Readable(b)'}
      /\ Doomed = {b \in Rowed \ {c \in Rowed : SQLite!Readable(c)} : Left(b)}
      /\ Doomed' = {b \in Rowed \ {c \in Rowed : SQLite!Readable(c)'} : Left(b)'}
  BY DEF Content, Doomed, SQLite!Content, SQLite!Doomed, Left
<1> QED
  BY <1>1, <1>2, <1>3

\* A step that hides nothing and leaves nothing new behind is not seen, and one
\* that hides one bundle is its removal.
LEMMA Unseen ==
  ASSUME kind = "sqlite", kind' = "sqlite", DatabaseInv, DatabaseInv',
         \A b \in Rowed : (Got(b)' <=> Got(b)) /\ (Kept(b)' => Kept(b) \/ Got(b))
  PROVE  Purges
  BY DatabaseView DEF Purges

LEMMA Unlisted ==
  ASSUME kind = "sqlite", kind' = "sqlite", DatabaseInv, DatabaseInv', NEW b \in Rowed,
         ~Got(b)', Kept(b)' => Kept(b),
         \A c \in Rowed : c # b => (Got(c)' <=> Got(c)) /\ (Kept(c)' <=> Kept(c))
  PROVE  Purges \/ Loses(b)
<1>1. CASE Got(b)
  <2>1. Content' = Content \ {b}
    BY <1>1, DatabaseView
  <2>2. Doomed' = Doomed \/ Doomed' = Doomed \cup {b}
    BY <1>1, DatabaseView
  <2> QED
    BY <2>1, <2>2 DEF Loses
<1>2. CASE ~Got(b)
  BY <1>2, DatabaseView DEF Purges
<1> QED
  BY <1>1, <1>2

\* Where the tables, the files and the deletion list do not change.
LEMMA UnseenStep ==
  ASSUME UNCHANGED <<blks, tx, files, deletion>>,
         rows' = rows \/ (tx = None /\ \A b : InRows(b, rows') <=> InRows(b, rows)),
         \A b \in Rowed : (SQLite!Storing(b) /\ st.pc = "blocks")'
                            <=> SQLite!Storing(b) /\ st.pc = "blocks"
  PROVE  \A b \in Rowed : (Got(b)' <=> Got(b)) /\ (Kept(b)' <=> Kept(b))
  BY DEF Got, Kept, SQLite!Committed

LEMMA DatabaseEffects ==
  ASSUME kind = "sqlite", kind' = "sqlite", DatabaseInv, DatabaseInv', DatabaseUse, SQLite!Next,
         crashes \in Nat
  PROVE  /\ (\E b \in Rowed : Adds(b) \/ Loses(b)) \/ Purges \/ Empties \/ Revives
         /\ crashes' # crashes => Revives
<1>1. ASSUME NEW b \in Rowed, SQLite!Store(b)
      PROVE  Purges
  <2>1. ASSUME NEW c \in Rowed
        PROVE  (Got(c)' <=> Got(c)) /\ (Kept(c)' => Kept(c))
    <3>1. SQLite!Committed.rows = rows /\ SQLite!Committed.blks = blks
      BY <1>1, DatabaseStore DEF SQLite!Committed
    <3>2. SQLite!Committed.rows' = rows /\ SQLite!Committed.blks' = blks
      BY <1>1, DatabaseStore DEF SQLite!Committed
    <3>3. CASE c = b
      BY <1>1, <3>1, <3>2, <3>3, DatabaseStore DEF Got, Kept
    <3>4. CASE c # b
      BY <1>1, <3>1, <3>2, <3>4, DatabaseStore DEF Got, Kept
    <3> QED
      BY <3>3, <3>4
  <2> QED
    BY <2>1, Unseen
<1>2. ASSUME NEW b \in Rowed, SQLite!StoreFails(b)
      PROVE  Purges
  <2>1. UNCHANGED <<rows, blks, tx, files, deletion, st>>
    BY <1>2, DatabaseStoreFails DEF SQLite!StoreFails
  <2> QED
    BY <2>1, Unseen, UnseenStep DEF SQLite!Storing
<1>3. ASSUME NEW b \in Rowed, SQLite!ReleaseCustody(b)
      PROVE  Purges
  <2>1. UNCHANGED <<blks, tx, files, deletion, st>> /\ \A c : InRows(c, rows') <=> InRows(c, rows)
    BY <1>3, DatabaseReleaseCustody DEF SQLite!ReleaseCustody
  <2>2. \A c \in Rowed : Got(c)' <=> Got(c)
    BY <2>1 DEF Got, SQLite!Storing
  <2>3. \A c \in Rowed : Kept(c)' <=> Kept(c)
    BY <2>1 DEF Kept, SQLite!Committed
  <2> QED
    BY <2>2, <2>3, Unseen
<1>4. ASSUME NEW b \in Rowed, SQLite!Remove(b)
      PROVE  Purges \/ Loses(b)
  <2>1. UNCHANGED <<rows, blks, tx, files, st>> /\ deletion' = deletion \cup {b}
    BY <1>4 DEF SQLite!Remove, SQLite!tables
  <2>2. \A c \in Rowed : Kept(c)' <=> Kept(c)
    BY <2>1 DEF Kept, SQLite!Committed
  <2>3. ~Got(b)' /\ \A c \in Rowed : c # b => (Got(c)' <=> Got(c))
    BY <2>1 DEF Got, SQLite!Storing
  <2> QED
    BY <2>2, <2>3, Unlisted
<1>5. ASSUME SQLite!StoreBlock
      PROVE  Purges \/ \E b \in Rowed : Adds(b)
  <2>b. PICK b \in Rowed : b = st.b
    BY <1>5, BlockWritten
  <2>f. PICK f : f = [b |-> st.b, n |-> st.n, i |-> st.i]
    OBVIOUS
  <2>1. /\ st # None /\ b = st.b /\ f.b = b /\ st.pc = "blocks" /\ tx # None /\ st'.b = b
        /\ files' = files \cup {f} /\ blks' = blks \cup {f}
    BY <1>5, <2>b, <2>f, BlockWritten
  <2>2. UNCHANGED <<rows, tx, deletion>>
    BY <1>5 DEF SQLite!StoreBlock
  <2>3. st' # None
    BY <1>5, BlockWritten, NoneAssumption
  <2>4. ASSUME NEW c \in Rowed, c # b
        PROVE  (Got(c)' <=> Got(c)) /\ (Kept(c)' <=> Kept(c))
    <3>1. ASSUME NEW B
          PROVE  /\ f \notin BlocksOf(c, B)
                 /\ BlocksOf(c, B) \subseteq files' <=> BlocksOf(c, B) \subseteq files
      BY <2>1, <2>4 DEF BlocksOf
    <3>2. BlocksOf(c, blks') = BlocksOf(c, blks)
      BY <2>1, <2>4 DEF BlocksOf
    <3>3. ~SQLite!Storing(c) /\ ~SQLite!Storing(c)'
      BY <2>1, <2>4 DEF SQLite!Storing
    <3>4. Got(c)' <=> Got(c)
      BY <2>2, <3>1, <3>2, <3>3 DEF Got
    <3>5. SQLite!Committed = tx /\ SQLite!Committed' = tx
      BY <2>1, <2>2 DEF SQLite!Committed
    <3> QED
      BY <3>1, <3>4, <3>5 DEF Kept
  <2>5. SQLite!Storing(b) /\ ~Got(b) /\ ~Kept(b) /\ ~Kept(b)'
    <3>1. SQLite!Storing(b) /\ ~InRows(b, SQLite!Committed.rows)
      BY <2>1, CommittedTables DEF SQLite!Storing
    <3>2. SQLite!Committed = tx /\ SQLite!Committed' = tx
      BY <2>1, <2>2 DEF SQLite!Committed
    <3> QED
      BY <2>1, <3>1, <3>2 DEF Got, Kept
  <2>6. CASE Got(b)'
    <3>1. Content' = Content \cup {b} /\ Doomed' = Doomed \ {b}
      BY <2>1, <2>4, <2>5, <2>6, DatabaseView
    <3> QED
      BY <2>1, <2>5, <3>1 DEF Adds
  <2>7. CASE ~Got(b)'
    BY <2>4, <2>5, <2>7, Unseen
  <2> QED
    BY <2>6, <2>7
<1>6. ASSUME SQLite!StoreEnd
      PROVE  Purges
  <2>1. /\ st # None /\ st.pc = "end" /\ tx' = None /\ st' = [st EXCEPT !.pc = "time"]
        /\ UNCHANGED <<rows, blks, files, deletion>>
    BY <1>6 DEF SQLite!StoreEnd
  <2>2. st'.pc = "time" /\ SQLite!Committed.rows' = rows /\ SQLite!Committed.blks' = blks
    BY <2>1 DEF DatabaseInv, StoreOK, SQLite!Committed
  <2>3. ASSUME NEW c \in Rowed
        PROVE  (Got(c)' <=> Got(c)) /\ (Kept(c)' => Kept(c) \/ Got(c))
    <3>1. Got(c)' <=> Got(c)
      BY <2>1, <2>2 DEF Got
    <3>2. CASE SQLite!Storing(c)
      <4>1. c \notin deletion
        BY <3>2 DEF DatabaseInv, EachOK, CurrentOK
      <4> QED
        BY <2>1, <2>2, <3>1, <4>1 DEF Got, Kept
    <3>3. CASE ~SQLite!Storing(c)
      BY <2>1, <2>2, <3>1, <3>3, CommittedTables DEF Kept
    <3> QED
      BY <3>2, <3>3
  <2> QED
    BY <2>3, Unseen
<1>7. ASSUME SQLite!StoreReturn
      PROVE  Purges
  <2>1. st.pc = "time" /\ st' = None
    BY <1>7 DEF SQLite!StoreReturn
  <2>2. \A c \in Rowed : (Got(c)' <=> Got(c)) /\ (Kept(c)' <=> Kept(c))
    <3>1. /\ UNCHANGED <<blks, tx, files, deletion>> /\ tx = None
          /\ \A c : InRows(c, rows') <=> InRows(c, rows)
      BY <1>7, DatabaseStoreReturn
    <3>2. \A c \in Rowed : Got(c)' <=> Got(c)
      BY <2>1, <3>1 DEF Got, SQLite!Storing
    <3>3. \A c \in Rowed : Kept(c)' <=> Kept(c)
      BY <3>1 DEF Kept, SQLite!Committed
    <3> QED
      BY <3>2, <3>3
  <2> QED
    BY <2>2, Unseen
<1>8. ASSUME SQLite!UnlinkBlock
      PROVE  Purges \/ \E b \in Rowed : Loses(b)
  <2>1. UNCHANGED <<rows, blks, tx, deletion, st>>
    BY <1>8, BlockUnlinked
  <2>2. PICK f \in files \cap blks : files' = files \ {f} /\ f.b \in Rowed
    BY <1>8, BlockUnlinked
  <2>3. ASSUME NEW c \in Rowed, NEW B
        PROVE  /\ BlocksOf(c, B) \subseteq files' => BlocksOf(c, B) \subseteq files
               /\ c # f.b => (BlocksOf(c, B) \subseteq files' <=> BlocksOf(c, B) \subseteq files)
    BY <2>2 DEF BlocksOf
  <2>4. ~(BlocksOf(f.b, blks') \subseteq files')
    BY <2>1, <2>2 DEF BlocksOf
  <2>5. ~Got(f.b)' /\ \A c \in Rowed : c # f.b => (Got(c)' <=> Got(c))
    BY <2>1, <2>3, <2>4 DEF Got, SQLite!Storing
  <2>6. SQLite!Committed' = SQLite!Committed
    BY <2>1 DEF SQLite!Committed
  <2>7. ASSUME NEW c \in Rowed
        PROVE  (Kept(c)' => Kept(c)) /\ (c # f.b => (Kept(c)' <=> Kept(c)))
    BY <2>3, <2>6 DEF Kept
  <2> QED
    BY <2>2, <2>5, <2>7, Unlisted
<1>9. ASSUME SQLite!DeleteRows
      PROVE  Purges
  <2>1. UNCHANGED <<tx, files, deletion, st>>
    BY <1>9, RowsDeleted
  <2>2. ASSUME NEW c \in Rowed
        PROVE  (Got(c)' <=> Got(c)) /\ (Kept(c)' => Kept(c))
    <3>1. CASE /\ InRows(c, rows) /\ ~InRows(c, rows')
               /\ BlocksOf(c, blks) \cap files = {}
      <4>1. ~Got(c)
        <5>1. SUFFICES ASSUME Got(c) PROVE FALSE
          OBVIOUS
        <5>2. AllBlocks(c, blks) /\ Blocks[c] \in Nat \ {0}
          <6>1. SQLite!Readable(c)
            BY <5>1, VisibleHolds DEF Visible
          <6>2. AllBlocks(c, blks)
            BY <6>1 DEF SQLite!Readable, SQLite!Whole, AllBlocks, BlocksOf, SQLite!Cardinality,
                        Cardinality
          <6> QED
            BY <6>2, StorageAssumption, RowedAssumption
        <5>3. BlocksOf(c, blks) # {}
          BY <5>2 DEF AllBlocks
        <5> QED
          BY <3>1, <5>1, <5>3 DEF Got
      <4>2. ~Got(c)'
        BY <3>1 DEF Got
      <4>3. Kept(c)' => Kept(c)
        BY <2>1, <3>1 DEF Kept, SQLite!Committed
      <4> QED
        BY <4>1, <4>2, <4>3
    <3>2. CASE (InRows(c, rows') <=> InRows(c, rows)) /\ BlocksOf(c, blks') = BlocksOf(c, blks)
      <4>1. Got(c)' <=> Got(c)
        BY <2>1, <3>2 DEF Got, SQLite!Storing
      <4>2. Kept(c)' <=> Kept(c)
        BY <2>1, <3>2 DEF Kept, SQLite!Committed
      <4> QED
        BY <4>1, <4>2
    <3> QED
      BY <1>9, <3>1, <3>2, RowsDeleted
  <2> QED
    BY <2>2, Unseen
<1>10. ASSUME SQLite!TakeTask \/ SQLite!ReadExpireTime \/ SQLite!SetExpireTime \/ SQLite!EndIdle
              \/ SQLite!Tick \/ SQLite!GoIdle \/ SQLite!GoBusy
       PROVE  Purges
  <2>1. UNCHANGED st
    BY <1>10 DEF SQLite!TakeTask, SQLite!ReadExpireTime, SQLite!SetExpireTime, SQLite!EndIdle,
                 SQLite!Tick, SQLite!GoIdle, SQLite!GoBusy
  <2>2. UNCHANGED <<rows, blks, tx, files, deletion>>
    BY <1>10, DatabaseTakeTask, DatabaseGoesOn, DatabaseTick
  <2> QED
    BY <2>1, <2>2, Unseen, UnseenStep DEF SQLite!Storing
<1>11. ASSUME SQLite!ForgetDeletion
       PROVE  Purges
  <2>1. UNCHANGED <<rows, blks, tx, files, st>>
    BY <1>11, DatabaseForget DEF SQLite!ForgetDeletion
  <2>2. PICK b \in Rowed : ~InRows(b, rows) /\ deletion' = deletion \ {b}
    BY <1>11, DatabaseForget
  <2>3. \A c \in Rowed : Got(c)' <=> Got(c)
    BY <2>1, <2>2 DEF Got, SQLite!Storing
  <2>4. \A c \in Rowed : Kept(c)' <=> Kept(c)
    BY <2>1 DEF Kept, SQLite!Committed
  <2> QED
    BY <2>3, <2>4, Unseen
<1>12. ASSUME SQLite!Clear
       PROVE  Empties
  <2>1. rows' = {} /\ tx' = None
    BY <1>12, DatabaseClear
  <2>2. \A c \in Rowed : ~Got(c)' /\ ~Kept(c)'
    BY <2>1 DEF Got, Kept, SQLite!Committed, InRows
  <2> QED
    BY <2>2, DatabaseView DEF Empties
<1>13. ASSUME SQLite!Restart
       PROVE  Revives
  <2>1. /\ crashes' # crashes /\ st' = None /\ tx' = None
        /\ rows' = SQLite!Committed.rows /\ blks' = SQLite!Committed.blks
        /\ files' = files \cap blks'
    BY <1>13, DatabaseRestart DEF SQLite!Restart
  <2>2. ASSUME NEW c \in Rowed
        PROVE  /\ Got(c)' <=> Kept(c)
               /\ Kept(c)' => Got(c)'
    <3>1. c \in deletion' <=> InRows(c, rows') /\ ~(BlocksOf(c, blks') \subseteq files)
      BY <1>13, DatabaseRestart
    <3>2. BlocksOf(c, blks') \subseteq files' <=> BlocksOf(c, blks') \subseteq files
      BY <2>1 DEF BlocksOf
    <3>3. ~SQLite!Storing(c)'
      BY <2>1 DEF SQLite!Storing
    <3>4. Got(c)' <=> Kept(c)
      BY <2>1, <3>1, <3>2, <3>3 DEF Got, Kept
    <3>5. Kept(c)' => InRows(c, rows') /\ BlocksOf(c, blks') \subseteq files'
      BY <2>1 DEF Kept, SQLite!Committed
    <3> QED
      BY <3>1, <3>2, <3>3, <3>4, <3>5 DEF Got
  <2>3. \A c \in Rowed : Got(c) /\ ~SQLite!Storing(c) => Kept(c)
    BY CommittedTables DEF Got, Kept
  <2> QED
    BY <2>1, <2>2, <2>3, DatabaseView DEF Revives
<1>14. crashes' # crashes => Revives
  BY <1>13, DatabaseCrashes
<1> QED
  BY <1>14, <1>1, <1>2, <1>3, <1>4, <1>5, <1>6, <1>7, <1>8, <1>9, <1>10, <1>11, <1>12, <1>13
     DEF SQLite!Next, SQLite!StoreStep, SQLite!WorkerStep

LEMMA DatabaseSees ==
  ASSUME DatabaseHolds, DatabaseUse, [Next]_vars
  PROVE  /\ (\E b \in Rowed : Adds(b) \/ Loses(b)) \/ Purges \/ Empties \/ Revives
         /\ crashes' # crashes => Revives
<1>1. kind = "sqlite" /\ kind' = "sqlite" /\ crashes \in Nat /\ DatabaseInv
  BY DEF DatabaseHolds, Next, SimpleNext, MemoryNext, SQLiteNext, vars
<1>2. SQLite!Next \/ UNCHANGED SQLite!vars
  BY <1>1 DEF Next, SimpleNext, MemoryNext, SQLiteNext, vars
<1>3. DatabaseInv'
  BY <1>1, <1>2, DatabaseStep
<1>4. CASE SQLite!Next
  BY <1>1, <1>3, <1>4, DatabaseEffects
<1>5. CASE UNCHANGED SQLite!vars
  <2>1. UNCHANGED <<rows, blks, tx, files, deletion, st, crashes>>
    BY <1>5 DEF SQLite!vars, SQLite!tables, SQLite!past
  <2> QED
    BY <1>1, <1>3, <2>1, Unseen, UnseenStep DEF SQLite!Storing
<1> QED
  BY <1>2, <1>4, <1>5

LEMMA DatabaseAccounted ==
  DatabaseUse => (kind = "sqlite" /\ FairSpec => ContentIsAccounted)
<1>1. CASE DatabaseUse
  <2>1. DatabaseHolds /\ [Next]_vars =>
          [\A b \in Content' \ Content :
             stores' # stores \/ crashes' # crashes \/ (kind = "sqlite" /\ SQLite!Storing(b))]_vars
    <3> SUFFICES ASSUME DatabaseHolds, [Next]_vars, NEW b \in Content' \ Content
                 PROVE  crashes' # crashes \/ SQLite!Storing(b)
      BY DEF DatabaseHolds
    <3> QED
      BY <1>1, DatabaseSees DEF Adds, Loses, Purges, Empties, Revives
  <2>2. DatabaseHolds /\ [Next]_vars =>
          [kind = "sqlite" /\ crashes' # crashes =>
             \A b \in Rowed : SQLite!Readable(b) /\ ~SQLite!InWork(b) => SQLite!Readable(b)']_vars
    <3> SUFFICES ASSUME DatabaseHolds, [Next]_vars, crashes' # crashes,
                        NEW b \in Rowed, SQLite!Readable(b), ~SQLite!InWork(b)
                 PROVE  SQLite!Readable(b)'
      OBVIOUS
    <3>1. Revives /\ ~SQLite!Storing(b)
      BY <1>1, DatabaseSees DEF SQLite!InWork
    <3>2. kind = "sqlite" /\ kind' = "sqlite"
      BY DEF DatabaseHolds, Next, SimpleNext, MemoryNext, SQLiteNext, vars
    <3>3. /\ Content = {c \in Rowed : SQLite!Readable(c)}
          /\ Content' = {c \in Rowed : SQLite!Readable(c)'}
      BY <3>2 DEF Content, SQLite!Content
    <3> QED
      BY <3>1, <3>3 DEF Revives
  <2>3. DatabaseUse
    BY <1>1
  <2> QED
    BY <2>1, <2>2, <2>3, DatabaseInductive, PTL
       DEF FairSpec, ContentIsAccounted, StoredSurvives, RemovedStaysAway
<1>2. CASE ~DatabaseUse
  BY <1>2, PTL
<1> QED
  BY <1>1, <1>2

-----------------------------------------------------------------------------
(* Which storage is configured does not change.                            *)

Database == kind = "sqlite"

LEMMA DatabaseStays == Database /\ FairSpec => []Database
<1>1. Database /\ [Next]_vars => Database'
  BY DEF Database, Next, SimpleNext, MemoryNext, SQLiteNext, vars
<1> QED
  BY <1>1, PTL DEF FairSpec

NoDatabase == kind # "sqlite" /\ stores \in Nat

LEMMA NoDatabaseStays == kind # "sqlite" /\ FairSpec => []NoDatabase
<1>1. Init /\ kind # "sqlite" => NoDatabase
  BY DEF Init, Simple!Init, NoDatabase
<1>2. NoDatabase /\ [Next]_vars => NoDatabase'
  <2> SUFFICES ASSUME NoDatabase, [Next]_vars
               PROVE  kind' = kind /\ stores' \in {stores, stores + 1}
    BY DEF NoDatabase
  <2>1. CASE UNCHANGED vars
    BY <2>1 DEF vars, Memory!vars
  <2>2. CASE SimpleNext
    BY <2>2 DEF SimpleNext, Simple!Next, Simple!Store, Simple!QueueStore, Simple!Remove,
         Simple!Expire, Simple!GetBroken, Simple!DropAndQueue, Simple!Clear,
         Simple!WorkerStep, Simple!TakeTask, Simple!OpenFails, Simple!WriteFile,
         Simple!EventStored, Simple!EventStoreFailed, Simple!Unlink, Simple!EventRemoved,
         Simple!Restart, Simple!pastVars
  <2>3. CASE MemoryNext
    BY <2>3 DEF MemoryNext, Memory!Next, Memory!Store, Memory!Remove, Memory!RemoveFiltered,
         Memory!Expire, Memory!Clear
  <2> QED
    BY <2>1, <2>2, <2>3 DEF Next, SQLiteNext, NoDatabase
<1> QED
  BY <1>1, <1>2, PTL DEF FairSpec

-----------------------------------------------------------------------------
(* The theorems.                                                           *)

\* What the simple storage counts is what it has in memory and on disk, for any
\* bundles, limit, buffer and number of crashes, whenever the DataStorage thread
\* is idle and clear() has not been called; what the storage in memory counts is
\* what it holds, and its list and index agree with it.  A bundle is not stored
\* twice, and the sizes of all bundles fit in size_t.  SimpleBundleStorage,
\* MemoryBundleStorage: store(), remove(), clear(), the expiry and the
\* callbacks of DataStorage.
THEOREM SizesAreExact ==
  ~Again /\ SizesFit => (FairSpec => []SizeIsExact)
<1>1. CASE ~Again /\ SizesFit
  <2>1. SimpleHolds => SizeIsExact
    <3> SUFFICES ASSUME SimpleHolds, wpc = "idle", ~cleared
                 PROVE  cursize = Simple!SizeOf(Simple!Occupied)
      BY DEF SimpleHolds, SizeIsExact, Simple!SizeIsExact
    <3>1. ASSUME NEW b \in Bundles
          PROVE  bsize[b] # 0 <=> pending[b] # "none" \/ disk[b] = "full"
      <4>1. Held(b) <=> pending[b] # "none" \/ disk[b] = "full"
        BY DEF Held, Erased
      <4>2. bsize[b] = (IF Held(b) THEN Size[b] ELSE 0) /\ Size[b] # 0
        BY StorageAssumption DEF SimpleHolds, SimpleInv, BundleOK, EntryOK
      <4> QED
        BY <4>1, <4>2
    <3>2. Simple!Occupied = Counted
      BY <3>1 DEF Simple!Occupied, Counted
    <3> QED
      BY <1>1, <3>2, SimpleSum DEF SimpleHolds, SimpleInv, SizeOK
  <2>2. MemoryInv => SizeIsExact
    <3>1. Memory!SizeOf(bundles) = Total(bundles)
      BY DEF Memory!SizeOf, Memory!MapThenSumSet, Memory!MapThenFoldSet,
             Total, MapThenSumSet, MapThenFoldSet
    <3> QED
      BY <1>1, <3>1 DEF MemoryInv, SizeIsExact, Memory!SizeIsExact
  <2>3. Database => SizeIsExact
    BY DEF Database, SizeIsExact
  <2>4. ~Again
    BY <1>1
  <2>5. Init => kind = "simple" \/ kind = "memory" \/ Database
    BY DEF Init, Database
  <2> QED
    BY <2>1, <2>2, <2>3, <2>4, <2>5, SimpleInductive, MemoryInductive, DatabaseStays, PTL
       DEF FairSpec
<1>2. CASE ~(~Again /\ SizesFit)
  BY <1>2, PTL
<1> QED
  BY <1>1, <1>2

\* A bundle a query lists can be got.  In the simple storage it comes from the
\* pending bundles or from its file, at each step of the DataStorage thread and
\* after each restart, unless writing it failed; in the database it has all its
\* blocks and their files, at each step of store(), of the thread of the storage
\* and of a restart, unless store() or TaskExpire works on it.  A bundle is not
\* stored twice, and the database is used as DatabaseUse says.
\* SimpleBundleStorage::__get(), eventDataStorageStored(), iterateAll();
\* SQLiteBundleStorage::get(), store(), check_bundles(), TaskRemove, TaskExpire.
THEOREM ListedAreReadable ==
  ~Again => ((kind = "sqlite" => DatabaseUse) /\ FairSpec => []ListedIsReadable)
<1>1. SimpleHolds => ListedIsReadable
  BY DEF SimpleHolds, SimpleInv, SimpleTypes, BundleOK, ListOK, ListedIsReadable,
         Simple!ListedIsReadable, Simple!Readable
<1>2. MemoryInv => ListedIsReadable
  BY DEF MemoryInv, ListedIsReadable
<1>3. DatabaseHolds => ListedIsReadable
  <2> SUFFICES ASSUME DatabaseInv, NEW b \in SQLite!Listed, ~SQLite!InWork(b)
               PROVE  SQLite!Readable(b)
    BY DEF DatabaseHolds, ListedIsReadable, SQLite!ListedIsReadable
  <2>1. b \in Rowed /\ b \notin deletion /\ InRows(b, rows)
    BY DEF SQLite!Listed, SQLite!RowsOf, InRows
  <2>2. ~SQLite!Storing(b) /\ ~Expiring(b)
    BY DEF SQLite!InWork, Expiring
  <2>3. BlocksOf(b, blks) \subseteq files
    BY <2>1, <2>2 DEF DatabaseInv, EachOK, FilesOK
  <2> QED
    BY <2>1, <2>2, <2>3, VisibleHolds DEF Visible, Got
<1>4. Init => kind = "simple" \/ kind = "memory" \/ kind = "sqlite"
  BY DEF Init
<1> QED
  BY <1>1, <1>2, <1>3, <1>4, SimpleInductive, MemoryInductive, DatabaseInductive, PTL
     DEF FairSpec

\* Only store() and a restart add a bundle to a storage, whatever its thread
\* still does for bundles that were removed: none comes back by itself; and a
\* restart loses no bundle whose store() in the database has returned.  The use
\* of the storages is that of ListedAreReadable.
THEOREM NothingComesBack ==
  ~Again => ((kind = "sqlite" => DatabaseUse) /\ FairSpec => ContentIsAccounted)
<1>1. CASE ~Again
  <2>1. SimpleHolds /\ NoDatabase /\ [Next]_vars =>
          [\A b \in Content' \ Content :
             stores' # stores \/ crashes' # crashes \/ (kind = "sqlite" /\ SQLite!Storing(b))]_vars
    <3> SUFFICES ASSUME SimpleHolds, NoDatabase, [Next]_vars
                 PROVE  Content' \subseteq Content \/ stores' # stores \/ crashes' # crashes
      OBVIOUS
    <3>1. stores \in Nat /\ crashes \in Nat
      BY DEF NoDatabase, SimpleHolds, SimpleInv, SimpleTypes
    <3>2. \/ \E b \in Bundles : Stores(b) \/ Loses(b)
          \/ Purges \/ Clears \/ Restarts
      BY <1>1, SimpleEffects DEF SimpleHolds
    <3> QED
      BY <3>1, <3>2 DEF Stores, Loses, Purges, Clears, Restarts
  <2>2. MemoryInv /\ NoDatabase /\ [Next]_vars =>
          [\A b \in Content' \ Content :
             stores' # stores \/ crashes' # crashes \/ (kind = "sqlite" /\ SQLite!Storing(b))]_vars
    <3> SUFFICES ASSUME MemoryInv, NoDatabase, [Next]_vars
                 PROVE  Content' \subseteq Content \/ stores' # stores
      OBVIOUS
    <3>1. Content = bundles /\ Content' = bundles'
      BY DEF Content, MemoryInv, Next, SimpleNext, MemoryNext, SQLiteNext, vars
    <3>2. bundles' \subseteq bundles \/ stores' = stores + 1
      BY DEF MemoryInv, Next, SimpleNext, MemoryNext, SQLiteNext, vars, Memory!vars,
             Memory!Next, Memory!Store, Memory!Remove, Memory!RemoveFiltered, Memory!Expire,
             Memory!Clear
    <3> QED
      BY <3>1, <3>2 DEF NoDatabase
  <2>3. NoDatabase =>
          [kind = "sqlite" /\ crashes' # crashes =>
             \A b \in Rowed : SQLite!Readable(b) /\ ~SQLite!InWork(b) => SQLite!Readable(b)']_vars
    BY DEF NoDatabase
  <2>4. Init => kind = "simple" \/ kind = "memory" \/ ~(kind # "sqlite")
    BY DEF Init
  <2>5. ~Again
    BY <1>1
  <2>6. kind # "sqlite" /\ FairSpec => ContentIsAccounted
    BY <2>1, <2>2, <2>3, <2>4, <2>5, SimpleInductive, MemoryInductive, NoDatabaseStays, PTL
       DEF FairSpec, ContentIsAccounted, StoredSurvives, RemovedStaysAway
  <2>7. kind = "sqlite" \/ kind # "sqlite"
    OBVIOUS
  <2> QED
    BY <2>6, <2>7, DatabaseAccounted, PTL
<1>2. CASE Again
  BY <1>2, PTL
<1> QED
  BY <1>1, <1>2

\* The storage in memory is a set of bundles within its limit: every call of it
\* is one step of BundleStorage, whether bundles are stored twice or not.
\* core/BundleStorage.h, MemoryBundleStorage.cpp.
THEOREM MemoryIsASet == kind = "memory" /\ FairSpec => ImplementsBundleStorage
<1>1. Init /\ kind = "memory" => Abstract!Init
  BY DEF Init, Memory!Init, Abstract!Init, Content, Doomed
<1>2. MemoryInv /\ [Next]_vars =>
        [cleared \/ IF kind = "sqlite" THEN Unlimited!Next ELSE Abstract!Next]_<<Content, Doomed>>
  <2> SUFFICES ASSUME MemoryInv, [Next]_vars
               PROVE  \/ kind # "sqlite" /\ Abstract!Next
                      \/ UNCHANGED <<Content, Doomed>>
    OBVIOUS
  <2>1. CASE UNCHANGED vars
    <3>1. UNCHANGED <<kind, bundles>>
      BY <2>1 DEF vars, Memory!vars
    <3> QED
      BY <3>1 DEF MemoryInv, Content, Doomed
  <2>2. CASE Next
    <3>1. kind' = kind /\ kind = "memory" /\ Memory!Next
      BY <2>2 DEF Next, SimpleNext, MemoryNext, SQLiteNext, MemoryInv
    <3>2. Content = bundles /\ Content' = bundles' /\ Doomed = {} /\ Doomed' = {}
      BY <3>1 DEF Content, Doomed
    <3>3. ASSUME NEW b \in Bundles, Memory!Store(b)
          PROVE  Abstract!Store(b)
      <4>1. bundles' = bundles \cup {b} /\ ~(MaxSize > 0 /\ cursize + Size[b] > MaxSize)
        BY <3>3 DEF Memory!Store, Memory!Fits
      <4>2. /\ Total(bundles) \in Nat /\ cursize \in Nat /\ cursize >= Total(bundles)
            /\ Size[b] \in Nat /\ MaxSize \in Nat
        BY TotalType, StorageAssumption DEF MemoryInv
      <4>3. b \notin bundles => Total(bundles \cup {b}) = Total(bundles) + Size[b]
        BY TotalAdds DEF MemoryInv
      <4>4. Total(bundles \cup {b}) <= cursize + Size[b]
        <5>1. CASE b \in bundles
          <6>1. bundles \cup {b} = bundles
            BY <5>1
          <6>2. Total(bundles \cup {b}) = Total(bundles)
            BY <6>1, Zenon
          <6> QED
            BY <4>2, <6>2
        <5>2. CASE b \notin bundles
          BY <4>2, <4>3, <5>2
        <5> QED
          BY <5>1, <5>2
      <4>5. MaxSize > 0 => Total(bundles \cup {b}) <= MaxSize
        <5>1. Total(bundles \cup {b}) \in Nat
          BY FS_AddElement, TotalType DEF MemoryInv
        <5> QED
          BY <4>1, <4>2, <4>4, <5>1
      <4>6. Abstract!SumOf(bundles \cup {b}) = Total(bundles \cup {b})
        BY DEF Abstract!SumOf, Abstract!MapThenSumSet, Abstract!MapThenFoldSet,
               Total, MapThenSumSet, MapThenFoldSet
      <4> QED
        BY <3>2, <4>1, <4>5, <4>6 DEF Abstract!Store, Abstract!WithinLimit
    <3>4. ASSUME NEW b \in Bundles,
                 Memory!Remove(b) \/ Memory!RemoveFiltered(b) \/ Memory!Expire(b)
          PROVE  Abstract!Remove(b)
      BY <3>2, <3>4 DEF Memory!Remove, Memory!RemoveFiltered, Memory!Expire, Abstract!Remove
    <3>5. ASSUME Memory!Clear
          PROVE  Abstract!Clear
      BY <3>2, <3>5 DEF Memory!Clear, Abstract!Clear
    <3>6. Abstract!Next
      BY <3>1, <3>3, <3>4, <3>5 DEF Memory!Next, Abstract!Next
    <3> QED
      BY <3>1, <3>6
  <2> QED
    BY <2>1, <2>2
<1> QED
  BY <1>1, <1>2, MemoryInductive, PTL DEF FairSpec, ImplementsBundleStorage

\* The storage in files is a set of bundles within its limit: every call, every
\* step of the DataStorage thread, every failed write and every restart is one
\* step of BundleStorage or invisible, with any bundles, limit and buffer.  A
\* bundle is not stored twice, the sizes fit in size_t, and where clear() is
\* called the daemon restarts once at most: after clear() and a restart there may
\* be more in the storage than the limit allows.
\* SimpleBundleStorage.cpp, DataStorage.cpp.
THEOREM SimpleIsASet ==
  ~Again /\ SizesFit /\ (MayClear => MaxCrashes <= 1) =>
    (kind = "simple" /\ FairSpec => ImplementsBundleStorage)
<1>1. CASE ~Again /\ SizesFit /\ (MayClear => MaxCrashes <= 1)
  <2>1. Init /\ kind = "simple" => Abstract!Init
    BY DEF Init, Simple!Init, Abstract!Init, Content, Doomed, Simple!Content, Simple!Doomed,
           Simple!Readable
  <2>2. SimpleHolds /\ [Next]_vars =>
          [cleared \/ IF kind = "sqlite" THEN Unlimited!Next ELSE Abstract!Next]_<<Content, Doomed>>
    <3> SUFFICES ASSUME SimpleHolds, [Next]_vars, ~cleared
                 PROVE  kind # "sqlite" /\ Abstract!Next
      OBVIOUS
    <3>1. SimpleInv /\ kind = "simple" /\ SizeOK
      BY DEF SimpleHolds, SimpleInv
    <3>2. /\ Counted \in SUBSET Bundles /\ IsFiniteSet(Counted) /\ Total(Counted) \in Nat
          /\ cursize = Total(Counted) /\ MaxSize \in Nat
          /\ MaxSize > 0 /\ (MayClear => crashes = 0) => cursize <= MaxSize
      BY <1>1, <3>1, CountedKnown, StorageAssumption DEF SizeOK
    <3>3. ASSUME NEW S
          PROVE  Abstract!SumOf(S) = Total(S)
      BY DEF Abstract!SumOf, Abstract!MapThenSumSet, Abstract!MapThenFoldSet,
             Total, MapThenSumSet, MapThenFoldSet
    <3>4. Content \subseteq Counted /\ {b \in Bundles : disk[b] = "full"} \subseteq Counted
      <4>1. ASSUME NEW b \in Bundles, pending[b] # "none" \/ disk[b] = "full"
            PROVE  b \in Counted
        BY <3>1, <4>1, StorageAssumption DEF SimpleInv, BundleOK, EntryOK, Held, Counted
      <4> QED
        BY <3>1, <4>1 DEF Content, Simple!Content, Simple!Readable, SimpleInv, SimpleTypes
    <3>5. ASSUME NEW b \in Bundles, Stores(b)
          PROVE  Abstract!Store(b)
      <4>1. b \notin Counted /\ Size[b] \in Nat
        BY <3>1, <3>5, StorageAssumption DEF Stores, SimpleInv, BundleOK, EntryOK, Counted
      <4>2. /\ Counted \cup {b} \in SUBSET Bundles /\ IsFiniteSet(Counted \cup {b})
            /\ Total(Counted \cup {b}) = Total(Counted) + Size[b]
        BY <3>2, <4>1, TotalAdds, FS_AddElement
      <4>3. Total(Counted) + Size[b] < Modulus
        BY <1>1, <4>2 DEF SizesFit
      <4>4. Simple!Add(cursize, Size[b]) = Total(Counted) + Size[b]
        BY <3>2, <4>1, <4>3, AddFits
      <4>5. Total(Content \cup {b}) <= Total(Counted \cup {b})
        BY <3>4, <4>2, TotalMonotone
      <4>6. Total(Content \cup {b}) \in Nat
        BY <3>4, <4>2, FS_Subset, TotalType
      <4>7. MaxSize > 0 => Total(Content \cup {b}) <= MaxSize
        BY <3>2, <3>5, <4>1, <4>2, <4>4, <4>5, <4>6 DEF Stores
      <4> QED
        BY <3>3, <3>5, <4>7 DEF Stores, Abstract!Store, Abstract!WithinLimit
    <3>6. ASSUME NEW b \in Bundles, Loses(b)
          PROVE  Abstract!Remove(b)
      BY <3>6 DEF Loses, Abstract!Remove
    <3>7. CASE Purges
      BY <3>1, <3>7 DEF Purges, Abstract!Purge, Abstract!Next
    <3>8. CASE Clears
      BY <3>1, <3>8 DEF Clears, Abstract!Clear, Abstract!Next
    <3>9. CASE Restarts
      <4>1. crashes \in Nat /\ crashes < MaxCrashes /\ MaxCrashes \in Nat
        BY <3>1, <3>9, StorageAssumption DEF Restarts, SimpleInv, SimpleTypes
      <4>2. MayClear => crashes = 0
        BY <1>1, <4>1
      <4>3. Content' \subseteq Counted
        BY <3>4, <3>9 DEF Restarts
      <4>4. Total(Content') <= Total(Counted) /\ Total(Content') \in Nat
        BY <3>2, <4>3, TotalMonotone, TotalType, FS_Subset
      <4>5. MaxSize > 0 => Total(Content') <= MaxSize
        BY <3>2, <4>2, <4>4
      <4> QED
        BY <3>1, <3>3, <3>9, <4>5 DEF Restarts, Abstract!Restart, Abstract!WithinLimit, Abstract!Next
    <3> QED
      BY <1>1, <3>1, <3>5, <3>6, <3>7, <3>8, <3>9, SimpleEffects DEF Abstract!Next
  <2>3. ~Again
    BY <1>1
  <2> QED
    BY <2>1, <2>2, <2>3, SimpleInductive, PTL DEF FairSpec, ImplementsBundleStorage
<1>2. CASE ~(~Again /\ SizesFit /\ (MayClear => MaxCrashes <= 1))
  BY <1>2, PTL
<1> QED
  BY <1>1, <1>2

\* The storage in SQLite is a set of bundles, without a limit: every call, every
\* step of store() and of the thread of the storage and every restart, with the
\* transaction it rolls back, is one step of BundleStorage or invisible; and so
\* the bundles of an interrupted store() or removal are there or not, never in
\* part.  The database is used as DatabaseUse says.
\* core/BundleStorage.h, SQLiteBundleStorage.cpp.
THEOREM SQLiteIsASet ==
  DatabaseUse => (kind = "sqlite" /\ FairSpec => ImplementsBundleStorage)
<1>1. CASE DatabaseUse
  <2>1. Init /\ kind = "sqlite" => Abstract!Init
    <3> SUFFICES ASSUME SQLite!Init, kind = "sqlite"
                 PROVE  Content = {} /\ Doomed = {}
      BY DEF Init, Abstract!Init
    <3>1. rows = {} /\ tx = None
      BY DEF SQLite!Init
    <3> QED
      BY <3>1 DEF Content, Doomed, SQLite!Content, SQLite!Doomed, SQLite!Readable, SQLite!Whole,
                  SQLite!Committed
  <2>2. DatabaseHolds /\ [Next]_vars =>
          [cleared \/ IF kind = "sqlite" THEN Unlimited!Next ELSE Abstract!Next]_<<Content, Doomed>>
    <3> SUFFICES ASSUME DatabaseHolds, [Next]_vars
                 PROVE  Unlimited!Next
      BY DEF DatabaseHolds
    <3>1. ASSUME NEW S
          PROVE  Unlimited!WithinLimit(S)
      BY DEF Unlimited!WithinLimit
    <3>2. ASSUME NEW b \in Rowed, Adds(b) \/ Loses(b)
          PROVE  b \in Bundles /\ (Unlimited!Store(b) \/ Unlimited!Remove(b))
      BY <3>1, <3>2, RowedAssumption DEF Adds, Loses, Unlimited!Store, Unlimited!Remove
    <3>3. CASE Purges
      BY <3>3 DEF Purges, Unlimited!Purge, Unlimited!Next
    <3>4. CASE Empties \/ Revives
      BY <3>1, <3>4 DEF Empties, Revives, Unlimited!Restart, Unlimited!Next
    <3> QED
      BY <1>1, <3>2, <3>3, <3>4, DatabaseSees DEF Unlimited!Next
  <2>3. DatabaseUse
    BY <1>1
  <2> QED
    BY <2>1, <2>2, <2>3, DatabaseInductive, PTL DEF FairSpec, ImplementsBundleStorage
<1>2. CASE ~DatabaseUse
  BY <1>2, PTL
<1> QED
  BY <1>1, <1>2
=============================================================================
