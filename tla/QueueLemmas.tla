---------------------------- MODULE QueueLemmas -----------------------------
(***************************************************************************)
(* What the operations on queues do to the number of elements in a set.    *)
(* Induction on the length of a queue is done by a smallest counterexample *)
(* (LeastNumber).                                                          *)
(***************************************************************************)
EXTENDS Queues, FiniteSetTheorems, TLAPS

\* A set of numbers has a least element.
LEMMA LeastNumber ==
  ASSUME NEW T \in SUBSET Nat, T # {}
  PROVE  \E x \in T : \A y \in T : x <= y
<1>1. PICK x \in T : \A y \in T : ~ (<<y, x>> \in OpToRel(<, Nat))
  BY NatLessThanWellFounded, WFMin
<1>2. \A y \in T : ~(y < x)
  BY <1>1 DEF OpToRel
<1> QED
  BY <1>2

\* The places of a queue that are in S, and how many they are.
LEMMA CountType ==
  ASSUME NEW A, NEW s \in Seq(A), NEW S
  PROVE  /\ IsFiniteSet({i \in 1..Len(s) : s[i] \in S})
         /\ Count(s, S) \in Nat
<1>1. Len(s) \in Nat
  OBVIOUS
<1>2. IsFiniteSet(1..Len(s))
  BY <1>1, FS_Interval
<1>3. IsFiniteSet({i \in 1..Len(s) : s[i] \in S})
  BY <1>2, FS_Subset
<1> QED
  BY <1>3, FS_CardinalityType DEF Count

\* Two sets are of one size if their elements match.
LEMMA MatchingSets ==
  ASSUME NEW P, IsFiniteSet(P), NEW Q, NEW f \in [P -> Q],
         \A i, j \in P : f[i] = f[j] => i = j,
         \A j \in Q : \E i \in P : f[i] = j
  PROVE  IsFiniteSet(Q) /\ Cardinality(Q) = Cardinality(P)
<1>1. f \in Bijection(P, Q)
  BY DEF Bijection, Injection, Surjection, IsInjective
<1> QED
  BY <1>1, FS_Bijection DEF ExistsBijection

\* Nothing is in an empty queue.
LEMMA CountEmpty ==
  ASSUME NEW S
  PROVE  Count(<<>>, S) = 0
<1>1. {i \in 1..Len(<<>>) : <<>>[i] \in S} = {}
  OBVIOUS
<1> QED
  BY <1>1, FS_EmptySet DEF Count

\* A push adds one if the element is in the set.
LEMMA CountAppend ==
  ASSUME NEW A, NEW s \in Seq(A), NEW e \in A, NEW S
  PROVE  Count(Append(s, e), S) = Count(s, S) + (IF e \in S THEN 1 ELSE 0)
<1> DEFINE P == {i \in 1..Len(s) : s[i] \in S}
           Q == {i \in 1..Len(Append(s, e)) : Append(s, e)[i] \in S}
           n == Len(s) + 1
<1>1. Len(s) \in Nat /\ Len(Append(s, e)) = n /\ n \notin P
  OBVIOUS
<1>2. \A i \in 1..Len(s) : Append(s, e)[i] = s[i]
  OBVIOUS
<1>3. Append(s, e)[n] = e
  OBVIOUS
<1>4. Q = IF e \in S THEN P \cup {n} ELSE P
  BY <1>1, <1>2, <1>3
<1>5. IsFiniteSet(P) /\ Count(s, S) \in Nat
  BY CountType
<1> HIDE DEF P, Q, n
<1>6. Cardinality(Q) = Cardinality(P) + (IF e \in S THEN 1 ELSE 0)
  BY <1>1, <1>4, <1>5, FS_AddElement, FS_CardinalityType
<1> QED
  BY <1>6 DEF Count, P, Q

\* Where the elements of two queues in a row are.
LEMMA Concatenation ==
  ASSUME NEW A, NEW s \in Seq(A), NEW t \in Seq(A)
  PROVE  /\ s \o t \in Seq(A) /\ Len(s \o t) = Len(s) + Len(t)
         /\ \A j \in 1..Len(s) : (s \o t)[j] = s[j]
         /\ \A j \in Len(s)+1..Len(s)+Len(t) : (s \o t)[j] = t[j - Len(s)]
  OBVIOUS

\* t is s without the element at place i.
Without(s, i, t) ==
  /\ Len(t) = Len(s) - 1
  /\ \A j \in 1..Len(t) : t[j] = IF j < i THEN s[j] ELSE s[j + 1]

\* What is taken from a place of a queue is counted no more.
LEMMA CountWithout ==
  ASSUME NEW A, NEW s \in Seq(A), NEW i \in 1..Len(s), NEW S,
         NEW t \in Seq(A), Without(s, i, t)
  PROVE  Count(s, S) = Count(t, S) + (IF s[i] \in S THEN 1 ELSE 0)
<1> DEFINE P == {j \in 1..Len(s) : s[j] \in S}
           Q == {j \in 1..Len(t) : t[j] \in S}
           f == [j \in Q |-> IF j < i THEN j ELSE j + 1]
<1>1. Len(s) \in Nat /\ i \in Nat
  OBVIOUS
<1>4. /\ t \in Seq(A) /\ Len(t) = Len(s) - 1
      /\ \A j \in 1..Len(t) : t[j] = IF j < i THEN s[j] ELSE s[j + 1]
  BY DEF Without
<1>5. f \in [Q -> P \ {i}]
  BY <1>1, <1>4
<1>6. \A j, k \in Q : f[j] = f[k] => j = k
  BY <1>1, <1>4
<1>7. ASSUME NEW k \in P \ {i}
      PROVE  \E j \in Q : f[j] = k
  <2>1. CASE k < i
    <3>1. k \in Q /\ f[k] = k
      BY <1>1, <1>4, <2>1
    <3> QED
      BY <3>1
  <2>2. CASE k > i
    <3>1. k - 1 \in Q /\ f[k - 1] = k
      BY <1>1, <1>4, <2>2
    <3> QED
      BY <3>1
  <2>3. k \in Nat /\ k # i
    BY <1>1
  <2> HIDE DEF f, P, Q
  <2> QED
    BY <1>1, <2>1, <2>2, <2>3
<1>8. IsFiniteSet(Q) /\ Count(t, S) \in Nat
  BY <1>4, CountType
<1> HIDE DEF f, P, Q
<1>9. IsFiniteSet(P \ {i}) /\ Cardinality(P \ {i}) = Cardinality(Q)
  BY <1>5, <1>6, <1>7, <1>8, MatchingSets
<1>10. Cardinality(P) = Cardinality(Q) + (IF s[i] \in S THEN 1 ELSE 0)
  <2>1. CASE s[i] \in S
    <3>1. P = (P \ {i}) \cup {i}
      BY <2>1 DEF P
    <3> QED
      BY <2>1, <3>1, <1>9, FS_AddElement
  <2>2. CASE s[i] \notin S
    <3>1. P = P \ {i}
      BY <2>2 DEF P
    <3>2. Cardinality(P) = Cardinality(P \ {i})
      BY <3>1
    <3>3. Cardinality(Q) \in Nat
      BY <1>8, FS_CardinalityType
    <3> QED
      BY <2>2, <3>2, <3>3, <1>9
  <2> QED
    BY <2>1, <2>2
<1> QED
  BY <1>4, <1>10 DEF Count, P, Q

\* The element at a place of a queue is removed.
LEMMA CountRemoved ==
  ASSUME NEW A, NEW s \in Seq(A), NEW i \in 1..Len(s), NEW S
  PROVE  LET t == SubSeq(s, 1, i - 1) \o SubSeq(s, i + 1, Len(s)) IN
         /\ t \in Seq(A)
         /\ Count(s, S) = Count(t, S) + (IF s[i] \in S THEN 1 ELSE 0)
<1> DEFINE front == SubSeq(s, 1, i - 1)
           back == SubSeq(s, i + 1, Len(s))
<1>1. Len(s) \in Nat /\ i \in 1..Len(s)
  OBVIOUS
<1>2. /\ front \in Seq(A) /\ Len(front) = i - 1
      /\ \A j \in 1..i-1 : front[j] = s[j]
  BY <1>1
<1>3. /\ back \in Seq(A) /\ Len(back) = Len(s) - i
      /\ \A j \in 1..Len(s) - i : back[j] = s[j + i]
  BY <1>1
<1> HIDE DEF front, back
<1>4. front \o back \in Seq(A) /\ Len(front \o back) = Len(s) - 1
  <2>1. front \o back \in Seq(A) /\ Len(front \o back) = Len(front) + Len(back)
    BY <1>2, <1>3, Concatenation
  <2> QED
    BY <1>1, <1>2, <1>3, <2>1
<1>5. ASSUME NEW j \in 1..Len(front \o back)
      PROVE  (front \o back)[j] = IF j < i THEN s[j] ELSE s[j + 1]
  <2>1. CASE j < i
    <3>1. j \in 1..Len(front)
      BY <1>1, <1>2, <1>4, <2>1
    <3> QED
      BY <1>2, <1>3, <2>1, <3>1, Concatenation
  <2>2. CASE ~(j < i)
    <3>1. j \in Len(front)+1..Len(front)+Len(back)
      BY <1>1, <1>2, <1>3, <1>4, <2>2
    <3>2. (front \o back)[j] = back[j - Len(front)]
      BY <1>2, <1>3, <3>1, Concatenation
    <3>3. j - Len(front) \in 1..Len(s) - i /\ j - Len(front) + i = j + 1
      BY SMTT(30), <1>1, <1>2, <1>3, <3>1
    <3> QED
      BY <1>3, <2>2, <3>2, <3>3
  <2> QED
    BY <2>1, <2>2
<1> DEFINE t == front \o back
<1>6. t \in Seq(A) /\ Without(s, i, t)
  BY <1>4, <1>5 DEF Without
<1> HIDE DEF t
<1>7. Count(s, S) = Count(t, S) + (IF s[i] \in S THEN 1 ELSE 0)
  BY <1>6, CountWithout
<1> QED
  BY <1>4, <1>7 DEF t, front, back

\* A pop.
LEMMA CountTail ==
  ASSUME NEW A, NEW s \in Seq(A), s # <<>>, NEW S
  PROVE  /\ Head(s) \in A /\ Tail(s) \in Seq(A)
         /\ Count(s, S) = Count(Tail(s), S) + (IF Head(s) \in S THEN 1 ELSE 0)
<1>1. 1 \in 1..Len(s) /\ Head(s) = s[1] /\ Head(s) \in A
  OBVIOUS
<1> DEFINE t == Tail(s)
<1>2. t \in Seq(A) /\ Without(s, 1, t)
  BY DEF Without
<1> HIDE DEF t
<1>3. Count(s, S) = Count(t, S) + (IF s[1] \in S THEN 1 ELSE 0)
  BY <1>1, <1>2, CountWithout
<1> QED
  BY <1>1, <1>2, <1>3 DEF t

\* Two queues in a row.
LEMMA CountConcat ==
  ASSUME NEW A, NEW s \in Seq(A), NEW t \in Seq(A), NEW S
  PROVE  /\ s \o t \in Seq(A)
         /\ Count(s \o t, S) = Count(s, S) + Count(t, S)
<1> DEFINE P == {j \in 1..Len(s) : s[j] \in S}
           Q == {j \in 1..Len(t) : t[j] \in S}
           R == {j \in 1..Len(s \o t) : (s \o t)[j] \in S}
           f == [j \in Q |-> Len(s) + j]
<1>1. Len(s) \in Nat /\ Len(t) \in Nat /\ Len(s \o t) = Len(s) + Len(t)
  OBVIOUS
<1>2. /\ \A j \in 1..Len(s) : (s \o t)[j] = s[j]
      /\ \A j \in 1..Len(t) : (s \o t)[Len(s) + j] = t[j]
  OBVIOUS
<1>3. f \in [Q -> R \ P]
  BY <1>1, <1>2
<1>4. \A j, k \in Q : f[j] = f[k] => j = k
  BY <1>1
<1>5. ASSUME NEW k \in R \ P
      PROVE  \E j \in Q : f[j] = k
  <2>1. k > Len(s)
    BY <1>1, <1>2
  <2>2. k - Len(s) \in Q /\ f[k - Len(s)] = k
    BY <1>1, <1>2, <2>1
  <2> QED
    BY <2>2
<1>6. IsFiniteSet(P) /\ IsFiniteSet(Q)
  BY CountType
<1>7. P \subseteq R
  BY <1>1, <1>2
<1> HIDE DEF f, P, Q, R
<1>8. IsFiniteSet(R \ P) /\ Cardinality(R \ P) = Cardinality(Q)
  BY <1>3, <1>4, <1>5, <1>6, MatchingSets
<1>9. R = P \cup (R \ P) /\ P \cap (R \ P) = {}
  BY <1>7
<1>10. Cardinality(R) = Cardinality(P) + Cardinality(Q)
  <2>1. Cardinality(P \cup (R \ P)) =
           Cardinality(P) + Cardinality(R \ P) - Cardinality(P \cap (R \ P))
    BY <1>6, <1>8, FS_Union
  <2>2. Cardinality(P \cap (R \ P)) = 0
    BY <1>9, FS_EmptySet
  <2>3. Cardinality(P) \in Nat /\ Cardinality(Q) \in Nat
    BY <1>6, FS_CardinalityType
  <2> QED
    <3>1. Cardinality(R) = Cardinality(P \cup (R \ P))
      BY <1>9
    <3> QED
      BY <1>8, <2>1, <2>2, <2>3, <3>1
<1>11. s \o t \in Seq(A)
  OBVIOUS
<1> QED
  BY <1>10, <1>11 DEF Count, P, Q, R

\* Two queues that agree place by place.
LEMMA CountAlike ==
  ASSUME NEW s, NEW t, NEW S, NEW T, Len(s) = Len(t),
         \A i \in 1..Len(s) : s[i] \in S <=> t[i] \in T
  PROVE  Count(s, S) = Count(t, T)
<1>1. {i \in 1..Len(s) : s[i] \in S} = {i \in 1..Len(t) : t[i] \in T}
  OBVIOUS
<1> QED
  BY <1>1 DEF Count

\* Nothing is counted where nothing matches.
LEMMA CountNone ==
  ASSUME NEW s, NEW S, \A i \in 1..Len(s) : s[i] \notin S
  PROVE  Count(s, S) = 0
<1>1. {i \in 1..Len(s) : s[i] \in S} = {}
  OBVIOUS
<1> QED
  BY <1>1, FS_EmptySet DEF Count

-----------------------------------------------------------------------------
(* Within.                                                                 *)

\* The function that Within is defined by, up to place n.
KeptUpTo(f, s, S, n) ==
  /\ f = [i \in 0..n |-> f[i]] /\ f[0] = <<>>
  /\ \A i \in 1..n : f[i] = IF s[i] \in S THEN Append(f[i - 1], s[i]) ELSE f[i - 1]

\* There is one.
LEMMA KeptExists ==
  ASSUME NEW A, NEW s \in Seq(A), NEW S
  PROVE  \E f : KeptUpTo(f, s, S, Len(s))
<1> DEFINE Bad == {n \in 0..Len(s) : ~ \E f : KeptUpTo(f, s, S, n)}
<1> SUFFICES ASSUME Bad # {}
             PROVE  FALSE
  <2>1. Len(s) \in 0..Len(s)
    OBVIOUS
  <2> QED
    BY <2>1
<1>1. PICK n \in Bad : \A m \in Bad : n <= m
  <2>1. Bad \in SUBSET Nat
    OBVIOUS
  <2> HIDE DEF Bad
  <2> QED
    BY <2>1, LeastNumber
<1>2. n # 0
  <2>1. KeptUpTo([i \in 0..0 |-> <<>>], s, S, 0)
    BY DEF KeptUpTo
  <2> QED
    BY <2>1
<1>3. n \in Nat /\ n - 1 \in 0..Len(s) /\ n - 1 \notin Bad
  BY <1>1, <1>2
<1>4. PICK f : KeptUpTo(f, s, S, n - 1)
  BY <1>3
<1> DEFINE g == [i \in 0..n |-> IF i < n THEN f[i]
                               ELSE IF s[n] \in S THEN Append(f[n - 1], s[n]) ELSE f[n - 1]]
<1>5. \A i \in 0..n-1 : g[i] = f[i]
  BY <1>3
<1>6. g[n] = IF s[n] \in S THEN Append(f[n - 1], s[n]) ELSE f[n - 1]
  BY <1>3
<1>7. g = [i \in 0..n |-> g[i]]
  OBVIOUS
<1> HIDE DEF g
<1>8. KeptUpTo(g, s, S, n)
  <2>1. g[0] = <<>>
    <3>1. 0 \in 0..n-1 /\ f[0] = <<>>
      BY <1>2, <1>3, <1>4 DEF KeptUpTo
    <3> QED
      BY <3>1, <1>5
  <2>2. ASSUME NEW i \in 1..n, i # n
        PROVE  g[i] = IF s[i] \in S THEN Append(g[i - 1], s[i]) ELSE g[i - 1]
    <3>1. i \in 1..n-1 /\ g[i] = f[i] /\ g[i - 1] = f[i - 1]
      BY <1>3, <1>5, <2>2
    <3> QED
      BY <3>1, <1>4 DEF KeptUpTo
  <2>3. g[n] = IF s[n] \in S THEN Append(g[n - 1], s[n]) ELSE g[n - 1]
    BY <1>2, <1>3, <1>5, <1>6
  <2> QED
    BY <1>7, <2>1, <2>2, <2>3 DEF KeptUpTo
<1> QED
  BY <1>1, <1>8

PartOf(R, S) == R \subseteq S
KeptOf(t, s, A, S, R) == t \in Seq(A \cap S) /\ Count(t, R) = Count(s, R)

\* What is kept of a queue is in the set, and counts as before in every part
\* of the set.
LEMMA WithinFacts ==
  ASSUME NEW A, NEW s \in Seq(A), NEW S, NEW R, PartOf(R, S)
  PROVE  KeptOf(Within(s, S), s, A, S, R)
<1> DEFINE kept == CHOOSE f : f = [i \in 0..Len(s) |->
                      IF i = 0 THEN <<>>
                      ELSE IF s[i] \in S THEN Append(f[i - 1], s[i])
                      ELSE f[i - 1]]
<1>1. Within(s, S) = kept[Len(s)]
  BY DEF Within
<1>l. Len(s) \in Nat
  OBVIOUS
<1>2. KeptUpTo(kept, s, S, Len(s))
  <2>1. PICK f : KeptUpTo(f, s, S, Len(s))
    BY KeptExists
  <2>2. f = [i \in 0..Len(s) |->
                      IF i = 0 THEN <<>>
                      ELSE IF s[i] \in S THEN Append(f[i - 1], s[i])
                      ELSE f[i - 1]]
    <3>1. f = [i \in 0..Len(s) |-> f[i]] /\ f[0] = <<>>
      BY <2>1 DEF KeptUpTo
    <3>2. ASSUME NEW i \in 0..Len(s)
          PROVE  f[i] = IF i = 0 THEN <<>>
                        ELSE IF s[i] \in S THEN Append(f[i - 1], s[i]) ELSE f[i - 1]
      <4>1. i = 0 \/ i \in 1..Len(s)
        BY <1>l
      <4> QED
        BY <3>1, <4>1, <2>1 DEF KeptUpTo
    <3> QED
      BY <3>1, <3>2, Zenon
  <2>3. kept = [i \in 0..Len(s) |->
                      IF i = 0 THEN <<>>
                      ELSE IF s[i] \in S THEN Append(kept[i - 1], s[i])
                      ELSE kept[i - 1]]
    BY <2>2, Zenon
  <2> HIDE DEF kept
  <2>4. kept = [i \in 0..Len(s) |-> kept[i]] /\ kept[0] = <<>>
    BY <1>l, <2>3
  <2>5. ASSUME NEW i \in 1..Len(s)
        PROVE  kept[i] = IF s[i] \in S THEN Append(kept[i - 1], s[i]) ELSE kept[i - 1]
    <3>1. i \in 0..Len(s) /\ i # 0
      BY <1>l
    <3> QED
      BY <2>3, <3>1
  <2> QED
    BY <2>4, <2>5 DEF KeptUpTo
<1> HIDE DEF kept
<1> DEFINE front(n) == SubSeq(s, 1, n)
           Good(n) == /\ kept[n] \in Seq(A \cap S)
                      /\ Count(kept[n], R) = Count(front(n), R)
           Bad == {n \in 0..Len(s) : ~ Good(n)}
<1>3. ASSUME Bad # {}
      PROVE  FALSE
  <2>1. PICK n \in Bad : \A m \in Bad : n <= m
    <3>1. Bad \in SUBSET Nat
      OBVIOUS
    <3> HIDE DEF Bad
    <3> QED
      BY <1>3, <3>1, LeastNumber
  <2>2. Good(0)
    <3>1. kept[0] = <<>>
      BY <1>2 DEF KeptUpTo
    <3>2. front(0) = <<>>
      OBVIOUS
    <3> HIDE DEF front
    <3> QED
      BY <3>1, <3>2, CountEmpty
  <2>3. n \in 1..Len(s) /\ n - 1 \in 0..Len(s) /\ n - 1 \notin Bad
    <3>1. n \in 0..Len(s) /\ n # 0
      <4> HIDE DEF Good
      <4> QED
        BY <2>1, <2>2
    <3> HIDE DEF Good
    <3> QED
      BY <1>l, <2>1, <3>1
  <2>4. Good(n - 1)
    BY <2>3
  <2>5. kept[n] = IF s[n] \in S THEN Append(kept[n - 1], s[n]) ELSE kept[n - 1]
    BY <1>2, <2>3 DEF KeptUpTo
  <2>6. front(n) = Append(front(n - 1), s[n]) /\ front(n - 1) \in Seq(A) /\ s[n] \in A
    BY <1>l, <2>3
  <2> DEFINE a == front(n - 1)
             b == front(n)
             k == kept[n - 1]
             e == s[n]
  <2>7. /\ b = Append(a, e) /\ a \in Seq(A) /\ e \in A
        /\ k \in Seq(A \cap S) /\ Count(k, R) = Count(a, R)
        /\ kept[n] = IF e \in S THEN Append(k, e) ELSE k
    BY <2>4, <2>5, <2>6
  <2> HIDE DEF a, b, k, e
  <2>8. Count(b, R) = Count(a, R) + (IF e \in R THEN 1 ELSE 0)
    BY <2>7, CountAppend
  <2>9. CASE e \in S
    <3>1. Append(k, e) \in Seq(A \cap S)
      BY <2>7, <2>9
    <3>2. Count(Append(k, e), R) = Count(k, R) + (IF e \in R THEN 1 ELSE 0)
      BY <2>7, <2>9, CountAppend
    <3>3. kept[n] \in Seq(A \cap S) /\ Count(kept[n], R) = Count(b, R)
      BY <2>7, <2>8, <2>9, <3>1, <3>2
    <3> QED
      BY <2>1, <3>3 DEF b
  <2>10. CASE e \notin S
    <3>1. Count(a, R) \in Nat
      BY <2>7, CountType
    <3>2. kept[n] \in Seq(A \cap S) /\ Count(kept[n], R) = Count(b, R)
      BY <2>7, <2>8, <2>10, <3>1 DEF PartOf
    <3> QED
      BY <2>1, <3>2 DEF b
  <2> QED
    BY <2>9, <2>10
<1>4. Good(Len(s))
  <2>1. Len(s) \in 0..Len(s)
    BY <1>l
  <2> HIDE DEF Good
  <2> QED
    BY <1>3, <2>1
<1>5. front(Len(s)) = s
  OBVIOUS
<1> QED
  BY <1>1, <1>4, <1>5 DEF KeptOf

LEMMA WithinType ==
  ASSUME NEW A, NEW s \in Seq(A), NEW S
  PROVE  Within(s, S) \in Seq(A \cap S)
<1>1. PartOf(S, S)
  BY DEF PartOf
<1> QED
  BY <1>1, WithinFacts DEF KeptOf

LEMMA WithinCount ==
  ASSUME NEW A, NEW s \in Seq(A), NEW S, NEW R, PartOf(R, S)
  PROVE  Count(Within(s, S), R) = Count(s, R)
<1>1. KeptOf(Within(s, S), s, A, S, R)
  BY WithinFacts
<1> QED
  BY <1>1 DEF KeptOf
=============================================================================
