-------------------------- MODULE EventSwitchProofs --------------------------
(***************************************************************************)
(* What holds of tasks, references and bindings for any number of events,  *)
(* receivers and workers, however raising, handling and unbinding overlap. *)
(***************************************************************************)
EXTENDS EventSwitch, QueueLemmas

\* The parts of TypeOK; the counters are bounded by the invariant below.
WorkerStates ==
  {"loop", "scan", "sleep", "call", "delete", "done", "hold", "recheck", "join", "exit"}
EventStates == {"new", "stop", "find", "push", "blocked", "returned"}
BindStates  == {"bind", "bound", "pause", "wait", "paused", "purge", "unpause", "gone"}

SwitchTypeOK ==
  /\ rlock \in Events \cup {None}
  /\ running \in BOOLEAN /\ aborted \in BOOLEAN /\ pause \in BOOLEAN
  /\ queue \in [Levels -> Seq(Task)]

WorkTypeOK == wpc \in [Threads -> WorkerStates] /\ wtask \in [Threads -> Task \cup {None}]

EventTypeOK ==
  /\ epc \in [Events -> EventStates]
  /\ todo \in [Events -> Seq(Receivers)]
  /\ ref \in [Events -> Int] /\ processed \in [Events -> BOOLEAN]
  /\ target \in [Events -> SUBSET Receivers] /\ deleted \subseteq Events

BindTypeOK ==
  /\ list \in [Names -> Seq(Receivers)]
  /\ rpc \in [Receivers -> BindStates] /\ ridx \in [Receivers -> Nat]

HistoryTypeOK == called \in Seq(Task) /\ purged \subseteq Task

TypeInv == SwitchTypeOK /\ WorkTypeOK /\ EventTypeOK /\ BindTypeOK /\ HistoryTypeOK

-----------------------------------------------------------------------------
(* The inductive invariant.                                                *)

TaskOf(e, r) == [ev |-> e, rcv |-> r]

\* The threads that are about to call r with e
Callers(e, r) == {w \in Threads : wpc[w] = "call" /\ wtask[w] = TaskOf(e, r)}

\* Where the task of e for r may be
InTodo(e, r)     == Count(todo[e], {r})
InQueue(l, e, r) == Count(queue[l], {TaskOf(e, r)})
InCalls(e, r)    == Cardinality(Callers(e, r))
InCalled(e, r)   == Count(called, {TaskOf(e, r)})
InPurged(e, r)   == IF TaskOf(e, r) \in purged THEN 1 ELSE 0

\* How often there is one
InQueues(e, r) == InQueue("prio", e, r) + InQueue("normal", e, r) + InQueue("low", e, r)
Tokens(e, r)   == InTodo(e, r) + InQueues(e, r) + InCalls(e, r) + InCalled(e, r) + InPurged(e, r)

\* A task is in one place, for every receiver the event was meant for.
OneToken ==
  \A e \in Events, r \in Receivers : Tokens(e, r) = IF r \in target[e] THEN 1 ELSE 0

\* A thread has a task as long as it is in process(), and no other has it.
WorkOK ==
  /\ \A w \in Threads : wtask[w] = None <=> wpc[w] \notin {"call", "delete"}
  /\ \A w \in Threads : wpc[w] = "delete" => wtask[w] \in Entries(called)
  /\ \A v, w \in Threads : wtask[v] = wtask[w] /\ wtask[v] # None => v = w

\* The receivers whose tasks of e have been deleted, and the others
Dropped(e) == {r \in Receivers : TaskOf(e, r) \in Entries(called) \ InHandling}
Left(e)    == target[e] \ Dropped(e)

RaiseOK ==
  \A e \in Events :
    /\ epc[e] = "push" <=> rlock = e
    /\ epc[e] = "push" <=> todo[e] # <<>>
    /\ Entries(todo[e]) \subseteq Entries(list[NameOf[e]])
    /\ epc[e] \in {"new", "stop", "find"} => target[e] = {} /\ ~processed[e] /\ e \notin deleted
    /\ IsFiniteSet(target[e])

ReferencesOK ==
  \A e \in Events :
    /\ ref[e] = Cardinality(Left(e))
    /\ processed[e] \/ e \in deleted => ref[e] = 0
    /\ e \notin Blocking /\ target[e] # {} /\ ref[e] = 0 => e \in deleted

Unbinding == {"pause", "wait", "paused", "purge", "unpause"}

\* The name at place i of the interest of r may be bound.
MayBeBound(r, i) ==
  \/ rpc[r] = "bind" /\ i < ridx[r]
  \/ rpc[r] = "bound" /\ i >= ridx[r]
  \/ rpc[r] \in Unbinding /\ i > ridx[r]

BindOK ==
  /\ \A r \in Receivers : ridx[r] \in 1..Len(Interest[r])
  /\ \A r \in Receivers \ Clients : rpc[r] = "bound"
  /\ \A n \in Names, r \in Receivers : Count(list[n], {r}) <= 1
  /\ \A n \in Names : \A r \in Entries(list[n]) \cap Clients :
       \E i \in 1..Len(Interest[r]) : Interest[r][i] = n /\ MayBeBound(r, i)

PurgeOK ==
  /\ \A t \in Entries(queue["normal"]) :
       \/ t.rcv \in Entries(list[NameOf[t.ev]])
       \/ rpc[t.rcv] \in Unbinding \ {"unpause"}
  /\ \A t \in purged :
       \/ rpc[t.rcv] \in {"unpause", "gone"}
       \/ rpc[t.rcv] # "bind" /\ ridx[t.rcv] > 1

\* The threads that pause() waits for
Busy == {w \in Threads : wpc[w] \in {"call", "delete", "done"}}

ActiveOK == active = Cardinality(Busy)

BindingInv == OneToken /\ WorkOK /\ RaiseOK /\ ReferencesOK /\ BindOK /\ PurgeOK

-----------------------------------------------------------------------------
(* Receivers in a list and tasks in a queue.                               *)

\* What is in a queue is counted.
LEMMA EntriesCount ==
  ASSUME NEW A, NEW s \in Seq(A), NEW x
  PROVE  /\ Count(s, {x}) \in Nat
         /\ x \in Entries(s) <=> Count(s, {x}) # 0
<1> DEFINE At == {i \in 1..Len(s) : s[i] \in {x}}
<1>1. IsFiniteSet(At) /\ Count(s, {x}) \in Nat
  BY CountType
<1>2. Count(s, {x}) = Cardinality(At)
  BY DEF Count
<1>3. Cardinality(At) = 0 <=> At = {}
  BY <1>1, FS_EmptySet
<1>4. x \in Entries(s) <=> At # {}
  BY DEF Entries
<1> QED
  BY <1>1, <1>2, <1>3, <1>4

LEMMA EntriesType ==
  ASSUME NEW A, NEW s \in Seq(A)
  PROVE  Entries(s) \subseteq A
  BY DEF Entries

LEMMA EntriesEmpty == Entries(<<>>) = {}
  BY DEF Entries

LEMMA EntriesAppend ==
  ASSUME NEW A, NEW s \in Seq(A), NEW x \in A
  PROVE  Entries(Append(s, x)) = Entries(s) \cup {x}
<1> DEFINE t == Append(s, x)
<1>1. /\ t \in Seq(A) /\ Len(t) = Len(s) + 1 /\ Len(s) \in Nat
      /\ \A i \in 1..Len(s) : t[i] = s[i]
      /\ t[Len(s) + 1] = x
  OBVIOUS
<1> HIDE DEF t
<1>2. Entries(t) \subseteq Entries(s) \cup {x}
  BY <1>1 DEF Entries
<1>3. Entries(s) \subseteq Entries(t)
  BY <1>1 DEF Entries
<1>4. x \in Entries(t)
  <2>1. Len(s) + 1 \in 1..Len(t)
    BY <1>1
  <2> QED
    BY <1>1, <2>1 DEF Entries
<1> QED
  BY <1>2, <1>3, <1>4 DEF t

LEMMA EntriesTail ==
  ASSUME NEW A, NEW s \in Seq(A), s # <<>>
  PROVE  /\ Head(s) \in A /\ Tail(s) \in Seq(A)
         /\ Head(s) \in Entries(s) /\ Entries(Tail(s)) \subseteq Entries(s)
<1> DEFINE t == Tail(s)
<1>1. /\ t \in Seq(A) /\ Len(t) = Len(s) - 1 /\ Len(s) \in Nat \ {0}
      /\ \A i \in 1..Len(t) : t[i] = s[i + 1]
      /\ Head(s) = s[1] /\ Head(s) \in A
  OBVIOUS
<1> HIDE DEF t
<1>2. Entries(t) \subseteq Entries(s)
  <2>1. \A i \in 1..Len(t) : i + 1 \in 1..Len(s)
    BY <1>1
  <2> QED
    BY <1>1, <2>1 DEF Entries
<1>3. Head(s) \in Entries(s)
  <2>1. 1 \in 1..Len(s)
    BY <1>1
  <2> QED
    BY <1>1, <2>1 DEF Entries
<1> QED
  BY <1>1, <1>2, <1>3 DEF t

LEMMA EntriesWithin ==
  ASSUME NEW A, NEW s \in Seq(A), NEW S
  PROVE  /\ Within(s, S) \in Seq(A)
         /\ \A x : Count(Within(s, S), {x}) = IF x \in S THEN Count(s, {x}) ELSE 0
         /\ Entries(Within(s, S)) = Entries(s) \cap S
<1> DEFINE w == Within(s, S)
<1>1. w \in Seq(A \cap S)
  BY WithinType
<1>2. w \in Seq(A)
  BY <1>1
<1>3. ASSUME NEW x, x \in S
      PROVE  Count(w, {x}) = Count(s, {x})
  <2>1. PartOf({x}, S)
    BY <1>3 DEF PartOf
  <2> QED
    BY <2>1, WithinCount
<1> HIDE DEF w
<1>4. ASSUME NEW x, x \notin S
      PROVE  Count(w, {x}) = 0
  <2>1. \A i \in 1..Len(w) : w[i] \notin {x}
    BY <1>1, <1>4
  <2> QED
    BY <2>1, CountNone
<1>5. ASSUME NEW x
      PROVE  x \in Entries(w) <=> x \in Entries(s) \cap S
  <2>1. CASE x \in S
    BY <1>2, <1>3, <2>1, EntriesCount
  <2>2. CASE x \notin S
    BY <1>2, <1>4, <2>2, EntriesCount
  <2> QED
    BY <2>1, <2>2
<1> QED
  BY <1>2, <1>3, <1>4, <1>5 DEF w

\* A list without duplicates is as long as the set of its entries is large.
LEMMA DistinctEntries ==
  ASSUME NEW A, NEW s \in Seq(A), \A x \in A : Count(s, {x}) <= 1
  PROVE  /\ \A i, j \in 1..Len(s) : s[i] = s[j] => i = j
         /\ IsFiniteSet(Entries(s)) /\ Cardinality(Entries(s)) = Len(s)
<1>1. ASSUME NEW i \in 1..Len(s), NEW j \in 1..Len(s), s[i] = s[j], i # j
      PROVE  FALSE
  <2> DEFINE x == s[i]
             At == {k \in 1..Len(s) : s[k] \in {x}}
  <2>1. IsFiniteSet(At) /\ Cardinality(At) <= 1 /\ Cardinality(At) \in Nat
    <3>1. IsFiniteSet(At) /\ Count(s, {x}) \in Nat
      BY CountType
    <3>2. Count(s, {x}) = Cardinality(At)
      BY DEF Count
    <3>3. x \in A
      OBVIOUS
    <3> HIDE DEF x
    <3>4. Count(s, {x}) <= 1
      BY <3>3
    <3> QED
      BY <3>1, <3>2, <3>4
  <2>2. {i, j} \subseteq At
    BY <1>1
  <2>3. Cardinality({i} \cup {j}) = 2
    <3>1. IsFiniteSet({i}) /\ Cardinality({i}) = 1
      BY FS_Singleton
    <3>2. Cardinality({i} \cup {j}) = Cardinality({i}) + 1
      BY <1>1, <3>1, FS_AddElement
    <3> QED
      BY <3>1, <3>2
  <2>4. Cardinality({i} \cup {j}) <= Cardinality(At)
    <3>1. {i} \cup {j} \subseteq At
      BY <2>2
    <3> HIDE DEF At
    <3> QED
      BY <2>1, <3>1, FS_Subset
  <2> HIDE DEF At, x
  <2> QED
    BY <2>1, <2>3, <2>4
<1>2. IsFiniteSet(Entries(s)) /\ Cardinality(Entries(s)) = Len(s)
  <2> DEFINE P == 1..Len(s)
             f == [i \in P |-> s[i]]
  <2>1. Len(s) \in Nat /\ IsFiniteSet(P) /\ Cardinality(P) = Len(s)
    <3> DEFINE n == Len(s)
    <3>1. n \in Nat
      OBVIOUS
    <3> HIDE DEF n
    <3>2. IsFiniteSet(1..n) /\ Cardinality(1..n) = n
      <4>1. CASE n = 0
        <5>1. 1..n = {}
          BY <4>1
        <5> QED
          BY <4>1, <5>1, FS_EmptySet
      <4>2. CASE n # 0
        BY <3>1, <4>2, FS_Interval
      <4> QED
        BY <4>1, <4>2
    <3> QED
      BY <3>1, <3>2 DEF n
  <2>2. /\ f \in [P -> Entries(s)]
        /\ \A i, j \in P : f[i] = f[j] => i = j
        /\ \A x \in Entries(s) : \E i \in P : f[i] = x
    BY <1>1 DEF Entries
  <2> HIDE DEF P, f
  <2>3. IsFiniteSet(Entries(s)) /\ Cardinality(Entries(s)) = Cardinality(P)
    BY <2>1, <2>2, MatchingSets
  <2> QED
    BY <2>1, <2>3
<1> QED
  BY <1>1, <1>2

\* The first entry of a receiver leaves the list.
LEMMA RemoveFacts ==
  ASSUME NEW A, NEW s \in Seq(A), NEW r
  PROVE  /\ Remove(s, r) \in Seq(A)
         /\ \A x : Count(Remove(s, r), {x})
                     = Count(s, {x}) - (IF x = r /\ r \in Entries(s) THEN 1 ELSE 0)
<1> DEFINE at == {i \in 1..Len(s) : s[i] = r}
           first == CHOOSE i \in at : \A j \in at : i <= j
           t == SubSeq(s, 1, first - 1) \o SubSeq(s, first + 1, Len(s))
<1>1. Remove(s, r) = IF at = {} THEN s ELSE t
  BY DEF Remove
<1>2. r \in Entries(s) <=> at # {}
  BY DEF Entries
<1>n. \A x : Count(s, {x}) \in Nat
  BY EntriesCount
<1>3. CASE at = {}
  <2>1. Remove(s, r) = s /\ r \notin Entries(s)
    BY <1>1, <1>2, <1>3
  <2>2. \A x : Count(s, {x}) = Count(s, {x}) - 0
    BY <1>n
  <2> QED
    BY <2>1, <2>2
<1>4. CASE at # {}
  <2>1. first \in at
    <3>1. at \in SUBSET Nat
      OBVIOUS
    <3> HIDE DEF at
    <3>2. \E i \in at : \A j \in at : i <= j
      BY <1>4, <3>1, LeastNumber
    <3> QED
      BY <3>2
  <2>2. first \in 1..Len(s) /\ s[first] = r
    BY <2>1
  <2> HIDE DEF first
  <2>3. /\ t \in Seq(A)
        /\ \A x : Count(s, {x}) = Count(t, {x}) + (IF s[first] \in {x} THEN 1 ELSE 0)
    BY <2>2, CountRemoved
  <2>4. \A x : Count(t, {x}) \in Nat
    BY <2>3, EntriesCount
  <2>5. Remove(s, r) = t
    BY <1>1, <1>4
  <2> HIDE DEF t, at
  <2>6. r \in Entries(s)
    BY <1>2, <1>4
  <2>7. ASSUME NEW x
        PROVE  Count(t, {x}) = Count(s, {x}) - (IF x = r THEN 1 ELSE 0)
    <3>1. Count(s, {x}) = Count(t, {x}) + (IF x = r THEN 1 ELSE 0)
      BY <2>2, <2>3
    <3>2. Count(s, {x}) \in Nat /\ Count(t, {x}) \in Nat
      BY <1>n, <2>4
    <3> QED
      BY <3>1, <3>2
  <2> QED
    BY <2>3, <2>5, <2>6, <2>7
<1> QED
  BY <1>3, <1>4

-----------------------------------------------------------------------------
(* Types.                                                                  *)

LEMMA AssignmentType ==
  ASSUME NEW A, NEW B, NEW f \in [A -> B], NEW x, NEW e, x \in A => e \in B
  PROVE  [f EXCEPT ![x] = e] \in [A -> B]
  OBVIOUS

LEMMA TypeUnchanged ==
  /\ SwitchTypeOK /\ UNCHANGED <<rlock, running, aborted, queue, pause>> => SwitchTypeOK'
  /\ WorkTypeOK /\ UNCHANGED workVars => WorkTypeOK'
  /\ EventTypeOK /\ UNCHANGED eventVars => EventTypeOK'
  /\ BindTypeOK /\ UNCHANGED bindVars => BindTypeOK'
  /\ HistoryTypeOK /\ UNCHANGED <<called, purged>> => HistoryTypeOK'
  BY DEF SwitchTypeOK, WorkTypeOK, workVars, EventTypeOK, eventVars, BindTypeOK, bindVars,
     HistoryTypeOK

\* The names a receiver is interested in
LEMMA NextName ==
  ASSUME BindOK, NEW r \in Receivers
  PROVE  /\ ridx[r] \in 1..Len(Interest[r]) /\ Len(Interest[r]) \in Nat
         /\ Interest[r][ridx[r]] \in Names
<1>1. ridx[r] \in 1..Len(Interest[r]) /\ Interest[r] \in Seq(Names)
  BY SwitchAssumption DEF BindOK
<1> QED
  BY <1>1

\* A thread in process() has a task.
LEMMA HasTask ==
  ASSUME WorkTypeOK, WorkOK, NEW w \in Threads, wpc[w] \in {"call", "delete"}
  PROVE  wtask[w] \in Task /\ wtask[w].ev \in Events /\ wtask[w].rcv \in Receivers
<1>1. wtask[w] \in Task
  BY DEF WorkTypeOK, WorkOK
<1> QED
  BY <1>1 DEF Task

\* The three queues
LEMMA LevelFacts ==
  ASSUME SwitchTypeOK
  PROVE  /\ Level \in Levels /\ \A l \in Levels : queue[l] \in Seq(Task)
         /\ \A e \in Events : Prio[e] \in Levels
  BY SwitchAssumption DEF Level, Levels, SwitchTypeOK

LEMMA TypeInit == Init => TypeInv
<1> SUFFICES ASSUME Init
             PROVE  TypeInv
  OBVIOUS
<1> USE DEF Init
<1>1. SwitchTypeOK
  <2>1. <<>> \in Seq(Task)
    OBVIOUS
  <2>2. queue \in [Levels -> Seq(Task)]
    BY <2>1
  <2>3. rlock \in Events \cup {None} /\ running \in BOOLEAN /\ aborted \in BOOLEAN /\ pause \in BOOLEAN
    OBVIOUS
  <2> QED
    BY <2>2, <2>3 DEF SwitchTypeOK
<1>2. WorkTypeOK
  BY DEF WorkTypeOK, WorkerStates
<1>3. EventTypeOK
  BY DEF EventTypeOK, EventStates
<1>4. BindTypeOK
  <2>1. \A S : Within(Components, S) \in Seq(Receivers)
    BY SwitchAssumption, EntriesWithin
  <2>2. list \in [Names -> Seq(Receivers)]
    BY <2>1
  <2>3. rpc \in [Receivers -> BindStates] /\ ridx \in [Receivers -> Nat]
    BY DEF BindStates
  <2> QED
    BY <2>2, <2>3 DEF BindTypeOK
<1>5. HistoryTypeOK
  BY DEF HistoryTypeOK
<1> QED
  BY <1>1, <1>2, <1>3, <1>4, <1>5 DEF TypeInv

LEMMA TypeThread ==
  ASSUME TypeInv, WorkOK, LoopTest \/ LoopEnds \/ \E w \in Threads : ThreadStep(w)
  PROVE  TypeInv'
<1> USE DEF TypeInv
<1>m. Main \in Threads
  BY DEF Threads
<1>w. ASSUME NEW w \in Threads, NEW x \in WorkerStates, wpc' = [wpc EXCEPT ![w] = x], UNCHANGED wtask
      PROVE  WorkTypeOK'
  BY <1>w DEF WorkTypeOK
<1>1. CASE LoopTest \/ LoopEnds
  <2>1. PICK x \in WorkerStates : wpc' = [wpc EXCEPT ![Main] = x] /\ UNCHANGED wtask
    <3>1. {"scan", "join", "exit"} \subseteq WorkerStates
      BY DEF WorkerStates
    <3>2. CASE LoopTest
      BY <3>1, <3>2 DEF LoopTest
    <3>3. CASE LoopEnds
      BY <3>1, <3>3 DEF LoopEnds
    <3> QED
      BY <1>1, <3>2, <3>3
  <2> QED
    BY <1>1, <1>m, <1>w, <2>1, TypeUnchanged DEF LoopTest, LoopEnds, switchVars, activeVars
<1>2. ASSUME NEW w \in Threads, WaitForTask(w) \/ Resume(w)
      PROVE  TypeInv'
  <2>1. PICK x \in WorkerStates : wpc' = [wpc EXCEPT ![w] = x] /\ UNCHANGED wtask
    <3>1. {"scan", "join", "exit", "sleep", "hold", "loop"} \subseteq WorkerStates
      BY DEF WorkerStates
    <3>2. CASE WaitForTask(w)
      BY <3>1, <3>2 DEF WaitForTask, Thrown
    <3>3. CASE Resume(w)
      BY <3>1, <3>3 DEF Resume, Again
    <3> QED
      BY <1>2, <3>2, <3>3
  <2> QED
    BY <1>2, <1>w, <2>1, TypeUnchanged DEF WaitForTask, Resume, switchVars, activeVars
<1>p. rpc' = WakePauses /\ UNCHANGED <<list, ridx>> => BindTypeOK'
  BY DEF BindTypeOK, WakePauses, BindStates
<1>3. ASSUME NEW w \in Threads, TakeTask(w)
      PROVE  TypeInv'
  <2> DEFINE q == queue[Level]
  <2>1. Level \in Levels /\ q \in Seq(Task) /\ q # <<>>
    BY <1>3, LevelFacts DEF TakeTask
  <2>2. Head(q) \in Task /\ Tail(q) \in Seq(Task)
    BY <2>1, EntriesTail
  <2>3. SwitchTypeOK'
    BY <1>3, <2>1, <2>2 DEF TakeTask, SwitchTypeOK
  <2>4. WorkTypeOK'
    <3>1. wtask' \in [Threads -> Task \cup {None}]
      BY <1>3, <2>2 DEF TakeTask, WorkTypeOK
    <3>2. wpc' \in [Threads -> WorkerStates]
      BY <1>3 DEF TakeTask, WorkTypeOK, WorkerStates
    <3> QED
      BY <3>1, <3>2 DEF WorkTypeOK
  <2> QED
    BY <1>3, <1>p, <2>3, <2>4, TypeUnchanged DEF TakeTask
<1>4. ASSUME NEW w \in Threads, CallReceiver(w)
      PROVE  TypeInv'
  <2>1. "delete" \in WorkerStates
    BY DEF WorkerStates
  <2>2. WorkTypeOK'
    BY <1>4, <1>w, <2>1 DEF CallReceiver
  <2>3. HistoryTypeOK'
    BY <1>4, HasTask DEF CallReceiver, HistoryTypeOK
  <2> QED
    BY <1>4, <2>2, <2>3, TypeUnchanged DEF CallReceiver, switchVars, activeVars
<1>5. ASSUME NEW w \in Threads, DeleteTask(w)
      PROVE  TypeInv'
  <2> DEFINE e == wtask[w].ev
  <2>1. e \in Events
    BY <1>5, HasTask DEF DeleteTask
  <2>2. WorkTypeOK'
    BY <1>5 DEF DeleteTask, WorkTypeOK, WorkerStates
  <2>3. DropReference(e) /\ UNCHANGED <<epc, todo, target>>
    BY <1>5 DEF DeleteTask
  <2> HIDE DEF e
  <2>4. EventTypeOK'
    BY <2>1, <2>3 DEF DropReference, EventTypeOK
  <2> QED
    BY <1>5, <2>2, <2>4, TypeUnchanged DEF DeleteTask, switchVars, activeVars
<1>6. ASSUME NEW w \in Threads, FinishTask(w)
      PROVE  TypeInv'
  <2>1. WorkTypeOK'
    <3>1. WakeHeld(w, IF pause THEN "hold" ELSE Again(w)) \in [Threads -> WorkerStates]
      BY DEF WakeHeld, Again, WorkTypeOK, WorkerStates
    <3> QED
      BY <1>6, <3>1 DEF FinishTask, WorkTypeOK
  <2> QED
    BY <1>6, <1>p, <2>1, TypeUnchanged DEF FinishTask, switchVars
<1> QED
  BY <1>1, <1>2, <1>3, <1>4, <1>5, <1>6 DEF ThreadStep

\* After SignalQueue a sleeper may look at the queues again.
LEMMA SignalFacts ==
  ASSUME WorkTypeOK, SignalQueue
  PROVE  /\ wpc' \in [Threads -> WorkerStates]
         /\ \A w \in Threads : wpc'[w] = wpc[w] \/ (wpc[w] = "sleep" /\ wpc'[w] = "scan")
<1> DEFINE Woken(pc) == \A w \in Threads : pc[w] = wpc[w] \/ (wpc[w] = "sleep" /\ pc[w] = "scan")
<1>t. wpc \in [Threads -> WorkerStates] /\ "scan" \in WorkerStates
  BY DEF WorkTypeOK, WorkerStates
<1>1. ASSUME wpc' = wpc
      PROVE  wpc' \in [Threads -> WorkerStates] /\ Woken(wpc')
  BY <1>t, <1>1
<1>2. ASSUME NEW w \in QueueSleepers, wpc' = [wpc EXCEPT ![w] = "scan"]
      PROVE  wpc' \in [Threads -> WorkerStates] /\ Woken(wpc')
  <2>1. w \in Threads /\ wpc[w] = "sleep"
    BY <1>2 DEF QueueSleepers
  <2>2. wpc' \in [Threads -> WorkerStates]
    BY <1>t, <1>2, <2>1
  <2>3. Woken(wpc')
    BY <1>t, <1>2, <2>1
  <2> QED
    BY <2>2, <2>3
<1>3. wpc' = wpc \/ \E w \in QueueSleepers : wpc' = [wpc EXCEPT ![w] = "scan"]
  BY DEF SignalQueue
<1> QED
  BY <1>1, <1>2, <1>3

LEMMA TypeRaiser ==
  ASSUME TypeInv, NEW e \in Events, RaiseEvent(e) \/ RaiserStep(e)
  PROVE  TypeInv'
<1> USE DEF TypeInv
<1>e. ASSUME NEW x \in EventStates, epc' = [epc EXCEPT ![e] = x],
             UNCHANGED <<todo, ref, processed, target>>, deleted' \subseteq Events
      PROVE  EventTypeOK'
  BY <1>e DEF EventTypeOK
<1>a. {AfterRaise(e), "stop", "find", "push", "returned"} \subseteq EventStates
  BY DEF AfterRaise, EventStates
<1>d. deleted \subseteq Events
  BY DEF EventTypeOK
<1>1. CASE RaiseEvent(e)
  <2>1. PICK x \in EventStates : epc' = [epc EXCEPT ![e] = x]
    BY <1>1, <1>a DEF RaiseEvent
  <2>2. EventTypeOK'
    BY <1>1, <1>d, <1>e, <2>1 DEF RaiseEvent
  <2> QED
    BY <1>1, <2>2, TypeUnchanged DEF RaiseEvent, switchVars, activeVars
<1>2. CASE StopRunning(e)
  <2>1. EventTypeOK'
    BY <1>2, <1>a, <1>d, <1>e DEF StopRunning
  <2>2. WorkTypeOK'
    BY <1>2 DEF StopRunning, WorkTypeOK, WorkerStates, Thrown
  <2>3. SwitchTypeOK'
    BY <1>2 DEF StopRunning, SwitchTypeOK, activeVars
  <2> QED
    BY <1>2, <2>1, <2>2, <2>3, TypeUnchanged DEF StopRunning
<1>3. CASE FindReceivers(e)
  <2> DEFINE receivers == list[NameOf[e]]
  <2>1. receivers \in Seq(Receivers) /\ Len(receivers) \in Nat
    BY SwitchAssumption DEF BindTypeOK
  <2>2. \/ epc' = [epc EXCEPT ![e] = AfterRaise(e)] /\ UNCHANGED <<rlock, todo, ref, target>>
        \/ /\ rlock' = e /\ epc' = [epc EXCEPT ![e] = "push"]
           /\ todo' = [todo EXCEPT ![e] = receivers]
           /\ ref' = [ref EXCEPT ![e] = Len(receivers)]
           /\ target' = [target EXCEPT ![e] = Entries(receivers)]
    BY <1>3 DEF FindReceivers, Entries
  <2>3. UNCHANGED <<switchVars, activeVars, workVars, processed, deleted, bindVars, called, purged>>
    BY <1>3 DEF FindReceivers
  <2> HIDE DEF receivers
  <2>4. Entries(receivers) \subseteq Receivers
    BY <2>1, EntriesType
  <2>5. EventTypeOK'
    <3>1. epc' \in [Events -> EventStates]
      BY <1>a, <2>2 DEF EventTypeOK
    <3>2. todo' \in [Events -> Seq(Receivers)]
      BY <2>1, <2>2 DEF EventTypeOK
    <3>3. ref' \in [Events -> Int]
      <4>1. Len(receivers) \in Int
        BY <2>1
      <4> DEFINE k == Len(receivers)
      <4> HIDE DEF k
      <4>2. ref' = [ref EXCEPT ![e] = k] \/ UNCHANGED ref
        BY <2>2 DEF k
      <4> QED
        BY <4>1, <4>2 DEF EventTypeOK, k
    <3>4. target' \in [Events -> SUBSET Receivers]
      BY <2>2, <2>4 DEF EventTypeOK
    <3> QED
      BY <2>3, <3>1, <3>2, <3>3, <3>4 DEF EventTypeOK
  <2>6. SwitchTypeOK'
    BY <2>2, <2>3 DEF SwitchTypeOK, switchVars, activeVars
  <2> QED
    BY <2>3, <2>5, <2>6, TypeUnchanged
<1>4. CASE PushTask(e)
  <2> DEFINE q == queue[Prio[e]]
             s == todo[e]
             t == [ev |-> e, rcv |-> Head(s)]
  <2>1. s \in Seq(Receivers) /\ s # <<>> /\ q \in Seq(Task) /\ Prio[e] \in Levels
    BY <1>4, LevelFacts DEF PushTask, EventTypeOK
  <2>2. Head(s) \in Receivers /\ Tail(s) \in Seq(Receivers)
    BY <2>1, EntriesTail
  <2>3. t \in Task
    BY <2>2 DEF Task
  <2>4. /\ queue' = [queue EXCEPT ![Prio[e]] = Append(q, t)]
        /\ todo' = [todo EXCEPT ![e] = Tail(s)]
        /\ SignalQueue
        /\ \/ UNCHANGED <<epc, rlock>>
           \/ epc' = [epc EXCEPT ![e] = AfterRaise(e)] /\ rlock' = None
        /\ UNCHANGED <<running, aborted, activeVars, wtask, ref, processed, target,
                       deleted, bindVars, called, purged>>
    BY <1>4 DEF PushTask
  <2> HIDE DEF q, s, t
  <2>5. Append(q, t) \in Seq(Task)
    BY <2>1, <2>3
  <2>6. SwitchTypeOK'
    BY <2>1, <2>4, <2>5 DEF SwitchTypeOK, activeVars
  <2>7. WorkTypeOK'
    BY <2>4, SignalFacts DEF WorkTypeOK
  <2>8. EventTypeOK'
    BY <1>a, <2>2, <2>4 DEF EventTypeOK
  <2> QED
    BY <2>4, <2>6, <2>7, <2>8, TypeUnchanged
<1>5. CASE BlockingReturns(e)
  <2>1. EventTypeOK'
    BY <1>5, <1>a, <1>d, <1>e DEF BlockingReturns
  <2> QED
    BY <1>5, <2>1, TypeUnchanged DEF BlockingReturns, switchVars, activeVars
<1> QED
  BY <1>1, <1>2, <1>3, <1>4, <1>5 DEF RaiserStep

LEMMA TypeBinding ==
  ASSUME TypeInv, BindOK, NEW r \in Receivers, Bind(r) \/ RemoveReceiver(r) \/ UnbindStep(r)
  PROVE  TypeInv'
<1> USE DEF TypeInv
<1> DEFINE n == Interest[r][ridx[r]]
<1>n. n \in Names /\ ridx[r] \in Nat /\ list[n] \in Seq(Receivers)
  BY NextName DEF BindTypeOK
<1> HIDE DEF n
<1>1. CASE Bind(r)
  <2>1. list' = [list EXCEPT ![n] = Append(list[n], r)]
    BY <1>1 DEF Bind, n
  <2>2. rpc' \in [Receivers -> BindStates] /\ ridx' \in [Receivers -> Nat]
    BY <1>1, <1>n DEF Bind, BindTypeOK, BindStates
  <2>3. BindTypeOK'
    BY <1>n, <2>1, <2>2 DEF BindTypeOK
  <2> QED
    BY <1>1, <2>3, TypeUnchanged DEF Bind, switchVars, activeVars
<1>2. CASE RemoveReceiver(r)
  <2>1. list' = [list EXCEPT ![n] = Remove(list[n], r)]
    BY <1>2 DEF RemoveReceiver, n
  <2>2. Remove(list[n], r) \in Seq(Receivers)
    BY <1>n, RemoveFacts
  <2>3. rpc' \in [Receivers -> BindStates] /\ ridx' \in [Receivers -> Nat]
    BY <1>2 DEF RemoveReceiver, BindTypeOK, BindStates
  <2>4. BindTypeOK'
    BY <1>n, <2>1, <2>2, <2>3 DEF BindTypeOK
  <2> QED
    BY <1>2, <2>4, TypeUnchanged DEF RemoveReceiver, switchVars, activeVars
<1>3. CASE Pause(r) \/ PauseWoken(r)
  <2>1. BindTypeOK'
    BY <1>3 DEF Pause, PauseWoken, BindTypeOK, BindStates
  <2>2. SwitchTypeOK'
    BY <1>3 DEF Pause, PauseWoken, SwitchTypeOK, switchVars, activeVars
  <2> QED
    BY <1>3, <2>1, <2>2, TypeUnchanged DEF Pause, PauseWoken
<1>4. CASE Purge(r)
  <2> DEFINE kept == Within(queue["normal"], {t \in Task : t.rcv # r})
  <2>1. queue["normal"] \in Seq(Task)
    BY DEF SwitchTypeOK, Levels
  <2>2. kept \in Seq(Task) /\ Entries(queue["normal"]) \subseteq Task
    BY <2>1, EntriesWithin, EntriesType
  <2>3. /\ queue' = [queue EXCEPT !["normal"] = kept]
        /\ purged' = purged \cup {t \in Entries(queue["normal"]) : t.rcv = r}
    BY <1>4 DEF Purge
  <2> HIDE DEF kept
  <2>4. SwitchTypeOK'
    BY <1>4, <2>2, <2>3 DEF Purge, SwitchTypeOK, activeVars
  <2>5. HistoryTypeOK'
    BY <1>4, <2>2, <2>3 DEF Purge, HistoryTypeOK
  <2>6. BindTypeOK'
    BY <1>4 DEF Purge, BindTypeOK, BindStates
  <2> QED
    BY <1>4, <2>4, <2>5, <2>6, TypeUnchanged DEF Purge
<1>5. CASE Unpause(r)
  <2>1. NextUnbind(r) \in [Receivers -> BindStates]
    BY DEF NextUnbind, BindTypeOK, BindStates
  <2>2. \A x : [NextUnbind(r) EXCEPT ![x] = "paused"] \in [Receivers -> BindStates]
    BY <2>1 DEF BindStates
  <2>3. rpc' \in [Receivers -> BindStates]
    BY <1>5, <2>1, <2>2 DEF Unpause
  <2>4. BindTypeOK'
    <3>1. ridx' \in [Receivers -> Nat]
      BY <1>5, <1>n DEF Unpause, BindTypeOK
    <3>2. list' = list
      BY <1>5 DEF Unpause
    <3> QED
      BY <2>3, <3>1, <3>2 DEF BindTypeOK
  <2>5. WorkTypeOK'
    <3>1. \A w : [wpc EXCEPT ![w] = "recheck"] \in [Threads -> WorkerStates]
      BY DEF WorkTypeOK, WorkerStates
    <3> QED
      BY <1>5, <3>1 DEF Unpause, WorkTypeOK
  <2>6. SwitchTypeOK'
    BY <1>5 DEF Unpause, SwitchTypeOK, switchVars
  <2> QED
    BY <1>5, <2>4, <2>5, <2>6, TypeUnchanged DEF Unpause
<1> QED
  BY <1>1, <1>2, <1>3, <1>4, <1>5 DEF UnbindStep

LEMMA TypeStep == TypeInv /\ WorkOK /\ BindOK /\ [Next]_vars => TypeInv'
<1>1. TypeInv /\ WorkOK /\ BindOK /\ Next => TypeInv'
  BY TypeThread, TypeRaiser, TypeBinding DEF Next
<1>2. TypeInv /\ UNCHANGED vars => TypeInv'
  BY TypeUnchanged DEF TypeInv, vars, switchVars, activeVars
<1> QED
  BY <1>1, <1>2
-----------------------------------------------------------------------------
(* Counting tasks.                                                         *)

LEMMA ThreadsFinite == IsFiniteSet(Threads)
  BY SwitchAssumption, FS_AddElement DEF Threads

LEMMA TokenSum ==
  ASSUME NEW e, NEW r
  PROVE  /\ Tokens(e, r) = InTodo(e, r) + InQueues(e, r) + InCalls(e, r) + InCalled(e, r)
                             + InPurged(e, r)
         /\ Tokens(e, r)' = InTodo(e, r)' + InQueues(e, r)' + InCalls(e, r)' + InCalled(e, r)'
                              + InPurged(e, r)'
  BY DEF Tokens

LEMMA QueueSum ==
  ASSUME NEW e, NEW r
  PROVE  /\ InQueues(e, r) = InQueue("prio", e, r) + InQueue("normal", e, r) + InQueue("low", e, r)
         /\ InQueues(e, r)' = InQueue("prio", e, r)' + InQueue("normal", e, r)'
                                + InQueue("low", e, r)'
  BY DEF InQueues

LEMMA QueueTypes ==
  ASSUME NEW e, NEW r
  PROVE  /\ TypeInv => /\ InQueues(e, r) \in Nat
                       /\ \A l \in Levels : InQueue(l, e, r) \in Nat
         /\ TypeInv' => /\ InQueues(e, r)' \in Nat
                        /\ \A l \in Levels : InQueue(l, e, r)' \in Nat
<1>l. "prio" \in Levels /\ "normal" \in Levels /\ "low" \in Levels
  BY DEF Levels
<1>1. ASSUME TypeInv, NEW l \in Levels
      PROVE  InQueue(l, e, r) \in Nat
  <2>1. queue[l] \in Seq(Task)
    BY <1>1 DEF TypeInv, SwitchTypeOK
  <2> QED
    BY <2>1, EntriesCount DEF InQueue
<1>2. ASSUME TypeInv', NEW l \in Levels
      PROVE  InQueue(l, e, r)' \in Nat
  <2>1. queue'[l] \in Seq(Task)
    BY <1>2 DEF TypeInv, SwitchTypeOK
  <2> QED
    BY <2>1, EntriesCount DEF InQueue
<1> QED
  BY <1>l, <1>1, <1>2, QueueSum

LEMMA TokenTypes ==
  ASSUME NEW e \in Events, NEW r
  PROVE  /\ TypeInv => /\ InTodo(e, r) \in Nat /\ InQueues(e, r) \in Nat /\ InCalls(e, r) \in Nat
                       /\ InCalled(e, r) \in Nat /\ InPurged(e, r) \in Nat
         /\ TypeInv' => /\ InTodo(e, r)' \in Nat /\ InQueues(e, r)' \in Nat /\ InCalls(e, r)' \in Nat
                        /\ InCalled(e, r)' \in Nat /\ InPurged(e, r)' \in Nat
<1>1. InCalls(e, r) \in Nat /\ InCalls(e, r)' \in Nat
  <2>1. Callers(e, r) \subseteq Threads /\ Callers(e, r)' \subseteq Threads
    BY DEF Callers
  <2>2. IsFiniteSet(Callers(e, r)) /\ IsFiniteSet(Callers(e, r)')
    BY <2>1, ThreadsFinite, FS_Subset
  <2> QED
    BY <2>2, FS_CardinalityType DEF InCalls
<1>2. InPurged(e, r) \in Nat /\ InPurged(e, r)' \in Nat
  BY DEF InPurged
<1>3. TypeInv => InTodo(e, r) \in Nat /\ InCalled(e, r) \in Nat
  <2>1. TypeInv => todo[e] \in Seq(Receivers) /\ called \in Seq(Task)
    BY DEF TypeInv, EventTypeOK, HistoryTypeOK
  <2> QED
    BY <2>1, EntriesCount DEF InTodo, InCalled
<1>4. TypeInv' => InTodo(e, r)' \in Nat /\ InCalled(e, r)' \in Nat
  <2>1. TypeInv' => todo'[e] \in Seq(Receivers) /\ called' \in Seq(Task)
    BY DEF TypeInv, EventTypeOK, HistoryTypeOK
  <2> QED
    BY <2>1, EntriesCount DEF InTodo, InCalled
<1> QED
  BY <1>1, <1>2, <1>3, <1>4, QueueTypes

\* Where a task is, there is a token.
LEMMA TokenPlaces ==
  ASSUME TypeInv, NEW e \in Events, NEW r \in Receivers
  PROVE  /\ r \in Entries(todo[e]) <=> InTodo(e, r) # 0
         /\ \A l \in Levels : TaskOf(e, r) \in Entries(queue[l]) <=> InQueue(l, e, r) # 0
         /\ TaskOf(e, r) \in Entries(called) <=> InCalled(e, r) # 0
         /\ Callers(e, r) # {} <=> InCalls(e, r) # 0
<1>1. todo[e] \in Seq(Receivers) /\ called \in Seq(Task)
  BY DEF TypeInv, EventTypeOK, HistoryTypeOK
<1>2. r \in Entries(todo[e]) <=> InTodo(e, r) # 0
  BY <1>1, EntriesCount DEF InTodo
<1>3. TaskOf(e, r) \in Entries(called) <=> InCalled(e, r) # 0
  BY <1>1, EntriesCount DEF InCalled
<1>4. ASSUME NEW l \in Levels
      PROVE  TaskOf(e, r) \in Entries(queue[l]) <=> InQueue(l, e, r) # 0
  <2>1. queue[l] \in Seq(Task)
    BY DEF TypeInv, SwitchTypeOK
  <2> QED
    BY <2>1, EntriesCount DEF InQueue
<1>5. Callers(e, r) # {} <=> InCalls(e, r) # 0
  <2>1. IsFiniteSet(Callers(e, r))
    BY ThreadsFinite, FS_Subset DEF Callers
  <2> QED
    BY <2>1, FS_EmptySet DEF InCalls
<1> QED
  BY <1>2, <1>3, <1>4, <1>5

\* A task is in one place only, and its receiver was meant.
LEMMA OnePlace ==
  ASSUME TypeInv, OneToken, NEW e \in Events, NEW r \in Receivers
  PROVE  /\ InTodo(e, r) + InQueues(e, r) + InCalls(e, r) + InCalled(e, r) + InPurged(e, r)
              = IF r \in target[e] THEN 1 ELSE 0
         /\ InQueues(e, r) = InQueue("prio", e, r) + InQueue("normal", e, r) + InQueue("low", e, r)
         /\ InTodo(e, r) \in Nat /\ InQueues(e, r) \in Nat /\ InCalls(e, r) \in Nat
         /\ InCalled(e, r) \in Nat /\ InPurged(e, r) \in Nat
         /\ InQueue("prio", e, r) \in Nat /\ InQueue("normal", e, r) \in Nat
         /\ InQueue("low", e, r) \in Nat
<1>1. "prio" \in Levels /\ "normal" \in Levels /\ "low" \in Levels
  BY DEF Levels
<1> QED
  BY <1>1, TokenSum, QueueSum, TokenTypes, QueueTypes DEF OneToken

\* Another queue at level l
QueueTo(l, s) == queue' = [queue EXCEPT ![l] = s]

LEMMA QueueChange ==
  ASSUME TypeInv, TypeInv', NEW l \in Levels, NEW s, QueueTo(l, s), NEW e, NEW r, NEW d \in Int,
         Count(s, {TaskOf(e, r)}) = InQueue(l, e, r) + d
  PROVE  InQueues(e, r)' = InQueues(e, r) + d
<1>1. queue'[l] = s /\ \A m \in Levels \ {l} : queue'[m] = queue[m]
  BY DEF QueueTo, TypeInv, SwitchTypeOK
<1>2. InQueue(l, e, r)' = InQueue(l, e, r) + d
  BY <1>1 DEF InQueue
<1>3. \A m \in Levels \ {l} : InQueue(m, e, r)' = InQueue(m, e, r)
  BY <1>1 DEF InQueue
<1>4. \A m \in Levels : InQueue(m, e, r) \in Nat
  BY QueueTypes
<1>5. Levels = {"prio", "normal", "low"}
  BY DEF Levels
<1>6. CASE l = "prio"
  <2>1. /\ InQueue("prio", e, r)' = InQueue("prio", e, r) + d
        /\ InQueue("normal", e, r)' = InQueue("normal", e, r)
        /\ InQueue("low", e, r)' = InQueue("low", e, r)
    BY <1>2, <1>3, <1>5, <1>6
  <2> QED
    BY <2>1, <1>4, <1>5, QueueSum
<1>7. CASE l = "normal"
  <2>1. /\ InQueue("prio", e, r)' = InQueue("prio", e, r)
        /\ InQueue("normal", e, r)' = InQueue("normal", e, r) + d
        /\ InQueue("low", e, r)' = InQueue("low", e, r)
    BY <1>2, <1>3, <1>5, <1>7
  <2> QED
    BY <2>1, <1>4, <1>5, QueueSum
<1>8. CASE l = "low"
  <2>1. /\ InQueue("prio", e, r)' = InQueue("prio", e, r)
        /\ InQueue("normal", e, r)' = InQueue("normal", e, r)
        /\ InQueue("low", e, r)' = InQueue("low", e, r) + d
    BY <1>2, <1>3, <1>5, <1>8
  <2> QED
    BY <2>1, <1>4, <1>5, QueueSum
<1> QED
  BY <1>5, <1>6, <1>7, <1>8

\* What a step leaves alone it does not count anew.
LEMMA TokensUnchanged ==
  ASSUME NEW e, NEW r
  PROVE  /\ UNCHANGED todo => InTodo(e, r)' = InTodo(e, r)
         /\ UNCHANGED queue => InQueues(e, r)' = InQueues(e, r)
         /\ UNCHANGED called => InCalled(e, r)' = InCalled(e, r)
         /\ UNCHANGED purged => InPurged(e, r)' = InPurged(e, r)
<1>1. UNCHANGED todo => InTodo(e, r)' = InTodo(e, r)
  BY DEF InTodo
<1>2. UNCHANGED queue => InQueues(e, r)' = InQueues(e, r)
  <2>1. UNCHANGED queue => \A l : InQueue(l, e, r)' = InQueue(l, e, r)
    BY DEF InQueue
  <2> QED
    BY <2>1, QueueSum
<1>3. UNCHANGED called => InCalled(e, r)' = InCalled(e, r)
  BY DEF InCalled
<1>4. UNCHANGED purged => InPurged(e, r)' = InPurged(e, r)
  BY DEF InPurged
<1> QED
  BY <1>1, <1>2, <1>3, <1>4

\* Tokens neither come nor go.
LEMMA TokensKept ==
  ASSUME OneToken, UNCHANGED target,
         \A e \in Events, r \in Receivers : Tokens(e, r)' = Tokens(e, r)
  PROVE  OneToken'
  BY DEF OneToken
-----------------------------------------------------------------------------
(* Steps that leave tasks and bindings alone.                              *)

\* No task is taken, called or deleted.
Quiet ==
  /\ wtask' = wtask
  /\ \A w \in Threads : /\ wpc'[w] = "call" <=> wpc[w] = "call"
                        /\ wpc'[w] = "delete" <=> wpc[w] = "delete"

\* Unbinding goes on, up to the purge.
Waits ==
  /\ list' = list /\ ridx' = ridx
  /\ \A r \in Receivers :
       \/ rpc'[r] = rpc[r]
       \/ rpc[r] \in Unbinding \ {"unpause"} /\ rpc'[r] \in Unbinding \ {"unpause"}

LEMMA CallersKept ==
  ASSUME NEW e, NEW r
  PROVE  Quiet => Callers(e, r)' = Callers(e, r) /\ InCalls(e, r)' = InCalls(e, r)
  BY DEF Quiet, Callers, InCalls

LEMMA OneTokenKept ==
  ASSUME OneToken, Quiet, UNCHANGED <<todo, queue, called, purged, target>>
  PROVE  OneToken'
<1>1. ASSUME NEW e \in Events, NEW r \in Receivers
      PROVE  Tokens(e, r)' = Tokens(e, r)
  <2>1. InCalls(e, r)' = InCalls(e, r)
    BY CallersKept
  <2>2. /\ InTodo(e, r)' = InTodo(e, r) /\ InQueues(e, r)' = InQueues(e, r)
        /\ InCalled(e, r)' = InCalled(e, r) /\ InPurged(e, r)' = InPurged(e, r)
    BY TokensUnchanged
  <2> QED
    BY <2>1, <2>2, TokenSum
<1> QED
  BY <1>1, TokensKept

LEMMA WorkKept ==
  ASSUME WorkOK, Quiet, UNCHANGED called
  PROVE  WorkOK'
  BY DEF WorkOK, Quiet

LEMMA RaiseKept ==
  ASSUME RaiseOK, UNCHANGED <<epc, rlock, todo, list, target, processed, deleted>>
  PROVE  RaiseOK'
  BY DEF RaiseOK

LEMMA ReferencesKept ==
  ASSUME ReferencesOK, UNCHANGED <<ref, target, called, wtask, processed, deleted>>
  PROVE  ReferencesOK'
<1>1. InHandling' = InHandling
  BY DEF InHandling
<1>2. \A e \in Events : Left(e)' = Left(e)
  BY <1>1 DEF Left, Dropped
<1> QED
  BY <1>2 DEF ReferencesOK

LEMMA BindKept ==
  ASSUME TypeInv, BindOK, Waits
  PROVE  BindOK'
<1>1. \A r \in Receivers : rpc[r] \in Unbinding <=> rpc'[r] \in Unbinding
  BY DEF Waits
<1>2. \A r \in Receivers : rpc[r] \in Unbinding \/ rpc'[r] = rpc[r]
  BY DEF Waits
<1>3. "bind" \notin Unbinding /\ "bound" \notin Unbinding
  BY DEF Unbinding
<1>4. \A r \in Receivers : \A i : MayBeBound(r, i) => MayBeBound(r, i)'
  BY <1>1, <1>2, <1>3 DEF MayBeBound, Waits
<1>5. \A r \in Receivers : rpc[r] = "bound" => rpc'[r] = "bound"
  BY <1>2, <1>3
<1>6. \A n \in Names : \A r \in Entries(list[n]) \cap Clients : r \in Receivers
  BY DEF Receivers
<1>7. /\ \A r \in Receivers : ridx'[r] \in 1..Len(Interest[r])
      /\ \A n \in Names, r \in Receivers : Count(list'[n], {r}) <= 1
  BY DEF BindOK, Waits
<1>8. \A n \in Names : \A r \in Entries(list'[n]) \cap Clients :
        \E i \in 1..Len(Interest[r]) : Interest[r][i] = n /\ MayBeBound(r, i)'
  BY <1>4, <1>6 DEF BindOK, Waits
<1>9. \A r \in Receivers \ Clients : rpc'[r] = "bound"
  BY <1>5 DEF BindOK
<1> QED
  BY <1>7, <1>8, <1>9 DEF BindOK

LEMMA PurgeKept ==
  ASSUME TypeInv, PurgeOK, Waits, UNCHANGED purged,
         Entries(queue'["normal"]) \subseteq Entries(queue["normal"])
  PROVE  PurgeOK'
<1>1. Entries(queue["normal"]) \subseteq Task /\ purged \subseteq Task
  <2>1. queue["normal"] \in Seq(Task)
    BY DEF TypeInv, SwitchTypeOK, Levels
  <2> QED
    BY <2>1, EntriesType DEF TypeInv, HistoryTypeOK
<1>2. \A t \in Task : t.rcv \in Receivers
  BY DEF Task
<1>3. ASSUME NEW t \in Entries(queue'["normal"])
      PROVE  \/ t.rcv \in Entries(list'[NameOf[t.ev]])
             \/ rpc'[t.rcv] \in Unbinding \ {"unpause"}
  <2>1. t \in Entries(queue["normal"]) /\ t.rcv \in Receivers
    BY <1>1, <1>2, <1>3
  <2>2. t.rcv \in Entries(list[NameOf[t.ev]]) \/ rpc[t.rcv] \in Unbinding \ {"unpause"}
    BY <2>1 DEF PurgeOK
  <2> QED
    BY <2>1, <2>2 DEF Waits
<1>4. ASSUME NEW t \in purged
      PROVE  \/ rpc'[t.rcv] \in {"unpause", "gone"}
             \/ rpc'[t.rcv] # "bind" /\ ridx'[t.rcv] > 1
  <2>1. t.rcv \in Receivers
    BY <1>1, <1>2, <1>4
  <2>2. \/ rpc[t.rcv] \in {"unpause", "gone"}
        \/ rpc[t.rcv] # "bind" /\ ridx[t.rcv] > 1
    BY <1>4 DEF PurgeOK
  <2> QED
    BY <2>1, <2>2 DEF Waits, Unbinding
<1> QED
  BY <1>3, <1>4 DEF PurgeOK

LEMMA NothingWaits == UNCHANGED bindVars => Waits
  BY DEF bindVars, Waits

LEMMA QuietStep ==
  ASSUME TypeInv, BindingInv, Quiet, Waits, UNCHANGED <<rlock, queue, eventVars, called, purged>>
  PROVE  BindingInv'
<1>1. OneToken'
  BY OneTokenKept DEF BindingInv, eventVars
<1>2. WorkOK'
  BY WorkKept DEF BindingInv
<1>3. RaiseOK'
  BY RaiseKept DEF BindingInv, eventVars, Waits
<1>4. ReferencesOK'
  BY ReferencesKept DEF BindingInv, eventVars, Quiet
<1>5. BindOK'
  BY BindKept DEF BindingInv
<1>6. PurgeOK'
  BY PurgeKept DEF BindingInv
<1> QED
  BY <1>1, <1>2, <1>3, <1>4, <1>5, <1>6 DEF BindingInv

\* A signal wakes nobody who has a task.
LEMMA SignalIsQuiet ==
  ASSUME TypeInv, SignalQueue, UNCHANGED wtask
  PROVE  Quiet
<1>1. \A w \in Threads : wpc'[w] = wpc[w] \/ (wpc[w] = "sleep" /\ wpc'[w] = "scan")
  BY SignalFacts DEF TypeInv
<1> QED
  BY <1>1 DEF Quiet

LEMMA WakePausesWaits ==
  ASSUME rpc' = WakePauses \/ rpc' = rpc, UNCHANGED <<list, ridx>>
  PROVE  Waits
  BY DEF WakePauses, Waits, Unbinding

\* The main loop, waiting and being on hold
LEMMA LoopKeeps ==
  ASSUME TypeInv, BindingInv, LoopTest \/ LoopEnds
  PROVE  BindingInv'
<1>m. Main \in Threads
  BY DEF Threads
<1>1. Quiet
  BY <1>m DEF LoopTest, LoopEnds, Quiet, TypeInv, WorkTypeOK
<1> QED
  BY <1>1, NothingWaits, QuietStep DEF LoopTest, LoopEnds, switchVars

LEMMA WaitingKeeps ==
  ASSUME TypeInv, BindingInv, NEW w \in Threads, WaitForTask(w) \/ Resume(w)
  PROVE  BindingInv'
<1>1. Quiet
  BY DEF WaitForTask, Resume, Thrown, Again, Quiet, TypeInv, WorkTypeOK
<1> QED
  BY <1>1, NothingWaits, QuietStep DEF WaitForTask, Resume, switchVars

LEMMA FinishTaskKeeps ==
  ASSUME TypeInv, BindingInv, NEW w \in Threads, FinishTask(w)
  PROVE  BindingInv'
<1>1. Quiet
  BY DEF FinishTask, WakeHeld, Again, Quiet
<1>2. Waits
  BY WakePausesWaits DEF FinishTask
<1> QED
  BY <1>1, <1>2, QuietStep DEF FinishTask, switchVars

LEMMA PauseKeeps ==
  ASSUME TypeInv, BindingInv, NEW r \in Receivers, Pause(r) \/ PauseWoken(r)
  PROVE  BindingInv'
<1>1. Quiet
  BY DEF Pause, PauseWoken, workVars, Quiet
<1>2. Waits
  BY DEF Pause, PauseWoken, Waits, Unbinding, TypeInv, BindTypeOK
<1> QED
  BY <1>1, <1>2, QuietStep DEF Pause, PauseWoken, switchVars
-----------------------------------------------------------------------------
(* A task is taken, its receiver called, and the task deleted.             *)

LEMMA TaskFacts ==
  /\ \A t \in Task : t.ev \in Events /\ t.rcv \in Receivers /\ t = TaskOf(t.ev, t.rcv)
  /\ \A e \in Events, r \in Receivers :
       TaskOf(e, r) \in Task /\ TaskOf(e, r).ev = e /\ TaskOf(e, r).rcv = r
  /\ None \notin Task
  BY SwitchAssumption DEF Task, TaskOf

\* A task waits in one of the queues.
Waiting(e, r) == \E l \in Levels : TaskOf(e, r) \in Entries(queue[l])

\* The places of a task exclude each other.
LEMMA Exclusive ==
  ASSUME TypeInv, OneToken, NEW e \in Events, NEW r \in Receivers
  PROVE  /\ Waiting(e, r) => /\ r \in target[e] /\ r \notin Entries(todo[e])
                             /\ Callers(e, r) = {} /\ TaskOf(e, r) \notin Entries(called) \cup purged
         /\ r \in Entries(todo[e]) =>
              /\ r \in target[e] /\ Callers(e, r) = {}
              /\ TaskOf(e, r) \notin Entries(called) \cup purged
         /\ Callers(e, r) # {} =>
              /\ r \in target[e]
              /\ TaskOf(e, r) \notin Entries(called) \cup purged
         /\ TaskOf(e, r) \in Entries(called) => r \in target[e] /\ TaskOf(e, r) \notin purged
         /\ TaskOf(e, r) \in purged => r \in target[e]
         /\ r \in target[e] => \/ Waiting(e, r) \/ r \in Entries(todo[e]) \/ Callers(e, r) # {}
                               \/ TaskOf(e, r) \in Entries(called) \/ TaskOf(e, r) \in purged
<1> DEFINE i == InTodo(e, r)
           q == InQueues(e, r)
           k == InCalls(e, r)
           c == InCalled(e, r)
           p == InPurged(e, r)
<1>1. i + q + k + c + p = IF r \in target[e] THEN 1 ELSE 0
  BY OnePlace
<1>2. i \in Nat /\ q \in Nat /\ k \in Nat /\ c \in Nat /\ p \in Nat
  BY OnePlace
<1>3. r \in Entries(todo[e]) <=> i # 0
  BY TokenPlaces
<1>4. TaskOf(e, r) \in Entries(called) <=> c # 0
  BY TokenPlaces
<1>5. Callers(e, r) # {} <=> k # 0
  BY TokenPlaces
<1>6. TaskOf(e, r) \in purged <=> p # 0
  BY DEF InPurged
<1>7. Waiting(e, r) <=> q # 0
  <2>1. \A l \in Levels : TaskOf(e, r) \in Entries(queue[l]) <=> InQueue(l, e, r) # 0
    BY TokenPlaces
  <2>2. Waiting(e, r) <=> \/ InQueue("prio", e, r) # 0 \/ InQueue("normal", e, r) # 0
                          \/ InQueue("low", e, r) # 0
    BY <2>1 DEF Waiting, Levels
  <2> QED
    BY <2>2, OnePlace
<1> HIDE DEF i, q, k, c, p
<1> QED
  BY <1>1, <1>2, <1>3, <1>4, <1>5, <1>6, <1>7

\* Only a thread that is in process() with a task is handling it.
LEMMA HandledBy ==
  ASSUME TypeInv, OneToken, WorkOK, NEW w \in Threads, wtask[w] # None
  PROVE  LET t == wtask[w] IN
         /\ t \in Task /\ t.rcv \in target[t.ev]
         /\ \/ wpc[w] = "call" /\ w \in Callers(t.ev, t.rcv)
            \/ wpc[w] = "delete" /\ t \in Entries(called)
<1> DEFINE t == wtask[w]
<1>1. wpc[w] \in {"call", "delete"} /\ t \in Task
  BY DEF WorkOK, TypeInv, WorkTypeOK
<1>2. t.ev \in Events /\ t.rcv \in Receivers /\ t = TaskOf(t.ev, t.rcv)
  BY <1>1, TaskFacts
<1>3. CASE wpc[w] = "call"
  <2>1. w \in Callers(t.ev, t.rcv)
    BY <1>2, <1>3 DEF Callers
  <2> QED
    BY <1>1, <1>2, <1>3, <2>1, Exclusive
<1>4. CASE wpc[w] = "delete"
  <2>1. t \in Entries(called)
    BY <1>4 DEF WorkOK
  <2> QED
    BY <1>1, <1>2, <1>4, <2>1, Exclusive
<1> QED
  BY <1>1, <1>3, <1>4

\* What waits in a queue nobody handles, and it has not been called.
LEMMA WaitingOnly ==
  ASSUME TypeInv, OneToken, WorkOK, NEW l \in Levels, NEW t \in Entries(queue[l])
  PROVE  /\ t \in Task /\ t.rcv \in target[t.ev]
         /\ t \notin InHandling /\ t \notin Entries(called)
         /\ \A v \in Threads : wtask[v] # t
<1>1. t \in Task
  <2>1. queue[l] \in Seq(Task)
    BY DEF TypeInv, SwitchTypeOK
  <2> QED
    BY <2>1, EntriesType
<1>2. t.ev \in Events /\ t.rcv \in Receivers /\ t = TaskOf(t.ev, t.rcv) /\ t # None
  BY <1>1, TaskFacts
<1>3. Waiting(t.ev, t.rcv)
  BY <1>2 DEF Waiting
<1>4. /\ t.rcv \in target[t.ev] /\ Callers(t.ev, t.rcv) = {} /\ t \notin Entries(called)
  BY <1>2, <1>3, Exclusive
<1>5. ASSUME NEW v \in Threads, wtask[v] = t
      PROVE  FALSE
  <2>1. v \in Callers(t.ev, t.rcv) \/ t \in Entries(called)
    BY <1>2, <1>5, HandledBy
  <2> QED
    BY <1>4, <2>1
<1> QED
  BY <1>1, <1>4, <1>5 DEF InHandling

LEMMA TakeTaskKeeps ==
  ASSUME TypeInv, TypeInv', BindingInv, NEW w \in Threads, TakeTask(w)
  PROVE  BindingInv'
<1> DEFINE l == Level
           q == queue[l]
           t == Head(q)
           s == Tail(q)
<1>0. /\ l \in Levels /\ q \in Seq(Task) /\ q # <<>> /\ q = queue[l]
  BY LevelFacts DEF TakeTask, TypeInv
<1>1. /\ wpc[w] = "scan"
      /\ wtask' = [wtask EXCEPT ![w] = t]
      /\ queue' = [queue EXCEPT ![l] = s]
      /\ UNCHANGED <<list, rlock, eventVars, ridx, called, purged>>
  BY DEF TakeTask
<1>2. t \in Entries(q) /\ Entries(s) \subseteq Entries(q) /\ s \in Seq(Task)
  BY <1>0, EntriesTail
<1>3. ASSUME NEW x
      PROVE  Count(q, {x}) = Count(s, {x}) + (IF t = x THEN 1 ELSE 0)
  <2>1. Count(q, {x}) = Count(s, {x}) + (IF t \in {x} THEN 1 ELSE 0)
    BY <1>0, CountTail
  <2> QED
    BY <2>1
<1>4. /\ wpc'[w] = "call"
      /\ \A v \in Threads \ {w} : /\ wpc'[v] = "call" <=> wpc[v] = "call"
                                  /\ wpc'[v] = "delete" <=> wpc[v] = "delete"
  BY DEF TakeTask
<1>5. Waits
  BY WakePausesWaits DEF TakeTask
<1> HIDE DEF l, q, t, s
<1>6. /\ t \in Task /\ t \notin Entries(called) /\ t \notin InHandling
      /\ \A v \in Threads : wtask[v] # t
  BY <1>0, <1>2, WaitingOnly DEF BindingInv
<1>7. wtask'[w] = t /\ \A v \in Threads \ {w} : wtask'[v] = wtask[v]
  BY <1>1 DEF TypeInv, WorkTypeOK
<1>8. wtask[w] = None
  BY <1>1 DEF BindingInv, WorkOK
<1>9. ASSUME NEW e \in Events, NEW r \in Receivers
      PROVE  Tokens(e, r)' = Tokens(e, r)
  <2> DEFINE d == IF t = TaskOf(e, r) THEN 1 ELSE 0
  <2>1. Count(s, {TaskOf(e, r)}) = InQueue(l, e, r) + (0 - d)
    <3>1. InQueue(l, e, r) = Count(s, {TaskOf(e, r)}) + d
      BY <1>0, <1>3 DEF InQueue
    <3>2. Count(s, {TaskOf(e, r)}) \in Nat
      BY <1>2, EntriesCount
    <3> QED
      BY <3>1, <3>2
  <2>2. InQueues(e, r)' = InQueues(e, r) + (0 - d)
    <3>1. QueueTo(l, s)
      BY <1>1 DEF QueueTo
    <3>2. 0 - d \in Int
      OBVIOUS
    <3> QED
      BY <1>0, <2>1, <3>1, <3>2, QueueChange
  <2>3. InCalls(e, r)' = InCalls(e, r) + d
    <3>1. w \notin Callers(e, r) /\ IsFiniteSet(Callers(e, r))
      <4>1. Callers(e, r) \subseteq Threads
        BY DEF Callers
      <4> QED
        BY <1>1, <4>1, ThreadsFinite, FS_Subset DEF Callers
    <3>2. CASE t = TaskOf(e, r)
      <4>1. Callers(e, r)' = Callers(e, r) \cup {w}
        BY <1>4, <1>7, <3>2 DEF Callers
      <4> QED
        BY <3>1, <3>2, <4>1, FS_AddElement DEF InCalls
    <3>3. CASE t # TaskOf(e, r)
      <4>1. Callers(e, r)' = Callers(e, r)
        BY <1>1, <1>4, <1>7, <3>3 DEF Callers
      <4>2. InCalls(e, r) \in Nat
        BY TokenTypes
      <4> QED
        BY <3>3, <4>1, <4>2 DEF InCalls
    <3> QED
      BY <3>2, <3>3
  <2>4. /\ InTodo(e, r)' = InTodo(e, r) /\ InCalled(e, r)' = InCalled(e, r)
        /\ InPurged(e, r)' = InPurged(e, r)
    BY <1>1, TokensUnchanged DEF eventVars
  <2>5. d \in Int
    OBVIOUS
  <2>6. /\ InTodo(e, r) \in Nat /\ InQueues(e, r) \in Nat /\ InCalls(e, r) \in Nat
        /\ InCalled(e, r) \in Nat /\ InPurged(e, r) \in Nat
    BY TokenTypes
  <2> HIDE DEF d
  <2> QED
    BY <2>2, <2>3, <2>4, <2>5, <2>6, TokenSum
<1>10. OneToken'
  BY <1>1, <1>9, TokensKept DEF BindingInv, eventVars
<1>11. WorkOK'
  <2>1. t # None
    BY <1>6, TaskFacts
  <2>2. \A v \in Threads : wtask'[v] = None <=> wpc'[v] \notin {"call", "delete"}
    BY <1>4, <1>7, <2>1 DEF BindingInv, WorkOK
  <2>3. \A v \in Threads : wpc'[v] = "delete" => wtask'[v] \in Entries(called')
    BY <1>1, <1>4, <1>7 DEF BindingInv, WorkOK
  <2>4. \A u, v \in Threads : wtask'[u] = wtask'[v] /\ wtask'[u] # None => u = v
    BY <1>6, <1>7 DEF BindingInv, WorkOK
  <2> QED
    BY <2>2, <2>3, <2>4 DEF WorkOK
<1>12. RaiseOK'
  BY <1>1, RaiseKept DEF BindingInv, eventVars
<1>13. ReferencesOK'
  <2>1. InHandling' = InHandling \cup {t}
    <3>1. t # None
      BY <1>6, TaskFacts
    <3> QED
      BY <1>7, <1>8, <3>1 DEF InHandling
  <2>2. \A e \in Events : Left(e)' = Left(e)
    BY <1>1, <1>6, <2>1 DEF Left, Dropped, eventVars
  <2> QED
    BY <1>1, <2>2 DEF BindingInv, ReferencesOK, eventVars
<1>14. BindOK'
  BY <1>5, BindKept DEF BindingInv
<1>15. PurgeOK'
  <2>1. Entries(queue'["normal"]) \subseteq Entries(queue["normal"])
    <3>1. CASE l = "normal"
      BY <1>0, <1>1, <1>2, <3>1 DEF TypeInv, SwitchTypeOK
    <3>2. CASE l # "normal"
      BY <1>0, <1>1, <3>2 DEF TypeInv, SwitchTypeOK, Levels
    <3> QED
      BY <3>1, <3>2
  <2> QED
    BY <1>1, <1>5, <2>1, PurgeKept DEF BindingInv
<1> QED
  BY <1>10, <1>11, <1>12, <1>13, <1>14, <1>15 DEF BindingInv
LEMMA CallReceiverKeeps ==
  ASSUME TypeInv, TypeInv', BindingInv, NEW w \in Threads, CallReceiver(w)
  PROVE  BindingInv'
<1> DEFINE t == wtask[w]
<1>1. /\ wpc[w] = "call"
      /\ called' = Append(called, t)
      /\ wpc' = [wpc EXCEPT ![w] = "delete"]
      /\ UNCHANGED <<rlock, queue, wtask, eventVars, bindVars, purged>>
  BY DEF CallReceiver, switchVars
<1>2. t \in Task /\ w \in Callers(t.ev, t.rcv) /\ t \in InHandling
  <2>1. wtask[w] # None
    BY <1>1 DEF BindingInv, WorkOK
  <2> QED
    BY <1>1, <2>1, HandledBy DEF BindingInv, InHandling
<1>3. t.ev \in Events /\ t.rcv \in Receivers /\ t = TaskOf(t.ev, t.rcv) /\ t # None
  BY <1>2, TaskFacts
<1>4. called \in Seq(Task)
  BY DEF TypeInv, HistoryTypeOK
<1>5. wpc'[w] = "delete" /\ \A v \in Threads \ {w} : wpc'[v] = wpc[v]
  BY <1>1 DEF TypeInv, WorkTypeOK
<1>6. wtask[w] = t
  OBVIOUS
<1> HIDE DEF t
<1>7. Entries(called') = Entries(called) \cup {t}
  BY <1>1, <1>2, <1>4, EntriesAppend
<1>8. Waits
  BY <1>1, NothingWaits
<1>9. ASSUME NEW e \in Events, NEW r \in Receivers
      PROVE  Tokens(e, r)' = Tokens(e, r)
  <2> DEFINE d == IF t = TaskOf(e, r) THEN 1 ELSE 0
  <2>1. InCalled(e, r)' = InCalled(e, r) + d
    <3>1. Count(Append(called, t), {TaskOf(e, r)})
            = Count(called, {TaskOf(e, r)}) + (IF t \in {TaskOf(e, r)} THEN 1 ELSE 0)
      BY <1>2, <1>4, CountAppend
    <3> QED
      BY <1>1, <3>1 DEF InCalled
  <2>2. InCalls(e, r) = InCalls(e, r)' + d
    <3>1. IsFiniteSet(Callers(e, r)) /\ IsFiniteSet(Callers(e, r)') /\ w \notin Callers(e, r)'
      <4>1. Callers(e, r) \subseteq Threads /\ Callers(e, r)' \subseteq Threads
        BY DEF Callers
      <4> QED
        BY <1>5, <4>1, ThreadsFinite, FS_Subset DEF Callers
    <3>2. CASE t = TaskOf(e, r)
      <4>1. Callers(e, r) = Callers(e, r)' \cup {w}
        BY <1>1, <1>5, <1>6, <3>2 DEF Callers
      <4> QED
        BY <3>1, <3>2, <4>1, FS_AddElement DEF InCalls
    <3>3. CASE t # TaskOf(e, r)
      <4>1. Callers(e, r) = Callers(e, r)'
        BY <1>1, <1>5, <1>6, <3>3 DEF Callers
      <4>2. InCalls(e, r) \in Nat
        BY TokenTypes
      <4> QED
        BY <3>3, <4>1, <4>2 DEF InCalls
    <3> QED
      BY <3>2, <3>3
  <2>3. /\ InTodo(e, r)' = InTodo(e, r) /\ InQueues(e, r)' = InQueues(e, r)
        /\ InPurged(e, r)' = InPurged(e, r)
    BY <1>1, TokensUnchanged DEF eventVars
  <2>4. d \in Int
    OBVIOUS
  <2>5. /\ InTodo(e, r) \in Nat /\ InQueues(e, r) \in Nat /\ InCalls(e, r)' \in Nat
        /\ InCalled(e, r) \in Nat /\ InPurged(e, r) \in Nat
    BY TokenTypes
  <2> HIDE DEF d
  <2> QED
    BY <2>1, <2>2, <2>3, <2>4, <2>5, TokenSum
<1>10. OneToken'
  BY <1>1, <1>9, TokensKept DEF BindingInv, eventVars
<1>11. WorkOK'
  <2>1. \A v \in Threads : wtask'[v] = None <=> wpc'[v] \notin {"call", "delete"}
    BY <1>1, <1>5 DEF BindingInv, WorkOK
  <2>2. \A v \in Threads : wpc'[v] = "delete" => wtask'[v] \in Entries(called')
    BY <1>1, <1>5, <1>6, <1>7 DEF BindingInv, WorkOK
  <2> QED
    BY <1>1, <2>1, <2>2 DEF BindingInv, WorkOK
<1>12. RaiseOK'
  BY <1>1, RaiseKept DEF BindingInv, eventVars, bindVars
<1>13. ReferencesOK'
  <2>1. InHandling' = InHandling
    BY <1>1 DEF InHandling
  <2>2. \A e \in Events : Left(e)' = Left(e)
    BY <1>1, <1>2, <1>7, <2>1 DEF Left, Dropped, eventVars
  <2> QED
    BY <1>1, <2>2 DEF BindingInv, ReferencesOK, eventVars
<1>14. BindOK'
  BY <1>8, BindKept DEF BindingInv
<1>15. PurgeOK'
  BY <1>1, <1>8, PurgeKept DEF BindingInv
<1> QED
  BY <1>10, <1>11, <1>12, <1>13, <1>14, <1>15 DEF BindingInv

\* The last receiver whose task is deleted takes the event along.
LEMMA DeleteTaskKeeps ==
  ASSUME TypeInv, TypeInv', BindingInv, NEW w \in Threads, DeleteTask(w)
  PROVE  BindingInv'
<1>0. wtask[w] \in Task /\ wpc[w] = "delete"
  BY HasTask DEF DeleteTask, TypeInv, BindingInv
<1>t. PICK t \in Task, f \in Events, x \in Receivers : t = wtask[w] /\ f = t.ev /\ x = t.rcv
  BY <1>0, TaskFacts
<1>1. /\ wpc[w] = "delete"
      /\ DropReference(f)
      /\ wtask' = [wtask EXCEPT ![w] = None]
      /\ wpc' = [wpc EXCEPT ![w] = "done"]
      /\ UNCHANGED <<rlock, queue, epc, todo, target, bindVars, called, purged>>
  BY <1>t DEF DeleteTask, switchVars
<1>3. t = TaskOf(f, x) /\ t # None
  BY <1>t, TaskFacts
<1>2. t \in Entries(called) /\ t \in InHandling /\ x \in target[f]
  BY <1>1, <1>3, <1>t, HandledBy DEF BindingInv, InHandling
<1>4. /\ wpc'[w] = "done" /\ \A v \in Threads \ {w} : wpc'[v] = wpc[v]
      /\ wtask'[w] = None /\ \A v \in Threads \ {w} : wtask'[v] = wtask[v]
  BY <1>1 DEF TypeInv, WorkTypeOK
<1>5. wtask[w] = t
  BY <1>t
<1>6. \A v \in Threads \ {w} : wtask[v] # t
  BY <1>3, <1>5 DEF BindingInv, WorkOK
<1>7. InHandling' = InHandling \ {t}
  BY <1>4, <1>5, <1>6 DEF InHandling
<1>8. Waits
  BY <1>1, NothingWaits
<1>9. ASSUME NEW e \in Events, NEW r \in Receivers
      PROVE  Tokens(e, r)' = Tokens(e, r)
  <2>1. Callers(e, r)' = Callers(e, r)
    BY <1>1, <1>4 DEF Callers
  <2>2. InCalls(e, r)' = InCalls(e, r)
    BY <2>1 DEF InCalls
  <2>3. /\ InTodo(e, r)' = InTodo(e, r) /\ InQueues(e, r)' = InQueues(e, r)
        /\ InCalled(e, r)' = InCalled(e, r) /\ InPurged(e, r)' = InPurged(e, r)
    BY <1>1, TokensUnchanged
  <2> QED
    BY <2>2, <2>3, TokenSum
<1>10. OneToken'
  BY <1>1, <1>9, TokensKept DEF BindingInv
<1>11. WorkOK'
  <2>1. \A v \in Threads : wtask'[v] = None <=> wpc'[v] \notin {"call", "delete"}
    BY <1>4 DEF BindingInv, WorkOK
  <2>2. \A v \in Threads : wpc'[v] = "delete" => wtask'[v] \in Entries(called')
    BY <1>1, <1>4 DEF BindingInv, WorkOK
  <2>3. \A u, v \in Threads : wtask'[u] = wtask'[v] /\ wtask'[u] # None => u = v
    BY <1>4 DEF BindingInv, WorkOK
  <2> QED
    BY <2>1, <2>2, <2>3 DEF WorkOK
<1>12. /\ Left(f)' = Left(f) \ {x} /\ x \in Left(f)
       /\ \A e \in Events \ {f} : Left(e)' = Left(e)
  <2>1. Dropped(f)' = Dropped(f) \cup {x} /\ x \notin Dropped(f)
    <3>1. \A r \in Receivers : TaskOf(f, r) = t <=> r = x
      BY <1>3, TaskFacts
    <3> QED
      BY <1>1, <1>2, <1>3, <1>7, <3>1 DEF Dropped
  <2>2. \A e \in Events \ {f} : Dropped(e)' = Dropped(e)
    <3>1. \A e \in Events \ {f}, r \in Receivers : TaskOf(e, r) # t
      BY <1>3, TaskFacts
    <3> QED
      BY <1>1, <1>7, <3>1 DEF Dropped
  <2> QED
    BY <1>1, <1>2, <2>1, <2>2 DEF Left
<1>13. ref[f] = Cardinality(Left(f)')+ 1 /\ Cardinality(Left(f)') \in Nat
  <2>1. IsFiniteSet(Left(f))
    <3>1. IsFiniteSet(target[f])
      BY <1>3 DEF BindingInv, RaiseOK
    <3> QED
      BY <3>1, FS_Subset DEF Left
  <2>2. IsFiniteSet(Left(f)') /\ Left(f) = Left(f)' \cup {x} /\ x \notin Left(f)'
    BY <1>12, <2>1, FS_Subset
  <2>3. Cardinality(Left(f)) = Cardinality(Left(f)') + 1 /\ Cardinality(Left(f)') \in Nat
    BY <2>2, FS_AddElement, FS_CardinalityType
  <2> QED
    BY <1>3, <2>3 DEF BindingInv, ReferencesOK
<1>14. /\ ref'[f] = Cardinality(Left(f)')
       /\ \A e \in Events \ {f} : ref'[e] = ref[e] /\ processed'[e] = processed[e]
       /\ processed'[f] <=> ref'[f] = 0
       /\ deleted' = IF ref'[f] = 0 /\ f \notin Blocking THEN deleted \cup {f} ELSE deleted
  <2>1. ref[f] - 1 = Cardinality(Left(f)') /\ (ref[f] = 1 <=> Cardinality(Left(f)') = 0)
    BY <1>13
  <2> QED
    BY <1>1, <1>3, <2>1 DEF DropReference, TypeInv, EventTypeOK
<1>15. ~processed[f] /\ f \notin deleted
  BY <1>3, <1>13 DEF BindingInv, ReferencesOK
<1>16. RaiseOK'
  <2>1. epc[f] \notin {"new", "stop", "find"}
    BY <1>2, <1>3 DEF BindingInv, RaiseOK
  <2>2. \A e \in Events \ {f} : processed'[e] = processed[e] /\ (e \in deleted' <=> e \in deleted)
    BY <1>14
  <2> QED
    BY <1>1, <2>1, <2>2 DEF BindingInv, RaiseOK, bindVars
<1>17. ReferencesOK'
  <2>1. ASSUME NEW e \in Events
        PROVE  /\ ref'[e] = Cardinality(Left(e)')
               /\ processed'[e] \/ e \in deleted' => ref'[e] = 0
               /\ e \notin Blocking /\ target'[e] # {} /\ ref'[e] = 0 => e \in deleted'
    <3>1. CASE e = f
      BY <1>14, <1>15, <3>1
    <3>2. CASE e # f
      BY <1>1, <1>12, <1>14, <3>2 DEF BindingInv, ReferencesOK
    <3> QED
      BY <3>1, <3>2
  <2> QED
    BY <2>1 DEF ReferencesOK
<1>18. BindOK'
  BY <1>8, BindKept DEF BindingInv
<1>19. PurgeOK'
  BY <1>1, <1>8, PurgeKept DEF BindingInv
<1> QED
  BY <1>10, <1>11, <1>16, <1>17, <1>18, <1>19 DEF BindingInv
-----------------------------------------------------------------------------
(* An event is raised.                                                     *)

\* A raiser that holds no lock stays without it, and starts with no targets.
LEMMA RaiserKeeps ==
  ASSUME TypeInv, BindingInv, NEW e \in Events, RaiseEvent(e) \/ StopRunning(e)
  PROVE  BindingInv'
<1>1. /\ UNCHANGED <<rlock, queue, todo, ref, processed, target, deleted, bindVars, called, purged>>
      /\ epc[e] \in {"new", "stop"}
  BY DEF RaiseEvent, StopRunning, switchVars
<1>2. Quiet
  <2>1. CASE RaiseEvent(e)
    BY <2>1 DEF RaiseEvent, workVars, Quiet
  <2>2. CASE StopRunning(e)
    BY <2>2 DEF StopRunning, Thrown, Quiet
  <2> QED
    BY <2>1, <2>2
<1>3. Waits
  BY <1>1, NothingWaits
<1>4. OneToken'
  BY <1>1, <1>2, OneTokenKept DEF BindingInv
<1>5. WorkOK'
  BY <1>1, <1>2, WorkKept DEF BindingInv
<1>6. RaiseOK'
  <2>1. epc'[e] # "push" /\ \A f \in Events \ {e} : epc'[f] = epc[f]
    BY DEF RaiseEvent, StopRunning, AfterRaise, TypeInv, EventTypeOK
  <2> QED
    BY <1>1, <2>1 DEF BindingInv, RaiseOK, bindVars
<1>7. ReferencesOK'
  BY <1>1, <1>2, ReferencesKept DEF BindingInv, Quiet
<1>8. BindOK'
  BY <1>3, BindKept DEF BindingInv
<1>9. PurgeOK'
  BY <1>1, <1>3, PurgeKept DEF BindingInv
<1> QED
  BY <1>4, <1>5, <1>6, <1>7, <1>8, <1>9 DEF BindingInv

\* Nobody is raised a task twice: no receiver is twice in the list.
LEMMA FindReceiversKeeps ==
  ASSUME TypeInv, TypeInv', BindingInv, NEW e \in Events, FindReceivers(e)
  PROVE  BindingInv'
<1>n. NameOf[e] \in Names
  BY SwitchAssumption
<1>s. PICK s \in Seq(Receivers) : s = list[NameOf[e]]
  BY <1>n DEF TypeInv, BindTypeOK
<1>1. /\ epc[e] = "find" /\ rlock = None
      /\ UNCHANGED <<queue, processed, deleted, called, purged, workVars, bindVars>>
      /\ \/ /\ s = <<>> /\ epc' = [epc EXCEPT ![e] = AfterRaise(e)]
            /\ UNCHANGED <<rlock, todo, ref, target>>
         \/ /\ s # <<>> /\ rlock' = e /\ epc' = [epc EXCEPT ![e] = "push"]
            /\ todo' = [todo EXCEPT ![e] = s]
            /\ ref' = [ref EXCEPT ![e] = Len(s)]
            /\ target' = [target EXCEPT ![e] = Entries(s)]
  BY <1>s DEF FindReceivers, Entries, switchVars
<1>2. Quiet
  BY <1>1 DEF workVars, Quiet
<1>3. Waits
  BY <1>1, NothingWaits
<1>4. WorkOK'
  BY <1>1, <1>2, WorkKept DEF BindingInv
<1>5. BindOK'
  BY <1>3, BindKept DEF BindingInv
<1>6. PurgeOK'
  BY <1>1, <1>3, PurgeKept DEF BindingInv
<1>7. target[e] = {} /\ ~processed[e] /\ e \notin deleted
  BY <1>1 DEF BindingInv, RaiseOK
<1>8. CASE s = <<>>
  <2>1. UNCHANGED <<rlock, todo, ref, target>> /\ epc' = [epc EXCEPT ![e] = AfterRaise(e)]
    BY <1>1, <1>8
  <2>2. OneToken'
    BY <1>1, <1>2, <2>1, OneTokenKept DEF BindingInv
  <2>3. ReferencesOK'
    BY <1>1, <1>2, <2>1, ReferencesKept DEF BindingInv, Quiet
  <2>4. RaiseOK'
    <3>1. /\ epc'[e] \in {"blocked", "returned"}
          /\ \A f \in Events \ {e} : epc'[f] = epc[f]
      BY <2>1 DEF AfterRaise, TypeInv, EventTypeOK
    <3> QED
      BY <1>1, <2>1, <3>1 DEF BindingInv, RaiseOK, bindVars
  <2> QED
    BY <1>4, <1>5, <1>6, <2>2, <2>3, <2>4 DEF BindingInv
<1>9. CASE s # <<>>
  <2>1. /\ rlock' = e
        /\ epc'[e] = "push" /\ \A f \in Events \ {e} : epc'[f] = epc[f]
        /\ todo'[e] = s /\ \A f \in Events \ {e} : todo'[f] = todo[f]
        /\ target'[e] = Entries(s) /\ \A f \in Events \ {e} : target'[f] = target[f]
    BY <1>1, <1>9 DEF TypeInv, EventTypeOK
  <2>2. ref'[e] = Len(s) /\ \A f \in Events \ {e} : ref'[f] = ref[f]
    <3> DEFINE k == Len(s)
    <3>1. ref' = [ref EXCEPT ![e] = k]
      BY <1>1, <1>9
    <3> HIDE DEF k
    <3>2. ref'[e] = k /\ \A f \in Events \ {e} : ref'[f] = ref[f]
      BY <3>1 DEF TypeInv, EventTypeOK
    <3> QED
      BY <3>2 DEF k
  <2>3. \A r \in Receivers : Count(s, {r}) <= 1
    BY <1>n, <1>s DEF BindingInv, BindOK
  <2>4. IsFiniteSet(Entries(s)) /\ Cardinality(Entries(s)) = Len(s)
    BY <2>3, DistinctEntries
  <2>5. ASSUME NEW f \in Events, NEW r \in Receivers
        PROVE  Tokens(f, r)' = IF r \in target'[f] THEN 1 ELSE 0
    <3>1. /\ InCalls(f, r)' = InCalls(f, r) /\ InQueues(f, r)' = InQueues(f, r)
          /\ InCalled(f, r)' = InCalled(f, r) /\ InPurged(f, r)' = InPurged(f, r)
      BY <1>1, <1>2, CallersKept, TokensUnchanged
    <3>2. CASE f # e
      <4>1. InTodo(f, r)' = InTodo(f, r) /\ target'[f] = target[f]
        BY <2>1, <3>2 DEF InTodo
      <4>2. Tokens(f, r)' = Tokens(f, r)
        BY <3>1, <4>1, TokenSum
      <4> QED
        BY <4>1, <4>2 DEF BindingInv, OneToken
    <3>3. CASE f = e
      <4>1. /\ InTodo(e, r) + InQueues(e, r) + InCalls(e, r) + InCalled(e, r) + InPurged(e, r) = 0
            /\ InTodo(e, r) \in Nat /\ InQueues(e, r) \in Nat /\ InCalls(e, r) \in Nat
            /\ InCalled(e, r) \in Nat /\ InPurged(e, r) \in Nat
        BY <1>7, OnePlace DEF BindingInv
      <4>2. InTodo(e, r)' = IF r \in Entries(s) THEN 1 ELSE 0
        <5>1. InTodo(e, r)' = Count(s, {r})
          BY <2>1 DEF InTodo
        <5>2. Count(s, {r}) \in Nat /\ (r \in Entries(s) <=> Count(s, {r}) # 0)
          BY EntriesCount
        <5> QED
          BY <2>3, <5>1, <5>2
      <4>3. Tokens(e, r)' = InTodo(e, r)'
        <5> DEFINE j == InTodo(e, r)'
        <5>1. j \in Nat
          BY <4>2
        <5> HIDE DEF j
        <5>2. Tokens(e, r)' = j + InQueues(e, r) + InCalls(e, r) + InCalled(e, r) + InPurged(e, r)
          BY <3>1, <3>3, TokenSum DEF j
        <5>3. Tokens(e, r)' = j
          BY <4>1, <5>1, <5>2
        <5> QED
          BY <5>3 DEF j
      <4> QED
        BY <2>1, <3>3, <4>2, <4>3
    <3> QED
      BY <3>2, <3>3
  <2>6. OneToken'
    BY <2>5 DEF OneToken
  <2>7. RaiseOK'
    <3>1. \A f \in Events : epc[f] # "push"
      BY <1>1, SwitchAssumption DEF BindingInv, RaiseOK
    <3>2. ASSUME NEW f \in Events
          PROVE  /\ epc'[f] = "push" <=> rlock' = f
                 /\ epc'[f] = "push" <=> todo'[f] # <<>>
                 /\ Entries(todo'[f]) \subseteq Entries(list'[NameOf[f]])
                 /\ epc'[f] \in {"new", "stop", "find"} =>
                      target'[f] = {} /\ ~processed'[f] /\ f \notin deleted'
                 /\ IsFiniteSet(target'[f])
      <4>1. CASE f = e
        BY <1>1, <1>9, <1>s, <2>1, <2>4, <4>1 DEF bindVars
      <4>2. CASE f # e
        BY <1>1, <2>1, <3>1, <4>2 DEF BindingInv, RaiseOK, bindVars
      <4> QED
        BY <4>1, <4>2
    <3> QED
      BY <3>2 DEF RaiseOK
  <2>8. ReferencesOK'
    <3>1. InHandling' = InHandling
      BY <1>1 DEF InHandling, workVars
    <3>2. \A f \in Events : Dropped(f)' = Dropped(f)
      BY <1>1, <3>1 DEF Dropped
    <3>3. Dropped(e) = {}
      <4>1. \A r \in Receivers : TaskOf(e, r) \notin Entries(called)
        BY <1>7, Exclusive DEF BindingInv
      <4> QED
        BY <4>1 DEF Dropped
    <3>4. Left(e)' = Entries(s) /\ \A f \in Events \ {e} : Left(f)' = Left(f)
      BY <2>1, <3>2, <3>3 DEF Left
    <3>5. Len(s) # 0
      BY <1>9
    <3>6. ASSUME NEW f \in Events
          PROVE  /\ ref'[f] = Cardinality(Left(f)')
                 /\ processed'[f] \/ f \in deleted' => ref'[f] = 0
                 /\ f \notin Blocking /\ target'[f] # {} /\ ref'[f] = 0 => f \in deleted'
      <4>1. CASE f = e
        BY <1>1, <1>7, <2>2, <2>4, <3>4, <3>5, <4>1
      <4>2. CASE f # e
        BY <1>1, <2>1, <2>2, <3>4, <4>2 DEF BindingInv, ReferencesOK
      <4> QED
        BY <4>1, <4>2
    <3> QED
      BY <3>6 DEF ReferencesOK
  <2> QED
    BY <1>4, <1>5, <1>6, <2>6, <2>7, <2>8 DEF BindingInv
<1> QED
  BY <1>8, <1>9
LEMMA PushTaskKeeps ==
  ASSUME TypeInv, TypeInv', BindingInv, NEW e \in Events, PushTask(e)
  PROVE  BindingInv'
<1>0. todo[e] \in Seq(Receivers) /\ todo[e] # <<>> /\ Prio[e] \in Levels
  BY LevelFacts DEF PushTask, TypeInv, EventTypeOK, BindingInv, RaiseOK
<1>l. PICK l \in Levels : l = Prio[e]
  BY <1>0
<1>q. PICK q \in Seq(Task) : q = queue[l]
  BY DEF TypeInv, SwitchTypeOK
<1>s. PICK s \in Seq(Receivers) : s = todo[e] /\ s # <<>>
  BY <1>0
<1> DEFINE rest == Tail(s)
<1>x. PICK x \in Receivers : x = Head(s)
  BY <1>s
<1>t. PICK t \in Task : t = TaskOf(e, x)
  BY TaskFacts
<1>1. /\ epc[e] = "push"
      /\ QueueTo(l, Append(q, t))
      /\ todo' = [todo EXCEPT ![e] = rest]
      /\ SignalQueue
      /\ \/ Len(s) > 1 /\ UNCHANGED <<epc, rlock>>
         \/ /\ Len(s) = 1
            /\ epc' = [epc EXCEPT ![e] = AfterRaise(e)]
            /\ rlock' = None
      /\ UNCHANGED <<wtask, ref, processed, target, deleted, bindVars, called, purged>>
  BY <1>l, <1>q, <1>s, <1>x, <1>t DEF PushTask, QueueTo, TaskOf
<1>2. /\ rest \in Seq(Receivers) /\ Entries(rest) \subseteq Entries(s) /\ x \in Entries(s)
      /\ Len(s) > 1 => rest # <<>>
      /\ Len(s) = 1 => rest = <<>>
  <2>1. rest \in Seq(Receivers) /\ Entries(rest) \subseteq Entries(s) /\ x \in Entries(s)
    BY <1>s, <1>x, EntriesTail
  <2>2. Len(rest) = Len(s) - 1 /\ Len(s) \in Nat
    BY <1>s
  <2> HIDE DEF rest
  <2>3. Len(rest) = 0 <=> rest = <<>>
    BY <2>1
  <2> QED
    BY <2>1, <2>2, <2>3
<1>3. ASSUME NEW r
      PROVE  Count(s, {r}) = Count(rest, {r}) + (IF x = r THEN 1 ELSE 0)
  <2>1. Count(s, {r}) = Count(rest, {r}) + (IF x \in {r} THEN 1 ELSE 0)
    BY <1>s, <1>x, CountTail
  <2> QED
    BY <2>1
<1> HIDE DEF rest
<1>4. todo'[e] = rest /\ \A f \in Events \ {e} : todo'[f] = todo[f]
  BY <1>1 DEF TypeInv, EventTypeOK
<1>5. Quiet
  BY <1>1, SignalIsQuiet
<1>6. Waits
  BY <1>1, NothingWaits
<1>7. ASSUME NEW f \in Events, NEW r \in Receivers
      PROVE  Tokens(f, r)' = Tokens(f, r)
  <2> DEFINE d == IF t = TaskOf(f, r) THEN 1 ELSE 0
  <2>1. InQueues(f, r)' = InQueues(f, r) + d
    <3>1. Count(Append(q, t), {TaskOf(f, r)})
            = Count(q, {TaskOf(f, r)}) + (IF t \in {TaskOf(f, r)} THEN 1 ELSE 0)
      BY CountAppend
    <3>2. Count(Append(q, t), {TaskOf(f, r)}) = InQueue(l, f, r) + d
      BY <1>q, <3>1 DEF InQueue
    <3>3. d \in Int
      OBVIOUS
    <3> HIDE DEF d
    <3> QED
      BY <1>1, <3>2, <3>3, QueueChange
  <2>2. InTodo(f, r) = InTodo(f, r)' + d
    <3>1. CASE f = e
      <4>1. t = TaskOf(f, r) <=> x = r
        BY <1>t, <3>1, TaskFacts
      <4>2. Count(s, {r}) = Count(rest, {r}) + (IF x = r THEN 1 ELSE 0)
        BY <1>3
      <4> QED
        BY <1>4, <1>s, <3>1, <4>1, <4>2 DEF InTodo
    <3>2. CASE f # e
      <4>1. t # TaskOf(f, r)
        BY <1>t, <3>2, TaskFacts
      <4>2. InTodo(f, r)' = InTodo(f, r) /\ InTodo(f, r) \in Nat
        BY <1>4, <3>2, TokenTypes DEF InTodo
      <4> QED
        BY <4>1, <4>2
    <3> QED
      BY <3>1, <3>2
  <2>3. InCalls(f, r)' = InCalls(f, r)
    BY <1>5, CallersKept
  <2>4. InCalled(f, r)' = InCalled(f, r) /\ InPurged(f, r)' = InPurged(f, r)
    BY <1>1, TokensUnchanged
  <2>5. d \in Int
    OBVIOUS
  <2>6. /\ InTodo(f, r)' \in Nat /\ InQueues(f, r) \in Nat /\ InCalls(f, r) \in Nat
        /\ InCalled(f, r) \in Nat /\ InPurged(f, r) \in Nat
    BY TokenTypes
  <2> HIDE DEF d
  <2> QED
    BY <2>1, <2>2, <2>3, <2>4, <2>5, <2>6, TokenSum
<1>8. OneToken'
  BY <1>1, <1>7, TokensKept DEF BindingInv
<1>9. WorkOK'
  BY <1>1, <1>5, WorkKept DEF BindingInv
<1>10. RaiseOK'
  <2>1. rlock = e
    BY <1>1 DEF BindingInv, RaiseOK
  <2>2. \A f \in Events \ {e} : epc'[f] = epc[f] /\ epc[f] # "push"
    BY <1>1, <2>1 DEF TypeInv, EventTypeOK, BindingInv, RaiseOK
  <2>3. \/ epc'[e] = "push" /\ rlock' = e /\ rest # <<>>
        \/ epc'[e] \in {"blocked", "returned"} /\ rlock' = None /\ rest = <<>>
    BY <1>1, <1>2, <2>1 DEF AfterRaise, TypeInv, EventTypeOK
  <2>4. ASSUME NEW f \in Events
        PROVE  /\ epc'[f] = "push" <=> rlock' = f
               /\ epc'[f] = "push" <=> todo'[f] # <<>>
               /\ Entries(todo'[f]) \subseteq Entries(list'[NameOf[f]])
               /\ epc'[f] \in {"new", "stop", "find"} =>
                    target'[f] = {} /\ ~processed'[f] /\ f \notin deleted'
               /\ IsFiniteSet(target'[f])
    <3>1. CASE f = e
      <4>1. Entries(todo'[e]) \subseteq Entries(list'[NameOf[e]])
        BY <1>1, <1>2, <1>4, <1>s DEF BindingInv, RaiseOK, bindVars
      <4>2. IsFiniteSet(target'[e])
        BY <1>1 DEF BindingInv, RaiseOK
      <4> QED
        BY <1>4, <2>3, <3>1, <4>1, <4>2, SwitchAssumption
    <3>2. CASE f # e
      <4>1. rlock' # f
        BY <2>3, <3>2, SwitchAssumption
      <4> QED
        BY <1>1, <1>4, <2>2, <3>2, <4>1 DEF BindingInv, RaiseOK, bindVars
    <3> QED
      BY <3>1, <3>2
  <2> QED
    BY <2>4 DEF RaiseOK
<1>11. ReferencesOK'
  BY <1>1, ReferencesKept DEF BindingInv
<1>12. BindOK'
  BY <1>6, BindKept DEF BindingInv
<1>13. PurgeOK'
  <2>1. Entries(queue'["normal"]) \subseteq Entries(queue["normal"]) \cup {t}
    <3>1. "normal" \in Levels /\ Entries(Append(q, t)) = Entries(q) \cup {t}
      BY EntriesAppend DEF Levels
    <3> QED
      BY <1>1, <1>q, <3>1 DEF QueueTo, TypeInv, SwitchTypeOK
  <2>2. t.rcv \in Entries(list[NameOf[t.ev]])
    <3>1. t.rcv = x /\ t.ev = e
      BY <1>t, TaskFacts
    <3>2. Entries(s) \subseteq Entries(list[NameOf[e]])
      BY <1>s DEF BindingInv, RaiseOK
    <3> QED
      BY <1>2, <3>1, <3>2
  <2>3. UNCHANGED <<list, rpc, ridx, purged>>
    BY <1>1 DEF bindVars
  <2>4. \A u \in Entries(queue'["normal"]) :
          \/ u.rcv \in Entries(list[NameOf[u.ev]])
          \/ rpc[u.rcv] \in Unbinding \ {"unpause"}
    BY <2>1, <2>2 DEF BindingInv, PurgeOK
  <2> QED
    BY <2>3, <2>4 DEF BindingInv, PurgeOK
<1> QED
  BY <1>8, <1>9, <1>10, <1>11, <1>12, <1>13 DEF BindingInv

LEMMA BlockingReturnsKeeps ==
  ASSUME TypeInv, BindingInv, NEW e \in Events, BlockingReturns(e)
  PROVE  BindingInv'
<1>1. /\ epc[e] = "blocked" /\ processed[e]
      /\ epc' = [epc EXCEPT ![e] = "returned"]
      /\ deleted' = deleted \cup {e}
      /\ UNCHANGED <<rlock, queue, workVars, todo, ref, processed, target, bindVars, called, purged>>
  BY DEF BlockingReturns, switchVars
<1>2. Quiet /\ Waits
  BY <1>1, NothingWaits DEF workVars, Quiet
<1>3. OneToken'
  BY <1>1, <1>2, OneTokenKept DEF BindingInv
<1>4. WorkOK'
  BY <1>1, <1>2, WorkKept DEF BindingInv
<1>5. RaiseOK'
  <2>1. epc'[e] = "returned" /\ \A f \in Events \ {e} : epc'[f] = epc[f]
    BY <1>1 DEF TypeInv, EventTypeOK
  <2> QED
    BY <1>1, <2>1 DEF BindingInv, RaiseOK, bindVars
<1>6. ReferencesOK'
  <2>1. InHandling' = InHandling
    BY <1>1 DEF InHandling, workVars
  <2>2. \A f \in Events : Left(f)' = Left(f)
    BY <1>1, <2>1 DEF Left, Dropped
  <2> QED
    BY <1>1, <2>2 DEF BindingInv, ReferencesOK
<1>7. BindOK'
  BY <1>2, BindKept DEF BindingInv
<1>8. PurgeOK'
  BY <1>1, <1>2, PurgeKept DEF BindingInv
<1> QED
  BY <1>3, <1>4, <1>5, <1>6, <1>7, <1>8 DEF BindingInv
-----------------------------------------------------------------------------
(* Receivers bind and unbind.                                              *)

\* Nobody has tasks to push while the list is changed.
LEMMA Unlocked ==
  ASSUME RaiseOK, rlock = None
  PROVE  \A e \in Events : todo[e] = <<>>
  BY SwitchAssumption DEF RaiseOK

LEMMA ListTypes ==
  ASSUME TypeInv
  PROVE  /\ \A n \in Names : list[n] \in Seq(Receivers) /\ Entries(list[n]) \subseteq Receivers
         /\ \A e \in Events : NameOf[e] \in Names
         /\ \A t \in purged \cup Entries(queue["normal"]) :
              t \in Task /\ t.ev \in Events /\ t.rcv \in Receivers
<1>1. \A n \in Names : list[n] \in Seq(Receivers)
  BY DEF TypeInv, BindTypeOK
<1>2. \A n \in Names : Entries(list[n]) \subseteq Receivers
  BY <1>1, EntriesType
<1>3. queue["normal"] \in Seq(Task)
  BY DEF TypeInv, SwitchTypeOK, Levels
<1>4. Entries(queue["normal"]) \subseteq Task
  BY <1>3, EntriesType
<1> QED
  BY <1>1, <1>2, <1>4, TaskFacts, SwitchAssumption DEF TypeInv, HistoryTypeOK

\* The list and where r is change, and nothing else.
LEMMA BindingStep ==
  ASSUME TypeInv, BindingInv, rlock = None, BindOK', PurgeOK',
         UNCHANGED <<rlock, queue, workVars, eventVars, called, purged>>
  PROVE  BindingInv'
<1>1. Quiet
  BY DEF workVars, Quiet
<1>2. OneToken'
  BY <1>1, OneTokenKept DEF BindingInv, eventVars
<1>3. WorkOK'
  BY <1>1, WorkKept DEF BindingInv
<1>4. RaiseOK'
  <2>1. \A e \in Events : todo[e] = <<>>
    BY Unlocked DEF BindingInv
  <2>2. \A e \in Events : Entries(todo[e]) = {}
    BY <2>1, EntriesEmpty
  <2> QED
    BY <2>2 DEF BindingInv, RaiseOK, eventVars
<1>5. ReferencesOK'
  BY <1>1, ReferencesKept DEF BindingInv, eventVars, Quiet
<1> QED
  BY <1>2, <1>3, <1>4, <1>5 DEF BindingInv

LEMMA BindKeeps ==
  ASSUME TypeInv, BindingInv, NEW r \in Receivers, Bind(r)
  PROVE  BindingInv'
<1>p. PICK p \in 1..Len(Interest[r]) : p = ridx[r]
  BY NextName DEF BindingInv
<1>n. PICK n \in Names : n = Interest[r][p]
  BY <1>p, NextName DEF BindingInv
<1>l. Len(Interest[r]) \in Nat /\ p \in Nat
  BY NextName DEF BindingInv
<1>s. PICK s \in Seq(Receivers) : s = list[n]
  BY DEF TypeInv, BindTypeOK
<1>1. /\ rpc[r] = "bind" /\ rlock = None
      /\ list' = [list EXCEPT ![n] = Append(s, r)]
      /\ \/ /\ p < Len(Interest[r])
            /\ ridx' = [ridx EXCEPT ![r] = p + 1] /\ rpc' = [rpc EXCEPT ![r] = "bind"]
         \/ ridx' = [ridx EXCEPT ![r] = 1] /\ rpc' = [rpc EXCEPT ![r] = "bound"]
      /\ UNCHANGED <<rlock, queue, workVars, eventVars, called, purged>>
  BY <1>p, <1>n, <1>s DEF Bind, switchVars
<1>2. /\ Entries(list'[n]) = Entries(s) \cup {r}
      /\ \A m \in Names \ {n} : list'[m] = list[m]
      /\ list'[n] = Append(s, r)
  BY <1>1, EntriesAppend DEF TypeInv, BindTypeOK
<1>3. \A x \in Receivers \ {r} : rpc'[x] = rpc[x] /\ ridx'[x] = ridx[x]
  BY <1>1 DEF TypeInv, BindTypeOK
<1>4. \/ p < Len(Interest[r]) /\ ridx'[r] = p + 1 /\ rpc'[r] = "bind"
      \/ ridx'[r] = 1 /\ rpc'[r] = "bound"
  BY <1>1 DEF TypeInv, BindTypeOK
<1>5. r \in Clients
  BY <1>1 DEF BindingInv, BindOK
<1>6. r \notin Entries(s)
  <2> SUFFICES ASSUME r \in Entries(s)
               PROVE  FALSE
    OBVIOUS
  <2>1. PICK i \in 1..Len(Interest[r]) : Interest[r][i] = n /\ MayBeBound(r, i)
    BY <1>5, <1>s DEF BindingInv, BindOK
  <2>2. i < p
    BY <1>1, <1>p, <2>1 DEF MayBeBound, Unbinding
  <2>3. i = p
    BY <1>n, <2>1, SwitchAssumption
  <2> QED
    BY <1>l, <2>2, <2>3
<1>7. \A i \in 1..Len(Interest[r]) : MayBeBound(r, i) \/ i = p => MayBeBound(r, i)'
  <2>1. \A i \in 1..Len(Interest[r]) : MayBeBound(r, i) => i < p
    BY <1>1, <1>p DEF MayBeBound, Unbinding
  <2> QED
    BY <1>l, <1>4, <2>1 DEF MayBeBound
<1>8. \A x \in Receivers \ {r}, i \in Nat : MayBeBound(x, i) => MayBeBound(x, i)'
  BY <1>3 DEF MayBeBound
<1>9. BindOK'
  <2>1. \A x \in Receivers : ridx'[x] \in 1..Len(Interest[x])
    <3>1. ridx'[r] \in 1..Len(Interest[r])
      BY <1>l, <1>p, <1>4
    <3> QED
      BY <1>3, <3>1 DEF BindingInv, BindOK
  <2>2. \A x \in Receivers \ Clients : rpc'[x] = "bound"
    BY <1>3, <1>5 DEF BindingInv, BindOK
  <2>3. ASSUME NEW m \in Names, NEW x \in Receivers
        PROVE  Count(list'[m], {x}) <= 1
    <3>1. CASE m = n
      <4>1. Count(Append(s, r), {x}) = Count(s, {x}) + (IF r \in {x} THEN 1 ELSE 0)
        BY CountAppend
      <4>2. Count(s, {x}) \in Nat /\ Count(s, {x}) <= 1
        BY <1>s, EntriesCount DEF BindingInv, BindOK
      <4>3. x = r => Count(s, {x}) = 0
        BY <1>6, EntriesCount
      <4>4. Count(list'[m], {x}) = Count(s, {x}) + (IF r = x THEN 1 ELSE 0)
        BY <1>2, <3>1, <4>1
      <4> DEFINE c == Count(s, {x})
      <4> HIDE DEF c
      <4>5. c + (IF r = x THEN 1 ELSE 0) <= 1
        BY <4>2, <4>3 DEF c
      <4> QED
        BY <4>4, <4>5 DEF c
    <3>2. CASE m # n
      BY <1>2, <3>2 DEF BindingInv, BindOK
    <3> QED
      BY <3>1, <3>2
  <2>4. ASSUME NEW m \in Names, NEW x \in Entries(list'[m]) \cap Clients
        PROVE  \E i \in 1..Len(Interest[x]) : Interest[x][i] = m /\ MayBeBound(x, i)'
    <3>1. x \in Entries(list[m]) \/ (x = r /\ m = n)
      BY <1>2, <1>s, <2>4
    <3>2. CASE x = r /\ m = n
      BY <1>7, <1>n, <3>2
    <3>3. CASE x \in Entries(list[m])
      <4>1. PICK i \in 1..Len(Interest[x]) : Interest[x][i] = m /\ MayBeBound(x, i)
        BY <2>4, <3>3 DEF BindingInv, BindOK
      <4>2. x \in Receivers
        BY <2>4 DEF Receivers
      <4>3. i \in Nat
        OBVIOUS
      <4> QED
        BY <1>7, <1>8, <4>1, <4>2, <4>3
    <3> QED
      BY <3>1, <3>2, <3>3
  <2> QED
    BY <2>1, <2>2, <2>3, <2>4 DEF BindOK
<1>10. PurgeOK'
  <2>1. \A m \in Names : Entries(list[m]) \subseteq Entries(list'[m])
    BY <1>2, <1>s
  <2>2. ASSUME NEW t \in Entries(queue'["normal"])
        PROVE  \/ t.rcv \in Entries(list'[NameOf[t.ev]])
               \/ rpc'[t.rcv] \in Unbinding \ {"unpause"}
    <3>1. t \in Entries(queue["normal"]) /\ t.rcv \in Receivers /\ NameOf[t.ev] \in Names
      BY <1>1, <2>2, ListTypes
    <3>2. \/ t.rcv \in Entries(list[NameOf[t.ev]])
          \/ rpc[t.rcv] \in Unbinding \ {"unpause"}
      BY <3>1 DEF BindingInv, PurgeOK
    <3> QED
      BY <1>1, <1>3, <2>1, <3>1, <3>2 DEF Unbinding
  <2>3. ASSUME NEW t \in purged
        PROVE  \/ rpc'[t.rcv] \in {"unpause", "gone"}
               \/ rpc'[t.rcv] # "bind" /\ ridx'[t.rcv] > 1
    <3>1. t.rcv \in Receivers
      BY <2>3, ListTypes
    <3>2. \/ rpc[t.rcv] \in {"unpause", "gone"}
          \/ rpc[t.rcv] # "bind" /\ ridx[t.rcv] > 1
      BY <2>3 DEF BindingInv, PurgeOK
    <3> QED
      BY <1>1, <1>3, <3>1, <3>2
  <2> QED
    BY <1>1, <2>2, <2>3 DEF PurgeOK
<1> QED
  BY <1>1, <1>9, <1>10, BindingStep

LEMMA RemoveReceiverKeeps ==
  ASSUME TypeInv, BindingInv, NEW r \in Receivers, RemoveReceiver(r)
  PROVE  BindingInv'
<1>p. PICK p \in 1..Len(Interest[r]) : p = ridx[r]
  BY NextName DEF BindingInv
<1>n. PICK n \in Names : n = Interest[r][p]
  BY <1>p, NextName DEF BindingInv
<1>l. Len(Interest[r]) \in Nat /\ p \in Nat
  BY NextName DEF BindingInv
<1>s. PICK s \in Seq(Receivers) : s = list[n]
  BY DEF TypeInv, BindTypeOK
<1>k. PICK k \in Seq(Receivers) : k = Remove(s, r)
  BY RemoveFacts
<1>1. /\ rpc[r] = "bound" /\ r \in Clients /\ rlock = None
      /\ list' = [list EXCEPT ![n] = k]
      /\ rpc' = [rpc EXCEPT ![r] = "pause"]
      /\ UNCHANGED <<rlock, queue, workVars, eventVars, ridx, called, purged>>
  BY <1>p, <1>n, <1>s, <1>k DEF RemoveReceiver, switchVars
<1>2. list'[n] = k /\ \A m \in Names \ {n} : list'[m] = list[m]
  BY <1>1 DEF TypeInv, BindTypeOK
<1>3. rpc'[r] = "pause" /\ \A x \in Receivers \ {r} : rpc'[x] = rpc[x]
  BY <1>1 DEF TypeInv, BindTypeOK
<1>4. /\ \A x \in Receivers \ {r} : Count(k, {x}) = Count(s, {x})
      /\ Count(k, {r}) = 0
  <2>1. \A x : Count(k, {x}) = Count(s, {x}) - (IF x = r /\ r \in Entries(s) THEN 1 ELSE 0)
    BY <1>k, RemoveFacts
  <2>2. \A x \in Receivers : Count(s, {x}) \in Nat
    BY EntriesCount
  <2>3. Count(s, {r}) <= 1 /\ (r \in Entries(s) <=> Count(s, {r}) # 0)
    BY <1>s, EntriesCount DEF BindingInv, BindOK
  <2>4. ASSUME NEW x \in Receivers \ {r}
        PROVE  Count(k, {x}) = Count(s, {x})
    <3>1. Count(k, {x}) = Count(s, {x}) - 0
      BY <2>1
    <3> QED
      BY <2>2, <3>1
  <2>5. Count(k, {r}) = Count(s, {r}) - (IF r \in Entries(s) THEN 1 ELSE 0)
    BY <2>1
  <2>6. Count(k, {r}) = 0
    BY <2>2, <2>3, <2>5
  <2> QED
    BY <2>4, <2>6
<1>5. \A x \in Receivers : x \in Entries(k) <=> x \in Entries(s) /\ x # r
  BY <1>4, EntriesCount
<1>6. \A x \in Receivers \ {r}, i \in Nat : MayBeBound(x, i) => MayBeBound(x, i)'
  BY <1>1, <1>3 DEF MayBeBound
<1>7. \A i \in 1..Len(Interest[r]) : MayBeBound(r, i) /\ i # p => MayBeBound(r, i)'
  <2>1. \A i \in 1..Len(Interest[r]) : MayBeBound(r, i) => i >= p
    BY <1>1, <1>p DEF MayBeBound, Unbinding
  <2> QED
    BY <1>l, <1>1, <1>3, <1>p, <2>1 DEF MayBeBound, Unbinding
<1>8. BindOK'
  <2>1. \A x \in Receivers : ridx'[x] \in 1..Len(Interest[x])
    BY <1>1 DEF BindingInv, BindOK
  <2>2. \A x \in Receivers \ Clients : rpc'[x] = "bound"
    BY <1>1, <1>3 DEF BindingInv, BindOK
  <2>3. ASSUME NEW m \in Names, NEW x \in Receivers
        PROVE  Count(list'[m], {x}) <= 1
    <3>1. CASE m = n
      <4>1. CASE x = r
        BY <1>2, <1>4, <3>1, <4>1
      <4>2. CASE x # r
        BY <1>2, <1>4, <1>s, <3>1, <4>2 DEF BindingInv, BindOK
      <4> QED
        BY <4>1, <4>2
    <3>2. CASE m # n
      BY <1>2, <3>2 DEF BindingInv, BindOK
    <3> QED
      BY <3>1, <3>2
  <2>4. ASSUME NEW m \in Names, NEW x \in Entries(list'[m]) \cap Clients
        PROVE  \E i \in 1..Len(Interest[x]) : Interest[x][i] = m /\ MayBeBound(x, i)'
    <3>1. x \in Receivers
      BY <2>4 DEF Receivers
    <3>2. x \in Entries(list[m]) /\ (x = r => m # n)
      BY <1>2, <1>5, <1>s, <2>4, <3>1
    <3>3. PICK i \in 1..Len(Interest[x]) : Interest[x][i] = m /\ MayBeBound(x, i)
      BY <2>4, <3>2 DEF BindingInv, BindOK
    <3>4. i \in Nat
      OBVIOUS
    <3>5. x = r => i # p
      BY <1>n, <3>2, <3>3
    <3> QED
      BY <1>6, <1>7, <3>1, <3>3, <3>4, <3>5
  <2> QED
    BY <2>1, <2>2, <2>3, <2>4 DEF BindOK
<1>9. PurgeOK'
  <2>1. ASSUME NEW t \in Entries(queue'["normal"])
        PROVE  \/ t.rcv \in Entries(list'[NameOf[t.ev]])
               \/ rpc'[t.rcv] \in Unbinding \ {"unpause"}
    <3>1. t \in Entries(queue["normal"]) /\ t.rcv \in Receivers /\ NameOf[t.ev] \in Names
      BY <1>1, <2>1, ListTypes
    <3>2. \/ t.rcv \in Entries(list[NameOf[t.ev]])
          \/ rpc[t.rcv] \in Unbinding \ {"unpause"}
      BY <3>1 DEF BindingInv, PurgeOK
    <3> QED
      BY <1>2, <1>3, <1>5, <1>s, <3>1, <3>2 DEF Unbinding
  <2>2. ASSUME NEW t \in purged
        PROVE  \/ rpc'[t.rcv] \in {"unpause", "gone"}
               \/ rpc'[t.rcv] # "bind" /\ ridx'[t.rcv] > 1
    <3>1. t.rcv \in Receivers
      BY <2>2, ListTypes
    <3>2. \/ rpc[t.rcv] \in {"unpause", "gone"}
          \/ rpc[t.rcv] # "bind" /\ ridx[t.rcv] > 1
      BY <2>2 DEF BindingInv, PurgeOK
    <3> QED
      BY <1>1, <1>3, <3>1, <3>2
  <2> QED
    BY <1>1, <2>1, <2>2 DEF PurgeOK
<1> QED
  BY <1>1, <1>8, <1>9, BindingStep
\* The tasks that leave the queue are those that are counted as purged.
LEMMA PurgeKeeps ==
  ASSUME TypeInv, TypeInv', BindingInv, NEW r \in Receivers, Purge(r)
  PROVE  BindingInv'
<1>n. "normal" \in Levels
  BY DEF Levels
<1>s. PICK s \in Seq(Task) : s = queue["normal"]
  BY <1>n DEF TypeInv, SwitchTypeOK
<1> DEFINE Others == {t \in Task : t.rcv # r}
<1>k. PICK k \in Seq(Task) : k = Within(s, Others)
  BY EntriesWithin
<1>1. /\ rpc[r] = "purge"
      /\ QueueTo("normal", k)
      /\ purged' = purged \cup {t \in Entries(s) : t.rcv = r}
      /\ rpc' = [rpc EXCEPT ![r] = "unpause"]
      /\ UNCHANGED <<rlock, workVars, eventVars, list, ridx, called>>
  BY <1>s, <1>k DEF Purge, QueueTo
<1>2. /\ \A x : Count(k, {x}) = IF x \in Others THEN Count(s, {x}) ELSE 0
      /\ Entries(k) = Entries(s) \cap Others
  BY <1>k, EntriesWithin
<1>3. Quiet
  BY <1>1 DEF workVars, Quiet
<1>4. rpc'[r] = "unpause" /\ \A x \in Receivers \ {r} : rpc'[x] = rpc[x]
  BY <1>1 DEF TypeInv, BindTypeOK
<1>5. ASSUME NEW f \in Events, NEW x \in Receivers
      PROVE  Tokens(f, x)' = Tokens(f, x)
  <2> DEFINE T == TaskOf(f, x)
             j == IF x = r THEN InQueue("normal", f, x) ELSE 0
  <2>1. T \in Task /\ T.rcv = x
    BY TaskFacts
  <2>2. InQueue("normal", f, x) = Count(s, {T}) /\ InQueue("normal", f, x) \in Nat
    BY <1>s, OnePlace DEF InQueue, BindingInv
  <2>3. j \in Nat
    BY <2>2
  <2>4. InQueues(f, x)' = InQueues(f, x) + (0 - j)
    <3>1. Count(k, {T}) = InQueue("normal", f, x) + (0 - j)
      <4>1. CASE x = r
        <5>1. Count(k, {T}) = 0
          BY <1>2, <2>1, <4>1
        <5> QED
          BY <2>2, <4>1, <5>1
      <4>2. CASE x # r
        <5>1. Count(k, {T}) = Count(s, {T})
          BY <1>2, <2>1, <4>2
        <5> QED
          BY <2>2, <4>2, <5>1
      <4> QED
        BY <4>1, <4>2
    <3>2. 0 - j \in Int
      BY <2>3
    <3> HIDE DEF j
    <3> QED
      BY <1>1, <1>n, <3>1, <3>2, QueueChange
  <2>5. InPurged(f, x)' = InPurged(f, x) + j
    <3>1. T \in Entries(s) <=> InQueue("normal", f, x) # 0
      BY <1>n, <1>s, TokenPlaces
    <3>2. CASE x = r
      <4>1. InQueue("normal", f, x) <= 1 /\ (InQueue("normal", f, x) # 0 => T \notin purged)
        <5> DEFINE i == InTodo(f, x)
                   h == InQueue("prio", f, x)
                   m == InQueue("normal", f, x)
                   n == InQueue("low", f, x)
                   c == InCalls(f, x)
                   d == InCalled(f, x)
                   g == InPurged(f, x)
        <5>0. /\ i + (h + m + n) + c + d + g <= 1
              /\ i \in Nat /\ h \in Nat /\ m \in Nat /\ n \in Nat /\ c \in Nat /\ d \in Nat /\ g \in Nat
          <6>1. /\ i + InQueues(f, x) + c + d + g = IF x \in target[f] THEN 1 ELSE 0
                /\ InQueues(f, x) = h + m + n
                /\ i \in Nat /\ h \in Nat /\ m \in Nat /\ n \in Nat /\ c \in Nat /\ d \in Nat /\ g \in Nat
            BY OnePlace DEF BindingInv
          <6> HIDE DEF i, h, m, n, c, d, g
          <6> QED
            BY <6>1
        <5> HIDE DEF i, h, m, n, c, d, g
        <5>1. m + g <= 1 /\ g \in Nat
          BY <5>0
        <5>2. T \in purged => InPurged(f, x) = 1
          BY DEF InPurged
        <5>3. m <= 1 /\ (m # 0 => g # 1)
          BY <5>0, <5>1
        <5> QED
          BY <5>2, <5>3 DEF m, g
      <4>2. T \in purged' <=> T \in purged \/ InQueue("normal", f, x) # 0
        BY <1>1, <2>1, <3>1, <3>2
      <4> DEFINE i == InQueue("normal", f, x)
      <4>3. i \in Nat /\ i <= 1 /\ (i # 0 => T \notin purged) /\ j = i
        BY <2>2, <3>2, <4>1
      <4>4. T \in purged' <=> T \in purged \/ i # 0
        BY <4>2
      <4>5. /\ InPurged(f, x) = IF T \in purged THEN 1 ELSE 0
            /\ InPurged(f, x)' = IF T \in purged' THEN 1 ELSE 0
        BY DEF InPurged
      <4> HIDE DEF i, j, T
      <4> QED
        BY <4>3, <4>4, <4>5
    <3>3. CASE x # r
      <4>1. T \in purged' <=> T \in purged
        BY <1>1, <2>1, <3>3
      <4>2. InPurged(f, x)' = InPurged(f, x) /\ InPurged(f, x) \in Nat
        BY <4>1 DEF InPurged
      <4> QED
        BY <3>3, <4>2
    <3> QED
      BY <3>2, <3>3
  <2>6. InTodo(f, x)' = InTodo(f, x) /\ InCalled(f, x)' = InCalled(f, x)
    BY <1>1, TokensUnchanged DEF eventVars
  <2>7. InCalls(f, x)' = InCalls(f, x)
    BY <1>3, CallersKept
  <2>8. /\ InTodo(f, x) \in Nat /\ InQueues(f, x) \in Nat /\ InCalls(f, x) \in Nat
        /\ InCalled(f, x) \in Nat /\ InPurged(f, x) \in Nat
    BY TokenTypes
  <2> HIDE DEF j, T
  <2> QED
    BY <2>3, <2>4, <2>5, <2>6, <2>7, <2>8, TokenSum
<1>6. OneToken'
  BY <1>1, <1>5, TokensKept DEF BindingInv, eventVars
<1>7. WorkOK'
  BY <1>1, <1>3, WorkKept DEF BindingInv
<1>8. RaiseOK'
  BY <1>1, RaiseKept DEF BindingInv, eventVars
<1>9. ReferencesOK'
  BY <1>1, <1>3, ReferencesKept DEF BindingInv, eventVars, Quiet
<1>10. BindOK'
  <2>1. \A x \in Receivers, i \in Nat : MayBeBound(x, i) => MayBeBound(x, i)'
    BY <1>1, <1>4 DEF MayBeBound, Unbinding
  <2>2. /\ \A x \in Receivers : ridx'[x] \in 1..Len(Interest[x])
        /\ \A n \in Names, x \in Receivers : Count(list'[n], {x}) <= 1
        /\ \A x \in Receivers \ Clients : rpc'[x] = "bound"
    BY <1>1, <1>4 DEF BindingInv, BindOK
  <2>3. ASSUME NEW m \in Names, NEW x \in Entries(list'[m]) \cap Clients
        PROVE  \E i \in 1..Len(Interest[x]) : Interest[x][i] = m /\ MayBeBound(x, i)'
    <3>1. x \in Receivers
      BY <2>3 DEF Receivers
    <3>2. PICK i \in 1..Len(Interest[x]) : Interest[x][i] = m /\ MayBeBound(x, i)
      BY <1>1, <2>3 DEF BindingInv, BindOK
    <3>3. i \in Nat
      OBVIOUS
    <3> QED
      BY <2>1, <3>1, <3>2, <3>3
  <2> QED
    BY <2>2, <2>3 DEF BindOK
<1>11. PurgeOK'
  <2>1. queue'["normal"] = k
    BY <1>1, <1>n DEF QueueTo, TypeInv, SwitchTypeOK
  <2>2. ASSUME NEW t \in Entries(queue'["normal"])
        PROVE  \/ t.rcv \in Entries(list'[NameOf[t.ev]])
               \/ rpc'[t.rcv] \in Unbinding \ {"unpause"}
    <3>1. t \in Entries(queue["normal"]) /\ t.rcv # r
      BY <1>2, <1>s, <2>1, <2>2
    <3>2. t.rcv \in Receivers
      BY <3>1, ListTypes
    <3>3. \/ t.rcv \in Entries(list[NameOf[t.ev]])
          \/ rpc[t.rcv] \in Unbinding \ {"unpause"}
      BY <3>1 DEF BindingInv, PurgeOK
    <3> QED
      BY <1>1, <1>4, <3>1, <3>2, <3>3
  <2>3. ASSUME NEW t \in purged'
        PROVE  \/ rpc'[t.rcv] \in {"unpause", "gone"}
               \/ rpc'[t.rcv] # "bind" /\ ridx'[t.rcv] > 1
    <3>1. CASE t.rcv = r
      BY <1>4, <3>1
    <3>2. CASE t.rcv # r
      <4>1. t \in purged
        BY <1>1, <2>3, <3>2
      <4>2. t.rcv \in Receivers
        BY <4>1, ListTypes
      <4>3. \/ rpc[t.rcv] \in {"unpause", "gone"}
            \/ rpc[t.rcv] # "bind" /\ ridx[t.rcv] > 1
        BY <4>1 DEF BindingInv, PurgeOK
      <4> QED
        BY <1>1, <1>4, <3>2, <4>2, <4>3
    <3> QED
      BY <3>1, <3>2
  <2> QED
    BY <2>2, <2>3 DEF PurgeOK
<1> QED
  BY <1>6, <1>7, <1>8, <1>9, <1>10, <1>11 DEF BindingInv

LEMMA UnpauseKeeps ==
  ASSUME TypeInv, BindingInv, NEW r \in Receivers, Unpause(r)
  PROVE  BindingInv'
<1>p. PICK p \in 1..Len(Interest[r]) : p = ridx[r]
  BY NextName DEF BindingInv
<1>l. Len(Interest[r]) \in Nat /\ p \in Nat
  BY NextName DEF BindingInv
<1>1. /\ rpc[r] = "unpause"
      /\ UNCHANGED <<rlock, switchVars, wtask, eventVars, list, called, purged>>
  BY DEF Unpause
<1>2. Quiet
  <2>1. wpc' = wpc \/ \E w \in WorkersOnHold : wpc' = [wpc EXCEPT ![w] = "recheck"]
    BY DEF Unpause
  <2>2. \A w \in Threads : wpc'[w] = wpc[w] \/ (wpc[w] = "hold" /\ wpc'[w] = "recheck")
    BY <2>1 DEF WorkersOnHold, TypeInv, WorkTypeOK
  <2> QED
    BY <1>1, <2>2 DEF Quiet
<1>3. \A x \in Receivers \ {r} : /\ ridx'[x] = ridx[x]
                                 /\ rpc'[x] = rpc[x] \/ (rpc[x] = "wait" /\ rpc'[x] = "paused")
  <2>1. \A x \in Receivers \ {r} : NextUnbind(r)[x] = rpc[x]
    BY DEF NextUnbind, TypeInv, BindTypeOK
  <2>2. NextUnbind(r) \in [Receivers -> BindStates]
    BY DEF NextUnbind, TypeInv, BindTypeOK, BindStates
  <2>3. \/ rpc' = NextUnbind(r)
        \/ \E y \in PausesWaiting : rpc' = [NextUnbind(r) EXCEPT ![y] = "paused"]
    BY DEF Unpause
  <2>4. \A x \in Receivers \ {r} : rpc'[x] = rpc[x] \/ (rpc[x] = "wait" /\ rpc'[x] = "paused")
    BY <2>1, <2>2, <2>3 DEF PausesWaiting
  <2>5. \A x \in Receivers \ {r} : ridx'[x] = ridx[x]
    BY DEF Unpause, TypeInv, BindTypeOK
  <2> QED
    BY <2>4, <2>5
<1>4. \/ p < Len(Interest[r]) /\ ridx'[r] = p + 1 /\ rpc'[r] = "bound"
      \/ p = Len(Interest[r]) /\ ridx'[r] = p /\ rpc'[r] = "gone"
  <2>1. NextUnbind(r)[r] = IF p < Len(Interest[r]) THEN "bound" ELSE "gone"
    BY <1>p DEF NextUnbind, TypeInv, BindTypeOK
  <2>2. NextUnbind(r) \in [Receivers -> BindStates]
    BY DEF NextUnbind, TypeInv, BindTypeOK, BindStates
  <2>3. r \notin PausesWaiting
    BY <1>1 DEF PausesWaiting
  <2>4. rpc'[r] = NextUnbind(r)[r]
    <3>1. \/ rpc' = NextUnbind(r)
          \/ \E y \in PausesWaiting : rpc' = [NextUnbind(r) EXCEPT ![y] = "paused"]
      BY DEF Unpause
    <3> QED
      BY <2>2, <2>3, <3>1
  <2>5. ridx'[r] = IF p < Len(Interest[r]) THEN p + 1 ELSE p
    BY <1>p DEF Unpause, TypeInv, BindTypeOK
  <2>6. p < Len(Interest[r]) \/ p = Len(Interest[r])
    BY <1>l
  <2> QED
    BY <1>l, <2>1, <2>4, <2>5, <2>6
<1>5. OneToken'
  BY <1>1, <1>2, OneTokenKept DEF BindingInv, eventVars, switchVars
<1>6. WorkOK'
  BY <1>1, <1>2, WorkKept DEF BindingInv
<1>7. RaiseOK'
  BY <1>1, RaiseKept DEF BindingInv, eventVars
<1>8. ReferencesOK'
  BY <1>1, ReferencesKept DEF BindingInv, eventVars
<1>9. BindOK'
  <2>1. \A x \in Receivers \ {r}, i \in Nat : MayBeBound(x, i) => MayBeBound(x, i)'
    BY <1>3 DEF MayBeBound, Unbinding
  <2>2. \A i \in 1..Len(Interest[r]) : MayBeBound(r, i) => MayBeBound(r, i)'
    <3>1. \A i \in 1..Len(Interest[r]) : MayBeBound(r, i) => i > p
      BY <1>1, <1>p DEF MayBeBound, Unbinding
    <3> QED
      BY <1>l, <1>4, <3>1 DEF MayBeBound, Unbinding
  <2>3. \A x \in Receivers : ridx'[x] \in 1..Len(Interest[x])
    <3>1. ridx'[r] \in 1..Len(Interest[r])
      BY <1>l, <1>4
    <3> QED
      BY <1>3, <3>1 DEF BindingInv, BindOK
  <2>4. \A x \in Receivers \ Clients : rpc'[x] = "bound"
    <3>1. r \in Clients
      BY <1>1 DEF BindingInv, BindOK
    <3> QED
      BY <1>3, <3>1 DEF BindingInv, BindOK
  <2>5. \A n \in Names, x \in Receivers : Count(list'[n], {x}) <= 1
    BY <1>1 DEF BindingInv, BindOK
  <2>6. ASSUME NEW m \in Names, NEW x \in Entries(list'[m]) \cap Clients
        PROVE  \E i \in 1..Len(Interest[x]) : Interest[x][i] = m /\ MayBeBound(x, i)'
    <3>1. x \in Receivers
      BY <2>6 DEF Receivers
    <3>2. PICK i \in 1..Len(Interest[x]) : Interest[x][i] = m /\ MayBeBound(x, i)
      BY <1>1, <2>6 DEF BindingInv, BindOK
    <3>3. i \in Nat
      OBVIOUS
    <3> QED
      BY <2>1, <2>2, <3>1, <3>2, <3>3
  <2> QED
    BY <2>3, <2>4, <2>5, <2>6 DEF BindOK
<1>10. PurgeOK'
  <2>1. ASSUME NEW t \in Entries(queue'["normal"])
        PROVE  \/ t.rcv \in Entries(list'[NameOf[t.ev]])
               \/ rpc'[t.rcv] \in Unbinding \ {"unpause"}
    <3>1. t \in Entries(queue["normal"])
      BY <1>1, <2>1 DEF switchVars
    <3>2. t.rcv \in Receivers
      BY <3>1, ListTypes
    <3>3. \/ t.rcv \in Entries(list[NameOf[t.ev]])
          \/ rpc[t.rcv] \in Unbinding \ {"unpause"}
      BY <3>1 DEF BindingInv, PurgeOK
    <3> QED
      BY <1>1, <1>3, <3>2, <3>3 DEF Unbinding
  <2>2. ASSUME NEW t \in purged'
        PROVE  \/ rpc'[t.rcv] \in {"unpause", "gone"}
               \/ rpc'[t.rcv] # "bind" /\ ridx'[t.rcv] > 1
    <3>1. t \in purged
      BY <1>1, <2>2
    <3>2. t.rcv \in Receivers
      BY <3>1, ListTypes
    <3>3. \/ rpc[t.rcv] \in {"unpause", "gone"}
          \/ rpc[t.rcv] # "bind" /\ ridx[t.rcv] > 1
      BY <3>1 DEF BindingInv, PurgeOK
    <3>4. CASE t.rcv = r
      <4>1. p + 1 > 1
        BY <1>p
      <4> QED
        BY <1>4, <3>4, <4>1
    <3>5. CASE t.rcv # r
      BY <1>3, <3>2, <3>3, <3>5
    <3> QED
      BY <3>4, <3>5
  <2> QED
    BY <2>1, <2>2 DEF PurgeOK
<1> QED
  BY <1>5, <1>6, <1>7, <1>8, <1>9, <1>10 DEF BindingInv
-----------------------------------------------------------------------------
(* The invariant holds.                                                    *)

\* No component is twice in the list it is bound to.
LEMMA ComponentsOnce == \A r : Count(Components, {r}) <= 1
<1> SUFFICES ASSUME NEW r
             PROVE  Count(Components, {r}) <= 1
  OBVIOUS
<1> DEFINE At == {i \in 1..Len(Components) : Components[i] \in {r}}
<1>1. CASE At = {}
  BY <1>1, FS_EmptySet DEF Count
<1>2. CASE At # {}
  <2>1. PICK i \in At : TRUE
    BY <1>2
  <2>2. At = {i}
    BY <2>1, SwitchAssumption
  <2>3. Cardinality({i}) = 1
    BY FS_Singleton
  <2> QED
    BY <2>2, <2>3 DEF Count
<1> QED
  BY <1>1, <1>2

LEMMA BindingInit == Init => BindingInv
<1> SUFFICES ASSUME Init
             PROVE  BindingInv
  OBVIOUS
<1>1. /\ \A e \in Events : /\ epc[e] = "new" /\ todo[e] = <<>> /\ ref[e] = 0
                           /\ processed[e] = FALSE /\ target[e] = {}
      /\ \A l \in Levels : queue[l] = <<>>
      /\ \A w \in Threads : wtask[w] = None /\ wpc[w] \in {"loop", "scan"}
      /\ rlock = None /\ called = <<>> /\ purged = {} /\ deleted = {}
  BY DEF Init
<1>2. OneToken
  <2>1. ASSUME NEW e \in Events, NEW r \in Receivers
        PROVE  Tokens(e, r) = 0
    <3>1. InTodo(e, r) = 0 /\ InCalled(e, r) = 0
      BY <1>1, CountEmpty DEF InTodo, InCalled
    <3>2. \A l \in Levels : InQueue(l, e, r) = 0
      BY <1>1, CountEmpty DEF InQueue
    <3>3. InQueues(e, r) = 0
      BY <3>2 DEF InQueues, Levels
    <3>4. InCalls(e, r) = 0
      <4>1. Callers(e, r) = {}
        BY <1>1 DEF Callers
      <4> QED
        BY <4>1, FS_EmptySet DEF InCalls
    <3>5. InPurged(e, r) = 0
      BY <1>1 DEF InPurged
    <3> QED
      BY <3>1, <3>3, <3>4, <3>5 DEF Tokens
  <2> QED
    BY <1>1, <2>1 DEF OneToken
<1>3. WorkOK
  BY <1>1 DEF WorkOK
<1>4. RaiseOK
  BY <1>1, EntriesEmpty, FS_EmptySet, SwitchAssumption DEF RaiseOK
<1>5. ReferencesOK
  <2>1. \A e \in Events : Left(e) = {}
    BY <1>1 DEF Left
  <2> QED
    BY <1>1, <2>1, FS_EmptySet DEF ReferencesOK
<1>6. BindOK
  <2>1. ASSUME NEW r \in Receivers
        PROVE  ridx[r] \in 1..Len(Interest[r])
    <3>1. Interest[r] \in Seq(Names) /\ Interest[r] # <<>>
      BY SwitchAssumption
    <3> DEFINE s == Interest[r]
    <3> HIDE DEF s
    <3>2. 1 \in 1..Len(s)
      BY <3>1 DEF s
    <3> QED
      BY <3>2 DEF Init, s
  <2>2. \A r \in Receivers \ Clients : rpc[r] = "bound"
    BY DEF Init
  <2>3. ASSUME NEW n \in Names
        PROVE  /\ \A r : Count(list[n], {r}) <= 1
               /\ Entries(list[n]) \cap Clients = {}
    <3> DEFINE S == {r \in Receivers : n \in Entries(Interest[r])}
    <3>1. list[n] = Within(Components, S)
      BY DEF Init
    <3> HIDE DEF S
    <3>c. Components \in Seq(Receivers)
      BY SwitchAssumption
    <3>2. /\ \A x : Count(Within(Components, S), {x}) = IF x \in S THEN Count(Components, {x}) ELSE 0
          /\ Entries(Within(Components, S)) = Entries(Components) \cap S
      BY <3>c, EntriesWithin
    <3>3. Entries(Components) \cap Clients = {}
      BY SwitchAssumption DEF Entries
    <3>4. \A x : Count(Within(Components, S), {x}) <= 1
      <4> SUFFICES ASSUME NEW x
                   PROVE  Count(Within(Components, S), {x}) <= 1
        OBVIOUS
      <4>1. \/ Count(Within(Components, S), {x}) = Count(Components, {x})
            \/ Count(Within(Components, S), {x}) = 0
        BY <3>2
      <4>2. Count(Components, {x}) <= 1
        BY ComponentsOnce
      <4>3. 0 <= 1
        OBVIOUS
      <4> QED
        BY <4>1, <4>2, <4>3
    <3> QED
      BY <3>1, <3>2, <3>3, <3>4
  <2> QED
    BY <2>1, <2>2, <2>3 DEF BindOK
<1>7. PurgeOK
  <2>1. queue["normal"] = <<>>
    BY <1>1 DEF Levels
  <2> QED
    BY <1>1, <2>1, EntriesEmpty DEF PurgeOK
<1> QED
  BY <1>2, <1>3, <1>4, <1>5, <1>6, <1>7 DEF BindingInv

LEMMA BindingNext ==
  ASSUME TypeInv, TypeInv', BindingInv, Next
  PROVE  BindingInv'
<1>1. CASE LoopTest \/ LoopEnds
  BY <1>1, LoopKeeps
<1>2. ASSUME NEW w \in Threads, ThreadStep(w)
      PROVE  BindingInv'
  BY <1>2, WaitingKeeps, TakeTaskKeeps, CallReceiverKeeps, DeleteTaskKeeps, FinishTaskKeeps
     DEF ThreadStep
<1>3. ASSUME NEW e \in Events, RaiseEvent(e) \/ RaiserStep(e)
      PROVE  BindingInv'
  BY <1>3, RaiserKeeps, FindReceiversKeeps, PushTaskKeeps, BlockingReturnsKeeps DEF RaiserStep
<1>4. ASSUME NEW r \in Receivers, Bind(r) \/ RemoveReceiver(r) \/ UnbindStep(r)
      PROVE  BindingInv'
  BY <1>4, BindKeeps, RemoveReceiverKeeps, PauseKeeps, PurgeKeeps, UnpauseKeeps DEF UnbindStep
<1> QED
  BY <1>1, <1>2, <1>3, <1>4 DEF Next

LEMMA InvHolds == Spec => [](TypeInv /\ BindingInv)
<1>1. Init => TypeInv /\ BindingInv
  BY TypeInit, BindingInit
<1>2. TypeInv /\ BindingInv /\ [Next]_vars => (TypeInv /\ BindingInv)'
  <2> SUFFICES ASSUME TypeInv, BindingInv, [Next]_vars
               PROVE  TypeInv' /\ BindingInv'
    OBVIOUS
  <2>1. TypeInv'
    BY TypeStep DEF BindingInv
  <2>2. CASE Next
    BY <2>1, <2>2, BindingNext
  <2>3. CASE UNCHANGED vars
    <3>1. Quiet /\ Waits
      BY <2>3, NothingWaits DEF vars, workVars, Quiet
    <3> QED
      BY <2>1, <2>3, <3>1, QuietStep DEF vars, switchVars
  <2> QED
    BY <2>1, <2>2, <2>3
<1> QED
  BY <1>1, <1>2, PTL DEF Spec

-----------------------------------------------------------------------------
(* The property follows.                                                   *)

LEMMA TasksAreDelivered == TypeInv /\ BindingInv => DeliveredToEach
<1> SUFFICES ASSUME TypeInv, BindingInv
             PROVE  DeliveredToEach
  OBVIOUS
<1>1. ASSUME NEW e \in Events, NEW r \in target[e]
      PROVE  TaskOf(e, r) \in Queued \cup InHandling \cup NotPushed \cup Entries(called) \cup purged
  <2>1. r \in Receivers
    BY DEF TypeInv, EventTypeOK
  <2>2. \/ Waiting(e, r) \/ r \in Entries(todo[e]) \/ Callers(e, r) # {}
        \/ TaskOf(e, r) \in Entries(called) \/ TaskOf(e, r) \in purged
    BY <2>1, Exclusive DEF BindingInv
  <2>3. Waiting(e, r) => TaskOf(e, r) \in Queued
    BY DEF Waiting, Queued
  <2>4. r \in Entries(todo[e]) => TaskOf(e, r) \in NotPushed
    BY DEF NotPushed, TaskOf
  <2>5. Callers(e, r) # {} => TaskOf(e, r) \in InHandling
    BY <2>1, TaskFacts DEF Callers, InHandling
  <2> QED
    BY <2>2, <2>3, <2>4, <2>5
<1>2. \A i, j \in 1..Len(called) : called[i] = called[j] => i = j
  <2>1. called \in Seq(Task)
    BY DEF TypeInv, HistoryTypeOK
  <2>2. ASSUME NEW t \in Task
        PROVE  Count(called, {t}) <= 1
    <3>1. PICK e \in Events, r \in Receivers : t = TaskOf(e, r)
      BY TaskFacts
    <3> DEFINE i == InTodo(e, r)
               q == InQueues(e, r)
               k == InCalls(e, r)
               c == InCalled(e, r)
               p == InPurged(e, r)
    <3>2. i + q + k + c + p = IF r \in target[e] THEN 1 ELSE 0
      BY OnePlace DEF BindingInv
    <3>3. i \in Nat /\ q \in Nat /\ k \in Nat /\ c \in Nat /\ p \in Nat
      BY OnePlace DEF BindingInv
    <3>4. c = Count(called, {t})
      BY <3>1 DEF InCalled
    <3> HIDE DEF i, q, k, c, p
    <3>5. c <= 1
      BY <3>2, <3>3
    <3> QED
      BY <3>4, <3>5
  <2> QED
    BY <2>1, <2>2, DistinctEntries
<1>3. \A t \in purged : rpc[t.rcv] \in {"unpause", "gone"} \/ ridx[t.rcv] > 1
  BY DEF BindingInv, PurgeOK
<1> QED
  BY <1>1, <1>2, <1>3 DEF DeliveredToEach, TaskOf

LEMMA PurgedStay == TypeInv /\ BindingInv => PurgedForGood
<1> SUFFICES ASSUME TypeInv, BindingInv, NEW r \in Receivers, rpc[r] = "gone",
                    NEW t \in Entries(queue["normal"]), t.rcv = r
             PROVE  FALSE
  BY DEF PurgedForGood
<1>1. NameOf[t.ev] \in Names
  BY ListTypes
<1>2. r \in Entries(list[NameOf[t.ev]])
  BY DEF BindingInv, PurgeOK, Unbinding
<1>3. r \in Clients
  BY DEF BindingInv, BindOK
<1>4. \E i \in 1..Len(Interest[r]) : MayBeBound(r, i)
  BY <1>1, <1>2, <1>3 DEF BindingInv, BindOK
<1> QED
  BY <1>4 DEF MayBeBound, Unbinding

\* Whatever still has to drop its reference is counted.
LEMMA OutstandingIsLeft ==
  ASSUME TypeInv, BindingInv, NEW e \in Events, NEW t \in Outstanding(e)
  PROVE  t.rcv \in Left(e)
<1>1. t.ev = e
  BY DEF Outstanding
<1>2. CASE t \in Queued
  <2>1. PICK l \in Levels : t \in Entries(queue[l])
    BY <1>2 DEF Queued
  <2>2. t \in Task /\ t.rcv \in target[e] /\ t \notin Entries(called)
    BY <1>1, <2>1, WaitingOnly DEF BindingInv
  <2> QED
    BY <1>1, <2>2, TaskFacts DEF Left, Dropped
<1>3. CASE t \in InHandling
  <2>1. PICK w \in Threads : t = wtask[w] /\ wtask[w] # None
    BY <1>3 DEF InHandling
  <2>2. t \in Task /\ t.rcv \in target[e]
    BY <1>1, <2>1, HandledBy DEF BindingInv
  <2> QED
    BY <1>1, <1>3, <2>2, TaskFacts DEF Left, Dropped
<1>4. CASE t \in NotPushed
  <2>1. PICK f \in Events : \E r \in Entries(todo[f]) : t = TaskOf(f, r)
    BY <1>4 DEF NotPushed, TaskOf
  <2>2. PICK r \in Entries(todo[f]) : t = TaskOf(f, r)
    BY <2>1
  <2>3. r \in Receivers
    <3>1. todo[f] \in Seq(Receivers)
      BY DEF TypeInv, EventTypeOK
    <3> QED
      BY <3>1, EntriesType
  <2>4. f = e /\ t.rcv = r
    BY <1>1, <2>2, <2>3, TaskFacts
  <2>5. r \in target[e] /\ TaskOf(e, r) \notin Entries(called)
    BY <2>3, <2>4, Exclusive DEF BindingInv
  <2> QED
    BY <2>4, <2>5 DEF Left, Dropped
<1> QED
  BY <1>2, <1>3, <1>4 DEF Outstanding

LEMMA LeftFinite ==
  ASSUME TypeInv, BindingInv, NEW e \in Events
  PROVE  /\ IsFiniteSet(Left(e)) /\ ref[e] \in Nat
         /\ ref[e] = 0 <=> Left(e) = {}
<1>1. IsFiniteSet(Left(e))
  <2>1. IsFiniteSet(target[e])
    BY DEF BindingInv, RaiseOK
  <2> QED
    BY <2>1, FS_Subset DEF Left
<1> QED
  BY <1>1, FS_CardinalityType, FS_EmptySet DEF BindingInv, ReferencesOK

LEMMA EventsLive == TypeInv /\ BindingInv => ReferencedIsAlive
<1> SUFFICES ASSUME TypeInv, BindingInv, NEW e \in deleted, Outstanding(e) # {}
             PROVE  FALSE
  BY DEF ReferencedIsAlive
<1>1. e \in Events
  BY DEF TypeInv, EventTypeOK
<1>2. ref[e] = 0
  BY <1>1 DEF BindingInv, ReferencesOK
<1>3. Left(e) # {}
  BY <1>1, OutstandingIsLeft
<1> QED
  BY <1>1, <1>2, <1>3, LeftFinite

LEMMA LastDeletes == TypeInv /\ BindingInv => LastReferenceDeletes
<1> SUFFICES ASSUME TypeInv, BindingInv, NEW e \in Events \ Blocking,
                    target[e] # {}, Outstanding(e) = {}, PurgedOf(e) = {}
             PROVE  e \in deleted
  BY DEF LastReferenceDeletes
<1>1. ASSUME NEW r \in target[e]
      PROVE  r \in Dropped(e)
  <2>1. r \in Receivers
    BY DEF TypeInv, EventTypeOK
  <2>2. TaskOf(e, r).ev = e
    BY <2>1, TaskFacts
  <2>3. TaskOf(e, r) \notin Queued \cup InHandling \cup NotPushed
    BY <2>2 DEF Outstanding
  <2>4. TaskOf(e, r) \notin purged
    BY <2>2 DEF PurgedOf
  <2>5. TaskOf(e, r) \in Entries(called)
    BY <2>3, <2>4, TasksAreDelivered DEF DeliveredToEach, TaskOf
  <2> QED
    BY <2>1, <2>3, <2>5 DEF Dropped
<1>2. Left(e) = {}
  BY <1>1 DEF Left
<1> QED
  BY <1>2, LeftFinite DEF BindingInv, ReferencesOK

(* However raising, handling, binding and unbinding overlap: every event   *)
(* reaches each receiver that was bound when it was raised once, unless    *)
(* its task was purged; receivers that have unbound have no task left; and *)
(* the event is deleted after the last task that refers to it, not before. *)
THEOREM BindingsHold == Spec => []BindingIsRespected
<1>1. TypeInv /\ BindingInv => BindingIsRespected
  BY TasksAreDelivered, PurgedStay, EventsLive, LastDeletes DEF BindingIsRespected
<1> QED
  BY <1>1, InvHolds, PTL

-----------------------------------------------------------------------------
(* Type correctness, with the counters.                                    *)

\* The number of active workers stays, and so do they.
Calm ==
  /\ active' = active
  /\ \A w \in Threads : w \in Busy <=> wpc'[w] \in {"call", "delete", "done"}

LEMMA CalmStep ==
  ASSUME ActiveOK, Calm
  PROVE  ActiveOK'
<1>1. Busy' = Busy
  BY DEF Busy, Calm
<1> QED
  BY <1>1 DEF ActiveOK, Calm

LEMMA ActiveThread ==
  ASSUME TypeInv, ActiveOK, NEW w \in Threads, ThreadStep(w)
  PROVE  ActiveOK'
<1>0. IsFiniteSet(Busy) /\ Cardinality(Busy) \in Nat
  BY ThreadsFinite, FS_Subset, FS_CardinalityType DEF Busy
<1>1. CASE WaitForTask(w) \/ Resume(w) \/ CallReceiver(w) \/ DeleteTask(w)
  <2>1. active' = active
    BY <1>1 DEF WaitForTask, Resume, CallReceiver, DeleteTask, activeVars
  <2>2. \A v \in Threads : v \in Busy <=> wpc'[v] \in {"call", "delete", "done"}
    BY <1>1 DEF WaitForTask, Resume, CallReceiver, DeleteTask, Thrown, Again, Busy, TypeInv, WorkTypeOK
  <2> QED
    BY <2>1, <2>2, CalmStep DEF Calm
<1>2. CASE TakeTask(w)
  <2>1. Busy' = Busy \cup {w} /\ w \notin Busy
    BY <1>2 DEF TakeTask, Busy
  <2>2. Cardinality(Busy') = Cardinality(Busy) + 1
    BY <1>0, <2>1, FS_AddElement
  <2> QED
    BY <1>2, <2>2 DEF TakeTask, ActiveOK
<1>3. CASE FinishTask(w)
  <2>1. Busy = Busy' \cup {w} /\ w \notin Busy'
    BY <1>3 DEF FinishTask, WakeHeld, Again, Busy
  <2>2. IsFiniteSet(Busy')
    BY <1>0, <2>1, FS_Subset
  <2>3. Cardinality(Busy) = Cardinality(Busy') + 1 /\ Cardinality(Busy') \in Nat
    BY <2>1, <2>2, FS_AddElement, FS_CardinalityType
  <2> QED
    BY <1>3, <2>3 DEF FinishTask, ActiveOK
<1> QED
  BY <1>1, <1>2, <1>3 DEF ThreadStep

LEMMA ActiveStep ==
  ASSUME TypeInv, ActiveOK, [Next]_vars
  PROVE  ActiveOK'
<1>1. CASE LoopTest \/ LoopEnds
  <2>1. Calm
    BY <1>1 DEF LoopTest, LoopEnds, activeVars, Calm, Busy, TypeInv, WorkTypeOK
  <2> QED
    BY <2>1, CalmStep
<1>2. ASSUME NEW e \in Events, RaiseEvent(e) \/ RaiserStep(e)
      PROVE  ActiveOK'
  <2>1. CASE StopRunning(e)
    <3>1. Calm
      BY <2>1 DEF StopRunning, Thrown, activeVars, Calm, Busy
    <3> QED
      BY <3>1, CalmStep
  <2>2. CASE PushTask(e)
    <3>1. active' = active /\ SignalQueue
      BY <2>2 DEF PushTask, activeVars
    <3>2. \A w \in Threads : wpc'[w] = wpc[w] \/ (wpc[w] = "sleep" /\ wpc'[w] = "scan")
      BY <3>1, SignalFacts DEF TypeInv
    <3> QED
      BY <3>1, <3>2, CalmStep DEF Calm, Busy
  <2>3. CASE RaiseEvent(e) \/ FindReceivers(e) \/ BlockingReturns(e)
    <3>1. UNCHANGED <<activeVars, workVars>>
      BY <2>3 DEF RaiseEvent, FindReceivers, BlockingReturns
    <3> QED
      BY <3>1, CalmStep DEF activeVars, workVars, Calm, Busy
  <2> QED
    BY <1>2, <2>1, <2>2, <2>3 DEF RaiserStep
<1>3. ASSUME NEW r \in Receivers, Bind(r) \/ RemoveReceiver(r) \/ UnbindStep(r)
      PROVE  ActiveOK'
  <2>1. CASE Unpause(r)
    <3>1. active' = active
      BY <2>1 DEF Unpause
    <3>2. wpc' = wpc \/ \E w \in WorkersOnHold : wpc' = [wpc EXCEPT ![w] = "recheck"]
      BY <2>1 DEF Unpause
    <3>3. \A w \in Threads : wpc'[w] = wpc[w] \/ (wpc[w] = "hold" /\ wpc'[w] = "recheck")
      BY <3>2 DEF WorkersOnHold, TypeInv, WorkTypeOK
    <3> QED
      BY <3>1, <3>3, CalmStep DEF Calm, Busy
  <2>2. CASE Bind(r) \/ RemoveReceiver(r) \/ Pause(r) \/ PauseWoken(r) \/ Purge(r)
    <3>1. active' = active /\ UNCHANGED workVars
      BY <2>2 DEF Bind, RemoveReceiver, Pause, PauseWoken, Purge, activeVars
    <3> QED
      BY <3>1, CalmStep DEF workVars, Calm, Busy
  <2> QED
    BY <1>3, <2>1, <2>2 DEF UnbindStep
<1>4. CASE UNCHANGED vars
  BY <1>4, CalmStep DEF vars, activeVars, workVars, Calm, Busy
<1> QED
  BY <1>1, <1>2, <1>3, <1>4, ActiveThread DEF Next

\* The variables of the switch have their types: in particular no reference
\* count falls below zero and _active_worker counts the threads in process().
THEOREM TypeCorrect == Spec => []TypeOK
<1>1. Init => ActiveOK
  <2> SUFFICES ASSUME Init
               PROVE  ActiveOK
    OBVIOUS
  <2>1. Busy = {}
    BY DEF Init, Busy
  <2>2. active = 0
    BY DEF Init
  <2> QED
    BY <2>1, <2>2, FS_EmptySet DEF ActiveOK
<1>2. TypeInv /\ BindingInv /\ ActiveOK /\ [Next]_vars => ActiveOK'
  BY ActiveStep
<1>3. TypeInv /\ BindingInv /\ ActiveOK => TypeOK
  <2> SUFFICES ASSUME TypeInv, BindingInv, ActiveOK
               PROVE  TypeOK
    OBVIOUS
  <2>1. active \in 0..Cardinality(Threads)
    <3>1. /\ Cardinality(Busy) \in Nat /\ Cardinality(Threads) \in Nat
          /\ Cardinality(Busy) <= Cardinality(Threads)
      BY ThreadsFinite, FS_Subset, FS_CardinalityType DEF Busy
    <3> QED
      BY <3>1 DEF ActiveOK
  <2>2. ref \in [Events -> Nat]
    <3>1. \A e \in Events : ref[e] \in Nat
      BY LeftFinite
    <3> QED
      BY <3>1 DEF TypeInv, EventTypeOK
  <2> QED
    BY <2>1, <2>2 DEF TypeOK, TypeInv, SwitchTypeOK, WorkTypeOK, EventTypeOK, BindTypeOK, HistoryTypeOK,
       WorkerStates, EventStates, BindStates
<1> QED
  BY <1>1, <1>2, <1>3, InvHolds, PTL DEF Spec
=============================================================================
