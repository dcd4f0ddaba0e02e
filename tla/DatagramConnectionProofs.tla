---------------------- MODULE DatagramConnectionProofs ----------------------
(***************************************************************************)
(* Proofs about DatagramConnection: the types, and that B never takes      *)
(* segments of different bundles for one, for any number of bundles,       *)
(* segments, sequence numbers, transmissions, losses and connections.      *)
(*                                                                         *)
(* Stop-and-wait with numbers modulo MaxSeq: at any time only two segments *)
(* of a connection of A can be under way, the one that was acknowledged    *)
(* last and the one that is sent.  They do not overtake each other, nor do *)
(* their ACKs; so A goes on to the next segment only when B has the one    *)
(* before it or has given the connection up.                               *)
(***************************************************************************)
EXTENDS DatagramConnection, TLAPS

-----------------------------------------------------------------------------
(* Lines of two kinds of things, the older ones first.                     *)

All(s, x) == \A k \in 1..Len(s) : s[k] = x

Chain(s, x, y) ==
  /\ \A k \in 1..Len(s) : s[k] = x \/ s[k] = y
  /\ \A k, l \in 1..Len(s) : k < l /\ s[k] = y => s[l] = y

\* The oldest one leaves the line.
LEMMA TailOf ==
  ASSUME NEW A, NEW s \in Seq(A), s # <<>>
  PROVE  /\ Head(s) \in A /\ Head(s) = s[1] /\ Tail(s) \in Seq(A)
         /\ 1 \in 1..Len(s)
         /\ \A k \in 1..Len(Tail(s)) : k \in Nat /\ k + 1 \in 1..Len(s) /\ Tail(s)[k] = s[k + 1]
  OBVIOUS

LEMMA AllTail ==
  ASSUME NEW A, NEW s \in Seq(A), s # <<>>, NEW x, All(s, x)
  PROVE  All(Tail(s), x) /\ Head(s) = x
  BY TailOf DEF All

LEMMA ChainTail ==
  ASSUME NEW A, NEW s \in Seq(A), s # <<>>, NEW x, NEW y, Chain(s, x, y)
  PROVE  /\ Chain(Tail(s), x, y) /\ Head(s) \in {x, y}
         /\ Head(s) = y => All(s, y) /\ All(Tail(s), y)
<1> DEFINE t == Tail(s)
<1>1. /\ Head(s) = s[1] /\ 1 \in 1..Len(s)
      /\ \A k \in 1..Len(t) : k \in Nat /\ k + 1 \in 1..Len(s) /\ t[k] = s[k + 1]
  BY TailOf
<1> HIDE DEF t
<1>2. \A k \in 1..Len(t) : t[k] = x \/ t[k] = y
  BY <1>1 DEF Chain
<1>3. ASSUME NEW k \in 1..Len(t), NEW l \in 1..Len(t), k < l, t[k] = y
      PROVE  t[l] = y
  <2>1. k + 1 \in 1..Len(s) /\ l + 1 \in 1..Len(s) /\ k + 1 < l + 1 /\ s[k + 1] = y
    BY <1>1, <1>3
  <2> QED
    BY <1>1, <2>1 DEF Chain
<1>4. ASSUME s[1] = y
      PROVE  All(s, y)
  <2>1. \A k \in 1..Len(s) : k = 1 \/ 1 < k
    OBVIOUS
  <2> QED
    BY <1>1, <1>4, <2>1 DEF Chain, All
<1>5. s[1] = y => All(t, y)
  BY <1>1, <1>4 DEF All
<1> QED
  BY <1>1, <1>2, <1>3, <1>4, <1>5 DEF Chain, t

\* One more joins the end of the line.
LEMMA AppendTo ==
  ASSUME NEW A, NEW s \in Seq(A), NEW e \in A
  PROVE  /\ Append(s, e) \in Seq(A)
         /\ \A k \in 1..Len(Append(s, e)) :
              \/ k \in 1..Len(s) /\ Append(s, e)[k] = s[k]
              \/ k = Len(s) + 1 /\ Append(s, e)[k] = e
         /\ Len(s) \in Nat
  OBVIOUS

LEMMA AllAppend ==
  ASSUME NEW A, NEW s \in Seq(A), NEW e \in A, All(s, e)
  PROVE  All(Append(s, e), e)
  BY AppendTo DEF All

LEMMA ChainAppend ==
  ASSUME NEW A, NEW s \in Seq(A), NEW e \in A, NEW x, NEW y, Chain(s, x, y),
         e = y \/ (e = x /\ \A k \in 1..Len(s) : s[k] # y)
  PROVE  Chain(Append(s, e), x, y)
<1> DEFINE t == Append(s, e)
<1>1. /\ Len(s) \in Nat
      /\ \A k \in 1..Len(t) : \/ k \in 1..Len(s) /\ t[k] = s[k]
                              \/ k = Len(s) + 1 /\ t[k] = e
  BY AppendTo
<1> HIDE DEF t
<1>2. \A k \in 1..Len(t) : t[k] = x \/ t[k] = y
  BY <1>1 DEF Chain
<1>3. ASSUME NEW k \in 1..Len(t), NEW l \in 1..Len(t), k < l, t[k] = y
      PROVE  t[l] = y
  <2>1. k \in 1..Len(s) /\ t[k] = s[k]
    BY <1>1, <1>3
  <2>2. e = y
    BY <2>1, <1>3
  <2>3. l \in 1..Len(s) => t[l] = s[l]
    BY <1>1
  <2> QED
    BY <1>1, <1>3, <2>1, <2>2, <2>3 DEF Chain
<1> QED
  BY <1>2, <1>3 DEF Chain, t

LEMMA AllChain ==
  ASSUME NEW A, NEW s \in Seq(A), NEW x, NEW y
  PROVE  /\ All(s, y) => Chain(s, x, y)
         /\ All(s, x) /\ x # y => Chain(s, x, y)
  BY DEF All, Chain

LEMMA AllEmpty ==
  ASSUME NEW x
  PROVE  All(<<>>, x)
  BY DEF All

-----------------------------------------------------------------------------
(* Types.                                                                  *)

LEMMA NextNumber ==
  ASSUME NEW n \in 0..(MaxSeq - 1)
  PROVE  (n + 1) % MaxSeq \in 0..(MaxSeq - 1) /\ (n + 1) % MaxSeq # n
<1>1. MaxSeq \in Nat /\ MaxSeq >= 2
  BY DatagramAssumption
<1>2. CASE n + 1 < MaxSeq
  <2>1. (n + 1) % MaxSeq = n + 1
    BY <1>1, <1>2
  <2> QED
    BY <1>1, <1>2, <2>1
<1>3. CASE ~(n + 1 < MaxSeq)
  <2>1. n + 1 = MaxSeq
    BY <1>1, <1>3
  <2>2. MaxSeq % MaxSeq = 0
    BY <1>1
  <2> QED
    BY <1>1, <2>1, <2>2
<1> QED
  BY <1>2, <1>3

LEMMA SegmentFields ==
  ASSUME NEW s \in Segment
  PROVE  /\ s.b \in Jobs /\ s.i \in Nat \ {0} /\ s.seq \in 0..(MaxSeq - 1)
         /\ s.first \in BOOLEAN /\ s.last \in BOOLEAN
  BY DEF Segment

LEMMA EmptySeq ==
  ASSUME NEW A, NEW s, s = <<>>
  PROVE  s \in Seq(A)
  OBVIOUS

LEMMA OutSegmentType ==
  ASSUME TypeOK, cur \in Jobs
  PROVE  OutSegment \in Segment
  BY DEF OutSegment, Segment, TypeOK, IsLast

\* The Sender holds a job while it works on one.
Working == spc \in {"get", "send", "wait"} => cur \in Jobs

LEMMA TypeInit == Init => TypeOK /\ Working
<1> SUFFICES ASSUME Init
             PROVE  TypeOK /\ Working
  OBVIOUS
<1>1. 0 \in 0..(MaxSeq - 1) /\ 0 \in 0..Retries /\ 0 \in 0..MaxLoss
  BY DatagramAssumption
<1>2. /\ queue \in Seq(Jobs) /\ net \in Seq(Segment)
      /\ acks \in Seq(0..(MaxSeq - 1)) /\ got \in Seq(Segment)
  BY EmptySeq DEF Init
<1>3. /\ aconn \in {"none", "up", "stopping"} /\ aabort \in BOOLEAN
      /\ cur \in Jobs \cup {None} /\ spc \in {"idle", "get", "send", "wait", "done"}
      /\ first \in BOOLEAN /\ bad \in BOOLEAN
  BY DEF Init
<1>p. pos \in Nat \ {0}
  BY DEF Init
<1>4. /\ outseq \in 0..(MaxSeq - 1)
      /\ waitack \in 0..(MaxSeq - 1) \cup {None}
      /\ lastack \in 0..(MaxSeq - 1) \cup {None}
  BY <1>1 DEF Init
<1>5. tries \in 0..Retries
  BY <1>1 DEF Init
<1>6. losses \in 0..MaxLoss /\ late \in BOOLEAN
  BY <1>1 DEF Init
<1>7. /\ bconn \in {"none", "open", "dying", "closed"} /\ babort \in BOOLEAN
      /\ inseq \in 0..(MaxSeq - 1) /\ instate \in {"FIRST", "MIDDLE"}
      /\ pending \in Segment \cup {None} /\ buf \in Segment \cup {None}
  BY <1>1 DEF Init
<1>8. /\ handed \subseteq Jobs /\ completed \subseteq Jobs
      /\ requeued \subseteq Jobs /\ failed \subseteq Jobs
      /\ received \subseteq Jobs \cup {None}
  BY DEF Init
<1>9. Working
  BY DEF Init, Working
<1> QED
  BY <1>2, <1>3, <1>p, <1>4, <1>5, <1>6, <1>7, <1>8, <1>9 DEF TypeOK

LEMMA AdvanceType ==
  ASSUME TypeOK, cur \in Jobs, Advance
  PROVE  /\ spc' \in {"idle", "send"} /\ pos' \in Nat \ {0}
         /\ outseq' \in 0..(MaxSeq - 1) /\ first' \in BOOLEAN
         /\ cur' \in Jobs \cup {None} /\ (spc' # "idle" => cur' \in Jobs)
         /\ completed' \subseteq Jobs
<1>1. outseq' \in 0..(MaxSeq - 1) /\ first' \in BOOLEAN
  BY NextNumber DEF TypeOK, Advance
<1>2. CASE IsLast
  BY <1>1, <1>2 DEF Advance, Complete, TypeOK
<1>3. CASE ~IsLast
  <2>1. pos' = pos + 1 /\ spc' = "send" /\ cur' = cur /\ completed' = completed
    BY <1>3 DEF Advance
  <2> QED
    BY <1>1, <2>1 DEF TypeOK
<1> QED
  BY <1>2, <1>3

LEMMA TypeNext ==
  ASSUME TypeOK, Working, [Next]_vars
  PROVE  TypeOK' /\ Working'
<1>i. (inseq + 1) % MaxSeq \in 0..(MaxSeq - 1) /\ 0 \in 0..(MaxSeq - 1)
  BY NextNumber, DatagramAssumption DEF TypeOK
<1>a. net # <<>> => Head(net) \in Segment /\ Tail(net) \in Seq(Segment)
  BY TailOf DEF TypeOK
<1>b. acks # <<>> => /\ Head(acks) \in 0..(MaxSeq - 1)
                     /\ Tail(acks) \in Seq(0..(MaxSeq - 1))
  BY TailOf DEF TypeOK
<1>q. ASSUME cur \in Jobs
      PROVE  Append(queue, cur) \in Seq(Jobs)
  BY <1>q DEF TypeOK
<1>1. ASSUME NEW j \in Jobs, QueueJob(j)
      PROVE  TypeOK' /\ Working'
  BY <1>1 DEF QueueJob, GetConnection, TypeOK, Working, netVars, bVars
<1>2. CASE ReceiveAck
  BY <1>2, <1>b DEF ReceiveAck, GetConnection, TypeOK, Working, senderVars, bVars, reportVars
<1>3. CASE ShutdownA
  BY <1>3 DEF ShutdownA, TypeOK, Working, netVars, bVars, reportVars
<1>4. CASE StartTransfer
  <2>1. Head(queue) \in Jobs /\ Tail(queue) \in Seq(Jobs)
    BY <1>4, TailOf DEF StartTransfer, TypeOK
  <2> QED
    BY <1>4, <2>1 DEF StartTransfer, TypeOK, Working, netVars, bVars, reportVars
<1>5. CASE ReadBundle
  BY <1>5 DEF ReadBundle, TypeOK, Working, netVars, bVars, reportVars
<1>6. CASE BundleMissing
  BY <1>6, <1>q DEF BundleMissing, PutBack, TypeOK, Working, netVars, bVars, reportVars
<1>7. CASE SendSegment
  <2>1. cur \in Jobs /\ net' = Append(net, OutSegment)
    BY <1>7 DEF SendSegment, Working
  <2>2. net' \in Seq(Segment)
    BY <2>1, OutSegmentType, AppendTo DEF TypeOK
  <2>3. 1 \in 0..Retries
    BY DatagramAssumption
  <2>4. /\ spc' \in {"idle", "send", "wait"} /\ pos' \in Nat \ {0}
        /\ outseq' \in 0..(MaxSeq - 1) /\ first' \in BOOLEAN
        /\ cur' \in Jobs \cup {None} /\ (spc' # "idle" => cur' \in Jobs)
        /\ completed' \subseteq Jobs
    <3>1. CASE StopNWait
      BY <1>7, <2>1, <3>1 DEF SendSegment, TypeOK
    <3>2. CASE ~StopNWait
      <4>1. Advance
        BY <1>7, <3>2 DEF SendSegment
      <4> QED
        BY <2>1, <4>1, AdvanceType
    <3> QED
      BY <3>1, <3>2
  <2>5. waitack' = outseq /\ tries' = 1
    BY <1>7 DEF SendSegment
  <2>6. UNCHANGED <<aconn, lastack, aabort, queue, bad, acks, losses, late, bVars,
                    handed, requeued, failed>>
    BY <1>7 DEF SendSegment
  <2> QED
    BY <2>2, <2>3, <2>4, <2>5, <2>6 DEF TypeOK, Working, bVars
<1>8. CASE Acknowledged
  <2>1. cur \in Jobs
    BY <1>8 DEF Acknowledged, Working
  <2>2. /\ spc' \in {"idle", "send"} /\ pos' \in Nat \ {0}
        /\ outseq' \in 0..(MaxSeq - 1) /\ first' \in BOOLEAN
        /\ cur' \in Jobs \cup {None} /\ (spc' # "idle" => cur' \in Jobs)
        /\ completed' \subseteq Jobs
    BY <1>8, <2>1, AdvanceType DEF Acknowledged
  <2>3. UNCHANGED <<aconn, lastack, aabort, queue, tries, waitack, bad, netVars,
                    bVars, handed, requeued, failed>>
    BY <1>8 DEF Acknowledged
  <2> QED
    BY <2>2, <2>3 DEF TypeOK, Working, netVars, bVars
<1>9. CASE Retransmit
  <2>1. cur \in Jobs /\ net' = Append(net, OutSegment)
    BY <1>9 DEF Retransmit, TimedOut, Working
  <2>2. net' \in Seq(Segment)
    BY <2>1, OutSegmentType, AppendTo DEF TypeOK
  <2>3. tries' \in 0..Retries
    BY <1>9, DatagramAssumption DEF Retransmit, TypeOK
  <2> QED
    BY <1>9, <2>2, <2>3 DEF Retransmit, TypeOK, Working, bVars, reportVars
<1>10. CASE TransmissionFails
  <2>1. cur \in Jobs
    BY <1>10 DEF TransmissionFails, TimedOut, Working
  <2>2. /\ queue' \in Seq(Jobs) /\ cur' = None /\ spc' \in {"idle", "done"}
        /\ aabort' \in BOOLEAN /\ completed' \subseteq Jobs
    BY <1>10, <1>q, <2>1 DEF TransmissionFails, Complete, PutBack, TypeOK
  <2>3. bad' = TRUE /\ failed' \subseteq Jobs
    BY <1>10, <2>1 DEF TransmissionFails, TypeOK
  <2>4. UNCHANGED <<aconn, lastack, pos, outseq, first, tries, waitack, netVars,
                    bVars, handed, requeued>>
    BY <1>10 DEF TransmissionFails
  <2> QED
    BY <2>2, <2>3, <2>4 DEF TypeOK, Working, netVars, bVars
<1>11. CASE SenderExits
  <2>1. queue' \in Seq(Jobs)
    BY <1>11, <1>q DEF SenderExits, TypeOK
  <2> QED
    BY <1>11, <2>1 DEF SenderExits, TypeOK, Working, netVars, bVars, reportVars
<1>12. CASE StopConnection
  BY <1>12 DEF StopConnection, TypeOK, Working, senderVars, netVars, bVars, reportVars
<1>13. CASE JoinSender
  <2>1. {queue[k] : k \in 1..Len(queue)} \subseteq Jobs
    BY DEF TypeOK
  <2>2. queue' \in Seq(Jobs)
    BY <1>13, EmptySeq DEF JoinSender
  <2>3. 0 \in 0..Retries
    BY DatagramAssumption
  <2>4. /\ aconn' = "none" /\ requeued' \subseteq Jobs
        /\ aabort' = FALSE /\ spc' = "idle" /\ pos' = 1 /\ outseq' = 0
        /\ first' = TRUE /\ tries' = 0 /\ waitack' = None /\ lastack' = None
        /\ bad' = FALSE /\ late' \in BOOLEAN
    BY <1>13, <2>1 DEF JoinSender, TypeOK
  <2>5. UNCHANGED <<cur, net, acks, losses, bVars, handed, completed, failed>>
    BY <1>13 DEF JoinSender
  <2>6. /\ outseq' \in 0..(MaxSeq - 1) /\ tries' \in 0..Retries
        /\ pos' \in Nat \ {0} /\ late' \in BOOLEAN
    BY <1>i, <2>3, <2>4
  <2>7. /\ aconn' \in {"none", "up", "stopping"} /\ aabort' \in BOOLEAN
        /\ spc' \in {"idle", "get", "send", "wait", "done"} /\ first' \in BOOLEAN
        /\ waitack' \in 0..(MaxSeq - 1) \cup {None}
        /\ lastack' \in 0..(MaxSeq - 1) \cup {None} /\ bad' \in BOOLEAN /\ Working'
    BY <2>4 DEF Working
  <2>8. requeued' \subseteq Jobs
    BY <2>4
  <2> QED
    BY <2>2, <2>5, <2>6, <2>7, <2>8 DEF TypeOK, bVars
<1>14. CASE LoseSegment
  <2>1. losses' \in 0..MaxLoss
    BY <1>14, DatagramAssumption DEF LoseSegment, TypeOK
  <2> QED
    BY <1>14, <1>a, <2>1 DEF LoseSegment, TypeOK, Working, aVars, senderVars, bVars, reportVars
<1>15. CASE LoseAck
  <2>1. losses' \in 0..MaxLoss
    BY <1>15, DatagramAssumption DEF LoseAck, TypeOK
  <2> QED
    BY SMTT(30), <1>15, <1>b, <2>1 DEF LoseAck, TypeOK, Working, aVars, senderVars, bVars, reportVars
<1>16. CASE DropSegment
  BY <1>16, <1>a DEF DropSegment, TypeOK, Working, aVars, senderVars, bVars, reportVars
<1>17. CASE RefuseSegment
  <2>1. Head(net).seq \in 0..(MaxSeq - 1)
    <3>1. net # <<>>
      BY <1>17 DEF RefuseSegment
    <3> QED
      BY <3>1, <1>a, SegmentFields
  <2>2. acks' \in Seq(0..(MaxSeq - 1))
    <3>1. acks' = acks \/ acks' = Append(acks, Head(net).seq)
      BY <1>17 DEF RefuseSegment, SendAck
    <3>2. PICK n \in 0..(MaxSeq - 1) : n = Head(net).seq
      BY <2>1
    <3>3. acks \in Seq(0..(MaxSeq - 1)) /\ Append(acks, n) \in Seq(0..(MaxSeq - 1))
      BY AppendTo DEF TypeOK
    <3> QED
      BY <3>1, <3>2, <3>3
  <2> QED
    BY <1>17, <1>a, <2>2 DEF RefuseSegment, TypeOK, Working, aVars, senderVars, reportVars
<1>18. CASE AcceptSegment
  BY <1>18, <1>a, <1>i DEF AcceptSegment, TypeOK, Working, aVars, senderVars, reportVars
<1>19. CASE StoreSegment
  <2>1. pending \in Segment /\ pending.seq \in 0..(MaxSeq - 1)
    BY <1>19, SegmentFields DEF StoreSegment, TypeOK
  <2>2. acks' \in Seq(0..(MaxSeq - 1))
    BY <1>19, <2>1, AppendTo DEF StoreSegment, SendAck, TypeOK
  <2> QED
    BY SMTT(30), <1>19, <2>1, <2>2 DEF StoreSegment, TypeOK, Working, aVars, senderVars, reportVars
<1>20. CASE WaitAborted
  BY <1>20 DEF WaitAborted, TypeOK, Working, aVars, senderVars, netVars, reportVars
<1>21. CASE Underflow
  <2>1. got' \in Seq(Segment)
    BY <1>21, AppendTo DEF Underflow, TypeOK
  <2> QED
    BY <1>21, <2>1 DEF Underflow, TypeOK, Working, aVars, senderVars, netVars, reportVars
<1>22. CASE DeliverBundle
  <2>1. got # <<>> => got[1] \in Segment
    BY TailOf DEF TypeOK
  <2>2. got[1].b \in Jobs /\ got' \in Seq(Segment)
    BY <1>22, <2>1, SegmentFields DEF DeliverBundle, Deserialized
  <2> QED
    BY <1>22, <2>2 DEF DeliverBundle, TypeOK, Working, aVars, senderVars, netVars, reportVars
<1>23. CASE ReaderExits
  BY <1>23 DEF ReaderExits, TypeOK, Working, aVars, senderVars, netVars, reportVars
<1>24. CASE CloseStream
  BY <1>24 DEF CloseStream, TypeOK, Working, aVars, senderVars, netVars, reportVars
<1>25. CASE ConnectionDown
  <2>1. got' \in Seq(Segment)
    BY <1>25, EmptySeq DEF ConnectionDown
  <2>2. /\ bconn' = "none" /\ babort' = FALSE /\ instate' = "FIRST" /\ buf' = None
        /\ inseq' \in 0..(MaxSeq - 1)
    BY <1>25, <1>i DEF ConnectionDown
  <2>3. UNCHANGED <<aVars, netVars, pending, received, reportVars>>
    BY <1>25 DEF ConnectionDown
  <2>4. /\ bconn' \in {"none", "open", "dying", "closed"} /\ babort' \in BOOLEAN
        /\ inseq' \in 0..(MaxSeq - 1) /\ instate' \in {"FIRST", "MIDDLE"}
        /\ buf' \in Segment \cup {None}
    BY <2>2
  <2> HIDE <2>2
  <2> QED
    BY <2>1, <2>3, <2>4 DEF TypeOK, Working, aVars, senderVars, netVars, reportVars
<1>26. CASE UNCHANGED vars
  BY <1>26 DEF vars, TypeOK, Working, aVars, senderVars, netVars, bVars, reportVars
<1> QED
  BY <1>1, <1>2, <1>3, <1>4, <1>5, <1>6, <1>7, <1>8, <1>9, <1>10, <1>11,
     <1>12, <1>13, <1>14, <1>15, <1>16, <1>17, <1>18, <1>19, <1>20, <1>21,
     <1>22, <1>23, <1>24, <1>25, <1>26
  DEF Next, SenderThread, ConnectionThread, ReceiveThread, ReaderThread

\* Every variable of both nodes and of the network keeps its type.
THEOREM TypeCorrect == Spec => []TypeOK
<1>1. Spec => [](TypeOK /\ Working)
  BY TypeInit, TypeNext, PTL DEF Spec
<1> QED
  BY <1>1, PTL

-----------------------------------------------------------------------------
(* The invariant.  p is the segment of A's connection that was acknowledged *)
(* last, or None; c the one whose number is outseq, once it was sent.       *)

Whole(s)      == s.i = SegCount[s.b]
Follows(s, t) == IF Whole(s) THEN t.i = 1 ELSE t.b = s.b /\ t.i = s.i + 1
Marked(s)     == (s.first <=> s.i = 1) /\ (s.last => Whole(s))
NumberOf(p)   == IF p = None THEN None ELSE p.seq

\* A has sent the segment numbered outseq, or never will.
Sent == spc = "wait" \/ bad

\* B has acknowledged that segment.
AckOut == lastack = outseq \/ \E k \in 1..Len(acks) : acks[k] = outseq

\* The Sender: what it sends continues what was acknowledged.
SenderInv(p, c) ==
  /\ bad => spc \in {"idle", "done"}
  /\ spc \in {"send", "wait"} => (first <=> pos = 1)
  /\ p = None => /\ outseq = 0
                 /\ spc \in {"send", "wait"} => pos = 1
                 /\ Sent => c.i = 1
  /\ p # None => /\ Marked(p) /\ (p.seq + 1) % MaxSeq = outseq
                 /\ spc \in {"idle", "get"} /\ ~bad => Whole(p)
                 /\ spc \in {"send", "wait"} =>
                      IF Whole(p) THEN pos = 1 ELSE cur = p.b /\ pos = p.i + 1
                 /\ Sent => Follows(p, c)
  /\ Sent => Marked(c) /\ c.seq = outseq
  /\ spc = "wait" => c = OutSegment /\ waitack = outseq
  /\ waitack = NumberOf(p) \/ (waitack = outseq /\ Sent)
  /\ lastack = NumberOf(p) \/ (lastack = outseq /\ Sent)

\* The network: p before c, and nothing of p behind an ACK of c.
AckLine(p) ==
  /\ IF Sent THEN Chain(acks, NumberOf(p), outseq) ELSE All(acks, NumberOf(p))
  /\ lastack = outseq => All(acks, outseq)

NetLine(p, c) == IF Sent THEN Chain(net, p, c) ELSE All(net, p)

LinesInv(p, c) ==
  /\ NetLine(p, c) /\ AckLine(p)
  /\ pending \in {None, p} \/ (pending = c /\ Sent)
  /\ AckOut => Sent /\ pending \in {None, c} /\ All(net, c)
  /\ Sent /\ pending = c => All(net, c)

\* What B holds: the last segment the deserializer has read, the last one that
\* is stored, and the last one that was accepted.
Read   == IF got = <<>> THEN None ELSE got[Len(got)]
Stored == IF buf = None THEN Read ELSE buf
Held   == IF pending = None THEN Stored ELSE pending

After(x, s) == IF x = None THEN s.i = 1 ELSE Follows(x, s)

DataInv ==
  /\ Intact
  /\ buf # None => After(Read, buf)
  /\ pending # None => After(Stored, pending)
  /\ bconn = "closed" => babort
  /\ ~babort /\ instate = "FIRST" => Held = None \/ Whole(Held)

\* What B holds ends with x, or with nothing because x ended a bundle.
Ends(x) == Held = x \/ (Held = None /\ Whole(x))

\* Where the two ends stand when B is in a bundle: B expects c and has not
\* acknowledged it; or B has c; or A has begun anew and B has not noticed.
SyncInv(p, c) ==
  ~babort /\ instate = "MIDDLE" =>
    \/ inseq = outseq /\ p # None /\ Ends(p) /\ ~AckOut
    \/ inseq = (outseq + 1) % MaxSeq /\ Sent /\ Ends(c) /\ All(net, c)
    \/ p = None /\ pending = None /\ ~AckOut

Linked(p, c) == SenderInv(p, c) /\ LinesInv(p, c) /\ SyncInv(p, c)

Joined ==
  /\ DataInv /\ None \notin received
  /\ \E p \in Segment \cup {None}, c \in Segment : Linked(p, c)

DatagramInv == TypeOK /\ Working /\ (~late => Joined)

-----------------------------------------------------------------------------
(* What leaves parts of it alone.                                          *)

LEMMA SenderKept ==
  ASSUME NEW p, NEW c, SenderInv(p, c), UNCHANGED aVars
  PROVE  SenderInv(p, c)' /\ Sent' = Sent
  BY DEF SenderInv, Sent, OutSegment, IsLast, aVars, senderVars

LEMMA LinesKept ==
  ASSUME NEW p, NEW c, LinesInv(p, c), Sent' = Sent,
         UNCHANGED <<net, acks, pending, lastack, outseq>>
  PROVE  LinesInv(p, c)' /\ AckOut' = AckOut
  BY DEF LinesInv, NetLine, AckLine, AckOut, Chain, All

LEMMA DataKept ==
  ASSUME DataInv, UNCHANGED bVars
  PROVE  DataInv' /\ Held' = Held
  BY DEF DataInv, Intact, Read, Stored, Held, After, bVars

LEMMA SyncKept ==
  ASSUME NEW p, NEW c, SyncInv(p, c), Sent' = Sent,
         UNCHANGED <<net, acks, lastack, outseq, bVars>>
  PROVE  SyncInv(p, c)'
  BY DEF SyncInv, AckOut, All, Ends, Read, Stored, Held, bVars

\* The numbers of the two segments differ, and so do the segments.
LEMMA Distinct ==
  ASSUME TypeOK, NEW p \in Segment \cup {None}, NEW c \in Segment, SenderInv(p, c)
  PROVE  /\ NumberOf(p) # outseq
         /\ Sent => p # c
         /\ p # None => p \in Segment /\ NumberOf(p) = p.seq
<1>1. None \notin Nat /\ None \notin Segment /\ outseq \in Nat /\ outseq \in 0..(MaxSeq - 1)
  BY DatagramAssumption, NoneAssumption DEF TypeOK
<1>2. CASE p = None
  BY <1>1, <1>2 DEF NumberOf
<1>3. CASE p # None
  <2>1. p.seq \in 0..(MaxSeq - 1) /\ (p.seq + 1) % MaxSeq = outseq
    BY <1>3, SegmentFields DEF SenderInv
  <2>2. p.seq # outseq
    BY <2>1, NextNumber
  <2>3. Sent => c.seq = outseq
    BY DEF SenderInv
  <2> QED
    BY <1>3, <2>2, <2>3 DEF NumberOf
<1> QED
  BY <1>2, <1>3

-----------------------------------------------------------------------------
(* The steps of A.                                                         *)

\* Nothing that matters here.
LEMMA LinkedIdle ==
  ASSUME NEW p, NEW c, Linked(p, c), DataInv,
         UNCHANGED <<lastack, cur, spc, pos, outseq, first, waitack, bad, net, acks, bVars>>
  PROVE  Linked(p, c)' /\ DataInv'
<1>1. SenderInv(p, c)' /\ Sent' = Sent
  BY DEF Linked, SenderInv, Sent, OutSegment, IsLast
<1> QED
  BY <1>1, LinesKept, SyncKept, DataKept DEF Linked, bVars

\* The Sender takes a job, reads the bundle, or ends.
LEMMA LinkedMoves ==
  ASSUME TypeOK, Working, NEW p, NEW c, Linked(p, c), DataInv,
         StartTransfer \/ ReadBundle \/ BundleMissing \/ SenderExits
  PROVE  Linked(p, c)' /\ DataInv'
<1>1. /\ UNCHANGED <<lastack, outseq, waitack, bad, net, acks, bVars>>
      /\ \/ spc = "idle" /\ spc' = "get" /\ ~bad
         \/ spc = "get" /\ spc' = "send" /\ pos' = 1 /\ first' = TRUE
         \/ spc \in {"idle", "get"} /\ spc' = "done"
  BY DEF StartTransfer, ReadBundle, BundleMissing, SenderExits, PutBack, netVars
<1>2. SenderInv(p, c)' /\ Sent' = Sent
  <2>1. Sent' = Sent /\ OutSegment.seq = outseq
    BY <1>1 DEF Sent, OutSegment
  <2> QED
    BY <1>1, <2>1 DEF Linked, SenderInv
<1> QED
  BY <1>1, <1>2, LinesKept, SyncKept, DataKept DEF Linked, bVars

\* The ACK that is waited for is taken over.
LEMMA LinkedReceiveAck ==
  ASSUME TypeOK, NEW p \in Segment \cup {None}, NEW c \in Segment, Linked(p, c), DataInv,
         ReceiveAck
  PROVE  Linked(p, c)' /\ DataInv'
<1>1. /\ acks # <<>> /\ acks' = Tail(acks)
      /\ lastack' = IF Head(acks) = waitack THEN waitack ELSE lastack
      /\ UNCHANGED <<aabort, cur, spc, pos, outseq, first, waitack, bad, net, bVars>>
      /\ acks \in Seq(0..(MaxSeq - 1)) /\ pending' = pending
  BY DEF ReceiveAck, senderVars, TypeOK, bVars
<1>d. NumberOf(p) # outseq
  BY Distinct DEF Linked
<1>2. Sent' = Sent
  BY <1>1 DEF Sent
<1>3. SenderInv(p, c)'
  BY <1>1, <1>2 DEF Linked, SenderInv, OutSegment, IsLast
<1>4. \A k \in 1..Len(acks') : \E l \in 1..Len(acks) : acks'[k] = acks[l]
  BY <1>1, TailOf
<1>5. Head(acks) = acks[1] /\ 1 \in 1..Len(acks)
  BY <1>1, TailOf
<1>6. AckOut' => AckOut
  <2>1. lastack' = outseq => AckOut
    BY <1>1, <1>5 DEF AckOut
  <2> QED
    BY <1>1, <1>4, <2>1 DEF AckOut
<1>7. AckLine(p)'
  <2>1. IF Sent THEN Chain(acks', NumberOf(p), outseq) ELSE All(acks', NumberOf(p))
    BY <1>1, AllTail, ChainTail DEF Linked, LinesInv, AckLine
  <2>2. ASSUME lastack' = outseq
        PROVE  All(acks', outseq)
    <3>1. CASE lastack = outseq
      BY <1>1, <3>1, AllTail DEF Linked, LinesInv, AckLine
    <3>2. CASE lastack # outseq
      <4>1. Head(acks) = outseq
        BY <1>1, <2>2, <3>2
      <4>2. Sent
        BY <1>5, <4>1 DEF Linked, LinesInv, AckOut
      <4> QED
        BY <1>1, <4>1, <4>2, ChainTail DEF Linked, LinesInv, AckLine
    <3> QED
      BY <3>1, <3>2
  <2> QED
    BY <1>1, <1>2, <2>1, <2>2 DEF AckLine
<1>8. LinesInv(p, c)'
  BY <1>1, <1>2, <1>6, <1>7 DEF Linked, LinesInv, NetLine
<1>9. Held' = Held /\ DataInv'
  BY <1>1, DataKept
<1>10. SyncInv(p, c)'
  BY <1>1, <1>2, <1>6, <1>9 DEF Linked, SyncInv, Ends, bVars
<1> QED
  BY <1>3, <1>8, <1>9, <1>10 DEF Linked

\* The acknowledged segment is the one before the next.
LEMMA LinkedAcknowledged ==
  ASSUME TypeOK, Working, NEW p \in Segment \cup {None}, NEW c \in Segment,
         Linked(p, c), DataInv, Acknowledged
  PROVE  Linked(c, c)' /\ DataInv'
<1>1. /\ spc = "wait" /\ lastack = waitack /\ Advance
      /\ UNCHANGED <<lastack, waitack, bad, net, acks, bVars>>
  BY DEF Acknowledged, netVars
<1>2. /\ Sent /\ ~bad /\ c = OutSegment /\ waitack = outseq /\ Marked(c)
      /\ c.seq = outseq /\ (first <=> pos = 1)
  BY <1>1 DEF Linked, SenderInv, Sent
<1>3. /\ c # None /\ NumberOf(c) = outseq
      /\ c.b = cur /\ c.i = pos /\ (Whole(c) <=> IsLast)
  BY <1>2, NoneAssumption DEF NumberOf, OutSegment, Whole, IsLast
<1>4. /\ outseq' = (c.seq + 1) % MaxSeq /\ first' = FALSE
      /\ IF Whole(c) THEN spc' = "idle" ELSE pos' = pos + 1 /\ spc' = "send" /\ cur' = cur
  BY <1>1, <1>2, <1>3 DEF Advance, Complete
<1>5. outseq' # outseq
  BY <1>2, <1>4, NextNumber DEF TypeOK
<1>6. ~Sent'
  BY <1>1, <1>2, <1>4 DEF Sent
<1>7. pos \in Nat \ {0}
  BY DEF TypeOK
<1>8. SenderInv(c, c)'
  BY <1>1, <1>2, <1>3, <1>4, <1>6, <1>7 DEF SenderInv
<1>9. All(acks, outseq) /\ All(net, c) /\ pending \in {None, c}
  BY <1>1, <1>2 DEF Linked, LinesInv, AckLine, AckOut
<1>10. ~AckOut'
  BY <1>1, <1>2, <1>5, <1>9 DEF AckOut, All
<1>11. LinesInv(c, c)'
  <2>1. NetLine(c, c)'
    BY <1>1, <1>6, <1>9 DEF NetLine
  <2>2. AckLine(c)'
    BY <1>1, <1>2, <1>3, <1>5, <1>6, <1>9 DEF AckLine
  <2>3. pending' \in {None, c}
    BY <1>1, <1>9 DEF bVars
  <2> QED
    BY <1>6, <1>10, <2>1, <2>2, <2>3 DEF LinesInv
<1>12. Held' = Held /\ DataInv'
  BY <1>1, DataKept
<1>13. SyncInv(c, c)'
  <2>1. SUFFICES ASSUME ~babort, instate = "MIDDLE"
                 PROVE  inseq = outseq' /\ Ends(c)
    BY <1>1, <1>3, <1>10, <1>12 DEF SyncInv, Ends, bVars
  <2>2. AckOut
    BY <1>1, <1>2 DEF AckOut
  <2> QED
    BY <1>2, <1>4, <2>1, <2>2 DEF Linked, SyncInv
<1> QED
  BY <1>8, <1>11, <1>12, <1>13 DEF Linked

\* The segment that A sends, or would have sent, continues p.
LEMMA OutContinues ==
  ASSUME TypeOK, Working, NEW p \in Segment \cup {None}, NEW c \in Segment,
         SenderInv(p, c), spc = "send"
  PROVE  /\ OutSegment \in Segment /\ OutSegment.seq = outseq /\ Marked(OutSegment)
         /\ p = None => OutSegment.i = 1
         /\ p # None => Follows(p, OutSegment)
         /\ ~Sent /\ p # OutSegment
<1>1. OutSegment \in Segment
  BY OutSegmentType DEF Working
<1>2. /\ OutSegment.b = cur /\ OutSegment.i = pos /\ OutSegment.seq = outseq
      /\ OutSegment.first = first /\ (OutSegment.last => IsLast)
  BY DEF OutSegment
<1>3. ~bad /\ ~Sent
  BY DEF SenderInv, Sent
<1>4. NumberOf(p) # outseq
  BY Distinct
<1> QED
  BY <1>1, <1>2, <1>3, <1>4, NoneAssumption
  DEF SenderInv, Marked, Whole, IsLast, Follows, NumberOf

\* Where B stands is the same, whatever A is about to send.
LEMMA SyncNext ==
  ASSUME NEW p, NEW c, NEW d, SyncInv(p, c), ~Sent,
         UNCHANGED <<acks, lastack, outseq, bVars>>
  PROVE  SyncInv(p, d)'
  BY DEF SyncInv, AckOut, Ends, Read, Stored, Held, bVars

LEMMA LinkedSend ==
  ASSUME TypeOK, Working, StopNWait,
         NEW p \in Segment \cup {None}, NEW c \in Segment,
         Linked(p, c), DataInv, SendSegment
  PROVE  \E d \in Segment : Linked(p, d)' /\ DataInv'
<1>1. /\ spc = "send" /\ spc' = "wait" /\ waitack' = outseq
      /\ net' = Append(net, OutSegment)
      /\ UNCHANGED <<outseq, first, pos, cur, lastack, bad, acks, bVars>>
  BY DEF SendSegment
<1>2. PICK d \in Segment : d = OutSegment
  BY <1>1, OutContinues DEF Linked
<1>3. /\ d.seq = outseq /\ Marked(d) /\ (p = None => d.i = 1)
      /\ (p # None => Follows(p, d)) /\ ~Sent /\ p # d
  BY <1>1, <1>2, OutContinues DEF Linked
<1>4. Sent' /\ d = OutSegment'
  BY <1>1, <1>2 DEF Sent, OutSegment, IsLast
<1>5. ~bad
  BY <1>1 DEF Linked, SenderInv
<1>6. SenderInv(p, d)'
  BY <1>1, <1>3, <1>4, <1>5 DEF Linked, SenderInv
<1>7. ~AckOut /\ ~AckOut'
  BY <1>1, <1>3 DEF Linked, LinesInv, AckOut
<1>8. NetLine(p, d)'
  <2>1. All(net, p) /\ net \in Seq(Segment)
    BY <1>3 DEF Linked, LinesInv, NetLine, TypeOK
  <2>2. Chain(net, p, d)
    BY <1>3, <2>1, AllChain
  <2>3. Chain(Append(net, d), p, d)
    BY <2>1, <2>2, ChainAppend
  <2> QED
    BY <1>1, <1>2, <1>4, <2>3 DEF NetLine
<1>9. AckLine(p)'
  <2>1. All(acks, NumberOf(p)) /\ acks \in Seq(0..(MaxSeq - 1)) /\ lastack # outseq
    BY <1>3, <1>7 DEF Linked, LinesInv, AckLine, TypeOK, AckOut
  <2>2. NumberOf(p) # outseq
    BY Distinct DEF Linked
  <2>3. Chain(acks, NumberOf(p), outseq)
    BY <2>1, <2>2, AllChain
  <2> QED
    BY <1>1, <1>4, <2>1, <2>3 DEF AckLine
<1>10. pending \in {None, p}
  BY <1>3 DEF Linked, LinesInv
<1>11. pending' \in {None, p} /\ pending' # d
  BY <1>1, <1>2, <1>3, <1>10, NoneAssumption DEF bVars
<1>12. LinesInv(p, d)'
  BY <1>7, <1>8, <1>9, <1>11 DEF LinesInv
<1>13. SyncInv(p, d)'
  BY <1>1, <1>3, SyncNext DEF Linked
<1>14. DataInv'
  BY <1>1, DataKept
<1> QED
  BY <1>6, <1>12, <1>13, <1>14 DEF Linked

LEMMA LinkedRetransmit ==
  ASSUME TypeOK, Working, NEW p \in Segment \cup {None}, NEW c \in Segment,
         Linked(p, c), DataInv, Retransmit
  PROVE  Linked(p, c)' /\ DataInv'
<1>1. /\ spc = "wait" /\ net' = Append(net, OutSegment)
      /\ UNCHANGED <<lastack, cur, spc, pos, outseq, first, waitack, bad, acks, bVars>>
  BY DEF Retransmit, TimedOut
<1>2. Sent /\ Sent' /\ c = OutSegment
  BY <1>1 DEF Linked, SenderInv, Sent
<1>3. SenderInv(p, c)'
  BY <1>1, <1>2 DEF Linked, SenderInv, OutSegment, IsLast
<1>4. AckOut' = AckOut /\ AckLine(p)'
  BY <1>1, <1>2 DEF AckOut, AckLine, Linked, LinesInv
<1>5. net \in Seq(Segment) /\ net' = Append(net, c)
  BY <1>1, <1>2 DEF TypeOK
<1>6. NetLine(p, c)' /\ (All(net, c) => All(net', c))
  BY <1>2, <1>5, ChainAppend, AllAppend DEF NetLine, Linked, LinesInv
<1>7. LinesInv(p, c)'
  BY <1>1, <1>2, <1>4, <1>6 DEF Linked, LinesInv, bVars
<1>8. Held' = Held /\ DataInv'
  BY <1>1, DataKept
<1>9. SyncInv(p, c)'
  BY <1>1, <1>2, <1>4, <1>6, <1>8 DEF Linked, SyncInv, Ends, bVars
<1> QED
  BY <1>3, <1>7, <1>8, <1>9 DEF Linked

LEMMA LinkedFails ==
  ASSUME TypeOK, Working, NEW p \in Segment \cup {None}, NEW c \in Segment,
         Linked(p, c), DataInv, TransmissionFails
  PROVE  \E d \in Segment : Linked(p, d)' /\ DataInv'
<1>1. /\ bad' = TRUE /\ spc' \in {"idle", "done"} /\ spc \in {"wait", "send"}
      /\ UNCHANGED <<lastack, outseq, waitack, net, acks, bVars>>
  BY DEF TransmissionFails, TimedOut, Complete, PutBack, netVars
<1>2. Sent'
  BY <1>1 DEF Sent
<1>3. DataInv'
  BY <1>1, DataKept
<1>4. CASE spc = "wait"
  <2>1. Sent
    BY <1>4 DEF Sent
  <2>2. SenderInv(p, c)'
    BY <1>1, <1>2, <2>1 DEF Linked, SenderInv
  <2> QED
    BY <1>1, <1>2, <1>3, <2>1, <2>2, LinesKept, SyncKept DEF Linked, bVars
<1>5. CASE spc = "send"
  <2>1. PICK d \in Segment : d = OutSegment
    BY <1>5, OutContinues DEF Linked
  <2>2. /\ d.seq = outseq /\ Marked(d) /\ (p = None => d.i = 1)
        /\ (p # None => Follows(p, d)) /\ ~Sent /\ p # d
    BY <1>5, <2>1, OutContinues DEF Linked
  <2>3. SenderInv(p, d)'
    BY <1>1, <1>2, <2>2 DEF Linked, SenderInv
  <2>4. NumberOf(p) # outseq /\ d # None
    BY Distinct, NoneAssumption DEF Linked
  <2>5. All(net, p) /\ All(acks, NumberOf(p)) /\ pending \in {None, p} /\ ~AckOut
    BY <2>2 DEF Linked, LinesInv, NetLine, AckLine
  <2>6. Chain(net, p, d) /\ Chain(acks, NumberOf(p), outseq)
    BY <2>2, <2>4, <2>5, AllChain DEF TypeOK
  <2>7. ~AckOut' /\ lastack' # outseq'
    BY <1>1, <2>5 DEF AckOut
  <2>8. LinesInv(p, d)'
    BY <1>1, <1>2, <2>2, <2>4, <2>5, <2>6, <2>7 DEF LinesInv, NetLine, AckLine, bVars
  <2>9. SyncInv(p, d)'
    BY <1>1, <2>2, SyncNext DEF Linked
  <2> QED
    BY <1>3, <2>3, <2>8, <2>9 DEF Linked
<1> QED
  BY <1>1, <1>4, <1>5

\* A new connection, when nothing of an earlier one is under way.
LEMMA LinkedJoin ==
  ASSUME TypeOK, NEW c \in Segment, DataInv, JoinSender, ~late'
  PROVE  Linked(None, c)' /\ DataInv'
<1>1. /\ spc' = "idle" /\ outseq' = 0 /\ waitack' = None /\ lastack' = None /\ ~bad'
      /\ net' = <<>> /\ acks' = <<>> /\ pending' = None /\ UNCHANGED bVars
  BY DEF JoinSender, NoAnswerComing, bVars
<1>2. ~Sent' /\ None # 0
  BY <1>1, DatagramAssumption DEF Sent
<1>3. SenderInv(None, c)'
  BY <1>1, <1>2 DEF SenderInv, NumberOf
<1>4. ~AckOut'
  BY <1>1, <1>2 DEF AckOut
<1>5. LinesInv(None, c)'
  BY <1>1, <1>2, <1>4, AllEmpty DEF LinesInv, NetLine, AckLine, NumberOf
<1>6. SyncInv(None, c)'
  BY <1>1, <1>4 DEF SyncInv
<1> QED
  BY <1>1, <1>3, <1>5, <1>6, DataKept DEF Linked

-----------------------------------------------------------------------------
(* The steps of the network and of B.                                      *)

LEMMA LinkedLoseSegment ==
  ASSUME TypeOK, NEW p, NEW c, Linked(p, c), DataInv,
         LoseSegment \/ DropSegment
  PROVE  Linked(p, c)' /\ DataInv'
<1>1. /\ net # <<>> /\ net \in Seq(Segment) /\ net' = Tail(net)
      /\ UNCHANGED <<aVars, acks, bVars>>
  BY DEF LoseSegment, DropSegment, TypeOK
<1>2. SenderInv(p, c)' /\ Sent' = Sent
  BY <1>1, SenderKept DEF Linked
<1>3. lastack' = lastack /\ outseq' = outseq /\ pending' = pending
  BY <1>1 DEF aVars, senderVars, bVars
<1>4. All(net, c) => All(net', c)
  BY <1>1, AllTail
<1>5. NetLine(p, c)'
  BY <1>1, <1>2, AllTail, ChainTail DEF Linked, LinesInv, NetLine
<1>6. AckOut' = AckOut /\ AckLine(p)'
  BY <1>1, <1>2, <1>3 DEF Linked, LinesInv, AckOut, AckLine
<1>7. LinesInv(p, c)'
  BY <1>1, <1>2, <1>3, <1>4, <1>5, <1>6 DEF Linked, LinesInv
<1>8. Held' = Held /\ DataInv'
  BY <1>1, DataKept
<1>9. SyncInv(p, c)'
  BY <1>1, <1>2, <1>3, <1>4, <1>6, <1>8 DEF Linked, SyncInv, Ends, bVars
<1> QED
  BY <1>2, <1>7, <1>8, <1>9 DEF Linked

LEMMA LinkedLoseAck ==
  ASSUME TypeOK, NEW p, NEW c, Linked(p, c), DataInv, LoseAck
  PROVE  Linked(p, c)' /\ DataInv'
<1>1. /\ acks # <<>> /\ acks \in Seq(0..(MaxSeq - 1)) /\ acks' = Tail(acks)
      /\ UNCHANGED <<aVars, net, bVars>>
  BY DEF LoseAck, TypeOK
<1>2. SenderInv(p, c)' /\ Sent' = Sent
  BY <1>1, SenderKept DEF Linked
<1>3. lastack' = lastack /\ outseq' = outseq /\ pending' = pending
  BY <1>1 DEF aVars, senderVars, bVars
<1>4. \A k \in 1..Len(acks') : \E l \in 1..Len(acks) : acks'[k] = acks[l]
  BY <1>1, TailOf
<1>5. AckOut' => AckOut
  BY <1>3, <1>4 DEF AckOut
<1>6. AckLine(p)'
  BY <1>1, <1>2, <1>3, AllTail, ChainTail DEF Linked, LinesInv, AckLine
<1>7. LinesInv(p, c)'
  BY <1>1, <1>2, <1>3, <1>5, <1>6 DEF Linked, LinesInv, NetLine
<1>8. Held' = Held /\ DataInv'
  BY <1>1, DataKept
<1>9. SyncInv(p, c)'
  BY <1>1, <1>2, <1>3, <1>5, <1>8 DEF Linked, SyncInv, Ends, bVars
<1> QED
  BY <1>2, <1>7, <1>8, <1>9 DEF Linked

\* What B takes from the network is p or c; if it is c, nothing of p follows,
\* and if it is p, c was not acknowledged.
LEMMA HeadOfNet ==
  ASSUME TypeOK, NEW p \in Segment \cup {None}, NEW c \in Segment, Linked(p, c), net # <<>>
  PROVE  /\ Head(net) \in Segment
         /\ Head(net) = p \/ (Sent /\ Head(net) = c)
         /\ Sent /\ Head(net) = c => All(net, c)
         /\ Head(net) = p => ~AckOut
         /\ All(net, c) => All(Tail(net), c)
         /\ IF Sent THEN Chain(Tail(net), p, c) ELSE All(Tail(net), p)
<1>1. net \in Seq(Segment) /\ Head(net) \in Segment
  BY TailOf DEF TypeOK
<1>2. CASE Sent
  <2>1. Chain(net, p, c) /\ p # c
    BY <1>2, Distinct DEF Linked, LinesInv, NetLine
  <2>2. AckOut => Head(net) = c
    BY <1>1, AllTail DEF Linked, LinesInv
  <2> QED
    BY <1>1, <1>2, <2>1, <2>2, ChainTail, AllTail
<1>3. CASE ~Sent
  <2>1. All(net, p) /\ ~AckOut
    BY <1>3 DEF Linked, LinesInv, NetLine
  <2> QED
    BY <1>1, <1>3, <2>1, AllTail
<1> QED
  BY <1>2, <1>3

\* An ACK for a segment of the line joins the line of ACKs.
LEMMA AckJoins ==
  ASSUME TypeOK, NEW p \in Segment \cup {None}, NEW c \in Segment, Linked(p, c),
         NEW s \in Segment, s = p \/ (Sent /\ s = c), s = p => ~AckOut,
         acks' \in {acks, Append(acks, s.seq)}, Sent' = Sent,
         UNCHANGED <<lastack, outseq>>
  PROVE  /\ AckLine(p)'
         /\ AckOut' => AckOut \/ (Sent /\ s = c)
<1>1. acks \in Seq(0..(MaxSeq - 1)) /\ s.seq \in 0..(MaxSeq - 1)
  BY SegmentFields DEF TypeOK
<1>2. PICK n \in 0..(MaxSeq - 1) : n = s.seq
  BY <1>1
<1>3. CASE acks' = acks
  BY <1>3 DEF AckLine, AckOut, Linked, LinesInv
<1>4. CASE acks' = Append(acks, n)
  <2>1. /\ Len(acks) \in Nat
        /\ \A k \in 1..Len(acks') : \/ k \in 1..Len(acks) /\ acks'[k] = acks[k]
                                    \/ k = Len(acks) + 1 /\ acks'[k] = n
    BY <1>1, <1>4, AppendTo
  <2>2. CASE s = p
    <3>1. /\ n = NumberOf(p) /\ n # outseq /\ ~AckOut
      BY <1>2, <2>2, Distinct, NoneAssumption DEF NumberOf, Linked
    <3>2. (\A k \in 1..Len(acks) : acks[k] # outseq) /\ lastack # outseq
      BY <3>1 DEF AckOut
    <3>3. IF Sent THEN Chain(acks', n, outseq) ELSE All(acks', n)
      BY <1>1, <1>4, <3>1, <3>2, ChainAppend, AllAppend DEF Linked, LinesInv, AckLine
    <3>4. ~AckOut'
      BY <2>1, <3>1, <3>2 DEF AckOut
    <3> QED
      BY <3>1, <3>2, <3>3, <3>4 DEF AckLine
  <2>3. CASE Sent /\ s = c
    <3>1. n = outseq
      BY <1>2, <2>3 DEF Linked, SenderInv
    <3>2. Chain(acks', NumberOf(p), outseq)
      BY <1>1, <1>4, <2>3, <3>1, ChainAppend DEF Linked, LinesInv, AckLine
    <3>3. lastack = outseq => All(acks', outseq)
      BY <1>1, <1>4, <3>1, AllAppend DEF Linked, LinesInv, AckLine
    <3> QED
      BY <2>3, <3>2, <3>3 DEF AckLine
  <2> QED
    BY <2>2, <2>3
<1> QED
  BY <1>2, <1>3, <1>4

LEMMA LinkedRefuse ==
  ASSUME TypeOK, NEW p \in Segment \cup {None}, NEW c \in Segment, Linked(p, c), DataInv,
         RefuseSegment
  PROVE  Linked(p, c)' /\ DataInv'
<1>1. /\ pending = None /\ net # <<>> /\ net' = Tail(net) /\ babort'
      /\ acks' \in {acks, Append(acks, Head(net).seq)}
      /\ UNCHANGED <<aVars, inseq, instate, pending, buf, got, received>>
  BY DEF RefuseSegment, SendAck
<1>2. PICK s \in Segment : s = Head(net)
  BY <1>1, HeadOfNet
<1>3. /\ s = p \/ (Sent /\ s = c)
      /\ s = p => ~AckOut
      /\ Sent /\ s = c => All(Tail(net), c)
      /\ All(net, c) => All(Tail(net), c)
      /\ IF Sent THEN Chain(Tail(net), p, c) ELSE All(Tail(net), p)
  BY <1>1, <1>2, HeadOfNet
<1>4. SenderInv(p, c)' /\ Sent' = Sent
  BY <1>1, SenderKept DEF Linked
<1>5. lastack' = lastack /\ outseq' = outseq /\ pending' = None
  BY <1>1 DEF aVars, senderVars
<1>6. AckLine(p)' /\ (AckOut' => AckOut \/ (Sent /\ s = c))
  BY <1>1, <1>2, <1>3, <1>4, <1>5, AckJoins
<1>7. AckOut' => Sent /\ All(net', c)
  BY <1>1, <1>3, <1>6 DEF Linked, LinesInv
<1>8. LinesInv(p, c)'
  BY <1>1, <1>3, <1>4, <1>5, <1>6, <1>7, NoneAssumption DEF LinesInv, NetLine
<1>9. DataInv'
  BY <1>1 DEF DataInv, Intact, Read, Stored, After
<1>10. SyncInv(p, c)'
  BY <1>1 DEF SyncInv
<1> QED
  BY <1>4, <1>8, <1>9, <1>10 DEF Linked

LEMMA LinkedAccept ==
  ASSUME TypeOK, NEW p \in Segment \cup {None}, NEW c \in Segment, Linked(p, c), DataInv,
         AcceptSegment
  PROVE  Linked(p, c)' /\ DataInv'
<1>1. /\ pending = None /\ net # <<>> /\ net' = Tail(net) /\ ~babort
      /\ pending' = Head(net) /\ inseq = Head(net).seq
      /\ (instate = "FIRST") = Head(net).first
      /\ instate' = (IF Head(net).last THEN "FIRST" ELSE "MIDDLE")
      /\ inseq' = (inseq + 1) % MaxSeq
      /\ bconn' = IF bconn = "none" THEN "open" ELSE bconn
      /\ UNCHANGED <<aVars, acks, babort, buf, got, received>>
  BY DEF AcceptSegment, OutOfBound, WrongMark
<1>2. PICK s \in Segment : s = Head(net)
  BY <1>1, HeadOfNet
<1>3. /\ s = p \/ (Sent /\ s = c)
      /\ s = p => ~AckOut
      /\ Sent /\ s = c => All(net, c)
      /\ All(net, c) => s = c /\ All(Tail(net), c)
      /\ IF Sent THEN Chain(Tail(net), p, c) ELSE All(Tail(net), p)
      /\ s # None /\ s.last \in BOOLEAN /\ s.first \in BOOLEAN
  <2>1. All(net, c) => s = c
    BY <1>1, <1>2, AllTail DEF TypeOK
  <2> QED
    BY <1>1, <1>2, <2>1, HeadOfNet, NoneAssumption, SegmentFields
<1>4. SenderInv(p, c)' /\ Sent' = Sent
  BY <1>1, SenderKept DEF Linked
<1>5. lastack' = lastack /\ outseq' = outseq /\ pending' = s
  BY <1>1, <1>2 DEF aVars, senderVars
<1>6. AckOut' = AckOut /\ AckLine(p)'
  BY <1>1, <1>4, <1>5 DEF Linked, LinesInv, AckOut, AckLine
<1>7. LinesInv(p, c)'
  BY <1>1, <1>3, <1>4, <1>5, <1>6 DEF Linked, LinesInv, NetLine
<1>8. /\ Marked(s) /\ (Sent => p # c) /\ (Sent => c.seq = outseq)
      /\ (p # None => p.seq # outseq /\ (p.seq + 1) % MaxSeq = outseq)
  BY <1>3, Distinct DEF Linked, SenderInv, NumberOf
<1>9. Held = Stored /\ Stored' = Stored /\ Read' = Read /\ Held' = s
  BY <1>1, <1>3, <1>5 DEF Held, Stored, Read
<1>10. After(Stored, s)
  <2>1. CASE instate = "FIRST"
    <3>1. s.i = 1 /\ (Held = None \/ Whole(Held))
      BY <1>1, <1>2, <1>8, <2>1 DEF DataInv, Marked
    <3> QED
      BY <1>9, <3>1 DEF After, Follows
  <2>2. CASE instate = "MIDDLE"
    <3>1. s.i # 1 /\ inseq = s.seq
      BY <1>1, <1>2, <1>8, <2>2 DEF Marked
    <3>2. CASE inseq = outseq /\ p # None /\ Ends(p) /\ ~AckOut
      <4>1. s = c /\ Sent /\ Follows(p, c)
        BY <1>3, <1>8, <3>1, <3>2 DEF Linked, SenderInv
      <4>2. Held = p
        BY <3>1, <3>2, <4>1 DEF Ends, Follows
      <4> QED
        BY <1>9, <3>2, <4>1, <4>2 DEF After
    <3>3. CASE inseq = (outseq + 1) % MaxSeq /\ Sent /\ Ends(c) /\ All(net, c)
      <4>1. inseq = outseq
        BY <1>3, <1>8, <3>1, <3>3
      <4> QED
        BY <3>3, <4>1, NextNumber DEF TypeOK
    <3>4. CASE p = None /\ pending = None /\ ~AckOut
      BY <1>3, <3>1, <3>4 DEF Linked, SenderInv
    <3> QED
      BY <1>1, <2>2, <3>2, <3>3, <3>4 DEF Linked, SyncInv
  <2> QED
    BY <2>1, <2>2 DEF TypeOK
<1>11. DataInv'
  <2>1. Intact' /\ (buf' # None => After(Read, buf)')
    BY <1>1, <1>9 DEF DataInv, Intact, After
  <2>2. After(Stored, pending)'
    BY <1>5, <1>9, <1>10 DEF After
  <2>3. bconn' = "closed" => babort'
    BY <1>1 DEF DataInv
  <2>4. instate' = "FIRST" => Whole(Held')
    BY <1>1, <1>2, <1>3, <1>8, <1>9 DEF Marked
  <2> QED
    BY <2>1, <2>2, <2>3, <2>4 DEF DataInv
<1>12. SyncInv(p, c)'
  <2>1. CASE s = p
    <3>1. p # None /\ inseq' = outseq' /\ ~AckOut' /\ Ends(p)'
      BY <1>1, <1>2, <1>3, <1>5, <1>6, <1>8, <1>9, <2>1 DEF Ends
    <3> QED
      BY <3>1 DEF SyncInv
  <2>2. CASE Sent /\ s = c
    <3>1. /\ inseq' = (outseq' + 1) % MaxSeq /\ Sent' /\ Ends(c)'
          /\ All(net', c)
      BY <1>1, <1>2, <1>3, <1>4, <1>5, <1>8, <1>9, <2>2 DEF Ends
    <3> QED
      BY <3>1 DEF SyncInv
  <2> QED
    BY <1>3, <2>1, <2>2
<1> QED
  BY <1>4, <1>7, <1>11, <1>12 DEF Linked

LEMMA LinkedStore ==
  ASSUME TypeOK, NEW p \in Segment \cup {None}, NEW c \in Segment, Linked(p, c), DataInv,
         StoreSegment
  PROVE  Linked(p, c)' /\ DataInv'
<1>1. /\ pending # None /\ buf = None /\ buf' = pending /\ pending' = None
      /\ acks' \in {acks, Append(acks, pending.seq)}
      /\ UNCHANGED <<aVars, net, bconn, babort, inseq, instate, got, received>>
  BY DEF StoreSegment, SendAck
<1>2. PICK s \in Segment : s = pending
  BY <1>1 DEF TypeOK
<1>3. /\ s = p \/ (Sent /\ s = c)
      /\ Sent => p # c
      /\ s = p => ~AckOut
      /\ Sent /\ s = c => All(net, c)
  BY <1>1, <1>2, Distinct DEF Linked, LinesInv
<1>4. SenderInv(p, c)' /\ Sent' = Sent
  BY <1>1, SenderKept DEF Linked
<1>5. lastack' = lastack /\ outseq' = outseq
  BY <1>1 DEF aVars, senderVars
<1>6. AckLine(p)' /\ (AckOut' => AckOut \/ (Sent /\ s = c))
  BY <1>1, <1>2, <1>3, <1>4, <1>5, AckJoins
<1>7. NetLine(p, c)'
  BY <1>1, <1>4 DEF Linked, LinesInv, NetLine
<1>8. LinesInv(p, c)'
  BY <1>1, <1>3, <1>4, <1>6, <1>7, NoneAssumption DEF Linked, LinesInv
<1>9. Held' = Held /\ Held = s /\ Stored = Read /\ Read' = Read
  BY <1>1, <1>2 DEF Held, Stored, Read
<1>10. DataInv'
  <2>1. Intact' /\ After(Read, buf)'
    BY <1>1, <1>9 DEF DataInv, Intact, After
  <2> QED
    BY <1>1, <1>9, <2>1 DEF DataInv
<1>11. SyncInv(p, c)'
  <2>1. SUFFICES ASSUME ~babort, instate = "MIDDLE"
                 PROVE  \/ inseq = outseq /\ p # None /\ Ends(p) /\ ~AckOut'
                        \/ inseq = (outseq + 1) % MaxSeq /\ Sent /\ Ends(c) /\ All(net, c)
    BY <1>1, <1>4, <1>5, <1>9 DEF SyncInv, Ends
  <2>2. CASE inseq = outseq /\ p # None /\ Ends(p) /\ ~AckOut
    <3>1. s = p
      BY <1>1, <1>2, <1>9, <2>2 DEF Ends
    <3> QED
      BY <1>3, <1>6, <2>2, <3>1
  <2> QED
    BY <1>1, <2>1, <2>2 DEF Linked, SyncInv
<1> QED
  BY <1>4, <1>8, <1>10, <1>11 DEF Linked

LEMMA LinkedWaitAborted ==
  ASSUME TypeOK, NEW p, NEW c \in Segment, Linked(p, c), DataInv, WaitAborted
  PROVE  Linked(p, c)' /\ DataInv'
<1>1. /\ pending' = None /\ babort
      /\ UNCHANGED <<aVars, net, acks, bconn, babort, inseq, instate, buf, got>>
  BY DEF WaitAborted, DataInv, netVars
<1>2. SenderInv(p, c)' /\ Sent' = Sent
  BY <1>1, SenderKept DEF Linked
<1>3. lastack' = lastack /\ outseq' = outseq
  BY <1>1 DEF aVars, senderVars
<1>4. LinesInv(p, c)'
  BY <1>1, <1>2, <1>3, NoneAssumption DEF Linked, LinesInv, NetLine, AckLine, AckOut
<1>5. DataInv'
  BY <1>1 DEF DataInv, Intact, Read, After
<1> QED
  BY <1>1, <1>2, <1>4, <1>5 DEF Linked, SyncInv

\* The reader's thread leaves the line between the two ends alone.
LEMMA LinesOfReader ==
  ASSUME NEW p, NEW c, Linked(p, c), UNCHANGED <<aVars, netVars, pending>>
  PROVE  /\ SenderInv(p, c)' /\ LinesInv(p, c)' /\ Sent' = Sent /\ AckOut' = AckOut
         /\ net' = net /\ outseq' = outseq
<1>1. UNCHANGED <<net, acks, lastack, outseq>>
  BY DEF aVars, senderVars, netVars
<1> QED
  BY <1>1, SenderKept, LinesKept DEF Linked

\* The last segment that was read, and when it is the last of its bundle.
LEMMA LastRead ==
  ASSUME TypeOK, DataInv
  PROVE  /\ got = <<>> => Read = None
         /\ got # <<>> => /\ Len(got) \in Nat \ {0} /\ Read = got[Len(got)] /\ Read \in Segment
                          /\ Read # None /\ Read.b = got[1].b /\ Read.i = Len(got)
                          /\ Deserialized <=> Whole(Read)
<1>1. got \in Seq(Segment)
  BY DEF TypeOK
<1>2. ASSUME got # <<>>
      PROVE  Len(got) \in Nat \ {0} /\ Len(got) \in 1..Len(got) /\ got[Len(got)] \in Segment
  BY <1>1, <1>2
<1> QED
  BY <1>2, NoneAssumption DEF Read, DataInv, Intact, Deserialized, Whole

LEMMA LinkedUnderflow ==
  ASSUME TypeOK, NEW p, NEW c, Linked(p, c), DataInv, Underflow
  PROVE  Linked(p, c)' /\ DataInv'
<1>1. /\ ~Deserialized /\ buf # None /\ got' = Append(got, buf) /\ buf' = None
      /\ UNCHANGED <<aVars, netVars, bconn, babort, inseq, instate, pending>>
  BY DEF Underflow
<1>2. PICK s \in Segment : s = buf
  BY <1>1 DEF TypeOK
<1>3. got \in Seq(Segment) /\ got' = Append(got, s) /\ s # None
  BY <1>1, <1>2 DEF TypeOK
<1>4. /\ Len(got) \in Nat /\ Len(got') = Len(got) + 1 /\ got' # <<>>
      /\ got'[Len(got')] = s
      /\ \A k \in 1..Len(got') : \/ k \in 1..Len(got) /\ got'[k] = got[k]
                                 \/ k = Len(got) + 1 /\ got'[k] = s
  BY <1>3, AppendTo
<1>5. /\ s.i = Len(got) + 1
      /\ got # <<>> => s.b = got[1].b
  <2>1. After(Read, s)
    BY <1>1, <1>2 DEF DataInv
  <2>2. CASE got = <<>>
    BY <2>1, <2>2, LastRead DEF After
  <2>3. CASE got # <<>>
    BY <1>1, <2>1, <2>3, LastRead DEF After, Follows
  <2> QED
    BY <2>2, <2>3
<1>6. Intact'
  <2>1. got'[1].b = s.b /\ (got # <<>> => got'[1] = got[1])
    <3>1. CASE got = <<>>
      BY <1>4, <3>1
    <3>2. CASE got # <<>>
      <4>1. 1 \in 1..Len(got) /\ 1 \in 1..Len(got') /\ 1 # Len(got) + 1
        BY <1>3, <1>4, <3>2
      <4> QED
        BY <1>4, <1>5, <3>2, <4>1
    <3> QED
      BY <3>1, <3>2
  <2>2. ASSUME NEW k \in 1..Len(got')
        PROVE  got'[k].b = got'[1].b /\ got'[k].i = k
    <3>1. CASE k \in 1..Len(got) /\ got'[k] = got[k]
      <4>1. got # <<>>
        BY <3>1, <1>3
      <4> QED
        BY <2>1, <3>1, <4>1 DEF DataInv, Intact
    <3>2. CASE k = Len(got) + 1 /\ got'[k] = s
      BY <1>5, <2>1, <3>2
    <3> QED
      BY <1>4, <3>1, <3>2
  <2> QED
    BY <2>2 DEF Intact
<1>7. Read' = s /\ Stored' = s /\ Stored = s
  BY <1>1, <1>2, <1>4 DEF Read, Stored
<1>8. Held' = Held
  BY <1>1, <1>7 DEF Held
<1>9. DataInv'
  <2>1. pending' # None => After(Stored, pending)'
    BY <1>1, <1>7 DEF DataInv, After
  <2> QED
    BY <1>1, <1>6, <1>8, <2>1 DEF DataInv
<1>10. SyncInv(p, c)'
  BY <1>1, <1>8, LinesOfReader DEF Linked, SyncInv, Ends
<1> QED
  BY <1>1, <1>9, <1>10, LinesOfReader DEF Linked

\* A bundle that was read to its end is one that A sent.
LEMMA LinkedDeliver ==
  ASSUME TypeOK, NEW p, NEW c, Linked(p, c), DataInv, None \notin received, DeliverBundle
  PROVE  Linked(p, c)' /\ DataInv' /\ None \notin received'
<1>1. /\ Deserialized /\ got' = <<>>
      /\ received' = received \cup {IF Intact THEN got[1].b ELSE None}
      /\ UNCHANGED <<aVars, netVars, bconn, babort, inseq, instate, pending, buf>>
  BY DEF DeliverBundle
<1>2. got # <<>>
  BY <1>1 DEF Deserialized
<1>3. Read # None /\ Whole(Read) /\ Read.b \in Jobs /\ Read.b = got[1].b
  BY <1>1, <1>2, LastRead, SegmentFields
<1>4. None \notin received'
  BY <1>1, <1>3, DatagramAssumption DEF DataInv
<1>5. Read' = None /\ Intact'
  BY <1>1 DEF Read, Intact
<1>6. /\ buf # None => Stored' = buf /\ Stored = buf
      /\ buf = None => Stored' = None /\ Stored = Read
  BY <1>1, <1>5 DEF Stored
<1>7. /\ buf' # None => After(Read, buf)'
      /\ pending' # None => After(Stored, pending)'
  BY <1>1, <1>3, <1>5, <1>6 DEF DataInv, After, Follows
<1>8. Held' = Held \/ (Held' = None /\ Whole(Held) /\ Held # None)
  BY <1>1, <1>3, <1>6 DEF Held
<1>9. DataInv'
  BY <1>1, <1>5, <1>7, <1>8 DEF DataInv
<1>10. \A x : Ends(x) => Ends(x)'
  BY <1>8 DEF Ends
<1>11. SyncInv(p, c)'
  BY <1>1, <1>10, LinesOfReader DEF Linked, SyncInv
<1> QED
  BY <1>1, <1>4, <1>9, <1>11, LinesOfReader DEF Linked

\* The reader ends, and the connection is closed and removed.
LEMMA LinkedCloses ==
  ASSUME TypeOK, NEW p, NEW c, Linked(p, c), DataInv,
         ReaderExits \/ CloseStream \/ ConnectionDown
  PROVE  Linked(p, c)' /\ DataInv'
<1>1. UNCHANGED <<aVars, netVars, pending>>
  BY DEF ReaderExits, CloseStream, ConnectionDown
<1>2. CASE ReaderExits \/ CloseStream
  <2>1. /\ UNCHANGED <<inseq, instate, buf, got, pending>>
        /\ (bconn' = "dying" /\ babort' = babort) \/ babort'
    BY <1>2 DEF ReaderExits, CloseStream
  <2>2. Held' = Held /\ Stored' = Stored /\ Read' = Read
    BY <2>1 DEF Held, Stored, Read
  <2>3. DataInv'
    BY <2>1, <2>2 DEF DataInv, Intact, After
  <2>4. SyncInv(p, c)'
    BY <1>1, <2>1, <2>2, LinesOfReader DEF Linked, SyncInv, Ends
  <2> QED
    BY <1>1, <2>3, <2>4, LinesOfReader DEF Linked
<1>3. CASE ConnectionDown
  <2>1. /\ pending' = None /\ bconn' = "none" /\ instate' = "FIRST"
        /\ buf' = None /\ got' = <<>>
    BY <1>3 DEF ConnectionDown
  <2>2. Held' = None
    BY <2>1 DEF Held, Stored, Read
  <2>3. DataInv'
    BY <2>1, <2>2 DEF DataInv, Intact
  <2>4. SyncInv(p, c)'
    BY <2>1 DEF SyncInv
  <2> QED
    BY <1>1, <2>3, <2>4, LinesOfReader DEF Linked
<1> QED
  BY <1>2, <1>3

-----------------------------------------------------------------------------
(* The theorem.                                                            *)

LEMMA JoinedInit == Init => DatagramInv
<1> SUFFICES ASSUME Init
             PROVE  DatagramInv
  OBVIOUS
<1>1. TypeOK /\ Working /\ ~late
  BY TypeInit DEF Init
<1>2. DataInv /\ None \notin received
  BY DEF Init, DataInv, Intact, Held, Stored, Read
<1>3. PICK j \in Jobs : TRUE
  BY DatagramAssumption
<1>4. PICK c \in Segment : TRUE
  <2>1. 0 \in 0..(MaxSeq - 1)
    BY DatagramAssumption
  <2>2. [b |-> j, i |-> 1, seq |-> 0, first |-> TRUE, last |-> TRUE] \in Segment
    BY <2>1 DEF Segment
  <2> QED
    BY <2>2
<1>5. ~Sent /\ ~AckOut
  BY DatagramAssumption DEF Init, Sent, AckOut
<1>6. SenderInv(None, c)
  BY <1>5 DEF Init, SenderInv, NumberOf
<1>7. LinesInv(None, c)
  <2>1. /\ net = <<>> /\ acks = <<>> /\ pending = None /\ lastack # outseq
    BY <1>5 DEF Init, AckOut
  <2> QED
    BY <1>5, <2>1, AllEmpty DEF LinesInv, NetLine, AckLine, NumberOf
<1>8. SyncInv(None, c)
  BY <1>5 DEF Init, SyncInv
<1> QED
  BY <1>1, <1>2, <1>6, <1>7, <1>8 DEF DatagramInv, Joined, Linked

LEMMA JoinedNext ==
  ASSUME StopNWait, DatagramInv, [Next]_vars
  PROVE  DatagramInv'
<1>1. TypeOK' /\ Working' /\ TypeOK /\ Working
  BY TypeNext DEF DatagramInv
<1> SUFFICES ASSUME ~late'
             PROVE  Joined'
  BY <1>1 DEF DatagramInv
<1>2. late => late'
  BY DEF Next, SenderThread, ConnectionThread, ReceiveThread, ReaderThread, vars,
     QueueJob, ReceiveAck, ShutdownA, StartTransfer, ReadBundle, BundleMissing,
     SendSegment, Acknowledged, Retransmit, TransmissionFails, SenderExits,
     StopConnection, JoinSender, LoseSegment, LoseAck, DropSegment, RefuseSegment,
     AcceptSegment, StoreSegment, WaitAborted, Underflow, DeliverBundle,
     ReaderExits, CloseStream, ConnectionDown, netVars
<1>3. DataInv /\ None \notin received
  BY <1>2 DEF DatagramInv, Joined
<1>4. PICK p \in Segment \cup {None}, c \in Segment : Linked(p, c)
  BY <1>2 DEF DatagramInv, Joined
<1>r. received' = received \/ DeliverBundle
  BY DEF Next, SenderThread, ConnectionThread, ReceiveThread, ReaderThread, vars,
     QueueJob, ReceiveAck, ShutdownA, StartTransfer, ReadBundle, BundleMissing,
     SendSegment, Acknowledged, Retransmit, TransmissionFails, SenderExits,
     StopConnection, JoinSender, LoseSegment, LoseAck, DropSegment, RefuseSegment,
     AcceptSegment, StoreSegment, WaitAborted, Underflow,
     ReaderExits, CloseStream, ConnectionDown, bVars
<1>5. None \notin received'
  BY <1>1, <1>3, <1>4, <1>r, LinkedDeliver
<1>6. SUFFICES \E d \in Segment \cup {None}, e \in Segment : Linked(d, e)' /\ DataInv'
  BY <1>5 DEF Joined
<1>7. CASE \/ \E j \in Jobs : QueueJob(j)
           \/ ShutdownA \/ StopConnection \/ UNCHANGED vars
  <2>1. UNCHANGED <<lastack, cur, spc, pos, outseq, first, waitack, bad, net, acks, bVars>>
    BY <1>7 DEF QueueJob, ShutdownA, StopConnection, vars, aVars, senderVars, netVars
  <2> QED
    BY <1>3, <1>4, <2>1, LinkedIdle
<1>8. CASE StartTransfer \/ ReadBundle \/ BundleMissing \/ SenderExits
  BY <1>1, <1>3, <1>4, <1>8, LinkedMoves
<1>9. CASE ReceiveAck
  BY <1>1, <1>3, <1>4, <1>9, LinkedReceiveAck
<1>10. CASE SendSegment
  BY <1>1, <1>3, <1>4, <1>10, LinkedSend
<1>11. CASE Acknowledged
  BY <1>1, <1>3, <1>4, <1>11, LinkedAcknowledged
<1>12. CASE Retransmit
  BY <1>1, <1>3, <1>4, <1>12, LinkedRetransmit
<1>13. CASE TransmissionFails
  BY <1>1, <1>3, <1>4, <1>13, LinkedFails
<1>14. CASE JoinSender
  BY <1>1, <1>3, <1>4, <1>14, LinkedJoin
<1>15. CASE LoseSegment \/ DropSegment
  BY <1>1, <1>3, <1>4, <1>15, LinkedLoseSegment
<1>16. CASE LoseAck
  BY <1>1, <1>3, <1>4, <1>16, LinkedLoseAck
<1>17. CASE RefuseSegment
  BY <1>1, <1>3, <1>4, <1>17, LinkedRefuse
<1>18. CASE AcceptSegment
  BY <1>1, <1>3, <1>4, <1>18, LinkedAccept
<1>19. CASE StoreSegment
  BY <1>1, <1>3, <1>4, <1>19, LinkedStore
<1>20. CASE WaitAborted
  BY <1>1, <1>3, <1>4, <1>20, LinkedWaitAborted
<1>21. CASE Underflow
  BY <1>1, <1>3, <1>4, <1>21, LinkedUnderflow
<1>22. CASE DeliverBundle
  BY <1>1, <1>3, <1>4, <1>22, LinkedDeliver
<1>23. CASE ReaderExits \/ CloseStream \/ ConnectionDown
  BY <1>1, <1>3, <1>4, <1>23, LinkedCloses
<1> QED
  BY <1>7, <1>8, <1>9, <1>10, <1>11, <1>12, <1>13, <1>14, <1>15, <1>16, <1>17,
     <1>18, <1>19, <1>20, <1>21, <1>22, <1>23
  DEF Next, SenderThread, ConnectionThread, ReceiveThread, ReaderThread

\* With stop-and-wait, whatever B delivers is a bundle that A sent: losses,
\* retransmissions, ACKs that come late and new connections on either side
\* never join segments of different bundles, as long as no connection of A
\* begins while something of an earlier one is under way.
THEOREM Assembled ==
  ASSUME StopNWait
  PROVE  Spec => []AssembledIntact
<1>1. Spec => []DatagramInv
  BY JoinedInit, JoinedNext, PTL DEF Spec
<1>2. DatagramInv => AssembledIntact
  BY DEF DatagramInv, Joined, AssembledIntact
<1> QED
  BY <1>1, <1>2, PTL
=============================================================================
