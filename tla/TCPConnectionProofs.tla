------------------------ MODULE TCPConnectionProofs ------------------------
(***************************************************************************)
(* What holds of a TCP connection for any set of bundles, any number of    *)
(* segments per bundle and every combination of the stream's options.      *)
(***************************************************************************)
EXTENDS TCPConnection, QueueLemmas, SequenceTheorems, TLAPS

\* TypeOK and what the threads know about their local variables.
SenderInv ==
  /\ SenderTypeOK
  /\ spc \in {"get", "mark", "check", "push", "write"} => cur \in Bundles
  /\ spc \in {"check", "push", "write"} => seg \in Segment

PeerInv ==
  /\ PeerTypeOK
  /\ instate = "DATA_TRANSFER" => inseg \in Segment

TypeInv ==
  /\ SenderInv /\ ReaderTypeOK /\ SharedTypeOK
  /\ LinkTypeOK /\ PeerInv /\ ReportTypeOK

-----------------------------------------------------------------------------
(* Queues.                                                                 *)

\* What a push adds to the elements of a queue.
LEMMA RangeOfAppend ==
  ASSUME NEW S, NEW s \in Seq(S), NEW e \in S
  PROVE  /\ Append(s, e) \in Seq(S)
         /\ RangeOf(Append(s, e)) = RangeOf(s) \cup {e}
  BY DEF RangeOf

\* What a pop takes from the elements of a queue.
LEMMA RangeOfTail ==
  ASSUME NEW S, NEW s \in Seq(S), s # <<>>
  PROVE  /\ Head(s) \in S
         /\ Tail(s) \in Seq(S)
         /\ RangeOf(s) = {Head(s)} \cup RangeOf(Tail(s))
<1>1. Len(s) \in Nat /\ Len(s) # 0
  OBVIOUS
<1>2. Head(s) \in S /\ Tail(s) \in Seq(S) /\ Len(Tail(s)) = Len(s) - 1
  BY <1>1
<1>3. RangeOf(s) \subseteq {Head(s)} \cup RangeOf(Tail(s))
  <2> SUFFICES ASSUME NEW i \in 1..Len(s), i # 1
               PROVE  s[i] \in RangeOf(Tail(s))
    BY DEF RangeOf
  <2>1. i - 1 \in 1..Len(Tail(s)) /\ Tail(s)[i - 1] = s[i]
    BY <1>1, <1>2
  <2> QED
    BY <2>1 DEF RangeOf
<1>4. {Head(s)} \cup RangeOf(Tail(s)) \subseteq RangeOf(s)
  <2>1. Head(s) \in RangeOf(s)
    BY <1>1 DEF RangeOf
  <2>2. ASSUME NEW i \in 1..Len(Tail(s))
        PROVE  Tail(s)[i] \in RangeOf(s)
    <3>1. i + 1 \in 1..Len(s) /\ Tail(s)[i] = s[i + 1]
      BY <1>1, <1>2
    <3> QED
      BY <3>1 DEF RangeOf
  <2> QED
    BY <2>1, <2>2 DEF RangeOf
<1> QED
  BY <1>2, <1>3, <1>4

-----------------------------------------------------------------------------
(* Type correctness.                                                       *)

\* The initial state of a connection is well typed.
LEMMA TypeInit == Init => TypeInv
<1> SUFFICES ASSUME Init
             PROVE  TypeInv
  OBVIOUS
<1> USE DEF Init
<1>1. SenderInv
  BY DEF SenderInv, SenderTypeOK, SenderStates
<1>2. ReaderTypeOK
  <2>1. rejected \in Seq(Segment) /\ rpc \in ReaderStates
    BY DEF ReaderStates
  <2>2. reason \in BOOLEAN /\ listed \in BOOLEAN
    OBVIOUS
  <2> QED
    BY <2>1, <2>2 DEF ReaderTypeOK
<1>6. SharedTypeOK
  <2>1. sentqueue \in Seq(Bundles) /\ segments \in Seq(Segment)
    OBVIOUS
  <2>2. skip \in BOOLEAN
    OBVIOUS
  <2> QED
    BY <2>1, <2>2 DEF SharedTypeOK
<1>3. LinkTypeOK
  BY DEF LinkTypeOK
<1>4. PeerInv
  <2>1. got \in Seq(Segment) /\ inseg \in Segment \cup {NoSegment}
    OBVIOUS
  <2>2. instate = "IDLE" /\ reject \in BOOLEAN
    OBVIOUS
  <2>3. received \subseteq Bundles \cup {None} /\ nacked \subseteq Bundles
    OBVIOUS
  <2> QED
    BY <2>1, <2>2, <2>3 DEF PeerInv, PeerTypeOK
<1>5. ReportTypeOK
  BY DEF ReportTypeOK
<1> QED
  BY <1>1, <1>2, <1>3, <1>4, <1>5, <1>6 DEF TypeInv

\* What a step leaves alone keeps its type.
LEMMA TypeUnchanged ==
  /\ SenderInv /\ UNCHANGED senderVars => SenderInv'
  /\ ReaderTypeOK /\ UNCHANGED readerVars => ReaderTypeOK'
  /\ SharedTypeOK /\ UNCHANGED sharedVars => SharedTypeOK'
  /\ LinkTypeOK /\ UNCHANGED linkVars => LinkTypeOK'
  /\ PeerInv /\ UNCHANGED peerVars => PeerInv'
  /\ ReportTypeOK /\ UNCHANGED reportVars => ReportTypeOK'
  BY DEF SenderInv, SenderTypeOK, ReaderTypeOK, SharedTypeOK, LinkTypeOK,
         PeerInv, PeerTypeOK, ReportTypeOK, senderVars, readerVars, sharedVars,
         linkVars, peerVars, reportVars

\* A segment names a bundle.
LEMMA SegmentBundle == \A s \in Segment : s.b \in Bundles
  BY DEF Segment

\* An answer is put onto the stream, or the stream is down.
LEMMA AnswerType ==
  ASSUME LinkTypeOK, NEW s \in Segment, NEW a \in {"ACK", "NACK"}, Answer(a, s)
  PROVE  back' \in Seq([type : {"ACK", "NACK"}, of : Segment])
<1>1. [type |-> a, of |-> s] \in [type : {"ACK", "NACK"}, of : Segment]
  OBVIOUS
<1>2. CASE up
  BY <1>1, <1>2 DEF LinkTypeOK, Answer
<1>3. CASE ~up
  BY <1>3 DEF LinkTypeOK, Answer
<1> QED
  BY <1>2, <1>3

\* Every step of every thread keeps TypeInv.
LEMMA TypeStep == TypeInv /\ [Next]_vars => TypeInv'
<1> SUFFICES ASSUME TypeInv, [Next]_vars
             PROVE  TypeInv'
  OBVIOUS
<1> USE DEF TypeInv
<1>1. ASSUME NEW b \in Bundles, QueueBundle(b)
      PROVE  TypeInv'
  <2>1. ReaderTypeOK' /\ SharedTypeOK' /\ LinkTypeOK' /\ PeerInv'
    BY <1>1, TypeUnchanged DEF QueueBundle
  <2>2. SenderInv'
    BY <1>1 DEF QueueBundle, SenderInv, SenderTypeOK, SenderStates
  <2>3. ReportTypeOK'
    BY <1>1 DEF QueueBundle, ReportTypeOK
  <2> QED
    BY <2>1, <2>2, <2>3
<1>2. CASE NextTransfer
  <2>1. ReaderTypeOK' /\ SharedTypeOK' /\ LinkTypeOK' /\ PeerInv' /\ ReportTypeOK'
    BY <1>2, TypeUnchanged DEF NextTransfer
  <2>2. SenderInv'
    BY <1>2 DEF NextTransfer, SenderInv, SenderTypeOK, SenderStates
  <2> QED
    BY <2>1, <2>2
<1>3. CASE ReadBundle
  <2>1. ReaderTypeOK' /\ LinkTypeOK' /\ PeerInv' /\ ReportTypeOK'
    BY <1>3, TypeUnchanged DEF ReadBundle
  <2>2. SenderInv'
    BY <1>3 DEF ReadBundle, SenderInv, SenderTypeOK, SenderStates
  <2>3. SharedTypeOK'
    BY <1>3 DEF ReadBundle, SharedTypeOK, SenderInv
  <2> QED
    BY <2>1, <2>2, <2>3
<1>4. CASE StreamWentBad
  <2>1. ReaderTypeOK' /\ LinkTypeOK' /\ PeerInv'
    BY <1>4, TypeUnchanged DEF StreamWentBad
  <2>2. SenderInv'
    BY <1>4 DEF StreamWentBad, SenderInv, SenderTypeOK, SenderStates
  <2>3. SharedTypeOK'
    BY <1>4 DEF StreamWentBad, SharedTypeOK, SenderInv
  <2>4. ReportTypeOK'
    BY <1>4 DEF StreamWentBad, ReportTypeOK, SenderInv
  <2> QED
    BY <2>1, <2>2, <2>3, <2>4
<1>5. CASE BundleDeleted
  <2>1. ReaderTypeOK' /\ SharedTypeOK' /\ LinkTypeOK' /\ PeerInv'
    BY <1>5, TypeUnchanged DEF BundleDeleted
  <2>2. SenderInv'
    BY <1>5 DEF BundleDeleted, SenderInv, SenderTypeOK, SenderStates
  <2>3. ReportTypeOK'
    BY <1>5 DEF BundleDeleted, ReportTypeOK, SenderInv
  <2> QED
    BY <2>1, <2>2, <2>3
<1>6. CASE MarkSegment
  <2>1. ReaderTypeOK' /\ LinkTypeOK' /\ PeerInv' /\ ReportTypeOK'
    BY <1>6, TypeUnchanged DEF MarkSegment
  <2>2. SenderInv'
    BY <1>6 DEF MarkSegment, SenderInv, SenderTypeOK, SenderStates, IsLast,
       Segment
  <2>3. SharedTypeOK'
    BY <1>6 DEF MarkSegment, SharedTypeOK
  <2> QED
    BY <2>1, <2>2, <2>3
<1>7. CASE SkipSegment
  <2>1. ReaderTypeOK' /\ SharedTypeOK' /\ LinkTypeOK' /\ PeerInv' /\ ReportTypeOK'
    BY <1>7, TypeUnchanged DEF SkipSegment
  <2>2. SenderInv'
    BY <1>7 DEF SkipSegment, SenderInv, SenderTypeOK, SenderStates,
       SegmentDone, IsLast
  <2> QED
    BY <2>1, <2>2
<1>8. CASE CheckSkip
  <2>1. ReaderTypeOK' /\ SharedTypeOK' /\ LinkTypeOK' /\ PeerInv' /\ ReportTypeOK'
    BY <1>8, TypeUnchanged DEF CheckSkip
  <2>2. SenderInv'
    BY <1>8 DEF CheckSkip, SenderInv, SenderTypeOK, SenderStates
  <2> QED
    BY <2>1, <2>2
<1>9. CASE PushSegment
  <2>1. ReaderTypeOK' /\ LinkTypeOK' /\ PeerInv'
    BY <1>9, TypeUnchanged DEF PushSegment
  <2>2. SenderInv'
    BY <1>9 DEF PushSegment, SenderInv, SenderTypeOK, SenderStates
  <2>3. SharedTypeOK'
    <3>1. (sentqueue \in Seq(Bundles))'
      BY <1>9, RangeOfTail DEF PushSegment, SharedTypeOK,
         EventBundleForwarded, SenderInv
    <3>2. (skip \in BOOLEAN)'
      BY <1>9 DEF PushSegment, SharedTypeOK, EventBundleForwarded, SenderInv
    <3>3. (segments \in Seq(Segment))'
      BY <1>9, RangeOfTail DEF PushSegment, SharedTypeOK,
         EventBundleForwarded, SenderInv
    <3> QED
      BY <3>1, <3>2, <3>3 DEF SharedTypeOK
  <2>4. ReportTypeOK'
    BY <1>9 DEF PushSegment, ReportTypeOK, EventBundleForwarded,
       SharedTypeOK
  <2> QED
    BY <2>1, <2>2, <2>3, <2>4
<1>10. CASE WriteSegment
  <2>1. ReaderTypeOK' /\ SharedTypeOK' /\ PeerInv' /\ ReportTypeOK'
    BY <1>10, TypeUnchanged DEF WriteSegment
  <2>2. SenderInv'
    BY <1>10 DEF WriteSegment, SenderInv, SenderTypeOK, SenderStates,
       SegmentDone, IsLast
  <2>3. LinkTypeOK'
    BY <1>10 DEF WriteSegment, LinkTypeOK, SenderInv
  <2> QED
    BY <2>1, <2>2, <2>3
<1>11. CASE WriteFails
  <2>1. ReaderTypeOK' /\ SharedTypeOK' /\ LinkTypeOK' /\ PeerInv'
    BY <1>11, TypeUnchanged DEF WriteFails
  <2>2. SenderInv'
    BY <1>11 DEF WriteFails, SenderInv, SenderTypeOK, SenderStates
  <2>3. ReportTypeOK'
    BY <1>11 DEF WriteFails, ReportTypeOK, SenderInv
  <2> QED
    BY <2>1, <2>2, <2>3
<1>12. CASE SenderExits
  <2>1. ReaderTypeOK' /\ SharedTypeOK' /\ LinkTypeOK' /\ PeerInv' /\ ReportTypeOK'
    BY <1>12, TypeUnchanged DEF SenderExits
  <2>2. SenderInv'
    BY <1>12 DEF SenderExits, SenderInv, SenderTypeOK, SenderStates
  <2> QED
    BY <2>1, <2>2
<1>13. CASE StartSender
  <2>1. SharedTypeOK' /\ LinkTypeOK' /\ PeerInv' /\ ReportTypeOK'
    BY <1>13, TypeUnchanged DEF StartSender
  <2>2. SenderInv'
    BY <1>13 DEF StartSender, SenderInv, SenderTypeOK, SenderStates
  <2>3. ReaderTypeOK'
    BY <1>13 DEF StartSender, ReaderTypeOK, ReaderStates
  <2> QED
    BY <2>1, <2>2, <2>3
<1>14. CASE HandleAck
  <2>1. SenderInv' /\ ReaderTypeOK' /\ PeerInv'
    BY <1>14, TypeUnchanged DEF HandleAck
  <2>2. SharedTypeOK'
    <3>1. (sentqueue \in Seq(Bundles))'
      BY <1>14, RangeOfTail DEF HandleAck, SharedTypeOK,
         EventBundleForwarded
    <3>2. (skip \in BOOLEAN)'
      BY <1>14 DEF HandleAck, SharedTypeOK, EventBundleForwarded
    <3>3. (segments \in Seq(Segment))'
      BY <1>14, RangeOfTail DEF HandleAck, SharedTypeOK,
         EventBundleForwarded
    <3> QED
      BY <3>1, <3>2, <3>3 DEF SharedTypeOK
  <2>3. LinkTypeOK'
    BY <1>14 DEF HandleAck, LinkTypeOK
  <2>4. ReportTypeOK'
    BY <1>14 DEF HandleAck, ReportTypeOK, EventBundleForwarded, SharedTypeOK
  <2> QED
    BY <2>1, <2>2, <2>3, <2>4
<1>15. CASE HandleNackAgain
  <2>1. SenderInv' /\ SharedTypeOK' /\ PeerInv' /\ ReportTypeOK'
    BY <1>15, TypeUnchanged DEF HandleNackAgain
  <2>2. ReaderTypeOK'
    BY <1>15 DEF HandleNackAgain, ReaderTypeOK, ReaderStates
  <2>3. LinkTypeOK'
    BY <1>15 DEF HandleNackAgain, LinkTypeOK
  <2> QED
    BY <2>1, <2>2, <2>3
<1>16. CASE HandleNack
  <2>1. SenderInv' /\ PeerInv' /\ ReportTypeOK'
    BY <1>16, TypeUnchanged DEF HandleNack
  <2>2. ReaderTypeOK'
    BY <1>16 DEF HandleNack, ReaderTypeOK, ReaderStates
  <2>3. SharedTypeOK'
    <3>1. (sentqueue \in Seq(Bundles))'
      BY <1>16, RangeOfTail DEF HandleNack, SharedTypeOK
    <3>2. (skip \in BOOLEAN)'
      BY <1>16 DEF HandleNack, SharedTypeOK
    <3>3. (segments \in Seq(Segment))'
      BY <1>16, RangeOfTail DEF HandleNack, SharedTypeOK
    <3> QED
      BY <3>1, <3>2, <3>3 DEF SharedTypeOK
  <2>4. LinkTypeOK'
    BY <1>16 DEF HandleNack, LinkTypeOK
  <2> QED
    BY <2>1, <2>2, <2>3, <2>4
<1>17. CASE DrainSegment
  <2>1. SenderInv' /\ LinkTypeOK' /\ PeerInv' /\ ReportTypeOK'
    BY <1>17, TypeUnchanged DEF DrainSegment
  <2>2. /\ sentqueue' = sentqueue /\ skip' = skip
        /\ reason' = reason /\ listed' = listed
    BY <1>17 DEF DrainSegment
  <2>3. CASE segments = <<>> \/ Head(segments).begin
    <3>1. segments' = segments /\ rejected' = rejected /\ rpc' = "refuse"
      BY <1>17, <2>3 DEF DrainSegment
    <3> QED
      BY <2>1, <2>2, <3>1 DEF ReaderTypeOK, ReaderStates, SharedTypeOK
  <2>4. CASE ~(segments = <<>> \/ Head(segments).begin)
    <3>1. /\ segments' = Tail(segments) /\ rpc' = rpc
          /\ rejected' = Append(rejected, Head(segments))
      BY <1>17, <2>4 DEF DrainSegment
    <3>2. Head(segments) \in Segment /\ segments' \in Seq(Segment)
      BY <2>4, <3>1, RangeOfTail DEF SharedTypeOK
    <3>3. rejected' \in Seq(Segment)
      BY <3>1, <3>2, RangeOfAppend DEF ReaderTypeOK
    <3> QED
      BY <2>1, <2>2, <3>1, <3>2, <3>3 DEF ReaderTypeOK, SharedTypeOK
  <2> QED
    BY <2>3, <2>4
<1>18. CASE RaiseRefused
  <2>1. SenderInv' /\ LinkTypeOK' /\ PeerInv'
    BY <1>18, TypeUnchanged DEF RaiseRefused
  <2>2. ReaderTypeOK'
    BY <1>18 DEF RaiseRefused, ReaderTypeOK, ReaderStates
  <2>3. SharedTypeOK'
    <3>1. (sentqueue \in Seq(Bundles))'
      BY <1>18, RangeOfTail DEF RaiseRefused, SharedTypeOK,
         EventBundleRefused
    <3>2. (skip \in BOOLEAN)'
      BY <1>18 DEF RaiseRefused, SharedTypeOK, EventBundleRefused
    <3>3. (segments \in Seq(Segment))'
      BY <1>18, RangeOfTail DEF RaiseRefused, SharedTypeOK,
         EventBundleRefused
    <3> QED
      BY <3>1, <3>2, <3>3 DEF SharedTypeOK
  <2>4. ReportTypeOK'
    BY <1>18 DEF RaiseRefused, ReportTypeOK, EventBundleRefused,
       SharedTypeOK
  <2> QED
    BY <2>1, <2>2, <2>3, <2>4
<1>19. CASE CheckEmpty
  <2>1. SenderInv' /\ SharedTypeOK' /\ LinkTypeOK' /\ PeerInv' /\ ReportTypeOK'
    BY <1>19, TypeUnchanged DEF CheckEmpty
  <2>2. ReaderTypeOK'
    BY <1>19 DEF CheckEmpty, ReaderTypeOK, ReaderStates
  <2> QED
    BY <2>1, <2>2
<1>20. CASE SetSkip
  <2>1. SenderInv' /\ LinkTypeOK' /\ PeerInv' /\ ReportTypeOK'
    BY <1>20, TypeUnchanged DEF SetSkip
  <2>2. ReaderTypeOK'
    BY <1>20 DEF SetSkip, ReaderTypeOK, ReaderStates
  <2>3. SharedTypeOK'
    BY <1>20 DEF SetSkip, SharedTypeOK
  <2> QED
    BY <2>1, <2>2, <2>3
<1>21. CASE ReadFails
  <2>1. SenderInv' /\ SharedTypeOK' /\ LinkTypeOK' /\ PeerInv' /\ ReportTypeOK'
    BY <1>21, TypeUnchanged DEF ReadFails
  <2>2. ReaderTypeOK'
    BY <1>21 DEF ReadFails, ReaderTypeOK, ReaderStates, Shutdown
  <2> QED
    BY <2>1, <2>2
<1>22. CASE ConnectionDown
  <2>1. SenderInv' /\ SharedTypeOK' /\ LinkTypeOK' /\ PeerInv' /\ ReportTypeOK'
    BY <1>22, TypeUnchanged DEF ConnectionDown
  <2>2. ReaderTypeOK'
    BY <1>22 DEF ConnectionDown, ReaderTypeOK, ReaderStates
  <2> QED
    BY <2>1, <2>2
<1>23. CASE ClearQueued
  <2>1. SharedTypeOK' /\ LinkTypeOK' /\ PeerInv'
    BY <1>23, TypeUnchanged DEF ClearQueued
  <2>2. SenderInv'
    BY <1>23, RangeOfTail DEF ClearQueued, SenderInv, SenderTypeOK,
       SenderStates
  <2>3. ReaderTypeOK'
    BY <1>23 DEF ClearQueued, ReaderTypeOK, ReaderStates
  <2>4. ReportTypeOK'
    BY <1>23 DEF ClearQueued, ReportTypeOK, SenderInv, SenderTypeOK
  <2> QED
    BY <2>1, <2>2, <2>3, <2>4
<1>24. CASE ClearSent
  <2>1. SenderInv' /\ LinkTypeOK' /\ PeerInv'
    BY <1>24, TypeUnchanged DEF ClearSent
  <2>2. ReaderTypeOK'
    BY <1>24 DEF ClearSent, ReaderTypeOK, ReaderStates
  <2>3. SharedTypeOK'
    <3>1. (sentqueue \in Seq(Bundles))'
      BY <1>24, RangeOfTail DEF ClearSent, SharedTypeOK
    <3>2. (skip \in BOOLEAN)'
      BY <1>24 DEF ClearSent, SharedTypeOK
    <3>3. (segments \in Seq(Segment))'
      BY <1>24, RangeOfTail DEF ClearSent, SharedTypeOK
    <3> QED
      BY <3>1, <3>2, <3>3 DEF SharedTypeOK
  <2>4. ReportTypeOK'
    BY <1>24 DEF ClearSent, ReportTypeOK, SharedTypeOK
  <2> QED
    BY <2>1, <2>2, <2>3, <2>4
<1>25. CASE ReceiveSegment
  <2> DEFINE s == Head(wire)
  <2>1. SenderInv' /\ ReaderTypeOK' /\ SharedTypeOK' /\ ReportTypeOK'
    BY <1>25, TypeUnchanged DEF ReceiveSegment
  <2>2. wire \in Seq(Segment) /\ wire # <<>> /\ s \in Segment
    BY <1>25, RangeOfTail DEF ReceiveSegment, LinkTypeOK
  <2>3. LinkTypeOK'
    <3>1. (up \in BOOLEAN)' /\ (wire \in Seq(Segment))'
      BY <1>25, <2>2, RangeOfTail DEF ReceiveSegment, LinkTypeOK
    <3>2. Answer("NACK", s) \/ back' = back
      BY <1>25 DEF ReceiveSegment
    <3>3. (back \in Seq([type : {"ACK", "NACK"}, of : Segment]))'
      BY <2>2, <3>2, AnswerType DEF LinkTypeOK
    <3> QED
      BY <3>1, <3>3 DEF LinkTypeOK
  <2>4. PeerInv'
    <3>1. CASE reject /\ ~s.begin
      <4>1. /\ instate' = instate /\ inseg' = inseg /\ got' = got
            /\ received' = received /\ reject' \in BOOLEAN
            /\ nacked' = nacked \cup {s.b}
        BY <1>25, <3>1 DEF ReceiveSegment
      <4> QED
        BY <2>2, <4>1, SegmentBundle DEF PeerInv, PeerTypeOK
    <3>2. CASE ~(reject /\ ~s.begin)
      <4>1. /\ instate' = "DATA_TRANSFER" /\ inseg' = s /\ got' = Append(got, s)
            /\ received' = received /\ nacked' = nacked
        BY <1>25, <3>2 DEF ReceiveSegment
      <4>2. reject' \in BOOLEAN
        BY <1>25 DEF ReceiveSegment
      <4> QED
        BY <2>2, <4>1, <4>2 DEF PeerInv, PeerTypeOK
    <3> QED
      BY <3>1, <3>2
  <2> QED
    BY <2>1, <2>3, <2>4
<1>26. CASE DeliverBundle
  <2>1. /\ SenderInv' /\ ReaderTypeOK' /\ SharedTypeOK' /\ LinkTypeOK'
        /\ ReportTypeOK'
    BY <1>26, TypeUnchanged DEF DeliverBundle
  <2>2. /\ got' = <<>> /\ instate' = instate /\ inseg' = inseg
        /\ reject' = reject /\ nacked' = nacked
    BY <1>26 DEF DeliverBundle
  <2>3. 1 \in 1..Len(got)
    BY <1>26 DEF DeliverBundle, Deserialized, PeerInv, PeerTypeOK
  <2>4. got[1].b \in Bundles
    BY <2>3, SegmentBundle DEF PeerInv, PeerTypeOK
  <2>5. received' \subseteq Bundles \cup {None}
    BY <1>26, <2>4 DEF DeliverBundle, PeerInv, PeerTypeOK
  <2>6. got' \in Seq(Segment)
    BY <2>2
  <2> QED
    BY <2>1, <2>2, <2>5, <2>6 DEF PeerInv, PeerTypeOK
<1>27. CASE RejectTransmission
  <2>1. /\ SenderInv' /\ ReaderTypeOK' /\ SharedTypeOK' /\ LinkTypeOK'
        /\ ReportTypeOK'
    BY <1>27, TypeUnchanged DEF RejectTransmission
  <2>2. /\ got' = <<>> /\ instate' = instate /\ inseg' = inseg
        /\ received' = received /\ reject' = TRUE
    BY <1>27 DEF RejectTransmission
  <2>3. \A i \in 1..Len(got) : got[i].b \in Bundles
    BY SegmentBundle DEF PeerInv, PeerTypeOK
  <2>4. nacked' \subseteq Bundles
    BY <1>27, <2>3 DEF RejectTransmission, PeerInv, PeerTypeOK
  <2>5. got' \in Seq(Segment) /\ reject' \in BOOLEAN
    BY <2>2
  <2> QED
    BY <2>1, <2>2, <2>4, <2>5 DEF PeerInv, PeerTypeOK
<1>28. CASE AnswerSegment
  <2>1. SenderInv' /\ ReaderTypeOK' /\ SharedTypeOK' /\ ReportTypeOK'
    BY <1>28, TypeUnchanged DEF AnswerSegment
  <2>2. inseg \in Segment
    BY <1>28 DEF AnswerSegment, PeerInv
  <2>3. LinkTypeOK'
    <3>1. (up \in BOOLEAN)' /\ (wire \in Seq(Segment))'
      BY <1>28 DEF AnswerSegment, LinkTypeOK
    <3>2. Answer("NACK", inseg) \/ Answer("ACK", inseg) \/ back' = back
      BY <1>28 DEF AnswerSegment
    <3>3. (back \in Seq([type : {"ACK", "NACK"}, of : Segment]))'
      BY <2>2, <3>2, AnswerType DEF LinkTypeOK
    <3> QED
      BY <3>1, <3>3 DEF LinkTypeOK
  <2>4. PeerInv'
    BY <1>28 DEF AnswerSegment, PeerInv, PeerTypeOK
  <2> QED
    BY <2>1, <2>3, <2>4
<1>29. CASE LinkDown
  <2>1. SenderInv' /\ ReaderTypeOK' /\ SharedTypeOK' /\ PeerInv' /\ ReportTypeOK'
    BY <1>29, TypeUnchanged DEF LinkDown
  <2>2. LinkTypeOK'
    BY <1>29 DEF LinkDown, LinkTypeOK
  <2> QED
    BY <2>1, <2>2
<1>30. CASE CloseConnection
  <2>1. SenderInv' /\ SharedTypeOK' /\ PeerInv' /\ ReportTypeOK'
    BY <1>30, TypeUnchanged DEF CloseConnection
  <2>2. ReaderTypeOK'
    BY <1>30 DEF CloseConnection, ReaderTypeOK, ReaderStates, Shutdown
  <2>3. LinkTypeOK'
    BY <1>30 DEF CloseConnection, LinkTypeOK
  <2> QED
    BY <2>1, <2>2, <2>3
<1>31. CASE UNCHANGED vars
  BY <1>31, TypeUnchanged DEF vars
<1> QED
  BY <1>1, <1>2, <1>3, <1>4, <1>5, <1>6, <1>7, <1>8, <1>9, <1>10, <1>11,
     <1>12, <1>13, <1>14, <1>15, <1>16, <1>17, <1>18, <1>19, <1>20, <1>21,
     <1>22, <1>23, <1>24, <1>25, <1>26, <1>27, <1>28, <1>29, <1>30, <1>31
  DEF Next, SenderThread, ReaderThread, PeerThread

\* The type invariant, for any number of bundles and segments.
THEOREM TypeCorrect == Spec => []TypeOK
<1>1. Spec => []TypeInv
  BY TypeInit, TypeStep, PTL DEF Spec
<1>2. TypeInv => TypeOK
  BY DEF TypeInv, TypeOK, SenderInv, PeerInv
<1> QED
  BY <1>1, <1>2, PTL

-----------------------------------------------------------------------------
(* No bundle is lost.                                                      *)

\* Where a bundle can be that has not been reported yet.
Somewhere == RangeOf(queue) \cup {cur} \cup RangeOf(sentqueue) \cup Reported

\* A bundle handed to the connection is somewhere.  The Sender thread lets go
\* of its current transfer only when the sent queue holds it or a report has
\* been made, the queues are emptied in the order of finally(), and once they
\* are, only a reported bundle can still be put into the sent queue.
KeptInv ==
  /\ handed \subseteq Somewhere
  /\ rpc = "handshake" => spc = "new"
  /\ spc \in {"new", "idle"} => cur = None
  /\ spc \in {"mark", "check", "push", "write"} =>
       cur \in RangeOf(sentqueue) \cup Reported
  /\ spc = "done" => cur \in {None} \cup Reported
  /\ rpc \in {"clearqueue", "clearsent", "gone"} => ~listed
  /\ rpc \in {"clearsent", "gone"} => queue = <<>>
  /\ rpc = "gone" => RangeOf(sentqueue) \subseteq Reported

\* A new connection has been handed nothing.
LEMMA KeptInit == Init => KeptInv
  BY DEF Init, KeptInv, Somewhere

\* No step of any thread loses a bundle.
LEMMA KeptStep == TypeInv /\ KeptInv /\ [Next]_vars => KeptInv'
<1> SUFFICES ASSUME TypeInv, KeptInv, [Next]_vars
             PROVE  KeptInv'
  OBVIOUS
<1>q. queue \in Seq(Bundles) /\ sentqueue \in Seq(Bundles)
  BY DEF TypeInv, SenderInv, SenderTypeOK, SharedTypeOK
<1>h. None \notin handed
  BY ConstantsAssumption DEF TypeInv, ReportTypeOK
<1>c. spc \in {"get", "mark", "check", "push", "write"} => cur \in Bundles
  BY DEF TypeInv, SenderInv
<1>1. ASSUME NEW b \in Bundles, QueueBundle(b)
      PROVE  KeptInv'
  <2>1. RangeOf(queue') = RangeOf(queue) \cup {b}
    BY <1>1, <1>q, RangeOfAppend DEF QueueBundle
  <2>2. listed /\ handed' = handed \cup {b} /\ Reported' = Reported
    BY <1>1 DEF QueueBundle, Reported
  <2>3. UNCHANGED <<cur, spc, sentqueue, rpc, listed>>
    BY <1>1 DEF QueueBundle, readerVars, sharedVars
  <2> QED
    BY <2>1, <2>2, <2>3 DEF KeptInv, Somewhere
<1>2. CASE NextTransfer
  <2>1. /\ spc = "idle" /\ spc' = "get"
        /\ queue # <<>> /\ queue' = Tail(queue) /\ cur' = Head(queue)
        /\ UNCHANGED <<sentqueue, rpc, listed, handed>>
    BY <1>2 DEF NextTransfer, readerVars, sharedVars, reportVars
  <2>2. Reported' = Reported
    BY <1>2 DEF NextTransfer, Reported, reportVars
  <2>3. RangeOf(queue) = {cur'} \cup RangeOf(queue')
    BY <1>q, <2>1, RangeOfTail
  <2> QED
    BY <1>h, <2>1, <2>2, <2>3 DEF KeptInv, Somewhere
<1>3. CASE ReadBundle
  <2>1. /\ spc = "get" /\ spc' = "mark" /\ rpc # "gone"
        /\ sentqueue' = Append(sentqueue, cur)
        /\ UNCHANGED <<queue, cur, rpc, listed, handed>>
    BY <1>3 DEF ReadBundle, StreamGood, readerVars, reportVars
  <2>2. Reported' = Reported
    BY <1>3 DEF ReadBundle, Reported, reportVars
  <2>3. RangeOf(sentqueue') = RangeOf(sentqueue) \cup {cur}
    BY <1>q, <1>c, <2>1, RangeOfAppend
  <2> QED
    BY <2>1, <2>2, <2>3 DEF KeptInv, Somewhere
<1>4. CASE StreamWentBad
  <2>1. /\ spc = "get" /\ spc' = "done"
        /\ sentqueue' = Append(sentqueue, cur)
        /\ UNCHANGED <<queue, cur, rpc, listed, handed>>
    BY <1>4 DEF StreamWentBad, readerVars
  <2>2. Reported' = Reported \cup {cur}
    BY <1>4 DEF StreamWentBad, Reported
  <2>3. RangeOf(sentqueue') = RangeOf(sentqueue) \cup {cur}
    BY <1>q, <1>c, <2>1, RangeOfAppend
  <2> QED
    BY <2>1, <2>2, <2>3 DEF KeptInv, Somewhere
<1>5. CASE BundleDeleted
  <2>1. /\ spc = "get" /\ spc' = "idle" /\ cur' = None
        /\ UNCHANGED <<queue, sentqueue, rpc, listed, handed>>
    BY <1>5 DEF BundleDeleted, readerVars, sharedVars
  <2>2. Reported' = Reported \cup {cur}
    BY <1>5 DEF BundleDeleted, Reported
  <2> QED
    BY <2>1, <2>2 DEF KeptInv, Somewhere
<1>6. CASE MarkSegment
  <2>1. /\ rpc' = rpc /\ spc = "mark" /\ spc' = "check"
        /\ UNCHANGED <<queue, cur, sentqueue, listed, handed>>
    BY <1>6 DEF MarkSegment, senderVars, readerVars, sharedVars, reportVars
  <2>2. Reported' = Reported
    BY <1>6 DEF MarkSegment, Reported, reportVars
  <2> QED
    BY <2>1, <2>2 DEF KeptInv, Somewhere
<1>7. CASE SkipSegment
  <2>1. /\ spc = "check"
        /\ \/ spc' = "idle" /\ cur' = None
           \/ spc' = "mark" /\ cur' = cur
        /\ UNCHANGED <<queue, sentqueue, rpc, listed, handed>>
    BY <1>7 DEF SkipSegment, SegmentDone, readerVars, sharedVars, reportVars
  <2>2. Reported' = Reported
    BY <1>7 DEF SkipSegment, Reported, reportVars
  <2> QED
    BY <2>1, <2>2 DEF KeptInv, Somewhere
<1>8. CASE CheckSkip
  <2>1. /\ rpc' = rpc /\ spc = "check" /\ spc' = "push"
        /\ UNCHANGED <<queue, cur, sentqueue, listed, handed>>
    BY <1>8 DEF CheckSkip, senderVars, readerVars, sharedVars, reportVars
  <2>2. Reported' = Reported
    BY <1>8 DEF CheckSkip, Reported, reportVars
  <2> QED
    BY <2>1, <2>2 DEF KeptInv, Somewhere
<1>9. CASE PushSegment
  <2>1. /\ spc = "push" /\ spc' = "write" /\ rpc' = rpc
        /\ UNCHANGED <<queue, cur, listed, handed>>
    BY <1>9 DEF PushSegment, senderVars, readerVars, sharedVars, reportVars
  <2>2. \/ UNCHANGED <<sentqueue, completed>>
        \/ /\ sentqueue # <<>> /\ sentqueue' = Tail(sentqueue)
           /\ completed' = completed \cup {Head(sentqueue)}
    BY <1>9 DEF PushSegment, EventBundleForwarded
  <2>3. \/ RangeOf(sentqueue') = RangeOf(sentqueue) /\ Reported' = Reported
        \/ /\ RangeOf(sentqueue) = {Head(sentqueue)} \cup RangeOf(sentqueue')
           /\ Reported' = Reported \cup {Head(sentqueue)}
    BY <1>9, <1>q, <2>2, RangeOfTail DEF PushSegment, Reported, reportVars
  <2> QED
    BY <2>1, <2>3 DEF KeptInv, Somewhere
<1>10. CASE WriteSegment
  <2>1. /\ spc = "write"
        /\ \/ spc' = "idle" /\ cur' = None
           \/ spc' = "mark" /\ cur' = cur
        /\ UNCHANGED <<queue, sentqueue, rpc, listed, handed>>
    BY <1>10 DEF WriteSegment, SegmentDone, readerVars, sharedVars, reportVars
  <2>2. Reported' = Reported
    BY <1>10 DEF WriteSegment, Reported, reportVars
  <2> QED
    BY <2>1, <2>2 DEF KeptInv, Somewhere
<1>11. CASE WriteFails
  <2>1. /\ spc = "write" /\ spc' = "done"
        /\ UNCHANGED <<queue, cur, sentqueue, rpc, listed, handed>>
    BY <1>11 DEF WriteFails, readerVars, sharedVars
  <2>2. Reported' = Reported \cup {cur}
    BY <1>11 DEF WriteFails, Reported
  <2> QED
    BY <2>1, <2>2 DEF KeptInv, Somewhere
<1>12. CASE SenderExits
  <2>1. /\ rpc' = rpc /\ spc = "idle" /\ spc' = "done"
        /\ UNCHANGED <<queue, cur, sentqueue, listed, handed>>
    BY <1>12 DEF SenderExits, senderVars, readerVars, sharedVars, reportVars
  <2>2. Reported' = Reported
    BY <1>12 DEF SenderExits, Reported, reportVars
  <2> QED
    BY <2>1, <2>2 DEF KeptInv, Somewhere
<1>13. CASE StartSender
  <2>1. /\ rpc = "handshake" /\ rpc' = "idle" /\ spc' = "idle"
        /\ UNCHANGED <<queue, cur, sentqueue, listed, handed>>
    BY <1>13 DEF StartSender, senderVars, readerVars, sharedVars, reportVars
  <2>2. Reported' = Reported
    BY <1>13 DEF StartSender, Reported, reportVars
  <2> QED
    BY <2>1, <2>2 DEF KeptInv, Somewhere
<1>14. CASE HandleAck
  <2>1. /\ spc' = spc /\ rpc' = rpc
        /\ UNCHANGED <<queue, cur, listed, handed>>
    BY <1>14 DEF HandleAck, senderVars, readerVars, sharedVars, reportVars
  <2>2. \/ UNCHANGED <<sentqueue, completed>>
        \/ /\ sentqueue # <<>> /\ sentqueue' = Tail(sentqueue)
           /\ completed' = completed \cup {Head(sentqueue)}
    BY <1>14 DEF HandleAck, EventBundleForwarded
  <2>3. \/ RangeOf(sentqueue') = RangeOf(sentqueue) /\ Reported' = Reported
        \/ /\ RangeOf(sentqueue) = {Head(sentqueue)} \cup RangeOf(sentqueue')
           /\ Reported' = Reported \cup {Head(sentqueue)}
    BY <1>14, <1>q, <2>2, RangeOfTail DEF HandleAck, Reported, reportVars
  <2> QED
    BY <2>1, <2>3 DEF KeptInv, Somewhere
<1>15. CASE HandleNackAgain
  <2>1. /\ spc' = spc /\ (rpc' = rpc \/ rpc' \in {"idle", "drain", "refuse", "setskip", "down"})
        /\ UNCHANGED <<queue, cur, sentqueue, listed, handed>>
    BY <1>15 DEF HandleNackAgain, senderVars, readerVars, sharedVars,
       reportVars
  <2>2. Reported' = Reported
    BY <1>15 DEF HandleNackAgain, Reported, reportVars
  <2> QED
    BY <2>1, <2>2 DEF KeptInv, Somewhere
<1>16. CASE HandleNack
  <2>1. /\ spc' = spc /\ (rpc' = rpc \/ rpc' \in {"idle", "drain", "refuse", "setskip", "down"})
        /\ UNCHANGED <<queue, cur, sentqueue, listed, handed>>
    BY <1>16 DEF HandleNack, senderVars, readerVars, sharedVars, reportVars
  <2>2. Reported' = Reported
    BY <1>16 DEF HandleNack, Reported, reportVars
  <2> QED
    BY <2>1, <2>2 DEF KeptInv, Somewhere
<1>17. CASE DrainSegment
  <2>1. /\ spc' = spc /\ (rpc' = rpc \/ rpc' \in {"idle", "drain", "refuse", "setskip", "down"})
        /\ UNCHANGED <<queue, cur, sentqueue, listed, handed>>
    BY <1>17 DEF DrainSegment, senderVars, readerVars, sharedVars, reportVars
  <2>2. Reported' = Reported
    BY <1>17 DEF DrainSegment, Reported, reportVars
  <2> QED
    BY <2>1, <2>2 DEF KeptInv, Somewhere
<1>18. CASE RaiseRefused
  <2>1. /\ spc' = spc /\ rpc' = "skipcheck"
        /\ UNCHANGED <<queue, cur, listed, handed>>
    BY <1>18 DEF RaiseRefused, senderVars, readerVars, sharedVars, reportVars
  <2>2. \/ UNCHANGED <<sentqueue, refused>>
        \/ /\ sentqueue # <<>> /\ sentqueue' = Tail(sentqueue)
           /\ refused' = refused \cup {Head(sentqueue)}
    BY <1>18 DEF RaiseRefused, EventBundleRefused
  <2>3. \/ RangeOf(sentqueue') = RangeOf(sentqueue) /\ Reported' = Reported
        \/ /\ RangeOf(sentqueue) = {Head(sentqueue)} \cup RangeOf(sentqueue')
           /\ Reported' = Reported \cup {Head(sentqueue)}
    BY <1>18, <1>q, <2>2, RangeOfTail DEF RaiseRefused, Reported, reportVars
  <2> QED
    BY <2>1, <2>3 DEF KeptInv, Somewhere
<1>19. CASE CheckEmpty
  <2>1. /\ spc' = spc /\ (rpc' = rpc \/ rpc' \in {"idle", "drain", "refuse", "setskip", "down"})
        /\ UNCHANGED <<queue, cur, sentqueue, listed, handed>>
    BY <1>19 DEF CheckEmpty, senderVars, readerVars, sharedVars, reportVars
  <2>2. Reported' = Reported
    BY <1>19 DEF CheckEmpty, Reported, reportVars
  <2> QED
    BY <2>1, <2>2 DEF KeptInv, Somewhere
<1>20. CASE SetSkip
  <2>1. /\ spc' = spc /\ (rpc' = rpc \/ rpc' \in {"idle", "drain", "refuse", "setskip", "down"})
        /\ UNCHANGED <<queue, cur, sentqueue, listed, handed>>
    BY <1>20 DEF SetSkip, senderVars, readerVars, sharedVars, reportVars
  <2>2. Reported' = Reported
    BY <1>20 DEF SetSkip, Reported, reportVars
  <2> QED
    BY <2>1, <2>2 DEF KeptInv, Somewhere
<1>21. CASE ReadFails
  <2>1. /\ spc' = spc /\ (rpc' = rpc \/ rpc' \in {"idle", "drain", "refuse", "setskip", "down"})
        /\ UNCHANGED <<queue, cur, sentqueue, listed, handed>>
    BY <1>21 DEF ReadFails, senderVars, readerVars, sharedVars, reportVars
  <2>2. Reported' = Reported
    BY <1>21 DEF ReadFails, Reported, reportVars
  <2> QED
    BY <2>1, <2>2 DEF KeptInv, Somewhere
<1>22. CASE ConnectionDown
  <2>1. /\ rpc' = "clearqueue" /\ listed' = FALSE
        /\ UNCHANGED <<queue, cur, spc, sentqueue, handed>>
    BY <1>22 DEF ConnectionDown, senderVars, sharedVars, reportVars
  <2>2. Reported' = Reported
    BY <1>22 DEF ConnectionDown, Reported, reportVars
  <2> QED
    BY <2>1, <2>2 DEF KeptInv, Somewhere
<1>23. CASE ClearQueued
  <2>1. /\ rpc = "clearqueue"
        /\ UNCHANGED <<cur, spc, sentqueue, listed, handed>>
    BY <1>23 DEF ClearQueued, sharedVars
  <2>2. CASE queue = <<>>
    <3>1. rpc' = "clearsent" /\ queue' = queue /\ Reported' = Reported
      BY <1>23, <2>2 DEF ClearQueued, Reported
    <3> QED
      BY <2>1, <2>2, <3>1 DEF KeptInv, Somewhere
  <2>3. CASE queue # <<>>
    <3>1. /\ rpc' = rpc /\ queue' = Tail(queue)
          /\ Reported' = Reported \cup {Head(queue)}
      BY <1>23, <2>3 DEF ClearQueued, Reported
    <3>2. RangeOf(queue) = {Head(queue)} \cup RangeOf(queue')
      BY <1>q, <2>3, <3>1, RangeOfTail
    <3> QED
      BY <2>1, <3>1, <3>2 DEF KeptInv, Somewhere
  <2> QED
    BY <2>2, <2>3
<1>24. CASE ClearSent
  <2>1. /\ rpc = "clearsent"
        /\ UNCHANGED <<queue, cur, spc, listed, handed>>
    BY <1>24 DEF ClearSent, senderVars
  <2>2. CASE sentqueue = <<>>
    <3>1. rpc' = "gone" /\ sentqueue' = sentqueue /\ Reported' = Reported
      BY <1>24, <2>2 DEF ClearSent, Reported
    <3>2. RangeOf(sentqueue) = {}
      BY <2>2 DEF RangeOf
    <3> QED
      BY <2>1, <3>1, <3>2 DEF KeptInv, Somewhere
  <2>3. CASE sentqueue # <<>>
    <3>1. /\ rpc' = rpc /\ sentqueue' = Tail(sentqueue)
          /\ Reported' = Reported \cup {Head(sentqueue)}
      BY <1>24, <2>3 DEF ClearSent, Reported
    <3>2. RangeOf(sentqueue) = {Head(sentqueue)} \cup RangeOf(sentqueue')
      BY <1>q, <2>3, <3>1, RangeOfTail
    <3> QED
      BY <2>1, <3>1, <3>2 DEF KeptInv, Somewhere
  <2> QED
    BY <2>2, <2>3
<1>25. CASE ReceiveSegment
  <2>1. /\ spc' = spc /\ rpc' = rpc
        /\ UNCHANGED <<queue, cur, sentqueue, listed, handed>>
    BY <1>25 DEF ReceiveSegment, senderVars, readerVars, sharedVars,
       reportVars
  <2>2. Reported' = Reported
    BY <1>25 DEF ReceiveSegment, Reported, reportVars
  <2> QED
    BY <2>1, <2>2 DEF KeptInv, Somewhere
<1>26. CASE DeliverBundle
  <2>1. /\ spc' = spc /\ rpc' = rpc
        /\ UNCHANGED <<queue, cur, sentqueue, listed, handed>>
    BY <1>26 DEF DeliverBundle, senderVars, readerVars, sharedVars,
       reportVars
  <2>2. Reported' = Reported
    BY <1>26 DEF DeliverBundle, Reported, reportVars
  <2> QED
    BY <2>1, <2>2 DEF KeptInv, Somewhere
<1>27. CASE RejectTransmission
  <2>1. /\ spc' = spc /\ rpc' = rpc
        /\ UNCHANGED <<queue, cur, sentqueue, listed, handed>>
    BY <1>27 DEF RejectTransmission, senderVars, readerVars, sharedVars,
       reportVars
  <2>2. Reported' = Reported
    BY <1>27 DEF RejectTransmission, Reported, reportVars
  <2> QED
    BY <2>1, <2>2 DEF KeptInv, Somewhere
<1>28. CASE AnswerSegment
  <2>1. /\ spc' = spc /\ rpc' = rpc
        /\ UNCHANGED <<queue, cur, sentqueue, listed, handed>>
    BY <1>28 DEF AnswerSegment, senderVars, readerVars, sharedVars,
       reportVars
  <2>2. Reported' = Reported
    BY <1>28 DEF AnswerSegment, Reported, reportVars
  <2> QED
    BY <2>1, <2>2 DEF KeptInv, Somewhere
<1>29. CASE LinkDown
  <2>1. /\ spc' = spc /\ rpc' = rpc
        /\ UNCHANGED <<queue, cur, sentqueue, listed, handed>>
    BY <1>29 DEF LinkDown, senderVars, readerVars, sharedVars, reportVars
  <2>2. Reported' = Reported
    BY <1>29 DEF LinkDown, Reported, reportVars
  <2> QED
    BY <2>1, <2>2 DEF KeptInv, Somewhere
<1>30. CASE CloseConnection
  <2>1. /\ spc' = spc /\ rpc' = rpc
        /\ UNCHANGED <<queue, cur, sentqueue, listed, handed>>
    BY <1>30 DEF CloseConnection, senderVars, readerVars, sharedVars,
       reportVars
  <2>2. Reported' = Reported
    BY <1>30 DEF CloseConnection, Reported, reportVars
  <2> QED
    BY <2>1, <2>2 DEF KeptInv, Somewhere
<1>31. CASE UNCHANGED vars
  <2>1. UNCHANGED <<queue, cur, spc, sentqueue, rpc, listed, handed>>
    BY <1>31 DEF vars, senderVars, readerVars, sharedVars, reportVars
  <2>2. Reported' = Reported
    BY <1>31 DEF vars, reportVars, Reported
  <2> QED
    BY <2>1, <2>2 DEF KeptInv, Somewhere
<1> QED
  BY <1>1, <1>2, <1>3, <1>4, <1>5, <1>6, <1>7, <1>8, <1>9, <1>10, <1>11,
     <1>12, <1>13, <1>14, <1>15, <1>16, <1>17, <1>18, <1>19, <1>20, <1>21,
     <1>22, <1>23, <1>24, <1>25, <1>26, <1>27, <1>28, <1>29, <1>30, <1>31
  DEF Next, SenderThread, ReaderThread, PeerThread

\* When both threads of a connection have ended, every bundle handed to it has
\* been reported: for any number of bundles and segments, whether or not the
\* peer answers or rejects, and wherever the link breaks.
THEOREM NoBundleForgotten == Spec => []NothingForgotten
<1>1. TypeInv /\ KeptInv => NothingForgotten
  <2> SUFFICES ASSUME TypeInv, KeptInv, rpc = "gone", spc \in {"new", "done"}
               PROVE  handed \subseteq Reported
    BY DEF NothingForgotten
  <2>1. RangeOf(queue) = {}
    BY DEF KeptInv, RangeOf
  <2>2. handed \subseteq {None} \cup Reported
    BY <2>1 DEF KeptInv, Somewhere
  <2>3. handed \subseteq Bundles
    BY DEF TypeInv, ReportTypeOK
  <2> QED
    BY <2>2, <2>3, ConstantsAssumption
<1>2. Spec => [](TypeInv /\ KeptInv)
  BY TypeInit, TypeStep, KeptInit, KeptStep, PTL DEF Spec
<1> QED
  BY <1>1, <1>2, PTL

-----------------------------------------------------------------------------
(* Answers meet their segments.                                            *)

\* The k-th segment that waits for its answer: the rejected ones come first.
Kept(k) == IF k <= Len(rejected) THEN rejected[k] ELSE segments[k - Len(rejected)]
KeptLen == Len(rejected) + Len(segments)

Reading == IF inseg = NoSegment THEN 0 ELSE 1
Writing == IF spc = "write" THEN 1 ELSE 0

\* The k-th segment on its way: answered, read by the peer, in flight, or
\* about to be written.
Flight(k) ==
  IF k <= Len(back) THEN back[k].of
  ELSE IF k <= Len(back) + Reading THEN inseg
  ELSE IF k <= Len(back) + Reading + Len(wire) THEN wire[k - Len(back) - Reading]
  ELSE seg
FlightLen == Len(back) + Reading + Len(wire) + Writing

\* The reader thread is to meet the other refusals of a transfer.
Refusing == rpc = "drain" \/ rejected # <<>>

\* The peer refuses up to the next segment that begins a bundle.
PeerRefuses == IF inseg = NoSegment THEN reject ELSE inseg.begin

\* The two lines of segments are the same, ...
Paired ==
  /\ KeptLen = FlightLen
  /\ \A k \in 1..KeptLen : Kept(k) = Flight(k)

\* ... and a refusal is followed by refusals up to the end of its bundle.
RefusalsFollow ==
  /\ \A k \in 1..Len(rejected) : ~rejected[k].begin
  /\ Refusing /\ back # <<>> /\ ~back[1].of.begin => back[1].type = "NACK"
  /\ \A k \in 1..Len(back) - 1 :
       back[k].type = "NACK" /\ ~back[k + 1].of.begin => back[k + 1].type = "NACK"
  /\ back # <<>> /\ back[Len(back)].type = "NACK" => PeerRefuses
  /\ Refusing /\ back = <<>> => PeerRefuses

LineInv == Paired /\ RefusalsFollow

\* The types of what is in line.
LEMMA LineTypes ==
  ASSUME TypeInv
  PROVE  /\ rejected \in Seq(Segment) /\ segments \in Seq(Segment)
         /\ wire \in Seq(Segment)
         /\ back \in Seq([type : {"ACK", "NACK"}, of : Segment])
         /\ inseg \in Segment \cup {NoSegment} /\ reject \in BOOLEAN
         /\ instate \in {"IDLE", "DATA_TRANSFER"}
         /\ (instate = "DATA_TRANSFER" => inseg \in Segment)
         /\ (spc \in {"check", "push", "write"} => seg \in Segment)
  BY DEF TypeInv, ReaderTypeOK, SharedTypeOK, LinkTypeOK, PeerInv, PeerTypeOK, SenderInv

\* No segment is the null segment.
LEMMA SegmentIsSome == \A s \in Segment : s # NoSegment /\ s.begin \in BOOLEAN /\ s.end \in BOOLEAN
  BY ConstantsAssumption DEF Segment, NoSegment

\* The places of the elements of a queue after a pop and a push.
LEMMA TailPlaces ==
  ASSUME NEW A, NEW s \in Seq(A), s # <<>>
  PROVE  /\ Len(s) \in Nat /\ Len(s) >= 1 /\ Head(s) = s[1] /\ s[1] \in A
         /\ Len(Tail(s)) = Len(s) - 1
         /\ \A k \in 1..Len(s) - 1 : Tail(s)[k] = s[k + 1]
  OBVIOUS

LEMMA AppendPlaces ==
  ASSUME NEW A, NEW s \in Seq(A), NEW e \in A
  PROVE  /\ Len(s) \in Nat /\ Len(Append(s, e)) = Len(s) + 1
         /\ \A k \in 1..Len(s) : Append(s, e)[k] = s[k]
         /\ Append(s, e)[Len(s) + 1] = e
  OBVIOUS

\* The parts of the line of flight are counted by numbers.
LEMMA FlightParts ==
  ASSUME TypeInv
  PROVE  /\ Reading \in {0, 1} /\ Writing \in {0, 1}
         /\ Len(back) \in Nat /\ Len(wire) \in Nat /\ Len(rejected) \in Nat
         /\ Len(segments) \in Nat /\ KeptLen \in Nat /\ FlightLen \in Nat
<1>1. Reading \in {0, 1} /\ Writing \in {0, 1}
  BY DEF Reading, Writing
<1>2. /\ Len(back) \in Nat /\ Len(wire) \in Nat /\ Len(rejected) \in Nat
      /\ Len(segments) \in Nat
  BY LineTypes
<1> QED
  BY <1>1, <1>2 DEF KeptLen, FlightLen

\* A new connection has nothing in line.
LEMMA LineInit == Init => LineInv
  BY DEF Init, LineInv, Paired, RefusalsFollow, Kept, KeptLen, Flight, FlightLen,
         Reading, Writing, Refusing, PeerRefuses, NoSegment

\* A step that moves nothing in line.
LEMMA LineQuiet ==
  ASSUME TypeInv, LineInv, UNCHANGED <<rejected, segments, wire, back, inseg, reject>>,
         rpc' = "drain" => rpc = "drain",
         \/ spc = "write" /\ spc' = "write" /\ seg' = seg
         \/ spc # "write" /\ spc' # "write"
  PROVE  LineInv'
<1>1. /\ Len(back) \in Nat /\ Len(wire) \in Nat /\ Len(rejected) \in Nat
      /\ Len(segments) \in Nat
  BY LineTypes
<1>2. Paired'
  <2>1. KeptLen' = KeptLen /\ FlightLen' = FlightLen /\ KeptLen = FlightLen
    BY DEF LineInv, Paired, KeptLen, FlightLen, Reading, Writing
  <2>2. ASSUME NEW k \in 1..KeptLen
        PROVE  Kept(k)' = Flight(k)'
    <3>1. Kept(k)' = Kept(k)
      BY DEF Kept
    <3>2. Reading' = Reading /\ k \in Nat /\ k <= FlightLen
      BY <2>1, FlightParts DEF Reading
    <3>5. Flight(k)' = Flight(k)
      <4>1. CASE Writing = 0
        <5>1. k <= Len(back) + Reading + Len(wire)
          BY <3>2, <4>1, FlightParts DEF FlightLen
        <5> QED
          BY <3>2, <5>1 DEF Flight
      <4>2. CASE Writing # 0
        <5>1. seg' = seg
          BY <4>2 DEF Writing
        <5> QED
          BY <3>2, <5>1 DEF Flight
      <4> QED
        BY <4>1, <4>2
    <3> QED
      BY <3>1, <3>5 DEF LineInv, Paired
  <2> QED
    BY <2>1, <2>2 DEF Paired
<1>3. RefusalsFollow'
  BY DEF LineInv, RefusalsFollow, Refusing, PeerRefuses
<1> QED
  BY <1>2, <1>3 DEF LineInv

\* overflow() puts the segment that it is about to write into the queue.
LEMMA LinePush ==
  ASSUME AckSupport, TypeInv, LineInv, PushSegment
  PROVE  LineInv'
<1>1. /\ spc = "push" /\ spc' = "write" /\ seg' = seg
      /\ segments' = Append(segments, seg)
      /\ UNCHANGED <<rejected, wire, back, inseg, reject, rpc>>
  BY DEF PushSegment, readerVars, linkVars, peerVars
<1>2. /\ Len(back) \in Nat /\ Len(wire) \in Nat /\ Len(rejected) \in Nat
      /\ Len(segments') = Len(segments) + 1 /\ Len(segments) \in Nat
      /\ \A k \in 1..Len(segments) : segments'[k] = segments[k]
      /\ segments'[Len(segments) + 1] = seg
  BY <1>1, LineTypes, AppendPlaces
<1>3. Paired'
  <2>1. KeptLen' = KeptLen + 1 /\ FlightLen' = FlightLen + 1 /\ KeptLen = FlightLen
    BY <1>1, <1>2 DEF LineInv, Paired, KeptLen, FlightLen, Reading, Writing
  <2>2. ASSUME NEW k \in 1..KeptLen
        PROVE  Kept(k)' = Flight(k)'
    <3>1. Kept(k)' = Kept(k)
      BY <1>1, <1>2 DEF Kept, KeptLen
    <3>2. Flight(k)' = Flight(k)
      BY <1>1, <1>2, <2>1 DEF Flight, Reading, Writing, FlightLen
    <3> QED
      BY <3>1, <3>2 DEF LineInv, Paired
  <2>3. ASSUME NEW k, k = KeptLen + 1
        PROVE  Kept(k)' = Flight(k)'
    <3>1. Kept(k)' = seg
      BY <1>1, <1>2, <2>3 DEF Kept, KeptLen
    <3>2. Flight(k)' = seg
      BY <1>1, <1>2, <2>1, <2>3 DEF Flight, Reading, Writing, FlightLen
    <3> QED
      BY <3>1, <3>2
  <2>4. \A k \in 1..KeptLen' : k \in 1..KeptLen \/ k = KeptLen + 1
    BY <1>1, <1>2, <2>1 DEF KeptLen
  <2> QED
    BY <2>1, <2>2, <2>3, <2>4 DEF Paired
<1>4. RefusalsFollow'
  BY <1>1 DEF LineInv, RefusalsFollow, Refusing, PeerRefuses
<1> QED
  BY <1>3, <1>4 DEF LineInv

\* The segment is written.
LEMMA LineWrite ==
  ASSUME TypeInv, LineInv, WriteSegment
  PROVE  LineInv'
<1>1. /\ spc = "write" /\ spc' # "write" /\ seg \in Segment
      /\ wire' = Append(wire, seg)
      /\ UNCHANGED <<rejected, segments, back, inseg, reject, rpc>>
  BY LineTypes DEF WriteSegment, SegmentDone, readerVars, sharedVars, peerVars
<1>2. /\ Len(back) \in Nat /\ Len(rejected) \in Nat /\ Len(segments) \in Nat
      /\ Len(wire') = Len(wire) + 1 /\ Len(wire) \in Nat
      /\ \A k \in 1..Len(wire) : wire'[k] = wire[k]
      /\ wire'[Len(wire) + 1] = seg
  BY <1>1, LineTypes, AppendPlaces
<1>3. Paired'
  <2>r. Reading' = Reading /\ Writing = 1 /\ Writing' = 0 /\ Reading \in {0, 1}
    BY <1>1, FlightParts DEF Reading, Writing
  <2>1. KeptLen' = KeptLen /\ FlightLen' = FlightLen /\ KeptLen = FlightLen
    BY <1>1, <1>2, <2>r DEF LineInv, Paired, KeptLen, FlightLen
  <2>2. ASSUME NEW k \in 1..KeptLen
        PROVE  Kept(k)' = Flight(k)'
    <3>1. Kept(k)' = Kept(k)
      BY <1>1, <1>2 DEF Kept, KeptLen
    <3>2. Flight(k)' = Flight(k)
      <4>1. k \in Nat /\ k <= Len(back) + Reading + Len(wire) + 1
        BY <2>1, <2>r, FlightParts DEF FlightLen
      <4>2. CASE k <= Len(back) + Reading
        BY <1>1, <2>r, <4>2 DEF Flight
      <4>3. CASE ~(k <= Len(back) + Reading) /\ k <= Len(back) + Reading + Len(wire)
        <5>1. k - Len(back) - Reading \in 1..Len(wire)
          BY <1>2, <2>r, <4>1, <4>3
        <5> QED
          BY <1>1, <1>2, <2>r, <4>1, <4>3, <5>1 DEF Flight
      <4>4. CASE k = Len(back) + Reading + Len(wire) + 1
        <5>1. k - Len(back) - Reading = Len(wire) + 1 /\ ~(k <= Len(back) + Reading + Len(wire))
              /\ k <= Len(back) + Reading + Len(wire') /\ ~(k <= Len(back)) /\ ~(k <= Len(back) + Reading)
          BY <1>2, <2>r, <4>1, <4>4
        <5> QED
          BY <1>1, <1>2, <2>r, <5>1 DEF Flight
      <4>5. \/ k <= Len(back) + Reading
            \/ ~(k <= Len(back) + Reading) /\ k <= Len(back) + Reading + Len(wire)
            \/ k = Len(back) + Reading + Len(wire) + 1
        BY <1>2, <2>r, <4>1
      <4> QED
        BY <4>2, <4>3, <4>4, <4>5
    <3> QED
      BY <3>1, <3>2 DEF LineInv, Paired
  <2> QED
    BY <2>1, <2>2 DEF Paired
<1>4. RefusalsFollow'
  BY <1>1 DEF LineInv, RefusalsFollow, Refusing, PeerRefuses
<1> QED
  BY <1>3, <1>4 DEF LineInv

\* What is known when the first answer is handled: its segment is the first
\* that is kept.
LEMMA FirstAnswer ==
  ASSUME TypeInv, LineInv, back # <<>>
  PROVE  /\ Kept(1) = back[1].of /\ KeptLen >= 1
         /\ Len(back) \in Nat /\ Len(back) >= 1 /\ Len(wire) \in Nat
         /\ Len(rejected) \in Nat /\ Len(segments) \in Nat
         /\ back[1] \in [type : {"ACK", "NACK"}, of : Segment]
<1>1. /\ Len(back) \in Nat /\ Len(back) >= 1 /\ Len(wire) \in Nat
      /\ Len(rejected) \in Nat /\ Len(segments) \in Nat
      /\ back[1] \in [type : {"ACK", "NACK"}, of : Segment]
  BY LineTypes, FlightParts, TailPlaces
<1>2. KeptLen >= 1
  BY <1>1, FlightParts DEF LineInv, Paired, FlightLen
<1>3. KeptLen \in Nat
  BY <1>1 DEF KeptLen
<1>4. Kept(1) = Flight(1)
  BY <1>2, <1>3 DEF LineInv, Paired
<1>5. Flight(1) = back[1].of
  BY <1>1 DEF Flight
<1> QED
  BY <1>1, <1>2, <1>4, <1>5

\* The first answer and the first kept segment leave together.
LEMMA LineShift ==
  ASSUME TypeInv, LineInv, back # <<>>, back' = Tail(back),
         UNCHANGED <<wire, inseg, reject, spc, seg>>,
         \/ /\ rejected # <<>> /\ rejected' = Tail(rejected)
            /\ segments' = segments
         \/ /\ rejected = <<>> /\ rejected' = rejected
            /\ segments' = Tail(segments)
  PROVE  Paired'
<1>1. /\ Kept(1) = back[1].of /\ KeptLen >= 1
      /\ Len(back) \in Nat /\ Len(back) >= 1 /\ Len(wire) \in Nat
      /\ Len(rejected) \in Nat /\ Len(segments) \in Nat
  BY FirstAnswer
<1>2. Len(back') = Len(back) - 1 /\ \A k \in 1..Len(back') : back'[k] = back[k + 1]
  BY LineTypes, TailPlaces
<1>3. KeptLen' = KeptLen - 1 /\ \A k \in 1..KeptLen' : Kept(k)' = Kept(k + 1)
  <2>1. CASE rejected # <<>> /\ rejected' = Tail(rejected) /\ segments' = segments
    <3>1. /\ Len(rejected') = Len(rejected) - 1 /\ Len(segments') = Len(segments)
          /\ \A k \in 1..Len(rejected') : rejected'[k] = rejected[k + 1]
      BY <2>1, LineTypes, TailPlaces
    <3>2. KeptLen' = KeptLen - 1
      BY <1>1, <3>1 DEF KeptLen
    <3>3. ASSUME NEW k \in 1..KeptLen'
          PROVE  Kept(k)' = Kept(k + 1)
      <4>1. CASE k <= Len(rejected')
        <5>1. k \in 1..Len(rejected') /\ k + 1 <= Len(rejected)
          BY <1>1, <3>1, <4>1
        <5> QED
          BY <3>1, <4>1, <5>1 DEF Kept
      <4>2. CASE ~(k <= Len(rejected'))
        <5>1. ~(k + 1 <= Len(rejected)) /\ k + 1 - Len(rejected) = k - Len(rejected')
          BY <1>1, <3>1, <4>2
        <5> QED
          BY <2>1, <4>2, <5>1 DEF Kept
      <4> QED
        BY <4>1, <4>2
    <3> QED
      BY <3>2, <3>3
  <2>2. CASE rejected = <<>> /\ rejected' = rejected /\ segments' = Tail(segments)
    <3>1. Len(rejected) = 0 /\ segments # <<>>
      BY <1>1, <2>2 DEF KeptLen
    <3>2. /\ Len(segments') = Len(segments) - 1
          /\ \A k \in 1..Len(segments') : segments'[k] = segments[k + 1]
      BY <2>2, <3>1, LineTypes, TailPlaces
    <3> QED
      BY <1>1, <2>2, <3>1, <3>2 DEF Kept, KeptLen
  <2> QED
    BY <2>1, <2>2
<1>4. FlightLen' = FlightLen - 1
  BY <1>1, <1>2 DEF FlightLen, Reading, Writing
<1>5. ASSUME NEW k \in 1..KeptLen'
      PROVE  Flight(k)' = Flight(k + 1)
  BY <1>1, <1>2, <1>3, <1>4 DEF Flight, Reading, KeptLen
<1>6. KeptLen \in Nat /\ KeptLen = FlightLen
  BY <1>1 DEF KeptLen, LineInv, Paired
<1>7. ASSUME NEW k \in 1..KeptLen'
      PROVE  Kept(k)' = Flight(k)'
  <2>1. k + 1 \in 1..KeptLen
    BY <1>3, <1>6
  <2> QED
    BY <1>3, <1>5, <2>1 DEF LineInv, Paired
<1> QED
  BY <1>3, <1>4, <1>6, <1>7 DEF Paired

\* An ACK meets a segment of a transfer that is not refused.
LEMMA LineAck ==
  ASSUME TypeInv, LineInv, HandleAck
  PROVE  LineInv' /\ rejected = <<>> /\ segments # <<>> /\ segments[1] = back[1].of
<1>1. /\ rpc = "idle" /\ rpc' = rpc /\ back # <<>> /\ Head(back).type = "ACK"
      /\ back' = Tail(back) /\ UNCHANGED <<wire, inseg, reject, spc, seg, rejected>>
  BY DEF HandleAck, senderVars, readerVars, peerVars
<1>2. /\ Kept(1) = back[1].of /\ KeptLen >= 1
      /\ Len(back) \in Nat /\ Len(back) >= 1
      /\ Len(rejected) \in Nat /\ Len(segments) \in Nat
  BY <1>1, FirstAnswer
<1>3. /\ back[1].type = "ACK" /\ Len(back') = Len(back) - 1
      /\ \A k \in 1..Len(back') : back'[k] = back[k + 1]
  BY <1>1, LineTypes, TailPlaces
<1>4. rejected = <<>>
  <2> SUFFICES ASSUME rejected # <<>>
               PROVE  FALSE
    OBVIOUS
  <2>1. Len(rejected) >= 1 /\ 1 \in 1..Len(rejected)
    BY LineTypes, TailPlaces
  <2>2. Kept(1) = rejected[1] /\ ~rejected[1].begin
    BY <2>1 DEF Kept, LineInv, RefusalsFollow
  <2>3. Refusing /\ ~back[1].of.begin
    BY <1>2, <2>2 DEF Refusing
  <2> QED
    BY <1>1, <1>3, <2>3 DEF LineInv, RefusalsFollow
<1>5. Len(rejected) = 0 /\ Len(segments) >= 1 /\ segments # <<>>
  BY <1>2, <1>4 DEF KeptLen
<1>6. segments[1] = back[1].of
  BY <1>2, <1>5 DEF Kept
<1>7. segments' = Tail(segments)
  BY <1>5 DEF HandleAck
<1>8. Paired'
  BY <1>1, <1>4, <1>7, LineShift
<1>9. RefusalsFollow'
  <2>1. ~Refusing'
    BY <1>1, <1>4 DEF Refusing
  <2>2. PeerRefuses' = PeerRefuses
    BY <1>1 DEF PeerRefuses
  <2>3. \A k \in 1..Len(rejected') : ~rejected'[k].begin
    BY <1>1 DEF LineInv, RefusalsFollow
  <2>4. ASSUME NEW k \in 1..Len(back') - 1, back'[k].type = "NACK", ~back'[k + 1].of.begin
        PROVE  back'[k + 1].type = "NACK"
    <3>1. k + 1 \in 1..Len(back) - 1 /\ k \in 1..Len(back') /\ k + 1 \in 1..Len(back')
      BY <1>2, <1>3
    <3>2. back'[k] = back[k + 1] /\ back'[k + 1] = back[k + 1 + 1]
      BY <1>3, <3>1
    <3> QED
      BY <2>4, <3>1, <3>2 DEF LineInv, RefusalsFollow
  <2>5. back' # <<>> => back'[Len(back')] = back[Len(back)]
    <3>1. back' # <<>> => Len(back') # 0
      BY <1>1, LineTypes
    <3> QED
      BY <1>2, <1>3, <3>1
  <2>6. back' # <<>> /\ back'[Len(back')].type = "NACK" => PeerRefuses'
    BY <1>1, <2>2, <2>5 DEF LineInv, RefusalsFollow
  <2> QED
    BY <2>1, <2>3, <2>4, <2>6 DEF RefusalsFollow
<1> QED
  BY <1>4, <1>5, <1>6, <1>8, <1>9 DEF LineInv

\* What follows a REFUSE in the line of answers.
LEMMA AfterNack ==
  ASSUME TypeInv, LineInv, back # <<>>, back[1].type = "NACK", back' = Tail(back),
         UNCHANGED <<inseg, reject>>,
         \A k \in 1..Len(rejected') : ~rejected'[k].begin
  PROVE  RefusalsFollow'
<1>1. /\ Len(back) \in Nat /\ Len(back) >= 1 /\ Len(back') = Len(back) - 1
      /\ \A k \in 1..Len(back') : back'[k] = back[k + 1]
  BY LineTypes, TailPlaces
<1>2. PeerRefuses' = PeerRefuses
  BY DEF PeerRefuses
<1>3. back' # <<>> => Len(back') # 0
  BY LineTypes
<1>4. ASSUME NEW k \in 1..Len(back') - 1, back'[k].type = "NACK", ~back'[k + 1].of.begin
      PROVE  back'[k + 1].type = "NACK"
  <2>1. k + 1 \in 1..Len(back) - 1 /\ k \in 1..Len(back') /\ k + 1 \in 1..Len(back')
    BY <1>1
  <2>2. back'[k] = back[k + 1] /\ back'[k + 1] = back[k + 1 + 1]
    BY <1>1, <2>1
  <2> QED
    BY <1>4, <2>1, <2>2 DEF LineInv, RefusalsFollow
<1>5. back' # <<>> => back'[Len(back')] = back[Len(back)]
  BY <1>1, <1>3
<1>6. back' # <<>> /\ back'[Len(back')].type = "NACK" => PeerRefuses'
  BY <1>2, <1>5 DEF LineInv, RefusalsFollow
<1>7. ASSUME back' # <<>>, ~back'[1].of.begin
      PROVE  back'[1].type = "NACK"
  <2>1. 1 \in 1..Len(back) - 1 /\ 1 \in 1..Len(back') /\ back'[1] = back[1 + 1]
    BY <1>1, <1>3, <1>7
  <2> QED
    BY <1>7, <2>1 DEF LineInv, RefusalsFollow
<1>8. ASSUME back' = <<>>
      PROVE  PeerRefuses'
  <2>1. Len(back') = 0
    <3>1. Len(<<>>) = 0
      OBVIOUS
    <3> QED
      BY <1>8, <3>1, Zenon
  <2>2. Len(back) = 1
    <3>1. Len(back') = Len(back) - 1 /\ Len(back) \in Nat
      BY <1>1
    <3>2. Len(back) - 1 = 0 /\ Len(back) \in Nat
      BY <2>1, <3>1, Zenon
    <3> HIDE <1>8
    <3> QED
      BY <3>2
  <2> QED
    BY <1>2, <2>2 DEF LineInv, RefusalsFollow
<1> QED
  BY <1>4, <1>6, <1>7, <1>8 DEF RefusalsFollow

\* A REFUSE meets a segment that was moved aside.
LEMMA LineNackAgain ==
  ASSUME TypeInv, LineInv, HandleNackAgain
  PROVE  LineInv'
<1>1. /\ back # <<>> /\ Head(back).type = "NACK" /\ rejected # <<>>
      /\ back' = Tail(back) /\ rejected' = Tail(rejected)
      /\ UNCHANGED <<wire, inseg, reject, spc, seg, segments>>
  BY DEF HandleNackAgain, senderVars, sharedVars, peerVars
<1>2. back[1].type = "NACK"
  BY <1>1, LineTypes, TailPlaces
<1>3. Paired'
  BY <1>1, LineShift
<1>4. \A k \in 1..Len(rejected') : ~rejected'[k].begin
  <2>1. /\ Len(rejected) \in Nat /\ Len(rejected') = Len(rejected) - 1
        /\ \A k \in 1..Len(rejected) - 1 : rejected'[k] = rejected[k + 1]
    BY <1>1, LineTypes, TailPlaces
  <2>2. ASSUME NEW k \in 1..Len(rejected')
        PROVE  k + 1 \in 1..Len(rejected) /\ rejected'[k] = rejected[k + 1]
    BY <2>1
  <2> QED
    BY <2>2 DEF LineInv, RefusalsFollow
<1>5. RefusalsFollow'
  BY <1>1, <1>2, <1>4, AfterNack
<1> QED
  BY <1>3, <1>5 DEF LineInv

\* The first REFUSE of a transfer meets the oldest segment.
LEMMA LineNack ==
  ASSUME AckSupport, TypeInv, LineInv, HandleNack
  PROVE  LineInv'
<1>1. /\ back # <<>> /\ Head(back).type = "NACK" /\ rejected = <<>>
      /\ back' = Tail(back) /\ rejected' = rejected
      /\ UNCHANGED <<wire, inseg, reject, spc, seg>>
  BY DEF HandleNack, senderVars, peerVars
<1>2. back[1].type = "NACK"
  BY <1>1, LineTypes, TailPlaces
<1>3. segments # <<>>
  <2>1. KeptLen >= 1
    BY <1>1, FirstAnswer
  <2> QED
    BY <1>1, <2>1 DEF KeptLen
<1>4. segments' = Tail(segments)
  BY <1>3 DEF HandleNack
<1>5. Paired'
  BY <1>1, <1>4, LineShift
<1>6. \A k \in 1..Len(rejected') : ~rejected'[k].begin
  BY <1>1
<1>7. RefusalsFollow'
  BY <1>1, <1>2, <1>6, AfterNack
<1> QED
  BY <1>5, <1>7 DEF LineInv

\* The rest of a refused transfer is moved aside.
LEMMA LineDrain ==
  ASSUME TypeInv, LineInv, DrainSegment
  PROVE  LineInv'
<1>1. /\ rpc = "drain" /\ UNCHANGED <<wire, back, inseg, reject, spc, seg>>
  BY DEF DrainSegment, senderVars, linkVars, peerVars
<1>2. CASE segments = <<>> \/ Head(segments).begin
  <2>1. UNCHANGED <<rejected, segments>> /\ rpc' = "refuse"
    BY <1>2 DEF DrainSegment
  <2> QED
    BY <1>1, <2>1, LineQuiet
<1>3. CASE segments # <<>> /\ ~Head(segments).begin
  <2> DEFINE e == Head(segments)
  <2>1. rejected' = Append(rejected, e) /\ segments' = Tail(segments)
    BY <1>3 DEF DrainSegment
  <2>2. /\ Len(segments) \in Nat /\ Len(segments) >= 1 /\ e = segments[1] /\ e \in Segment
        /\ Len(segments') = Len(segments) - 1
        /\ \A k \in 1..Len(segments) - 1 : segments'[k] = segments[k + 1]
    BY <1>3, <2>1, LineTypes, TailPlaces
  <2>3. /\ Len(rejected) \in Nat /\ Len(rejected') = Len(rejected) + 1
        /\ \A k \in 1..Len(rejected) : rejected'[k] = rejected[k]
        /\ rejected'[Len(rejected) + 1] = e
    BY <2>1, <2>2, LineTypes, AppendPlaces
  <2>4. ~e.begin
    BY <1>3
  <2> HIDE DEF e
  <2>5. KeptLen' = KeptLen
    BY <2>2, <2>3 DEF KeptLen
  <2>6. ASSUME NEW k \in 1..KeptLen
        PROVE  Kept(k)' = Kept(k)
    <3>1. CASE k <= Len(rejected)
      BY <2>3, <3>1 DEF Kept
    <3>2. CASE k = Len(rejected) + 1
      <4>1. Kept(k)' = e
        BY <2>3, <3>2 DEF Kept
      <4>2. k - Len(rejected) = 1 /\ ~(k <= Len(rejected))
        BY <2>3, <3>2
      <4> QED
        BY <2>2, <4>1, <4>2 DEF Kept
    <3>3. CASE k > Len(rejected) + 1
      <4>1. /\ k - Len(rejected') \in 1..Len(segments) - 1
            /\ k - Len(rejected') + 1 = k - Len(rejected)
            /\ ~(k <= Len(rejected)) /\ ~(k <= Len(rejected'))
        BY <2>2, <2>3, <2>5, <3>3 DEF KeptLen
      <4> QED
        BY <2>2, <4>1 DEF Kept
    <3>4. k <= Len(rejected) \/ k = Len(rejected) + 1 \/ k > Len(rejected) + 1
      BY <2>3, FlightParts
    <3> QED
      BY <3>1, <3>2, <3>3, <3>4
  <2>7. FlightLen' = FlightLen /\ \A k : Flight(k)' = Flight(k)
    BY <1>1 DEF FlightLen, Flight, Reading, Writing
  <2>8. Paired'
    BY <2>5, <2>6, <2>7 DEF LineInv, Paired
  <2>9. \A k \in 1..Len(rejected') : ~rejected'[k].begin
    <3>1. \A k \in 1..Len(rejected') : k \in 1..Len(rejected) \/ k = Len(rejected) + 1
      BY <2>3
    <3> QED
      BY <2>3, <2>4, <3>1 DEF LineInv, RefusalsFollow
  <2>10. Refusing
    BY <1>1 DEF Refusing
  <2>11. RefusalsFollow'
    BY <1>1, <2>9, <2>10 DEF LineInv, RefusalsFollow, PeerRefuses
  <2> QED
    BY <2>8, <2>11 DEF LineInv
<1> QED
  BY <1>2, <1>3

\* The peer reads a segment: it refuses it at once or answers it later.
LEMMA LineReceive ==
  ASSUME AckSupport, NackSupport \/ nacked' = {}, up, TypeInv, LineInv,
         instate = "IDLE" => inseg = NoSegment,
         ReceiveSegment
  PROVE  LineInv'
<1> DEFINE s == Head(wire)
<1>1. /\ instate = "IDLE" /\ wire # <<>> /\ wire' = Tail(wire) /\ inseg = NoSegment
      /\ UNCHANGED <<rejected, segments, rpc, spc, seg>>
      /\ reject' = (reject /\ ~s.begin)
  BY DEF ReceiveSegment, senderVars, readerVars, sharedVars
<1>2. /\ Len(wire) >= 1 /\ s = wire[1] /\ s \in Segment /\ Len(wire') = Len(wire) - 1
      /\ \A k \in 1..Len(wire') : wire'[k] = wire[k + 1]
  BY <1>1, LineTypes, TailPlaces
<1>3. Reading = 0 /\ Writing' = Writing /\ PeerRefuses = reject /\ s # NoSegment
      /\ s.begin \in BOOLEAN
  BY <1>1, <1>2, SegmentIsSome DEF Reading, Writing, PeerRefuses
<1>4. KeptLen' = KeptLen /\ KeptLen = FlightLen /\ \A k : Kept(k)' = Kept(k)
  BY <1>1 DEF KeptLen, Kept, LineInv, Paired
<1>5. CASE reject /\ ~s.begin
  <2> DEFINE a == [type |-> "NACK", of |-> s]
  <2>1. s.b \in nacked'
    BY <1>5 DEF ReceiveSegment
  <2>2. back' = Append(back, a)
    BY <1>5, <2>1 DEF ReceiveSegment, Answer
  <2>3. inseg' = inseg /\ Reading' = 0
    BY <1>1, <1>5 DEF ReceiveSegment, Reading
  <2>a. a \in [type : {"ACK", "NACK"}, of : Segment] /\ a.type = "NACK" /\ a.of = s
    BY <1>2
  <2> HIDE DEF a, s
  <2>4. /\ Len(back') = Len(back) + 1 /\ \A k \in 1..Len(back) : back'[k] = back[k]
        /\ back'[Len(back) + 1] = a
    BY <2>2, <2>a, LineTypes, AppendPlaces
  <2>5. FlightLen' = FlightLen
    BY <1>2, <1>3, <2>3, <2>4, FlightParts DEF FlightLen
  <2>6. ASSUME NEW k \in 1..KeptLen
        PROVE  Flight(k)' = Flight(k)
    <3>1. CASE k <= Len(back)
      <4>1. k \in 1..Len(back) /\ k <= Len(back')
        BY <2>4, <3>1, FlightParts
      <4> QED
        BY <2>4, <3>1, <4>1 DEF Flight
    <3>2. CASE k = Len(back) + 1
      <4>1. k <= Len(back') /\ ~(k <= Len(back)) /\ ~(k <= Len(back) + Reading)
            /\ k <= Len(back) + Reading + Len(wire) /\ k - Len(back) - Reading = 1
        BY <1>2, <1>3, <2>4, <3>2, FlightParts
      <4> QED
        BY <1>2, <2>4, <2>a, <3>2, <4>1 DEF Flight
    <3>3. CASE k > Len(back) + 1
      <4>1. /\ ~(k <= Len(back')) /\ ~(k <= Len(back)) /\ ~(k <= Len(back) + Reading)
            /\ ~(k <= Len(back') + Reading') 
            /\ k <= Len(back) + Reading + Len(wire) <=> k <= Len(back') + Reading' + Len(wire')
        BY <1>2, <1>3, <2>3, <2>4, <3>3, FlightParts
      <4>2. CASE k <= Len(back) + Reading + Len(wire)
        <5>1. /\ k - Len(back') - Reading' \in 1..Len(wire')
              /\ k - Len(back') - Reading' + 1 = k - Len(back) - Reading
          BY <1>2, <1>3, <2>3, <2>4, <3>3, <4>2, FlightParts
        <5> QED
          BY <1>2, <4>1, <4>2, <5>1 DEF Flight
      <4>3. CASE ~(k <= Len(back) + Reading + Len(wire))
        BY <1>1, <4>1, <4>3 DEF Flight
      <4> QED
        BY <4>2, <4>3
    <3>4. k <= Len(back) \/ k = Len(back) + 1 \/ k > Len(back) + 1
      BY FlightParts
    <3> QED
      BY <3>1, <3>2, <3>3, <3>4
  <2>7. Paired'
    BY <1>4, <2>5, <2>6 DEF LineInv, Paired
  <2>8. PeerRefuses' /\ Refusing' = Refusing /\ back' # <<>>
    <3>1. reject' = TRUE
      BY <1>1, <1>5
    <3>2. Len(back') # 0
      BY <2>4, FlightParts
    <3>3. back' # <<>>
      BY <3>2
    <3> QED
      BY <1>1, <2>3, <3>1, <3>3 DEF PeerRefuses, Refusing
  <2>9. ASSUME NEW k \in 1..Len(back') - 1, back'[k].type = "NACK", ~back'[k + 1].of.begin
        PROVE  back'[k + 1].type = "NACK"
    <3>1. CASE k = Len(back)
      BY <2>4, <2>a, <3>1
    <3>2. CASE k # Len(back)
      <4>1. k \in 1..Len(back) - 1 /\ k \in 1..Len(back) /\ k + 1 \in 1..Len(back)
        BY <2>4, <3>2, FlightParts
      <4> QED
        BY <2>4, <2>9, <4>1 DEF LineInv, RefusalsFollow
    <3> QED
      BY <3>1, <3>2
  <2>10. ASSUME Refusing', ~back'[1].of.begin
         PROVE  back'[1].type = "NACK"
    <3>1. CASE back = <<>>
      BY <2>4, <2>a, <3>1
    <3>2. CASE back # <<>>
      <4>1. 1 \in 1..Len(back) /\ back'[1] = back[1]
        BY <2>4, <3>2, FlightParts
      <4> QED
        BY <2>8, <2>10, <3>2, <4>1 DEF LineInv, RefusalsFollow
    <3> QED
      BY <3>1, <3>2
  <2>11. RefusalsFollow'
    BY <1>1, <2>8, <2>9, <2>10 DEF LineInv, RefusalsFollow
  <2> QED
    BY <2>7, <2>11 DEF LineInv
<1>6. CASE ~(reject /\ ~s.begin)
  <2>1. back' = back /\ inseg' = s
    BY <1>6 DEF ReceiveSegment
  <2>2. Reading' = 1
    BY <1>3, <2>1 DEF Reading
  <2> HIDE DEF s
  <2>5. FlightLen' = FlightLen
    BY <1>2, <1>3, <2>1, <2>2, FlightParts DEF FlightLen
  <2>6. ASSUME NEW k \in 1..KeptLen
        PROVE  Flight(k)' = Flight(k)
    <3>1. CASE k <= Len(back)
      BY <2>1, <3>1 DEF Flight
    <3>2. CASE k = Len(back) + 1
      <4>1. ~(k <= Len(back)) /\ ~(k <= Len(back) + Reading) /\ k <= Len(back) + Reading'
            /\ k <= Len(back) + Reading + Len(wire) /\ k - Len(back) - Reading = 1
        BY <1>2, <1>3, <2>2, <3>2, FlightParts
      <4> QED
        BY <1>2, <2>1, <4>1 DEF Flight
    <3>3. CASE k > Len(back) + 1
      <4>1. /\ ~(k <= Len(back)) /\ ~(k <= Len(back) + Reading) /\ ~(k <= Len(back) + Reading')
            /\ k <= Len(back) + Reading + Len(wire) <=> k <= Len(back) + Reading' + Len(wire')
        BY <1>2, <1>3, <2>2, <3>3, FlightParts
      <4>2. CASE k <= Len(back) + Reading + Len(wire)
        <5>1. /\ k - Len(back) - Reading' \in 1..Len(wire')
              /\ k - Len(back) - Reading' + 1 = k - Len(back) - Reading
          BY <1>2, <1>3, <2>2, <3>3, <4>2, FlightParts
        <5> QED
          BY <1>2, <2>1, <4>1, <4>2, <5>1 DEF Flight
      <4>3. CASE ~(k <= Len(back) + Reading + Len(wire))
        BY <1>1, <2>1, <4>1, <4>3 DEF Flight
      <4> QED
        BY <4>2, <4>3
    <3>4. k <= Len(back) \/ k = Len(back) + 1 \/ k > Len(back) + 1
      BY FlightParts
    <3> QED
      BY <3>1, <3>2, <3>3, <3>4
  <2>7. Paired'
    BY <1>4, <2>5, <2>6 DEF LineInv, Paired
  <2>8. (PeerRefuses => PeerRefuses') /\ Refusing' = Refusing
    BY <1>1, <1>3, <1>6, <2>1 DEF PeerRefuses, Refusing
  <2>9. RefusalsFollow'
    BY <1>1, <2>1, <2>8 DEF LineInv, RefusalsFollow
  <2> QED
    BY <2>7, <2>9 DEF LineInv
<1> QED
  BY <1>5, <1>6

\* The peer answers the segment it has read: by the transfer it belongs to.
LEMMA LineAnswer ==
  ASSUME AckSupport, NackSupport \/ ~reject, up, TypeInv, LineInv, AnswerSegment
  PROVE  LineInv'
<1> DEFINE a == [type |-> IF reject THEN "NACK" ELSE "ACK", of |-> inseg]
<1>1. /\ instate = "DATA_TRANSFER" /\ inseg' = NoSegment
      /\ UNCHANGED <<rejected, segments, rpc, spc, seg, wire, reject>>
  BY DEF AnswerSegment, senderVars, readerVars, sharedVars
<1>2. back' = Append(back, a)
  BY DEF AnswerSegment, Answer
<1>3. /\ inseg \in Segment /\ inseg # NoSegment /\ Reading = 1 /\ Reading' = 0
      /\ Writing' = Writing /\ PeerRefuses = inseg.begin /\ PeerRefuses' = reject
  BY <1>1, LineTypes, SegmentIsSome DEF Reading, Writing, PeerRefuses
<1>a. /\ a \in [type : {"ACK", "NACK"}, of : Segment] /\ a.of = inseg
      /\ (a.type = "NACK" => reject)
  BY <1>3
<1> HIDE DEF a
<1>4. /\ Len(back') = Len(back) + 1 /\ \A k \in 1..Len(back) : back'[k] = back[k]
      /\ back'[Len(back) + 1] = a
  BY <1>2, <1>a, LineTypes, AppendPlaces
<1>5. /\ KeptLen' = KeptLen /\ KeptLen = FlightLen /\ \A k : Kept(k)' = Kept(k)
      /\ FlightLen' = FlightLen
  BY <1>1, <1>3, <1>4, FlightParts DEF KeptLen, Kept, LineInv, Paired, FlightLen
<1>6. ASSUME NEW k \in 1..KeptLen
      PROVE  Flight(k)' = Flight(k)
  <2>1. CASE k <= Len(back)
    <3>1. k \in 1..Len(back) /\ k <= Len(back')
      BY <1>4, <2>1, FlightParts
    <3> QED
      BY <1>4, <2>1, <3>1 DEF Flight
  <2>2. CASE k = Len(back) + 1
    <3>1. k <= Len(back') /\ ~(k <= Len(back)) /\ k <= Len(back) + Reading
      BY <1>3, <1>4, <2>2, FlightParts
    <3> QED
      BY <1>4, <1>a, <2>2, <3>1 DEF Flight
  <2>3. CASE k > Len(back) + 1
    <3>1. /\ ~(k <= Len(back')) /\ ~(k <= Len(back)) /\ ~(k <= Len(back) + Reading)
          /\ ~(k <= Len(back') + Reading')
          /\ k <= Len(back) + Reading + Len(wire) <=> k <= Len(back') + Reading' + Len(wire')
          /\ k - Len(back') - Reading' = k - Len(back) - Reading
      BY <1>1, <1>3, <1>4, <2>3, FlightParts
    <3> QED
      BY <1>1, <3>1 DEF Flight
  <2>4. k <= Len(back) \/ k = Len(back) + 1 \/ k > Len(back) + 1
    BY FlightParts
  <2> QED
    BY <2>1, <2>2, <2>3, <2>4
<1>7. Paired'
  BY <1>5, <1>6 DEF LineInv, Paired
<1>8. Refusing' = Refusing /\ back' # <<>> /\ back'[Len(back')] = a
  <2>1. Len(back') # 0
    BY <1>4, FlightParts
  <2>2. back' # <<>>
    BY <2>1
  <2> QED
    BY <1>1, <1>4, <2>2 DEF Refusing
<1>9. ASSUME NEW k \in 1..Len(back') - 1, back'[k].type = "NACK", ~back'[k + 1].of.begin
      PROVE  back'[k + 1].type = "NACK"
  <2>1. CASE k = Len(back)
    <3>1. k \in 1..Len(back) /\ back # <<>> /\ back[Len(back)].type = "NACK"
      BY <1>4, <1>9, <2>1, FlightParts
    <3>2. inseg.begin
      BY <1>3, <3>1 DEF LineInv, RefusalsFollow
    <3> QED
      BY <1>4, <1>9, <1>a, <2>1, <3>2
  <2>2. CASE k # Len(back)
    <3>1. k \in 1..Len(back) - 1 /\ k \in 1..Len(back) /\ k + 1 \in 1..Len(back)
      BY <1>4, <2>2, FlightParts
    <3> QED
      BY <1>4, <1>9, <3>1 DEF LineInv, RefusalsFollow
  <2> QED
    BY <2>1, <2>2
<1>10. ASSUME Refusing', ~back'[1].of.begin
       PROVE  back'[1].type = "NACK"
  <2>1. CASE back = <<>>
    <3>1. back'[1] = a /\ inseg.begin
      BY <1>3, <1>4, <1>8, <1>10, <2>1 DEF LineInv, RefusalsFollow
    <3> QED
      BY <1>10, <1>a, <3>1
  <2>2. CASE back # <<>>
    <3>1. 1 \in 1..Len(back) /\ back'[1] = back[1]
      BY <1>4, <2>2, FlightParts
    <3> QED
      BY <1>8, <1>10, <2>2, <3>1 DEF LineInv, RefusalsFollow
  <2> QED
    BY <2>1, <2>2
<1>11. RefusalsFollow'
  BY <1>1, <1>3, <1>8, <1>9, <1>10, <1>a DEF LineInv, RefusalsFollow
<1> QED
  BY <1>7, <1>11 DEF LineInv

\* The line holds as long as the link does; without REFUSE segments only until
\* the peer rejects something.
AnswersInv ==
  /\ instate = "IDLE" => inseg = NoSegment
  /\ reject => nacked # {}
  /\ up /\ (NackSupport \/ nacked = {}) => LineInv

LEMMA AnswersInit == Init => AnswersInv
  BY LineInit DEF Init, AnswersInv

\* No step puts the answers and the segments out of step.
LEMMA AnswersStep ==
  ASSUME AckSupport
  PROVE  TypeInv /\ KeptInv /\ AnswersInv /\ [Next]_vars => AnswersInv'
<1> SUFFICES ASSUME TypeInv, KeptInv, AnswersInv, [Next]_vars
             PROVE  AnswersInv'
  OBVIOUS
<1> DEFINE PeerStays == UNCHANGED <<up, instate, inseg, reject, nacked>>
           Holds == up /\ (NackSupport \/ nacked = {})
<1>p. ASSUME PeerStays, LineInv => LineInv'
      PROVE  AnswersInv'
  BY <1>p DEF AnswersInv
<1>q. ASSUME PeerStays, UNCHANGED <<rejected, segments, wire, back>>,
             rpc' = "drain" => rpc = "drain",
             \/ spc = "write" /\ spc' = "write" /\ seg' = seg
             \/ spc # "write" /\ spc' # "write"
      PROVE  AnswersInv'
  <2>1. LineInv => LineInv'
    BY <1>q, LineQuiet
  <2> QED
    BY <1>p, <1>q, <2>1
<1>1. ASSUME NEW b \in Bundles, QueueBundle(b)
      PROVE  AnswersInv'
  BY <1>1, <1>q DEF QueueBundle, readerVars, sharedVars, linkVars, peerVars
<1>2. CASE NextTransfer
  BY <1>2, <1>q DEF NextTransfer, readerVars, sharedVars, linkVars, peerVars
<1>3. CASE ReadBundle
  BY <1>3, <1>q DEF ReadBundle, readerVars, linkVars, peerVars
<1>4. CASE StreamWentBad
  BY <1>4, <1>q DEF StreamWentBad, readerVars, linkVars, peerVars
<1>5. CASE BundleDeleted
  BY <1>5, <1>q DEF BundleDeleted, readerVars, sharedVars, linkVars, peerVars
<1>6. CASE MarkSegment
  BY <1>6, <1>q DEF MarkSegment, readerVars, linkVars, peerVars
<1>7. CASE SkipSegment
  BY <1>7, <1>q DEF SkipSegment, SegmentDone, readerVars, sharedVars, linkVars, peerVars
<1>8. CASE CheckSkip
  BY <1>8, <1>q DEF CheckSkip, readerVars, sharedVars, linkVars, peerVars
<1>9. CASE PushSegment
  <2>1. LineInv => LineInv'
    BY <1>9, LinePush
  <2> QED
    BY <1>9, <1>p, <2>1 DEF PushSegment, linkVars, peerVars
<1>10. CASE WriteSegment
  <2>1. LineInv => LineInv'
    BY <1>10, LineWrite
  <2> QED
    BY <1>10, <1>p, <2>1 DEF WriteSegment, peerVars
<1>11. CASE WriteFails
  BY <1>11 DEF WriteFails, linkVars, peerVars, AnswersInv
<1>12. CASE SenderExits
  BY <1>12, <1>q DEF SenderExits, readerVars, sharedVars, linkVars, peerVars
<1>13. CASE StartSender
  BY <1>13, <1>q DEF StartSender, sharedVars, linkVars, peerVars, KeptInv
<1>14. CASE HandleAck
  <2>1. LineInv => LineInv'
    BY <1>14, LineAck
  <2> QED
    BY <1>14, <1>p, <2>1 DEF HandleAck, peerVars
<1>15. CASE HandleNackAgain
  <2>1. LineInv => LineInv'
    BY <1>15, LineNackAgain
  <2> QED
    BY <1>15, <1>p, <2>1 DEF HandleNackAgain, peerVars
<1>16. CASE HandleNack
  <2>1. LineInv => LineInv'
    BY <1>16, LineNack
  <2> QED
    BY <1>16, <1>p, <2>1 DEF HandleNack, peerVars
<1>17. CASE DrainSegment
  <2>1. LineInv => LineInv'
    BY <1>17, LineDrain
  <2> QED
    BY <1>17, <1>p, <2>1 DEF DrainSegment, linkVars, peerVars
<1>18. CASE RaiseRefused
  BY <1>18, <1>q DEF RaiseRefused, senderVars, linkVars, peerVars
<1>19. CASE CheckEmpty
  BY <1>19, <1>q DEF CheckEmpty, senderVars, sharedVars, linkVars, peerVars
<1>20. CASE SetSkip
  BY <1>20, <1>q DEF SetSkip, senderVars, linkVars, peerVars
<1>21. CASE ReadFails
  BY <1>21, <1>q DEF ReadFails, senderVars, sharedVars, linkVars, peerVars
<1>22. CASE ConnectionDown
  BY <1>22, <1>q DEF ConnectionDown, senderVars, sharedVars, linkVars, peerVars
<1>23. CASE ClearQueued
  BY <1>23, <1>q DEF ClearQueued, sharedVars, linkVars, peerVars
<1>24. CASE ClearSent
  BY <1>24, <1>q DEF ClearSent, senderVars, linkVars, peerVars
<1>25. CASE ReceiveSegment
  <2>1. (instate = "IDLE" => inseg = NoSegment)'
    BY <1>25 DEF ReceiveSegment, AnswersInv
  <2>2. (reject => nacked # {})'
    BY <1>25 DEF ReceiveSegment
  <2>3. up' = up /\ (nacked' = {} => nacked = {})
    BY <1>25 DEF ReceiveSegment
  <2>4. ASSUME up', NackSupport \/ nacked' = {}
        PROVE  LineInv'
    <3>1. LineInv /\ up
      BY <2>3, <2>4 DEF AnswersInv
    <3> QED
      BY <1>25, <2>4, <3>1, LineReceive DEF AnswersInv
  <2> QED
    BY <2>1, <2>2, <2>4 DEF AnswersInv
<1>26. CASE DeliverBundle
  BY <1>26, <1>q DEF DeliverBundle, senderVars, readerVars, sharedVars, linkVars
<1>27. CASE RejectTransmission
  <2>1. /\ instate = "DATA_TRANSFER" /\ instate' = instate /\ inseg' = inseg
        /\ UNCHANGED <<rejected, segments, wire, back, rpc, spc, seg, up>>
        /\ got # <<>> /\ nacked' = nacked \cup {got[i].b : i \in 1..Len(got)}
    BY <1>27 DEF RejectTransmission, senderVars, readerVars, sharedVars, linkVars
  <2>2. nacked' # {}
    <3>1. got \in Seq(Segment)
      BY DEF TypeInv, PeerInv, PeerTypeOK
    <3>2. 1 \in 1..Len(got)
      BY <2>1, <3>1
    <3> QED
      BY <2>1, <3>2
  <2>3. inseg # NoSegment
    BY <2>1, LineTypes, SegmentIsSome
  <2>4. ASSUME LineInv
        PROVE  LineInv'
    <3>1. Paired'
      BY <2>1, <2>4 DEF LineInv, Paired, Kept, KeptLen, Flight, FlightLen, Reading, Writing
    <3>2. RefusalsFollow'
      BY <2>1, <2>3, <2>4 DEF LineInv, RefusalsFollow, Refusing, PeerRefuses
    <3> QED
      BY <3>1, <3>2 DEF LineInv
  <2> QED
    BY <2>1, <2>2, <2>4 DEF AnswersInv
<1>28. CASE AnswerSegment
  <2>1. up' = up /\ nacked' = nacked /\ inseg' = NoSegment /\ reject' = reject
    BY <1>28 DEF AnswerSegment
  <2>2. ASSUME up', NackSupport \/ nacked' = {}
        PROVE  LineInv'
    <3>1. LineInv /\ up /\ (NackSupport \/ ~reject)
      BY <2>1, <2>2 DEF AnswersInv
    <3> QED
      BY <1>28, <3>1, LineAnswer
  <2> QED
    BY <2>1, <2>2 DEF AnswersInv
<1>29. CASE LinkDown
  BY <1>29 DEF LinkDown, peerVars, AnswersInv
<1>30. CASE CloseConnection
  BY <1>30 DEF CloseConnection, peerVars, AnswersInv
<1>31. CASE UNCHANGED vars
  BY <1>31, <1>q DEF vars, senderVars, readerVars, sharedVars, linkVars, peerVars
<1> QED
  BY <1>1, <1>2, <1>3, <1>4, <1>5, <1>6, <1>7, <1>8, <1>9, <1>10, <1>11,
     <1>12, <1>13, <1>14, <1>15, <1>16, <1>17, <1>18, <1>19, <1>20, <1>21,
     <1>22, <1>23, <1>24, <1>25, <1>26, <1>27, <1>28, <1>29, <1>30, <1>31
  DEF Next, SenderThread, ReaderThread, PeerThread

\* A pointwise equality of the two lines is one of the sequences.
LEMMA LineIsSequence ==
  ASSUME TypeInv, Paired
  PROVE  rejected \o segments =
           [k \in 1..Len(back) |-> back[k].of]
             \o (IF inseg = NoSegment THEN <<>> ELSE <<inseg>>)
             \o wire
             \o (IF spc = "write" THEN <<seg>> ELSE <<>>)
<1> DEFINE w == [k \in 1..Len(back) |-> back[k].of]
           x == IF inseg = NoSegment THEN <<>> ELSE <<inseg>>
           y == IF spc = "write" THEN <<seg>> ELSE <<>>
<1>1. /\ w \in Seq(Segment) /\ Len(w) = Len(back)
      /\ \A k \in 1..Len(back) : w[k] = back[k].of
  <2>1. Len(back) \in Nat /\ \A k \in 1..Len(back) : back[k] \in [type : {"ACK", "NACK"}, of : Segment]
    <3>1. back \in Seq([type : {"ACK", "NACK"}, of : Segment])
      BY LineTypes
    <3> QED
      BY <3>1, ElementOfSeq, LenProperties
  <2> QED
    BY <2>1
<1>2. x \in Seq(Segment) /\ Len(x) = Reading /\ (Reading = 1 => x[1] = inseg)
  BY LineTypes DEF Reading
<1>3. y \in Seq(Segment) /\ Len(y) = Writing /\ (Writing = 1 => y[1] = seg)
  BY LineTypes DEF Writing
<1> HIDE DEF w, x, y
<1> DEFINE wx == w \o x
<1>4. /\ wx \in Seq(Segment) /\ Len(wx) = Len(back) + Reading
      /\ \A j \in 1..Len(back) : wx[j] = w[j]
      /\ \A j \in Len(back)+1..Len(back)+Reading : wx[j] = x[j - Len(back)]
  <2>1. /\ wx \in Seq(Segment) /\ Len(wx) = Len(w) + Len(x)
        /\ \A j \in 1..Len(w) : wx[j] = w[j]
        /\ \A j \in Len(w)+1..Len(w)+Len(x) : wx[j] = x[j - Len(w)]
    BY <1>1, <1>2, Concatenation
  <2> HIDE DEF wx
  <2> QED
    BY <1>1, <1>2, <2>1
<1> HIDE DEF wx
<1> DEFINE wxv == wx \o wire
           n == Len(back) + Reading
<1>5. /\ wxv \in Seq(Segment) /\ Len(wxv) = n + Len(wire)
      /\ \A j \in 1..n : wxv[j] = wx[j]
      /\ \A j \in n+1..n+Len(wire) : wxv[j] = wire[j - n]
  <2>1. /\ wxv \in Seq(Segment) /\ Len(wxv) = Len(wx) + Len(wire)
        /\ \A j \in 1..Len(wx) : wxv[j] = wx[j]
        /\ \A j \in Len(wx)+1..Len(wx)+Len(wire) : wxv[j] = wire[j - Len(wx)]
    BY <1>4, LineTypes, Concatenation
  <2> HIDE DEF wxv
  <2> QED
    BY <1>4, <2>1
<1> HIDE DEF wxv
<1> DEFINE r == wxv \o y
           m == n + Len(wire)
<1>6. /\ r \in Seq(Segment) /\ Len(r) = m + Writing
      /\ \A j \in 1..m : r[j] = wxv[j]
      /\ \A j \in m+1..m+Writing : r[j] = y[j - m]
  <2>1. /\ r \in Seq(Segment) /\ Len(r) = Len(wxv) + Len(y)
        /\ \A j \in 1..Len(wxv) : r[j] = wxv[j]
        /\ \A j \in Len(wxv)+1..Len(wxv)+Len(y) : r[j] = y[j - Len(wxv)]
    BY <1>3, <1>5, Concatenation
  <2> HIDE DEF r
  <2> QED
    BY <1>3, <1>5, <2>1
<1> HIDE DEF r
<1> DEFINE l == rejected \o segments
<1>7. /\ l \in Seq(Segment) /\ Len(l) = KeptLen
      /\ \A j \in 1..Len(rejected) : l[j] = rejected[j]
      /\ \A j \in Len(rejected)+1..Len(rejected)+Len(segments) : l[j] = segments[j - Len(rejected)]
  BY LineTypes, Concatenation DEF KeptLen
<1> HIDE DEF l
<1>8. Len(r) = Len(l)
  BY <1>6, <1>7 DEF Paired, FlightLen
<1>9. ASSUME NEW k \in 1..Len(l)
      PROVE  l[k] = r[k]
  <2>1. k \in 1..KeptLen /\ Kept(k) = Flight(k) /\ k \in 1..m + Writing
    BY <1>6, <1>7, <1>8 DEF Paired
  <2>2. l[k] = Kept(k)
    <3>1. CASE k <= Len(rejected)
      BY <1>7, <2>1, <3>1, FlightParts DEF Kept
    <3>2. CASE ~(k <= Len(rejected))
      <4>1. k \in Len(rejected)+1..Len(rejected)+Len(segments)
        BY <2>1, <3>2, FlightParts DEF KeptLen
      <4> QED
        BY <1>7, <3>2, <4>1 DEF Kept
    <3> QED
      BY <3>1, <3>2
  <2>3. r[k] = Flight(k)
    <3>1. CASE k <= Len(back)
      <4>1. k \in 1..Len(back) /\ k \in 1..n /\ k \in 1..m
        BY <2>1, <3>1, FlightParts
      <4> QED
        BY <1>1, <1>4, <1>5, <1>6, <3>1, <4>1 DEF Flight
    <3>2. CASE ~(k <= Len(back)) /\ k <= n
      <4>1. /\ k \in Len(back)+1..Len(back)+Reading /\ k \in 1..n /\ k \in 1..m
            /\ k - Len(back) = 1 /\ Reading = 1
        BY <2>1, <3>2, FlightParts
      <4> QED
        BY <1>2, <1>4, <1>5, <1>6, <3>2, <4>1 DEF Flight
    <3>3. CASE ~(k <= n) /\ k <= m
      <4>1. /\ k \in n+1..n+Len(wire) /\ k \in 1..m /\ ~(k <= Len(back))
            /\ k - n = k - Len(back) - Reading
        BY <2>1, <3>3, FlightParts
      <4> QED
        BY <1>5, <1>6, <3>3, <4>1 DEF Flight
    <3>4. CASE ~(k <= m)
      <4>0. /\ Len(back) \in Nat /\ Reading \in Nat /\ Len(wire) \in Nat
            /\ Writing \in {0, 1} /\ k \in Nat /\ n \in Nat /\ m \in Nat
        BY FlightParts
      <4>1. Writing = 1 /\ k = m + 1
        BY <2>1, <3>4, <4>0
      <4>2. k \in m+1..m+Writing /\ k - m = 1
        BY <4>0, <4>1
      <4>3. ~(k <= n) /\ ~(k <= Len(back))
        BY <4>0, <4>1
      <4> QED
        BY <1>3, <1>6, <3>4, <4>1, <4>2, <4>3 DEF Flight
    <3> QED
      BY <3>1, <3>2, <3>3, <3>4
  <2> QED
    BY <2>1, <2>2, <2>3
<1>10. l = r
  BY <1>6, <1>7, <1>8, <1>9, SeqEqual
<1> QED
  BY <1>10 DEF l, r, wxv, wx, w, x, y

\* On a connection that acknowledges and refuses, every ACK and every REFUSE
\* meets the segment it answers, although the answers carry no number: for any
\* number of bundles and segments, wherever a refusal falls between the
\* Sender's test of STREAM_SKIP, its push and its write.
THEOREM AnswersMeet ==
  ASSUME AckSupport, NackSupport
  PROVE  Spec => []AnswersMeetSegments
<1>1. TypeInv /\ AnswersInv => AnswersMeetSegments
  BY LineIsSequence DEF AnswersInv, LineInv, AnswersMeetSegments
<1>2. Spec => [](TypeInv /\ KeptInv /\ AnswersInv)
  BY TypeInit, TypeStep, KeptInit, KeptStep, AnswersInit, AnswersStep, PTL DEF Spec
<1> QED
  BY <1>1, <1>2, PTL

-----------------------------------------------------------------------------
(* No bundle is completed that has not arrived.                            *)

\* What is in two places of a queue counts twice.
LEMMA CountTwice ==
  ASSUME NEW A, NEW s \in Seq(A), NEW S,
         NEW i \in 1..Len(s), NEW j \in 1..Len(s), i # j, s[i] \in S, s[j] \in S
  PROVE  Count(s, S) >= 2
<1> DEFINE P == {k \in 1..Len(s) : s[k] \in S}
<1>1. IsFiniteSet(P) /\ Count(s, S) = Cardinality(P)
  BY CountType DEF Count
<1>2. {i, j} \subseteq P
  OBVIOUS
<1> HIDE DEF P
<1>3. IsFiniteSet({i}) /\ Cardinality({i}) = 1
  BY FS_Singleton
<1>4. {i, j} = {i} \cup {j} /\ j \notin {i}
  OBVIOUS
<1>5. IsFiniteSet({i, j}) /\ Cardinality({i, j}) = 2
  <2>1. IsFiniteSet({i} \cup {j}) /\ Cardinality({i} \cup {j}) = Cardinality({i}) + 1
    BY <1>3, <1>4, FS_AddElement
  <2> QED
    BY SMTT(30), <1>3, <1>4, <2>1
<1> QED
  BY <1>1, <1>2, <1>5, FS_Subset, FS_CardinalityType

\* Where a bundle can be: in the queue, taken from it, in the sent queue, or
\* completed.
InGet(b) == IF spc = "get" /\ cur = b THEN 1 ELSE 0
OneCompleted(b) == IF b \in completed THEN 1 ELSE 0
Places(b) == Count(queue, {b}) + Count(sentqueue, {b}) + InGet(b) + OneCompleted(b)

\* A bundle is in one place, and nowhere before it is handed to the connection.
PlaceInv == \A b \in Bundles : Places(b) <= IF b \in handed THEN 1 ELSE 0

\* The places are counted by numbers.
LEMMA PlaceTypes ==
  ASSUME TypeInv, NEW b
  PROVE  /\ queue \in Seq(Bundles) /\ sentqueue \in Seq(Bundles)
         /\ Count(queue, {b}) \in Nat /\ Count(sentqueue, {b}) \in Nat
         /\ InGet(b) \in Nat /\ OneCompleted(b) \in Nat
         /\ (spc \in {"get", "mark", "check", "push", "write"} => cur \in Bundles)
<1>1. queue \in Seq(Bundles) /\ sentqueue \in Seq(Bundles)
  BY DEF TypeInv, SenderInv, SenderTypeOK, SharedTypeOK
<1>2. Count(queue, {b}) \in Nat /\ Count(sentqueue, {b}) \in Nat
  BY <1>1, CountType
<1>3. InGet(b) \in Nat /\ OneCompleted(b) \in Nat
  BY DEF InGet, OneCompleted
<1> QED
  BY <1>1, <1>2, <1>3 DEF TypeInv, SenderInv

LEMMA PlaceInit == Init => PlaceInv
<1> SUFFICES ASSUME Init, NEW b \in Bundles
             PROVE  Places(b) <= IF b \in handed THEN 1 ELSE 0
  BY DEF PlaceInv
<1>1. Count(queue, {b}) = 0 /\ Count(sentqueue, {b}) = 0
  BY CountEmpty DEF Init
<1>2. InGet(b) = 0 /\ OneCompleted(b) = 0
  BY DEF Init, InGet, OneCompleted
<1> QED
  BY <1>1, <1>2 DEF Init, Places

\* A step that puts a bundle nowhere new.
LEMMA PlaceQuiet ==
  ASSUME TypeInv, PlaceInv, UNCHANGED <<queue, sentqueue, completed, handed>>,
         spc' = "get" => spc = "get" /\ cur' = cur
  PROVE  PlaceInv'
<1> SUFFICES ASSUME NEW b \in Bundles
             PROVE  (Places(b) <= IF b \in handed THEN 1 ELSE 0)'
  BY DEF PlaceInv
<1>1. InGet(b)' <= InGet(b) /\ InGet(b)' \in Nat
  BY DEF InGet
<1>2. OneCompleted(b)' = OneCompleted(b)
  BY DEF OneCompleted
<1>3. Places(b) <= IF b \in handed THEN 1 ELSE 0
  BY DEF PlaceInv
<1> QED
  BY <1>1, <1>2, <1>3, PlaceTypes DEF Places

\* The oldest bundle of the sent queue is completed, refused or requeued.
LEMMA PlaceSettled ==
  ASSUME TypeInv, PlaceInv, sentqueue # <<>>, sentqueue' = Tail(sentqueue),
         UNCHANGED <<queue, handed>>, spc' = "get" => spc = "get" /\ cur' = cur,
         \/ completed' = completed
         \/ completed' = completed \cup {Head(sentqueue)}
  PROVE  PlaceInv'
<1> SUFFICES ASSUME NEW b \in Bundles
             PROVE  (Places(b) <= IF b \in handed THEN 1 ELSE 0)'
  BY DEF PlaceInv
<1> DEFINE n == Count(sentqueue, {b})
           m == Count(sentqueue', {b})
           k == Count(queue, {b})
           o == IF Head(sentqueue) \in {b} THEN 1 ELSE 0
           h == IF b \in handed THEN 1 ELSE 0
           g == InGet(b)
           g1 == InGet(b)'
           c == OneCompleted(b)
           c1 == OneCompleted(b)'
<1>1. n = m + o /\ m \in Nat
  <2>1. sentqueue \in Seq(Bundles) /\ sentqueue # <<>>
    BY PlaceTypes
  <2>2. /\ Tail(sentqueue) \in Seq(Bundles)
        /\ Count(sentqueue, {b}) = Count(Tail(sentqueue), {b}) + o
    BY <2>1, CountTail
  <2>3. sentqueue' \in Seq(Bundles) /\ n = m + o
    BY <2>2
  <2> QED
    BY <2>3, CountType
<1>2. g1 <= g /\ g1 \in Nat
  BY DEF InGet
<1>3. c1 <= c + o /\ c1 \in Nat /\ o \in Nat /\ h \in Nat
  BY DEF OneCompleted
<1>4. k + n + g + c <= h
  BY DEF PlaceInv, Places
<1>5. k \in Nat /\ n \in Nat /\ g \in Nat /\ c \in Nat
  BY PlaceTypes
<1>6. Places(b)' = k + m + g1 + c1 /\ (IF b \in handed' THEN 1 ELSE 0) = h
  BY DEF Places
<1> HIDE DEF n, m, o, k, h, g, g1, c, c1
<1>7. k + m + g1 + c1 <= h
  BY <1>1, <1>2, <1>3, <1>4, <1>5
<1> QED
  BY <1>6, <1>7

\* The bundle that was taken from the queue goes into the sent queue.
LEMMA PlaceSent ==
  ASSUME TypeInv, PlaceInv, spc = "get", spc' # "get", sentqueue' = Append(sentqueue, cur),
         UNCHANGED <<queue, handed, completed>>
  PROVE  PlaceInv'
<1> SUFFICES ASSUME NEW b \in Bundles
             PROVE  (Places(b) <= IF b \in handed THEN 1 ELSE 0)'
  BY DEF PlaceInv
<1> DEFINE n == Count(sentqueue, {b})
           m == Count(sentqueue', {b})
           k == Count(queue, {b})
           o == IF cur \in {b} THEN 1 ELSE 0
           h == IF b \in handed THEN 1 ELSE 0
           g == InGet(b)
           c == OneCompleted(b)
<1>1. m = n + o /\ n \in Nat
  BY PlaceTypes, CountAppend
<1>2. InGet(b)' = 0 /\ g = o /\ o \in Nat
  BY DEF InGet
<1>3. OneCompleted(b)' = c
  BY DEF OneCompleted
<1>4. k + n + g + c <= h
  BY DEF PlaceInv, Places
<1>5. k \in Nat /\ c \in Nat /\ h \in Nat
  BY PlaceTypes
<1>6. Places(b)' = k + m + 0 + c /\ (IF b \in handed' THEN 1 ELSE 0) = h
  BY <1>2, <1>3 DEF Places
<1> HIDE DEF n, m, o, k, h, g, c
<1>7. k + m + 0 + c <= h
  BY <1>1, <1>2, <1>4, <1>5
<1> QED
  BY <1>6, <1>7

\* The oldest bundle of the queue leaves it.
LEMMA PlaceTaken ==
  ASSUME TypeInv, PlaceInv, queue # <<>>, queue' = Tail(queue),
         \/ spc' # "get"
         \/ spc' = "get" /\ cur' = Head(queue)
         \/ spc' = spc /\ cur' = cur,
         UNCHANGED <<sentqueue, handed, completed>>
  PROVE  PlaceInv'
<1> SUFFICES ASSUME NEW b \in Bundles
             PROVE  (Places(b) <= IF b \in handed THEN 1 ELSE 0)'
  BY DEF PlaceInv
<1> DEFINE n == Count(queue, {b})
           m == Count(queue', {b})
           k == Count(sentqueue, {b})
           o == IF Head(queue) \in {b} THEN 1 ELSE 0
           h == IF b \in handed THEN 1 ELSE 0
           g == InGet(b)
           g1 == InGet(b)'
           c == OneCompleted(b)
<1>1. n = m + o /\ m \in Nat
  <2>1. queue \in Seq(Bundles)
    BY PlaceTypes
  <2>2. Tail(queue) \in Seq(Bundles) /\ n = Count(Tail(queue), {b}) + o
    BY <2>1, CountTail
  <2>3. queue' \in Seq(Bundles) /\ n = m + o
    BY <2>2, Zenon
  <2> QED
    BY <2>3, CountType
<1>2. g1 <= g + o /\ g1 \in Nat /\ o \in Nat
  BY DEF InGet
<1>3. OneCompleted(b)' = c
  BY DEF OneCompleted
<1>4. n + k + g + c <= h
  BY DEF PlaceInv, Places
<1>5. k \in Nat /\ c \in Nat /\ h \in Nat /\ g \in Nat
  BY PlaceTypes
<1>6. Places(b)' = m + k + g1 + c /\ (IF b \in handed' THEN 1 ELSE 0) = h
  BY <1>3 DEF Places
<1> HIDE DEF n, m, o, k, h, g, g1, c
<1>7. m + k + g1 + c <= h
  BY <1>1, <1>2, <1>4, <1>5
<1> QED
  BY <1>6, <1>7

\* No step puts a bundle into a second place.
LEMMA PlaceStep == TypeInv /\ PlaceInv /\ [Next]_vars => PlaceInv'
<1> SUFFICES ASSUME TypeInv, PlaceInv, [Next]_vars
             PROVE  PlaceInv'
  OBVIOUS
<1>s. ASSUME UNCHANGED <<queue, handed>>, spc' = "get" => spc = "get" /\ cur' = cur,
             \/ UNCHANGED <<sentqueue, completed>>
             \/ /\ sentqueue # <<>> /\ sentqueue' = Tail(sentqueue)
                /\ \/ completed' = completed
                   \/ completed' = completed \cup {Head(sentqueue)}
      PROVE  PlaceInv'
  <2>1. CASE UNCHANGED <<sentqueue, completed>>
    BY <1>s, <2>1, PlaceQuiet
  <2>2. CASE sentqueue # <<>> /\ sentqueue' = Tail(sentqueue)
    BY <1>s, <2>2, PlaceSettled
  <2> QED
    BY <1>s, <2>1, <2>2
<1>1. ASSUME NEW c \in Bundles, QueueBundle(c)
      PROVE  PlaceInv'
  <2>1. /\ c \notin handed /\ queue' = Append(queue, c) /\ handed' = handed \cup {c}
        /\ UNCHANGED <<sentqueue, completed, spc, cur>>
    BY <1>1 DEF QueueBundle, sharedVars
  <2> SUFFICES ASSUME NEW b \in Bundles
               PROVE  (Places(b) <= IF b \in handed THEN 1 ELSE 0)'
    BY DEF PlaceInv
  <2> DEFINE n == Count(queue, {b})
             m == Count(queue', {b})
             k == Count(sentqueue, {b})
             o == IF c \in {b} THEN 1 ELSE 0
             h == IF b \in handed THEN 1 ELSE 0
             h1 == IF b \in handed' THEN 1 ELSE 0
             g == InGet(b)
             d == OneCompleted(b)
  <2>2. m = n + o /\ n \in Nat
    BY <2>1, PlaceTypes, CountAppend
  <2>3. Places(b)' = m + k + g + d
    BY <2>1 DEF InGet, OneCompleted, Places
  <2>4. n + k + g + d <= h
    BY DEF PlaceInv, Places
  <2>5. k \in Nat /\ g \in Nat /\ d \in Nat /\ h \in Nat /\ o \in Nat
    BY PlaceTypes
  <2>6. h1 = h + o
    BY <2>1
  <2> HIDE DEF n, m, o, k, h, g, d
  <2>7. m + k + g + d <= h1
    BY <2>2, <2>4, <2>5, <2>6
  <2> QED
    BY <2>3, <2>7
<1>2. CASE NextTransfer
  BY <1>2, PlaceTaken DEF NextTransfer, sharedVars, reportVars
<1>3. CASE ReadBundle
  BY <1>3, PlaceSent DEF ReadBundle, reportVars
<1>4. CASE StreamWentBad
  BY <1>4, PlaceSent DEF StreamWentBad
<1>5. CASE BundleDeleted
  BY <1>5, PlaceQuiet DEF BundleDeleted, sharedVars
<1>6. CASE MarkSegment
  BY <1>6, PlaceQuiet DEF MarkSegment, reportVars
<1>7. CASE SkipSegment
  BY <1>7, PlaceQuiet DEF SkipSegment, SegmentDone, sharedVars, reportVars
<1>8. CASE CheckSkip
  BY <1>8, PlaceQuiet DEF CheckSkip, sharedVars, reportVars
<1>9. CASE PushSegment
  BY <1>9, <1>s DEF PushSegment, EventBundleForwarded
<1>10. CASE WriteSegment
  BY <1>10, PlaceQuiet DEF WriteSegment, SegmentDone, sharedVars, reportVars
<1>11. CASE WriteFails
  BY <1>11, PlaceQuiet DEF WriteFails, sharedVars
<1>12. CASE SenderExits
  BY <1>12, PlaceQuiet DEF SenderExits, sharedVars, reportVars
<1>13. CASE StartSender
  BY <1>13, PlaceQuiet DEF StartSender, sharedVars, reportVars
<1>14. CASE HandleAck
  BY <1>14, <1>s DEF HandleAck, EventBundleForwarded, senderVars
<1>15. CASE HandleNackAgain
  BY <1>15, PlaceQuiet DEF HandleNackAgain, senderVars, sharedVars, reportVars
<1>16. CASE HandleNack
  BY <1>16, PlaceQuiet DEF HandleNack, senderVars, reportVars
<1>17. CASE DrainSegment
  BY <1>17, PlaceQuiet DEF DrainSegment, senderVars, reportVars
<1>18. CASE RaiseRefused
  BY <1>18, <1>s DEF RaiseRefused, EventBundleRefused, senderVars
<1>19. CASE CheckEmpty
  BY <1>19, PlaceQuiet DEF CheckEmpty, senderVars, sharedVars, reportVars
<1>20. CASE SetSkip
  BY <1>20, PlaceQuiet DEF SetSkip, senderVars, reportVars
<1>21. CASE ReadFails
  BY <1>21, PlaceQuiet DEF ReadFails, senderVars, sharedVars, reportVars
<1>22. CASE ConnectionDown
  BY <1>22, PlaceQuiet DEF ConnectionDown, senderVars, sharedVars, reportVars
<1>23. CASE ClearQueued
  <2>1. UNCHANGED <<sentqueue, handed, completed, spc, cur>>
    BY <1>23 DEF ClearQueued, sharedVars
  <2>2. CASE queue = <<>>
    BY <1>23, <2>1, <2>2, PlaceQuiet DEF ClearQueued
  <2>3. CASE queue # <<>>
    BY <1>23, <2>1, <2>3, PlaceTaken DEF ClearQueued
  <2> QED
    BY <2>2, <2>3
<1>24. CASE ClearSent
  BY <1>24, <1>s DEF ClearSent, senderVars
<1>25. CASE ReceiveSegment
  BY <1>25, PlaceQuiet DEF ReceiveSegment, senderVars, sharedVars, reportVars
<1>26. CASE DeliverBundle
  BY <1>26, PlaceQuiet DEF DeliverBundle, senderVars, sharedVars, reportVars
<1>27. CASE RejectTransmission
  BY <1>27, PlaceQuiet DEF RejectTransmission, senderVars, sharedVars, reportVars
<1>28. CASE AnswerSegment
  BY <1>28, PlaceQuiet DEF AnswerSegment, senderVars, sharedVars, reportVars
<1>29. CASE LinkDown
  BY <1>29, PlaceQuiet DEF LinkDown, senderVars, sharedVars, reportVars
<1>30. CASE CloseConnection
  BY <1>30, PlaceQuiet DEF CloseConnection, senderVars, sharedVars, reportVars
<1>31. CASE UNCHANGED vars
  BY <1>31, PlaceQuiet DEF vars, senderVars, sharedVars, reportVars
<1> QED
  BY <1>1, <1>2, <1>3, <1>4, <1>5, <1>6, <1>7, <1>8, <1>9, <1>10, <1>11,
     <1>12, <1>13, <1>14, <1>15, <1>16, <1>17, <1>18, <1>19, <1>20, <1>21,
     <1>22, <1>23, <1>24, <1>25, <1>26, <1>27, <1>28, <1>29, <1>30, <1>31
  DEF Next, SenderThread, ReaderThread, PeerThread

\* The segment is the last of its bundle; a deserialization has its bundle.
Last(s) == s.i = SegCount[s.b]
Full(g) == g # <<>> /\ Len(g) = SegCount[g[1].b]

\* Until something is refused, the reader thread is at rest or has ended, and
\* the first segments kept are those already answered.
CleanInv ==
  /\ ~reject /\ ~skip /\ rejected = <<>>
  /\ rpc \notin {"drain", "refuse", "skipcheck", "setskip"}
  /\ \A k \in 1..Len(back) : back[k].type = "ACK"
  /\ Len(back) <= Len(segments)
  /\ \A k \in 1..Len(back) : segments[k] = back[k].of

\* Segment i of bundle b continues what follows segment s, what the
\* deserializer g has, and what was written before.
Follows(s, b, i) == IF Last(s) THEN i = 1 ELSE b = s.b /\ i = s.i + 1
Starts(g, b, i) == IF g = <<>> \/ Full(g) THEN i = 1 ELSE b = g[1].b /\ i = Len(g) + 1
Ready(b, i) == IF wire = <<>> THEN Starts(got, b, i) ELSE Follows(wire[Len(wire)], b, i)

\* What the deserializer has is the beginning of one bundle.
GotInv ==
  /\ \A k \in 1..Len(got) : got[k].b = got[1].b /\ got[k].i = k
  /\ got # <<>> => Len(got) <= SegCount[got[1].b]
  /\ instate = "IDLE" => ~Full(got)
  /\ got # <<>> /\ instate # "IDLE" => inseg = got[Len(got)]
  /\ inseg # NoSegment => (inseg.end => Last(inseg))

\* The segments in flight are the rest of it and the bundles after it.
WireInv ==
  /\ wire # <<>> => Starts(got, wire[1].b, wire[1].i)
  /\ \A k \in 1..Len(wire) - 1 : Follows(wire[k], wire[k + 1].b, wire[k + 1].i)
  /\ \A k \in 1..Len(wire) : wire[k].i <= SegCount[wire[k].b] /\ (wire[k].end => Last(wire[k]))

\* The Sender thread continues them.
ReadyInv ==
  /\ spc # "done" => Ready(cur, pos)
  /\ spc \in {"new", "idle", "get"} => pos = 1
  /\ spc \in {"mark", "check", "push", "write"} => pos <= SegCount[cur]
  /\ spc \in {"check", "push", "write"} => seg.b = cur /\ seg.i = pos /\ (seg.end => IsLast)

ChainInv == GotInv /\ WireInv /\ ReadyInv

\* The connection has not come down; a transfer is in the sent queue; the
\* bundles of the sent queue whose last segment is written.
Alive == rpc \in {"handshake", "idle"}
Prog == IF cur # None /\ spc # "get" THEN 1 ELSE 0
Finished == Len(sentqueue) - Prog

\* ACK segments that complete a bundle: sent, and due for the segment that was
\* read last.
EndAnswers == {a \in [type : {"ACK", "NACK"}, of : Segment] : a.of.end}
Ends == Count(back, EndAnswers)
Unanswered == IF inseg.end /\ got = <<>> THEN 1 ELSE 0
GotFull == IF Full(got) THEN 1 ELSE 0

\* p[k] bundles of the sent queue have their last segment before place k of
\* the wire: the p[1] first of them have been read by the peer, at most one of
\* them not yet received, and at least as many are to be acknowledged.
Positions(p) ==
  /\ p \in [1..Len(wire) + 1 -> Nat]
  /\ \A j, k \in 1..Len(wire) + 1 : j <= k => p[j] <= p[k]
  /\ p[Len(wire) + 1] = Finished
  /\ \A k \in 1..Len(wire) : p[k + 1] = p[k] + (IF Last(wire[k]) THEN 1 ELSE 0)
  /\ \A k \in 1..Len(wire) : Last(wire[k]) => wire[k].b = sentqueue[p[k + 1]]
  /\ Ends + Unanswered + GotFull <= p[1]
  /\ \A i \in 1..p[1] - GotFull : sentqueue[i] \in received
  /\ Full(got) => got[1].b = sentqueue[p[1]]

OrderInv ==
  /\ Prog = 1 => sentqueue # <<>> /\ sentqueue[Len(sentqueue)] = cur
  /\ \E p : Positions(p)
  /\ requeued \subseteq {cur} /\ (requeued # {} => spc = "done")

FateInv ==
  /\ completed \subseteq received /\ None \notin received
  /\ Prog = 1 => cur \notin completed
  /\ completed \cap requeued = {}

CompletedInv ==
  nacked = {} => /\ CleanInv /\ ChainInv /\ FateInv
                 /\ (Alive => OrderInv)

-----------------------------------------------------------------------------
(* The chain of segments.                                                  *)

LEMMA ChainTypes ==
  ASSUME TypeInv
  PROVE  /\ wire \in Seq(Segment) /\ got \in Seq(Segment)
         /\ sentqueue \in Seq(Bundles) /\ queue \in Seq(Bundles)
         /\ pos \in Nat \ {0} /\ cur \in Bundles \cup {None}
         /\ (spc \in {"get", "mark", "check", "push", "write"} => cur \in Bundles)
         /\ (spc \in {"check", "push", "write"} => seg \in Segment)
         /\ instate \in {"IDLE", "DATA_TRANSFER"}
         /\ inseg \in Segment \cup {NoSegment}
         /\ (instate = "DATA_TRANSFER" => inseg \in Segment)
         /\ completed \subseteq Bundles /\ requeued \subseteq Bundles
         /\ received \subseteq Bundles \cup {None}
<1>1. wire \in Seq(Segment) /\ got \in Seq(Segment)
  BY DEF TypeInv, LinkTypeOK, PeerInv, PeerTypeOK
<1>2. /\ sentqueue \in Seq(Bundles) /\ queue \in Seq(Bundles)
      /\ pos \in Nat \ {0} /\ cur \in Bundles \cup {None}
      /\ (spc \in {"get", "mark", "check", "push", "write"} => cur \in Bundles)
      /\ (spc \in {"check", "push", "write"} => seg \in Segment)
  BY DEF TypeInv, SenderInv, SenderTypeOK, SharedTypeOK
<1>3. /\ instate \in {"IDLE", "DATA_TRANSFER"}
      /\ inseg \in Segment \cup {NoSegment}
      /\ (instate = "DATA_TRANSFER" => inseg \in Segment)
      /\ completed \subseteq Bundles /\ requeued \subseteq Bundles
      /\ received \subseteq Bundles \cup {None}
  BY DEF TypeInv, PeerInv, PeerTypeOK, ReportTypeOK
<1> QED
  BY <1>1, <1>2, <1>3

LEMMA SegmentParts ==
  ASSUME NEW s \in Segment
  PROVE  s.b \in Bundles /\ s.i \in Nat /\ s.i >= 1 /\ SegCount[s.b] \in Nat /\ SegCount[s.b] >= 1
  BY ConstantsAssumption DEF Segment

\* The first element of what the deserializer has.
LEMMA GotFirst ==
  ASSUME TypeInv, got # <<>>
  PROVE  /\ Len(got) \in Nat /\ Len(got) >= 1 /\ got[1] \in Segment /\ got[1].b \in Bundles
         /\ SegCount[got[1].b] \in Nat
<1>1. Len(got) \in Nat /\ Len(got) >= 1 /\ got[1] \in Segment
  BY ChainTypes, TailPlaces
<1> QED
  BY <1>1, SegmentParts

LEMMA WireLast ==
  ASSUME TypeInv, wire # <<>>
  PROVE  /\ Len(wire) \in Nat /\ Len(wire) >= 1 /\ wire[Len(wire)] \in Segment
<1>1. Len(wire) \in Nat /\ Len(wire) >= 1
  BY ChainTypes, TailPlaces
<1>2. Len(wire) \in 1..Len(wire) /\ wire \in Seq(Segment)
  BY <1>1, ChainTypes
<1> QED
  BY <1>1, <1>2, ElementOfSeq

\* Between two bundles any bundle may begin.
LEMMA ReadyAny ==
  ASSUME TypeInv, Ready(cur, 1), NEW c
  PROVE  Ready(c, 1)
<1>1. CASE wire = <<>>
  <2>1. CASE got = <<>> \/ Full(got)
    BY <1>1, <2>1 DEF Ready, Starts
  <2>2. CASE ~(got = <<>> \/ Full(got))
    <3>1. 1 = Len(got) + 1
      BY <1>1, <2>2 DEF Ready, Starts
    <3> QED
      BY <2>2, <3>1, GotFirst
  <2> QED
    BY <2>1, <2>2
<1>2. CASE wire # <<>>
  <2>1. CASE Last(wire[Len(wire)])
    BY <1>2, <2>1 DEF Ready, Follows
  <2>2. CASE ~Last(wire[Len(wire)])
    <3>1. 1 = wire[Len(wire)].i + 1
      BY <1>2, <2>2 DEF Ready, Follows
    <3>2. wire[Len(wire)].i \in Nat /\ wire[Len(wire)].i >= 1
      BY <1>2, WireLast, SegmentParts
    <3> QED
      BY <3>1, <3>2
  <2> QED
    BY <2>1, <2>2
<1> QED
  BY <1>1, <1>2

\* The steps of the Sender thread between two writes.
LEMMA ChainSender ==
  ASSUME TypeInv, ChainInv, UNCHANGED <<wire, got, instate, inseg>>,
         \/ UNCHANGED <<spc, cur, pos, seg>>
         \/ spc' = "done"
         \/ spc \in {"new", "idle", "get"} /\ spc' \in {"idle", "get"} /\ pos' = pos
         \/ spc = "get" /\ spc' = "mark" /\ pos' = 1 /\ cur' = cur
         \/ MarkSegment
         \/ spc \in {"check", "push"} /\ spc' \in {"push", "write"} /\ UNCHANGED <<cur, pos, seg>>
  PROVE  ChainInv'
<1>1. GotInv'
  BY DEF ChainInv, GotInv, Full, Last
<1>2. WireInv'
  BY DEF ChainInv, WireInv, Starts, Follows, Full, Last
<1>3. ReadyInv'
  <2>r. \A b, i : Ready(b, i)' <=> Ready(b, i)
    BY DEF Ready, Starts, Follows, Full, Last
  <2>1. CASE UNCHANGED <<spc, cur, pos, seg>>
    BY <2>1, <2>r DEF ChainInv, ReadyInv, IsLast
  <2>2. CASE spc' = "done"
    BY <2>2 DEF ReadyInv
  <2>3. CASE spc \in {"new", "idle", "get"} /\ spc' \in {"idle", "get"} /\ pos' = pos
    <3>1. pos = 1 /\ Ready(cur, 1)
      BY <2>3 DEF ChainInv, ReadyInv
    <3>2. Ready(cur', 1)
      BY <3>1, ReadyAny
    <3> QED
      BY <2>3, <2>r, <3>1, <3>2 DEF ReadyInv
  <2>4. CASE spc = "get" /\ spc' = "mark" /\ pos' = 1 /\ cur' = cur
    <3>1. pos = 1 /\ Ready(cur, 1)
      BY <2>4 DEF ChainInv, ReadyInv
    <3>2. cur \in Bundles /\ 1 <= SegCount[cur]
      BY <2>4, ChainTypes, ConstantsAssumption
    <3> QED
      BY <2>4, <2>r, <3>1, <3>2 DEF ReadyInv
  <2>5. CASE MarkSegment
    <3>1. /\ spc = "mark" /\ spc' = "check" /\ UNCHANGED <<cur, pos>>
          /\ seg'.b = cur /\ seg'.i = pos /\ (seg'.end => IsLast)
      BY <2>5 DEF MarkSegment
    <3> QED
      BY <2>r, <3>1 DEF ChainInv, ReadyInv, IsLast
  <2>6. CASE spc \in {"check", "push"} /\ spc' \in {"push", "write"} /\ UNCHANGED <<cur, pos, seg>>
    BY <2>6, <2>r DEF ChainInv, ReadyInv, IsLast
  <2> QED
    BY <2>1, <2>2, <2>3, <2>4, <2>5, <2>6
<1> QED
  BY <1>1, <1>2, <1>3 DEF ChainInv

\* A segment is written.
LEMMA ChainWrite ==
  ASSUME TypeInv, ChainInv, WriteSegment
  PROVE  ChainInv'
<1>1. /\ spc = "write" /\ wire' = Append(wire, seg) /\ UNCHANGED <<got, instate, inseg>>
      /\ IF IsLast THEN cur' = None /\ pos' = 1 /\ spc' = "idle"
                   ELSE cur' = cur /\ pos' = pos + 1 /\ spc' = "mark"
  BY DEF WriteSegment, SegmentDone, peerVars
<1>2. /\ Len(wire) \in Nat /\ Len(wire') = Len(wire) + 1
      /\ \A k \in 1..Len(wire) : wire'[k] = wire[k]
      /\ wire'[Len(wire) + 1] = seg
  BY <1>1, ChainTypes, AppendPlaces
<1>3. /\ seg.b = cur /\ seg.i = pos /\ (seg.end => IsLast) /\ Ready(cur, pos)
      /\ pos <= SegCount[cur] /\ cur \in Bundles /\ pos \in Nat /\ SegCount[cur] \in Nat
      /\ (Last(seg) <=> IsLast)
  BY <1>1, ChainTypes, ConstantsAssumption DEF ChainInv, ReadyInv, Last, IsLast
<1>4. GotInv'
  BY <1>1 DEF ChainInv, GotInv, Full, Last
<1>5. WireInv'
  <2>1. (wire # <<>> => Starts(got, wire[1].b, wire[1].i))'
    <3>1. CASE wire = <<>>
      <4>1. wire'[1] = seg
        BY <1>2, <3>1
      <4> QED
        BY <1>1, <1>3, <3>1, <4>1 DEF Ready, Starts, Full
    <3>2. CASE wire # <<>>
      <4>1. wire'[1] = wire[1]
        BY <1>2, <3>2, WireLast
      <4> QED
        BY <1>1, <3>2, <4>1 DEF ChainInv, WireInv, Starts, Full
    <3> QED
      BY <3>1, <3>2
  <2>2. ASSUME NEW k \in 1..Len(wire') - 1
        PROVE  Follows(wire'[k], wire'[k + 1].b, wire'[k + 1].i)
    <3>1. CASE k < Len(wire)
      <4>1. k \in 1..Len(wire) - 1 /\ k \in 1..Len(wire) /\ k + 1 \in 1..Len(wire)
        BY <1>2, <3>1
      <4>2. wire'[k] = wire[k] /\ wire'[k + 1] = wire[k + 1]
        BY <1>2, <4>1
      <4> QED
        BY <4>1, <4>2 DEF ChainInv, WireInv
    <3>2. CASE k = Len(wire)
      <4>1. k \in 1..Len(wire) /\ wire # <<>>
        BY <1>2, <3>2
      <4>2. wire'[k] = wire[Len(wire)] /\ wire'[k + 1] = seg
        BY <1>2, <3>2, <4>1
      <4> QED
        BY <1>3, <4>1, <4>2 DEF Ready
    <3> QED
      BY <1>2, <3>1, <3>2
  <2>3. ASSUME NEW k \in 1..Len(wire')
        PROVE  wire'[k].i <= SegCount[wire'[k].b] /\ (wire'[k].end => Last(wire'[k]))
    <3>1. CASE k \in 1..Len(wire)
      BY <1>2, <3>1 DEF ChainInv, WireInv
    <3>2. CASE k = Len(wire) + 1
      BY <1>2, <1>3, <3>2
    <3> QED
      BY <1>2, <3>1, <3>2
  <2> QED
    BY <2>1, <2>2, <2>3 DEF WireInv, Follows, Last
<1>6. ReadyInv'
  <2>1. wire' # <<>> /\ wire'[Len(wire')] = seg
    <3>1. Len(wire') # 0
      BY <1>2
    <3> QED
      BY <1>2, <3>1
  <2>2. Ready(cur, pos)'
    <3>1. Follows(seg, cur', pos')
      BY <1>1, <1>3 DEF Follows
    <3> QED
      BY <2>1, <3>1 DEF Ready, Follows, Last
  <2>3. spc' = "mark" => pos' <= SegCount[cur'] 
    BY <1>1, <1>3 DEF IsLast
  <2>4. spc' \in {"idle", "mark"} /\ (spc' = "idle" => pos' = 1)
    BY <1>1
  <2> QED
    BY <2>2, <2>3, <2>4 DEF ReadyInv
<1> QED
  BY <1>4, <1>5, <1>6 DEF ChainInv

\* A segment is read.
LEMMA ChainReceive ==
  ASSUME TypeInv, ChainInv, ReceiveSegment, ~reject
  PROVE  /\ ChainInv'
         /\ Full(got') <=> Last(wire[1])
         /\ got' # <<>> /\ ~Full(got) /\ got'[1].b = wire[1].b
<1> DEFINE s == Head(wire)
<1>1. /\ instate = "IDLE" /\ instate' = "DATA_TRANSFER" /\ inseg' = s
      /\ wire # <<>> /\ wire' = Tail(wire) /\ got' = Append(got, s)
      /\ UNCHANGED <<spc, cur, pos, seg>>
  BY DEF ReceiveSegment, senderVars
<1>2. /\ Len(wire) \in Nat /\ Len(wire) >= 1 /\ s = wire[1] /\ s \in Segment
      /\ Len(wire') = Len(wire) - 1
      /\ \A k \in 1..Len(wire) - 1 : wire'[k] = wire[k + 1]
  BY <1>1, ChainTypes, TailPlaces
<1>3. /\ Len(got) \in Nat /\ Len(got') = Len(got) + 1
      /\ \A k \in 1..Len(got) : got'[k] = got[k]
      /\ got'[Len(got) + 1] = s
  BY <1>1, <1>2, ChainTypes, AppendPlaces
<1>4. /\ s.b \in Bundles /\ s.i \in Nat /\ SegCount[s.b] \in Nat
      /\ s.i <= SegCount[s.b] /\ (s.end => Last(s)) /\ Starts(got, s.b, s.i) /\ ~Full(got)
  <2>1. 1 \in 1..Len(wire)
    BY <1>2
  <2> QED
    BY <1>1, <1>2, <2>1, SegmentParts DEF ChainInv, WireInv, GotInv
<1> HIDE DEF s
<1>5. /\ s.i = Len(got) + 1 /\ (got # <<>> => s.b = got[1].b)
  <2>1. CASE got = <<>>
    <3>1. Len(got) = 0
      BY <2>1
    <3> QED
      BY <1>4, <2>1, <3>1 DEF Starts
  <2>2. CASE got # <<>>
    BY <1>4, <2>2 DEF Starts
  <2> QED
    BY <2>1, <2>2
<1>6. got'[1].b = s.b /\ got' # <<>>
  <2>0. Len(got') # 0
    BY <1>3
  <2>1. CASE got = <<>>
    <3>1. got'[1] = s
      BY <1>3, <2>1
    <3> QED
      BY <2>0, <3>1
  <2>2. CASE got # <<>>
    <3>1. got'[1] = got[1]
      BY <1>3, <2>2, GotFirst
    <3> QED
      BY <1>5, <2>0, <2>2, <3>1
  <2> QED
    BY <2>1, <2>2
<1>7. Full(got') <=> Last(s)
  BY <1>3, <1>5, <1>6 DEF Full, Last
<1>8. GotInv'
  <2>1. ASSUME NEW k \in 1..Len(got')
        PROVE  got'[k].b = got'[1].b /\ got'[k].i = k
    <3>1. CASE k \in 1..Len(got)
      <4>1. got # <<>> /\ got'[k] = got[k] /\ got[k].b = got[1].b /\ got[k].i = k
        BY <1>3, <3>1 DEF ChainInv, GotInv
      <4> QED
        BY <1>5, <1>6, <4>1
    <3>2. CASE k = Len(got) + 1
      BY <1>3, <1>5, <1>6, <3>2
    <3> QED
      BY <1>3, <3>1, <3>2
  <2>2. Len(got') <= SegCount[got'[1].b]
    BY <1>3, <1>4, <1>5, <1>6
  <2>3. inseg' = got'[Len(got')] /\ (inseg'.end => Last(inseg'))
    BY <1>1, <1>3, <1>4
  <2> QED
    BY <1>1, <2>1, <2>2, <2>3 DEF GotInv, Last
<1>9. ASSUME NEW b, NEW i, Follows(s, b, i)
      PROVE  Starts(got', b, i)
  BY <1>3, <1>5, <1>6, <1>7, <1>9 DEF Follows, Starts
<1>10. WireInv'
  <2>1. (wire # <<>> => Starts(got, wire[1].b, wire[1].i))'
    <3> SUFFICES ASSUME wire' # <<>>
                 PROVE  Starts(got', wire'[1].b, wire'[1].i)
      BY DEF Starts, Full
    <3>1. Len(wire') # 0
      BY <1>1, ChainTypes
    <3>2. 1 \in 1..Len(wire) - 1 /\ wire'[1] = wire[1 + 1]
      BY <1>2, <3>1
    <3>3. Follows(s, wire'[1].b, wire'[1].i)
      BY <1>2, <3>2 DEF ChainInv, WireInv
    <3> QED
      BY <3>3, <1>9
  <2>2. ASSUME NEW k \in 1..Len(wire') - 1
        PROVE  Follows(wire'[k], wire'[k + 1].b, wire'[k + 1].i)
    <3>1. k + 1 \in 1..Len(wire) - 1 /\ k \in 1..Len(wire) - 1
      BY <1>2
    <3>2. wire'[k] = wire[k + 1] /\ wire'[k + 1] = wire[k + 1 + 1]
      BY <1>2, <3>1
    <3> QED
      BY <3>1, <3>2 DEF ChainInv, WireInv
  <2>3. ASSUME NEW k \in 1..Len(wire')
        PROVE  wire'[k].i <= SegCount[wire'[k].b] /\ (wire'[k].end => Last(wire'[k]))
    <3>1. k + 1 \in 1..Len(wire) /\ wire'[k] = wire[k + 1]
      BY <1>2
    <3> QED
      BY <3>1 DEF ChainInv, WireInv
  <2> QED
    BY <2>1, <2>2, <2>3 DEF WireInv, Follows, Last
<1>11. ReadyInv'
  <2>1. spc # "done" => Ready(cur, pos)'
    <3> SUFFICES ASSUME spc # "done"
                 PROVE  Ready(cur, pos)'
      OBVIOUS
    <3>1. Follows(wire[Len(wire)], cur, pos)
      BY <1>1 DEF ChainInv, ReadyInv, Ready
    <3>2. CASE wire' = <<>>
      <4>1. Len(wire') = 0
        <5>1. Len(<<>>) = 0
          OBVIOUS
        <5> QED
          BY <3>2, <5>1, Zenon
      <4>2. wire[Len(wire)] = s
        <5>1. Len(wire) = 1
          <6>1. Len(wire) - 1 = 0 /\ Len(wire) \in Nat
            BY <1>2, <4>1, Zenon
          <6> QED
            BY <6>1
        <5> QED
          BY <1>2, <5>1
      <4>3. Starts(got', cur, pos)
        BY <1>9, <3>1, <4>2
      <4> QED
        BY <1>1, <3>2, <4>3 DEF Ready, Starts, Full
    <3>3. CASE wire' # <<>>
      <4>1. Len(wire') # 0
        BY <1>1, <3>3, ChainTypes
      <4>2. wire'[Len(wire')] = wire[Len(wire)]
        BY <1>2, <4>1
      <4> QED
        BY <1>1, <3>1, <3>3, <4>2 DEF Ready, Follows, Last
    <3> QED
      BY <3>2, <3>3
  <2> QED
    BY <1>1, <2>1 DEF ChainInv, ReadyInv, IsLast
<1> QED
  BY <1>2, <1>4, <1>6, <1>7, <1>8, <1>10, <1>11 DEF ChainInv

\* The bundle is complete.
LEMMA ChainDeliver ==
  ASSUME TypeInv, ChainInv, DeliverBundle
  PROVE  ChainInv' /\ Intact /\ Full(got)
<1>1. /\ instate = "DATA_TRANSFER" /\ instate' = instate /\ inseg' = inseg
      /\ Full(got) /\ got' = <<>> /\ UNCHANGED <<wire, spc, cur, pos, seg>>
  BY DEF DeliverBundle, Deserialized, Full, senderVars, linkVars
<1>2. \A b, i : Starts(got, b, i) => Starts(got', b, i)
  BY <1>1 DEF Starts
<1>3. GotInv'
  <2>1. Len(got') = 0 /\ \A k \in 1..Len(got') : FALSE
    BY <1>1
  <2> QED
    BY <1>1, <2>1 DEF ChainInv, GotInv, Last, Full
<1>4. WireInv'
  <2>1. (wire # <<>> => Starts(got, wire[1].b, wire[1].i))'
    BY <1>1, <1>2 DEF ChainInv, WireInv, Starts, Full
  <2> QED
    BY <1>1, <2>1 DEF ChainInv, WireInv, Follows, Last
<1>5. ReadyInv'
  <2>1. \A b, i : Ready(b, i) => Ready(b, i)'
    BY <1>1, <1>2 DEF Ready, Starts, Full, Follows, Last
  <2> QED
    BY <1>1, <2>1 DEF ChainInv, ReadyInv, IsLast
<1>6. Intact
  BY DEF ChainInv, GotInv, Intact
<1> QED
  BY <1>1, <1>3, <1>4, <1>5, <1>6 DEF ChainInv

\* The segment that was read is answered.
LEMMA ChainAnswer ==
  ASSUME TypeInv, ChainInv, AnswerSegment
  PROVE  ChainInv' /\ ~Full(got) /\ (inseg.end => got = <<>>)
<1>1. /\ instate = "DATA_TRANSFER" /\ instate' = "IDLE" /\ inseg' = NoSegment
      /\ ~Full(got) /\ UNCHANGED <<got, wire, spc, cur, pos, seg>>
  BY DEF AnswerSegment, Deserialized, Full, senderVars
<1>2. GotInv'
  BY <1>1 DEF ChainInv, GotInv, Full, Last
<1>3. WireInv'
  BY <1>1 DEF ChainInv, WireInv, Starts, Follows, Full, Last
<1>4. ReadyInv'
  <2>1. \A b, i : Ready(b, i)' <=> Ready(b, i)
    BY <1>1 DEF Ready, Starts, Follows, Full, Last
  <2> QED
    BY <1>1, <2>1 DEF ChainInv, ReadyInv, IsLast
<1>5. ASSUME inseg.end, got # <<>>
      PROVE  FALSE
  <2>1. inseg \in Segment /\ inseg # NoSegment
    BY <1>1, ChainTypes, SegmentIsSome
  <2>2. Last(inseg) /\ inseg = got[Len(got)]
    BY <1>1, <1>5, <2>1 DEF ChainInv, GotInv
  <2>3. Len(got) \in 1..Len(got)
    BY <1>5, GotFirst
  <2>4. got[Len(got)].b = got[1].b /\ got[Len(got)].i = Len(got)
    BY <2>3 DEF ChainInv, GotInv
  <2> QED
    BY <1>1, <1>5, <2>2, <2>4 DEF Full, Last
<1> QED
  BY <1>1, <1>2, <1>3, <1>4, <1>5 DEF ChainInv

-----------------------------------------------------------------------------
(* The answers before a refusal.                                           *)

\* Neither queue of segments nor an answer moves.
LEMMA CleanQuiet ==
  ASSUME CleanInv, UNCHANGED <<reject, rejected, segments, back>>, ~skip',
         rpc' \notin {"drain", "refuse", "skipcheck", "setskip"}
  PROVE  CleanInv'
  BY DEF CleanInv

\* A segment is remembered.
LEMMA CleanPush ==
  ASSUME AckSupport, TypeInv, CleanInv, PushSegment
  PROVE  CleanInv'
<1>1. /\ spc = "push" /\ segments' = Append(segments, seg)
      /\ UNCHANGED <<rejected, back, reject, rpc, skip>>
  BY DEF PushSegment, readerVars, linkVars, peerVars
<1>2. /\ Len(back) \in Nat /\ Len(segments') = Len(segments) + 1 /\ Len(segments) \in Nat
      /\ \A k \in 1..Len(segments) : segments'[k] = segments[k]
  BY <1>1, LineTypes, AppendPlaces
<1>3. Len(back') <= Len(segments')
  BY <1>1, <1>2 DEF CleanInv
<1>4. ASSUME NEW k \in 1..Len(back')
      PROVE  segments'[k] = back'[k].of
  <2>1. k \in 1..Len(back) /\ k \in 1..Len(segments)
    BY <1>1, <1>2 DEF CleanInv
  <2> QED
    BY <1>1, <1>2, <2>1 DEF CleanInv
<1> QED
  BY <1>1, <1>3, <1>4 DEF CleanInv

\* An ACK and the segment it answers leave.
LEMMA CleanAck ==
  ASSUME TypeInv, CleanInv, HandleAck
  PROVE  /\ CleanInv' /\ segments # <<>> /\ segments[1] = back[1].of
         /\ back # <<>> /\ back' = Tail(back)
<1>1. /\ back # <<>> /\ back' = Tail(back) /\ UNCHANGED <<rejected, reject, rpc, skip>>
  BY DEF HandleAck, readerVars, peerVars
<1>2. /\ Len(back) \in Nat /\ Len(back) >= 1 /\ Len(back') = Len(back) - 1
      /\ \A k \in 1..Len(back) - 1 : back'[k] = back[k + 1]
  BY <1>1, LineTypes, TailPlaces
<1>3. Len(segments) >= 1 /\ Len(segments) \in Nat /\ segments # <<>>
  BY <1>2, LineTypes DEF CleanInv
<1>4. segments' = Tail(segments)
  BY <1>3 DEF HandleAck
<1>5. /\ Len(segments') = Len(segments) - 1
      /\ \A k \in 1..Len(segments) - 1 : segments'[k] = segments[k + 1]
  BY <1>3, <1>4, LineTypes, TailPlaces
<1>6. ASSUME NEW k \in 1..Len(back')
      PROVE  segments'[k] = back'[k].of /\ back'[k].type = "ACK"
  <2>1. k + 1 \in 1..Len(back) /\ k \in 1..Len(back) - 1 /\ k \in 1..Len(segments) - 1
    BY <1>2, <1>3 DEF CleanInv
  <2> QED
    BY <1>2, <1>5, <2>1 DEF CleanInv
<1>7. Len(back') <= Len(segments')
  BY <1>2, <1>3, <1>5 DEF CleanInv
<1>8. segments[1] = back[1].of
  <2>1. 1 \in 1..Len(back)
    BY <1>2
  <2> QED
    BY <2>1 DEF CleanInv
<1> QED
  BY <1>1, <1>3, <1>6, <1>7, <1>8 DEF CleanInv

\* The peer acknowledges the next segment that is kept, unless the link is down.
LEMMA CleanAnswer ==
  ASSUME AckSupport, TypeInv, CleanInv, up => LineInv, AnswerSegment
  PROVE  /\ CleanInv'
         /\ \/ back' = back
            \/ back' = Append(back, [type |-> "ACK", of |-> inseg]) /\ inseg \in Segment
<1>1. /\ instate = "DATA_TRANSFER" /\ Answer("ACK", inseg)
      /\ UNCHANGED <<rejected, segments, reject, rpc, skip, up>>
  BY DEF AnswerSegment, CleanInv, readerVars, sharedVars
<1>2. inseg \in Segment /\ inseg # NoSegment
  BY <1>1, LineTypes, SegmentIsSome
<1>3. CASE ~up
  <2>1. back' = back
    BY <1>1, <1>3 DEF Answer
  <2>2. CleanInv'
    BY <1>1, <2>1 DEF CleanInv
  <2> QED
    BY <2>1, <2>2
<1>4. CASE up
  <2> DEFINE a == [type |-> "ACK", of |-> inseg]
  <2>1. back' = Append(back, a)
    BY <1>1, <1>4 DEF Answer
  <2>2. a \in [type : {"ACK", "NACK"}, of : Segment] /\ a.type = "ACK" /\ a.of = inseg
    BY <1>2
  <2> HIDE DEF a
  <2>3. /\ Len(back) \in Nat /\ Len(back') = Len(back) + 1
        /\ \A k \in 1..Len(back) : back'[k] = back[k]
        /\ back'[Len(back) + 1] = a
    BY <2>1, <2>2, LineTypes, AppendPlaces
  <2>4. Len(rejected) = 0
    BY DEF CleanInv
  <2>5. Reading = 1
    BY <1>2 DEF Reading
  <2>6. KeptLen = Len(segments) /\ KeptLen >= Len(back) + 1
    BY <1>4, <2>4, <2>5, FlightParts DEF LineInv, Paired, KeptLen, FlightLen
  <2>7. segments[Len(back) + 1] = inseg
    <3> DEFINE k == Len(back) + 1
    <3>1. k \in 1..KeptLen /\ ~(k <= Len(rejected)) /\ ~(k <= Len(back)) /\ k <= Len(back) + Reading
          /\ k - Len(rejected) = k
      BY <2>3, <2>4, <2>5, <2>6, FlightParts
    <3>2. Kept(k) = segments[k]
      BY <3>1 DEF Kept
    <3>3. Flight(k) = inseg
      BY <3>1 DEF Flight
    <3>4. Kept(k) = Flight(k)
      <4> HIDE DEF k
      <4> QED
        BY <1>4, <3>1 DEF LineInv, Paired
    <3> QED
      BY <3>2, <3>3, <3>4
  <2>8. ASSUME NEW k \in 1..Len(back')
        PROVE  segments'[k] = back'[k].of /\ back'[k].type = "ACK"
    <3>1. CASE k \in 1..Len(back)
      BY <1>1, <2>3, <3>1 DEF CleanInv
    <3>2. CASE k = Len(back) + 1
      BY <1>1, <2>2, <2>3, <2>7, <3>2
    <3> QED
      BY <2>3, <3>1, <3>2
  <2>9. Len(back') <= Len(segments')
    BY <1>1, <2>3, <2>6
  <2>10. CleanInv'
    BY <1>1, <2>8, <2>9 DEF CleanInv
  <2> QED
    BY <1>2, <2>1, <2>10 DEF a
<1> QED
  BY <1>3, <1>4

-----------------------------------------------------------------------------
(* The order of the bundles.                                               *)

\* The numbers that OrderInv compares.
LEMMA OrderTypes ==
  ASSUME TypeInv
  PROVE  /\ back \in Seq([type : {"ACK", "NACK"}, of : Segment])
         /\ Ends \in Nat /\ Unanswered \in {0, 1} /\ GotFull \in {0, 1} /\ Prog \in {0, 1}
         /\ Len(sentqueue) \in Nat /\ Len(wire) \in Nat
<1>1. back \in Seq([type : {"ACK", "NACK"}, of : Segment])
  BY LineTypes
<1>2. Ends \in Nat
  BY <1>1, CountType DEF Ends
<1>3. Unanswered \in {0, 1} /\ GotFull \in {0, 1} /\ Prog \in {0, 1}
  BY DEF Unanswered, GotFull, Prog
<1> QED
  BY <1>1, <1>2, <1>3, ChainTypes, LenProperties

\* What bounds the positions.
LEMMA PositionRange ==
  ASSUME TypeInv, NEW p, Positions(p), NEW k \in 1..Len(wire) + 1
  PROVE  /\ p[k] \in Nat /\ p[1] \in Nat /\ p[1] <= p[k] /\ p[k] <= Finished
         /\ Finished \in Nat /\ Finished <= Len(sentqueue)
<1>1. Len(wire) \in Nat /\ Len(sentqueue) \in Nat /\ Prog \in {0, 1}
  BY OrderTypes
<1>2. 1 \in 1..Len(wire) + 1 /\ Len(wire) + 1 \in 1..Len(wire) + 1
  BY <1>1
<1>3. p[k] \in Nat /\ p[1] \in Nat /\ p[Len(wire) + 1] \in Nat
  BY <1>2 DEF Positions
<1>4. p[1] <= p[k] /\ p[k] <= p[Len(wire) + 1]
  BY <1>1, <1>2 DEF Positions
<1>5. p[Len(wire) + 1] = Finished
  BY DEF Positions
<1> QED
  BY <1>1, <1>3, <1>4, <1>5 DEF Finished

\* Nothing moves but the end of the sent queue.
LEMMA OrderQuiet ==
  ASSUME TypeInv, OrderInv, UNCHANGED <<back, inseg, got, wire, received>>,
         Prog' = 1 => sentqueue' # <<>> /\ sentqueue'[Len(sentqueue')] = cur',
         Finished' = Finished, \A i \in 1..Finished : sentqueue'[i] = sentqueue[i],
         requeued' \subseteq {cur'} /\ (requeued' # {} => spc' = "done")
  PROVE  OrderInv'
<1>1. PICK p : Positions(p)
  BY DEF OrderInv
<1>2. Ends' = Ends /\ Unanswered' = Unanswered /\ GotFull' = GotFull
  BY DEF Ends, Unanswered, GotFull, Full
<1>3. ASSUME NEW k \in 1..Len(wire), Last(wire[k])
      PROVE  sentqueue'[p[k + 1]] = sentqueue[p[k + 1]]
  <2>1. k \in 1..Len(wire) + 1 /\ k + 1 \in 1..Len(wire) + 1
    BY OrderTypes
  <2>2. p[k] \in Nat /\ p[k + 1] = p[k] + 1
    BY <1>1, <1>3, <2>1, PositionRange DEF Positions
  <2>3. p[k + 1] \in 1..Finished
    BY <1>1, <2>1, <2>2, PositionRange
  <2> QED
    BY <2>3
<1>4. p[1] \in Nat /\ p[1] <= Finished /\ Finished \in Nat
  <2>1. 1 \in 1..Len(wire) + 1
    BY OrderTypes
  <2> QED
    BY <1>1, <2>1, PositionRange
<1>5. \A i \in 1..p[1] - GotFull : i \in 1..Finished
  BY <1>4, OrderTypes
<1>6. ASSUME Full(got)
      PROVE  p[1] \in 1..Finished
  <2>1. GotFull = 1
    BY <1>6 DEF GotFull
  <2>2. p[1] >= 1
    BY <1>1, <1>4, <2>1, OrderTypes DEF Positions
  <2> QED
    BY <1>4, <2>2
<1>7. Positions(p)'
  <2>1. /\ p \in [1..Len(wire') + 1 -> Nat]
        /\ \A j, k \in 1..Len(wire') + 1 : j <= k => p[j] <= p[k]
        /\ p[Len(wire') + 1] = Finished'
        /\ \A k \in 1..Len(wire') : p[k + 1] = p[k] + (IF Last(wire'[k]) THEN 1 ELSE 0)
    BY <1>1 DEF Positions
  <2>2. \A k \in 1..Len(wire') : Last(wire'[k]) => wire'[k].b = sentqueue'[p[k + 1]]
    BY <1>1, <1>3 DEF Positions
  <2>3. Ends' + Unanswered' + GotFull' <= p[1]
    BY <1>1, <1>2 DEF Positions
  <2>4. \A i \in 1..p[1] - GotFull' : sentqueue'[i] \in received'
    BY <1>1, <1>2, <1>5 DEF Positions
  <2>5. Full(got') => got'[1].b = sentqueue'[p[1]]
    BY <1>1, <1>6 DEF Positions
  <2> QED
    BY <2>1, <2>2, <2>3, <2>4, <2>5 DEF Positions, Last, Full
<1> QED
  BY <1>7 DEF OrderInv

\* A segment is written; with the last one its bundle is finished.
LEMMA OrderWrite ==
  ASSUME TypeInv, ChainInv, OrderInv, WriteSegment
  PROVE  OrderInv'
<1>1. /\ spc = "write" /\ wire' = Append(wire, seg) /\ cur \in Bundles /\ seg \in Segment
      /\ UNCHANGED <<sentqueue, back, got, inseg, received, requeued>>
      /\ IF IsLast THEN cur' = None /\ spc' = "idle" ELSE cur' = cur /\ spc' = "mark"
  BY ChainTypes DEF WriteSegment, SegmentDone, peerVars, sharedVars, reportVars
<1>2. cur # None /\ Prog = 1 /\ Prog' = (IF IsLast THEN 0 ELSE 1)
  BY <1>1, ConstantsAssumption DEF Prog
<1>3. (Last(seg) <=> IsLast) /\ seg.b = cur
  BY <1>1 DEF ChainInv, ReadyInv, Last, IsLast
<1>4. /\ Len(wire) \in Nat /\ Len(wire') = Len(wire) + 1
      /\ \A k \in 1..Len(wire) : wire'[k] = wire[k]
      /\ wire'[Len(wire) + 1] = seg
  BY <1>1, ChainTypes, AppendPlaces
<1>5. PICK p : Positions(p)
  BY DEF OrderInv
<1> DEFINE e == IF Last(seg) THEN 1 ELSE 0
           n == Len(wire) + 1
<1>q. PICK q : q = [k \in 1..n + 1 |-> IF k <= n THEN p[k] ELSE Finished + e]
  OBVIOUS
<1>6. /\ Finished' = Finished + e /\ e \in Nat /\ Finished \in Nat
  <2>1. 1 \in 1..Len(wire) + 1
    BY <1>4
  <2>2. Finished \in Nat
    BY <1>5, <2>1, PositionRange
  <2>3. Finished = Len(sentqueue) - 1 /\ Len(sentqueue) \in Nat
    BY <1>2, OrderTypes DEF Finished
  <2>4. Finished' = Len(sentqueue) - Prog'
    BY <1>1 DEF Finished
  <2>5. CASE IsLast
    <3>1. Prog' = 0 /\ e = 1
      BY <1>2, <1>3, <2>5
    <3> QED
      BY <2>2, <2>3, <2>4, <3>1
  <2>6. CASE ~IsLast
    <3>1. Prog' = 1 /\ e = 0
      BY <1>2, <1>3, <2>6
    <3> QED
      BY <2>2, <2>3, <2>4, <3>1
  <2> QED
    BY <2>5, <2>6
<1>7. \A k \in 1..n : q[k] = p[k] /\ q[k] \in Nat /\ q[k] <= Finished
  BY <1>4, <1>5, <1>q, PositionRange
<1>8. q[n + 1] = Finished + e /\ q[n] = Finished /\ n \in Nat /\ n >= 1
  BY <1>4, <1>5, <1>q DEF Positions
<1>9. q \in [1..n + 1 -> Nat]
  <2>1. q = [k \in 1..n + 1 |-> q[k]]
    BY <1>q
  <2>2. \A k \in 1..n + 1 : k \in 1..n \/ k = n + 1
    BY <1>8
  <2> HIDE DEF e, n
  <2>3. \A k \in 1..n + 1 : q[k] \in Nat
    BY <1>6, <1>7, <1>8, <2>2
  <2> QED
    BY <2>1, <2>3
<1> HIDE DEF e
<1>10. Ends' = Ends /\ Unanswered' = Unanswered /\ GotFull' = GotFull
  BY <1>1 DEF Ends, Unanswered, GotFull, Full
<1>11. Positions(q)'
  <2>1. Len(wire') + 1 = n + 1 /\ 1 \in 1..n /\ q[1] = p[1]
    BY <1>4, <1>7, <1>8
  <2>2. \A j, k \in 1..n + 1 : j <= k => q[j] <= q[k]
    <3> SUFFICES ASSUME NEW j \in 1..n + 1, NEW k \in 1..n + 1, j <= k
                 PROVE  q[j] <= q[k]
      OBVIOUS
    <3>1. CASE k \in 1..n
      <4>1. j \in 1..n
        BY <1>8, <3>1
      <4> QED
        BY <1>5, <1>7, <3>1, <4>1 DEF Positions
    <3>2. CASE k = n + 1
      <4>1. j \in 1..n \/ j = n + 1
        BY <1>8
      <4> QED
        BY <1>6, <1>7, <1>8, <3>2, <4>1
    <3> QED
      BY <1>8, <3>1, <3>2
  <2>3. ASSUME NEW k \in 1..Len(wire')
        PROVE  /\ q[k + 1] = q[k] + (IF Last(wire'[k]) THEN 1 ELSE 0)
               /\ Last(wire'[k]) => wire'[k].b = sentqueue'[q[k + 1]]
    <3>1. CASE k \in 1..Len(wire)
      <4>1. k \in 1..n /\ k + 1 \in 1..n /\ wire'[k] = wire[k]
        BY <1>4, <3>1
      <4>2. q[k] = p[k] /\ q[k + 1] = p[k + 1]
        BY <1>7, <4>1
      <4>3. p[k + 1] = p[k] + (IF Last(wire[k]) THEN 1 ELSE 0)
        BY <1>5, <3>1 DEF Positions
      <4>4. Last(wire[k]) => wire[k].b = sentqueue[p[k + 1]]
        BY <1>5, <3>1 DEF Positions
      <4> QED
        BY <1>1, <4>1, <4>2, <4>3, <4>4
    <3>2. CASE k = n
      <4>1. wire'[k] = seg /\ q[k + 1] = q[k] + e
        BY <1>4, <1>8, <3>2
      <4>2. ASSUME Last(seg)
            PROVE  seg.b = sentqueue'[q[k + 1]]
        <5>1. e = 1
          BY <4>2 DEF e
        <5>2. q[k + 1] = Len(sentqueue)
          BY <1>2, <1>6, <1>8, <3>2, <5>1, OrderTypes DEF Finished
        <5> QED
          BY <1>1, <1>2, <1>3, <5>2 DEF OrderInv
      <4> QED
        BY <4>1, <4>2 DEF e
    <3> QED
      BY <1>4, <1>8, <3>1, <3>2
  <2>4. Ends' + Unanswered' + GotFull' <= q[1]
    BY <1>5, <1>10, <2>1 DEF Positions
  <2>5. \A i \in 1..q[1] - GotFull' : sentqueue'[i] \in received'
    BY <1>1, <1>5, <1>10, <2>1 DEF Positions
  <2>6. Full(got') => got'[1].b = sentqueue'[q[1]]
    BY <1>1, <1>5, <2>1 DEF Positions
  <2>7. q[Len(wire') + 1] = Finished' /\ q \in [1..Len(wire') + 1 -> Nat]
    BY <1>6, <1>8, <1>9, <2>1
  <2>8. \A j, k \in 1..Len(wire') + 1 : j <= k => q[j] <= q[k]
    BY <2>1, <2>2
  <2>9. \A k \in 1..Len(wire') : q[k + 1] = q[k] + (IF Last(wire'[k]) THEN 1 ELSE 0)
    BY <2>3
  <2>10. \A k \in 1..Len(wire') : Last(wire'[k]) => wire'[k].b = sentqueue'[q[k + 1]]
    BY <2>3
  <2> QED
    BY <2>4, <2>5, <2>6, <2>7, <2>8, <2>9, <2>10 DEF Positions, Last, Full
<1>12. Prog' = 1 => sentqueue' # <<>> /\ sentqueue'[Len(sentqueue')] = cur'
  BY <1>1, <1>2 DEF OrderInv
<1>13. requeued' \subseteq {cur'} /\ (requeued' # {} => spc' = "done")
  BY <1>1 DEF OrderInv
<1> QED
  BY <1>11, <1>12, <1>13 DEF OrderInv

\* A segment is read; with the last one its bundle has been read.
LEMMA OrderReceive ==
  ASSUME TypeInv, ChainInv, OrderInv, ReceiveSegment, ~reject, inseg = NoSegment
  PROVE  OrderInv'
<1>1. /\ wire # <<>> /\ wire' = Tail(wire) /\ back' = back
      /\ UNCHANGED <<sentqueue, received, requeued, cur, spc>>
  BY DEF ReceiveSegment, senderVars, sharedVars, reportVars
<1>2. /\ Full(got') <=> Last(wire[1])
      /\ got' # <<>> /\ ~Full(got) /\ got'[1].b = wire[1].b
  BY ChainReceive
<1>3. /\ Len(wire) \in Nat /\ Len(wire) >= 1 /\ Len(wire') = Len(wire) - 1
      /\ \A k \in 1..Len(wire) - 1 : wire'[k] = wire[k + 1]
  BY <1>1, ChainTypes, TailPlaces
<1>4. PICK p : Positions(p)
  BY DEF OrderInv
<1>5. PICK q : q = [k \in 1..Len(wire) |-> p[k + 1]]
  OBVIOUS
<1>6. /\ Ends' = Ends /\ Unanswered = 0 /\ Unanswered' = 0 /\ GotFull = 0
      /\ GotFull' = (IF Last(wire[1]) THEN 1 ELSE 0)
  BY <1>1, <1>2 DEF Ends, Unanswered, GotFull, NoSegment
<1>7. \A k \in 1..Len(wire) : q[k] = p[k + 1] /\ k + 1 \in 1..Len(wire) + 1
  BY <1>3, <1>5
<1>8. 1 \in 1..Len(wire) /\ p[1] \in Nat /\ q[1] = p[1] + GotFull'
  <2>1. 1 \in 1..Len(wire) /\ 1 \in 1..Len(wire) + 1
    BY <1>3
  <2>2. p[1] \in Nat
    BY <1>4, <2>1, PositionRange
  <2>3. p[1 + 1] = p[1] + (IF Last(wire[1]) THEN 1 ELSE 0)
    BY <1>4, <2>1 DEF Positions
  <2> QED
    BY <1>6, <1>7, <2>1, <2>2, <2>3
<1>9. Positions(q)'
  <2>1. Len(wire') + 1 = Len(wire)
    BY <1>3
  <2>2. q \in [1..Len(wire) -> Nat]
    <3>1. \A k \in 1..Len(wire) : p[k + 1] \in Nat
      BY <1>4, <1>7, PositionRange
    <3> QED
      BY <1>5, <3>1
  <2>3. \A j, k \in 1..Len(wire) : j <= k => q[j] <= q[k]
    <3> SUFFICES ASSUME NEW j \in 1..Len(wire), NEW k \in 1..Len(wire), j <= k
                 PROVE  q[j] <= q[k]
      OBVIOUS
    <3>1. j + 1 <= k + 1 /\ j + 1 \in 1..Len(wire) + 1 /\ k + 1 \in 1..Len(wire) + 1
      BY <1>3
    <3>2. p[j + 1] <= p[k + 1]
      BY <1>4, <3>1 DEF Positions
    <3> QED
      BY <1>7, <3>2
  <2>4. q[Len(wire)] = Finished'
    <3>1. Finished' = Finished
      BY <1>1 DEF Finished, Prog
    <3>2. Len(wire) \in 1..Len(wire)
      BY <1>3
    <3> QED
      BY <1>4, <1>7, <3>1, <3>2 DEF Positions
  <2>5. ASSUME NEW k \in 1..Len(wire')
        PROVE  /\ q[k + 1] = q[k] + (IF Last(wire'[k]) THEN 1 ELSE 0)
               /\ Last(wire'[k]) => wire'[k].b = sentqueue'[q[k + 1]]
    <3>1. k \in 1..Len(wire) /\ k + 1 \in 1..Len(wire) /\ wire'[k] = wire[k + 1]
      BY <1>3
    <3>2. q[k] = p[k + 1] /\ q[k + 1] = p[k + 1 + 1]
      BY <1>7, <3>1
    <3>3. p[k + 1 + 1] = p[k + 1] + (IF Last(wire[k + 1]) THEN 1 ELSE 0)
      BY <1>4, <3>1 DEF Positions
    <3>4. Last(wire[k + 1]) => wire[k + 1].b = sentqueue[p[k + 1 + 1]]
      BY <1>4, <3>1 DEF Positions
    <3> QED
      BY <1>1, <3>1, <3>2, <3>3, <3>4
  <2>6. \A k \in 1..Len(wire') : q[k + 1] = q[k] + (IF Last(wire'[k]) THEN 1 ELSE 0)
    BY <2>5
  <2>7. \A k \in 1..Len(wire') : Last(wire'[k]) => wire'[k].b = sentqueue'[q[k + 1]]
    BY <2>5
  <2>8. Ends' + Unanswered' + GotFull' <= q[1]
    <3>1. Ends + Unanswered + GotFull <= p[1]
      BY <1>4 DEF Positions
    <3>2. GotFull' \in {0, 1}
      BY <1>6
    <3> QED
      BY <1>6, <1>8, <3>1, <3>2, OrderTypes
  <2>9. \A i \in 1..q[1] - GotFull' : sentqueue'[i] \in received'
    <3>1. q[1] - GotFull' = p[1] - GotFull
      BY <1>6, <1>8
    <3>2. \A i \in 1..p[1] - GotFull : sentqueue[i] \in received
      BY <1>4 DEF Positions
    <3> QED
      BY <1>1, <3>1, <3>2
  <2>10. Full(got') => got'[1].b = sentqueue'[q[1]]
    <3>1. Last(wire[1]) => wire[1].b = sentqueue[p[1 + 1]]
      BY <1>4, <1>8 DEF Positions
    <3> QED
      BY <1>1, <1>2, <1>7, <1>8, <3>1
  <2>11. /\ q \in [1..Len(wire') + 1 -> Nat]
         /\ \A j, k \in 1..Len(wire') + 1 : j <= k => q[j] <= q[k]
         /\ q[Len(wire') + 1] = Finished'
    BY <2>1, <2>2, <2>3, <2>4
  <2> QED
    BY <2>6, <2>7, <2>8, <2>9, <2>10, <2>11 DEF Positions, Last, Full
<1>10. Prog' = 1 => sentqueue' # <<>> /\ sentqueue'[Len(sentqueue')] = cur'
  BY <1>1 DEF OrderInv, Prog
<1>11. requeued' \subseteq {cur'} /\ (requeued' # {} => spc' = "done")
  BY <1>1 DEF OrderInv
<1> QED
  BY <1>9, <1>10, <1>11 DEF OrderInv

\* A bundle that has been read is received.
LEMMA OrderDeliver ==
  ASSUME TypeInv, ChainInv, OrderInv, DeliverBundle
  PROVE  OrderInv'
<1>1. /\ Full(got) /\ got' = <<>> /\ received' = received \cup {got[1].b}
      /\ UNCHANGED <<sentqueue, wire, back, inseg, requeued, cur, spc>>
  BY ChainDeliver DEF DeliverBundle, senderVars, sharedVars, linkVars, reportVars
<1>2. PICK p : Positions(p)
  BY DEF OrderInv
<1>3. /\ Ends' = Ends /\ Unanswered' \in {0, 1} /\ GotFull = 1 /\ GotFull' = 0
  BY <1>1 DEF Ends, Unanswered, GotFull, Full
<1>4. p[1] \in Nat
  <2>1. 1 \in 1..Len(wire) + 1
    BY OrderTypes
  <2> QED
    BY <1>2, <2>1, PositionRange
<1>5. Positions(p)'
  <2>1. /\ p \in [1..Len(wire') + 1 -> Nat]
        /\ \A j, k \in 1..Len(wire') + 1 : j <= k => p[j] <= p[k]
        /\ \A k \in 1..Len(wire') : p[k + 1] = p[k] + (IF Last(wire'[k]) THEN 1 ELSE 0)
    BY <1>1, <1>2 DEF Positions
  <2>2. p[Len(wire') + 1] = Finished'
    BY <1>1, <1>2 DEF Positions, Finished, Prog
  <2>3. \A k \in 1..Len(wire') : Last(wire'[k]) => wire'[k].b = sentqueue'[p[k + 1]]
    BY <1>1, <1>2 DEF Positions
  <2>4. Ends' + Unanswered' + GotFull' <= p[1]
    <3>1. Ends + Unanswered + GotFull <= p[1]
      BY <1>2 DEF Positions
    <3> QED
      BY <1>3, <1>4, <3>1, OrderTypes
  <2>5. ASSUME NEW i \in 1..p[1] - GotFull'
        PROVE  sentqueue'[i] \in received'
    <3>1. CASE i = p[1]
      BY <1>1, <1>2, <3>1 DEF Positions
    <3>2. CASE i # p[1]
      <4>1. i \in 1..p[1] - GotFull
        BY <1>3, <1>4, <3>2
      <4> QED
        BY <1>1, <1>2, <4>1 DEF Positions
    <3> QED
      BY <3>1, <3>2
  <2>6. ~Full(got')
    BY <1>1 DEF Full
  <2> QED
    BY <2>1, <2>2, <2>3, <2>4, <2>5, <2>6 DEF Positions, Last, Full
<1>6. Prog' = 1 => sentqueue' # <<>> /\ sentqueue'[Len(sentqueue')] = cur'
  BY <1>1 DEF OrderInv, Prog
<1>7. requeued' \subseteq {cur'} /\ (requeued' # {} => spc' = "done")
  BY <1>1 DEF OrderInv
<1> QED
  BY <1>5, <1>6, <1>7 DEF OrderInv

\* The answer that was due is on its way, or lost.
LEMMA OrderAnswer ==
  ASSUME TypeInv, ChainInv, OrderInv, AnswerSegment,
         \/ back' = back
         \/ back' = Append(back, [type |-> "ACK", of |-> inseg]) /\ inseg \in Segment
  PROVE  OrderInv'
<1>1. /\ inseg' = NoSegment /\ UNCHANGED <<sentqueue, wire, got, received, requeued, cur, spc>>
  BY DEF AnswerSegment, senderVars, sharedVars, reportVars
<1>2. PICK p : Positions(p)
  BY DEF OrderInv
<1>3. Ends' <= Ends + Unanswered /\ Ends' \in Nat
  <2>1. CASE back' = back
    BY <2>1, OrderTypes DEF Ends
  <2>2. CASE back' = Append(back, [type |-> "ACK", of |-> inseg]) /\ inseg \in Segment
    <3> DEFINE a == [type |-> "ACK", of |-> inseg]
    <3>1. a \in [type : {"ACK", "NACK"}, of : Segment] /\ (a \in EndAnswers => inseg.end)
      BY <2>2 DEF EndAnswers
    <3>2. back' = Append(back, a)
      BY <2>2
    <3> HIDE DEF a
    <3>5. Ends' = Count(back', EndAnswers)
      BY DEF Ends, EndAnswers
    <3>6. Count(Append(back, a), EndAnswers) = Count(back, EndAnswers) + (IF a \in EndAnswers THEN 1 ELSE 0)
      <4> DEFINE A == [type : {"ACK", "NACK"}, of : Segment]
                 S == EndAnswers
      <4>1. a \in A /\ back \in Seq(A)
        BY <3>1, OrderTypes
      <4> HIDE DEF A, S
      <4>2. Count(Append(back, a), S) = Count(back, S) + (IF a \in S THEN 1 ELSE 0)
        BY <4>1, CountAppend
      <4> QED
        BY <4>2 DEF S
    <3>3. Ends' = Ends + (IF a \in EndAnswers THEN 1 ELSE 0)
      BY <3>2, <3>5, <3>6 DEF Ends
    <3>4. a \in EndAnswers => Unanswered = 1
      BY <3>1, ChainAnswer DEF Unanswered
    <3> QED
      BY <3>3, <3>4, OrderTypes
  <2> QED
    BY <2>1, <2>2
<1>4. Unanswered' = 0 /\ GotFull' = GotFull
  BY <1>1 DEF Unanswered, GotFull, Full, NoSegment
<1>5. p[1] \in Nat
  <2>1. 1 \in 1..Len(wire) + 1
    BY OrderTypes
  <2> QED
    BY <1>2, <2>1, PositionRange
<1>6. Positions(p)'
  <2>1. /\ p \in [1..Len(wire') + 1 -> Nat]
        /\ \A j, k \in 1..Len(wire') + 1 : j <= k => p[j] <= p[k]
        /\ \A k \in 1..Len(wire') : p[k + 1] = p[k] + (IF Last(wire'[k]) THEN 1 ELSE 0)
    BY <1>1, <1>2 DEF Positions
  <2>2. p[Len(wire') + 1] = Finished'
    BY <1>1, <1>2 DEF Positions, Finished, Prog
  <2>3. \A k \in 1..Len(wire') : Last(wire'[k]) => wire'[k].b = sentqueue'[p[k + 1]]
    BY <1>1, <1>2 DEF Positions
  <2>4. Ends' + Unanswered' + GotFull' <= p[1]
    <3>1. Ends + Unanswered + GotFull <= p[1]
      BY <1>2 DEF Positions
    <3> QED
      BY <1>3, <1>4, <1>5, <3>1, OrderTypes
  <2>5. \A i \in 1..p[1] - GotFull' : sentqueue'[i] \in received'
    BY <1>1, <1>2, <1>4 DEF Positions
  <2>6. Full(got') => got'[1].b = sentqueue'[p[1]]
    BY <1>1, <1>2 DEF Positions
  <2> QED
    BY <2>1, <2>2, <2>3, <2>4, <2>5, <2>6 DEF Positions, Last, Full
<1>7. Prog' = 1 => sentqueue' # <<>> /\ sentqueue'[Len(sentqueue')] = cur'
  BY <1>1 DEF OrderInv, Prog
<1>8. requeued' \subseteq {cur'} /\ (requeued' # {} => spc' = "done")
  BY <1>1 DEF OrderInv
<1> QED
  BY <1>6, <1>7, <1>8 DEF OrderInv

\* The ACK of an END segment completes the first bundle of the sent queue,
\* which has been received and is not the transfer in progress.
LEMMA OrderAck ==
  ASSUME TypeInv, PlaceInv, CleanInv, OrderInv, HandleAck
  PROVE  /\ OrderInv'
         /\ \/ UNCHANGED <<sentqueue, completed>>
            \/ /\ sentqueue # <<>> /\ completed' = completed \cup {Head(sentqueue)}
               /\ Head(sentqueue) \in received
               /\ Prog = 1 => cur # Head(sentqueue)
<1>1. /\ back # <<>> /\ back' = Tail(back) /\ segments # <<>> /\ segments[1] = back[1].of
  BY CleanAck
<1>2. UNCHANGED <<wire, got, inseg, received, requeued, cur, spc>>
  BY DEF HandleAck, senderVars, peerVars
<1>3. /\ back[1] \in [type : {"ACK", "NACK"}, of : Segment]
      /\ Ends = Ends' + (IF back[1].of.end THEN 1 ELSE 0) /\ Ends' \in Nat
  <2>1. back[1] \in [type : {"ACK", "NACK"}, of : Segment] /\ Head(back) = back[1]
    BY <1>1, OrderTypes, TailPlaces
  <2>2. back[1] \in EndAnswers <=> back[1].of.end
    BY <2>1 DEF EndAnswers
  <2> DEFINE t == Tail(back)
  <2>3. /\ t \in Seq([type : {"ACK", "NACK"}, of : Segment])
        /\ Count(back, EndAnswers) = Count(t, EndAnswers) + (IF Head(back) \in EndAnswers THEN 1 ELSE 0)
    BY <1>1, OrderTypes, CountTail
  <2>4. Count(t, EndAnswers) \in Nat
    <3> HIDE DEF t
    <3> QED
      BY <2>3, CountType
  <2>5. Ends' = Count(t, EndAnswers)
    BY <1>1 DEF Ends, EndAnswers
  <2> HIDE DEF t
  <2>6. Count(back, EndAnswers) = Ends
    BY DEF Ends
  <2> QED
    BY <2>1, <2>2, <2>3, <2>4, <2>5, <2>6
<1>4. segments # <<>> /\ Head(segments) = back[1].of
  BY <1>1, LineTypes, TailPlaces
<1>5. PICK p : Positions(p)
  BY DEF OrderInv
<1>6. Unanswered' = Unanswered /\ GotFull' = GotFull /\ Prog' = Prog
  BY <1>2 DEF Unanswered, GotFull, Full, Prog
<1>7. Len(wire) \in Nat /\ 1 \in 1..Len(wire) + 1 /\ p[1] \in Nat /\ p[1] <= Finished
      /\ Finished \in Nat
  <2>1. Len(wire) \in Nat /\ 1 \in 1..Len(wire) + 1
    BY OrderTypes
  <2> QED
    BY <1>5, <2>1, PositionRange
<1>8. Ends + Unanswered + GotFull <= p[1]
  BY <1>5 DEF Positions
<1>9. requeued' \subseteq {cur'} /\ (requeued' # {} => spc' = "done")
  BY <1>2 DEF OrderInv
<1>10. CASE ~back[1].of.end
  <2>1. UNCHANGED <<sentqueue, completed>>
    BY <1>4, <1>10 DEF HandleAck
  <2>2. Positions(p)'
    <3>1. /\ p \in [1..Len(wire') + 1 -> Nat]
          /\ \A j, k \in 1..Len(wire') + 1 : j <= k => p[j] <= p[k]
          /\ \A k \in 1..Len(wire') : p[k + 1] = p[k] + (IF Last(wire'[k]) THEN 1 ELSE 0)
      BY <1>2, <1>5 DEF Positions
    <3>2. p[Len(wire') + 1] = Finished'
      BY <1>2, <1>5, <2>1 DEF Positions, Finished, Prog
    <3>3. \A k \in 1..Len(wire') : Last(wire'[k]) => wire'[k].b = sentqueue'[p[k + 1]]
      BY <1>2, <1>5, <2>1 DEF Positions
    <3>4. Ends' + Unanswered' + GotFull' <= p[1]
      BY <1>3, <1>6, <1>8, <1>10
    <3>5. \A i \in 1..p[1] - GotFull' : sentqueue'[i] \in received'
      BY <1>2, <1>5, <1>6, <2>1 DEF Positions
    <3>6. Full(got') => got'[1].b = sentqueue'[p[1]]
      BY <1>2, <1>5, <2>1 DEF Positions
    <3> QED
      BY <3>1, <3>2, <3>3, <3>4, <3>5, <3>6 DEF Positions, Last, Full
  <2>3. Prog' = 1 => sentqueue' # <<>> /\ sentqueue'[Len(sentqueue')] = cur'
    BY <1>2, <1>6, <2>1 DEF OrderInv
  <2> QED
    BY <1>9, <2>1, <2>2, <2>3 DEF OrderInv
<1>11. CASE back[1].of.end
  <2>1. Ends = Ends' + 1 /\ p[1] >= 1 /\ 1 \in 1..p[1] - GotFull
    BY <1>3, <1>6, <1>7, <1>8, <1>11, OrderTypes
  <2>2. Len(sentqueue) \in Nat /\ Len(sentqueue) >= Finished /\ Finished = Len(sentqueue) - Prog
    BY OrderTypes DEF Finished
  <2>3. Len(sentqueue) >= 1 /\ sentqueue # <<>>
    <3>1. Len(sentqueue) >= 1
      BY <1>7, <2>1, <2>2
    <3> QED
      BY <3>1
  <2>4. /\ completed' = completed \cup {Head(sentqueue)} /\ sentqueue' = Tail(sentqueue)
    BY <1>4, <1>11, <2>3 DEF HandleAck, EventBundleForwarded
  <2>5. /\ Head(sentqueue) = sentqueue[1] /\ Len(sentqueue') = Len(sentqueue) - 1
        /\ \A k \in 1..Len(sentqueue) - 1 : sentqueue'[k] = sentqueue[k + 1]
        /\ sentqueue[1] \in Bundles
    BY <2>3, <2>4, ChainTypes, TailPlaces
  <2>6. Head(sentqueue) \in received
    BY <1>5, <2>1, <2>5 DEF Positions
  <2>7. ASSUME Prog = 1
        PROVE  Len(sentqueue) >= 2 /\ cur # Head(sentqueue) /\ sentqueue[Len(sentqueue)] = cur
    <3>1. Len(sentqueue) >= 2
      BY <1>7, <2>1, <2>2, <2>7
    <3>2. sentqueue[Len(sentqueue)] = cur
      BY <2>7 DEF OrderInv
    <3>3. ASSUME cur = Head(sentqueue)
          PROVE  FALSE
      <4> DEFINE b == Head(sentqueue)
      <4>1. /\ sentqueue \in Seq(Bundles) /\ 1 \in 1..Len(sentqueue)
            /\ Len(sentqueue) \in 1..Len(sentqueue) /\ 1 # Len(sentqueue)
            /\ sentqueue[1] \in {b} /\ sentqueue[Len(sentqueue)] \in {b} /\ b \in Bundles
        BY <2>2, <2>5, <3>1, <3>2, <3>3, ChainTypes
      <4> HIDE DEF b
      <4>2. Count(sentqueue, {b}) >= 2
        BY <4>1, CountTwice
      <4>3. Places(b) <= 1
        <5>1. Places(b) <= IF b \in handed THEN 1 ELSE 0
          BY <4>1 DEF PlaceInv
        <5>2. CASE b \in handed
          BY <5>1, <5>2
        <5>3. CASE b \notin handed
          <6>1. Places(b) <= 0 /\ Places(b) \in Nat
            BY <5>1, <5>3, PlaceTypes DEF Places
          <6> QED
            BY <6>1
        <5> QED
          BY <5>2, <5>3
      <4>4. /\ Count(queue, {b}) \in Nat /\ Count(sentqueue, {b}) \in Nat
            /\ InGet(b) \in Nat /\ OneCompleted(b) \in Nat
        BY PlaceTypes
      <4> QED
        BY <4>2, <4>3, <4>4 DEF Places
    <3> QED
      BY <3>1, <3>2, <3>3
  <2>8. PICK q : q = [k \in 1..Len(wire) + 1 |-> p[k] - 1]
    OBVIOUS
  <2>9. \A k \in 1..Len(wire) + 1 : /\ q[k] = p[k] - 1 /\ q[k] \in Nat /\ p[k] \in Nat
                                    /\ p[k] <= Len(sentqueue)
    BY <1>5, <2>1, <2>2, <2>8, PositionRange
  <2>10. Positions(q)'
    <3>1. q \in [1..Len(wire') + 1 -> Nat]
      BY <1>2, <2>8, <2>9
    <3>2. \A j, k \in 1..Len(wire') + 1 : j <= k => q[j] <= q[k]
      <4> SUFFICES ASSUME NEW j \in 1..Len(wire) + 1, NEW k \in 1..Len(wire) + 1, j <= k
                   PROVE  q[j] <= q[k]
        BY <1>2
      <4>1. p[j] <= p[k]
        BY <1>5 DEF Positions
      <4> QED
        BY <2>9, <4>1
    <3>3. q[Len(wire') + 1] = Finished'
      <4>1. Len(wire) + 1 \in 1..Len(wire) + 1 /\ p[Len(wire) + 1] = Finished
        BY <1>5, <1>7 DEF Positions
      <4>2. Finished' = Finished - 1
        BY <1>6, <2>2, <2>5, OrderTypes DEF Finished
      <4> QED
        BY <1>2, <2>9, <4>1, <4>2
    <3>4. ASSUME NEW k \in 1..Len(wire')
          PROVE  /\ q[k + 1] = q[k] + (IF Last(wire'[k]) THEN 1 ELSE 0)
                 /\ Last(wire'[k]) => wire'[k].b = sentqueue'[q[k + 1]]
      <4>1. k \in 1..Len(wire) /\ k \in 1..Len(wire) + 1 /\ k + 1 \in 1..Len(wire) + 1
            /\ wire'[k] = wire[k]
        BY <1>2, <1>7
      <4>2. p[k + 1] = p[k] + (IF Last(wire[k]) THEN 1 ELSE 0)
        BY <1>5, <4>1 DEF Positions
      <4>3. q[k] = p[k] - 1 /\ q[k + 1] = p[k + 1] - 1 /\ p[k] \in Nat /\ p[k + 1] \in Nat
            /\ q[k] \in Nat /\ q[k + 1] \in Nat
        BY <2>9, <4>1
      <4>4. ASSUME Last(wire[k])
            PROVE  wire[k].b = sentqueue'[q[k + 1]]
        <5>1. wire[k].b = sentqueue[p[k + 1]] /\ p[k + 1] = p[k] + 1
          BY <1>5, <4>1, <4>2, <4>4 DEF Positions
        <5>2. q[k + 1] \in 1..Len(sentqueue) - 1 /\ q[k + 1] + 1 = p[k + 1]
          <6>1. p[k + 1] <= Len(sentqueue)
            BY <2>9, <4>1
          <6>2. p[k + 1] >= 2
            BY <4>3, <5>1
          <6> QED
            BY <2>2, <4>3, <6>1, <6>2
        <5> QED
          BY <2>5, <5>1, <5>2
      <4> QED
        BY <4>1, <4>2, <4>3, <4>4
    <3>5. \A k \in 1..Len(wire') : q[k + 1] = q[k] + (IF Last(wire'[k]) THEN 1 ELSE 0)
      BY <3>4
    <3>6. \A k \in 1..Len(wire') : Last(wire'[k]) => wire'[k].b = sentqueue'[q[k + 1]]
      BY <3>4
    <3>7. q[1] = p[1] - 1 /\ p[1] <= Len(sentqueue)
      BY <1>7, <2>9
    <3>8. Ends' + Unanswered' + GotFull' <= q[1]
      BY <1>3, <1>6, <1>7, <1>8, <2>1, <3>7, OrderTypes
    <3>9. ASSUME NEW i \in 1..q[1] - GotFull'
          PROVE  sentqueue'[i] \in received'
      <4>1. i + 1 \in 1..p[1] - GotFull /\ i \in 1..Len(sentqueue) - 1
        BY <1>6, <1>7, <2>2, <3>7, OrderTypes
      <4> QED
        BY <1>2, <1>5, <2>5, <4>1 DEF Positions
    <3>10. ASSUME Full(got')
           PROVE  got'[1].b = sentqueue'[q[1]]
      <4>1. Full(got) /\ got[1].b = sentqueue[p[1]]
        BY <1>2, <1>5, <3>10 DEF Positions, Full
      <4>2. GotFull = 1
        BY <4>1 DEF GotFull
      <4>3. p[1] >= 2
        BY <1>3, <1>7, <1>8, <2>1, <4>2, OrderTypes
      <4>4. q[1] \in 1..Len(sentqueue) - 1 /\ q[1] + 1 = p[1]
        BY <1>7, <2>2, <3>7, <4>3
      <4> QED
        BY <1>2, <2>5, <4>1, <4>4
    <3> QED
      BY <3>1, <3>2, <3>3, <3>5, <3>6, <3>8, <3>9, <3>10 DEF Positions, Last, Full
  <2>11. Prog' = 1 => sentqueue' # <<>> /\ sentqueue'[Len(sentqueue')] = cur'
    <3> SUFFICES ASSUME Prog = 1
                 PROVE  sentqueue' # <<>> /\ sentqueue'[Len(sentqueue')] = cur
      BY <1>2, <1>6
    <3>1. Len(sentqueue') >= 1 /\ Len(sentqueue') \in 1..Len(sentqueue) - 1
          /\ Len(sentqueue') + 1 = Len(sentqueue)
      BY <2>2, <2>5, <2>7
    <3>2. sentqueue' # <<>>
      BY <3>1
    <3> QED
      BY <2>5, <2>7, <3>1, <3>2
  <2>12. OrderInv'
    BY <1>9, <2>10, <2>11 DEF OrderInv
  <2> QED
    BY <2>3, <2>4, <2>6, <2>7, <2>12
<1> QED
  BY <1>10, <1>11

\* A new connection has completed nothing.
LEMMA CompletedInit == Init => CompletedInv
<1> SUFFICES ASSUME Init
             PROVE  CleanInv /\ ChainInv /\ FateInv /\ OrderInv
  BY DEF CompletedInv
<1>l. Len(wire) = 0 /\ Len(back) = 0 /\ Len(got) = 0 /\ Len(segments) = 0 /\ Len(sentqueue) = 0
  BY DEF Init
<1>1. CleanInv
  BY <1>l DEF Init, CleanInv
<1>2. ChainInv
  <2>1. GotInv
    BY <1>l DEF Init, GotInv, Full, NoSegment
  <2>2. WireInv
    BY <1>l DEF Init, WireInv
  <2>3. ReadyInv
    BY DEF Init, ReadyInv, Ready, Starts
  <2> QED
    BY <2>1, <2>2, <2>3 DEF ChainInv
<1>3. FateInv
  BY DEF Init, FateInv, Prog
<1>4. OrderInv
  <2>1. PICK p : p = [k \in 1..1 |-> 0]
    OBVIOUS
  <2>2. Prog = 0 /\ Finished = 0 /\ Unanswered = 0 /\ GotFull = 0
    BY <1>l DEF Init, Prog, Finished, Unanswered, GotFull, Full, NoSegment
  <2>3. Ends = 0
    BY CountEmpty DEF Init, Ends
  <2>4. Positions(p)
    <3>1. /\ p \in [1..Len(wire) + 1 -> Nat]
          /\ \A j, k \in 1..Len(wire) + 1 : j <= k => p[j] <= p[k]
          /\ p[Len(wire) + 1] = Finished
      BY <1>l, <2>1, <2>2
    <3>2. p[1] = 0
      BY <2>1
    <3>3. /\ \A k \in 1..Len(wire) : p[k + 1] = p[k] + (IF Last(wire[k]) THEN 1 ELSE 0)
          /\ \A k \in 1..Len(wire) : Last(wire[k]) => wire[k].b = sentqueue[p[k + 1]]
      BY <1>l
    <3>4. /\ Ends + Unanswered + GotFull <= p[1]
          /\ \A i \in 1..p[1] - GotFull : sentqueue[i] \in received
      BY <2>2, <2>3, <3>2
    <3>5. ~Full(got)
      BY DEF Init, Full
    <3> QED
      BY <3>1, <3>3, <3>4, <3>5 DEF Positions
  <2> QED
    BY <2>2, <2>4 DEF Init, OrderInv
<1> QED
  BY <1>1, <1>2, <1>3, <1>4

\* A bundle that is taken from a queue has not been completed.
LEMMA TakenIsOpen ==
  ASSUME TypeInv, PlaceInv
  PROVE  /\ spc = "get" => cur \notin completed
         /\ queue # <<>> => Head(queue) \in Bundles /\ Head(queue) \notin completed
         /\ sentqueue # <<>> => Head(sentqueue) \in Bundles /\ Head(sentqueue) \notin completed
<1> SUFFICES ASSUME NEW b \in Bundles, b \in completed
             PROVE  /\ ~(spc = "get" /\ cur = b)
                    /\ ~(queue # <<>> /\ Head(queue) = b)
                    /\ ~(sentqueue # <<>> /\ Head(sentqueue) = b)
  BY ChainTypes, TailPlaces
<1>1. Count(queue, {b}) + Count(sentqueue, {b}) + InGet(b) + OneCompleted(b) <= 1
  <2>1. Places(b) <= IF b \in handed THEN 1 ELSE 0
    BY DEF PlaceInv
  <2>2. Places(b) \in Nat
    BY PlaceTypes DEF Places
  <2>3. Places(b) <= 1
    BY <2>1, <2>2
  <2> QED
    BY <2>3 DEF Places
<1>2. OneCompleted(b) = 1
  BY DEF OneCompleted
<1>3. /\ Count(queue, {b}) \in Nat /\ Count(sentqueue, {b}) \in Nat /\ InGet(b) \in Nat
      /\ queue \in Seq(Bundles) /\ sentqueue \in Seq(Bundles)
  BY PlaceTypes
<1>4. Count(queue, {b}) = 0 /\ Count(sentqueue, {b}) = 0 /\ InGet(b) = 0
  BY <1>1, <1>2, <1>3
<1>5. ~(spc = "get" /\ cur = b)
  BY <1>4 DEF InGet
<1>6. ASSUME NEW s \in Seq(Bundles), s # <<>>, Head(s) = b
      PROVE  Count(s, {b}) # 0
  <2>1. Count(s, {b}) = Count(Tail(s), {b}) + 1 /\ Tail(s) \in Seq(Bundles)
    BY <1>6, CountTail
  <2>2. Count(Tail(s), {b}) \in Nat
    BY <2>1, CountType
  <2> QED
    BY <2>1, <2>2
<1> QED
  BY <1>3, <1>4, <1>5, <1>6

\* As long as the peer refuses nothing, no step of any thread completes a
\* bundle that has not arrived.
LEMMA CompletedStep ==
  ASSUME AckSupport
  PROVE  /\ TypeInv /\ KeptInv /\ AnswersInv /\ PlaceInv /\ CompletedInv
         /\ [Next]_vars
         => CompletedInv'
<1> SUFFICES ASSUME TypeInv, KeptInv, AnswersInv, PlaceInv, CompletedInv, [Next]_vars
             PROVE  CompletedInv'
  OBVIOUS
<1> DEFINE Claim == CleanInv' /\ ChainInv' /\ FateInv' /\ (Alive' => OrderInv')
           Old == CleanInv /\ ChainInv /\ FateInv /\ (Alive => OrderInv)
<1>t. /\ cur \in Bundles \cup {None} /\ None \notin Bundles
      /\ (spc \in {"get", "mark", "check", "push", "write"} => cur \in Bundles)
  BY ChainTypes, ConstantsAssumption
<1>n. ASSUME nacked' = nacked, Old => Claim
      PROVE  CompletedInv'
  BY <1>n DEF CompletedInv
\* The parts a step leaves alone.
<1>o. ASSUME Old, Alive' => Alive, Prog' = Prog,
             UNCHANGED <<back, inseg, got, wire, received, sentqueue, requeued>>,
             cur' = cur \/ Prog = 0,
             spc' = "done" \/ spc # "done"
      PROVE  Alive' => OrderInv'
  <2> SUFFICES ASSUME Alive'
               PROVE  OrderInv'
    OBVIOUS
  <2>1. OrderInv
    BY <1>o
  <2>2. Prog' = 1 => sentqueue' # <<>> /\ sentqueue'[Len(sentqueue')] = cur'
    BY <1>o, <2>1 DEF OrderInv
  <2>3. Finished' = Finished
    BY <1>o DEF Finished
  <2>4. requeued' \subseteq {cur'} /\ (requeued' # {} => spc' = "done")
    BY <1>o, <2>1 DEF OrderInv, Prog
  <2> QED
    BY <1>o, <2>1, <2>2, <2>3, <2>4, OrderQuiet
<1>f. ASSUME Old, UNCHANGED <<completed, received, requeued>>,
             Prog' = 1 => Prog = 1 /\ cur' = cur
      PROVE  FateInv'
  BY <1>f DEF FateInv
<1>d. ASSUME Old, ~Alive', CleanInv', ChainInv', FateInv'
      PROVE  Claim
  BY <1>d
\* The steps of the routing side and of the Sender thread.
<1>1. ASSUME NEW b \in Bundles, QueueBundle(b)
      PROVE  CompletedInv'
  <2> SUFFICES ASSUME Old
               PROVE  Claim
    BY <1>1, <1>n DEF QueueBundle, peerVars
  <2>1. /\ UNCHANGED <<cur, spc, pos, seg, rejected, rpc, sentqueue, skip, segments, wire, back>>
        /\ UNCHANGED <<instate, inseg, reject, got, received, completed, requeued>>
    BY <1>1 DEF QueueBundle, readerVars, sharedVars, linkVars, peerVars
  <2>2. Prog' = Prog /\ (Alive' => Alive)
    BY <2>1 DEF Prog, Alive
  <2>3. CleanInv'
    BY <2>1 DEF CleanInv
  <2>4. ChainInv'
    BY <2>1, ChainSender
  <2> QED
    BY <1>f, <1>o, <2>1, <2>2, <2>3, <2>4 DEF OrderInv
<1>2. CASE NextTransfer
  <2> SUFFICES ASSUME Old
               PROVE  Claim
    BY <1>2, <1>n DEF NextTransfer, peerVars
  <2>1. /\ UNCHANGED <<pos, rejected, rpc, sentqueue, skip, segments, wire, back>>
        /\ UNCHANGED <<instate, inseg, reject, got, received, completed, requeued>>
        /\ spc = "idle" /\ spc' = "get" /\ cur = None
    BY <1>2 DEF NextTransfer, readerVars, sharedVars, linkVars, peerVars, reportVars, KeptInv
  <2>2. Prog' = 0 /\ Prog = 0 /\ (Alive' => Alive)
    BY <2>1 DEF Prog, Alive
  <2>3. CleanInv'
    BY <2>1 DEF CleanInv
  <2>4. ChainInv'
    BY <2>1, ChainSender
  <2> QED
    BY <1>f, <1>o, <2>1, <2>2, <2>3, <2>4
<1>3. CASE ReadBundle
  <2> SUFFICES ASSUME Old
               PROVE  Claim
    BY <1>3, <1>n DEF ReadBundle, peerVars
  <2>1. /\ UNCHANGED <<cur, rejected, rpc, skip, segments, wire, back>>
        /\ UNCHANGED <<instate, inseg, reject, got, received, completed, requeued>>
        /\ spc = "get" /\ spc' = "mark" /\ pos' = 1 /\ sentqueue' = Append(sentqueue, cur)
    BY <1>3 DEF ReadBundle, readerVars, linkVars, peerVars, reportVars
  <2>2. Prog' = 1 /\ Prog = 0 /\ (Alive' => Alive) /\ cur \in Bundles
    BY <1>t, <2>1 DEF Prog, Alive
  <2>3. CleanInv'
    BY <2>1 DEF CleanInv
  <2>4. ChainInv'
    BY <2>1, ChainSender
  <2>5. FateInv'
    BY <2>1, TakenIsOpen DEF FateInv
  <2>6. ASSUME Alive'
        PROVE  OrderInv'
    <3>1. /\ Len(sentqueue) \in Nat /\ Len(sentqueue') = Len(sentqueue) + 1
          /\ \A k \in 1..Len(sentqueue) : sentqueue'[k] = sentqueue[k]
          /\ sentqueue'[Len(sentqueue) + 1] = cur
      BY <2>1, <2>2, ChainTypes, AppendPlaces
    <3>2. Finished' = Finished /\ Finished = Len(sentqueue)
      BY <2>2, <3>1 DEF Finished
    <3>3. sentqueue' # <<>> /\ sentqueue'[Len(sentqueue')] = cur'
      <4>1. Len(sentqueue') >= 1
        BY <3>1
      <4> QED
        BY <2>1, <3>1, <4>1
    <3>4. OrderInv
      BY <2>2, <2>6
    <3>5. requeued' \subseteq {cur'} /\ (requeued' # {} => spc' = "done")
      BY <2>1, <3>4 DEF OrderInv
    <3> QED
      BY <2>1, <3>1, <3>2, <3>3, <3>4, <3>5, OrderQuiet
  <2> QED
    BY <2>3, <2>4, <2>5, <2>6
<1>4. CASE StreamWentBad
  <2> SUFFICES ASSUME Old
               PROVE  Claim
    BY <1>4, <1>n DEF StreamWentBad, peerVars
  <2>1. /\ UNCHANGED <<cur, rejected, rpc, skip, segments, wire, back>>
        /\ UNCHANGED <<instate, inseg, reject, got, received, completed>>
        /\ spc = "get" /\ spc' = "done" /\ requeued' = requeued \cup {cur} /\ ~StreamGood
    BY <1>4 DEF StreamWentBad, readerVars, linkVars, peerVars
  <2>2. ~Alive'
    BY <2>1 DEF Alive, StreamGood
  <2>3. CleanInv'
    BY <2>1 DEF CleanInv
  <2>4. ChainInv'
    BY <2>1, ChainSender
  <2>5. FateInv'
    BY <2>1, TakenIsOpen DEF FateInv
  <2> QED
    BY <2>2, <2>3, <2>4, <2>5
<1>5. CASE BundleDeleted
  <2> SUFFICES ASSUME Old
               PROVE  Claim
    BY <1>5, <1>n DEF BundleDeleted, peerVars
  <2>1. /\ UNCHANGED <<pos, rejected, rpc, sentqueue, skip, segments, wire, back>>
        /\ UNCHANGED <<instate, inseg, reject, got, received, completed, requeued>>
        /\ spc = "get" /\ spc' = "idle" /\ cur' = None
    BY <1>5 DEF BundleDeleted, readerVars, sharedVars, linkVars, peerVars
  <2>2. Prog' = 0 /\ Prog = 0 /\ (Alive' => Alive)
    BY <2>1 DEF Prog, Alive
  <2>3. CleanInv'
    BY <2>1 DEF CleanInv
  <2>4. ChainInv'
    BY <2>1, ChainSender
  <2> QED
    BY <1>f, <1>o, <2>1, <2>2, <2>3, <2>4
<1>6. CASE MarkSegment
  <2> SUFFICES ASSUME Old
               PROVE  Claim
    BY <1>6, <1>n DEF MarkSegment, peerVars
  <2>1. /\ UNCHANGED <<cur, pos, rejected, rpc, sentqueue, segments, wire, back>>
        /\ UNCHANGED <<instate, inseg, reject, got, received, completed, requeued>>
        /\ spc = "mark" /\ spc' = "check" /\ skip' = (skip /\ ~sob)
    BY <1>6 DEF MarkSegment, readerVars, linkVars, peerVars, reportVars
  <2>2. Prog' = Prog /\ (Alive' => Alive)
    BY <2>1 DEF Prog, Alive
  <2>3. CleanInv'
    BY <2>1 DEF CleanInv
  <2>4. ChainInv'
    BY <1>6, <2>1, ChainSender
  <2> QED
    BY <1>f, <1>o, <2>1, <2>2, <2>3, <2>4
<1>7. CASE SkipSegment
  <2> SUFFICES ASSUME Old
               PROVE  Claim
    BY <1>7, <1>n DEF SkipSegment, peerVars
  <2> QED
    BY <1>7 DEF SkipSegment, CleanInv
<1>8. CASE CheckSkip
  <2> SUFFICES ASSUME Old
               PROVE  Claim
    BY <1>8, <1>n DEF CheckSkip, peerVars
  <2>1. /\ UNCHANGED <<cur, pos, seg, rejected, rpc, sentqueue, skip, segments, wire, back>>
        /\ UNCHANGED <<instate, inseg, reject, got, received, completed, requeued>>
        /\ spc = "check" /\ spc' = "push"
    BY <1>8 DEF CheckSkip, readerVars, sharedVars, linkVars, peerVars, reportVars
  <2>2. Prog' = Prog /\ (Alive' => Alive)
    BY <2>1 DEF Prog, Alive
  <2>3. CleanInv'
    BY <2>1 DEF CleanInv
  <2>4. ChainInv'
    BY <2>1, ChainSender
  <2> QED
    BY <1>f, <1>o, <2>1, <2>2, <2>3, <2>4
<1>9. CASE PushSegment
  <2> SUFFICES ASSUME Old
               PROVE  Claim
    BY <1>9, <1>n DEF PushSegment, peerVars
  <2>1. /\ UNCHANGED <<cur, pos, seg, rpc, sentqueue, wire, back>>
        /\ UNCHANGED <<instate, inseg, got, received, completed, requeued>>
        /\ spc = "push" /\ spc' = "write"
    BY <1>9 DEF PushSegment, readerVars, linkVars, peerVars
  <2>2. Prog' = Prog /\ (Alive' => Alive)
    BY <2>1 DEF Prog, Alive
  <2>3. CleanInv'
    BY <1>9, CleanPush
  <2>4. ChainInv'
    BY <2>1, ChainSender
  <2> QED
    BY <1>f, <1>o, <2>1, <2>2, <2>3, <2>4
<1>10. CASE WriteSegment
  <2> SUFFICES ASSUME Old
               PROVE  Claim
    BY <1>10, <1>n DEF WriteSegment, peerVars
  <2>1. /\ UNCHANGED <<rejected, rpc, skip, segments, back, reject>>
        /\ UNCHANGED <<received, completed, requeued>>
        /\ spc = "write" /\ (cur' = None \/ cur' = cur)
    BY <1>10 DEF WriteSegment, SegmentDone, readerVars, sharedVars, peerVars, reportVars
  <2>2. Prog' = 1 => Prog = 1 /\ cur' = cur
    BY <2>1 DEF Prog
  <2>3. CleanInv'
    BY <2>1 DEF CleanInv
  <2>4. ChainInv'
    BY <1>10, ChainWrite
  <2>5. Alive' => OrderInv'
    BY <1>10, <2>1, OrderWrite DEF Alive
  <2> QED
    BY <1>f, <2>1, <2>2, <2>3, <2>4, <2>5
<1>11. CASE WriteFails
  <2> SUFFICES ASSUME Old
               PROVE  Claim
    BY <1>11, <1>n DEF WriteFails, peerVars
  <2>1. /\ UNCHANGED <<cur, pos, seg, rejected, rpc, sentqueue, skip, segments, wire, back>>
        /\ UNCHANGED <<instate, inseg, reject, got, received, completed>>
        /\ spc = "write" /\ spc' = "done" /\ requeued' = requeued \cup {cur}
    BY <1>11 DEF WriteFails, readerVars, sharedVars, linkVars, peerVars
  <2>2. Prog' = 1 /\ Prog = 1 /\ (Alive' => Alive)
    BY <1>t, <2>1 DEF Prog, Alive
  <2>3. CleanInv'
    BY <2>1 DEF CleanInv
  <2>4. ChainInv'
    BY <2>1, ChainSender
  <2>5. FateInv'
    BY <2>1, <2>2 DEF FateInv
  <2>6. ASSUME Alive'
        PROVE  OrderInv'
    <3>1. OrderInv
      BY <2>2, <2>6
    <3>2. sentqueue' # <<>> /\ sentqueue'[Len(sentqueue')] = cur'
      BY <2>1, <2>2, <3>1 DEF OrderInv
    <3>3. Finished' = Finished
      BY <2>1, <2>2 DEF Finished
    <3>4. requeued' \subseteq {cur'} /\ (requeued' # {} => spc' = "done")
      BY <2>1, <3>1 DEF OrderInv
    <3> QED
      BY <2>1, <3>1, <3>2, <3>3, <3>4, OrderQuiet
  <2> QED
    BY <2>3, <2>4, <2>5, <2>6
<1>12. CASE SenderExits
  <2> SUFFICES ASSUME Old
               PROVE  Claim
    BY <1>12, <1>n DEF SenderExits, peerVars
  <2>1. /\ UNCHANGED <<cur, pos, seg, rejected, rpc, sentqueue, skip, segments, wire, back>>
        /\ UNCHANGED <<instate, inseg, reject, got, received, completed, requeued>>
        /\ spc = "idle" /\ spc' = "done"
    BY <1>12 DEF SenderExits, readerVars, sharedVars, linkVars, peerVars, reportVars
  <2>2. Prog' = Prog /\ (Alive' => Alive)
    BY <2>1 DEF Prog, Alive
  <2>3. CleanInv'
    BY <2>1 DEF CleanInv
  <2>4. ChainInv'
    BY <2>1, ChainSender
  <2> QED
    BY <1>f, <1>o, <2>1, <2>2, <2>3, <2>4
\* The reader thread of the sending node.
<1>13. CASE StartSender
  <2> SUFFICES ASSUME Old
               PROVE  Claim
    BY <1>13, <1>n DEF StartSender, peerVars
  <2>1. /\ UNCHANGED <<cur, pos, seg, rejected, sentqueue, skip, segments, wire, back>>
        /\ UNCHANGED <<instate, inseg, reject, got, received, completed, requeued>>
        /\ spc = "new" /\ spc' = "idle" /\ rpc = "handshake" /\ rpc' = "idle"
    BY <1>13 DEF StartSender, sharedVars, linkVars, peerVars, reportVars, KeptInv
  <2>2. Prog' = Prog /\ (Alive' => Alive)
    BY <2>1 DEF Prog, Alive
  <2>3. CleanInv'
    BY <2>1 DEF CleanInv
  <2>4. ChainInv'
    BY <2>1, ChainSender
  <2> QED
    BY <1>f, <1>o, <2>1, <2>2, <2>3, <2>4
<1>14. CASE HandleAck
  <2> SUFFICES ASSUME Old
               PROVE  Claim
    BY <1>14, <1>n DEF HandleAck, peerVars
  <2>1. /\ UNCHANGED <<cur, spc, pos, seg, wire, instate, inseg, got, received, requeued>>
        /\ Prog' = Prog /\ Alive
    BY <1>14 DEF HandleAck, senderVars, peerVars, Prog, Alive
  <2>2. CleanInv' /\ OrderInv'
    BY <1>14, <2>1, CleanAck, OrderAck
  <2>3. ChainInv'
    BY <2>1, ChainSender
  <2>4. FateInv'
    <3>1. CASE UNCHANGED <<sentqueue, completed>>
      BY <1>f, <2>1, <3>1
    <3>2. CASE /\ sentqueue # <<>> /\ completed' = completed \cup {Head(sentqueue)}
               /\ Head(sentqueue) \in received
               /\ Prog = 1 => cur # Head(sentqueue)
      <4>1. /\ completed' \subseteq received' /\ None \notin received'
            /\ Prog' = 1 => cur' \notin completed'
        BY <2>1, <3>2 DEF FateInv
      <4>2. ASSUME Head(sentqueue) \in requeued
            PROVE  FALSE
        <5>1. spc = "done" /\ cur = Head(sentqueue) /\ cur \in Bundles
          BY <2>1, <4>2, ChainTypes DEF OrderInv
        <5>2. Prog = 1
          BY <1>t, <5>1 DEF Prog
        <5> QED
          BY <3>2, <5>1, <5>2
      <4> QED
        BY <2>1, <3>2, <4>1, <4>2 DEF FateInv
    <3> QED
      BY <1>14, <2>1, <3>1, <3>2, OrderAck
  <2> QED
    BY <2>2, <2>3, <2>4
<1>15. CASE HandleNackAgain \/ HandleNack
  <2> SUFFICES ASSUME Old
               PROVE  Claim
    BY <1>15, <1>n DEF HandleNackAgain, HandleNack, peerVars
  <2>1. back # <<>> /\ Head(back).type = "NACK"
    BY <1>15 DEF HandleNackAgain, HandleNack
  <2>2. 1 \in 1..Len(back) /\ Head(back) = back[1]
    BY <2>1, OrderTypes, TailPlaces
  <2> QED
    BY <2>1, <2>2 DEF CleanInv
<1>16. CASE DrainSegment \/ RaiseRefused \/ CheckEmpty \/ SetSkip
  <2> SUFFICES ASSUME Old
               PROVE  Claim
    BY <1>16, <1>n DEF DrainSegment, RaiseRefused, CheckEmpty, SetSkip, peerVars
  <2>1. rpc \in {"drain", "refuse", "skipcheck", "setskip"}
    BY <1>16 DEF DrainSegment, RaiseRefused, CheckEmpty, SetSkip
  <2> QED
    BY <2>1 DEF CleanInv
<1>17. CASE ReadFails \/ ConnectionDown
  <2> SUFFICES ASSUME Old
               PROVE  Claim
    BY <1>17, <1>n DEF ReadFails, ConnectionDown, peerVars
  <2>1. /\ UNCHANGED <<cur, spc, pos, seg, rejected, skip, segments, wire, back>>
        /\ UNCHANGED <<instate, inseg, reject, got, received, completed, requeued>>
        /\ rpc' \in {"down", "clearqueue"}
    BY <1>17 DEF ReadFails, ConnectionDown, senderVars, sharedVars, linkVars, peerVars, reportVars
  <2>2. Prog' = Prog /\ ~Alive'
    BY <2>1 DEF Prog, Alive
  <2>3. CleanInv'
    BY <2>1 DEF CleanInv
  <2>4. ChainInv'
    BY <2>1, ChainSender
  <2> QED
    BY <1>f, <2>1, <2>2, <2>3, <2>4
<1>18. CASE ClearQueued \/ ClearSent
  <2> SUFFICES ASSUME Old
               PROVE  Claim
    BY <1>18, <1>n DEF ClearQueued, ClearSent, peerVars
  <2>1. /\ UNCHANGED <<cur, spc, pos, seg, rejected, skip, segments, wire, back>>
        /\ UNCHANGED <<instate, inseg, reject, got, received, completed>>
        /\ rpc' \in {"clearqueue", "clearsent", "gone"}
    BY <1>18 DEF ClearQueued, ClearSent, senderVars, sharedVars, linkVars, peerVars
  <2>2. Prog' = Prog /\ ~Alive'
    BY <2>1 DEF Prog, Alive
  <2>3. CleanInv'
    BY <2>1 DEF CleanInv
  <2>4. ChainInv'
    BY <2>1, ChainSender
  <2>5. \A b \in requeued' \ requeued : b \notin completed
    BY <1>18, TakenIsOpen DEF ClearQueued, ClearSent
  <2>6. FateInv'
    BY <2>1, <2>2, <2>5 DEF FateInv
  <2> QED
    BY <2>2, <2>3, <2>4, <2>6
\* The receiving node.
<1>19. CASE ReceiveSegment
  <2> SUFFICES ASSUME nacked' = {}
               PROVE  Claim
    BY DEF CompletedInv
  <2>1. nacked = {}
    BY <1>19 DEF ReceiveSegment
  <2>2. Old
    BY <2>1 DEF CompletedInv
  <2>3. ~reject /\ inseg = NoSegment
    BY <1>19, <2>2 DEF CleanInv, AnswersInv, ReceiveSegment
  <2>4. /\ UNCHANGED <<cur, spc, rejected, rpc, skip, segments, back, received, completed, requeued>>
        /\ ~reject'
    BY <1>19, <2>3 DEF ReceiveSegment, senderVars, readerVars, sharedVars, reportVars
  <2>5. Prog' = Prog /\ (Alive' => Alive)
    BY <2>4 DEF Prog, Alive
  <2>6. CleanInv'
    BY <2>2, <2>4 DEF CleanInv
  <2>7. ChainInv'
    BY <1>19, <2>2, <2>3, ChainReceive
  <2>8. Alive' => OrderInv'
    BY <1>19, <2>2, <2>3, <2>5, OrderReceive
  <2>9. FateInv'
    BY <1>f, <2>2, <2>4, <2>5
  <2> QED
    BY <2>6, <2>7, <2>8, <2>9
<1>20. CASE DeliverBundle
  <2> SUFFICES ASSUME Old
               PROVE  Claim
    BY <1>20, <1>n DEF DeliverBundle
  <2>1. /\ UNCHANGED <<cur, spc, rejected, rpc, skip, segments, back, reject, completed, requeued>>
        /\ received' = received \cup {IF Intact THEN got[1].b ELSE None}
    BY <1>20 DEF DeliverBundle, senderVars, readerVars, sharedVars, linkVars, reportVars
  <2>2. Prog' = Prog /\ (Alive' => Alive)
    BY <2>1 DEF Prog, Alive
  <2>3. CleanInv'
    BY <2>1 DEF CleanInv
  <2>4. ChainInv' /\ Intact /\ Full(got)
    BY <1>20, ChainDeliver
  <2>5. Alive' => OrderInv'
    BY <1>20, <2>2, OrderDeliver
  <2>6. got[1].b # None
    BY <1>t, <2>4, GotFirst DEF Full
  <2>7. FateInv'
    BY <2>1, <2>2, <2>4, <2>6 DEF FateInv
  <2> QED
    BY <2>3, <2>4, <2>5, <2>7
<1>21. CASE RejectTransmission
  <2>1. got # <<>> /\ nacked' = nacked \cup {got[i].b : i \in 1..Len(got)}
    BY <1>21 DEF RejectTransmission
  <2>2. 1 \in 1..Len(got)
    BY <2>1, ChainTypes
  <2> QED
    BY <2>1, <2>2 DEF CompletedInv
<1>22. CASE AnswerSegment
  <2> SUFFICES ASSUME nacked' = {}
               PROVE  Claim
    BY DEF CompletedInv
  <2>1. UNCHANGED <<cur, spc, rpc, received, completed, requeued, nacked>>
    BY <1>22 DEF AnswerSegment, senderVars, readerVars, reportVars
  <2>2. Old /\ (up => LineInv)
    BY <2>1 DEF CompletedInv, AnswersInv
  <2>3. Prog' = Prog /\ (Alive' => Alive)
    BY <2>1 DEF Prog, Alive
  <2>4. /\ CleanInv'
        /\ \/ back' = back
           \/ back' = Append(back, [type |-> "ACK", of |-> inseg]) /\ inseg \in Segment
    BY <1>22, <2>2, CleanAnswer
  <2>5. ChainInv'
    BY <1>22, <2>2, ChainAnswer
  <2>6. Alive' => OrderInv'
    BY <1>22, <2>2, <2>3, <2>4, OrderAnswer
  <2>7. FateInv'
    BY <1>f, <2>1, <2>2, <2>3
  <2> QED
    BY <2>4, <2>5, <2>6, <2>7
\* The link.
<1>23. CASE LinkDown
  <2> SUFFICES ASSUME Old
               PROVE  Claim
    BY <1>23, <1>n DEF LinkDown, peerVars
  <2>1. /\ UNCHANGED <<cur, spc, pos, seg, rejected, rpc, sentqueue, skip, segments, wire, back>>
        /\ UNCHANGED <<instate, inseg, reject, got, received, completed, requeued>>
    BY <1>23 DEF LinkDown, senderVars, readerVars, sharedVars, peerVars, reportVars
  <2>2. Prog' = Prog /\ (Alive' => Alive)
    BY <2>1 DEF Prog, Alive
  <2>3. CleanInv'
    BY <2>1 DEF CleanInv
  <2>4. ChainInv'
    BY <2>1, ChainSender
  <2> QED
    BY <1>f, <1>o, <2>1, <2>2, <2>3, <2>4
<1>24. CASE CloseConnection
  <2> SUFFICES ASSUME Old
               PROVE  Claim
    BY <1>24, <1>n DEF CloseConnection, peerVars
  <2>1. /\ UNCHANGED <<cur, spc, pos, seg, rejected, rpc, sentqueue, skip, segments, wire, back>>
        /\ UNCHANGED <<instate, inseg, reject, got, received, completed, requeued>>
    BY <1>24 DEF CloseConnection, senderVars, sharedVars, peerVars, reportVars
  <2>2. Prog' = Prog /\ (Alive' => Alive)
    BY <2>1 DEF Prog, Alive
  <2>3. CleanInv'
    BY <2>1 DEF CleanInv
  <2>4. ChainInv'
    BY <2>1, ChainSender
  <2> QED
    BY <1>f, <1>o, <2>1, <2>2, <2>3, <2>4
<1>25. CASE UNCHANGED vars
  <2> SUFFICES ASSUME Old
               PROVE  Claim
    BY <1>25, <1>n DEF vars, peerVars
  <2>1. /\ UNCHANGED <<cur, spc, pos, seg, rejected, rpc, sentqueue, skip, segments, wire, back>>
        /\ UNCHANGED <<instate, inseg, reject, got, received, completed, requeued>>
    BY <1>25 DEF vars, senderVars, readerVars, sharedVars, linkVars, peerVars, reportVars
  <2>2. Prog' = Prog /\ (Alive' => Alive)
    BY <2>1 DEF Prog, Alive
  <2>3. CleanInv'
    BY <2>1 DEF CleanInv
  <2>4. ChainInv'
    BY <2>1, ChainSender
  <2> QED
    BY <1>f, <1>o, <2>1, <2>2, <2>3, <2>4
<1> QED
  BY <1>1, <1>2, <1>3, <1>4, <1>5, <1>6, <1>7, <1>8, <1>9, <1>10, <1>11,
     <1>12, <1>13, <1>14, <1>15, <1>16, <1>17, <1>18, <1>19, <1>20, <1>21,
     <1>22, <1>23, <1>24, <1>25
  DEF Next, SenderThread, ReaderThread, PeerThread

\* TransferCompletedEvent is raised for a bundle only when the peer has
\* received it whole, the peer never mixes the segments of two bundles, and no
\* completed bundle is put back into routing, for any bundles, any numbers of
\* segments and any interleaving, as long as the peer refuses nothing
\* (eventBundleForwarded(), Sender::finally(), clearQueue()).
THEOREM CompletedArrive ==
  ASSUME AckSupport
  PROVE  Spec => []CompletedIsReceived
<1> DEFINE I == TypeInv /\ KeptInv /\ AnswersInv /\ PlaceInv /\ CompletedInv
<1>1. Init => I
  BY TypeInit, KeptInit, AnswersInit, PlaceInit, CompletedInit
<1>2. I /\ [Next]_vars => I'
  BY TypeStep, KeptStep, AnswersStep, PlaceStep, CompletedStep
<1>3. I => CompletedIsReceived
  BY DEF CompletedInv, FateInv, CompletedIsReceived
<1> QED
  BY <1>1, <1>2, <1>3, PTL DEF Spec
=============================================================================
