--------------------------- MODULE TCPConnection ---------------------------
(***************************************************************************)
(* The TCP convergence layer: one direction of a connection between two    *)
(* daemons.  On the sending node run the Sender thread of TCPConnection,   *)
(* which feeds bundles through StreamBuffer::overflow(), and the reader    *)
(* thread of TCPConnection, whose StreamBuffer::underflow() handles the    *)
(* ACK and REFUSE segments of the peer.  The two share the state bit SKIP, *)
(* the queue of unanswered segments and the queue of unconfirmed bundles.  *)
(* On the receiving node the reader thread deserializes bundles out of     *)
(* data segments and answers each segment.                                 *)
(*                                                                         *)
(* A thread step is everything a thread does between two accesses to state *)
(* that another thread can change.                                         *)
(***************************************************************************)
EXTENDS Naturals, Sequences, FiniteSets

CONSTANTS
  Bundles,      \* the bundles the routing modules hand to the connection
  SegCount,     \* how many data segments each of them fills
  Exact,        \* those whose length is a multiple of the buffer size
  AckSupport,   \* STREAM_ACK_SUPPORT: the peer requested acknowledgements
  NackSupport,  \* STREAM_NACK_SUPPORT: the peer requested refusals
  MayReject,    \* the peer's validator can reject a bundle
  None          \* the null BundleID

ASSUME ConstantsAssumption ==
  /\ SegCount \in [Bundles -> Nat \ {0}]
  /\ Exact \subseteq Bundles
  /\ AckSupport \in BOOLEAN
  /\ NackSupport \in BOOLEAN
  /\ MayReject \in BOOLEAN
  /\ None \notin Bundles

VARIABLES
  \* the sending node
  queue,        \* Sender: Queue<BundleID>
  cur,          \* Sender::_current_transfer
  sentqueue,    \* TCPConnection::_sentqueue
  spc,          \* where the Sender thread is
  pos,          \* segment of cur that overflow() is about to produce
  seg,          \* the segment overflow() is working on
  sob,          \* STREAM_SOB
  skip,         \* STREAM_SKIP
  segments,     \* StreamBuffer::_segments
  rejected,     \* StreamBuffer::_rejected_segments
  rpc,          \* where the reader thread is
  reason,       \* _shutdown_reason has been set
  listed,       \* the connection is in TCPConvergenceLayer::_connections
  \* the link
  up,           \* the socket accepts writes
  wire,         \* data segments in flight
  back,         \* ACK and REFUSE segments in flight
  \* the receiving node
  instate,      \* _underflow_state
  inseg,        \* the data segment that is being read
  reject,       \* STREAM_REJECT
  got,          \* the data the running deserialization has consumed
  \* history: what has been reported, and what has happened
  handed, completed, refused, aborted, requeued, received, nacked

senderVars == <<queue, cur, spc, pos, seg, sob>>
readerVars == <<rejected, rpc, reason, listed>>
sharedVars == <<sentqueue, skip, segments>>
linkVars   == <<up, wire, back>>
peerVars   == <<instate, inseg, reject, got, received, nacked>>
reportVars == <<handed, completed, refused, aborted, requeued>>

vars == <<senderVars, readerVars, sharedVars, linkVars, peerVars, reportVars>>

Segment == [b : Bundles, i : Nat \ {0}, begin : BOOLEAN, end : BOOLEAN]
NoSegment == [b |-> None, i |-> 0, begin |-> FALSE, end |-> FALSE]

SenderStates == {"new", "idle", "get", "mark", "check", "push", "write", "done"}
ReaderStates == {"handshake", "idle", "drain", "refuse", "skipcheck", "setskip",
                 "down", "clearqueue", "clearsent", "gone"}

\* The elements of a queue.
RangeOf(s) == {s[i] : i \in 1..Len(s)}

Init ==
  /\ queue = <<>> /\ cur = None /\ sentqueue = <<>>
  /\ spc = "new" /\ pos = 1 /\ seg = NoSegment
  /\ sob = TRUE /\ skip = FALSE
  /\ segments = <<>> /\ rejected = <<>>
  /\ rpc = "handshake" /\ reason = FALSE /\ listed = TRUE
  /\ up = TRUE /\ wire = <<>> /\ back = <<>>
  /\ instate = "IDLE" /\ inseg = NoSegment /\ reject = FALSE /\ got = <<>>
  /\ handed = {} /\ completed = {} /\ refused = {} /\ aborted = {}
  /\ requeued = {} /\ received = {} /\ nacked = {}

-----------------------------------------------------------------------------
(* The routing side.                                                       *)

\* TCPConvergenceLayer::queue(): the connection is searched and the bundle
\* pushed under _connections_cond, so only a listed connection is given one.
QueueBundle(b) ==
  /\ listed
  /\ b \notin handed
  /\ queue' = Append(queue, b)
  /\ handed' = handed \cup {b}
  /\ UNCHANGED <<cur, spc, pos, seg, sob, readerVars, sharedVars, linkVars,
                 peerVars, completed, refused, aborted, requeued>>

-----------------------------------------------------------------------------
(* Callbacks of StreamConnection into TCPConnection.                       *)

\* eventBundleForwarded(): the oldest unconfirmed bundle is complete.
EventBundleForwarded ==
  IF sentqueue = <<>>
  THEN UNCHANGED <<sentqueue, completed>>
  ELSE /\ completed' = completed \cup {Head(sentqueue)}
       /\ sentqueue' = Tail(sentqueue)

\* eventBundleRefused(): the oldest unconfirmed bundle is refused.
EventBundleRefused ==
  IF sentqueue = <<>>
  THEN UNCHANGED <<sentqueue, refused>>
  ELSE /\ refused' = refused \cup {Head(sentqueue)}
       /\ sentqueue' = Tail(sentqueue)

-----------------------------------------------------------------------------
(* The Sender thread: TCPConnection::Sender::run(), operator<< and         *)
(* StreamBuffer::overflow().                                               *)

\* _sender.start() after the handshake, in TCPConnection::run().
StartSender ==
  /\ rpc = "handshake" /\ up
  /\ rpc' = "idle"
  /\ spc' = "idle"
  /\ UNCHANGED <<queue, cur, pos, seg, sob, rejected, reason, listed,
                 sharedVars, linkVars, peerVars, reportVars>>

\* getnpop(true): the loop condition is the state of the socket.
NextTransfer ==
  /\ spc = "idle" /\ up /\ queue # <<>>
  /\ cur' = Head(queue)
  /\ queue' = Tail(queue)
  /\ spc' = "get"
  /\ UNCHANGED <<pos, seg, sob, readerVars, sharedVars, linkVars, peerVars,
                 reportVars>>

\* The exception that ended the reader's loop left the badbit on the stream.
StreamGood == rpc \notin {"down", "clearqueue", "clearsent", "gone"}

\* storage.get() found the bundle; operator<< puts it into the sent queue.
ReadBundle ==
  /\ spc = "get" /\ StreamGood
  /\ sentqueue' = Append(sentqueue, cur)
  /\ pos' = 1
  /\ spc' = "mark"
  /\ UNCHANGED <<queue, cur, seg, sob, skip, segments, readerVars, linkVars,
                 peerVars, reportVars>>

\* Seeded error: the exception handler forgets the current transfer.
StreamWentBadForgets ==
  /\ spc = "get" /\ ~StreamGood
  /\ spc' = "done"
  /\ UNCHANGED <<queue, cur, pos, seg, sob, readerVars, sharedVars, linkVars,
                 peerVars, reportVars>>

\* "stream went bad" in operator<<: the bundle already is in the sent queue.
StreamWentBad ==
  /\ spc = "get" /\ ~StreamGood
  /\ sentqueue' = Append(sentqueue, cur)
  /\ requeued' = requeued \cup {cur}
  /\ spc' = "done"
  /\ UNCHANGED <<queue, cur, pos, seg, sob, skip, segments, readerVars,
                 linkVars, peerVars, handed, completed, refused, aborted>>

\* NoBundleFoundException: the bundle was deleted since it was queued.
BundleDeleted ==
  /\ spc = "get"
  /\ aborted' = aborted \cup {cur}
  /\ cur' = None
  /\ spc' = "idle"
  /\ UNCHANGED <<queue, pos, seg, sob, readerVars, sharedVars, linkVars,
                 peerVars, handed, completed, refused, requeued>>

\* The segment carries the last byte of the bundle.
IsLast == pos = SegCount[cur]

\* Seeded error: the segments are counted from zero.
MarkSegmentFromZero ==
  /\ spc = "mark"
  /\ seg' = [b |-> cur, i |-> pos - 1, begin |-> sob, end |-> IsLast]
  /\ skip' = (skip /\ ~sob)
  /\ sob' = IsLast
  /\ spc' = "check"
  /\ UNCHANGED <<queue, cur, pos, sentqueue, segments, readerVars, linkVars,
                 peerVars, reportVars>>

\* overflow() wraps a segment around the buffer.  The END flag is set only by
\* the call from sync(), which finds an empty buffer and returns at once when
\* the bundle ended exactly where the buffer did.
MarkSegment ==
  LET end == IsLast /\ cur \notin Exact IN
  /\ spc = "mark"
  /\ seg' = [b |-> cur, i |-> pos, begin |-> sob, end |-> end]
  /\ skip' = (skip /\ ~sob)
  /\ sob' = end
  /\ spc' = "check"
  /\ UNCHANGED <<queue, cur, pos, sentqueue, segments, readerVars, linkVars,
                 peerVars, reportVars>>

\* What follows a segment that was written or skipped: the next segment, or
\* the next transfer.
SegmentDone ==
  /\ seg' = NoSegment
  /\ IF IsLast
     THEN cur' = None /\ pos' = 1 /\ spc' = "idle"
     ELSE cur' = cur /\ pos' = pos + 1 /\ spc' = "mark"

\* get(STREAM_SKIP) is set: the segment is dropped.
SkipSegment ==
  /\ spc = "check" /\ skip
  /\ SegmentDone
  /\ UNCHANGED <<queue, sob, readerVars, sharedVars, linkVars, peerVars,
                 reportVars>>

CheckSkip ==
  /\ spc = "check" /\ ~skip
  /\ spc' = "push"
  /\ UNCHANGED <<queue, cur, pos, seg, sob, readerVars, sharedVars, linkVars,
                 peerVars, reportVars>>

\* The segment is remembered until it is answered; without ACK support the
\* last one completes the bundle.
PushSegment ==
  /\ spc = "push"
  /\ IF AckSupport
     THEN /\ segments' = Append(segments, seg)
          /\ UNCHANGED <<sentqueue, completed>>
     ELSE /\ IF seg.end THEN EventBundleForwarded
                        ELSE UNCHANGED <<sentqueue, completed>>
          /\ UNCHANGED segments
  /\ spc' = "write"
  /\ UNCHANGED <<queue, cur, pos, seg, sob, skip, readerVars, linkVars,
                 peerVars, handed, refused, aborted, requeued>>

\* Under _sendlock the segment goes onto the stream.
WriteSegment ==
  /\ spc = "write" /\ up
  /\ wire' = Append(wire, seg)
  /\ SegmentDone
  /\ UNCHANGED <<queue, sob, readerVars, sharedVars, up, back, peerVars,
                 reportVars>>

\* The stream went bad: the exception ends run(), Sender::finally() requeues
\* the current transfer.
WriteFails ==
  /\ spc = "write" /\ ~up
  /\ requeued' = requeued \cup {cur}
  /\ spc' = "done"
  /\ UNCHANGED <<queue, cur, pos, seg, sob, readerVars, sharedVars, linkVars,
                 peerVars, handed, completed, refused, aborted>>

\* The loop condition fails or the aborted queue is empty; finally() has no
\* current transfer to requeue.
SenderExits ==
  /\ spc = "idle"
  /\ \/ ~up
     \/ reason /\ queue = <<>>
  /\ spc' = "done"
  /\ UNCHANGED <<queue, cur, pos, seg, sob, readerVars, sharedVars, linkVars,
                 peerVars, reportVars>>

-----------------------------------------------------------------------------
(* The reader thread of the sending node: StreamBuffer::underflow().       *)

\* Seeded error: every ACK completes a bundle, not only that of an END segment.
HandleAckAnySegment ==
  /\ rpc = "idle" /\ back # <<>> /\ Head(back).type = "ACK"
  /\ back' = Tail(back)
  /\ IF segments = <<>>
     THEN UNCHANGED <<segments, sentqueue, completed>>
     ELSE segments' = Tail(segments) /\ EventBundleForwarded
  /\ UNCHANGED <<senderVars, readerVars, skip, up, wire, peerVars, handed,
                 refused, aborted, requeued>>

\* MSG_ACK_SEGMENT: the queue is locked during the whole handler.
HandleAck ==
  /\ rpc = "idle" /\ back # <<>> /\ Head(back).type = "ACK"
  /\ back' = Tail(back)
  /\ IF segments = <<>>
     THEN UNCHANGED <<segments, sentqueue, completed>>
     ELSE /\ segments' = Tail(segments)
          /\ IF Head(segments).end THEN EventBundleForwarded
                                   ELSE UNCHANGED <<sentqueue, completed>>
  /\ UNCHANGED <<senderVars, readerVars, skip, up, wire, peerVars, handed,
                 refused, aborted, requeued>>

\* MSG_REFUSE_BUNDLE for a segment of a transfer already refused.
HandleNackAgain ==
  /\ rpc = "idle" /\ back # <<>> /\ Head(back).type = "NACK"
  /\ rejected # <<>>
  /\ back' = Tail(back)
  /\ rejected' = Tail(rejected)
  /\ UNCHANGED <<senderVars, rpc, reason, listed, sharedVars, up, wire,
                 peerVars, reportVars>>

\* The first MSG_REFUSE_BUNDLE of a transfer: the refused segment leaves the
\* queue, then the handler works on without holding any lock.
HandleNack ==
  /\ rpc = "idle" /\ back # <<>> /\ Head(back).type = "NACK"
  /\ rejected = <<>>
  /\ back' = Tail(back)
  /\ IF segments = <<>> \/ ~AckSupport
     THEN UNCHANGED <<segments, rpc>>
     ELSE segments' = Tail(segments) /\ rpc' = "drain"
  /\ UNCHANGED <<senderVars, rejected, reason, listed, sentqueue, skip, up,
                 wire, peerVars, reportVars>>

\* One round of the loop that moves the rest of the transfer aside.
DrainSegment ==
  /\ rpc = "drain"
  /\ IF segments = <<>> \/ Head(segments).begin
     THEN rpc' = "refuse" /\ UNCHANGED <<segments, rejected>>
     ELSE /\ rejected' = Append(rejected, Head(segments))
          /\ segments' = Tail(segments)
          /\ UNCHANGED rpc
  /\ UNCHANGED <<senderVars, reason, listed, sentqueue, skip, linkVars,
                 peerVars, reportVars>>

RaiseRefused ==
  /\ rpc = "refuse"
  /\ EventBundleRefused
  /\ rpc' = "skipcheck"
  /\ UNCHANGED <<senderVars, rejected, reason, listed, skip, segments,
                 linkVars, peerVars, handed, completed, aborted, requeued>>

\* if (_segments.empty()) ...
CheckEmpty ==
  /\ rpc = "skipcheck"
  /\ rpc' = IF segments = <<>> THEN "setskip" ELSE "idle"
  /\ UNCHANGED <<senderVars, rejected, reason, listed, sharedVars, linkVars,
                 peerVars, reportVars>>

\* ... set(STREAM_SKIP)
SetSkip ==
  /\ rpc = "setskip"
  /\ skip' = TRUE
  /\ rpc' = "idle"
  /\ UNCHANGED <<senderVars, rejected, reason, listed, sentqueue, segments,
                 linkVars, peerVars, reportVars>>

-----------------------------------------------------------------------------
(* Termination of the connection on the sending node.                      *)

\* The socket breaks, or the peer closes it.
LinkDown ==
  /\ up
  /\ up' = FALSE
  /\ UNCHANGED <<senderVars, readerVars, sharedVars, wire, back, peerVars,
                 reportVars>>

\* StreamConnection::shutdown(): only the first caller takes the connection
\* down (CONNECTION_DOWN), which aborts the queue of the Sender thread.
Shutdown == reason' = TRUE

\* TCPConnection::shutdown(), called by closeAll() of the convergence layer:
\* the stream is shut down and the thread stopped, which closes the socket.
CloseConnection ==
  /\ listed
  /\ Shutdown
  /\ up' = FALSE
  /\ UNCHANGED <<senderVars, rejected, rpc, listed, sharedVars, wire, back,
                 peerVars, reportVars>>

\* A read or the handshake fails: run() shuts the stream down and returns.
ReadFails ==
  /\ rpc \in {"handshake", "idle"} /\ ~up
  /\ Shutdown
  /\ rpc' = "down"
  /\ UNCHANGED <<senderVars, rejected, listed, sharedVars, linkVars, peerVars,
                 reportVars>>

\* finally(): the socket is closed and the connection leaves the list.
ConnectionDown ==
  /\ rpc = "down"
  /\ listed' = FALSE
  /\ rpc' = "clearqueue"
  /\ UNCHANGED <<senderVars, rejected, reason, sharedVars, linkVars, peerVars,
                 reportVars>>

\* Seeded error: clearQueue() looks at the bundles in transit only.
ClearQueuedNever ==
  /\ rpc = "clearqueue"
  /\ rpc' = "clearsent"
  /\ UNCHANGED <<senderVars, rejected, reason, listed, sharedVars, linkVars,
                 peerVars, reportVars>>

\* clearQueue(), first loop: one bundle still queued per round.
ClearQueued ==
  /\ rpc = "clearqueue"
  /\ IF queue = <<>>
     THEN rpc' = "clearsent" /\ UNCHANGED <<queue, requeued>>
     ELSE /\ requeued' = requeued \cup {Head(queue)}
          /\ queue' = Tail(queue)
          /\ UNCHANGED rpc
  /\ UNCHANGED <<cur, spc, pos, seg, sob, rejected, reason, listed, sharedVars,
                 linkVars, peerVars, handed, completed, refused, aborted>>

\* clearQueue(), second loop: one bundle in transit per round.
ClearSent ==
  /\ rpc = "clearsent"
  /\ IF sentqueue = <<>>
     THEN rpc' = "gone" /\ UNCHANGED <<sentqueue, requeued>>
     ELSE /\ requeued' = requeued \cup {Head(sentqueue)}
          /\ sentqueue' = Tail(sentqueue)
          /\ UNCHANGED rpc
  /\ UNCHANGED <<senderVars, rejected, reason, listed, skip, segments,
                 linkVars, peerVars, handed, completed, refused, aborted>>

-----------------------------------------------------------------------------
(* The receiving node: StreamBuffer::underflow() below the deserializer of *)
(* TCPConnection::run().                                                   *)

\* An answer goes onto the stream; that it is the answer to s is a history
\* component.
Answer(a, s) ==
  back' = IF up THEN Append(back, [type |-> a, of |-> s]) ELSE back

\* Seeded error: the segments skipped after a rejection are not answered.
ReceiveSegmentSilently ==
  LET s == Head(wire)
      rejecting == reject /\ ~s.begin IN
  /\ instate = "IDLE" /\ wire # <<>>
  /\ wire' = Tail(wire)
  /\ reject' = rejecting
  /\ IF rejecting
     THEN /\ nacked' = nacked \cup {s.b}
          /\ UNCHANGED <<instate, inseg, got>>
     ELSE /\ instate' = "DATA_TRANSFER"
          /\ inseg' = s
          /\ got' = Append(got, s)
          /\ UNCHANGED nacked
  /\ UNCHANGED <<senderVars, readerVars, sharedVars, up, back, received,
                 reportVars>>

\* A data segment is read.  One that does not begin a bundle is skipped and
\* refused after a rejection, any other becomes input of the deserializer.
ReceiveSegment ==
  LET s == Head(wire)
      rejecting == reject /\ ~s.begin IN
  /\ instate = "IDLE" /\ wire # <<>>
  /\ wire' = Tail(wire)
  /\ reject' = rejecting
  /\ IF rejecting
     THEN /\ IF NackSupport THEN Answer("NACK", s) ELSE UNCHANGED back
          /\ nacked' = nacked \cup {s.b}
          /\ UNCHANGED <<instate, inseg, got>>
     ELSE /\ instate' = "DATA_TRANSFER"
          /\ inseg' = s
          /\ got' = Append(got, s)
          /\ UNCHANGED <<back, nacked>>
  /\ UNCHANGED <<senderVars, readerVars, sharedVars, up, received, reportVars>>

\* The first segment announces how much data the bundle has; the bytes that
\* follow are taken for its rest, whichever segment they are in.
Deserialized == got # <<>> /\ Len(got) = SegCount[got[1].b]

\* The data is the bundle that was serialized.
Intact == \A i \in 1..Len(got) : got[i].b = got[1].b /\ got[i].i = i

\* The bundle is complete and BundleReceivedEvent is raised.
DeliverBundle ==
  /\ instate = "DATA_TRANSFER" /\ Deserialized
  /\ got[1].i = 1
  /\ received' = received \cup {IF Intact THEN got[1].b ELSE None}
  /\ got' = <<>>
  /\ UNCHANGED <<senderVars, readerVars, sharedVars, linkVars, instate, inseg, reject,
                 nacked, reportVars>>

\* RejectedException or InvalidDataException: rejectTransmission().
RejectTransmission ==
  /\ instate = "DATA_TRANSFER" /\ got # <<>>
  /\ MayReject \/ ~Intact \/ got[1].i # 1
  /\ reject' = TRUE
  /\ nacked' = nacked \cup {got[i].b : i \in 1..Len(got)}
  /\ got' = <<>>
  /\ UNCHANGED <<senderVars, readerVars, sharedVars, linkVars, instate,
                 inseg, received, reportVars>>

\* The next underflow() answers the segment that was read last.
AnswerSegment ==
  /\ instate = "DATA_TRANSFER" /\ ~Deserialized
  /\ instate' = "IDLE"
  /\ inseg' = NoSegment
  /\ \/ reject /\ NackSupport /\ Answer("NACK", inseg)
     \/ ~reject /\ AckSupport /\ Answer("ACK", inseg)
     \/ ~(IF reject THEN NackSupport ELSE AckSupport) /\ UNCHANGED back
  /\ UNCHANGED <<senderVars, readerVars, sharedVars, up, wire, reject, got,
                 received, nacked, reportVars>>

-----------------------------------------------------------------------------
SenderThread ==
  \/ NextTransfer \/ ReadBundle \/ StreamWentBad \/ BundleDeleted
  \/ MarkSegment \/ SkipSegment \/ CheckSkip \/ PushSegment
  \/ WriteSegment \/ WriteFails \/ SenderExits

ReaderThread ==
  \/ StartSender \/ HandleAck \/ HandleNackAgain \/ HandleNack
  \/ DrainSegment \/ RaiseRefused \/ CheckEmpty \/ SetSkip
  \/ ReadFails \/ ConnectionDown \/ ClearQueued \/ ClearSent

PeerThread ==
  \/ ReceiveSegment \/ DeliverBundle \/ RejectTransmission \/ AnswerSegment

Next ==
  \/ \E b \in Bundles : QueueBundle(b)
  \/ SenderThread
  \/ ReaderThread
  \/ PeerThread
  \/ LinkDown
  \/ CloseConnection

\* Each thread runs on its own; the environment may never act.
Fairness ==
  /\ WF_vars(SenderThread)
  /\ WF_vars(ReaderThread)
  /\ WF_vars(PeerThread)

Spec == Init /\ [][Next]_vars
FairSpec == Spec /\ Fairness

-----------------------------------------------------------------------------
(* Properties.                                                             *)

SenderTypeOK ==
  /\ queue \in Seq(Bundles)
  /\ cur \in Bundles \cup {None}
  /\ spc \in SenderStates
  /\ pos \in Nat \ {0}
  /\ seg \in Segment \cup {NoSegment}
  /\ sob \in BOOLEAN

ReaderTypeOK ==
  /\ rejected \in Seq(Segment)
  /\ rpc \in ReaderStates
  /\ reason \in BOOLEAN /\ listed \in BOOLEAN

SharedTypeOK ==
  /\ sentqueue \in Seq(Bundles)
  /\ skip \in BOOLEAN
  /\ segments \in Seq(Segment)

LinkTypeOK ==
  /\ up \in BOOLEAN
  /\ wire \in Seq(Segment)
  /\ back \in Seq([type : {"ACK", "NACK"}, of : Segment])

PeerTypeOK ==
  /\ instate \in {"IDLE", "DATA_TRANSFER"}
  /\ inseg \in Segment \cup {NoSegment}
  /\ reject \in BOOLEAN
  /\ got \in Seq(Segment)
  /\ received \subseteq Bundles \cup {None} /\ nacked \subseteq Bundles

ReportTypeOK ==
  /\ handed \subseteq Bundles /\ completed \subseteq Bundles
  /\ refused \subseteq Bundles /\ aborted \subseteq Bundles
  /\ requeued \subseteq Bundles

\* Each variable of both nodes and of the link has its type.
TypeOK ==
  /\ SenderTypeOK /\ ReaderTypeOK /\ SharedTypeOK
  /\ LinkTypeOK /\ PeerTypeOK /\ ReportTypeOK

Reported == completed \cup refused \cup aborted \cup requeued

\* The segments the sender keeps for an answer are, in this order, those
\* already answered, the one the peer reads, those in flight and the one about
\* to be written: an ACK or REFUSE always meets the segment it answers, in
\* whichever of the two queues it is (underflow(), ACK and REFUSE cases).
AnswersMeetSegments ==
  up => rejected \o segments =
          [k \in 1..Len(back) |-> back[k].of]
            \o (IF inseg = NoSegment THEN <<>> ELSE <<inseg>>)
            \o wire
            \o (IF spc = "write" THEN <<seg>> ELSE <<>>)

\* As long as the peer has refused nothing, a bundle for which
\* TransferCompletedEvent is raised has arrived at the peer
\* (eventBundleForwarded() pops the sent queue on the ACK of an END segment),
\* the peer takes for a bundle only what was sent as one, and a completed
\* bundle is never put back into routing: the ACK of its END segment and the
\* teardown of the connection never claim the same bundle.
CompletedIsReceived ==
  nacked = {} => /\ completed \subseteq received /\ None \notin received
                 /\ completed \cap requeued = {}

\* When both threads of a connection have ended, every bundle that was handed
\* to it has been reported to the routing modules as completed, refused,
\* aborted or requeued (Sender::finally(), clearQueue()).
NothingForgotten ==
  rpc = "gone" /\ spc \in {"new", "done"} => handed \subseteq Reported

\* A bundle is reported as refused only if the peer refused it
\* (StreamConnection.h: eventBundleRefused()).
RefusedByPeer == refused \subseteq nacked

\* Without ACK support a bundle counts as forwarded as soon as its last
\* segment is sent (overflow()).
ForwardedWithLastSegment ==
  ~AckSupport => \A k \in 1..Len(wire) :
                   wire[k].i = SegCount[wire[k].b] => wire[k].b \in completed

\* Every bundle handed to a connection is eventually reported, as long as the
\* peer refuses nothing.
EveryBundleSettles ==
  \A b \in Bundles : (b \in handed) ~> (b \in Reported \/ nacked # {})
=============================================================================
