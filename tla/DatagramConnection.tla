------------------------- MODULE DatagramConnection -------------------------
(***************************************************************************)
(* The datagram convergence layer (UDP and 802.15.4): the jobs of node A   *)
(* for node B.  A has the Sender thread of its DatagramConnection and the  *)
(* thread that takes the connection down; B has the receive thread of      *)
(* DatagramConvergenceLayer, which feeds the one-segment buffer of the     *)
(* stream while it holds the lock on all connections, and the connection's *)
(* thread, which deserializes bundles out of that buffer.  Either node     *)
(* creates a connection with fresh sequence numbers whenever it has none.  *)
(*                                                                         *)
(* Datagrams and ACKs may be lost and may arrive after the timeout, but    *)
(* they do not overtake each other.                                        *)
(***************************************************************************)
EXTENDS Naturals, Sequences, FiniteSets

CONSTANTS
  Jobs,       \* the jobs the routing modules queue
  SegCount,   \* how many segments each of them fills
  Exact,      \* those whose length is a multiple of the segment size
  Invalid,    \* those B's deserializer does not accept
  MaxSeq,     \* max_seq_numbers
  Retries,    \* transmissions of a segment (5 in stream_send())
  StopNWait,  \* FLOW_STOPNWAIT; else FLOW_NONE
  MayStop,    \* the component may be shut down (componentDown())
  Timely,     \* an answer that comes at all comes before the timeout
  MaxLoss,    \* bound on the datagrams lost
  None        \* no job, no segment, no sequence number

ASSUME DatagramAssumption ==
  /\ Jobs # {} /\ SegCount \in [Jobs -> Nat \ {0}]
  /\ Exact \subseteq Jobs /\ Invalid \subseteq Jobs
  /\ MaxSeq \in Nat \ {0, 1} /\ Retries \in Nat \ {0} /\ MaxLoss \in Nat
  /\ StopNWait \in BOOLEAN /\ MayStop \in BOOLEAN /\ Timely \in BOOLEAN
  /\ None \notin Jobs /\ None \notin Nat

VARIABLES
  \* node A
  aconn,      \* the connection: none, up, stopping
  aabort,     \* Stream::_abort
  queue,      \* Sender::queue
  cur,        \* Sender::_current_job
  spc,        \* where the Sender thread is
  pos,        \* segment of cur that overflow() sends
  outseq,     \* out_seq_num_
  first,      \* _out_state has SEGMENT_FIRST
  tries,      \* transmissions of the current segment
  waitack, lastack,
  bad,        \* the badbit of the stream
  \* the network
  net, acks,  \* segments towards B, acknowledgements towards A
  losses,     \* datagrams lost so far
  late,       \* a connection of A began while the network or B's receive
              \* thread still held something of an earlier one (history)
  \* node B
  bconn,      \* the connection: none, open, dying, closed
  babort,     \* Stream::_abort
  inseq,      \* in_seq_num_
  instate,    \* _in_state
  pending,    \* the segment the receive thread wants to store
  buf,        \* _queue_buf
  got,        \* the data the running deserialization has consumed
  \* history
  handed, completed, requeued, failed, received

senderVars  == <<aabort, queue, cur, spc, pos, outseq, first, tries, waitack, bad>>
aVars       == <<aconn, lastack, senderVars>>
netVars     == <<net, acks, losses, late>>
bVars       == <<bconn, babort, inseq, instate, pending, buf, got, received>>
reportVars  == <<handed, completed, requeued, failed>>

vars == <<aVars, netVars, bVars, reportVars>>

Segment == [b : Jobs, i : Nat \ {0}, seq : 0..(MaxSeq - 1),
            first : BOOLEAN, last : BOOLEAN]

ASSUME NoneAssumption == None \notin Segment

Init ==
  /\ aconn = "none" /\ aabort = FALSE /\ queue = <<>> /\ cur = None
  /\ spc = "idle" /\ pos = 1 /\ outseq = 0 /\ first = TRUE /\ tries = 0
  /\ waitack = None /\ lastack = None /\ bad = FALSE
  /\ net = <<>> /\ acks = <<>> /\ losses = 0 /\ late = FALSE
  /\ bconn = "none" /\ babort = FALSE /\ inseq = 0 /\ instate = "FIRST"
  /\ pending = None /\ buf = None /\ got = <<>>
  /\ handed = {} /\ completed = {} /\ requeued = {} /\ failed = {}
  /\ received = {}

-----------------------------------------------------------------------------
(* Node A: the convergence layer.                                          *)

\* getConnection(): an unknown peer gets a new connection.
GetConnection == aconn' = IF aconn = "none" THEN "up" ELSE aconn

\* DatagramConvergenceLayer::queue(), under the lock on the connections.
QueueJob(j) ==
  /\ j \notin handed
  /\ GetConnection
  /\ queue' = Append(queue, j)
  /\ handed' = handed \cup {j}
  /\ UNCHANGED <<lastack, aabort, cur, spc, pos, outseq, first, tries, waitack,
                 bad, netVars, bVars, completed, requeued, failed>>

\* HEADER_ACK in componentRun() and DatagramConnection::ack(): only the number
\* that is waited for is taken over.
ReceiveAck ==
  /\ acks # <<>>
  /\ acks' = Tail(acks)
  /\ GetConnection
  /\ lastack' = IF Head(acks) = waitack THEN waitack ELSE lastack
  /\ UNCHANGED <<senderVars, net, losses, late, bVars, reportVars>>

\* DatagramConnection::shutdown() by componentDown().
ShutdownA ==
  /\ MayStop /\ aconn = "up"
  /\ aabort' = TRUE
  /\ UNCHANGED <<aconn, lastack, queue, cur, spc, pos, outseq, first, tries,
                 waitack, bad, netVars, bVars, reportVars>>

-----------------------------------------------------------------------------
(* Node A: the Sender thread.                                              *)

StartTransfer ==
  /\ spc = "idle" /\ aconn # "none" /\ ~bad /\ queue # <<>>
  /\ cur' = Head(queue)
  /\ queue' = Tail(queue)
  /\ spc' = "get"
  /\ UNCHANGED <<aconn, lastack, aabort, pos, outseq, first, tries, waitack,
                 bad, netVars, bVars, reportVars>>

\* storage.get() returns the bundle and the serializer begins to write it.
ReadBundle ==
  /\ spc = "get"
  /\ pos' = 1
  /\ first' = TRUE
  /\ spc' = "send"
  /\ UNCHANGED <<aconn, lastack, aabort, queue, cur, outseq, tries, waitack,
                 bad, netVars, bVars, reportVars>>

\* An exception ends run(): the connection is stopped and finally() puts the
\* job back into the queue.
PutBack ==
  /\ queue' = Append(queue, cur)
  /\ cur' = None
  /\ aabort' = TRUE
  /\ spc' = "done"

\* storage.get() throws: the bundle was deleted since it was queued.
BundleMissing ==
  /\ spc = "get"
  /\ PutBack
  /\ UNCHANGED <<aconn, lastack, pos, outseq, first, tries, waitack, bad,
                 netVars, bVars, reportVars>>

IsLast == pos = SegCount[cur]

\* The segment overflow() hands to stream_send().  SEGMENT_LAST is set by
\* sync(), which finds nothing to send when the bundle ended with the buffer.
OutSegment == [b |-> cur, i |-> pos, seq |-> outseq, first |-> first,
               last |-> IsLast /\ cur \notin Exact]

\* TransferCompletedEvent, and the job is cleared.
Complete ==
  /\ completed' = completed \cup {cur}
  /\ cur' = None
  /\ spc' = "idle"

\* Back in overflow(): the next segment, or the end of the transfer.
Advance ==
  /\ outseq' = (outseq + 1) % MaxSeq
  /\ first' = FALSE
  /\ IF IsLast
     THEN Complete /\ UNCHANGED pos
     ELSE pos' = pos + 1 /\ spc' = "send" /\ UNCHANGED <<cur, completed>>

\* stream_send(): the first transmission.  Without flow control it is a
\* success by default.
SendSegment ==
  /\ spc = "send" /\ ~aabort
  /\ waitack' = outseq
  /\ tries' = 1
  /\ net' = Append(net, OutSegment)
  /\ IF StopNWait
     THEN spc' = "wait" /\ UNCHANGED <<outseq, first, pos, cur, completed>>
     ELSE Advance
  /\ UNCHANGED <<aconn, lastack, aabort, queue, bad, acks, losses, late, bVars,
                 handed, requeued, failed>>

Acknowledged ==
  /\ spc = "wait" /\ lastack = waitack
  /\ Advance
  /\ UNCHANGED <<aconn, lastack, aabort, queue, tries, waitack, bad, netVars,
                 bVars, handed, requeued, failed>>

\* Nothing that could bring the ACK is under way.
NoAnswerComing == net = <<>> /\ acks = <<>> /\ pending = None

\* The wait for the ACK runs into the timeout, or finally() has aborted it.
TimedOut ==
  /\ spc = "wait" /\ lastack # waitack
  /\ ~Timely \/ NoAnswerComing \/ aconn = "stopping"

Retransmit ==
  /\ TimedOut /\ tries < Retries
  /\ tries' = tries + 1
  /\ net' = Append(net, OutSegment)
  /\ UNCHANGED <<aconn, lastack, aabort, queue, cur, spc, pos, outseq, first,
                 waitack, bad, acks, losses, late, bVars, reportVars>>

\* The DatagramException thrown by overflow() stops at the std::ostream that
\* called it, which sets the badbit.  The copy of a payload (external) may
\* notice that; flush() does not.
TransmissionFails ==
  /\ \/ TimedOut /\ tries = Retries
     \/ spc = "send" /\ aabort
  /\ bad' = TRUE
  /\ failed' = failed \cup {cur}
  /\ \/ Complete /\ UNCHANGED <<queue, aabort>>
     \/ (~IsLast \/ cur \in Exact) /\ PutBack /\ UNCHANGED completed
  /\ UNCHANGED <<aconn, lastack, pos, outseq, first, tries, waitack, netVars,
                 bVars, handed, requeued>>

\* run() ends because the stream is bad, or because the queue was aborted;
\* finally() puts back a current job, if there is one.
SenderExits ==
  /\ spc = "idle" /\ aconn # "none"
  /\ bad \/ aconn = "stopping"
  /\ spc' = "done"
  /\ aabort' = TRUE
  /\ queue' = IF cur = None THEN queue ELSE Append(queue, cur)
  /\ cur' = None
  /\ UNCHANGED <<aconn, lastack, pos, outseq, first, tries,
                 waitack, bad, netVars, bVars, reportVars>>

-----------------------------------------------------------------------------
(* Node A: the thread of the connection takes it down.                     *)

\* underflow() finds the aborted stream, run() ends and finally() begins.
StopConnection ==
  /\ aconn = "up" /\ aabort
  /\ aconn' = "stopping"
  /\ UNCHANGED <<lastack, senderVars, netVars, bVars, reportVars>>

\* Seeded error: the jobs still queued are dropped with the connection.
JoinSenderForgets ==
  /\ aconn = "stopping" /\ spc = "done"
  /\ aconn' = "none"
  /\ queue' = <<>>
  /\ aabort' = FALSE /\ spc' = "idle" /\ pos' = 1 /\ outseq' = 0
  /\ first' = TRUE /\ tries' = 0 /\ waitack' = None /\ lastack' = None
  /\ bad' = FALSE
  /\ late' = (late \/ ~NoAnswerComing)
  /\ UNCHANGED <<cur, net, acks, losses, bVars, reportVars>>

\* join(), connectionDown() and clearQueue(): every job still queued is handed
\* back to the routing modules, then the object is deleted.
JoinSender ==
  /\ aconn = "stopping" /\ spc = "done"
  /\ aconn' = "none"
  /\ requeued' = requeued \cup {queue[i] : i \in 1..Len(queue)}
  /\ queue' = <<>>
  /\ aabort' = FALSE /\ spc' = "idle" /\ pos' = 1 /\ outseq' = 0
  /\ first' = TRUE /\ tries' = 0 /\ waitack' = None /\ lastack' = None
  /\ bad' = FALSE
  /\ late' = (late \/ ~NoAnswerComing)
  /\ UNCHANGED <<cur, net, acks, losses, bVars, handed, completed, failed>>

-----------------------------------------------------------------------------
(* The network.                                                            *)

LoseSegment ==
  /\ losses < MaxLoss /\ net # <<>>
  /\ net' = Tail(net)
  /\ losses' = losses + 1
  /\ UNCHANGED <<aVars, acks, late, bVars, reportVars>>

LoseAck ==
  /\ losses < MaxLoss /\ acks # <<>>
  /\ acks' = Tail(acks)
  /\ losses' = losses + 1
  /\ UNCHANGED <<aVars, net, late, bVars, reportVars>>

-----------------------------------------------------------------------------
(* Node B: the receive thread, DatagramConnection::queue().                *)

SendAck(s) == acks' = IF StopNWait THEN Append(acks, s.seq) ELSE acks

\* Seeded error: a segment is accepted whatever its number is.
OutOfBoundNever(s) == FALSE

\* The checks of Stream::queue().
OutOfBound(s) == inseq # s.seq
WrongMark(s) == (instate = "FIRST") # s.first

\* A segment for an aborted stream is dropped.
DropSegment ==
  /\ pending = None /\ net # <<>> /\ babort
  /\ net' = Tail(net)
  /\ UNCHANGED <<aVars, acks, losses, late, bVars, reportVars>>

\* A segment with the wrong number or mark aborts the stream.  Only the first
\* segment with a wrong number raises an exception; otherwise queue() returns
\* and the segment is acknowledged although it was dropped.
RefuseSegment ==
  LET s == Head(net) IN
  /\ pending = None /\ net # <<>> /\ ~babort
  /\ OutOfBound(s) \/ WrongMark(s)
  /\ net' = Tail(net)
  /\ babort' = TRUE
  /\ bconn' = IF bconn = "none" THEN "open" ELSE bconn
  /\ IF OutOfBound(s) /\ s.first THEN UNCHANGED acks ELSE SendAck(s)
  /\ UNCHANGED <<aVars, losses, late, inseq, instate, pending, buf, got, received,
                 reportVars>>

\* The expected segment: the state is updated, then the thread waits for the
\* buffer, with the lock on all connections held.
AcceptSegment ==
  LET s == Head(net) IN
  /\ pending = None /\ net # <<>> /\ ~babort
  /\ ~OutOfBound(s) /\ ~WrongMark(s)
  /\ net' = Tail(net)
  /\ bconn' = IF bconn = "none" THEN "open" ELSE bconn
  /\ instate' = IF s.last THEN "FIRST" ELSE "MIDDLE"
  /\ inseq' = (inseq + 1) % MaxSeq
  /\ pending' = s
  /\ UNCHANGED <<aVars, acks, losses, late, babort, buf, got, received, reportVars>>

\* The buffer is free: the segment is copied and then acknowledged.
StoreSegment ==
  /\ pending # None /\ buf = None
  /\ buf' = pending
  /\ SendAck(pending)
  /\ pending' = None
  /\ UNCHANGED <<aVars, net, losses, late, bconn, babort, inseq, instate, got,
                 received, reportVars>>

\* close() aborts the condition the receive thread waits on.
WaitAborted ==
  /\ pending # None /\ bconn = "closed"
  /\ pending' = None
  /\ UNCHANGED <<aVars, netVars, bconn, babort, inseq, instate, buf, got,
                 received, reportVars>>

-----------------------------------------------------------------------------
(* Node B: the thread of the connection.                                   *)

Deserialized == got # <<>> /\ Len(got) = SegCount[got[1].b]

Intact == \A i \in 1..Len(got) : got[i].b = got[1].b /\ got[i].i = i

\* underflow(): the deserializer needs data and the buffer has some.
Underflow ==
  /\ bconn = "open" /\ ~Deserialized /\ buf # None
  /\ got' = Append(got, buf)
  /\ buf' = None
  /\ UNCHANGED <<aVars, netVars, bconn, babort, inseq, instate, pending,
                 received, reportVars>>

InvalidData == \E i \in 1..Len(got) : got[i].b \in Invalid

\* BundleReceivedEvent.  Whether data of an invalid bundle behind the head of
\* a valid one is noticed depends on what is wrong with it.
DeliverBundle ==
  /\ bconn = "open" /\ Deserialized /\ got[1].b \notin Invalid
  /\ received' = received \cup {IF Intact THEN got[1].b ELSE None}
  /\ got' = <<>>
  /\ UNCHANGED <<aVars, netVars, bconn, babort, inseq, instate, pending, buf,
                 reportVars>>

\* Seeded error: an aborted stream is left with data in its buffer.
ReaderExitsEarly ==
  /\ bconn = "open"
  /\ InvalidData \/ (~Deserialized /\ babort)
  /\ bconn' = "dying"
  /\ UNCHANGED <<aVars, netVars, babort, inseq, instate, pending, buf, got,
                 received, reportVars>>

\* run() ends: the bundle is invalid, or the aborted stream has no data left.
ReaderExits ==
  /\ bconn = "open"
  /\ \/ InvalidData
     \/ ~Deserialized /\ buf = None /\ babort
  /\ bconn' = "dying"
  /\ UNCHANGED <<aVars, netVars, babort, inseq, instate, pending, buf, got,
                 received, reportVars>>

\* Stream::close() waits until the buffer is empty.
CloseStream ==
  /\ bconn = "dying" /\ buf = None
  /\ babort' = TRUE
  /\ bconn' = "closed"
  /\ UNCHANGED <<aVars, netVars, inseq, instate, pending, buf, got, received,
                 reportVars>>

\* connectionDown() needs the lock the receive thread holds while it waits.
ConnectionDown ==
  /\ bconn = "closed" /\ pending = None
  /\ bconn' = "none" /\ babort' = FALSE /\ inseq' = 0 /\ instate' = "FIRST"
  /\ buf' = None /\ got' = <<>>
  /\ UNCHANGED <<aVars, netVars, pending, received, reportVars>>

-----------------------------------------------------------------------------
SenderThread ==
  \/ StartTransfer \/ ReadBundle \/ BundleMissing \/ SendSegment
  \/ Acknowledged \/ Retransmit \/ TransmissionFails \/ SenderExits

ConnectionThread == StopConnection \/ JoinSender

ReceiveThread ==
  \/ DropSegment \/ RefuseSegment \/ AcceptSegment \/ StoreSegment
  \/ WaitAborted

ReaderThread ==
  \/ Underflow \/ DeliverBundle \/ ReaderExits \/ CloseStream \/ ConnectionDown

Next ==
  \/ \E j \in Jobs : QueueJob(j)
  \/ ReceiveAck \/ ShutdownA
  \/ SenderThread \/ ConnectionThread
  \/ LoseSegment \/ LoseAck
  \/ ReceiveThread \/ ReaderThread

\* Every thread runs; jobs, shutdown and loss are up to the environment.
Fairness ==
  /\ WF_vars(SenderThread) /\ WF_vars(ConnectionThread)
  /\ WF_vars(ReceiveAck)
  /\ WF_vars(ReceiveThread) /\ WF_vars(ReaderThread)

Spec == Init /\ [][Next]_vars
FairSpec == Spec /\ Fairness

-----------------------------------------------------------------------------
(* Properties.                                                             *)

\* Each variable of both nodes and of the network has its type.
TypeOK ==
  /\ aconn \in {"none", "up", "stopping"} /\ aabort \in BOOLEAN
  /\ queue \in Seq(Jobs) /\ cur \in Jobs \cup {None}
  /\ spc \in {"idle", "get", "send", "wait", "done"}
  /\ pos \in Nat \ {0} /\ outseq \in 0..(MaxSeq - 1) /\ first \in BOOLEAN
  /\ tries \in 0..Retries /\ bad \in BOOLEAN
  /\ waitack \in 0..(MaxSeq - 1) \cup {None}
  /\ lastack \in 0..(MaxSeq - 1) \cup {None}
  /\ net \in Seq(Segment) /\ acks \in Seq(0..(MaxSeq - 1))
  /\ losses \in 0..MaxLoss /\ late \in BOOLEAN
  /\ bconn \in {"none", "open", "dying", "closed"} /\ babort \in BOOLEAN
  /\ inseq \in 0..(MaxSeq - 1) /\ instate \in {"FIRST", "MIDDLE"}
  /\ pending \in Segment \cup {None} /\ buf \in Segment \cup {None}
  /\ got \in Seq(Segment)
  /\ handed \subseteq Jobs /\ completed \subseteq Jobs
  /\ requeued \subseteq Jobs /\ failed \subseteq Jobs
  /\ received \subseteq Jobs \cup {None}

\* What B takes for a bundle is one that A sent: retransmissions, losses and
\* new connections on either side never make the deserializer join segments
\* of different transfers (the number and mark checks of Stream::queue()).
\* The numbers begin anew with each connection of A, so this needs that
\* nothing of an earlier one is still under way when the next begins.
AssembledIntact == ~late => None \notin received

\* The same whatever is under way.  The code does not ensure this: a segment
\* of an earlier connection can fill the gap of a lost one, and its ACK is
\* taken for that of the lost one.
AlwaysIntact == None \notin received

\* On a network that loses and delays nothing, a job whose segments were all
\* acknowledged has arrived once B has read what it holds (the ACK is sent
\* when the segment is in the buffer).
CompletedIsDelivered ==
  NoAnswerComing /\ buf = None /\ ~Deserialized =>
    completed \ failed \subseteq received

\* A job counts as completed only if each of its segments was acknowledged
\* (clearQueue(): bundles without an ACK are aborted).
CompletedIsAcknowledged == completed \cap failed = {}

\* Every job handed to the layer is eventually completed or handed back.
EveryJobSettles ==
  \A j \in Jobs : (j \in handed) ~> (j \in completed \cup requeued)

\* A connection that is being closed goes away: close() ends every blocking
\* call on the stream and returns, unless the reader has met an invalid bundle.
CloseTerminates == (bconn = "dying") ~> (bconn # "dying" \/ InvalidData)

\* A connection that is being closed always goes away (DatagramConnection.h).
CloseAlwaysTerminates == (bconn = "dying") ~> (bconn # "dying")
=============================================================================
