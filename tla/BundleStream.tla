----------------------------- MODULE BundleStream -----------------------------
(***************************************************************************)
(* A byte stream over bundles.  The writer cuts the stream into numbered   *)
(* chunks, one bundle each; the network reorders the bundles and loses     *)
(* some; the reader puts them together again.  Both ends exist twice: in   *)
(* the daemon (api/BundleStreamBuf.cpp behind api/OrderedStreamHandler.cpp)*)
(* and in the tool dtnstream; each end may be either.  Byte k of the       *)
(* stream is the number k.  The flag STREAM_BEGIN is written but read by   *)
(* nobody and left out.                                                    *)
(***************************************************************************)
EXTENDS Integers, Sequences, FiniteSets, FiniteSetsExt, SequencesExt

CONSTANTS
    BufSize,        \* BUFF_SIZE, bytes of the put and of the get area
    MaxLost,        \* bound: bundles the network loses
    StreamOptions   \* the parameters of the two ends to try

\* writer, reader: which implementation; total: bytes of the stream; chunk: the
\* chunk size; zero: wait_seq_zero; timeout: a receive timeout is set; foreign:
\* another source also sends to the endpoint; close: the client may hang up.
OptionType ==
    [writer : {"handler", "tool"}, reader : {"handler", "tool"}, total : Nat,
     chunk : Nat, zero : BOOLEAN, timeout : BOOLEAN, foreign : BOOLEAN,
     close : BOOLEAN]

\* Only the handler asks who sent a bundle and can lose its client.
StreamAssumption ==
    /\ BufSize \in Nat \ {0} /\ MaxLost \in Nat
    /\ StreamOptions \subseteq OptionType
    /\ \A o \in StreamOptions : o.reader = "tool" => ~o.foreign /\ ~o.close
    /\ \A o \in StreamOptions : o.writer = "tool" => o.total > 0

VARIABLES
    opt,        \* the parameters of this stream
    w,          \* the writer: bytes taken, bytes in _chunk_payload, _out_seq, _first_chunk
    net,        \* the bundles that are on the way or wait in the registration
    lost,       \* the sequence numbers of the bundles that were lost
    r,          \* the reader
    out,        \* the bytes handed on
    confirmed   \* the chunks reported as delivered to the registration

vars == <<opt, w, net, lost, r, out, confirmed>>

Foreign == [src |-> "other", seq |-> 0, from |-> 100, len |-> 1, last |-> FALSE]

Begin ==
    /\ w = [taken |-> 0, len |-> 0, seq |-> 0, first |-> TRUE, done |-> FALSE]
    /\ net = IF opt.foreign THEN {Foreign} ELSE {}
    /\ lost = {}
    /\ r = [pc |-> "first", chunks |-> {}, seq |-> 0, offset |-> 0,
            streaming |-> opt.zero, last |-> FALSE, aborted |-> FALSE]
    /\ out = <<>> /\ confirmed = {}

Init == opt \in StreamOptions /\ Begin

-------------------------------------------------------------------------------
(* The writer. *)

\* BundleStreamBuf::append()
append(v, n) == [v EXCEPT !.taken = @ + n, !.len = @ + n]

\* The bundle flushPayload() hands to put().  dtnstream sets no flag.
Chunk(v, final) ==
    [src |-> "peer", seq |-> v.seq, from |-> v.taken - v.len, len |-> v.len,
     last |-> final /\ opt.writer = "handler"]

\* The handler sends no bundle while nothing has been written, dtnstream does.
IsFlushed(v) == opt.writer = "tool" \/ ~v.first \/ v.len > 0

\* Seeded error: what is left over when the stream ends is not sent.
FlushPayloadKeeps(v, final) ==
    IF v.len > 0 /\ ~final
    THEN [sent |-> {Chunk(v, final)},
          w    |-> [v EXCEPT !.len = 0, !.seq = @ + 1, !.first = FALSE]]
    ELSE [sent |-> {}, w |-> v]

\* flushPayload(): the bundles sent and the writer after it.
flushPayload(v, final) ==
    IF IsFlushed(v)
    THEN [sent |-> {Chunk(v, final)},
          w    |-> [v EXCEPT !.len = 0, !.seq = @ + 1, !.first = FALSE]]
    ELSE [sent |-> {}, w |-> v]

\* overflow() with n bytes in the put area.
overflow(n) ==
    LET v == append(w, n)
    IN  IF v.len > opt.chunk THEN flushPayload(v, FALSE) ELSE [sent |-> {}, w |-> v]

\* The put area is full.
Overflow ==
    /\ ~w.done /\ opt.total - w.taken >= BufSize
    /\ net' = net \cup overflow(BufSize).sent
    /\ w' = overflow(BufSize).w
    /\ UNCHANGED <<opt, lost, r, out, confirmed>>

\* The input has ended: sync() empties the put area and sends what there is.
Sync ==
    /\ ~w.done /\ opt.total - w.taken < BufSize
    /\ LET rest == overflow(opt.total - w.taken)
           end  == flushPayload(rest.w, TRUE)
       IN  /\ net' = net \cup rest.sent \cup end.sent
           /\ w' = [end.w EXCEPT !.done = TRUE]
    /\ UNCHANGED <<opt, lost, r, out, confirmed>>

\* A bundle expires on its way.
Lose(c) ==
    /\ c \in net /\ c.src = "peer" /\ Cardinality(lost) < MaxLost
    /\ net' = net \ {c} /\ lost' = lost \cup {c.seq}
    /\ UNCHANGED <<opt, w, r, out, confirmed>>

-------------------------------------------------------------------------------
(* The reader: underflow(), called again as soon as the bytes are taken. *)

Lowest(chunks) == Min({c.seq : c \in chunks})

\* Seeded error: a chunk that comes too late is kept.
AcceptsLate(c) == c.src = "peer"

\* A chunk that was not skipped or read before, from the peer; get() of the
\* handler drops bundles of other sources.
Accepts(c) == c.seq >= r.seq /\ (opt.reader = "handler" => c.src = "peer")

\* std::set::insert(): a chunk of the same number stays.
Insert(c) ==
    IF Accepts(c) /\ \A d \in r.chunks : d.seq # c.seq THEN r.chunks \cup {c} ELSE r.chunks

\* _callback.get() of the first loop
GetFirst(c) ==
    /\ opt.reader = "handler" /\ r.pc = "first" /\ r.chunks = {} /\ ~r.last
    /\ c \in net /\ net' = net \ {c}
    /\ r' = [r EXCEPT !.chunks = Insert(c)]
    /\ UNCHANGED <<opt, w, lost, out, confirmed>>

\* received() of dtnstream, called by the thread of the client under the lock
Received(c) ==
    /\ opt.reader = "tool" /\ c \in net /\ net' = net \ {c}
    /\ r' = [r EXCEPT !.chunks = Insert(c)]
    /\ UNCHANGED <<opt, w, lost, out, confirmed>>

\* There is a chunk: the clock of the second loop starts.
EnterGap ==
    /\ r.pc = "first" /\ r.chunks # {} /\ ~r.last
    /\ r' = [r EXCEPT !.pc = "gap"]
    /\ UNCHANGED <<opt, w, net, lost, out, confirmed>>

InGap == r.pc = "gap" /\ r.seq # Lowest(r.chunks)

\* The end of the loop: if the timeout has elapsed, or for the first chunk of a
\* stream joined late, the missing chunks are skipped.
Skip(chunks, elapsed) ==
    IF elapsed \/ ~r.streaming
    THEN [r EXCEPT !.chunks = chunks, !.seq = Lowest(chunks), !.streaming = TRUE]
    ELSE [r EXCEPT !.chunks = chunks]

\* _callback.get(_timeout_receive) of the second loop returns; a bundle of
\* another source does not end it.
GetNext(c) ==
    /\ opt.reader = "handler" /\ InGap
    /\ c \in net /\ net' = net \ {c}
    /\ \E elapsed \in {FALSE, opt.timeout} :
         r' = IF c.src = "peer" THEN Skip(Insert(c), elapsed) ELSE r
    /\ UNCHANGED <<opt, w, lost, out, confirmed>>

\* The wait of the second loop ends without a bundle: a timeout, an abort (the
\* exception is taken for a timeout) or, in dtnstream, the second it waits.
WaitNext ==
    /\ InGap
    /\ opt.timeout \/ r.aborted \/ opt.reader = "tool"
    /\ \E elapsed \in {FALSE, opt.timeout} : r' = Skip(r.chunks, elapsed)
    /\ UNCHANGED <<opt, w, net, lost, out, confirmed>>

\* What one read from the offset gets.
Bytes(c) == Min({BufSize, c.len - r.offset})

\* The end of the chunk is seen only by a read that gets less than it asked for.
AtEnd(c) == c.len - r.offset < BufSize

\* The reader after the chunk has been read: only the handler looks at the flag
\* of the last one.
Consumed(c) ==
    [r EXCEPT !.pc = "first", !.chunks = @ \ {c}, !.offset = 0, !.seq = @ + 1,
              !.last = c.last /\ opt.reader = "handler"]

Read ==
    /\ r.pc = "gap" /\ ~InGap
    /\ \E c \in r.chunks :
         /\ c.seq = r.seq
         /\ out' = out \o [i \in 1..Bytes(c) |-> c.from + r.offset + i]
         /\ r' = IF AtEnd(c) THEN Consumed(c)
                 ELSE [r EXCEPT !.pc = "first", !.offset = @ + Bytes(c)]
         /\ confirmed' = IF AtEnd(c) /\ opt.reader = "handler"
                         THEN confirmed \cup {c} ELSE confirmed
    /\ UNCHANGED <<opt, w, net, lost>>

\* The client of the handler is gone: finally() aborts the registration.
Close ==
    /\ opt.close /\ ~r.aborted /\ r.pc # "ended"
    /\ r' = [r EXCEPT !.aborted = TRUE]
    /\ UNCHANGED <<opt, w, net, lost, out, confirmed>>

\* Sender::run() returns: the last chunk was read, the exception of the abort
\* has left underflow(), or nothing can be written any more.
End ==
    /\ r.pc = "first" /\ (r.last \/ r.aborted)
    /\ r' = [r EXCEPT !.pc = "ended"]
    /\ UNCHANGED <<opt, w, net, lost, out, confirmed>>

Writing == Overflow \/ Sync

Arrive == \E c \in net : GetFirst(c) \/ Received(c) \/ GetNext(c)

Reading == EnterGap \/ Read \/ End

Next == Writing \/ Reading \/ Arrive \/ WaitNext \/ Close \/ \E c \in net : Lose(c)

\* A timeout that is due is noticed: only the step that skips changes anything.
Fairness == /\ WF_vars(Writing) /\ WF_vars(Reading)
            /\ WF_vars(Arrive) /\ WF_vars(WaitNext)

-------------------------------------------------------------------------------
(* The bytes are handed on in their order, none twice and none of another  *)
(* source; none is missing if the reader waits for the first chunk and has *)
(* no timeout; and a chunk is reported as delivered, so that the storage   *)
(* may drop it, only after all its bytes have been handed on.              *)
OutputIsInput ==
    /\ \A i, j \in DOMAIN out : i < j => out[i] < out[j]
    /\ \A i \in DOMAIN out : out[i] \in 1..opt.total
    /\ opt.zero /\ ~opt.timeout => \A i \in DOMAIN out : out[i] = i
    /\ \A c \in confirmed : (c.from + 1)..(c.from + c.len) \subseteq ToSet(out)

\* Nothing keeps the end of the stream from the reader: its bundle was not lost
\* and the missing chunks can be waited for or skipped.
Readable ==
    /\ ~opt.close /\ w.seq - 1 \notin lost
    /\ opt.timeout \/ (opt.zero /\ lost = {})

(* A stream is read to its end: every chunk is read or, with a timeout,    *)
(* given up, and the daemon's reader learns the end from the daemon's      *)
(* writer.                                                                 *)
StreamIsRead ==
    w.done ~> \/ ~Readable
              \/ /\ r.seq = w.seq /\ r.chunks = {}
                 /\ w.seq > 0 /\ opt.reader = opt.writer /\ opt.reader = "handler" => r.pc = "ended"

(* When the client of the handler hangs up, the thread that reads for it   *)
(* ends, unless it waits for a missing chunk without a timeout.            *)
ClosedIsEnded == r.aborted ~> (r.pc = "ended" \/ (InGap /\ ~opt.timeout))
===============================================================================
