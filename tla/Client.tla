-------------------------------- MODULE Client --------------------------------
(***************************************************************************)
(* The client library (ibrdtn/api/Client.cpp) under the command line tools *)
(* that use it: the main thread of the tool, the AsyncReceiver thread of   *)
(* the client, the daemon, which may be restarted, and one signal that     *)
(* asks the tool to stop.  What the tools print is left out.               *)
(***************************************************************************)
EXTENDS Naturals, Sequences, FiniteSets

CONSTANTS
    Programs,   \* the tools and parameters to try
    Parts,      \* parts a second is divided into by the clock of dtnping
    MaxFlips,   \* bound: how often the daemon stops or starts
    MaxFiles    \* bound: files put into the outbox

\* count: bundles to send or to receive; left: the time dtnping waits for a
\* reply, in parts of a second, 0 with --nowait; stop: --abortfail; timeout: a
\* receive timeout is set; air: bundles addressed to the tool.
ProgramType ==
    [tool : {"ping", "recv", "inbox", "trigger", "outbox", "trace", "send"},
     count : Nat,
     left : Nat, stop : BOOLEAN, timeout : BOOLEAN, air : SUBSET [seq : Nat, src : STRING]]

\* What is assumed of the constants, stated as an assumption by Applications.
ClientAssumption ==
    /\ Programs \subseteq ProgramType /\ Parts \in Nat \ {0}
    /\ MaxFlips \in Nat /\ MaxFiles \in Nat

VARIABLES
    prog,       \* the tool and its parameters
    pc,         \* where its main thread is
    daemon,     \* the daemon runs
    flips,      \* how often that has changed
    conn,       \* the connection: "none", "open", "closed"
    shut,       \* _shutdown_reason is set
    rcv,        \* the receiver thread: "off", "run", "end"
    inq,        \* _inqueue
    aborted,    \* _inqueue has been aborted
    exported,   \* the signal handler knows the connection
    sig,        \* the signal: "none", "taken", "lost"
    running,    \* _running of the tools that connect again
    backoff,    \* seconds until the next attempt
    exc,        \* the exception that is unwound: "none", "io", "other"
    seq,        \* bundles sent by dtnping, dtnsend and dtntracepath
    left,       \* wait of waitForReply()
    paused,     \* __pause has been aborted
    counted,    \* the replies dtnping counts, each for the bundle it has sent last
    taken,      \* bundles received
    air,        \* bundles on their way to the tool
    files,      \* [box, held, sent, new], files of the outbox
    mode        \* MODE_SENDONLY or MODE_BIDIRECTIONAL

link == <<conn, shut, rcv, inq, aborted, exported>>
vars == <<prog, pc, daemon, flips, link, sig, running, backoff, exc, seq, left, paused,
          counted, taken, air, files, mode>>

\* The tools that connect again.
Reconnects == {"inbox", "trigger", "outbox"}

Begin ==
    /\ pc = IF prog.tool \in Reconnects THEN "start" ELSE "open"
    /\ flips = 0
    /\ conn = "none" /\ shut = FALSE /\ rcv = "off" /\ inq = <<>> /\ aborted = FALSE
    /\ exported = FALSE /\ sig = "none" /\ running = TRUE /\ backoff = 2 /\ exc = "none"
    /\ seq = 0 /\ left = 0 /\ paused = FALSE /\ counted = <<>> /\ taken = 0
    /\ air = prog.air
    /\ files = [box |-> 0, held |-> 0, sent |-> 0, new |-> 0]
    /\ mode = IF prog.tool \in {"send", "outbox"} \/ (prog.tool = "ping" /\ prog.left = 0)
              THEN "sendonly" ELSE "bidirectional"

Init == prog \in Programs /\ daemon \in BOOLEAN /\ Begin

own == <<seq, left, paused, counted, taken, files>>
still == <<prog, daemon, flips, sig, running, mode>>

-------------------------------------------------------------------------------
(* The connection. *)

\* StreamConnection::shutdown(): the first call tears the connection down, and
\* eventConnectionDown() aborts the queue; later calls do nothing.
Shutdown ==
    /\ shut' = TRUE
    /\ aborted' = (aborted \/ ~shut)
    /\ conn' = "closed"

\* The outer loop of dtninbox, dtntrigger and dtnoutbox.
Start ==
    /\ pc = "start" /\ pc' = IF running THEN "open" ELSE "end"
    /\ UNCHANGED <<still, link, backoff, exc, own, air>>

\* tcpclient connects; the client is built and made known to the handler.
Open ==
    /\ pc = "open" /\ daemon
    /\ conn' = "open" /\ shut' = FALSE /\ rcv' = "off" /\ inq' = <<>> /\ aborted' = FALSE
    /\ exported' = (prog.tool \notin {"trace", "send"})
    /\ pc' = "connect"
    /\ UNCHANGED <<still, backoff, exc, own, air>>

\* Seeded error: the failed attempt ends the tool.
OpenFailsForGood ==
    /\ pc = "open" /\ ~daemon /\ pc' = "end"
    /\ UNCHANGED <<still, link, backoff, exc, own, air>>

\* SocketException
OpenFails ==
    /\ pc = "open" /\ ~daemon
    /\ pc' = IF prog.tool \notin Reconnects THEN "end"
             ELSE IF running THEN "backoff" ELSE "start"
    /\ UNCHANGED <<still, link, backoff, exc, own, air>>

\* Client::connect(): the handshake, and the receiver is started.
Connect ==
    /\ pc = "connect" /\ conn = "open"
    /\ rcv' = "run" /\ backoff' = 2
    /\ pc' = CASE prog.tool \in {"ping", "send", "trace"} -> "echo"
               [] prog.tool = "recv" -> "get"
               [] OTHER -> "loop"
    /\ UNCHANGED <<still, conn, shut, inq, aborted, exported, exc, own, air>>

ConnectFails ==
    /\ pc = "connect" /\ conn = "closed"
    /\ Shutdown /\ exc' = "io" /\ pc' = "unwind"
    /\ UNCHANGED <<still, rcv, inq, exported, backoff, own, air>>

\* Client::close() of the main thread, then tcpclient::close()
Close ==
    /\ pc = "close" /\ Shutdown /\ pc' = "unwind"
    /\ UNCHANGED <<still, rcv, inq, exported, backoff, exc, own, air>>

\* Client::~Client() stops the receiver, closes the stream and joins the thread.
Destroy ==
    /\ pc = "unwind" /\ conn = "open" /\ conn' = "closed"
    /\ UNCHANGED <<still, pc, shut, rcv, inq, aborted, exported, backoff, exc, own, air>>

\* Their handlers: an IOException is followed by a pause,
\* any other exception by the next attempt.  The other tools end.
Unwound ==
    /\ pc = "unwind" /\ conn = "closed" /\ rcv # "run"
    /\ exported' = FALSE /\ exc' = "none"
    /\ pc' = IF prog.tool \notin Reconnects THEN "end"
             ELSE IF exc = "io" /\ running THEN "backoff" ELSE "start"
    /\ UNCHANGED <<still, conn, shut, rcv, inq, aborted, backoff, own, air>>

Backoff ==
    /\ pc = "backoff" /\ pc' = "start"
    /\ backoff' = IF backoff < 600 THEN backoff * 2 ELSE backoff
    /\ UNCHANGED <<still, link, exc, own, air>>

-------------------------------------------------------------------------------
(* The receiver thread. *)

\* run() has read a bundle; received() discards it in send only mode.
Receive ==
    /\ rcv = "run" /\ conn = "open"
    /\ \E b \in air :
         /\ air' = air \ {b}
         /\ inq' = IF mode = "sendonly" THEN inq ELSE Append(inq, b)
    /\ UNCHANGED <<still, pc, conn, shut, rcv, aborted, exported, backoff, exc, own>>

\* Seeded error: the receiver ends without telling anybody.
ReceiveFailsQuietly ==
    /\ rcv = "run" /\ conn = "closed" /\ rcv' = "end"
    /\ UNCHANGED <<still, pc, conn, shut, inq, aborted, exported, backoff, exc, own, air>>

\* Reading fails: shutdown(CONNECTION_SHUTDOWN_ERROR), and the thread ends.
ReceiveFails ==
    /\ rcv = "run" /\ conn = "closed" /\ rcv' = "end"
    /\ Shutdown
    /\ UNCHANGED <<still, pc, inq, exported, backoff, exc, own, air>>

-------------------------------------------------------------------------------
(* Receiving: Client::getBundle(). *)

\* The inner loop of dtninbox and dtntrigger.
Loop ==
    /\ pc = "loop" /\ prog.tool \in {"inbox", "trigger"}
    /\ pc' = IF running THEN "get" ELSE "close"
    /\ UNCHANGED <<still, link, backoff, exc, own, air>>

GetBundle(tool) == prog.tool = tool /\ pc = "get" /\ inq # <<>> /\ inq' = Tail(inq)

\* dtninbox extracts the archive.
Extract ==
    /\ GetBundle("inbox") /\ pc' = "loop"
    /\ UNCHANGED <<still, conn, shut, rcv, aborted, exported, backoff, exc, own, air>>

\* dtntrigger runs its script.
RunScript ==
    /\ GetBundle("trigger") /\ pc' = "loop"
    /\ UNCHANGED <<still, conn, shut, rcv, aborted, exported, backoff, exc, own, air>>

\* dtnrecv writes the payload out, until it has enough bundles.
WriteOut ==
    /\ GetBundle("recv") /\ taken' = taken + 1
    /\ pc' = IF taken + 1 < prog.count THEN "get" ELSE "close"
    /\ UNCHANGED <<still, conn, shut, rcv, aborted, exported, backoff, exc, seq, left,
                   paused, counted, files, air>>

\* dtntracepath collects the reports of the nodes on the path.
Report ==
    /\ GetBundle("trace") /\ taken' = taken + 1 /\ pc' = "get"
    /\ UNCHANGED <<still, conn, shut, rcv, aborted, exported, backoff, exc, seq, left,
                   paused, counted, files, air>>

\* ConnectionAbortedException, or ConnectionTimeoutException if a timeout is set.
GetFails ==
    /\ pc = "get" /\ prog.tool # "trace" /\ inq = <<>> /\ (aborted \/ prog.timeout)
    /\ pc' = "unwind" /\ exc' = "other"
    /\ UNCHANGED <<still, link, backoff, own, air>>

\* dtntracepath takes either for the end of the reports; its timeout is fixed.
NoMoreReports ==
    /\ pc = "get" /\ prog.tool = "trace" /\ inq = <<>> /\ pc' = "close"
    /\ UNCHANGED <<still, link, backoff, exc, own, air>>

-------------------------------------------------------------------------------
(* dtnping, dtnsend and dtntracepath. *)

\* The next round of the loop, or its end.
NextEcho == pc' = IF seq' < prog.count THEN "echo" ELSE "close"

\* Writing to a closed connection may fail quietly or throw; then the client is
\* closed.
SendFails ==
    /\ pc = "echo" /\ conn = "closed" /\ pc' = "close" /\ seq' = seq + 1
    /\ UNCHANGED <<still, link, backoff, exc, left, paused, counted, taken, files, air>>

\* EchoClient::echo(): a request, which the echo service of the destination answers.
Echo ==
    /\ pc = "echo" /\ prog.tool = "ping" /\ seq' = seq + 1 /\ left' = prog.left
    /\ air' = IF conn = "open" /\ prog.left > 0
              THEN air \cup {[seq |-> seq + 1, src |-> "echo"]} ELSE air
    /\ IF prog.left > 0 THEN pc' = "reply" ELSE NextEcho
    /\ UNCHANGED <<still, link, backoff, exc, paused, counted, taken, files>>

\* dtnsend sends the next copy of the payload.
SendCopy ==
    /\ pc = "echo" /\ prog.tool = "send" /\ seq' = seq + 1 /\ NextEcho
    /\ UNCHANGED <<still, link, backoff, exc, left, paused, counted, taken, files, air>>

\* Tracer::tracepath() sends its bundle.
Trace ==
    /\ pc = "echo" /\ prog.tool = "trace" /\ seq' = seq + 1 /\ pc' = "get"
    /\ UNCHANGED <<still, link, backoff, exc, left, paused, counted, taken, files, air>>

checkReply(b) == b.seq = seq /\ b.src = "echo"

\* waitForReply(): a bundle that is not the reply takes e parts of the time; when
\* none is left an exception ends the program.
Reply ==
    /\ pc = "reply" /\ inq # <<>> /\ inq' = Tail(inq)
    /\ IF checkReply(Head(inq))
       THEN counted' = Append(counted, [for |-> seq, of |-> Head(inq)])
            /\ pc' = "pause" /\ UNCHANGED <<left, exc>>
       ELSE \E e \in 0..left :
              /\ left' = left - e /\ UNCHANGED counted
              /\ pc' = IF left' > 0 THEN "reply" ELSE "unwind"
              /\ exc' = IF left' > 0 THEN exc ELSE "other"
    /\ UNCHANGED <<still, conn, shut, rcv, aborted, exported, backoff, seq, paused, taken,
                   files, air>>

\* getBundle() gets whole seconds: less than one is no timeout at all.
ReplyTimeout ==
    /\ pc = "reply" /\ inq = <<>> /\ ~aborted /\ left \div Parts > 0
    /\ UNCHANGED seq
    /\ IF prog.stop THEN pc' = "close" ELSE NextEcho
    /\ UNCHANGED <<still, link, backoff, exc, left, paused, counted, taken, files, air>>

ReplyAborted ==
    /\ pc = "reply" /\ inq = <<>> /\ aborted /\ pc' = "close"
    /\ UNCHANGED <<still, link, backoff, exc, own, air>>

Pause ==
    /\ pc = "pause" /\ UNCHANGED own
    /\ IF paused THEN pc' = "close" ELSE NextEcho
    /\ UNCHANGED <<still, link, backoff, exc, air>>

-------------------------------------------------------------------------------
(* dtnoutbox. *)

\* tar moves the files of the box into the payload and deletes them.
Pack ==
    /\ pc = "loop" /\ prog.tool = "outbox"
    /\ IF ~running THEN pc' = "close" /\ UNCHANGED files
       ELSE IF files.box = 0 THEN pc' = "sleep" /\ UNCHANGED files
            ELSE pc' = "put" /\ files' = [files EXCEPT !.box = 0, !.held = files.box]
    /\ UNCHANGED <<still, link, backoff, exc, seq, left, paused, counted, taken, air>>

Put ==
    /\ pc = "put"
    /\ files' = [files EXCEPT !.held = 0,
                              !.sent = IF conn = "open" THEN @ + files.held ELSE @]
    /\ \/ pc' = "sleep" /\ UNCHANGED exc
       \/ conn = "closed" /\ pc' = "unwind" /\ exc' = "io"
    /\ UNCHANGED <<still, link, backoff, seq, left, paused, counted, taken, air>>

Sleep ==
    /\ pc = "sleep" /\ pc' = "loop"
    /\ UNCHANGED <<still, link, backoff, exc, own, air>>

NewFile ==
    /\ prog.tool = "outbox" /\ pc # "end" /\ files.new < MaxFiles
    /\ files' = [files EXCEPT !.box = @ + 1, !.new = @ + 1]
    /\ UNCHANGED <<still, pc, link, backoff, exc, seq, left, paused, counted, taken, air>>

-------------------------------------------------------------------------------
(* The daemon and the signal. *)

Flip ==
    /\ flips < MaxFlips
    /\ flips' = flips + 1 /\ daemon' = ~daemon
    /\ conn' = IF daemon /\ conn = "open" THEN "closed" ELSE conn
    /\ UNCHANGED <<prog, pc, shut, rcv, inq, aborted, exported, sig, running, backoff,
                   exc, own, air, mode>>

sigStill == <<prog, daemon, flips, rcv, inq, exported, backoff, exc, seq, left, counted,
              taken, files, air, mode>>

\* What the handler does not know yet it cannot close.
Signalled == sig = "none" /\ pc # "end" /\ sig' = IF exported THEN "taken" ELSE "lost"

\* term() of dtnping aborts the client and the pause.
SignalPing ==
    /\ prog.tool = "ping" /\ Signalled /\ paused' = TRUE
    /\ IF exported THEN Shutdown ELSE UNCHANGED <<conn, shut, aborted>>
    /\ UNCHANGED <<sigStill, pc, running>>

\* term() of dtnrecv closes the client.
SignalRecv ==
    /\ prog.tool = "recv" /\ Signalled
    /\ IF exported THEN Shutdown ELSE UNCHANGED <<conn, shut, aborted>>
    /\ UNCHANGED <<sigStill, pc, running, paused>>

\* term() of the others closes the connection and clears _running.
SignalBox ==
    /\ prog.tool \in Reconnects /\ sig = "none" /\ pc # "end" /\ sig' = "taken"
    /\ running' = FALSE
    /\ conn' = IF exported THEN "closed" ELSE conn
    /\ UNCHANGED <<sigStill, pc, paused, shut, aborted>>

\* dtnsend and dtntracepath have no handler.
Kill ==
    /\ prog.tool \in {"trace", "send"} /\ sig = "none" /\ pc # "end" /\ sig' = "taken"
    /\ pc' = "end"
    /\ UNCHANGED <<sigStill, running, paused, conn, shut, aborted>>

Signal == SignalPing \/ SignalRecv \/ SignalBox \/ Kill

Main ==
    \/ Start \/ Open \/ OpenFails \/ Connect \/ ConnectFails \/ Close \/ Destroy
    \/ Unwound \/ Backoff \/ Loop \/ Extract \/ RunScript \/ WriteOut \/ Report
    \/ GetFails \/ NoMoreReports \/ SendFails \/ Echo \/ SendCopy \/ Trace
    \/ Reply \/ ReplyTimeout \/ ReplyAborted \/ Pause \/ Pack \/ Put \/ Sleep

Next == Main \/ Receive \/ ReceiveFails \/ NewFile \/ Flip \/ Signal

\* Both threads run; every wait with a timeout ends.
Fairness == WF_vars(Main) /\ WF_vars(ReceiveFails)

-------------------------------------------------------------------------------
(* dtnping counts, for every bundle it has sent, at most the one reply to  *)
(* it, although a reply may come when the next bundle is already out and   *)
(* other bundles may be addressed to the tool.                             *)
ReplyIsCounted ==
    /\ \A i \in DOMAIN counted : counted[i].of = [seq |-> counted[i].for, src |-> "echo"]
    /\ \A i, j \in DOMAIN counted : i < j => counted[i].for < counted[j].for

(* A tool whose signal handler had a connection to close ends, whatever    *)
(* thread the close reaches first and whatever the main thread waits for.  *)
SignalIsEnded == sig = "taken" ~> pc = "end"

(* If the daemon is not stopped any more, dtninbox and dtntrigger end up   *)
(* with a connection and a receiver, whatever happened before.             *)
InboxReconnects ==
    <>[](daemon /\ running /\ prog.tool \in {"inbox", "trigger"}) => <>[](rcv = "run" /\ conn = "open")
===============================================================================
