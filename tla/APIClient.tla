------------------------------- MODULE APIClient -------------------------------
(***************************************************************************)
(* The client of the extended text protocol (ibrdtn/api/APIClient.cpp).    *)
(* Answers to commands and notifications come over one stream; whichever   *)
(* thread finds nobody reading becomes the reader and sorts what it reads  *)
(* into two queues.  A thread calls operations of the client, one after    *)
(* the other: the one thread of dtnrecv-ng waits and gets the bundle, or   *)
(* one thread sends commands while another one waits.                      *)
(***************************************************************************)
EXTENDS Naturals, Sequences, FiniteSets, SequencesExt

CONSTANTS
    Plans,          \* a set of functions from threads to the names of the operations they call
    MaxNotify,      \* bound: notifications of the daemon
    MaxRefused      \* bound: commands the daemon refuses

\* A command, whether a text that the deserializer reads follows its answer.
Cmd(name, body) == [name |-> name, body |-> body]

\* The operations of the client: the commands each one sends, every one after
\* the answer to the one before was the expected one.
setEndpoint      == <<Cmd("set endpoint", FALSE)>>
subscribe        == <<Cmd("registration add", FALSE)>>
unsubscribe      == <<Cmd("registration del", FALSE)>>
getSubscriptions == <<Cmd("registration list", TRUE)>>
register_get     == <<Cmd("bundle get plain", TRUE)>>
get              == <<Cmd("bundle load queue", FALSE)>> \o register_get
register_put     == <<Cmd("bundle put plain", FALSE), Cmd("bundle", FALSE)>>
register_clear   == <<Cmd("bundle clear", FALSE)>>
register_free    == <<Cmd("bundle free", FALSE)>>
register_store   == <<Cmd("bundle store", FALSE)>>
register_send    == <<Cmd("bundle send", FALSE)>>
send             == register_put \o register_send
notify_delivered == <<Cmd("bundle delivered", FALSE)>>
wait             == <<>>

Operations ==
    [setEndpoint |-> setEndpoint, subscribe |-> subscribe, unsubscribe |-> unsubscribe,
     getSubscriptions |-> getSubscriptions, get |-> get, send |-> send, wait |-> wait,
     register_clear |-> register_clear, register_free |-> register_free,
     register_store |-> register_store, notify_delivered |-> notify_delivered]

Threads == UNION {DOMAIN p : p \in Plans}

\* A thread that only waits for notifications.
OnlyWaits(p, t) == \A i \in DOMAIN p[t] : p[t][i] = "wait"

\* Nothing in an answer tells whose command it answers, and the client reads the
\* text behind an answer after it has given up the stream: of several threads
\* one may send commands, and none of them one whose answer has a text.
APIClientAssumption ==
    /\ MaxNotify \in Nat /\ MaxRefused \in Nat
    /\ \A p \in Plans :
         /\ \A t \in DOMAIN p : p[t] \in Seq(DOMAIN Operations)
         /\ \A t, u \in DOMAIN p : t # u =>
              /\ OnlyWaits(p, t) \/ OnlyWaits(p, u)
              /\ \A i \in DOMAIN p[t] :
                   LET o == Operations[p[t][i]] IN \A j \in DOMAIN o : ~o[j].body

VARIABLES
    calls,      \* the operations each thread calls
    op,         \* op[t], the operation thread t is in and the command it waits for
    tpc,        \* tpc[t], where thread t is
    busy,       \* _get_busy
    statusq,    \* _status_queue
    notifyq,    \* _notify_queue
    stream,     \* what the daemon has sent and nobody has read
    asked,      \* the commands the daemon has not answered
    eof,        \* the stream: "open", "closed" by either side, "seen" by the reader
    notified,   \* how many notifications the daemon has sent
    refused,    \* how many commands it has refused
    got,        \* got[t], what the calls of t have returned
    count       \* how many commands were sent: a command is known by its number

vars == <<calls, op, tpc, busy, statusq, notifyq, stream, asked, eof, notified,
          refused, got, count>>

Begin ==
    /\ op = [t \in DOMAIN calls |-> [i |-> 1, j |-> 1, n |-> 0]]
    /\ tpc = [t \in DOMAIN calls |-> "idle"]
    /\ busy = FALSE /\ statusq = <<>> /\ notifyq = <<>> /\ stream = <<>>
    /\ asked = <<>> /\ eof = "open" /\ notified = 0 /\ refused = 0 /\ count = 0
    /\ got = [t \in DOMAIN calls |-> <<>>]

Init == calls \in Plans /\ Begin

\* A message is a status (n: the command it answers), a notification or a line
\* of a text.
Msg(kind, n, ok) == [kind |-> kind, n |-> n, ok |-> ok]

\* What getline() gives on a stream that has just been closed: code 0.
Empty == Msg("status", 0, FALSE)

-------------------------------------------------------------------------------
(* The daemon. *)

\* The oldest command is answered, with its text if it has one.
Answer ==
    /\ asked # <<>> /\ eof = "open"
    /\ \E ok \in BOOLEAN :
         /\ ok \/ refused < MaxRefused
         /\ refused' = IF ok THEN refused ELSE refused + 1
         /\ stream' = stream \o <<Msg("status", Head(asked).n, ok)>> \o
                      (IF ok /\ Head(asked).body THEN <<Msg("text", Head(asked).n, ok)>> ELSE <<>>)
    /\ asked' = Tail(asked)
    /\ UNCHANGED <<calls, op, tpc, busy, statusq, notifyq, eof, notified, got, count>>

Notify ==
    /\ notified < MaxNotify /\ eof = "open"
    /\ notified' = notified + 1
    /\ stream' = Append(stream, Msg("notify", notified + 1, TRUE))
    /\ UNCHANGED <<calls, op, tpc, busy, statusq, notifyq, asked, eof, refused, got, count>>

\* The daemon goes away, or term() of dtnrecv-ng closes the connection.  Nobody
\* waits on the condition its unblock_wait() aborts: there is one thread.
Close ==
    /\ eof = "open" /\ Cardinality(DOMAIN calls) = 1
    /\ eof' = "closed"
    /\ UNCHANGED <<calls, op, tpc, busy, statusq, notifyq, stream, asked, notified,
                   refused, got, count>>

-------------------------------------------------------------------------------
(* The threads. *)

Running(t) == op[t].i <= Len(calls[t])
Operation(t) == Operations[calls[t][op[t].i]]
IsWait(t) == Operation(t) = wait

\* The thread enters __get_return() after it has sent its command, or wait().
Call(t) ==
    /\ tpc[t] = "idle" /\ Running(t)
    /\ tpc' = [tpc EXCEPT ![t] = "queue"]
    /\ IF IsWait(t) THEN UNCHANGED <<asked, count, op>>
       ELSE /\ count' = count + 1
            /\ op' = [op EXCEPT ![t].n = count + 1]
            /\ asked' = Append(asked, [n |-> count + 1, body |-> Operation(t)[op[t].j].body])
    /\ UNCHANGED <<calls, busy, statusq, notifyq, stream, eof, notified, refused, got>>

\* The queue of the messages the thread waits for.
Own(t) == IF IsWait(t) THEN notifyq ELSE statusq

\* The operation is over, because its last command has been answered or because
\* an answer was not the expected one and an exception was thrown.
NextOp(t) == [op EXCEPT ![t] = [i |-> op[t].i + 1, j |-> 1, n |-> 0]]

NextCmd(t) ==
    IF op[t].j < Len(Operation(t)) THEN [op EXCEPT ![t].j = @ + 1] ELSE NextOp(t)

\* __get_return() or wait() returns m; pcs: where the threads are by then.
Return(t, m, pcs) ==
    /\ got' = [got EXCEPT ![t] = Append(@, [m |-> m, n |-> op[t].n])]
    /\ IF IsWait(t) \/ ~m.ok THEN op' = NextOp(t) /\ tpc' = [pcs EXCEPT ![t] = "idle"]
       ELSE IF Operation(t)[op[t].j].body
            THEN op' = op /\ tpc' = [pcs EXCEPT ![t] = "text"]
            ELSE op' = NextCmd(t) /\ tpc' = [pcs EXCEPT ![t] = "idle"]

\* Seeded error: a notification is returned as the answer to a command.
IsForUnsorted(t, m) == TRUE

\* Codes from 600 to 699 are notifications.
IsFor(t, m) == (m.kind = "notify") <=> IsWait(t)

\* The first half of __get_return() and wait(), under the lock.
Take(t) ==
    /\ tpc[t] = "queue" /\ Own(t) # <<>>
    /\ Return(t, Head(Own(t)), tpc)
    /\ IF IsWait(t) THEN notifyq' = Tail(notifyq) /\ UNCHANGED statusq
       ELSE statusq' = Tail(statusq) /\ UNCHANGED notifyq
    /\ UNCHANGED <<calls, busy, stream, asked, eof, notified, refused, count>>

Wait(t) ==
    /\ tpc[t] = "queue" /\ Own(t) = <<>> /\ busy
    /\ tpc' = [tpc EXCEPT ![t] = "waiting"]
    /\ UNCHANGED <<calls, op, busy, statusq, notifyq, stream, asked, eof, notified,
                   refused, got, count>>

BecomeReader(t) ==
    /\ tpc[t] = "queue" /\ Own(t) = <<>> /\ ~busy
    /\ busy' = TRUE /\ tpc' = [tpc EXCEPT ![t] = "reading"]
    /\ UNCHANGED <<calls, op, statusq, notifyq, stream, asked, eof, notified, refused,
                   got, count>>

\* _queue_cond.signal(true)
Signal(pcs) == [t \in DOMAIN pcs |-> IF pcs[t] = "waiting" THEN "queue" ELSE pcs[t]]

\* What __get_message() reads next.
Message == IF stream # <<>> THEN Head(stream) ELSE Empty

\* One round of the second half: the message is returned or put into the queue
\* of the other kind.
ReadMessage(t) ==
    /\ tpc[t] = "reading"
    /\ stream # <<>> \/ eof = "closed"
    /\ stream' = IF stream # <<>> THEN Tail(stream) ELSE <<>>
    /\ eof' = IF stream = <<>> THEN "seen" ELSE eof
    /\ IF IsFor(t, Message)
       THEN /\ busy' = FALSE
            /\ Return(t, Message, Signal(tpc))
            /\ UNCHANGED <<statusq, notifyq>>
       ELSE /\ tpc' = Signal(tpc)
            /\ IF Message.kind = "notify"
               THEN notifyq' = Append(notifyq, Message) /\ UNCHANGED statusq
               ELSE statusq' = Append(statusq, Message) /\ UNCHANGED notifyq
            /\ UNCHANGED <<op, got, busy>>
    /\ UNCHANGED <<calls, asked, notified, refused, count>>

\* "connection closed": the exception leaves the call; _get_busy stays set.
ReadFails(t) ==
    /\ tpc[t] = "reading" /\ stream = <<>> /\ eof = "seen"
    /\ tpc' = [tpc EXCEPT ![t] = "failed"]
    /\ UNCHANGED <<calls, op, busy, statusq, notifyq, stream, asked, eof, notified,
                   refused, got, count>>

\* PlainDeserializer reads the text straight from the stream.
ReadText(t) ==
    /\ tpc[t] = "text" /\ (stream # <<>> \/ eof # "open")
    /\ got' = [got EXCEPT ![t] = Append(@, [m |-> Message, n |-> op[t].n])]
    /\ stream' = IF stream # <<>> THEN Tail(stream) ELSE <<>>
    /\ op' = IF Message.ok THEN NextCmd(t) ELSE NextOp(t)
    /\ tpc' = [tpc EXCEPT ![t] = "idle"]
    /\ UNCHANGED <<calls, busy, statusq, notifyq, asked, eof, notified, refused, count>>

ThreadStep(t) ==
    \/ Call(t) \/ Take(t) \/ Wait(t) \/ BecomeReader(t)
    \/ ReadMessage(t) \/ ReadFails(t) \/ ReadText(t)

Next == Answer \/ Notify \/ Close \/ \E t \in DOMAIN calls : ThreadStep(t)

\* The threads run, and the daemon answers while the connection is there.
Progress == Answer \/ \E t \in DOMAIN calls : ThreadStep(t)

-------------------------------------------------------------------------------
(* A command gets its own answer and the text that belongs to it, a call   *)
(* of wait() the next notification; what a closed stream yields is code 0  *)
(* and an error to every command.  This needs the order in which two       *)
(* threads take the stream over from each other.                           *)
AnswersMeetCommands ==
    \A t \in DOMAIN calls :
      /\ \A i \in DOMAIN got[t] : LET g == got[t][i] IN
           IF g.n = 0 THEN g.m.kind = "notify" ELSE g.m \in {Empty, Msg("status", g.n, g.m.ok),
                                                              Msg("text", g.n, TRUE)}
      /\ \A i, j \in DOMAIN got[t] :
           i < j /\ got[t][i].n = 0 /\ got[t][j].n = 0 => got[t][i].m.n < got[t][j].m.n

(* No thread waits for ever: every command is answered, and a thread of    *)
(* its own learns that the connection is gone.                             *)
CallsReturn ==
    \A t \in Threads :
      (t \in DOMAIN tpc /\ tpc[t] # "idle") ~>
        (t \in DOMAIN tpc /\ (tpc[t] \in {"idle", "failed"} \/ (IsWait(t) /\ eof = "open")))
================================================================================
