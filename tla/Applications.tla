----------------------------- MODULE Applications -----------------------------
(***************************************************************************)
(* What runs above the daemon: a stream over bundles, a client of the text *)
(* protocol, or a command line tool.  One of them is looked at at a time;  *)
(* they share no state.                                                    *)
(***************************************************************************)
EXTENDS Integers, Sequences

CONSTANTS BufSize, MaxLost, StreamOptions, Plans, MaxNotify, MaxRefused,
          Programs, Parts, MaxFlips, MaxFiles

VARIABLES
    app,    \* "stream", "api" or "tool"
    opt, w, net, lost, r, out, confirmed,                            \* BundleStream
    calls, op, tpc, busy, statusq, notifyq, stream, asked, eof,
    notified, refused, got, count,                                   \* APIClient
    prog, pc, daemon, flips, conn, shut, rcv, inq, aborted, exported, sig, running,
    backoff, exc, seq, left, paused, counted, taken, air, files, mode  \* Client

Stream == INSTANCE BundleStream
API    == INSTANCE APIClient
Tool   == INSTANCE Client

\* The assumptions of the three modules on their constants.
ASSUME ApplicationsAssumption ==
    /\ Stream!StreamAssumption /\ API!APIClientAssumption /\ Tool!ClientAssumption

\* What dtnrecv-ng calls to receive a bundle.
Receive == <<"wait", "get", "notify_delivered">>

streamVars == <<opt, w, net, lost, r, out, confirmed>>
apiVars == <<calls, op, tpc, busy, statusq, notifyq, stream, asked, eof, notified, refused,
             got, count>>
toolVars == <<prog, pc, daemon, flips, conn, shut, rcv, inq, aborted, exported, sig, running,
              backoff, exc, seq, left, paused, counted, taken, air, files, mode>>
appVars == <<app, streamVars, apiVars, toolVars>>

\* All parameters of the application that is looked at, one of the others.
Among(a, S) == IF app = a THEN S ELSE {CHOOSE x \in S : TRUE}

AppInit ==
    /\ app \in {"stream", "api", "tool"}
    /\ opt \in Among("stream", StreamOptions) /\ Stream!Begin
    /\ calls \in Among("api", Plans) /\ API!Begin
    /\ prog \in Among("tool", Programs) /\ daemon \in Among("tool", BOOLEAN) /\ Tool!Begin

AppNext ==
    \/ app = "stream" /\ Stream!Next /\ UNCHANGED <<app, apiVars, toolVars>>
    \/ app = "api" /\ API!Next /\ UNCHANGED <<app, streamVars, toolVars>>
    \/ app = "tool" /\ Tool!Next /\ UNCHANGED <<app, streamVars, apiVars>>

AppSpec == AppInit /\ [][AppNext]_appVars

\* Threads run, bundles that are not lost arrive, timeouts end.
FairSpec ==
    /\ AppSpec
    /\ WF_appVars(app = "stream" /\ Stream!Writing /\ UNCHANGED <<app, apiVars, toolVars>>)
    /\ WF_appVars(app = "stream" /\ (Stream!Reading \/ Stream!Arrive \/ Stream!WaitNext)
               /\ UNCHANGED <<app, apiVars, toolVars>>)
    /\ WF_appVars(app = "api" /\ API!Progress /\ UNCHANGED <<app, streamVars, toolVars>>)
    /\ WF_appVars(app = "tool" /\ Tool!Main /\ UNCHANGED <<app, streamVars, apiVars>>)
    /\ WF_appVars(app = "tool" /\ Tool!ReceiveFails /\ UNCHANGED <<app, streamVars, apiVars>>)

-------------------------------------------------------------------------------
(* The bytes are handed on in their order, none twice and none of another  *)
(* source; none is missing if the reader waits for the first chunk and has *)
(* no timeout; a chunk is reported as delivered only after all its bytes   *)
(* have been handed on.                                                    *)
OutputIsInput == Stream!OutputIsInput

(* A stream is read to its end unless its last bundle was lost: chunks     *)
(* that come late or never are waited for or given up.                     *)
StreamIsRead == Stream!StreamIsRead

(* Every command of a client of the text protocol gets its own answer, and *)
(* every wait() the next notification, although two threads take turns in  *)
(* reading the one stream; dtnping counts at most the one reply to each    *)
(* bundle it has sent, late replies and bundles of others being ignored.   *)
AnswersMeetRequests == API!AnswersMeetCommands /\ Tool!ReplyIsCounted

(* Nothing hangs: the reader of a stream whose client hangs up ends, a     *)
(* call of the text protocol returns, and a tool that is signalled ends.   *)
StopEnds == Stream!ClosedIsEnded /\ API!CallsReturn /\ Tool!SignalIsEnded

(* dtninbox and dtntrigger find the way back to a daemon that was          *)
(* restarted, whatever they were doing when it stopped.                    *)
InboxReconnects == app = "tool" => Tool!InboxReconnects
===============================================================================
