---------------------------- MODULE MCApplications ----------------------------
(***************************************************************************)
(* A small instance of Applications: streams of up to five bytes with a    *)
(* buffer of two, so that chunks end inside and at the end of the buffer;  *)
(* dtnrecv-ng and a client with two threads; the tools with two bundles.   *)
(***************************************************************************)
EXTENDS Applications

Ends == {"handler", "tool"}

MCStreamOptions ==
    {o \in [writer : Ends, reader : Ends, total : {0, 1, 4, 5}, chunk : {1, 3},
            zero : BOOLEAN, timeout : BOOLEAN, foreign : BOOLEAN, close : BOOLEAN] :
       /\ o.reader = "tool" => ~o.foreign /\ ~o.close
       /\ o.writer = "tool" => o.total > 0}

MCPlans ==
    {[main |-> <<"setEndpoint">> \o Receive \o Receive \o <<"getSubscriptions">>],
     [main   |-> <<"wait", "wait", "wait">>,
      sender |-> <<"subscribe", "send", "register_clear", "register_free",
                   "register_store", "unsubscribe">>]}

Program(tool, n, parts, stop, timeout, bundles) ==
    [tool |-> tool, count |-> n, left |-> parts, stop |-> stop, timeout |-> timeout,
     air |-> {[seq |-> k, src |-> "other"] : k \in 1..bundles}]

\* dtnping waits two seconds of two parts each.
MCPrograms ==
    {Program("ping", 2, 4, stop, FALSE, 1) : stop \in BOOLEAN} \cup
    {Program("recv", 2, 0, FALSE, timeout, 2) : timeout \in BOOLEAN} \cup
    {Program("ping", 2, 0, FALSE, FALSE, 0), Program("send", 2, 0, FALSE, FALSE, 0),
     Program("trace", 1, 0, FALSE, FALSE, 1), Program("inbox", 0, 0, FALSE, FALSE, 1),
     Program("trigger", 0, 0, FALSE, FALSE, 1), Program("outbox", 0, 0, FALSE, FALSE, 0)}
===============================================================================
