------------------------ MODULE MCConnectionManager ------------------------
(***************************************************************************)
(* Small instances of ConnectionManager: a peer or two with their          *)
(* addresses.                                                              *)
(***************************************************************************)
EXTENDS ConnectionManager, TLC

CONSTANTS p1, p2

TCP(v) == [proto |-> "tcp", value |-> v]
UDP(v) == [proto |-> "udp", value |-> v]
LowPan(v) == [proto |-> "lowpan", value |-> v]
Attr == [proto |-> "attr", value |-> 9]

NoStatic   == [p \in Peers |-> {}]
WithAttr   == [p \in Peers |-> {TCP(1), Attr}]
TwoAddresses == [p \in Peers |-> {TCP(1), TCP(2)}]
TwoProtocols == [p \in Peers |-> {TCP(1), UDP(1)}]
OneUnreachable == [p \in Peers |-> IF p = p1 THEN {LowPan(1)} ELSE {TCP(2)}]
StaticAddress == [p \in Peers |-> {TCP(3)}]
OnlyTCP == <<"tcp">>
UDPFirst == <<"udp", "tcp">>
=============================================================================
