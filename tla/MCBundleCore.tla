---------------------------- MODULE MCBundleCore ----------------------------
(***************************************************************************)
(* Small instances of BundleCore: n1 and n2 are neighbours, n3 is behind   *)
(* n2.                                                                     *)
(***************************************************************************)
EXTENDS BundleCore, TLC

CONSTANTS n1, n2, n3

Line == {{n1, n2}, {n2, n3}}
Pair == {{n1, n2}}

Flag(S) == {"DESTINATION_IS_SINGLETON"} \cup S

Plain(k, dst, flags) == NewBundle(<<n1, "app">>, dst, Numbers + k, Flag(flags), [type |-> "data"])

\* An echo request over a relay that asks for a report.
Echo == [Plain(1, <<n3, "echo">>, {Requests.delivered}) EXCEPT !.rep = <<n1, "reports">>]

\* Custody is requested for a fragment; the application names itself as custodian.
Keep == [Plain(2, <<n3, "app">>, {"CUSTODY_REQUESTED"}) EXCEPT !.cust = n1, !.frag = 2]

\* A bundle with unknown blocks, one for the node itself and one for nobody.
Odd == [Plain(3, <<n2, Itself>>, {Requests.received}) EXCEPT !.rep = <<n1, "reports">>,
          !.exts = <<"TRANSMIT_STATUSREPORT_IF_NOT_PROCESSED", "DELETE_BUNDLE_IF_NOT_PROCESSED">>]
Big == [Plain(4, <<n2, "app">>, {}) EXCEPT !.traits = {"big"}]
Void == [Plain(5, <<n2, Itself>>, {}) EXCEPT !.dst = Null]
Node == [Plain(6, <<n2, Itself>>, {Requests.forwarded, Requests.deleted}) EXCEPT !.rep = <<n1, "reports">>]

Inner == [Plain(7, <<n2, "echo">>, {Requests.delivered}) EXCEPT !.rep = <<n1, "reports">>]
Capsule == NewBundle(<<n1, "app">>, <<n2, "bundle-in-bundle">>, Numbers + 8, Flag({}),
                     [type |-> "capsule", bundles |-> <<Inner, Inner>>])

MCWorkloads == {<<Echo>>, <<Keep>>, <<Odd, Node>>, <<Big, Void, Capsule>>, <<>>}
MCVersionings ==
  {[n \in Nodes |-> IF n = n2 THEN "DISCO_VERSION_00" ELSE "DISCO_VERSION_01"],
   [n \in Nodes |-> "DTND_IPDISCOVERY"]}
MCError == [n \in Nodes |-> IF n = n1 THEN 0 ELSE 5]

\* The applications give no two bundles the same ID, nor one of a daemon.
ASSUME UniqueAssumption == IdsAreUnique({Inner})
=============================================================================
