---------------------------- MODULE AdminRecords ----------------------------
(***************************************************************************)
(* The bundles the daemon itself creates about other bundles: status       *)
(* reports and custody signals, how they name the bundle they are about,   *)
(* and what is left of them after they have been written and read.         *)
(*                                                                         *)
(* A bundle is a record.  An endpoint is a pair of a node and a name, with *)
(* Itself for the node; a fragment has an offset in "frag", a whole        *)
(* bundle has Whole.  Of the payload only what the daemon understands is   *)
(* kept, in "body".                                                        *)
(***************************************************************************)
EXTENDS Naturals, Sequences

CONSTANTS None

Whole == 0
Itself == ""

Id(b) == [src |-> b.src, num |-> b.num, frag |-> b.frag]

\* Bundle::Bundle(): no flags, a number of its own.
NewBundle(src, dst, num, flags, body) ==
  [src |-> src, dst |-> dst, rep |-> None, cust |-> None, num |-> num,
   frag |-> Whole, flags |-> flags, exts |-> <<>>, traits |-> {},
   body |-> body, elapsed |-> 0, originAge |-> 0, peerAge |-> 0]

\* The report an event asks for, and the flag of the bundle that asks for it.
Requests == [received |-> "REQUEST_REPORT_OF_BUNDLE_RECEPTION",
             deleted |-> "REQUEST_REPORT_OF_BUNDLE_DELETION",
             forwarded |-> "REQUEST_REPORT_OF_BUNDLE_FORWARDING",
             delivered |-> "REQUEST_REPORT_OF_BUNDLE_DELIVERY",
             custody |-> "REQUEST_REPORT_OF_CUSTODY_ACCEPTANCE"]

\* StatusReportGenerator::raiseEvent
IsReported(b, action) ==
  "APPDATA_IS_ADMRECORD" \notin b.flags /\ Requests[action] \in b.flags

\* Seeded error: the report goes to the source of the bundle.
StatusReportToSource(n, num, b, action, reason) ==
  NewBundle(<<n, Itself>>, b.src, num,
            {"APPDATA_IS_ADMRECORD", "DESTINATION_IS_SINGLETON"},
            [type |-> "report", status |-> {action}, reason |-> reason,
             fragment |-> b.frag # Whole, of |-> Id(b)])

\* StatusReportGenerator::createStatusReport.  A reason of zero means none.
StatusReport(n, num, b, action, reason) ==
  NewBundle(<<n, Itself>>, b.rep, num,
            {"APPDATA_IS_ADMRECORD", "DESTINATION_IS_SINGLETON"},
            [type |-> "report", status |-> {action}, reason |-> reason,
             fragment |-> b.frag # Whole, of |-> Id(b)])

\* CustodySignalBlock::setMatch
SignalOf(b) == [type |-> "signal", fragment |-> b.frag # Whole, of |-> Id(b)]

\* BundleStorage::acceptCustody does not mark it as administrative record.
CustodySignal(n, num, b) ==
  NewBundle(<<n, Itself>>, <<b.cust, Itself>>, num, {"DESTINATION_IS_SINGLETON"}, SignalOf(b))

\* acceptCustody() throws unless custody is requested of an earlier custodian.
TakesCustody(b) == "CUSTODY_REQUESTED" \in b.flags /\ b.cust # None

(***************************************************************************)
(* The fields of a record on the wire, without the times: the identifier   *)
(* of a fragment has an offset, and the first field says whether it is     *)
(* there.                                                                  *)
(***************************************************************************)
WriteId(id, fragment) == (IF fragment THEN <<id.frag>> ELSE <<>>) \o <<id.num, id.src>>
ReadId(f, fragment) ==
  IF fragment THEN [src |-> f[3], num |-> f[2], frag |-> f[1]]
              ELSE [src |-> f[2], num |-> f[1], frag |-> Whole]

WriteReport(r) == <<r.fragment, r.status, r.reason>> \o WriteId(r.of, r.fragment)
ReadReport(f) ==
  [type |-> "report", fragment |-> f[1], status |-> f[2], reason |-> f[3],
   of |-> ReadId(SubSeq(f, 4, Len(f)), f[1])]

WriteSignal(r) == <<r.fragment>> \o WriteId(r.of, r.fragment)
ReadSignal(f) == [type |-> "signal", fragment |-> f[1], of |-> ReadId(Tail(f), f[1])]

(***************************************************************************)
(* A bundle after serialisation and deserialisation: the reader knows an   *)
(* administrative record by the flag of the bundle; without it the payload *)
(* is plain data.                                                          *)
(***************************************************************************)
Reread(b) ==
  CASE b.body.type \notin {"report", "signal"} -> b
    [] "APPDATA_IS_ADMRECORD" \notin b.flags -> [b EXCEPT !.body = [type |-> "data"]]
    [] b.body.type = "report" -> [b EXCEPT !.body = ReadReport(WriteReport(@))]
    [] OTHER -> [b EXCEPT !.body = ReadSignal(WriteSignal(@))]
=============================================================================
