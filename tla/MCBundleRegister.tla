-------------------------- MODULE MCBundleRegister --------------------------
(* Instance of BundleRegister: groups of three bits and at most four bytes  *)
(* for a number, bundles with plain, compressable and mixed EIDs.           *)
EXTENDS BundleRegister

MCStrLen == [s \in {"dtn", "ipn", "api", "9.0", "1.2", "//a"} |-> 3]
            @@ ("none" :> 4) @@ ("//b/x" :> 5) @@ ("me" :> 2) @@ ("part of a string" :> 1)
MCIpn == ("1.2" :> <<1, 2>>) @@ ("9.0" :> <<9, 0>>)

A  == [scheme |-> "dtn", ssp |-> "//a"]
B  == [scheme |-> "dtn", ssp |-> "//b/x"]
I  == [scheme |-> "ipn", ssp |-> "1.2"]
J  == [scheme |-> "ipn", ssp |-> "9.0"]
Me == [scheme |-> "api", ssp |-> "me"]

Block(class, type, flags, eids, data) ==
  [class |-> class, type |-> type, flags |-> flags, eids |-> eids, data |-> data]
Payload(flags, data) == Block("Payload", 1, flags \cup {"LAST"}, << >>, data)
Ext(flags, eids) ==
  Block("Extension", 9, flags \cup {"FORWARDED"} \cup (IF eids = << >> THEN {} ELSE {"EIDS"}), eids, <<4>>)

Primary(flags, d, s, ts, blocks) ==
  [flags |-> flags, destination |-> d, source |-> s, reportto |-> s, custodian |-> None,
   timestamp |-> ts, sequencenumber |-> 8, lifetime |-> 600,
   fragmentoffset |-> IF "FRAGMENT" \in flags THEN 7 ELSE 0,
   appdatalength |-> IF "FRAGMENT" \in flags THEN 64 ELSE 0, blocks |-> blocks]

MCBundles ==
  { Primary({}, A, B, 70, <<Payload({}, <<1, 2, 3>>)>>),
    Primary({}, Me, A, 0, <<Ext({"REPLICATE"}, <<A, B>>), Payload({}, <<1, 2>>)>>),
    Primary({}, I, J, 9, <<Ext({}, <<I>>), Payload({"REPORT"}, <<1, 2>>)>>),
    Primary({}, J, I, 9, <<Ext({"DISCARD"}, <<B>>), Payload({}, <<5>>)>>),
    Primary({"FRAGMENT"}, A, J, 70, <<Payload({}, <<1, 2>>)>>),
    Primary({"ADMRECORD"}, A, B, 511, <<Block("StatusReport", 1, {"LAST"}, << >>, <<16, 1>>)>>),
    Primary({"ADMRECORD"}, I, None, 0, <<NewBlock("Age"), Block("CustodySignal", 1, {"LAST"}, << >>, <<32>>)>>) }

MCForeign == { Primary({"ADMRECORD"}, A, B, 9, <<Block("Extension", 1, {"LAST"}, << >>, <<48>>)>>) }

Text(type, flags, eids, data) == [type |-> type, flags |-> flags, eids |-> eids, data |-> data]
MCTexts == { Text(9, {}, <<J>>, <<6>>), Text(9, {"DISCARD"}, << >>, << >>), Text(10, {"LAST"}, << >>, <<7>>),
             Text(1, {"FORWARDED"}, << >>, <<33>>) }
MCData == { <<7, 8>> }
=============================================================================
