---------------------------- MODULE Announcement ----------------------------
(***************************************************************************)
(* The discovery beacon of IPND: what a node writes about itself in each   *)
(* of the three versions of the protocol, what a listener reads out of it, *)
(* and the node that the listener makes of the result.  A frame is the     *)
(* sequence of its fields; a name, a parameter and an EID are one field.   *)
(***************************************************************************)
EXTENDS Naturals, Sequences, FiniteSets

CONSTANTS
  NoEid,      \* EID(): "dtn:none"
  Padded      \* nodes whose EID has a length that is no multiple of four

Versions == {"DTND_IPDISCOVERY", "DISCO_VERSION_00", "DISCO_VERSION_01"}

\* What a listener assumes of a beacon without services.
tcpcl == [name |-> "tcpcl", param |-> "sender"]

(***************************************************************************)
(* operator<<.  The two tests of version 01 use && where & is meant: the   *)
(* EID and the number of services are written as soon as any flag is set.  *)
(***************************************************************************)
\* Seeded error: the services are written without their flag.
FlagsShort(a) == IF a.eid # NoEid THEN {"BEACON_CONTAINS_EID"} ELSE {}

Flags(a) ==
  (IF a.eid # NoEid THEN {"BEACON_CONTAINS_EID"} ELSE {}) \cup
  (IF a.services # <<>> THEN {"BEACON_SERVICE_BLOCK"} ELSE {})

WriteAnnouncement(version, a) ==
  CASE version = "DISCO_VERSION_00" ->
         IF a.services = <<>>
         THEN <<1, {"BEACON_SHORT"}>>
         ELSE <<1, {}, 1 + Len(a.services), a.eid>> \o a.services
    [] version = "DISCO_VERSION_01" ->
         <<2, Flags(a), a.sn>> \o
         (IF Flags(a) # {} THEN <<a.eid, Len(a.services)>> \o a.services ELSE <<>>)
    [] OTHER -> <<1, 10, a.eid>>

(***************************************************************************)
(* operator>> into an announcement with the services "preset".  The length *)
(* of the EID in a DTN2 frame is not converted from network byte order:    *)
(* far too much is read, and the EID ends at a zero byte of the padding or *)
(* of the uninitialised buffer.                                            *)
(***************************************************************************)
Unreadable == [eid |-> NoEid, services |-> <<>>, valid |-> FALSE]

ReadAnnouncement(version, preset, f) ==
  CASE version = "DTND_IPDISCOVERY" ->
         IF Len(f) = 3
         THEN {[eid |-> e, services |-> preset, valid |-> TRUE] :
                 e \in {f[3]} \cup (IF f[3] \in Padded THEN {} ELSE {NoEid})}
         ELSE {Unreadable}
    [] version # "DTND_IPDISCOVERY" /\ f[1] = 1 ->
         IF f[2] = {"BEACON_SHORT"}
         THEN {[eid |-> NoEid, services |-> preset, valid |-> TRUE]}
         ELSE {[eid |-> f[4], services |-> SubSeq(f, 5, 3 + f[3]), valid |-> TRUE]}
    [] OTHER ->
         {[eid      |-> IF "BEACON_CONTAINS_EID" \in f[2] THEN f[4] ELSE NoEid,
           services |-> IF "BEACON_SERVICE_BLOCK" \in f[2]
                        THEN SubSeq(f, 6, 5 + f[5]) ELSE preset,
           valid    |-> TRUE]}

(***************************************************************************)
(* IPNDAgent::componentRun adds the service before it reads the beacon, so *)
(* the list is always empty at that point.                                 *)
(***************************************************************************)
Heard(version, f) == {a \in ReadAnnouncement(version, <<tcpcl>>, f) : a.valid}

\* DiscoveryAgent::received: addresses and attributes of the new node.
NodeOf(a) ==
  LET Of(S) == {a.services[i] : i \in {i \in DOMAIN a.services : a.services[i].name \in S}}
      Layers == {"tcpcl", "udpcl", "lowpancl"}
  IN [eid |-> a.eid, uris |-> Of(Layers),
      attrs |-> {a.services[i] : i \in DOMAIN a.services} \ Of(Layers)]
=============================================================================
