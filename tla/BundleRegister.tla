--------------------------- MODULE BundleRegister ---------------------------
(***************************************************************************)
(* The bundle register of an extended API client                            *)
(* (daemon/src/api/ExtendedApiHandler.cpp, the commands "bundle" and         *)
(* "payload") and the ways a bundle leaves memory and comes back: the       *)
(* binary format of the network and the file storage, the plain format, the *)
(* separate blocks of the database, and fragments put together again.       *)
(*                                                                         *)
(* A client edits the register, then the bundle is written once and read    *)
(* back block by block by the other side.                                   *)
(***************************************************************************)
EXTENDS Serializer

CONSTANTS Bundles0,    \* bundles a client has put into the register
          Foreign,     \* bundles only other implementations write
          Texts,       \* blocks a client adds, as paragraphs of text
          Data,        \* data a client writes into the payload
          ClientEid,   \* source of the client that sends
          MaxEdits,    \* bound on the commands that edit
          Modes        \* formats a bundle is written in

VARIABLES reg,      \* _bundle_reg
          edits,    \* number of commands so far
          damaged,  \* a command left the list of blocks in disorder
          mode, phase,
          sent,     \* the bundle that was written
          wire,     \* the stream
          got,      \* the bundle that is being read
          dict, comp, \* _dictionary and _compressed of the reader
          frags,    \* fragments still to come
          merged    \* the BLOB of BundleMerger::Container

editVars == <<reg, edits, damaged>>
readVars == <<mode, sent, dict, comp, frags, merged>>
vars == <<reg, edits, damaged, mode, phase, sent, wire, got, dict, comp, frags, merged>>

Empty == [flags |-> {}, destination |-> None, source |-> None, reportto |-> None,
          custodian |-> None, timestamp |-> 0, sequencenumber |-> 0, lifetime |-> 0,
          fragmentoffset |-> 0, appdatalength |-> 0, blocks |-> << >>]

Init ==
  /\ reg \in Bundles0 \cup Foreign
  /\ edits = 0 /\ damaged = FALSE
  /\ mode = "none" /\ phase = "edit"
  /\ sent = Empty /\ wire = << >> /\ got = Empty
  /\ dict = Clear /\ comp = FALSE /\ frags = << >> /\ merged = << >>

Edit ==
  /\ phase = "edit" /\ reg \notin Foreign
  /\ edits < MaxEdits
  /\ edits' = edits + 1
  /\ UNCHANGED <<readVars, phase, wire, got>>

-----------------------------------------------------------------------------
(* Commands of the client *)

\* "bundle block add [offset]"
BlockAdd(text, offs) ==
  LET align == CASE offs = Len(reg.blocks) -> "END" [] offs = 0 -> "FRONT" [] OTHER -> "MIDDLE"
      r     == readBlock(reg.blocks, text, align, offs, get(reg, "ADMRECORD"))
      done  == IF r.status # "read" THEN r.list
               ELSE ReplaceAt(r.list, r.at, set(r.list[r.at], "LAST", align = "END"))
  IN  /\ Edit
      /\ offs \in 0 .. Len(reg.blocks)
      /\ reg' = [reg EXCEPT !.blocks = done]
      /\ damaged' = (damaged \/ r.status = "NotProcessable")

\* "bundle block del <offset>"
BlockDel(i) ==
  /\ Edit
  /\ i \in DOMAIN reg.blocks
  /\ reg' = [reg EXCEPT !.blocks = remove(@, i)]
  /\ UNCHANGED damaged

\* "payload <offset> ..." assigns the block at the offset to the payload
\* block: type, flags and EIDs are copied, the data is not.
PayloadSelect(n) ==
  LET i == payloadIndex(reg.blocks)
  IN  /\ Edit
      /\ i # 0 /\ n \in DOMAIN reg.blocks
      /\ reg' = [reg EXCEPT !.blocks[i].type = reg.blocks[n].type,
                            !.blocks[i].flags = reg.blocks[n].flags,
                            !.blocks[i].eids = reg.blocks[n].eids]
      /\ damaged' = (damaged \/ n # i)

PayloadWrite(new) ==
  LET i == payloadIndex(reg.blocks)
  IN  /\ Edit
      /\ i # 0
      /\ reg' = [reg EXCEPT !.blocks[i] = deserialize(@, new)]
      /\ UNCHANGED damaged

\* "payload put [offset]": beyond the end the data is appended.
Overwritten(old, off, data) ==
  LET at == IF off < Len(old) THEN off ELSE Len(old)
  IN  SubSeq(old, 1, at) \o data \o SubSeq(old, at + Len(data) + 1, Len(old))

PayloadData == LET i == payloadIndex(reg.blocks) IN IF i = 0 THEN << >> ELSE reg.blocks[i].data

PayloadPut(off, data) == PayloadWrite(Overwritten(PayloadData, off, data))

\* "payload append"
PayloadAppend(data) == PayloadWrite(PayloadData \o data)

\* "payload clear"
PayloadClear == PayloadWrite(<< >>)

-----------------------------------------------------------------------------
(* A bundle is written. *)

\* What becomes of a register in disorder is not followed.
Write(m, b, w, next) ==
  /\ phase = "edit" /\ ~damaged
  /\ m \in Modes
  /\ mode' = m /\ phase' = next
  /\ sent' = b /\ wire' = w
  /\ UNCHANGED <<editVars, got, dict, comp, merged>>

\* "bundle get binary", and what the network and the file storage write.
GetBinary(tick) ==
  /\ Write("binary", reg, BundleTokens(reg, tick), "head")
  /\ UNCHANGED frags

\* "bundle send": ApiServer::processIncomingBundle
processIncomingBundle(b) ==
  LET me(eid) == IF eid = [scheme |-> "api", ssp |-> "me"] THEN ClientEid ELSE eid
      blocks  == IF b.timestamp = 0 /\ ~hasAge(b.blocks)
                 THEN push_front(b.blocks, NewBlock("Age")) ELSE b.blocks
  IN  [b EXCEPT !.source = ClientEid, !.destination = me(@), !.reportto = me(@),
                !.custodian = me(@), !.blocks = blocks]

Send(tick) ==
  /\ reg \notin Foreign
  /\ Write("send", processIncomingBundle(reg), BundleTokens(processIncomingBundle(reg), tick), "head")
  /\ UNCHANGED frags

\* "bundle get plain"
GetPlain ==
  /\ reg \notin Foreign
  /\ Write("plain", reg, PlainText(reg), "plain head")
  /\ UNCHANGED frags

\* The database keeps each block in a file of its own.
StoreSeparate(tick) ==
  /\ reg \notin Foreign
  /\ Write("separate", reg,
           FlattenSeq([i \in DOMAIN reg.blocks |-> SeparateTokens(reg.blocks[i], tick)]), "separate head")
  /\ UNCHANGED frags

\* Two fragments of a bundle with one payload block, cut somewhere.
WriteFragments(cut, tick) ==
  /\ reg \notin Foreign
  /\ payloadIndex(reg.blocks) # 0
  /\ \A i \in DOMAIN reg.blocks : reg.blocks[i].class = "Payload" => i = payloadIndex(reg.blocks)
  /\ cut \in 0 .. Len(PayloadData)
  /\ Write("fragments", reg, FragmentTokens(reg, 0, cut, tick), "head")
  /\ frags' = <<FragmentTokens(reg, cut, Len(PayloadData) - cut, tick)>>

-----------------------------------------------------------------------------
(* DefaultDeserializer::operator>>(Bundle), one block after the other. *)

Binary == mode \in {"binary", "send", "fragments"}

Advance(blocks, rest, last) ==
  /\ got' = [got EXCEPT !.blocks = blocks]
  /\ wire' = rest
  /\ phase' = IF last THEN "done" ELSE "blocks"
  /\ UNCHANGED <<editVars, readVars>>

ReadHead ==
  /\ phase = "head"
  /\ LET r == ReadPrimary(wire) IN
       /\ got' = r.p /\ dict' = r.d /\ comp' = r.comp /\ wire' = r.rest
  /\ phase' = "blocks"
  /\ UNCHANGED <<editVars, mode, sent, frags, merged>>

NextType == IF wire = << >> THEN -1 ELSE wire[1].v
Adm == NextType = PayloadType /\ get(got, "ADMRECORD")

\* push_back of a new block, which is read and replaces itself.
ReadInto(class) ==
  LET list == push_back(got.blocks, NewBlock(class))
      r    == ReadBlock(Last(list), wire, dict, comp)
  IN  [list |-> Append(Front(list), r.block), block |-> r.block, rest |-> r.rest]

\* Payload, a block with a factory, or an extension block, which is taken
\* out again if it asks to be discarded.
ReadKnown ==
  /\ Binary /\ phase = "blocks"
  /\ NextType > 0 /\ ~Adm
  /\ LET r == ReadInto(ClassOf(NextType))
         drop == r.block.class = "Extension" /\ get(r.block, "DISCARD")
     IN  Advance(IF drop THEN remove(r.list, Len(r.list)) ELSE r.list, r.rest, get(r.block, "LAST"))

\* An administrative record: a temporary block is read, removed, written to
\* a stream of its own and read from there again.  lastblock stays false for
\* a record of an unknown type.
ReadAdm ==
  /\ Binary /\ phase = "blocks"
  /\ Adm
  /\ \E t \in {ReadInto("Extension")} :
       LET class == AdmClass(t.block.data)
           left  == remove(t.list, Len(t.list))
       IN  \/ class = "Unknown" /\ Advance(left, t.rest, FALSE)
           \/ /\ class # "Unknown"
              /\ \E list \in {push_back(left, NewBlock(class))},
                    again \in {BlockTokens(t.block, dict, FALSE, 0)} :
                   LET block == ReadBlock(Last(list), again, dict, FALSE).block
                   IN  Advance(Append(Front(list), block), t.rest, get(block, "LAST"))

\* InvalidDataException
ReadZero ==
  /\ phase = "blocks" /\ Binary
  /\ NextType = 0
  /\ phase' = "refused"
  /\ UNCHANGED <<editVars, readVars, wire, got>>

\* The reader looks for another block although the bundle is over.
ReadBeyond ==
  /\ phase \in {"blocks", "plain"}
  /\ wire = << >>
  /\ phase' = "beyond"
  /\ UNCHANGED <<editVars, readVars, wire, got>>

-----------------------------------------------------------------------------
(* PlainDeserializer::operator>>(Bundle), "bundle put plain" *)

ReadPlainHead ==
  /\ phase = "plain head"
  /\ got' = wire[1] /\ wire' = Drop(wire, 1)
  /\ phase' = "plain"
  /\ UNCHANGED <<editVars, readVars>>

ReadPlain ==
  /\ phase = "plain" /\ wire # << >>
  /\ LET r == readBlock(got.blocks, wire[1], "END", 0, get(got, "ADMRECORD")) IN
       /\ got' = [got EXCEPT !.blocks = r.list]
       /\ phase' = IF r.status = "InvalidData" THEN "refused"
                   ELSE IF r.status = "read" /\ get(r.list[r.at], "LAST") THEN "done" ELSE "plain"
  /\ wire' = Drop(wire, 1)
  /\ UNCHANGED <<editVars, readVars>>

-----------------------------------------------------------------------------
(* SeparateDeserializer::readBlock, once for each row of the database. *)

ReadSeparateHead ==
  /\ phase = "separate head"
  /\ got' = PrimaryText(sent)
  /\ phase' = IF wire = << >> THEN "done" ELSE "separate"
  /\ UNCHANGED <<editVars, readVars, wire>>

ReadSeparateBlock ==
  /\ phase = "separate"
  /\ LET temp  == ReadSeparate(NewBlock("Extension"), wire)
         class == IF Adm THEN AdmClass(temp.block.data) ELSE ClassOf(NextType)
         list  == push_back(got.blocks, NewBlock(class))
         r     == ReadSeparate(Last(list), wire)
     IN  /\ got' = [got EXCEPT !.blocks = Append(Front(list), r.block)]
         /\ wire' = r.rest
         /\ phase' = IF r.rest = << >> THEN "done" ELSE "separate"
  /\ UNCHANGED <<editVars, readVars>>

-----------------------------------------------------------------------------
(* BundleMerger::Container::operator<< puts the payload of a fragment at its *)
(* offset, and one byte more: the loop ends when a byte could not be read.  *)

Junk == -1

\* Seeded error: the position is not set.
PutAtEnd(blob, off, data) == blob \o data \o <<Junk>>

PutAt(blob, off, data) ==
  SubSeq(blob, 1, off) \o data \o <<Junk>> \o SubSeq(blob, off + Len(data) + 2, Len(blob))

MergeFragment ==
  /\ mode = "fragments" /\ phase = "done"
  /\ merged' = PutAt(merged, got.fragmentoffset - sent.fragmentoffset,
                     got.blocks[payloadIndex(got.blocks)].data)
  /\ IF frags = << >> THEN phase' = "merged" /\ UNCHANGED <<wire, frags>>
     ELSE phase' = "head" /\ wire' = frags[1] /\ frags' = Tail(frags)
  /\ UNCHANGED <<editVars, mode, sent, got, dict, comp>>

Finished ==
  /\ \/ phase \in {"refused", "beyond", "merged"}
     \/ phase = "done" /\ mode # "fragments"
     \/ phase = "edit" /\ damaged
  /\ UNCHANGED vars

Next ==
  \/ \E t \in Texts, o \in 0 .. MaxEdits + 2 : BlockAdd(t, o)
  \/ \E i \in DOMAIN reg.blocks : BlockDel(i) \/ PayloadSelect(i)
  \/ \E d \in Data : PayloadAppend(d) \/ \E o \in 0 .. 2 : PayloadPut(o, d)
  \/ PayloadClear
  \/ \E t \in 0 .. 1 : GetBinary(t) \/ Send(t) \/ StoreSeparate(t)
  \/ \E t \in 0 .. 1, c \in 0 .. Len(PayloadData) : WriteFragments(c, t)
  \/ GetPlain
  \/ ReadHead \/ ReadKnown \/ ReadAdm \/ ReadZero \/ ReadBeyond
  \/ ReadPlainHead \/ ReadPlain
  \/ ReadSeparateHead \/ ReadSeparateBlock
  \/ MergeFragment
  \/ Finished

Spec == Init /\ [][Next]_vars

-----------------------------------------------------------------------------
(* Properties *)

Ageless(blocks) ==
  [i \in DOMAIN blocks |-> IF blocks[i].class = "Age" THEN [blocks[i] EXCEPT !.data = << >>] ELSE blocks[i]]

\* A block as a reader has to understand it.
Understood(b, m) ==
  LET x == [b EXCEPT !.type = IF m = "plain" /\ b.class = "Extension" THEN 0 ELSE @]
  IN  IF b.class = "Extension" THEN set(x, "FORWARDED", TRUE)
      ELSE IF b.class = "Age" THEN x ELSE set(x, "FORWARDED", FALSE)

\* The binary reader takes out what asks to be discarded.
Kept(blocks, m) ==
  IF m \in {"plain", "separate"} THEN blocks
  ELSE SelectSeq(blocks, LAMBDA b : ~(b.class = "Extension" /\ get(b, "DISCARD")))

Expected(b, m) ==
  LET blocks == Kept(b.blocks, m)
      n      == Len(blocks)
  IN  [PrimaryText(b) EXCEPT !.blocks =
         [i \in 1 .. n |-> Understood(IF i = n THEN set(blocks[i], "LAST", TRUE) ELSE blocks[i], m)]]

\* What is read is what was written, in every format: the primary block with
\* its EIDs (through the dictionary, its references and SDNVs, or
\* compressed), and the blocks in order with their flags, EIDs and data.
\* The plain format loses the type of an extension block (PlainIsInverse).
ReadIsWritten ==
  (phase = "done" /\ mode # "fragments") =>
    /\ [got EXCEPT !.blocks = << >>] = [Expected(sent, mode) EXCEPT !.blocks = << >>]
    /\ Ageless(got.blocks) = Ageless(Expected(sent, mode).blocks)

\* A reader finds the end of the bundle: it never takes what follows in the
\* stream for another block.  The exceptions are bundles without blocks,
\* administrative records of an unknown type, for which lastblock is never
\* set, and in the plain format a last block that is discarded.
ReadsOneBundle ==
  phase = "beyond" =>
    \/ sent.blocks = << >>
    \/ sent \in Foreign
    \/ mode = "plain" /\ get(Last(sent.blocks), "DISCARD")

\* The block length of the primary block, which is computed before the
\* dictionary is written, is the number of bytes that follow it.
LengthsMatch ==
  phase = "head" =>
    Value(wire[3]) = Size(SubSeq(wire, 4, Len(wire) - Len(ReadPrimary(wire).rest)))

\* getLength(bundle), which decides whether a bundle fits into a datagram or
\* into the storage, is the number of bytes that are written, but for the
\* length fields of the blocks and one byte of the primary block.
PredictionIsNear ==
  (phase = "head" /\ mode = "binary" /\ ~compressable(sent)) =>
    Size(wire) - getLength(sent) \in
      -1 .. FoldLeft(LAMBDA n, b : n + encoding_len[DataLength(b)] + (IF b.class = "Age" THEN 1 ELSE 0),
                     0, sent.blocks)

\* Exactly the last block of the register is marked as the last one, whatever
\* the client adds, deletes and writes, and so is the bundle that was read.
Marked(blocks) == \A i \in DOMAIN blocks : get(blocks[i], "LAST") <=> i = Len(blocks)
LastBlockMarked ==
  ~damaged => /\ Marked(reg.blocks)
              /\ (phase = "done" /\ mode # "plain") => Marked(got.blocks)

\* The end of a bundle is where the mark says: whatever a client does to the
\* register, the mark is on its last block, and a reader stops there.  The
\* lengths agree with it: the one the primary block announces is exact, the
\* one of the whole bundle that others plan with differs by known bytes.
EndIsFound == LastBlockMarked /\ ReadsOneBundle /\ LengthsMatch /\ PredictionIsNear

\* The payload put together from fragments in order is the payload.
MergedIsWhole ==
  phase = "merged" =>
    SubSeq(merged, 1, Len(merged) - 1) = sent.blocks[payloadIndex(sent.blocks)].data

\* Reading the plain format back yields a bundle with the same binary format
\* (ibrdtn/tests/api/TestPlainSerializer.cpp compares the two).
PlainIsInverse ==
  (phase = "done" /\ mode = "plain") =>
    \A i \in DOMAIN sent.blocks : got.blocks[i].type = sent.blocks[i].type
=============================================================================
