----------------------------- MODULE Serializer -----------------------------
(***************************************************************************)
(* The formats of bundles: the binary one with its dictionary, the one in  *)
(* which the database keeps single blocks and the text of the extended     *)
(* API.  A binary stream is a sequence of tokens: a number with the bytes  *)
(* of its SDNV, a byte, a dictionary or a string.  The field n is the      *)
(* number of bytes.                                                        *)
(***************************************************************************)
EXTENDS SDNV, Bundles

CONSTANTS StrLen,     \* [string -> length]
          IpnNumbers  \* [scheme specific part of ipn -> <<node, application>>]

-----------------------------------------------------------------------------
(* Endpoint identifiers and the dictionary of the primary block             *)
(* (ibrdtn/data/EID.cpp, Dictionary.cpp).  A scheme or a scheme specific    *)
(* part is a string of which only the length and, in the ipn scheme, the    *)
(* two numbers are told apart.  The dictionary is the sequence of the       *)
(* strings it holds; each ends with a zero byte.                            *)

None == [scheme |-> "dtn", ssp |-> "none"]

isNone(eid) == eid = None
isCompressable(eid) == isNone(eid) \/ eid.scheme = "ipn"

\* EID::getCompressed: dtn:none has no numbers, which leaves zeros.
getCompressed(eid) == IF eid.scheme = "ipn" THEN IpnNumbers[eid.ssp] ELSE <<0, 0>>

\* EID::EID(node, application) writes "node.application".
FromNumbers(node, app) ==
  IF node = 0 THEN None
  ELSE [scheme |-> "ipn",
        ssp |-> CHOOSE s \in DOMAIN IpnNumbers : IpnNumbers[s] = <<node, app>> /\ StrLen[s] > 1]

Clear == << >>

\* Dictionary::add: a string is added once.
addString(d, s) == IF Contains(d, s) THEN d ELSE Append(d, s)
add(d, eid) == addString(addString(d, eid.scheme), eid.ssp)
addAll(d, eids) == FoldLeft(add, d, eids)

Sizes(d, n) == FoldLeft(LAMBDA size, s : size + StrLen[s] + 1, 0, SubSeq(d, 1, n))
getSize(d) == Sizes(d, Len(d))

\* Seeded error: the zero bytes are not counted.
offsetShort(d, s) == LET i == CHOOSE i \in DOMAIN d : d[i] = s IN Sizes(d, i - 1) - (i - 1)

\* Dictionary::get(string): the offset of its first byte.
offset(d, s) == LET i == CHOOSE i \in DOMAIN d : d[i] = s IN Sizes(d, i - 1)

getRef(d, eid) == <<offset(d, eid.scheme), offset(d, eid.ssp)>>

\* Dictionary::get(scheme, ssp): the strings that start at two offsets.  A
\* reference that is not the start of a string yields a part of one.
stringAt(d, o) ==
  IF \E i \in DOMAIN d : Sizes(d, i - 1) = o
  THEN d[CHOOSE i \in DOMAIN d : Sizes(d, i - 1) = o]
  ELSE "part of a string"
getEid(d, scheme, ssp) == [scheme |-> stringAt(d, scheme), ssp |-> stringAt(d, ssp)]
-----------------------------------------------------------------------------
(* The binary format (ibrdtn/data/Serializer.cpp).                          *)

Num(x)  == [v |-> Encode(x), n |-> encoding_len[x]]
Byte(x) == [v |-> x, n |-> 1]
Bytes(data) == [i \in DOMAIN data |-> Byte(data[i])]
Value(token) == Decode(token.v)
Size(tokens) == FoldLeft(LAMBDA n, t : n + t.n, 0, tokens)
Drop(tokens, n) == SubSeq(tokens, n + 1, Len(tokens))
Skip(d, block) == addAll(d, block.eids)

\* The four EIDs of the primary block, in the order of the dictionary.
HeaderEids(p) == <<p.destination, p.source, p.reportto, p.custodian>>

rebuildDictionary(b) == FoldLeft(Skip, addAll(Clear, HeaderEids(b)), b.blocks)

\* isCompressable(bundle): every EID in it has numbers.
compressable(b) ==
  /\ \A i \in 1 .. 4 : isCompressable(HeaderEids(b)[i])
  /\ \A i \in DOMAIN b.blocks : \A j \in DOMAIN b.blocks[i].eids : isCompressable(b.blocks[i].eids[j])

Ref(d, comp, eid) == IF comp THEN getCompressed(eid) ELSE getRef(d, eid)
Refs(d, comp, eids) == FlattenSeq([i \in DOMAIN eids |-> Ref(d, comp, eids[i])])

-----------------------------------------------------------------------------
(* DefaultSerializer *)

\* primaryheader[0 .. 11]
Header(p, d, comp) ==
  Refs(d, comp, HeaderEids(p)) \o <<p.timestamp, p.sequencenumber, p.lifetime>>
    \o <<IF comp THEN 0 ELSE getSize(d)>>

\* primaryheader[12 .. 13]
FragmentHeader(p) ==
  IF get(p, "FRAGMENT") THEN <<p.fragmentoffset, p.appdatalength>> ELSE << >>

LengthOf(numbers) == FoldLeft(LAMBDA n, x : n + encoding_len[x], 0, numbers)

\* The length of the block, summed up before anything is written.
BlockLength(p, d, comp) ==
  (IF comp THEN 0 ELSE getSize(d)) + LengthOf(Header(p, d, comp)) + LengthOf(FragmentHeader(p))

Nums(numbers) == [i \in DOMAIN numbers |-> Num(numbers[i])]

\* operator<<(Dictionary), which writes the size again.
DictionaryTokens(d) == <<Num(getSize(d)), [v |-> d, n |-> getSize(d)]>>

PrimaryTokens(p, d, comp) ==
  <<Byte(6), Num(FlagsToNumber(p.flags, BundleFlags)), Num(BlockLength(p, d, comp))>>
    \o Nums(SubSeq(Header(p, d, comp), 1, 11))
    \o (IF comp THEN <<Num(0)>> ELSE DictionaryTokens(d))
    \o Nums(FragmentHeader(p))

\* Type, flags and references, the part before the length of the data.
BlockHeader(b, d, comp) ==
  <<Byte(b.type), Num(FlagsToNumber(b.flags, BlockFlags))>>
    \o (IF get(b, "EIDS") THEN <<Num(Len(b.eids))>> \o Nums(Refs(d, comp, b.eids)) ELSE << >>)

\* Block::getLength and Block::serialize.  An AgeBlock takes the time twice:
\* a clock that ticks in between writes a larger number than was announced.
DataLength(b) == IF b.class = "Age" THEN encoding_len[b.data[1]] ELSE Len(b.data)
DataTokens(b, tick) == IF b.class = "Age" THEN <<Num(b.data[1] + tick)>> ELSE Bytes(b.data)

BlockTokens(b, d, comp, tick) ==
  BlockHeader(b, d, comp) \o <<Num(DataLength(b))>> \o DataTokens(b, tick)

BundleTokens(b, tick) ==
  LET d == rebuildDictionary(b)
      comp == compressable(b)
  IN  PrimaryTokens(b, d, comp)
        \o FlattenSeq([i \in DOMAIN b.blocks |-> BlockTokens(b.blocks[i], d, comp, tick)])

\* serialize(PayloadBlock, clip_offset, clip_length)
ClippedTokens(b, d, comp, off, len) ==
  BlockHeader(b, d, comp) \o <<Num(len)>> \o Bytes(SubSeq(b.data, off + 1, off + len))

\* operator<<(BundleFragment): the payload is clipped, what is before it is
\* written if it is replicated, what is behind it is written always.
InFragment(b, i) ==
  \/ i >= payloadIndex(b.blocks)
  \/ get(b.blocks[i], "REPLICATE")

FragmentPrimary(b, off, len) ==
  [b EXCEPT !.flags = @ \cup {"FRAGMENT"}, !.appdatalength = len, !.fragmentoffset = @ + off]

FragmentTokens(b, off, len, tick) ==
  LET d == rebuildDictionary(b)
      comp == compressable(b)
      block(i) == IF i = payloadIndex(b.blocks) THEN ClippedTokens(b.blocks[i], d, comp, off, len)
                  ELSE IF InFragment(b, i) THEN BlockTokens(b.blocks[i], d, comp, tick) ELSE << >>
  IN  PrimaryTokens(FragmentPrimary(b, off, len), d, comp)
        \o FlattenSeq([i \in DOMAIN b.blocks |-> block(i)])

\* getLength(bundle) of a serializer that wrote nothing yet: it works with the
\* dictionary even for a bundle that is going to be compressed, adds the size
\* of the length of the primary block from a sum that has the version and the
\* flags in it, and leaves the length field of the blocks out.
PredictedPrimary(p, d) ==
  LET len == 1 + encoding_len[FlagsToNumber(p.flags, BundleFlags)] + LengthOf(Header(p, d, FALSE))
               + getSize(d) + LengthOf(FragmentHeader(p))
  IN  len + encoding_len[len]

PredictedBlock(b, d) ==
  1 + encoding_len[FlagsToNumber(b.flags, BlockFlags)]
    + (IF get(b, "EIDS") THEN encoding_len[Len(b.eids)] + LengthOf(Refs(d, FALSE, b.eids)) ELSE 0)
    + DataLength(b)

getLength(b) ==
  LET d == rebuildDictionary(b)
  IN  PredictedPrimary(b, d) + FoldLeft(LAMBDA n, block : n + PredictedBlock(block, d), 0, b.blocks)

-----------------------------------------------------------------------------
(* DefaultDeserializer *)

\* operator>>(PrimaryBlock): a dictionary of size zero makes the references
\* the numbers of compressed EIDs.
ReadPrimary(w) ==
  LET flags == NumberToFlags(Value(w[2]), BundleFlags)
      comp  == Value(w[15]) = 0
      d     == IF comp THEN Clear ELSE w[16].v
      eid(i) == LET a == Value(w[2 + 2 * i]) b == Value(w[3 + 2 * i])
                IN  IF comp THEN FromNumbers(a, b) ELSE getEid(d, a, b)
      next  == IF comp THEN 16 ELSE 17
      frag  == "FRAGMENT" \in flags
  IN  [p |-> [flags |-> flags, destination |-> eid(1), source |-> eid(2), reportto |-> eid(3),
              custodian |-> eid(4), timestamp |-> Value(w[12]), sequencenumber |-> Value(w[13]),
              lifetime |-> Value(w[14]),
              fragmentoffset |-> IF frag THEN Value(w[next]) ELSE 0,
              appdatalength |-> IF frag THEN Value(w[next + 1]) ELSE 0,
              blocks |-> << >>],
       d |-> d, comp |-> comp,
       rest |-> Drop(w, IF frag THEN next + 1 ELSE next - 1)]

\* The data of a block: an AgeBlock reads one number whatever was announced.
ReadData(obj, w, len) ==
  IF obj.class = "Age" THEN [data |-> <<Value(w[1])>>, rest |-> Drop(w, 1)]
  ELSE [data |-> [i \in 1 .. len |-> w[i].v], rest |-> Drop(w, len)]

\* operator>>(Block): the mark of the last block stays as the list has set it
\* when the stream has it too.
ReadBlock(obj, w, d, comp) ==
  LET flags == NumberToFlags(Value(w[2]), BlockFlags) \ ({"LAST"} \ obj.flags)
      count == IF "EIDS" \in flags THEN Value(w[3]) ELSE 0
      eid(i) == LET a == Value(w[2 + 2 * i]) b == Value(w[3 + 2 * i])
                IN  IF comp THEN FromNumbers(a, b) ELSE getEid(d, a, b)
      at    == IF "EIDS" \in flags THEN 4 + 2 * count ELSE 3
      read  == ReadData(obj, Drop(w, at), Value(w[at]))
      block == [obj EXCEPT !.type = w[1].v, !.flags = flags]
  IN  [block |-> deserialize(addEIDs(block, [i \in 1 .. count |-> eid(i)]), read.data),
       rest  |-> read.rest]

-----------------------------------------------------------------------------
(* SeparateSerializer and SeparateDeserializer: EIDs as strings. *)

StringToken(eid) ==
  LET n == StrLen[eid.scheme] + 1 + StrLen[eid.ssp] IN [v |-> eid, n |-> encoding_len[n] + n]

SeparateTokens(b, tick) ==
  <<Byte(b.type), Num(FlagsToNumber(b.flags, BlockFlags))>>
    \o (IF get(b, "EIDS") THEN <<Num(Len(b.eids))>> \o [i \in DOMAIN b.eids |-> StringToken(b.eids[i])]
        ELSE << >>)
    \o <<Num(DataLength(b))>> \o DataTokens(b, tick)

ReadSeparate(obj, w) ==
  LET flags == NumberToFlags(Value(w[2]), BlockFlags)
      count == IF "EIDS" \in flags THEN Value(w[3]) ELSE 0
      at    == IF "EIDS" \in flags THEN 4 + count ELSE 3
      read  == ReadData(obj, Drop(w, at), Value(w[at]))
      block == [obj EXCEPT !.type = w[1].v, !.flags = flags]
  IN  [block |-> deserialize(addEIDs(block, [i \in 1 .. count |-> w[3 + i].v]), read.data),
       rest  |-> read.rest]
-----------------------------------------------------------------------------
(* The text format of the extended API (ibrdtn/api/PlainSerializer.cpp).    *)
(* A text is a sequence of paragraphs: the primary block, then the blocks.  *)
(* The wording of the lines and the base64 code of the data are left out;   *)
(* what a paragraph can say and what reading it does to a bundle is kept.   *)

\* operator<<(PrimaryBlock): the fields of a fragment only if it is one.
PrimaryText(p) ==
  [p EXCEPT !.blocks = << >>,
            !.fragmentoffset = IF get(p, "FRAGMENT") THEN @ ELSE 0,
            !.appdatalength  = IF get(p, "FRAGMENT") THEN @ ELSE 0]

\* operator<<(Block): the flag of the EIDs is not among the names, the EIDs
\* themselves are lines.
BlockText(b) ==
  [type |-> b.type, flags |-> b.flags \ {"EIDS"},
   eids |-> IF get(b, "EIDS") THEN b.eids ELSE << >>, data |-> b.data]

PlainText(b) == <<PrimaryText(b)>> \o [i \in DOMAIN b.blocks |-> BlockText(b.blocks[i])]

\* operator>>(Block): flags are only ever added, and the type in the text is
\* not written into the block.
FromText(obj, text) ==
  deserialize(addEIDs([obj EXCEPT !.flags = @ \cup text.flags], text.eids), text.data)

\* BlockInserter::insert: the list with the new block and its position.
BlockInserter(blocks, block, align, pos) ==
  CASE align = "FRONT" \/ (align = "MIDDLE" /\ pos <= 0)
         -> [list |-> push_front(blocks, block), at |-> 1]
    [] align = "MIDDLE" /\ pos > 0 /\ pos <= Len(blocks)
         -> [list |-> insert(blocks, block, pos), at |-> pos]
    [] OTHER
         -> [list |-> push_back(blocks, block), at |-> Len(blocks) + 1]

\* The class readBlock chooses; an administrative record is read into a
\* temporary block first to look at its first byte.
AdmClass(data) == CASE data[1] \div 16 = 1 -> "StatusReport"
                    [] data[1] \div 16 = 2 -> "CustodySignal"
                    [] OTHER               -> "Unknown"
ReadClass(type, data, adm) ==
  IF type = PayloadType /\ adm THEN AdmClass(data) ELSE ClassOf(type)

\* readBlock.  A block that must be discarded is refused after it was
\* inserted, and stays where it is.
readBlock(blocks, text, align, pos, adm) ==
  LET class == ReadClass(text.type, text.data, adm)
      in    == BlockInserter(blocks, NewBlock(class), align, pos)
      block == FromText(set(in.list[in.at], "LAST", FALSE), text)
      list  == ReplaceAt(in.list, in.at, block)
  IN  CASE text.type = 0      -> [status |-> "InvalidData", list |-> blocks, at |-> 0]
        [] class = "Unknown"  -> [status |-> "UnknownBlock", list |-> blocks, at |-> 0]
        [] text.type # PayloadType /\ get(block, "DISCARD")
                              -> [status |-> "NotProcessable", list |-> list, at |-> in.at]
        [] OTHER              -> [status |-> "read", list |-> list, at |-> in.at]
=============================================================================
