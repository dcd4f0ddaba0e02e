------------------------------- MODULE Bundles -------------------------------
(***************************************************************************)
(* Bundles in memory: the primary block, the blocks behind it and the       *)
(* operations on the list of blocks (ibrdtn/data/Bundle.cpp, Block.cpp,     *)
(* PrimaryBlock.cpp, ExtensionBlock.cpp, PayloadBlock.cpp, AgeBlock.cpp).   *)
(* The data of a block is a short sequence of bytes.                        *)
(***************************************************************************)
EXTENDS Integers, Sequences, SequencesExt, FiniteSetsExt

\* Block::ProcFlags, with the weights of the bits.
BlockFlags == [REPLICATE |-> 1, REPORT |-> 2, DELETE |-> 4, LAST |-> 8,
               DISCARD |-> 16, FORWARDED |-> 32, EIDS |-> 64]

\* PrimaryBlock::FLAGS, those the formats look at.
BundleFlags == [FRAGMENT |-> 1, ADMRECORD |-> 2]

\* _procflags as a number, and back.
FlagsToNumber(flags, bits) == FoldSet(LAMBDA f, n : n + bits[f], 0, flags)
NumberToFlags(n, bits) == {f \in DOMAIN bits : (n \div bits[f]) % 2 = 1}

PayloadType == 1
AgeType     == 10

\* ExtensionBlock::Factory::get(): the types that have a class of their own;
\* all others are read into an ExtensionBlock.
HasFactory(type) == type = AgeType
ClassOf(type) == IF type = PayloadType THEN "Payload"
                 ELSE IF HasFactory(type) THEN "Age" ELSE "Extension"

\* The constructors: an AgeBlock is replicated in every fragment, an
\* ExtensionBlock has the type zero until a reader sets it.
NewBlock(class) ==
  [class |-> class,
   type  |-> IF class = "Extension" THEN 0 ELSE IF class = "Age" THEN AgeType ELSE PayloadType,
   flags |-> IF class = "Age" THEN {"REPLICATE"} ELSE {},
   eids  |-> << >>,
   data  |-> IF class = "Age" THEN <<0>> ELSE << >>]

set(block, flag, value) ==
  [block EXCEPT !.flags = IF value THEN @ \cup {flag} ELSE @ \ {flag}]

get(block, flag) == flag \in block.flags

\* Block::addEID for every EID of a list.
addEIDs(block, eids) ==
  IF eids = << >> THEN block
  ELSE [block EXCEPT !.eids = @ \o eids, !.flags = @ \cup {"EIDS"}]

\* Block::deserialize of each class: the data replaces what was there, and
\* the mark of an unprocessed block is set or taken away.
deserialize(block, data) ==
  LET b == [block EXCEPT !.data = data]
  IN  CASE block.class = "Extension" -> set(b, "FORWARDED", TRUE)
        [] block.class = "Age"       -> b
        [] OTHER                     -> set(b, "FORWARDED", FALSE)

-----------------------------------------------------------------------------
(* Bundle::BlockList *)

push_front(blocks, block) ==
  <<IF blocks = << >> THEN set(block, "LAST", TRUE) ELSE block>> \o blocks

push_back(blocks, block) ==
  LET before == IF blocks = << >> THEN << >>
                ELSE Append(Front(blocks), set(Last(blocks), "LAST", FALSE))
  IN  Append(before, set(block, "LAST", TRUE))

\* insert() before the block at a position.
insert(blocks, block, before) == InsertAt(blocks, before, block)

\* Seeded error: the new last block is not marked.
removeOnly(blocks, i) == RemoveAt(blocks, i)

remove(blocks, i) ==
  LET rest == RemoveAt(blocks, i)
  IN  IF rest = << >> THEN rest ELSE Append(Front(rest), set(Last(rest), "LAST", TRUE))

\* get<PayloadBlock>(): the first block with the type of a payload, if it has
\* the class too; 0 stands for NoSuchBlockFoundException.
payloadIndex(blocks) ==
  LET typed == {i \in DOMAIN blocks : blocks[i].type = PayloadType}
  IN  IF typed = {} THEN 0
      ELSE IF blocks[Min(typed)].class = "Payload" THEN Min(typed) ELSE 0

\* get<AgeBlock>()
hasAge(blocks) == \E i \in DOMAIN blocks : blocks[i].type = AgeType /\ blocks[i].class = "Age"
=============================================================================
