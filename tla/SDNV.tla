-------------------------------- MODULE SDNV --------------------------------
(***************************************************************************)
(* Self-delimiting numeric values (ibrdtn/data/SDNV.cpp).  A number is      *)
(* written in groups of seven bits, most significant group first; every    *)
(* byte but the last one has its high bit set.  The value is a 64 bit       *)
(* unsigned integer and MAX_LENGTH is 10: nine groups and one bit.          *)
(*                                                                         *)
(* The group size and MAX_LENGTH are parameters, so that all the boundaries *)
(* (a further group, the last value that fits, an overflow) are within      *)
(* reach of small numbers; the code has GroupBits = 7, MaxLength = 10.      *)
(***************************************************************************)
EXTENDS Integers, Sequences, SequencesExt

CONSTANTS GroupBits,   \* bits of the value in a byte
          MaxLength    \* SDNV::MAX_LENGTH

ASSUME SDNVAssumption == GroupBits \in Nat \ {0} /\ MaxLength \in Nat \ {0}

HighBit == 2 ^ GroupBits

\* The values of the integer type: all groups but one, and one bit.
Modulus == 2 ^ (GroupBits * (MaxLength - 1) + 1)

\* The first of the loops of encode(): the number of bytes.
encoding_len[v \in Nat] == IF v < HighBit THEN 1 ELSE 1 + encoding_len[v \div HighBit]

\* encode(): the bytes are filled in backwards, the last one without the bit.
Encode(v) ==
  LET n == encoding_len[v]
  IN  [i \in 1 .. n |-> ((v \div (HighBit ^ (n - i))) % HighBit) + (IF i < n THEN HighBit ELSE 0)]

Malformed == -1

\* operator>> reads up to the first byte without the high bit; decode()
\* shifts the groups together and refuses what is longer than the type.
Decode(bytes) ==
  LET n     == CHOOSE i \in 1 .. Len(bytes) :
                 /\ bytes[i] < HighBit
                 /\ \A j \in 1 .. i - 1 : bytes[j] >= HighBit
      shift(v, byte) == (v * HighBit + (byte % HighBit)) % Modulus
  IN  IF \A i \in DOMAIN bytes : bytes[i] >= HighBit THEN Malformed
      ELSE IF n > MaxLength \/ (n = MaxLength /\ bytes[1] # HighBit + 1) THEN Malformed
      ELSE FoldLeft(shift, 0, SubSeq(bytes, 1, n))
=============================================================================
