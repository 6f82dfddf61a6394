---------------------------- MODULE ZclNumeric ----------------------------
(***************************************************************************)
(* The bounds codec of zcl-core-attribute.c: the byte-wise sign extension, *)
(* two's complement and signed difference that isLessThan uses to compare  *)
(* an attribute value with its minimum and maximum.                        *)
(*                                                                         *)
(* A value is a buffer of bytes in little-endian order (the code's         *)
(* working order after chZclSignExtendAttributeBuffer), modelled as a      *)
(* sequence whose first element is the least significant byte.  ByteBase  *)
(* is the number of values of one byte (256 for uint8_t); 0x80 and 0xFF of *)
(* the code are SignBit and ByteMax.                                       *)
(***************************************************************************)
EXTENDS Integers, Sequences

CONSTANTS
  ByteBase,        \* 256: the values of one uint8_t
  MaxSize          \* CHIP_ZCL_ATTRIBUTE_MAX_SIZE

ASSUME ByteBase \in {2^k : k \in 1..8} /\ MaxSize \in Nat \ {0}

SignBit == ByteBase \div 2          \* 0x80
ByteMax == ByteBase - 1             \* 0xFF

\* The ZCLIP types the bound check and the sign extension accept.
NumericTypes == {"INTEGER", "UNSIGNED_INTEGER", "BOOLEAN"}

Bytes(n) == [1..n -> 0..ByteMax]

(***************************************************************************)
(* chZclSignExtendAttributeBuffer: copy the input into the low bytes and   *)
(* fill the high bytes with 0xFF when the type is signed and the most      *)
(* significant input byte has its sign bit set, else with 0x00.  The code  *)
(* asserts type \in NumericTypes and Len(in) < outLen.                     *)
(***************************************************************************)
SignExtend(in, outLen, type) ==
  LET ext == IF type = "INTEGER" /\ in[Len(in)] >= SignBit THEN ByteMax ELSE 0
  IN  [i \in 1..outLen |-> IF i <= Len(in) THEN in[i] ELSE ext]

(***************************************************************************)
(* convertBufferToTwosComplement: invert every byte, then add one, the     *)
(* carry rippling up through 0xFF bytes and stopping at the first byte     *)
(* below 0xFF.                                                             *)
(***************************************************************************)
RECURSIVE AddOneFrom(_, _)
AddOneFrom(buf, i) ==
  IF i > Len(buf) THEN buf
  ELSE IF buf[i] < ByteMax THEN [buf EXCEPT ![i] = @ + 1]
  ELSE AddOneFrom([buf EXCEPT ![i] = 0], i + 1)

TwosComplement(buf) ==
  AddOneFrom([i \in 1..Len(buf) |-> ByteMax - buf[i]], 1)

(***************************************************************************)
(* The byte-wise addition loop of chZclGetAbsDifference: a sum of 256 or   *)
(* more keeps its low byte and carries one into the next byte; the final   *)
(* carry is dropped.                                                       *)
(***************************************************************************)
RECURSIVE AddBytes(_, _, _, _)
AddBytes(a, b, i, carry) ==
  IF i > Len(a) THEN <<>>
  ELSE LET tmp == a[i] + b[i] + carry
       IN  IF tmp >= ByteBase
             THEN <<tmp - ByteBase>> \o AddBytes(a, b, i + 1, 1)
             ELSE <<tmp>> \o AddBytes(a, b, i + 1, 0)

(***************************************************************************)
(* chZclGetAbsDifference: diff = A + (-B); the result is negative when the *)
(* top byte of diff has its sign bit set, and then diff is negated to its  *)
(* absolute value.  (B is negated and restored in place in the code; the   *)
(* model leaves B untouched, which is what the restore achieves.)          *)
(***************************************************************************)
GetAbsDifference(a, b) ==
  LET diff     == AddBytes(a, TwosComplement(b), 1, 0)
      negative == diff[Len(diff)] >= SignBit
  IN  [negative |-> negative,
       diff     |-> IF negative THEN TwosComplement(diff) ELSE diff]

Larger(x, y) == IF x > y THEN x ELSE y

\* A variant of isLessThan that takes the sign of the difference from the
\* top byte of the operands' own width, as if the extra sign-extension
\* byte ("++size") were left out: the difference can then overflow.
IsLessThanNoGuard(a, b, attrSize, type) ==
  LET size == Larger(Larger(Len(a), Len(b)), attrSize)
  IN  IF size > MaxSize THEN FALSE
      ELSE LET a1 == SignExtend(a, size + 1, type)
               b1 == SignExtend(b, size + 1, type)
           IN  AddBytes(a1, TwosComplement(b1), 1, 0)[size] >= SignBit

(***************************************************************************)
(* isLessThan(dataA, dataALength, dataB, dataBLength, attribute): extend   *)
(* both operands to the largest of the two lengths and the attribute size, *)
(* plus one guard byte, and report whether A - B is negative.  A working   *)
(* size above CHIP_ZCL_ATTRIBUTE_MAX_SIZE makes it answer FALSE.           *)
(***************************************************************************)
IsLessThan(a, b, attrSize, type) ==
  LET size == Larger(Larger(Len(a), Len(b)), attrSize)
  IN  IF size > MaxSize THEN FALSE
      ELSE GetAbsDifference(SignExtend(a, size + 1, type),
                            SignExtend(b, size + 1, type)).negative

(***************************************************************************)
(* Reference definitions: the integer a buffer denotes under the declared  *)
(* type (two's complement for INTEGER, plain binary otherwise), and the    *)
(* little-endian buffer of n bytes holding the bit pattern of a natural.   *)
(***************************************************************************)
RECURSIVE Unsigned(_)
Unsigned(buf) ==
  IF Len(buf) = 0 THEN 0 ELSE buf[1] + ByteBase * Unsigned(Tail(buf))

ToInt(buf, type) ==
  IF type = "INTEGER" /\ buf[Len(buf)] >= SignBit
    THEN Unsigned(buf) - ByteBase ^ Len(buf)
    ELSE Unsigned(buf)

Encode(raw, n) == [i \in 1..n |-> (raw \div ByteBase ^ (i - 1)) % ByteBase]

=============================================================================
