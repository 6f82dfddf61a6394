--------------------------- MODULE MC_ZclNumeric ---------------------------
(***************************************************************************)
(* Checks isLessThan over bounded inputs against integer order.  Each      *)
(* initial state is one call: two operand buffers and the attribute's      *)
(* declared type and size; the one step performs the comparison.          *)
(***************************************************************************)
EXTENDS ZclNumeric

VARIABLES a, b, type, attrSize, called, result

vars == <<a, b, type, attrSize, called, result>>

\* Every one-byte buffer, and the two-byte buffers built from the bytes at
\* the edges of the signed and unsigned ranges, so that mixed operand
\* lengths are compared at their extremes.
EdgeBytes == {0, 1, SignBit - 1, SignBit, ByteMax - 1, ByteMax}
Operands == Bytes(1) \cup [1..2 -> EdgeBytes]

Init ==
  /\ a \in Operands
  /\ b \in Operands
  /\ type \in NumericTypes
  /\ attrSize \in {1, 2}
  /\ called = FALSE
  /\ result = FALSE

\* One call of isLessThan(a, Len(a), b, Len(b), attribute).
Compare ==
  /\ ~called
  /\ called' = TRUE
  /\ result' = IsLessThan(a, b, attrSize, type)
  /\ UNCHANGED <<a, b, type, attrSize>>

Next == Compare

Spec == Init /\ [][Next]_vars

(***************************************************************************)
(* isLessThan answers exactly "A < B" for the integers the two buffers     *)
(* denote under the attribute's type, whatever their lengths: the sign     *)
(* extension, the guard byte and the carry of the two's complement         *)
(* subtraction together must never lose the sign of the difference.  The   *)
(* write path's bound check (value < min, max < value) relies on this.     *)
(***************************************************************************)
LessThanIsIntegerOrder ==
  called => (result <=> ToInt(a, type) < ToInt(b, type))

=============================================================================
