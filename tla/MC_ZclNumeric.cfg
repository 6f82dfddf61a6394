CONSTANTS
  ByteBase = 256
  MaxSize = 8

SPECIFICATION Spec
INVARIANT LessThanIsIntegerOrder
\* One call is one comparison: the computation stops after it.
CHECK_DEADLOCK FALSE
