\* The main GET configuration, checking the client range array bound.
\* Raw "f=" values are not enumerated (MaxLength 0): the structured peer
\* requests and client reads reach the case this run is about.
CONSTANTS
  ByteBase = 256
  MaxSize = 8
  EndpointTable <- MCEndpointTable
  EndpointClusters <- MCEndpointClusters
  AttrTable <- MCAttrTable
  LookupTable <- MCLookupTable
  GarbageBytes = {0}
  ShortBuffers = FALSE
  WriteValues <- MCWriteValues
  MaxQuerySegments = 10
  FilterCapacity = 10
  UsedCountsBits = 16
  RangeArrayLength = 19
  RangeDatumBytes = 4
  UriMaxLength = 64
  UriPathLength = 14
  Alphabet = {"0", "1", "2", "A", ",", "-", "+", "*"}
  MaxLength = 0
SPECIFICATION GetSpec
INVARIANT RangesWithinArray
\* Each request is handled once; the run then stops.
CHECK_DEADLOCK FALSE
