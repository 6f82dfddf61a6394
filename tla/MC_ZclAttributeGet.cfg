\* Peer GETs of cluster 6 (five local attributes, ids 0-4) and cluster 8
\* (one remote attribute) with one "f=" segment of up to three tokens and
\* one "meta=" segment, each optional; every raw "f=" value of up to five
\* symbols of {0, 1, 2, A, ",", "-", "+", "*"} on cluster 6; and client
\* reads of up to four distinct ids of {0, 1, 2, 3, 5}, or of 18 to 21 ids
\* two apart.
CONSTANTS
  ByteBase = 256
  MaxSize = 8
  EndpointTable <- MCEndpointTable
  EndpointClusters <- MCEndpointClusters
  AttrTable <- MCAttrTable
  LookupTable <- MCLookupTable
  GarbageBytes = {0}
  ShortBuffers = FALSE
  WriteValues <- MCWriteValues
  MaxQuerySegments = 10
  FilterCapacity = 10
  UsedCountsBits = 16
  RangeArrayLength = 19
  RangeDatumBytes = 4
  UriMaxLength = 64
  UriPathLength = 14
  Alphabet = {"0", "1", "2", "A", ",", "-", "+", "*"}
  MaxLength = 5
SPECIFICATION GetSpec
INVARIANT ParseMatchesGrammar
INVARIANT ListingCoversQuery
INVARIANT CountFiltersListTheirWindows
INVARIANT ReadServesRequestedIds
INVARIANT ReadReportsRequestedIds
INVARIANT GroupReportsPerEndpoint
INVARIANT ValuesAreReads
PROPERTY ReadEventuallyEnds
\* Each request is handled, and its answer or failure reaches the client,
\* once; the run then stops.
CHECK_DEADLOCK FALSE
