CONSTANTS
  ByteBase = 256
  MaxSize = 8
  EndpointTable <- MCEndpointTable
  EndpointClusters <- MCEndpointClusters
  AttrTable <- MCAttrTable
  LookupTable <- MCLookupTable
  GarbageBytes = {0}
  ShortBuffers = FALSE
  WriteValues <- MCWriteValues
  DecodeStatuses = {"INVALID_VALUE"}
  Requests <- MCRequests

SPECIFICATION WriteSpec
CONSTRAINT Bounded
INVARIANT UndividedAllOrNothing
