CONSTANTS
  ByteBase = 256
  MaxSize = 8
  EndpointTable <- MCEndpointTable
  EndpointClusters <- MCEndpointClusters
  AttrTable <- MCAttrTable
  LookupTable <- MCLookupTable
  GarbageBytes = {0, 255}
  ShortBuffers = TRUE
  WriteValues <- MCWriteValues

SPECIFICATION StoreSpec
INVARIANT StoredWithinBounds
