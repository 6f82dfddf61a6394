CONSTANTS
  ByteBase = 256
  MaxSize = 8
  EndpointTable <- MCEndpointTable
  EndpointClusters <- MCEndpointClusters
  AttrTable <- MCAttrTable
  LookupTable <- MCLookupTable
  GarbageBytes = {0}
  ShortBuffers = FALSE
  WriteValues <- MCWriteValues

SPECIFICATION StoreSpec
INVARIANT TypeOK
INVARIANT RamNotifiedMatchesStored
INVARIANT StoredWithinBounds
PROPERTY StoreImplementsView
