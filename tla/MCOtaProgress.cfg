SPECIFICATION ProgressSpec
CONSTANTS
  Bytes <- MCBytes
  FF = "FF"
  Zero = "x"
  Junk = "x"
  Kind <- MCKind
  Images <- MCImages
  Factory <- MCFactory
  AbortStores <- MCAbortStores
  StagingChunks = 2
  SlotChunks = 2
  SectorChunks = 2
  MaxResets = 2
INVARIANT
  ChecksumsHold
PROPERTIES
  RebootInstalls
  BootEnds
CHECK_DEADLOCK FALSE
VIEW MCView
