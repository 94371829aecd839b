SPECIFICATION CancelSpec
CONSTANTS
  Bytes <- MCBytes
  FF = "FF"
  Zero = "x"
  Junk = "x"
  Kind <- MCKind
  Images <- MCImages
  Factory <- MCFactory
  AbortStores <- MCAbortStores
  StagingChunks = 2
  SlotChunks = 2
  SectorChunks = 2
PROPERTIES
  CancelledIsNotInstalled
