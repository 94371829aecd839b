SPECIFICATION UpdateSpec
CONSTANTS
  Bytes <- MCBytes
  FF = "FF"
  Zero = "x"
  Junk = "x"
  Kind <- MCKind
  Images <- MCImages
  Factory <- MCFactory
  AbortStores <- MCAbortStores
  StagingChunks = 2
  SlotChunks = 2
  SectorChunks = 2
INVARIANTS
  UpdateTypeOK
  ReadySurvivesReset
  AutoRebootIsArmed
  RebootFlagIsScoped
  OnlyAckedIsInstalled
PROPERTY
  RefinesBootloader
VIEW MCView
