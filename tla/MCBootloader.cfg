SPECIFICATION Spec
CONSTANTS
  Bytes <- MCBytes
  FF = "FF"
  Zero = "zero"
  Junk = "zero"
  Kind <- MCKind
  Images <- MCImages
  Factory <- MCFactory
  StagingChunks = 3
  SlotChunks = 4
  SectorChunks = 2
INVARIANTS
  TypeOK
  OnlyVerifiedIsInstalled
  IntactSlot
  UpdateReported
  
PROPERTIES
  TornKeepsBlock
  UpdateIsAtomic
