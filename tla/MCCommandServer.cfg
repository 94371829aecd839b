SPECIFICATION ServerSpec
CONSTANTS
  Bytes <- MCBytes
  FF = "FF"
  Zero = "h"
  Kind <- MCKind
  Images <- MCImages
  AbortStores <- MCAbortStores
  StagingChunks = 2
  Hosts = {"a", "p", "q"}
  Slow = {"p", "q"}
  Goal <- MCGoal
  Questions = {"info", "bad"}
  Consoles = {}
  Backlog = 3
  MaxAborts = 2
INVARIANTS
  ServerTypeOK
  WireHolds
PROPERTIES
  EveryoneIsServed
  UploadCompletes
