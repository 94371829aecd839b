SPECIFICATION ServerSpec
CONSTANTS
  Bytes <- MCBytes
  FF = "FF"
  Zero = "h"
  Kind <- MCKind
  Images <- MCImages
  AbortStores <- MCAbortStores
  StagingChunks = 2
  Hosts = {"a", "b"}
  Slow = {"a", "b"}
  Goal <- MCGoal
  Questions = {"info"}
  Consoles = {}
  Backlog = 2
  MaxAborts = 0
PROPERTY
  EndNamesImage
CHECK_DEADLOCK FALSE
