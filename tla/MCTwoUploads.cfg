SPECIFICATION ServerSpec
CONSTANTS
  Bytes <- MCBytes
  FF = "FF"
  Zero = "h"
  Kind <- MCKind
  Images <- MCImages
  AbortStores <- MCAbortStores
  StagingChunks = 2
  Hosts = {"b", "d", "q"}
  Slow = {"b"}
  Goal <- MCGoal
  Questions = {"lock", "abort", "reboot"}
  Consoles = {"ota", "other"}
  Backlog = 1
  MaxAborts = 0
PROPERTIES
  EndIsWhole
  LockKeepsOut
CHECK_DEADLOCK FALSE
VIEW MCView
