CONSTANTS
  Items = {"x"}
  Blobs = {"old", "new"}
  Trash = {}
  Deleted = "deleted"
  Identity = "y"
  Devices = {"d1", "d2"}
  Tasks = {"a", "b", "c"}
  Syncs = {"a", "b"}
  Pushes = {"c"}
  DeviceOf <- TwoTasks
  LevelOf <- Levels
  MaxRevision = 3
  PageRows = 1
  MaxBatch = 2
  MaxLevel = 1
  Locking = {}
  MaxRestores = 0
  Overlap = "retry"
  Quiet = TRUE
SPECIFICATION Spec
INVARIANT CursorCovers
