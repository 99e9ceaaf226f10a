CONSTANTS
  Items = {"x"}
  Blobs = {"old"}
  Trash = {}
  Deleted = "deleted"
  Identity = "y"
  Devices = {"d1", "d2"}
  Tasks = {"a", "b", "c"}
  Syncs = {"a", "c"}
  Pushes = {"b", "c"}
  DeviceOf <- TwoTasks
  LevelOf <- Levels
  MaxRevision = 3
  PageRows = 1
  MaxBatch = 2
  MaxLevel = 0
  Locking = {}
  MaxRestores = 0
  Overlap = "all"
  Quiet = TRUE
SPECIFICATION Spec
INVARIANT CaughtUp
