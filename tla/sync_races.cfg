CONSTANTS
  Items = {"x"}
  Blobs = {"old", "trash"}
  Trash = {"trash"}
  Deleted = "deleted"
  Identity = "y"
  Devices = {"d1", "d2"}
  Tasks = {"a", "b", "c"}
  Syncs = {"a"}
  Pushes = {"b", "c"}
  DeviceOf <- TwoTasks
  LevelOf <- Levels
  MaxRevision = 3
  PageRows = 1
  MaxBatch = 2
  MaxLevel = 0
  Locking = {"d1"}
  MaxRestores = 0
  Overlap = "all"
  Quiet = FALSE
SPECIFICATION Spec
INVARIANTS TypeOK NeverAhead
PROPERTY NoBlindOverwrite
