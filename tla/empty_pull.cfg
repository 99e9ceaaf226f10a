CONSTANTS
  Items = {"x"}
  Blobs = {"old"}
  Trash = {}
  Deleted = "deleted"
  Identity = "y"
  Devices = {"d1", "d2"}
  Tasks = {"a", "c"}
  Syncs = {"a"}
  Pushes = {"a", "c"}
  DeviceOf <- OneTaskEach
  LevelOf <- Levels
  MaxRevision = 3
  PageRows = 1
  MaxBatch = 2
  MaxLevel = 0
  Locking = {}
  MaxRestores = 0
  Overlap = "none"
  Quiet = FALSE
SPECIFICATION Spec
INVARIANT CursorCovers
