CONSTANTS
  Items = {"x"}
  Blobs = {"old", "new"}
  Trash = {}
  Deleted = "deleted"
  Identity = "y"
  Devices = {"d1", "d2"}
  Tasks = {"a", "c"}
  Syncs = {"a"}
  Pushes = {"a", "c"}
  DeviceOf <- OneTaskEach
  LevelOf <- Levels
  MaxRevision = 2
  PageRows = 1
  MaxBatch = 2
  MaxLevel = 1
  Locking = {}
  MaxRestores = 0
  Overlap = "none"
  Quiet = TRUE
SPECIFICATION LiveSpec
PROPERTY Converges
