CONSTANTS
  Items = {"x", "y"}
  Blobs = {"old"}
  Trash = {}
  Deleted = "deleted"
  Identity = "y"
  Devices = {"d1", "d2"}
  Tasks = {"a", "c"}
  Syncs = {"a"}
  Pushes = {"a", "c"}
  DeviceOf <- OneTaskEach
  LevelOf <- Levels
  MaxRevision = 2
  PageRows = 1
  MaxBatch = 2
  MaxLevel = 0
  Locking = {}
  MaxRestores = 1
  Overlap = "none"
  Quiet = FALSE
SPECIFICATION Spec
INVARIANT FullPullExact
