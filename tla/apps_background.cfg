SPECIFICATION MCSpec
CONSTANTS
    \* Connections
    Peers = {"c1", "c2"}
    MaxConnections = 1
    MaxBackground = 2
    Outbox = 1
    BucketSize = 1
    \* Attachments
    Savers = {"c", "d"}
    Files = {"f", "g"}
    MaxPerEntry = 2
    MaxStored = 2
    MaxItemRev = 3
    \* Wire
    Counts = {0, 1, 50, 51}
    NoRequest = NoRequest
    \* Shell
    Threads = {"t"}
    IdleLimit = 1
    MaxCopies = 2
    MaxFiles = 1
    MaxHeld = 1
    \* Reach
    Asks = {"p", "q"}
    MaxOpenings = 2
    \* Updates
    Versions = {1, 2}
    MaxUpdateRuns = 4
    NoVersion = 0
    \* PhoneClock
    PhoneThreads = {"t"}
    PhoneLimit = 1
    MaxEvents = 2
INVARIANTS
    TypesOK
    DeliveredAsPromised
    DesktopInStep
PROPERTIES
    OwnersThingsStay
    ServicesFinish
    AppsFinish
CHECK_DEADLOCK FALSE
