SPECIFICATION MCSpec
CONSTANTS
    \* Devices
    DeviceIds = {"d1", "d2", "d3"}
    Attempts = {"q1", "q2"}
    MaxDevices = 1
    MaxTokens = 2
    \* RateLimit
    Addresses = {"x"}
    Claims = {"c"}
    MaxFailures = 2
    ManyFailures = 3
    Blocks <- MCBlocks
    GuessWindow = 4
    GuessBudget = 4
    MaxMinute = 9
    \* Pairing
    Pairings = {1, 2}
    Joiners = {"d"}
    Owners = {"a", "b"}
    PairingsPerIp = 2
    PendingPerIp = 1
    Nobody = Nobody
    \* Signup
    Activators = {"p", "q"}
    CodeAttempts = 2
    MaxCodes = 2
    MaxInvites = 2
    \* LocalVault
    Owned = {"a", "b"}
    MaxKeys = 2
    MaxCrashes = 1
    NoAcct = NoAcct
    \* StoreFile
    StoreAccounts = {"a", "b"}
    CachedFiles = {"f", "g", "h"}
    CacheCap = 2
    FileBytes <- MCBytes
    MaxRevision = 3
    MaxStoreCrashes = 2
    NoRow = NoRow
    \* PageVault
    Hosts = {"shop", "login.shop", "kin", "sh0p", "idp", "com"}
    Site <- MCSite
    NoSite = "-"
    Parents <- MCParents
    Groups <- MCGroups
    Skeleton <- MCSkeleton
    PaymentHosts = {"idp"}
    Localhost = "localhost"
    NoTop = NoTop
    Ids = {1, 2}
    PageUsers = {"ana"}
    Passwords = {"p", "q"}
    Providers = {"idp"}
    ProviderPages <- MCProviderPages
    Apps <- MCAppsKnown
    VerifiedHosts <- MCVerifiedHosts
    Frames <- MCFrames
    Tops <- MCTops
    InitialVaults <- MCVaults
    None = None
    \* Bridge
    Logins = {"i"}
    Threads = {"t1", "t2"}
    Interval = 1
    RepeatWindow = 2
    MaxHistory = 2
    MaxTime = 2
    MaxRev = 3
    MaxEpoch = 1
    MaxDialogs = 2
    Nil = Nil
    \* Passkeys
    Accounts = {"a"}
    HomeLogins = {1}
    NewLogins = {2}
    Window = 0
    MaxPasskeys = 2
    MaxFills = 1
    MaxCreds = 3
    MaxNow = 1
    MaxFilled = 1
    MaxOpen = 2
    NoOne = NoOne
    \* QuickAccess
    Typed <- MCTyped
    MaxRestarts = 1
CHECK_DEADLOCK FALSE
INVARIANTS
    TypesOK
    DevicesInStep
    GuessesBounded
    PairedAsApproved
    SignupKeepsLimits
    LocalCopyAgrees
    AnswersBelongToPages
    ChangesAreWatched
    PasskeysKept
PROPERTIES
    ImplementsOnce
    LocalCopyKeepsPace
    QuickAccessInForce
