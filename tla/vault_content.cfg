SPECIFICATION MCSpec
CONSTANTS
    \* Editing
    ItemTypes = {"login", "note", "identity", "card", "bank"}
    Editors = {"mobile", "desktop"}
    Words = {"a"}
    FieldIds = {"f"}
    MaxHistory = 1
    MaxEdits = 2
    NoEdit = NoEdit
    \* Import
    Files <- MCFiles
    Vaults <- MCVaults
    MaxUrls = 1
    MaxFields = 1
    MaxBatch = 1
    MaxImports = 2
    \* Backup
    BackupIds = {"i", "j", "identity"}
    MaxPerItem = 2
    MaxBatchSize = 1
    MaxRestores = 2
    MaxOthers = 1
    NoRun = NoRun
    \* Requests
    Batches <- MCBatches
    NoOp = NoOp
    \* PullPage
    MaxPullPage = 3
    MaxBytes = 4
    MaxPerBatch = 2
    Sizes = {1, 3}
    MaxRows = 7
    \* PhoneFill
    PhoneCalls = {"c", "d"}
    AsksOf <- MCAsks
    LinkHosts = {"h"}
    LabelHosts = {"h"}
    FreshFor = 0
    RetryAfter = 0
    MaxCachedHosts = 1
    MaxDay = 1
    MaxBound = 1
    \* Health
    LoginIds = {1, 2}
    Contents <- MCContents
    PasskeySites <- MCPasskeySites
    TwoFactorSites <- MCTwoFactorSites
    Dismissals <- MCDismissals
    Callers = {"c"}
    OldAfter = 0
    HealthCache = 0
    MaxHealthTime = 1
    MaxGeneration = 1
    MaxHealthEpoch = 1
    Nothing = Nothing
    \* Activity
    UsedItems = {1, 2}
    IdentityItem = 3
    Queries <- MCQueries
    ForgetAfter = 1
    MaxRecentSearches = 2
    MaxUsage = 2
    MaxUseTime = 2
    \* Reading
    ReadApps = {"phone", "desktop"}
    ReadNames = {"email", "cpf", "street"}
    CustomIds = {"custom.f", "custom.g"}
    ReadFieldKinds = {"text", "url", "password", "otp"}
    MaxItemChanges = 1
    Sealed = Sealed
    \* Values
    MaxNameChars = 3
    MaxDocumentChars = 2
    MaxEmailChars = 3
    MaxPhoneChars = 3
    MaxShortChars = 2
    MaxTitleChars = 2
    MaxCustomChars = 3
    MaxCustomFields = 1
    MaxNotesBytes = 3
    MaxWebsiteLen = 20
    MaxUrlLen = 20
    MaxRules = 2
    MaxEncoded = 3
    MinNumberDigits = 2
    MaxNumberDigits = 6
    MinCodeDigits = 1
    MaxCodeDigits = 2
    MinDigitsForLast4 = 5
    MaxBranchDigits = 2
    MaxAccountDigits = 5
    MaxDigitChars = 2
    MaxBankChars = 2
    MinSecretBytes = 2
    MaxSecretBytes = 3
    MaxPeriod = 30
    MaxUriLen = 90
    MaxLabelLen = 2
    Identities <- MCIdentities
    Cards <- MCCards
    Banks <- MCBanks
    Websites <- MCWebsites
    Setups <- MCSetups
    Updates <- MCUpdates
    Numbers <- MCNumbers
    Dates <- MCDates
    Moments = {0, 29, 30, 59, 60}
    FirstDay = 20000
    LastDay = 20001
INVARIANTS
    TypesOK
    PasswordsAreKept
    ImportIsWhole
    BackupsAreTrue
    RequestsAreTrue
    PagesAreWhole
    DerivedIsTrue
PROPERTIES
    OthersWritesStay
    KeyIsNotShown
    OnlyForItsOwn
CHECK_DEADLOCK FALSE
