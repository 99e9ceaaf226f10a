SPECIFICATION MCSpec
CONSTANTS
    Devices = {"d1", "d2"}
    Tasks = {"a1", "a2", "b1"}
    DeviceOf <- AcrossDevices
    MaxCreds = 2
    Locking = {"d1"}
    Nobody = Nobody
INVARIANTS
    TypeOK
    HeadersAreTheServers
    LockWins
    CredentialsAgree
    NeverLockedOut
PROPERTY
    NoRollback
