CONSTANTS
    Kinds <- OnlyCall
    Password = FALSE
    RetryCount = 1
    Faults <- CutWrite
    SyncMod = 1000
    MaxCalls = 2
    MaxSock = 2
SPECIFICATION FairSpec
INVARIANTS NoSyncMismatch
