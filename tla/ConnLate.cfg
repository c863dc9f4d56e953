CONSTANTS
    Kinds <- Requests
    Password = FALSE
    RetryCount = 1
    Faults <- LateGreeting
    SyncMod = 1000
    MaxCalls = 2
    MaxSock = 1
SPECIFICATION FairSpec
INVARIANTS NoSilentFailure
