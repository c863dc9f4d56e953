CONSTANTS
    Kinds <- Mixed
    Password = TRUE
    RetryCount = 2
    Faults <- AllButLateGreetings
    SyncMod = 1000
    MaxCalls = 3
    MaxSock = 2
SPECIFICATION FairSpec
INVARIANTS TypeOK Quiescent NamesAreFound NoSyncMismatch
PROPERTIES ImplementsRemoteCall RunsAuthenticated CallsAreBounded CallReturns
