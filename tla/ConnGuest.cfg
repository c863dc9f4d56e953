CONSTANTS
    Kinds <- AllKinds
    Password = FALSE
    RetryCount = 1
    Faults <- BreaksLate
    SyncMod = 4
    MaxCalls = 3
    MaxSock = 3
SPECIFICATION Spec
INVARIANTS CallInv ReplyIsOwn AnswerMeansOneRun NoLeakedStream
