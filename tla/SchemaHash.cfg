CONSTANTS
    Null = Null
    Keys <- SomeKeys
    Values <- Shared
    Hash <- Hashes
    Primes <- ThreePrimes
    Batch = 4
    Rows <- FewRows
    MaxRows = 5
    MaxFlushes = 2
SPECIFICATION Spec
INVARIANTS SchemaHashTypeOK ChainsWhole ShadowIsTrue NoSearchHangs FreedIsGone CalmFlushEmpties
PROPERTIES IsMap
