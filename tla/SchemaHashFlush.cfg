CONSTANTS
    Null = Null
    Keys <- SomeKeys
    Values <- Shared
    Hash <- Hashes
    Primes <- ThreePrimes
    Batch = 4
    Rows <- FewRows
    MaxRows = 4
    MaxFlushes = 2
SPECIFICATION Spec
INVARIANT FlushEmpties
