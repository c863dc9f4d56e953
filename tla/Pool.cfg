CONSTANTS
    Objects <- TwoObjects
    Pieces <- ThreePieces
    Bracket = "["
    Logins <- TwoLogins
    Suffixes <- OneSuffix
    NoSuffix = NoSuffix
    NoPid = NoPid
    Guest = Guest
    RetryCount = 2
    MaxConns = 2
    MaxStreams = 2
SPECIFICATION Spec
CHECK_DEADLOCK FALSE
INVARIANTS PoolTypeOK FreedByTwin LoginsKeptApart 
