CONSTANTS
    NameA = NameA
    NameB = NameB
    Bytes1 = Bytes1
    Bytes2 = Bytes2
    Null = Null
    SpaceIds <- TwoIds
    IndexIds <- OneId
    Names <- TwoNames
    NumKey <- Plain
    Limit = 1
    MaxCalls = 3
    MaxDDL = 2
SPECIFICATION Spec
SYMMETRY Exchange
INVARIANTS SchemaTypeOK NoDanglingKeys CacheWasTrue NameMeansSpace LookupParses BatchIsComplete
