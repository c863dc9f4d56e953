CONSTANTS
    NameA = NameA
    NameB = NameB
    Bytes1 = Bytes1
    Bytes2 = Bytes2
    Null = Null
    SpaceIds <- TwoIds
    IndexIds <- OneId
    Names <- TwoNames
    NumKey <- Clash
    Limit = 2
    MaxCalls = 2
    MaxDDL = 0
SPECIFICATION Spec
INVARIANTS NameMeansSpace
