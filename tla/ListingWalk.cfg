SPECIFICATION FairSpec
CONSTANTS
    Rows <- FourRows
    Times <- TwoTimes
    RawLimits <- SmallLimits
    DefaultLimit = 2
    MaxLimit = 3
    NoCursor = NoCursor
INVARIANTS NoDuplicates WalkIsComplete
PROPERTY WalkEnds
