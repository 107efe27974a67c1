CONSTANTS
    TotalCalls = 4
    MaxCalls = 2
    Rate = 1
    Bound = 5
SPECIFICATION FairSpec
INVARIANTS
    SlotsConserved
    MaxActive
    NoExtraCall
    FewCallsCut
PROPERTIES
    StopsMaking
    Exits
