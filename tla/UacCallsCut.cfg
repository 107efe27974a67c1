CONSTANTS
    TotalCalls = 2
    MaxCalls = 2
    Rate = 1
    Bound = 2
SPECIFICATION Spec
INVARIANTS
    AllCallsMade
