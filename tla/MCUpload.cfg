CONSTANTS
    Req = {1, 2, 3}
    Scenarios <- MCScenarios
    Size = 14
    Base = 2
    Block = 4
    MaxAddr = 66
    MaxPlain = 17
    MaxTail = 2
    MaxBoundary = 5
SPECIFICATION Spec
INVARIANTS UploadIsWhole ReadsBack
CHECK_DEADLOCK FALSE
