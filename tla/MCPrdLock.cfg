SPECIFICATION LockFairSpec
CONSTANTS
    Thread = {prd, a, b}
    PrdThread = prd
    NoThread = none
    MaxDepth = 2
INVARIANTS
    NeverHangs
PROPERTIES
    LockReturns
    ImplementsRecursiveLock
