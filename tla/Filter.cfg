CONSTANTS
    N = 3
    NumIters = 1
    Delay = 1
SPECIFICATION FairSpec
CHECK_DEADLOCK FALSE
INVARIANTS MutualExclusion LevelsFilter EveryIncrementCounts
PROPERTIES EveryThreadEnds
