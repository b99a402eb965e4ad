CONSTANTS
    NProc = 3
    BoostTicks = 2
    Step = 1
    Prio = {}
    Monopoly = TRUE
    Misuse = {"again"}
    MoqWaits = FALSE
    MaxPid = 4
    MaxBoost = 0
    MaxSeq = 0
    MaxMoq = 3
    Event = Event
    None = None
SPECIFICATION FairSpec
CHECK_DEADLOCK FALSE
INVARIANTS MoqSizeExact MoqInOrder
PROPERTIES MonopolyEnds SomebodyRuns
