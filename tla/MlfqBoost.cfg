CONSTANTS
    NProc = 2
    BoostTicks = 9
    Step = 1
    Prio = {1}
    Monopoly = FALSE
    Misuse = {}
    MoqWaits = FALSE
    MaxPid = 3
    MaxBoost = 2
    MaxSeq = 4
    MaxMoq = 0
    Event = Event
    None = None
SPECIFICATION WaitSpec
CHECK_DEADLOCK FALSE
INVARIANTS NoStarvation MlfqInv
