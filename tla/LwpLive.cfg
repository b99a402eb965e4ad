CONSTANTS
    NProc = 2
    NPth = 3
    NStack = 6
    MaxTid = 4
    MaxSz = 4
    Calls = {"fork","create","join","thread_exit","exec","kill","sleep"}
    None = None
SPECIFICATION FairSpec
CHECK_DEADLOCK FALSE
INVARIANTS KStacksSound
PROPERTIES ChildIsNoticed KilledExits JoinReturns
