CONSTANTS
    NProc = 2
    NPth = 4
    NStack = 8
    MaxTid = 7
    MaxSz = 5
    Calls = {"fork","create","join","thread_exit"}
    None = None
SPECIFICATION Spec
CHECK_DEADLOCK FALSE
INVARIANTS NeverRemaps
