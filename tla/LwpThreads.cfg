CONSTANTS
    NProc = 3
    NPth = 2
    NStack = 4
    MaxTid = 4
    MaxSz = 3
    Calls = {"fork","create","join","thread_exit","file","sbrk","any_join","last_exit"}
    None = None
SPECIFICATION Spec
CHECK_DEADLOCK FALSE
INVARIANTS LwpInv UStacksOwn
