CONSTANTS
    NProc = 2
    NFrame = 8
    Proc <- MCProc
    InitProc = 1
    Frame <- MCFrame
    Boot <- MCBoot
    MaxSz = 5
    InitSz = 1
    MinSz = 0
    Guard = {}
    NCpu = 2
    Val = {0}
    Zero = zero
    Junk = junk
    None = None
ACTION_CONSTRAINT OnePageOfMany SmallOrWhole StoresToFirst
VIEW SeenButData
CHECK_DEADLOCK FALSE
SPECIFICATION FairSpec
PROPERTIES OnlyHandlersLose FaultsResolve KernelReturns
