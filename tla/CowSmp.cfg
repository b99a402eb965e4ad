CONSTANTS
    NProc = 2
    NFrame = 8
    Proc <- MCProc
    InitProc = 1
    Frame <- MCFrame
    Boot <- MCBoot
    MaxSz = 2
    InitSz = 1
    MinSz = 1
    Guard = {}
    NCpu = 2
    Val = {v0, v1}
    Zero = zero
    Junk = junk
    None = None
SPECIFICATION Spec
ACTION_CONSTRAINT OnePageOfMany
VIEW Seen
SYMMETRY Values
CHECK_DEADLOCK FALSE
INVARIANTS CowSound TlbIsFresh WritableIsPrivate
PROPERTIES MemoryIsPrivate
