CONSTANTS
    Proc = {p1, p2}
    Block = {b1, b2, b3}
    Val = {0, 1}
    Zero = 0
    None = None
    MaxOp = 2
    LogSize = 4
    NLog = 4
    OpBlocks = 1
SPECIFICATION FairSpec
INVARIANTS LogInv
PROPERTIES ImplementsAtomicDisk SleepersWake CommitEnds
