CONSTANTS
    Proc = {p1, p2}
    Block = {1, 2, 3, 4}
    Buf = {i1, i2, i3}
    Changing = {1}
    None = None
    Nested <- NestedPairs
    MaxHold = 2
    MaxPinned = 1
SPECIFICATION FairSpec
INVARIANTS BcacheInv NeverPanics
PROPERTIES ImplementsBlockStore DiskAnswers SleepersWake
