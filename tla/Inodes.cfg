CONSTANTS
    Proc = {p1, p2}
    InitProc = p1
    Inum = {1, 2, 3}
    Root = 1
    File = {f1}
    Calls <- Programs
    None = None
SPECIFICATION Spec
VIEW Seen
CHECK_DEADLOCK FALSE
INVARIANTS InodesInv TreeSound LockedInOrder
PROPERTIES FreedOnlyWhenForgotten
