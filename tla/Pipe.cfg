CONSTANTS
    NPROC = 3
    Cpu = {c1, c2}
    None = None
    PIPESIZE = 2
    Wrap = 4
    Sizes = {1, 3}
    Victims = {3}
    KillWriters = FALSE
SPECIFICATION Spec
CHECK_DEADLOCK FALSE
INVARIANTS StacksApart NoLostWakeup PipeInv
PROPERTIES ImplementsStream
