----------------------------- MODULE AtomicDisk -----------------------------
(***************************************************************************)
(* What the log promises (src/xv6-public/log.c:9-27): file system           *)
(* operations write blocks; what they wrote becomes stable all at once, at  *)
(* a moment when no operation is under way; a crash takes everything back   *)
(* to the last such moment.                                                 *)
(***************************************************************************)
CONSTANTS
    Proc,   \* the processes
    Block,  \* the blocks of the file system
    Val,    \* what a block may contain
    Zero    \* what it contains at first

VARIABLES
    mem,     \* the blocks as operations see them
    stable,  \* the blocks as they are after a crash
    active   \* the processes with an operation under way

vars == <<mem, stable, active>>

Init ==
    /\ mem = [b \in Block |-> Zero]
    /\ stable = [b \in Block |-> Zero]
    /\ active = {}

Begin(p) ==
    /\ p \notin active
    /\ active' = active \cup {p}
    /\ UNCHANGED <<mem, stable>>

Write(p, b, v) ==
    /\ p \in active
    /\ mem' = [mem EXCEPT ![b] = v]
    /\ UNCHANGED <<stable, active>>

End(p) ==
    /\ p \in active
    /\ active' = active \ {p}
    /\ UNCHANGED <<mem, stable>>

Commit ==
    /\ active = {}
    /\ stable' = mem
    /\ UNCHANGED <<mem, active>>

Crash ==
    /\ mem' = stable
    /\ active' = {}
    /\ UNCHANGED stable

Next ==
    \/ \E p \in Proc : Begin(p) \/ End(p) \/ \E b \in Block, v \in Val : Write(p, b, v)
    \/ Commit
    \/ Crash

Spec == Init /\ [][Next]_vars
=============================================================================
