---------------------------- MODULE PrivateMemory ----------------------------
(***************************************************************************)
(* What fork, sbrk, exit and a store promise a program: every process has a *)
(* memory of its own.  There are no pages, counts or faults: a fork copies  *)
(* the memory at once, and a store changes one page of one process.         *)
(***************************************************************************)
CONSTANTS Proc, VPage, Val, Zero, None

VARIABLE mem   \* mem[p][v]: contents of page v of process p, or None

NoMem == [v \in VPage |-> None]

Write(p, v, x) ==
    /\ mem[p][v] # None
    /\ mem' = [mem EXCEPT ![p][v] = <<p, x>>]

Duplicate(p, c) ==
    /\ mem[c] = NoMem
    /\ mem' = [mem EXCEPT ![c] = mem[p]]

AddPage(p, v) ==
    /\ mem[p][v] = None
    /\ mem' = [mem EXCEPT ![p][v] = Zero]

DropPage(p, v) == mem' = [mem EXCEPT ![p][v] = None]

Drop(p) == mem' = [mem EXCEPT ![p] = NoMem]

Next ==
    \E p \in Proc :
        \/ \E v \in VPage : \/ \E x \in Val : Write(p, v, x)
                            \/ AddPage(p, v)
                            \/ DropPage(p, v)
        \/ \E c \in Proc : Duplicate(p, c)
        \/ Drop(p)
=============================================================================
