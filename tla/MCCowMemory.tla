----------------------------- MODULE MCCowMemory -----------------------------
(* Instances of CowMemory for TLC.  Processes and pages are numbered from 1. *)
EXTENDS CowMemory, TLC

CONSTANTS NProc, NFrame

MCProc  == 1 .. NProc
MCFrame == 1 .. NFrame

\* Every slot has a page that is its own as long as that page is free; the
\* last process takes them from the other end.
Home(p, s) ==
    LET k == (s + 3) % (MaxSz + 3)
    IN  IF p = NProc THEN NFrame - k ELSE (p - 1) * (MaxSz + 3) + k + 1
MCBoot == [s \in BootSlot |-> Home(InitProc, s)]

(***************************************************************************)
(* Two free pages differ in nothing, so it does not matter which of them    *)
(* kalloc pops: the runs explore one choice, the page of the slot that is   *)
(* filled if it is free, and the lowest free page otherwise.                *)
(***************************************************************************)
OnePageOfMany ==
    \A f \in freelist \ freelist' :
        \E p \in Proc, s \in Slot :
            /\ frame'[p][s] = f
            /\ IF Home(p, s) \in freelist
                 THEN f = Home(p, s)
                 ELSE \A g \in freelist : f =< g

\* Programs are of one or two pages, or ask for all there are.
SmallOrWhole == \A p \in Proc : lim'[p] \in {0, 1, 2, MaxSz}

\* Programs store to their first page only.
StoresToFirst == \A p \in Proc, v \in VPage \ {0} : tlb'[p][v] = None /\ cr2'[p] # v

(***************************************************************************)
(* States that need not be told apart: a stopped kernel is only its         *)
(* message, and the size of a slot that fork has not filled is never read.  *)
(* No action looks at what a page contains, so a run whose properties do    *)
(* not either need not tell contents apart.                                 *)
(***************************************************************************)
LiveSize == [p \in Proc |-> IF pc[p] \in {"unused", "embryo"} THEN 0 ELSE sz[p]]
SeenButData ==
    IF panic # None THEN <<panic>>
    ELSE <<pc, parent, LiveSize, frame, perm, tlb, freelist, refc, lock,
           victim, child, i, lim, cr2, seen>>
Seen ==
    IF panic # None THEN <<panic>> ELSE <<SeenButData, data, scribbled>>

\* Programs do not care which value they store.
Values == Permutations(Val)
=============================================================================
