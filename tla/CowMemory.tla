------------------------------ MODULE CowMemory ------------------------------
(***************************************************************************)
(* Copy-on-write memory of xv6-public_project04: the reference-counted      *)
(* page allocator (kalloc.c), the copying of an address space by fork       *)
(* (copyuvm), the page-fault handler that makes a shared page private       *)
(* (CoW_handler), growing and shrinking a process (growproc), and the       *)
(* release of an address space by a failing fork or by wait (freevm).       *)
(*                                                                          *)
(* A step is one access to state that several CPUs share (the reference     *)
(* counts, the free list, the process table).  A process's own page table   *)
(* is read and written only by the kernel code that runs for it, so its     *)
(* updates ride on the shared access next to them.                          *)
(***************************************************************************)
EXTENDS Integers, FiniteSets

CONSTANTS
    Proc,      \* the slots of ptable.proc
    InitProc,  \* the slot of the first user process, which never exits
    Frame,     \* the physical pages the allocator hands out
    MaxSz,     \* bound on a process's size, in pages
    InitSz,    \* size of the first process
    MinSz,     \* smallest size a process asks sbrk to shrink it to
    Boot,      \* the pages the first process holds, by slot
    Guard,     \* the virtual pages exec made inaccessible with clearpteu
    NCpu,      \* number of CPUs
    Val,       \* what a program may store
    Zero,      \* contents of a fresh page
    Junk,      \* contents of a page kfree filled with 1s or a scribble hit
    None       \* no page, no process

VPage == 0 .. MaxSz - 1

(***************************************************************************)
(* What refers to a physical page: a user mapping of a process (its virtual *)
(* page number), its kernel stack, its page-table page, its page directory  *)
(* (which stands for the kernel's page-table pages too), or the reference   *)
(* that its page-fault handler has replaced and still has to give up.       *)
(***************************************************************************)
KStack == -1
PgTab  == MaxSz
PgDir  == MaxSz + 1
Owed   == MaxSz + 2
Slot   == -1 .. MaxSz + 2
\* What a page may hold: a store by some process, zeroes or junk.
Contents == (Proc \X Val) \cup {Zero, Junk}

BootSlot == {KStack, PgTab, PgDir} \cup 0 .. InitSz - 1

ASSUME ConstantsOK ==
    /\ IsFiniteSet(Proc) /\ InitProc \in Proc /\ None \notin Proc
    /\ IsFiniteSet(Frame) /\ None \notin Frame
    /\ MaxSz \in Nat /\ InitSz \in 1 .. MaxSz /\ MinSz \in 0 .. MaxSz
    /\ Guard \subseteq VPage
    /\ Boot \in [BootSlot -> Frame]
    /\ \A s, t \in BootSlot : Boot[s] = Boot[t] => s = t
    /\ NCpu \in Nat \ {0}
    /\ Zero # Junk /\ {Zero, Junk} \cap (Proc \X Val) = {}
    /\ None \notin Contents

VARIABLES
    pc,        \* where each process is, in user code or in the kernel
    parent,    \* proc->parent
    sz,        \* proc->sz, in pages
    frame,     \* frame[p][s]: the page that slot s of process p refers to
    perm,      \* perm[p][v]: the PTE_W and PTE_U flags of page v
    tlb,       \* tlb[p][v]: the page a cached writable translation leads to
    freelist,  \* kmem.freelist
    refc,      \* pgRef.pgRef
    data,      \* contents of each page: the last store, Zero or Junk
    lock,      \* the process that holds kmem.lock inside kfree
    victim,    \* the page that kfree has decremented and not yet tested
    child,     \* the process a fork builds or a wait releases
    i,         \* the next page of a copying or growing loop
    lim,       \* the size growproc was asked for
    cr2,       \* the page of a store that faulted and has not been retried
    seen,      \* the reference count the fault handler read
    panic,     \* the message the kernel stopped with, or None
    scribbled  \* an empty kalloc has incremented a word outside pgRef

vars == <<pc, parent, sz, frame, perm, tlb, freelist, refc, data, lock, victim,
          child, i, lim, cr2, seen, panic, scribbled>>

PC == {"unused", "embryo", "user", "zombie",
       "allocproc", "setupkvm", "copy", "freevm", "reap",
       "grow", "undo", "shrink", "cow", "owed"}

Panics == {"not freelist", "cow kalloc", "not present", "copyuvm", "decr"}

NoTlb == [v \in VPage |-> None]
NoPerm == [w |-> FALSE, u |-> FALSE]
Writable == [w |-> TRUE, u |-> TRUE]

(***************************************************************************)
(* The first process has exec'ed: its pages are mapped writable, the guard  *)
(* pages without PTE_U, and every page that it does not hold is free.       *)
(***************************************************************************)
Init ==
    /\ pc = [p \in Proc |-> IF p = InitProc THEN "user" ELSE "unused"]
    /\ parent = [p \in Proc |-> None]
    /\ sz = [p \in Proc |-> IF p = InitProc THEN InitSz ELSE 0]
    /\ frame = [p \in Proc |-> [s \in Slot |->
          IF p = InitProc /\ s \in BootSlot THEN Boot[s] ELSE None]]
    /\ perm = [p \in Proc |-> [v \in VPage |->
          IF p = InitProc /\ v < InitSz
            THEN [w |-> TRUE, u |-> v \notin Guard] ELSE NoPerm]]
    /\ freelist = {f \in Frame : \A s \in BootSlot : Boot[s] # f}
    /\ refc = [f \in Frame |-> IF f \in freelist THEN 0 ELSE 1]
    /\ data = [f \in Frame |-> IF f \in freelist THEN Junk ELSE Zero]
    /\ tlb = [p \in Proc |-> NoTlb]
    /\ lock = None /\ victim = None
    /\ child = [p \in Proc |-> None]
    /\ i = [p \in Proc |-> 0] /\ lim = [p \in Proc |-> 0]
    /\ cr2 = [p \in Proc |-> None] /\ seen = [p \in Proc |-> 0]
    /\ panic = None /\ scribbled = FALSE

-----------------------------------------------------------------------------
(***************************************************************************)
(* Scheduling.  A timer interrupt takes the CPU from a process anywhere but *)
(* inside the page-fault handler, which its interrupt gate enters with      *)
(* interrupts off, and while it holds a spin lock: kmem.lock, or            *)
(* ptable.lock, which wait keeps while it releases a child.  So at most     *)
(* NCpu processes are inside such a section, and when that many are, no     *)
(* other process takes a step.                                              *)
(***************************************************************************)
HoldsPtable == {q \in Proc : pc[q] = "reap"}
Uninterruptible ==
    {q \in Proc : pc[q] \in {"cow", "owed", "reap"} \/ lock = q}

CanStep(p) ==
    /\ panic = None
    /\ \/ p \in Uninterruptible
       \/ Cardinality(Uninterruptible) < NCpu

\* Another process runs on this CPU for a while: switchuvm reloads cr3 and
\* so empties the TLB.  (The hardware may also drop entries by itself.)
Evict(p) ==
    /\ CanStep(p) /\ p \notin Uninterruptible
    /\ tlb[p] # NoTlb
    /\ tlb' = [tlb EXCEPT ![p] = NoTlb]
    /\ UNCHANGED <<pc, parent, sz, frame, perm, freelist, refc, data, lock,
                   victim, child, i, lim, cr2, seen, panic, scribbled>>

-----------------------------------------------------------------------------
(***************************************************************************)
(* kalloc.  With the lock held it pops a page and counts its first          *)
(* reference, and stops the kernel if the page was still referenced.  With  *)
(* an empty list r is 0, and the code still reads and may increment         *)
(* pgRef[P2PG(V2P(0))], a word far outside the array and inside some        *)
(* allocatable page: when that word is not 0 kalloc stops the kernel, when  *)
(* it is 0 kalloc increments it and returns 0.                              *)
(***************************************************************************)
Kalloc(f) ==
    /\ lock = None
    /\ f \in freelist
    /\ freelist' = freelist \ {f}
    /\ refc' = [refc EXCEPT ![f] = @ + 1]
    /\ panic' = IF refc[f] = 0 THEN None ELSE "not freelist"

KallocReturnsZero ==
    /\ lock = None
    /\ freelist = {}
    /\ scribbled' = TRUE
    /\ \E g \in Frame : data' = [data EXCEPT ![g] = Junk]

\* The places kalloc is called from.
Allocating(p) ==
    \/ pc[p] \in {"allocproc", "setupkvm"}
    \/ /\ pc[p] = "copy" /\ frame[child[p]][PgTab] = None
       /\ i[p] < sz[p] /\ frame[p][i[p]] # None
    \/ pc[p] = "grow" /\ i[p] < lim[p]
    \/ pc[p] = "cow" /\ seen[p] > 1

KallocPanics(p) ==
    /\ CanStep(p)
    /\ Allocating(p)
    /\ lock = None /\ freelist = {}
    /\ panic' = "not freelist"
    /\ UNCHANGED <<pc, parent, sz, frame, perm, tlb, freelist, refc, data,
                   lock, victim, child, i, lim, cr2, seen, scribbled>>

-----------------------------------------------------------------------------
(***************************************************************************)
(* fork.  allocproc claims a slot and allocates the kernel stack; setupkvm  *)
(* allocates the page directory; copyuvm then walks the parent's pages.     *)
(***************************************************************************)
Fork(p, c) ==
    /\ CanStep(p) /\ HoldsPtable = {}
    /\ pc[p] = "user" /\ cr2[p] = None
    /\ pc[c] = "unused"
    /\ pc' = [pc EXCEPT ![p] = "allocproc", ![c] = "embryo"]
    /\ child' = [child EXCEPT ![p] = c]
    /\ UNCHANGED <<parent, sz, frame, perm, tlb, freelist, refc, data, lock,
                   victim, i, lim, cr2, seen, panic, scribbled>>

\* A page for slot s of the child; then the parent goes on at "next".
AllocForChild(p, s, next) ==
    \E f \in Frame :
        /\ Kalloc(f)
        /\ frame' = [frame EXCEPT ![child[p]][s] = f]
        /\ pc' = [pc EXCEPT ![p] = next]
        /\ UNCHANGED <<parent, sz, tlb, data, lock, victim, child, i, lim,
                       cr2, seen, scribbled>>

AllocStack(p) ==
    /\ CanStep(p) /\ pc[p] = "allocproc"
    /\ AllocForChild(p, KStack, "setupkvm")
    /\ UNCHANGED perm

\* kalloc returned 0: the slot is UNUSED again and fork returns -1.
NoStack(p) ==
    /\ CanStep(p) /\ pc[p] = "allocproc"
    /\ KallocReturnsZero
    /\ pc' = [pc EXCEPT ![p] = "user", ![child[p]] = "unused"]
    /\ child' = [child EXCEPT ![p] = None]
    /\ UNCHANGED <<parent, sz, frame, perm, tlb, freelist, refc, lock, victim,
                   i, lim, cr2, seen, panic>>

SetupKvm(p) ==
    /\ CanStep(p) /\ pc[p] = "setupkvm"
    /\ AllocForChild(p, PgDir, "copy")
    /\ UNCHANGED perm

\* mappages(d, 0) needs a page-table page before the first page is mapped;
\* by then copyuvm has taken PTE_W from the parent's first page.
CopyPgTab(p) ==
    /\ CanStep(p) /\ pc[p] = "copy"
    /\ i[p] < sz[p] /\ frame[p][i[p]] # None
    /\ frame[child[p]][PgTab] = None
    /\ perm' = [perm EXCEPT ![p][i[p]].w = FALSE]
    /\ AllocForChild(p, PgTab, "copy")

\* setupkvm or mappages failed: freevm(d), then fork frees the stack.
CopyFails(p) ==
    /\ CanStep(p)
    /\ \/ pc[p] = "setupkvm" /\ UNCHANGED perm
       \/ /\ pc[p] = "copy" /\ frame[child[p]][PgTab] = None
          /\ i[p] < sz[p] /\ frame[p][i[p]] # None
          /\ perm' = [perm EXCEPT ![p][i[p]].w = FALSE]
    /\ KallocReturnsZero
    /\ pc' = [pc EXCEPT ![p] = "freevm"]
    /\ UNCHANGED <<parent, sz, frame, tlb, freelist, refc, lock, victim,
                   child, i, lim, cr2, seen, panic>>

\* The next page becomes read-only in the parent and is mapped with the same
\* flags in the child, and incr_refc counts the child's reference to it.
CopyPage(p) ==
    LET c == child[p]
        v == i[p]
        f == frame[p][v]
    IN  /\ CanStep(p) /\ pc[p] = "copy"
        /\ v < sz[p] /\ f # None
        /\ frame[c][PgTab] # None
        /\ frame' = [frame EXCEPT ![c][v] = f]
        /\ perm' = [perm EXCEPT ![p][v].w = FALSE,
                                ![c][v] = [perm[p][v] EXCEPT !.w = FALSE]]
        /\ refc' = [refc EXCEPT ![f] = @ + 1]
        /\ i' = [i EXCEPT ![p] = v + 1]
        /\ UNCHANGED <<pc, parent, sz, tlb, freelist, data, lock, victim,
                       child, lim, cr2, seen, panic, scribbled>>

CopyPanics(p) ==
    /\ CanStep(p) /\ pc[p] = "copy"
    /\ i[p] < sz[p] /\ frame[p][i[p]] = None
    /\ panic' = "copyuvm"
    /\ UNCHANGED <<pc, parent, sz, frame, perm, tlb, freelist, refc, data,
                   lock, victim, child, i, lim, cr2, seen, scribbled>>

\* Mutated form: copyuvm returns without reloading cr3.
ForkReturnsStale(p) ==
    /\ CanStep(p) /\ HoldsPtable = {}
    /\ pc[p] = "copy" /\ i[p] = sz[p]
    /\ sz' = [sz EXCEPT ![child[p]] = sz[p]]
    /\ parent' = [parent EXCEPT ![child[p]] = p]
    /\ pc' = [pc EXCEPT ![p] = "user", ![child[p]] = "user"]
    /\ child' = [child EXCEPT ![p] = None]
    /\ i' = [i EXCEPT ![p] = 0]
    /\ UNCHANGED <<frame, perm, tlb, freelist, refc, data, lock, victim, lim,
                   cr2, seen, panic, scribbled>>

\* copyuvm ends by reloading cr3; fork then makes the child RUNNABLE.
ForkReturns(p) ==
    /\ CanStep(p) /\ HoldsPtable = {}
    /\ pc[p] = "copy" /\ i[p] = sz[p]
    /\ tlb' = [tlb EXCEPT ![p] = NoTlb]
    /\ sz' = [sz EXCEPT ![child[p]] = sz[p]]
    /\ parent' = [parent EXCEPT ![child[p]] = p]
    /\ pc' = [pc EXCEPT ![p] = "user", ![child[p]] = "user"]
    /\ child' = [child EXCEPT ![p] = None]
    /\ i' = [i EXCEPT ![p] = 0]
    /\ UNCHANGED <<frame, perm, freelist, refc, data, lock, victim, lim, cr2,
                   seen, panic, scribbled>>

-----------------------------------------------------------------------------
(***************************************************************************)
(* growproc(n).  allocuvm maps one zeroed page after the other; when kalloc *)
(* returns 0 deallocuvm takes the new pages back and the size stays.        *)
(* deallocuvm releases the pages above the new size.                        *)
(***************************************************************************)
Grow(p, n) ==
    /\ CanStep(p) /\ pc[p] = "user" /\ cr2[p] = None
    /\ n > sz[p]
    /\ pc' = [pc EXCEPT ![p] = "grow"]
    /\ i' = [i EXCEPT ![p] = sz[p]]
    /\ lim' = [lim EXCEPT ![p] = n]
    /\ UNCHANGED <<parent, sz, frame, perm, tlb, freelist, refc, data, lock,
                   victim, child, cr2, seen, panic, scribbled>>

GrowPage(p) ==
    /\ CanStep(p) /\ pc[p] = "grow" /\ i[p] < lim[p]
    /\ \E f \in Frame :
          /\ Kalloc(f)
          /\ data' = [data EXCEPT ![f] = Zero]
          /\ frame' = [frame EXCEPT ![p][i[p]] = f]
    /\ perm' = [perm EXCEPT ![p][i[p]] = Writable]
    /\ i' = [i EXCEPT ![p] = @ + 1]
    /\ UNCHANGED <<pc, parent, sz, tlb, lock, victim, child, lim, cr2, seen,
                   scribbled>>

GrowFails(p) ==
    /\ CanStep(p) /\ pc[p] = "grow" /\ i[p] < lim[p]
    /\ KallocReturnsZero
    /\ pc' = [pc EXCEPT ![p] = "undo"]
    /\ UNCHANGED <<parent, sz, frame, perm, tlb, freelist, refc, lock, victim,
                   child, i, lim, cr2, seen, panic>>

\* A system call of growproc is over: the size is now n, and switchuvm
\* reloads cr3 if the call succeeded.
GrowprocReturns(p, n, flush) ==
    /\ pc' = [pc EXCEPT ![p] = "user"]
    /\ sz' = [sz EXCEPT ![p] = n]
    /\ tlb' = IF flush THEN [tlb EXCEPT ![p] = NoTlb] ELSE tlb
    /\ i' = [i EXCEPT ![p] = 0] /\ lim' = [lim EXCEPT ![p] = 0]
    /\ UNCHANGED <<parent, frame, perm, freelist, refc, data, lock, victim,
                   child, cr2, seen, panic, scribbled>>

GrowDone(p) ==
    /\ CanStep(p) /\ pc[p] = "grow" /\ i[p] = lim[p]
    /\ GrowprocReturns(p, lim[p], TRUE)

Shrink(p, n) ==
    /\ CanStep(p) /\ pc[p] = "user" /\ cr2[p] = None
    /\ n < sz[p]
    /\ pc' = [pc EXCEPT ![p] = "shrink"]
    /\ lim' = [lim EXCEPT ![p] = n]
    /\ UNCHANGED <<parent, sz, frame, perm, tlb, freelist, refc, data, lock,
                   victim, child, i, cr2, seen, panic, scribbled>>

-----------------------------------------------------------------------------
(***************************************************************************)
(* Releasing pages: deallocuvm, freevm and kfree(kstack).                   *)
(***************************************************************************)
\* The address space whose pages p is releasing, and the slots still to go.
Owner(p) == IF pc[p] \in {"freevm", "reap"} THEN child[p] ELSE p
Held(q, S) == {s \in S : frame[q][s] # None}

Doomed(p) ==
    CASE pc[p] = "shrink" -> Held(p, lim[p] .. MaxSz - 1)
      [] pc[p] = "undo"   -> Held(p, sz[p] .. MaxSz - 1)
      [] pc[p] = "reap"   -> Held(child[p], Slot)
      [] pc[p] = "freevm" -> IF Held(child[p], Slot \ {KStack}) = {}
                               THEN Held(child[p], {KStack})
                               ELSE Held(child[p], Slot \ {KStack})
      [] OTHER -> {}

\* kfree takes kmem.lock and gives up one reference; the slot forgets the
\* page (deallocuvm clears the PTE when kfree returns).
KfreeDecr(p) ==
    /\ CanStep(p) /\ lock = None
    /\ \E s \in Doomed(p) :
          LET q == Owner(p)
              f == frame[q][s]
          IN  /\ \A t \in Doomed(p) : s =< t
              /\ refc' = [refc EXCEPT ![f] = IF @ > 0 THEN @ - 1 ELSE @]
              /\ victim' = f
              /\ frame' = [frame EXCEPT ![q][s] = None]
              /\ perm' = IF s \in VPage
                           THEN [perm EXCEPT ![q][s] = NoPerm] ELSE perm
    /\ lock' = p
    /\ UNCHANGED <<pc, parent, sz, tlb, freelist, data, child, i, lim, cr2,
                   seen, panic, scribbled>>

\* Mutated forms: the test made on the count before the decrement; kmem.lock
\* kept.
KfreePushEarlyTest(p) ==
    /\ CanStep(p) /\ lock = p
    /\ IF refc[victim] + 1 = 0
          THEN freelist' = freelist \cup {victim}
          ELSE UNCHANGED freelist
    /\ lock' = None /\ victim' = None
    /\ UNCHANGED <<pc, parent, sz, frame, perm, tlb, refc, data, child, i, lim,
                   cr2, seen, panic, scribbled>>

KfreePushKeepsLock(p) ==
    /\ CanStep(p) /\ lock = p /\ victim # None
    /\ freelist' = IF refc[victim] = 0 THEN freelist \cup {victim} ELSE freelist
    /\ victim' = None
    /\ UNCHANGED <<pc, parent, sz, frame, perm, tlb, refc, data, lock, child, i,
                   lim, cr2, seen, panic, scribbled>>

\* Still under the lock, kfree puts the page on the free list if nobody
\* refers to it any more.
KfreePush(p) ==
    /\ CanStep(p) /\ lock = p
    /\ IF refc[victim] = 0
          THEN /\ freelist' = freelist \cup {victim}
               /\ data' = [data EXCEPT ![victim] = Junk]
          ELSE UNCHANGED <<freelist, data>>
    /\ lock' = None /\ victim' = None
    /\ UNCHANGED <<pc, parent, sz, frame, perm, tlb, refc, child, i, lim, cr2,
                   seen, panic, scribbled>>

Released(p) == CanStep(p) /\ lock # p /\ Doomed(p) = {}

\* A failed allocation and a shrinking to 0 both return -1.  The size stays,
\* also in the second case, where the pages are gone.
GrowUndone(p) ==
    /\ Released(p) /\ pc[p] = "undo"
    /\ GrowprocReturns(p, sz[p], FALSE)

ShrinkDone(p) ==
    /\ Released(p) /\ pc[p] = "shrink"
    /\ IF lim[p] = 0 THEN GrowprocReturns(p, sz[p], FALSE)
                     ELSE GrowprocReturns(p, lim[p], TRUE)

\* fork returns -1, or wait returns the child's pid.
SlotReleased(p) ==
    /\ Released(p) /\ pc[p] \in {"freevm", "reap"}
    /\ pc' = [pc EXCEPT ![p] = "user", ![child[p]] = "unused"]
    /\ parent' = [parent EXCEPT ![child[p]] = None]
    /\ child' = [child EXCEPT ![p] = None]
    /\ i' = [i EXCEPT ![p] = 0]
    /\ UNCHANGED <<sz, frame, perm, tlb, freelist, refc, data, lock, victim,
                   lim, cr2, seen, panic, scribbled>>

-----------------------------------------------------------------------------
(***************************************************************************)
(* exit and wait.                                                           *)
(***************************************************************************)
Exit(p) ==
    /\ CanStep(p) /\ HoldsPtable = {}
    /\ pc[p] = "user" /\ cr2[p] = None
    /\ p # InitProc
    /\ parent' = [q \in Proc |-> IF parent[q] = p THEN InitProc ELSE parent[q]]
    /\ pc' = [pc EXCEPT ![p] = "zombie"]
    /\ tlb' = [tlb EXCEPT ![p] = NoTlb]
    /\ UNCHANGED <<sz, frame, perm, freelist, refc, data, lock, victim, child,
                   i, lim, cr2, seen, panic, scribbled>>

\* wait finds a zombie child (until then it sleeps) and, with ptable.lock
\* held to the end, releases its pages.
Wait(p, c) ==
    /\ CanStep(p) /\ HoldsPtable = {}
    /\ pc[p] = "user" /\ cr2[p] = None
    /\ parent[c] = p /\ pc[c] = "zombie"
    /\ pc' = [pc EXCEPT ![p] = "reap"]
    /\ child' = [child EXCEPT ![p] = c]
    /\ UNCHANGED <<parent, sz, frame, perm, tlb, freelist, refc, data, lock,
                   victim, i, lim, cr2, seen, panic, scribbled>>

-----------------------------------------------------------------------------
(***************************************************************************)
(* Stores and page faults.  A store goes through a cached writable          *)
(* translation if there is one, whatever the page table says by now.        *)
(* Otherwise the page table must have PTE_P, PTE_W and PTE_U, and the       *)
(* translation is cached; if not, the store traps and, when the handler     *)
(* returns, is tried again.  What a process stores bears its name, so that  *)
(* a store that lands in the memory of another can be told from its own.    *)
(***************************************************************************)
Permitted(p, v) == frame[p][v] # None /\ perm[p][v] = Writable
Target(p, v) == IF tlb[p][v] # None THEN tlb[p][v] ELSE frame[p][v]

Store(p, v, x) ==
    /\ CanStep(p) /\ pc[p] = "user" /\ cr2[p] \in {None, v}
    /\ tlb[p][v] # None \/ Permitted(p, v)
    /\ data' = [data EXCEPT ![Target(p, v)] = <<p, x>>]
    /\ tlb' = [tlb EXCEPT ![p][v] = Target(p, v)]
    /\ cr2' = [cr2 EXCEPT ![p] = None]
    /\ UNCHANGED <<pc, parent, sz, frame, perm, freelist, refc, lock, victim,
                   child, i, lim, seen, panic, scribbled>>

\* CoW_handler finds the page absent and stops the kernel.
FaultAbsent(p, v) ==
    /\ CanStep(p) /\ pc[p] = "user" /\ cr2[p] \in {None, v}
    /\ tlb[p][v] = None /\ frame[p][v] = None
    /\ panic' = "not present"
    /\ UNCHANGED <<pc, parent, sz, frame, perm, tlb, freelist, refc, data,
                   lock, victim, child, i, lim, cr2, seen, scribbled>>

\* The page is there: the handler reads how often it is referenced.
Fault(p, v) ==
    /\ CanStep(p) /\ pc[p] = "user" /\ cr2[p] \in {None, v}
    /\ tlb[p][v] = None /\ frame[p][v] # None /\ ~Permitted(p, v)
    /\ pc' = [pc EXCEPT ![p] = "cow"]
    /\ cr2' = [cr2 EXCEPT ![p] = v]
    /\ seen' = [seen EXCEPT ![p] = refc[frame[p][v]]]
    /\ UNCHANGED <<parent, sz, frame, perm, tlb, freelist, refc, data, lock,
                   victim, child, i, lim, panic, scribbled>>

\* The handler returns to the faulting instruction with an empty TLB.
FaultReturns(p) ==
    /\ pc' = [pc EXCEPT ![p] = "user"]
    /\ tlb' = [tlb EXCEPT ![p] = NoTlb]
    /\ seen' = [seen EXCEPT ![p] = 0]

\* Mutated forms: a page with two references is not copied; PTE_W is not set.
CowReuseShared(p) ==
    /\ CanStep(p) /\ pc[p] = "cow" /\ seen[p] =< 2
    /\ perm' = [perm EXCEPT ![p][cr2[p]].w = TRUE]
    /\ FaultReturns(p)
    /\ UNCHANGED <<parent, sz, frame, freelist, refc, data, lock, victim,
                   child, i, lim, cr2, panic, scribbled>>

CowReuseReadOnly(p) ==
    /\ CanStep(p) /\ pc[p] = "cow" /\ seen[p] =< 1
    /\ FaultReturns(p)
    /\ UNCHANGED <<parent, sz, frame, perm, freelist, refc, data, lock, victim,
                   child, i, lim, cr2, panic, scribbled>>

\* One reference: the page becomes writable again.
CowReuse(p) ==
    /\ CanStep(p) /\ pc[p] = "cow" /\ seen[p] =< 1
    /\ perm' = [perm EXCEPT ![p][cr2[p]].w = @ \/ seen[p] = 1]
    /\ FaultReturns(p)
    /\ UNCHANGED <<parent, sz, frame, freelist, refc, data, lock, victim,
                   child, i, lim, cr2, panic, scribbled>>

\* Mutated form: the new page is mapped without the memmove.
CowCopyBlank(p) ==
    LET v == cr2[p] IN
    /\ CanStep(p) /\ pc[p] = "cow" /\ seen[p] > 1
    /\ \E f \in Frame :
          /\ Kalloc(f)
          /\ data' = [data EXCEPT ![f] = Zero]
          /\ frame' = [frame EXCEPT ![p][v] = f, ![p][Owed] = frame[p][v]]
    /\ perm' = [perm EXCEPT ![p][v] = Writable]
    /\ pc' = [pc EXCEPT ![p] = "owed"]
    /\ UNCHANGED <<parent, sz, tlb, lock, victim, child, i, lim, cr2, seen,
                   scribbled>>

\* Several references: the page is copied and the copy mapped instead.
CowCopy(p) ==
    LET v == cr2[p] IN
    /\ CanStep(p) /\ pc[p] = "cow" /\ seen[p] > 1
    /\ \E f \in Frame :
          /\ Kalloc(f)
          /\ data' = [data EXCEPT ![f] = data[frame[p][v]]]
          /\ frame' = [frame EXCEPT ![p][v] = f, ![p][Owed] = frame[p][v]]
    /\ perm' = [perm EXCEPT ![p][v] = Writable]
    /\ pc' = [pc EXCEPT ![p] = "owed"]
    /\ UNCHANGED <<parent, sz, tlb, lock, victim, child, i, lim, cr2, seen,
                   scribbled>>

\* kalloc returned 0.
CowPanics(p) ==
    /\ CanStep(p) /\ pc[p] = "cow" /\ seen[p] > 1
    /\ KallocReturnsZero
    /\ panic' = "cow kalloc"
    /\ UNCHANGED <<pc, parent, sz, frame, perm, tlb, freelist, refc, lock,
                   victim, child, i, lim, cr2, seen>>

\* Mutated form: the handler forgets decr_refc.
CowDecrForgotten(p) ==
    /\ CanStep(p) /\ pc[p] = "owed"
    /\ frame' = [frame EXCEPT ![p][Owed] = None]
    /\ FaultReturns(p)
    /\ UNCHANGED <<parent, sz, perm, freelist, refc, data, lock, victim, child,
                   i, lim, cr2, panic, scribbled>>

\* decr_refc gives up the old page.  It does not look whether that was the
\* last reference.
CowDecr(p) ==
    LET f == frame[p][Owed] IN
    /\ CanStep(p) /\ pc[p] = "owed"
    /\ panic' = IF refc[f] = 0 THEN "decr" ELSE None
    /\ refc' = [refc EXCEPT ![f] = IF @ > 0 THEN @ - 1 ELSE @]
    /\ frame' = [frame EXCEPT ![p][Owed] = None]
    /\ FaultReturns(p)
    /\ UNCHANGED <<parent, sz, perm, freelist, data, lock, victim, child, i,
                   lim, cr2, scribbled>>

-----------------------------------------------------------------------------
\* What the kernel does on behalf of p without being asked again.
Kernel(p) ==
    \/ AllocStack(p) \/ NoStack(p) \/ SetupKvm(p) \/ CopyPgTab(p)
    \/ CopyFails(p) \/ CopyPage(p) \/ CopyPanics(p) \/ ForkReturns(p)
    \/ GrowPage(p) \/ GrowFails(p) \/ GrowDone(p)
    \/ KfreeDecr(p) \/ KfreePush(p)
    \/ GrowUndone(p) \/ ShrinkDone(p) \/ SlotReleased(p)
    \/ CowReuse(p) \/ CowCopy(p) \/ CowPanics(p) \/ CowDecr(p)
    \/ KallocPanics(p)

\* The instructions of p's program.
Access(p, v) ==
    \/ \E x \in Val : Store(p, v, x)
    \/ FaultAbsent(p, v)
    \/ Fault(p, v)

User(p) ==
    \/ \E c \in Proc : Fork(p, c) \/ Wait(p, c)
    \/ \E n \in 1 .. MaxSz : Grow(p, n)
    \/ \E n \in MinSz .. MaxSz : Shrink(p, n)
    \/ \E v \in VPage : Access(p, v)
    \/ Exit(p)

Next == \E p \in Proc : Kernel(p) \/ User(p) \/ Evict(p)

\* A process that can run keeps running: the timer makes every CPU go
\* round the table, so the kernel finishes what it began for p, and an
\* instruction that faulted is tried again.
Fairness ==
    \A p \in Proc :
        /\ SF_vars(Kernel(p))
        /\ SF_vars(cr2[p] # None /\ \E v \in VPage : Access(p, v))

Spec == Init /\ [][Next]_vars
FairSpec == Spec /\ Fairness

-----------------------------------------------------------------------------
(***************************************************************************)
(* Properties.                                                              *)
(***************************************************************************)
TypeOK ==
    /\ pc \in [Proc -> PC]
    /\ parent \in [Proc -> Proc \cup {None}]
    /\ sz \in [Proc -> 0 .. MaxSz]
    /\ frame \in [Proc -> [Slot -> Frame \cup {None}]]
    /\ perm \in [Proc -> [VPage -> [w : BOOLEAN, u : BOOLEAN]]]
    /\ tlb \in [Proc -> [VPage -> Frame \cup {None}]]
    /\ freelist \subseteq Frame
    /\ refc \in [Frame -> Nat]
    /\ data \in [Frame -> Contents]
    /\ lock \in Proc \cup {None} /\ victim \in Frame \cup {None}
    /\ child \in [Proc -> Proc \cup {None}]
    /\ i \in [Proc -> 0 .. MaxSz] /\ lim \in [Proc -> 0 .. MaxSz]
    /\ cr2 \in [Proc -> VPage \cup {None}]
    /\ seen \in [Proc -> Nat]
    /\ panic \in Panics \cup {None} /\ scribbled \in BOOLEAN

Holders(f) == {t \in Proc \X Slot : frame[t[1]][t[2]] = f}
UserHolders(f) == {t \in Proc \X VPage : frame[t[1]][t[2]] = f}

\* The count kalloc, incr_refc, decr_refc and kfree keep for a page is the
\* number of page tables, kernel slots and unfinished faults that refer to
\* it, at every moment of every interleaving.
RefExact == \A f \in Frame : refc[f] = Cardinality(Holders(f))

\* The state is well typed and the counts of pages are right, whatever forks,
\* faults and frees are under way.
CowSound == TypeOK /\ RefExact

\* A page that nothing refers to is free, or is in the hands of kfree: the
\* last of kfree and CoW_handler to give a page up also frees it.
Lost == {f \in Frame : refc[f] = 0 /\ f \notin freelist /\ f # victim}

NoLeak == Lost = {}

\* On several CPUs CoW_handler may give a page up last, and its decr_refc
\* frees nothing.  No other step loses a page: not kfree, and no fork or sbrk
\* that fails half-way.
OnlyHandlersLose ==
    [][\A f \in Lost' \ Lost : \E p \in Proc : frame[p][Owed] = f /\ frame'[p][Owed] = None]_vars

\* A page that a program may write is mapped in no other place: fork took
\* PTE_W from both sides, and the handler gives it back to the last one only.
WritableIsPrivate ==
    \A p \in Proc, v \in VPage :
        frame[p][v] # None /\ perm[p][v].w
            => UserHolders(frame[p][v]) = {<<p, v>>}

\* In user code no cached translation is older than the page table: where
\* it still allows a store, the page is mapped there and nowhere else.
TlbIsFresh ==
    \A p \in Proc, v \in VPage :
        pc[p] = "user" /\ tlb[p][v] # None
            => UserHolders(tlb[p][v]) = {<<p, v>>}

\* Only pages that are not mapped yet lie at or above a process's size, so
\* mappages never finds a page present ("remap").
NothingAboveSize ==
    \A p \in Proc, v \in VPage :
        pc[p] = "user" /\ v >= sz[p] => frame[p][v] = None

(***************************************************************************)
(* The refinement of PrivateMemory.  The memory of a process appears when   *)
(* fork makes it RUNNABLE and is gone when it exits.  After kalloc has      *)
(* incremented a foreign word nothing is claimed about any contents.        *)
(***************************************************************************)
View(p) == [v \in VPage |->
    IF pc[p] \in {"unused", "embryo", "zombie"} \/ frame[p][v] = None
        THEN None ELSE data[frame[p][v]]]

PM == INSTANCE PrivateMemory WITH mem <- [p \in Proc |-> View(p)]

\* Sharing pages is invisible: whatever fork, faults, sbrk, exit and wait do
\* and in which order, each process sees the memory it would have had of its
\* own, and a child starts with what its parent had.
MemoryIsPrivate == [][PM!Next \/ scribbled']_[p \in Proc |-> View(p)]

\* kalloc.c:113: kalloc returns 0 if the memory cannot be allocated; it does
\* not stop the kernel.
KallocNeverPanics == panic # "not freelist"

\* A store that faults on a page of the process is carried out in the end.
FaultsResolve ==
    \A p \in Proc : cr2[p] # None ~> cr2[p] = None \/ panic # None

\* Every system call and every page fault comes to its end.
KernelReturns ==
    \A p \in Proc :
        pc[p] \notin {"user", "unused", "zombie"}
            ~> pc[p] \in {"user", "unused"} \/ panic # None
=============================================================================
