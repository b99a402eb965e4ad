--------------------------- MODULE CowMemoryProofs ---------------------------
(***************************************************************************)
(* Proofs about CowMemory for every number of processes, pages and CPUs.    *)
(* The inductive invariant has three layers, each proved from the ones      *)
(* before it: TypeInv (types and the coupling of program counters and       *)
(* registers), SlotInv (which slots of a page table are empty when), and    *)
(* RefInv (counts are cardinalities, free pages count 0).  On it rest       *)
(* PrivInv (who may write a page), TlbInv (where cached translations lead)  *)
(* and CopyInv (what fork has copied), which give the refinement of         *)
(* PrivateMemory.                                                           *)
(***************************************************************************)
EXTENDS CowMemory, FiniteSetTheorems, TLAPS

Building == {"allocproc", "setupkvm", "copy", "freevm"}

\* What the registers of a process hold while the kernel works for it: the
\* child of a fork or a wait is a slot of its own that nobody else builds or
\* releases, and a fault is about a page that is mapped.
Control ==
    /\ \A p \in Proc : pc[p] \in Building =>
          child[p] \in Proc /\ pc[child[p]] = "embryo"
    /\ \A p \in Proc : pc[p] = "reap" =>
          child[p] \in Proc /\ pc[child[p]] = "zombie"
    /\ \A p, q \in Proc :
          p # q /\ pc[p] \in Building \cup {"reap"}
                /\ pc[q] \in Building \cup {"reap"} => child[p] # child[q]
    /\ \A p \in Proc : pc[p] \in {"cow", "owed"} => cr2[p] \in VPage
    /\ \A p \in Proc : pc[p] = "cow" => frame[p][cr2[p]] # None
    /\ lock # None => victim \in Frame

TypeInv == TypeOK /\ Control

\* The slots of a process are different from each other.
LEMMA Slots ==
    /\ KStack \in Slot /\ PgTab \in Slot /\ PgDir \in Slot /\ Owed \in Slot
    /\ VPage \subseteq Slot
    /\ VPage \cap {KStack, PgTab, PgDir, Owed} = {}
    /\ KStack # PgTab /\ KStack # PgDir /\ KStack # Owed
    /\ PgTab # PgDir /\ PgTab # Owed /\ PgDir # Owed
BY ConstantsOK DEF ConstantsOK, KStack, PgTab, PgDir, Owed, Slot, VPage

\* A loop counter below its bound is a page number.
LEMMA Below == ASSUME NEW n \in 0 .. MaxSz, NEW m \in 0 .. MaxSz, n < m
               PROVE  n \in VPage /\ n + 1 \in 0 .. MaxSz
BY ConstantsOK DEF ConstantsOK, VPage

\* Writing one slot, one entry, or one PTE_W keeps the types.
LEMMA FrameUpdate ==
    ASSUME frame \in [Proc -> [Slot -> Frame \cup {None}]],
           NEW q \in Proc, NEW s \in Slot, NEW f \in Frame \cup {None}
    PROVE  [frame EXCEPT ![q][s] = f] \in [Proc -> [Slot -> Frame \cup {None}]]
OBVIOUS

\* The same for the flags of a page.
LEMMA PermUpdate ==
    ASSUME perm \in [Proc -> [VPage -> [w : BOOLEAN, u : BOOLEAN]]],
           NEW q \in Proc, NEW v \in VPage, NEW r \in [w : BOOLEAN, u : BOOLEAN]
    PROVE  [perm EXCEPT ![q][v] = r] \in [Proc -> [VPage -> [w : BOOLEAN,
        u : BOOLEAN]]]
OBVIOUS

\* The same for PTE_W alone.
LEMMA PermWrite ==
    ASSUME perm \in [Proc -> [VPage -> [w : BOOLEAN, u : BOOLEAN]]],
           NEW q \in Proc, NEW v \in VPage, NEW b \in BOOLEAN
    PROVE  [perm EXCEPT ![q][v].w = b] \in [Proc -> [VPage -> [w : BOOLEAN,
        u : BOOLEAN]]]
<1>1. [perm EXCEPT ![q][v].w = b] = [perm EXCEPT ![q][v] = [perm[q][v] EXCEPT !.w = b]]
  OBVIOUS
<1>2. [perm[q][v] EXCEPT !.w = b] \in [w : BOOLEAN, u : BOOLEAN]
  OBVIOUS
<1> QED BY <1>1, <1>2, PermUpdate

\* What kalloc changes keeps its type.
LEMMA KallocTypes ==
    ASSUME freelist \in SUBSET Frame, refc \in [Frame -> Nat], NEW f, Kalloc(f)
    PROVE  /\ f \in Frame
           /\ freelist' \in SUBSET Frame
           /\ refc' \in [Frame -> Nat]
           /\ panic' \in Panics \cup {None}
<1>1. f \in Frame BY DEF Kalloc
<1>2. refc' \in [Frame -> Nat]
  <2>1. refc' = [refc EXCEPT ![f] = refc[f] + 1] BY DEF Kalloc
  <2>2. refc[f] + 1 \in Nat BY <1>1
  <2> QED BY <1>1, <2>1, <2>2
<1>3. panic' \in Panics \cup {None} BY DEF Kalloc, Panics
<1> QED BY <1>1, <1>2, <1>3 DEF Kalloc

\* What a releasing loop takes next is a page that its slot holds.
LEMMA DoomedHeld ==
    ASSUME Control, frame \in [Proc -> [Slot -> Frame \cup {None}]],
           sz \in [Proc -> 0 .. MaxSz], lim \in [Proc -> 0 .. MaxSz],
           NEW p \in Proc, NEW s \in Doomed(p)
    PROVE  Owner(p) \in Proc /\ s \in Slot /\ frame[Owner(p)][s] \in Frame
<1>1. Owner(p) \in Proc BY DEF Control, Building, Owner
<1>2. \A n \in 0 .. MaxSz : n .. MaxSz - 1 \subseteq Slot
  BY ConstantsOK DEF ConstantsOK, Slot
<1>3. s \in Slot /\ frame[Owner(p)][s] # None
  <2>1. CASE pc[p] = "shrink" BY <2>1, <1>2 DEF Doomed, Held, Owner
  <2>2. CASE pc[p] = "undo" BY <2>2, <1>2 DEF Doomed, Held, Owner
  <2>3. CASE pc[p] = "reap" BY <2>3 DEF Doomed, Held, Owner
  <2>4. CASE pc[p] = "freevm" BY <2>4, Slots DEF Doomed, Held, Owner
  <2> QED BY <2>1, <2>2, <2>3, <2>4 DEF Doomed
<1> QED BY <1>1, <1>3

\* The contents that the code gives a page.
LEMMA PageContents ==
    /\ Zero \in Contents /\ Junk \in Contents
    /\ \A p \in Proc, x \in Val : <<p, x>> \in Contents
BY DEF Contents

\* Every step of the kernel or of a program keeps the types.
LEMMA TypeStep == TypeInv /\ [Next]_vars => TypeOK'
<1> SUFFICES ASSUME TypeInv, [Next]_vars PROVE TypeOK'
  OBVIOUS
<1>c. ConstantsOK BY ConstantsOK
<1>m. /\ MaxSz \in Nat /\ InitProc \in Proc /\ None \notin Frame
      /\ None \notin Proc /\ Junk \in Contents
  BY ConstantsOK, PageContents DEF ConstantsOK
<1>n. MinSz \in 0 .. MaxSz /\ Zero \in Contents
  BY ConstantsOK, PageContents DEF ConstantsOK
<1>pc. pc \in [Proc -> PC] BY DEF TypeInv, TypeOK
<1>parent. parent \in [Proc -> Proc \cup {None}] BY DEF TypeInv, TypeOK
<1>sz. sz \in [Proc -> 0 .. MaxSz] BY DEF TypeInv, TypeOK
<1>frame. frame \in [Proc -> [Slot -> Frame \cup {None}]] BY DEF TypeInv, TypeOK
<1>perm. perm \in [Proc -> [VPage -> [w : BOOLEAN,
    u : BOOLEAN]]] BY DEF TypeInv, TypeOK
<1>tlb. tlb \in [Proc -> [VPage -> Frame \cup {None}]] BY DEF TypeInv, TypeOK
<1>freelist. freelist \in SUBSET Frame BY DEF TypeInv, TypeOK
<1>refc. refc \in [Frame -> Nat] BY DEF TypeInv, TypeOK
<1>data. data \in [Frame -> Contents] BY DEF TypeInv, TypeOK
<1>lock. lock \in Proc \cup {None} BY DEF TypeInv, TypeOK
<1>victim. victim \in Frame \cup {None} BY DEF TypeInv, TypeOK
<1>child. child \in [Proc -> Proc \cup {None}] BY DEF TypeInv, TypeOK
<1>i. i \in [Proc -> 0 .. MaxSz] BY DEF TypeInv, TypeOK
<1>lim. lim \in [Proc -> 0 .. MaxSz] BY DEF TypeInv, TypeOK
<1>cr2. cr2 \in [Proc -> VPage \cup {None}] BY DEF TypeInv, TypeOK
<1>seen. seen \in [Proc -> Nat] BY DEF TypeInv, TypeOK
<1>panic. panic \in Panics \cup {None} BY DEF TypeInv, TypeOK
<1>scribbled. scribbled \in BOOLEAN BY DEF TypeInv, TypeOK
<1>ctl. Control BY DEF TypeInv
<1>1. ASSUME NEW p \in Proc, AllocStack(p) PROVE TypeOK'
  <2>u. UNCHANGED <<parent, sz, perm, tlb, data, lock, victim, child, i, lim,
      cr2, seen, scribbled>>
    BY <1>1 DEF AllocStack, AllocForChild, Kalloc
  <2>ch. child[p] \in Proc
    BY <1>1, <1>ctl DEF AllocStack, AllocForChild, Kalloc, Control, Building
  <2>p. PICK f \in Frame : Kalloc(f) /\ frame' = [frame EXCEPT ![child[p]][KStack] = f]
    BY <1>1 DEF AllocStack, AllocForChild
  <2>1. pc' \in [Proc -> PC]
    BY <1>1, <1>pc, <1>m, <2>ch DEF AllocStack, AllocForChild, Kalloc, PC
  <2>2. frame' \in [Proc -> [Slot -> Frame \cup {None}]]
    BY <2>p, <2>ch, <1>frame, Slots, FrameUpdate
  <2>3. freelist' \in SUBSET Frame BY <2>p, <1>freelist, <1>refc, KallocTypes
  <2>4. refc' \in [Frame -> Nat] BY <2>p, <1>freelist, <1>refc, KallocTypes
  <2>5. panic' \in Panics \cup {None} BY <2>p, <1>freelist, <1>refc, KallocTypes
  <2> QED
    BY <2>u, <2>1, <2>2, <2>3, <2>4, <2>5, <1>parent, <1>sz, <1>perm, <1>tlb,
       <1>data, <1>lock, <1>victim, <1>child, <1>i, <1>lim, <1>cr2, <1>seen,
       <1>scribbled DEF TypeOK
<1>2. ASSUME NEW p \in Proc, NoStack(p) PROVE TypeOK'
  <2>u. UNCHANGED <<parent, sz, frame, perm, tlb, freelist, refc, lock, victim,
      i, lim, cr2, seen, panic>>
    BY <1>2 DEF NoStack, KallocReturnsZero
  <2>ch. child[p] \in Proc
    BY <1>2, <1>ctl DEF NoStack, KallocReturnsZero, Control, Building
  <2>1. pc' \in [Proc -> PC]
    BY <1>2, <1>pc, <1>m, <2>ch DEF NoStack, KallocReturnsZero, PC
  <2>2. child' \in [Proc -> Proc \cup {None}]
    BY <1>2, <1>child, <1>m, <2>ch DEF NoStack, KallocReturnsZero
  <2>3. scribbled' \in BOOLEAN
    BY <1>2, <1>scribbled, <1>m, <2>ch DEF NoStack, KallocReturnsZero
  <2>4. data' \in [Frame -> Contents]
    BY <1>2, <1>data, <1>m, <2>ch DEF NoStack, KallocReturnsZero
  <2> QED
    BY <2>u, <2>1, <2>2, <2>3, <2>4, <1>parent, <1>sz, <1>frame, <1>perm,
       <1>tlb, <1>freelist, <1>refc, <1>lock, <1>victim, <1>i, <1>lim, <1>cr2,
       <1>seen, <1>panic DEF TypeOK
<1>3. ASSUME NEW p \in Proc, SetupKvm(p) PROVE TypeOK'
  <2>u. UNCHANGED <<parent, sz, perm, tlb, data, lock, victim, child, i, lim,
      cr2, seen, scribbled>>
    BY <1>3 DEF SetupKvm, AllocForChild, Kalloc
  <2>ch. child[p] \in Proc
    BY <1>3, <1>ctl DEF SetupKvm, AllocForChild, Kalloc, Control, Building
  <2>p. PICK f \in Frame : Kalloc(f) /\ frame' = [frame EXCEPT ![child[p]][PgDir] = f]
    BY <1>3 DEF SetupKvm, AllocForChild
  <2>1. pc' \in [Proc -> PC]
    BY <1>3, <1>pc, <1>m, <2>ch DEF SetupKvm, AllocForChild, Kalloc, PC
  <2>2. frame' \in [Proc -> [Slot -> Frame \cup {None}]]
    BY <2>p, <2>ch, <1>frame, Slots, FrameUpdate
  <2>3. freelist' \in SUBSET Frame BY <2>p, <1>freelist, <1>refc, KallocTypes
  <2>4. refc' \in [Frame -> Nat] BY <2>p, <1>freelist, <1>refc, KallocTypes
  <2>5. panic' \in Panics \cup {None} BY <2>p, <1>freelist, <1>refc, KallocTypes
  <2> QED
    BY <2>u, <2>1, <2>2, <2>3, <2>4, <2>5, <1>parent, <1>sz, <1>perm, <1>tlb,
       <1>data, <1>lock, <1>victim, <1>child, <1>i, <1>lim, <1>cr2, <1>seen,
       <1>scribbled DEF TypeOK
<1>4. ASSUME NEW p \in Proc, CopyPgTab(p) PROVE TypeOK'
  <2>u. UNCHANGED <<parent, sz, tlb, data, lock, victim, child, i, lim, cr2,
      seen, scribbled>>
    BY <1>4 DEF CopyPgTab, AllocForChild, Kalloc
  <2>ch. child[p] \in Proc
    BY <1>4, <1>ctl DEF CopyPgTab, AllocForChild, Kalloc, Control, Building
  <2>p. PICK f \in Frame : Kalloc(f) /\ frame' = [frame EXCEPT ![child[p]][PgTab] = f]
    BY <1>4 DEF CopyPgTab, AllocForChild
  <2>b. i[p] \in VPage /\ i[p] + 1 \in 0 .. MaxSz
    BY <1>4, <1>i, <1>sz, Below DEF CopyPgTab
  <2>1. pc' \in [Proc -> PC]
    BY <1>4, <1>pc, <1>m, <2>ch DEF CopyPgTab, AllocForChild, Kalloc, PC
  <2>2. frame' \in [Proc -> [Slot -> Frame \cup {None}]]
    BY <2>p, <2>ch, <1>frame, Slots, FrameUpdate
  <2>3. freelist' \in SUBSET Frame BY <2>p, <1>freelist, <1>refc, KallocTypes
  <2>4. refc' \in [Frame -> Nat] BY <2>p, <1>freelist, <1>refc, KallocTypes
  <2>5. panic' \in Panics \cup {None} BY <2>p, <1>freelist, <1>refc, KallocTypes
  <2>6. perm' \in [Proc -> [VPage -> [w : BOOLEAN, u : BOOLEAN]]]
    BY <1>4, <2>b, <1>perm, PermWrite DEF CopyPgTab
  <2> QED
    BY <2>u, <2>1, <2>2, <2>3, <2>4, <2>5, <2>6, <1>parent, <1>sz, <1>tlb,
       <1>data, <1>lock, <1>victim, <1>child, <1>i, <1>lim, <1>cr2, <1>seen,
       <1>scribbled DEF TypeOK
<1>5. ASSUME NEW p \in Proc, CopyFails(p) PROVE TypeOK'
  <2>u. UNCHANGED <<parent, sz, frame, tlb, freelist, refc, lock, victim,
      child, i, lim, cr2, seen, panic>>
    BY <1>5 DEF CopyFails, KallocReturnsZero
  <2>ch. child[p] \in Proc
    BY <1>5, <1>ctl DEF CopyFails, KallocReturnsZero, Control, Building
  <2>1. pc' \in [Proc -> PC]
    BY <1>5, <1>pc, <1>m, <2>ch DEF CopyFails, KallocReturnsZero, PC
  <2>2. perm' \in [Proc -> [VPage -> [w : BOOLEAN, u : BOOLEAN]]] 
    <3>1. CASE UNCHANGED perm BY <3>1, <1>perm
    <3>2. CASE i[p] < sz[p] /\ perm' = [perm EXCEPT ![p][i[p]].w = FALSE]
      <4>1. i[p] \in VPage BY <3>2, <1>i, <1>sz, Below
      <4> QED BY <3>2, <4>1, <1>perm, PermWrite
    <3> QED BY <1>5, <3>1, <3>2 DEF CopyFails
  <2>3. scribbled' \in BOOLEAN
    BY <1>5, <1>scribbled, <1>m, <2>ch DEF CopyFails, KallocReturnsZero
  <2>4. data' \in [Frame -> Contents]
    BY <1>5, <1>data, <1>m, <2>ch DEF CopyFails, KallocReturnsZero
  <2> QED
    BY <2>u, <2>1, <2>2, <2>3, <2>4, <1>parent, <1>sz, <1>frame, <1>tlb,
       <1>freelist, <1>refc, <1>lock, <1>victim, <1>child, <1>i, <1>lim, <1>cr2,
       <1>seen, <1>panic DEF TypeOK
<1>6. ASSUME NEW p \in Proc, CopyPage(p) PROVE TypeOK'
  <2>u. UNCHANGED <<pc, parent, sz, tlb, freelist, data, lock, victim, child,
      lim, cr2, seen, panic, scribbled>>
    BY <1>6 DEF CopyPage
  <2>ch. child[p] \in Proc BY <1>6, <1>ctl DEF CopyPage, Control, Building
  <2>b. i[p] \in VPage /\ i[p] + 1 \in 0 .. MaxSz
    BY <1>6, <1>i, <1>sz, Below DEF CopyPage
  <2>f. frame[p][i[p]] \in Frame BY <1>6, <2>b, <1>frame, Slots DEF CopyPage
  <2>1. frame' \in [Proc -> [Slot -> Frame \cup {None}]]
    BY <1>6, <2>b, <2>f, <2>ch, <1>frame, Slots, FrameUpdate DEF CopyPage
  <2>2. perm' \in [Proc -> [VPage -> [w : BOOLEAN, u : BOOLEAN]]] 
    <3> DEFINE first == [perm EXCEPT ![p][i[p]].w = FALSE]
               r == [perm[p][i[p]] EXCEPT !.w = FALSE]
    <3>1. first \in [Proc -> [VPage -> [w : BOOLEAN, u : BOOLEAN]]]
      BY <2>b, <1>perm, PermWrite
    <3>2. r \in [w : BOOLEAN, u : BOOLEAN]
      <4>1. perm[p][i[p]] \in [w : BOOLEAN, u : BOOLEAN] BY <2>b, <1>perm
      <4> QED BY <4>1
    <3>3. perm' = [first EXCEPT ![child[p]][i[p]] = r] BY <1>6 DEF CopyPage
    <3> HIDE DEF first, r
    <3> QED BY <3>1, <3>2, <3>3, <2>b, <2>ch
  <2>3. refc' \in [Frame -> Nat] BY <1>6, <2>f, <1>refc DEF CopyPage
  <2>4. i' \in [Proc -> 0 .. MaxSz] BY <1>6, <2>b, <1>i DEF CopyPage
  <2> QED
    BY <2>u, <2>1, <2>2, <2>3, <2>4, <1>pc, <1>parent, <1>sz, <1>tlb,
       <1>freelist, <1>data, <1>lock, <1>victim, <1>child, <1>lim, <1>cr2,
       <1>seen, <1>panic, <1>scribbled DEF TypeOK
<1>7. ASSUME NEW p \in Proc, CopyPanics(p) PROVE TypeOK'
  <2>u. UNCHANGED <<pc, parent, sz, frame, perm, tlb, freelist, refc, data,
      lock, victim, child, i, lim, cr2, seen, scribbled>>
    BY <1>7 DEF CopyPanics
  <2>1. panic' \in Panics \cup {None} BY <1>7, <1>panic, <1>m DEF CopyPanics,
      Panics
  <2> QED
    BY <2>u, <2>1, <1>pc, <1>parent, <1>sz, <1>frame, <1>perm, <1>tlb,
       <1>freelist, <1>refc, <1>data, <1>lock, <1>victim, <1>child, <1>i,
       <1>lim, <1>cr2, <1>seen, <1>scribbled DEF TypeOK
<1>8. ASSUME NEW p \in Proc, ForkReturns(p) PROVE TypeOK'
  <2>u. UNCHANGED <<frame, perm, freelist, refc, data, lock, victim, lim, cr2,
      seen, panic, scribbled>>
    BY <1>8 DEF ForkReturns
  <2>ch. child[p] \in Proc BY <1>8, <1>ctl DEF ForkReturns, Control, Building
  <2>1. pc' \in [Proc -> PC] BY <1>8, <1>pc, <1>m, <2>ch DEF ForkReturns, PC
  <2>2. tlb' \in [Proc -> [VPage -> Frame \cup {None}]]
    BY <1>8, <1>tlb, <1>m, <2>ch DEF ForkReturns, NoTlb
  <2>3. sz' \in [Proc -> 0 .. MaxSz] BY <1>8, <1>sz, <1>m, <2>ch DEF ForkReturns
  <2>4. parent' \in [Proc -> Proc \cup {None}]
    BY <1>8, <1>parent, <1>m, <2>ch DEF ForkReturns
  <2>5. child' \in [Proc -> Proc \cup {None}]
    BY <1>8, <1>child, <1>m, <2>ch DEF ForkReturns
  <2>6. i' \in [Proc -> 0 .. MaxSz] BY <1>8, <1>i, <1>m, <2>ch DEF ForkReturns
  <2> QED
    BY <2>u, <2>1, <2>2, <2>3, <2>4, <2>5, <2>6, <1>frame, <1>perm, <1>freelist,
       <1>refc, <1>data, <1>lock, <1>victim, <1>lim, <1>cr2, <1>seen, <1>panic,
       <1>scribbled DEF TypeOK
<1>9. ASSUME NEW p \in Proc, GrowPage(p) PROVE TypeOK'
  <2>u. UNCHANGED <<pc, parent, sz, tlb, lock, victim, child, lim, cr2, seen,
      scribbled>>
    BY <1>9 DEF GrowPage, Kalloc
  <2>p. PICK f \in Frame :
          Kalloc(f) /\ data' = [data EXCEPT ![f] = Zero]
                           /\ frame' = [frame EXCEPT ![p][i[p]] = f]
    BY <1>9 DEF GrowPage
  <2>b. i[p] \in VPage /\ i[p] + 1 \in 0 .. MaxSz
    BY <1>9, <1>i, <1>lim, Below DEF GrowPage
  <2>w. Writable \in [w : BOOLEAN, u : BOOLEAN] BY DEF Writable
  <2>1. freelist' \in SUBSET Frame BY <2>p, <1>freelist, <1>refc, KallocTypes
  <2>2. refc' \in [Frame -> Nat] BY <2>p, <1>freelist, <1>refc, KallocTypes
  <2>3. panic' \in Panics \cup {None} BY <2>p, <1>freelist, <1>refc, KallocTypes
  <2>4. data' \in [Frame -> Contents] BY <2>p, <1>data, <1>n
  <2>5. frame' \in [Proc -> [Slot -> Frame \cup {None}]]
    BY <2>p, <2>b, <1>frame, Slots, FrameUpdate
  <2>6. perm' \in [Proc -> [VPage -> [w : BOOLEAN, u : BOOLEAN]]]
    BY <1>9, <2>b, <2>w, <1>perm, PermUpdate DEF GrowPage
  <2>7. i' \in [Proc -> 0 .. MaxSz] BY <1>9, <2>b, <1>i DEF GrowPage
  <2> QED
    BY <2>u, <2>1, <2>2, <2>3, <2>4, <2>5, <2>6, <2>7, <1>pc, <1>parent, <1>sz,
       <1>tlb, <1>lock, <1>victim, <1>child, <1>lim, <1>cr2, <1>seen,
       <1>scribbled DEF TypeOK
<1>10. ASSUME NEW p \in Proc, GrowFails(p) PROVE TypeOK'
  <2>u. UNCHANGED <<parent, sz, frame, perm, tlb, freelist, refc, lock, victim,
      child, i, lim, cr2, seen, panic>>
    BY <1>10 DEF GrowFails, KallocReturnsZero
  <2>1. pc' \in [Proc -> PC] BY <1>10, <1>pc, <1>m DEF GrowFails,
      KallocReturnsZero, PC
  <2>2. scribbled' \in BOOLEAN
    BY <1>10, <1>scribbled, <1>m DEF GrowFails, KallocReturnsZero
  <2>3. data' \in [Frame -> Contents]
    BY <1>10, <1>data, <1>m DEF GrowFails, KallocReturnsZero
  <2> QED
    BY <2>u, <2>1, <2>2, <2>3, <1>parent, <1>sz, <1>frame, <1>perm, <1>tlb,
       <1>freelist, <1>refc, <1>lock, <1>victim, <1>child, <1>i, <1>lim, <1>cr2,
       <1>seen, <1>panic DEF TypeOK
<1>11. ASSUME NEW p \in Proc, GrowDone(p) PROVE TypeOK'
  <2>u. UNCHANGED <<parent, frame, perm, freelist, refc, data, lock, victim,
      child, cr2, seen, panic, scribbled>>
    BY <1>11 DEF GrowDone, GrowprocReturns
  <2>1. pc' \in [Proc -> PC] BY <1>11, <1>pc, <1>m DEF GrowDone,
      GrowprocReturns, PC
  <2>2. sz' \in [Proc -> 0 .. MaxSz]
    BY <1>11, <1>sz, <1>lim DEF GrowDone, GrowprocReturns
  <2>3. tlb' \in [Proc -> [VPage -> Frame \cup {None}]]
    BY <1>11, <1>tlb, <1>m DEF GrowDone, GrowprocReturns, NoTlb
  <2>4. i' \in [Proc -> 0 .. MaxSz] BY <1>11, <1>i, <1>m DEF GrowDone,
      GrowprocReturns
  <2>5. lim' \in [Proc -> 0 .. MaxSz]
    BY <1>11, <1>lim, <1>m DEF GrowDone, GrowprocReturns
  <2> QED
    BY <2>u, <2>1, <2>2, <2>3, <2>4, <2>5, <1>parent, <1>frame, <1>perm,
       <1>freelist, <1>refc, <1>data, <1>lock, <1>victim, <1>child, <1>cr2,
       <1>seen, <1>panic, <1>scribbled DEF TypeOK
<1>12. ASSUME NEW p \in Proc, KfreeDecr(p) PROVE TypeOK'
  <2>u. UNCHANGED <<pc, parent, sz, tlb, freelist, data, child, i, lim, cr2,
      seen, panic, scribbled>>
    BY <1>12 DEF KfreeDecr
  <2>p. PICK s \in Doomed(p) :
            /\ refc' = [refc EXCEPT ![frame[Owner(p)][s]] = IF @ > 0 THEN @ - 1 ELSE @]
            /\ victim' = frame[Owner(p)][s]
            /\ frame' = [frame EXCEPT ![Owner(p)][s] = None]
            /\ perm' = IF s \in VPage
                         THEN [perm EXCEPT ![Owner(p)][s] = NoPerm] ELSE perm
    BY <1>12 DEF KfreeDecr
  <2>q. Owner(p) \in Proc /\ s \in Slot /\ frame[Owner(p)][s] \in Frame
    BY <1>ctl, <1>frame, <1>sz, <1>lim, DoomedHeld
  <2>w. NoPerm \in [w : BOOLEAN, u : BOOLEAN] BY DEF NoPerm
  <2>1. refc' \in [Frame -> Nat] BY <2>p, <2>q, <1>refc
  <2>2. victim' \in Frame \cup {None} BY <2>p, <2>q
  <2>3. frame' \in [Proc -> [Slot -> Frame \cup {None}]]
    BY <2>p, <2>q, <1>frame, FrameUpdate
  <2>4. perm' \in [Proc -> [VPage -> [w : BOOLEAN, u : BOOLEAN]]]
    BY <2>p, <2>q, <2>w, <1>perm, PermUpdate
  <2>5. lock' \in Proc \cup {None} BY <1>12, <1>lock, <1>m DEF KfreeDecr
  <2> QED
    BY <2>u, <2>1, <2>2, <2>3, <2>4, <2>5, <1>pc, <1>parent, <1>sz, <1>tlb,
       <1>freelist, <1>data, <1>child, <1>i, <1>lim, <1>cr2, <1>seen, <1>panic,
       <1>scribbled DEF TypeOK
<1>13. ASSUME NEW p \in Proc, KfreePush(p) PROVE TypeOK'
  <2>u. UNCHANGED <<pc, parent, sz, frame, perm, tlb, refc, child, i, lim, cr2,
      seen, panic, scribbled>>
    BY <1>13 DEF KfreePush
  <2>v. victim \in Frame BY <1>13, <1>ctl, <1>m DEF KfreePush, Control
  <2>1. freelist' \in SUBSET Frame BY <1>13, <2>v, <1>freelist DEF KfreePush
  <2>2. data' \in [Frame -> Contents] BY <1>13, <2>v, <1>m,
      <1>data DEF KfreePush
  <2>3. lock' \in Proc \cup {None} BY <1>13, <1>lock, <1>m DEF KfreePush
  <2>4. victim' \in Frame \cup {None} BY <1>13, <1>victim, <1>m DEF KfreePush
  <2> QED
    BY <2>u, <2>1, <2>2, <2>3, <2>4, <1>pc, <1>parent, <1>sz, <1>frame, <1>perm,
       <1>tlb, <1>refc, <1>child, <1>i, <1>lim, <1>cr2, <1>seen, <1>panic,
       <1>scribbled DEF TypeOK
<1>14. ASSUME NEW p \in Proc, GrowUndone(p) PROVE TypeOK'
  <2>u. UNCHANGED <<parent, frame, perm, freelist, refc, data, lock, victim,
      child, cr2, seen, panic, scribbled>>
    BY <1>14 DEF GrowUndone, GrowprocReturns
  <2>1. pc' \in [Proc -> PC] BY <1>14, <1>pc, <1>m DEF GrowUndone,
      GrowprocReturns, PC
  <2>2. sz' \in [Proc -> 0 .. MaxSz]
    BY <1>14, <1>sz, <1>m DEF GrowUndone, GrowprocReturns
  <2>3. tlb' \in [Proc -> [VPage -> Frame \cup {None}]]
    BY <1>14, <1>tlb, <1>m DEF GrowUndone, GrowprocReturns, NoTlb
  <2>4. i' \in [Proc -> 0 .. MaxSz] BY <1>14, <1>i, <1>m DEF GrowUndone,
      GrowprocReturns
  <2>5. lim' \in [Proc -> 0 .. MaxSz]
    BY <1>14, <1>lim, <1>m DEF GrowUndone, GrowprocReturns
  <2> QED
    BY <2>u, <2>1, <2>2, <2>3, <2>4, <2>5, <1>parent, <1>frame, <1>perm,
       <1>freelist, <1>refc, <1>data, <1>lock, <1>victim, <1>child, <1>cr2,
       <1>seen, <1>panic, <1>scribbled DEF TypeOK
<1>15. ASSUME NEW p \in Proc, ShrinkDone(p) PROVE TypeOK'
  <2>u. UNCHANGED <<parent, frame, perm, freelist, refc, data, lock, victim,
      child, cr2, seen, panic, scribbled>>
    BY <1>15 DEF ShrinkDone, GrowprocReturns
  <2>1. pc' \in [Proc -> PC] BY <1>15, <1>pc, <1>m DEF ShrinkDone,
      GrowprocReturns, PC
  <2>2. sz' \in [Proc -> 0 .. MaxSz]
    BY <1>15, <1>sz, <1>lim DEF ShrinkDone, GrowprocReturns
  <2>3. tlb' \in [Proc -> [VPage -> Frame \cup {None}]]
    BY <1>15, <1>tlb, <1>m DEF ShrinkDone, GrowprocReturns, NoTlb
  <2>4. i' \in [Proc -> 0 .. MaxSz] BY <1>15, <1>i, <1>m DEF ShrinkDone,
      GrowprocReturns
  <2>5. lim' \in [Proc -> 0 .. MaxSz]
    BY <1>15, <1>lim, <1>m DEF ShrinkDone, GrowprocReturns
  <2> QED
    BY <2>u, <2>1, <2>2, <2>3, <2>4, <2>5, <1>parent, <1>frame, <1>perm,
       <1>freelist, <1>refc, <1>data, <1>lock, <1>victim, <1>child, <1>cr2,
       <1>seen, <1>panic, <1>scribbled DEF TypeOK
<1>16. ASSUME NEW p \in Proc, SlotReleased(p) PROVE TypeOK'
  <2>u. UNCHANGED <<sz, frame, perm, tlb, freelist, refc, data, lock, victim,
      lim, cr2, seen, panic, scribbled>>
    BY <1>16 DEF SlotReleased
  <2>ch. child[p] \in Proc BY <1>16, <1>ctl DEF SlotReleased, Control, Building
  <2>1. pc' \in [Proc -> PC] BY <1>16, <1>pc, <1>m, <2>ch DEF SlotReleased, PC
  <2>2. parent' \in [Proc -> Proc \cup {None}]
    BY <1>16, <1>parent, <1>m, <2>ch DEF SlotReleased
  <2>3. child' \in [Proc -> Proc \cup {None}]
    BY <1>16, <1>child, <1>m, <2>ch DEF SlotReleased
  <2>4. i' \in [Proc -> 0 .. MaxSz] BY <1>16, <1>i, <1>m, <2>ch DEF SlotReleased
  <2> QED
    BY <2>u, <2>1, <2>2, <2>3, <2>4, <1>sz, <1>frame, <1>perm, <1>tlb,
       <1>freelist, <1>refc, <1>data, <1>lock, <1>victim, <1>lim, <1>cr2,
       <1>seen, <1>panic, <1>scribbled DEF TypeOK
<1>17. ASSUME NEW p \in Proc, CowReuse(p) PROVE TypeOK'
  <2>u. UNCHANGED <<parent, sz, frame, freelist, refc, data, lock, victim,
      child, i, lim, cr2, panic, scribbled>>
    BY <1>17 DEF CowReuse, FaultReturns
  <2>ch. cr2[p] \in VPage BY <1>17, <1>ctl DEF CowReuse, FaultReturns, Control
  <2>b. (perm[p][cr2[p]].w \/ seen[p] = 1) \in BOOLEAN BY <2>ch, <1>perm
  <2>1. perm' \in [Proc -> [VPage -> [w : BOOLEAN, u : BOOLEAN]]]
    BY <1>17, <2>ch, <2>b, <1>perm, PermWrite DEF CowReuse
  <2>2. pc' \in [Proc -> PC] BY <1>17, <1>pc, <1>m, <2>ch DEF CowReuse,
      FaultReturns, PC
  <2>3. tlb' \in [Proc -> [VPage -> Frame \cup {None}]]
    BY <1>17, <1>tlb, <1>m, <2>ch DEF CowReuse, FaultReturns, NoTlb
  <2>4. seen' \in [Proc -> Nat]
    BY <1>17, <1>seen, <1>m, <2>ch DEF CowReuse, FaultReturns
  <2> QED
    BY <2>u, <2>1, <2>2, <2>3, <2>4, <1>parent, <1>sz, <1>frame, <1>freelist,
       <1>refc, <1>data, <1>lock, <1>victim, <1>child, <1>i, <1>lim, <1>cr2,
       <1>panic, <1>scribbled DEF TypeOK
<1>18. ASSUME NEW p \in Proc, CowCopy(p) PROVE TypeOK'
  <2>u. UNCHANGED <<parent, sz, tlb, lock, victim, child, i, lim, cr2, seen,
      scribbled>>
    BY <1>18 DEF CowCopy, Kalloc
  <2>ch. cr2[p] \in VPage BY <1>18, <1>ctl DEF CowCopy, Kalloc, Control
  <2>p. PICK f \in Frame :
          Kalloc(f) /\ data' = [data EXCEPT ![f] = data[frame[p][cr2[p]]]]
                           /\ frame' = [frame EXCEPT ![p][cr2[p]] = f,
                               ![p][Owed] = frame[p][cr2[p]]]
    BY <1>18 DEF CowCopy
  <2>w. Writable \in [w : BOOLEAN, u : BOOLEAN] BY DEF Writable
  <2>o. frame[p][cr2[p]] \in Frame
    BY <1>18, <1>ctl, <1>frame, <2>ch, Slots DEF CowCopy, Control
  <2>1. freelist' \in SUBSET Frame BY <2>p, <1>freelist, <1>refc, KallocTypes
  <2>2. refc' \in [Frame -> Nat] BY <2>p, <1>freelist, <1>refc, KallocTypes
  <2>3. panic' \in Panics \cup {None} BY <2>p, <1>freelist, <1>refc, KallocTypes
  <2>4. data' \in [Frame -> Contents] BY <2>p, <2>o, <1>data
  <2>5. frame' \in [Proc -> [Slot -> Frame \cup {None}]]
    BY <2>p, <2>o, <2>ch, <1>frame, Slots
  <2>6. perm' \in [Proc -> [VPage -> [w : BOOLEAN, u : BOOLEAN]]]
    BY <1>18, <2>ch, <2>w, <1>perm, PermUpdate DEF CowCopy
  <2>7. pc' \in [Proc -> PC] BY <1>18, <1>pc, <1>m, <2>ch DEF CowCopy, Kalloc,
      PC
  <2> QED
    BY <2>u, <2>1, <2>2, <2>3, <2>4, <2>5, <2>6, <2>7, <1>parent, <1>sz, <1>tlb,
       <1>lock, <1>victim, <1>child, <1>i, <1>lim, <1>cr2, <1>seen, <1>scribbled
       DEF TypeOK
<1>19. ASSUME NEW p \in Proc, CowPanics(p) PROVE TypeOK'
  <2>u. UNCHANGED <<pc, parent, sz, frame, perm, tlb, freelist, refc, lock,
      victim, child, i, lim, cr2, seen>>
    BY <1>19 DEF CowPanics, KallocReturnsZero
  <2>1. scribbled' \in BOOLEAN
    BY <1>19, <1>scribbled, <1>m DEF CowPanics, KallocReturnsZero
  <2>2. data' \in [Frame -> Contents]
    BY <1>19, <1>data, <1>m DEF CowPanics, KallocReturnsZero
  <2>3. panic' \in Panics \cup {None}
    BY <1>19, <1>panic, <1>m DEF CowPanics, KallocReturnsZero, Panics
  <2> QED
    BY <2>u, <2>1, <2>2, <2>3, <1>pc, <1>parent, <1>sz, <1>frame, <1>perm,
       <1>tlb, <1>freelist, <1>refc, <1>lock, <1>victim, <1>child, <1>i, <1>lim,
       <1>cr2, <1>seen DEF TypeOK
<1>20. ASSUME NEW p \in Proc, CowDecr(p) PROVE TypeOK'
  <2>u. UNCHANGED <<parent, sz, perm, freelist, data, lock, victim, child, i,
      lim, cr2, scribbled>>
    BY <1>20 DEF CowDecr, FaultReturns
  <2>1. panic' \in Panics \cup {None}
    BY <1>20, <1>panic, <1>m DEF CowDecr, FaultReturns, Panics
  <2>2. refc' \in [Frame -> Nat]
    <3>1. CASE frame[p][Owed] \in Frame BY <1>20, <3>1, <1>refc DEF CowDecr
    <3>2. CASE frame[p][Owed] \notin Frame BY <1>20, <3>2, <1>refc DEF CowDecr
    <3> QED BY <3>1, <3>2
  <2>3. frame' \in [Proc -> [Slot -> Frame \cup {None}]]
    BY <1>20, <1>frame, <1>m DEF CowDecr, FaultReturns
  <2>4. pc' \in [Proc -> PC] BY <1>20, <1>pc, <1>m DEF CowDecr, FaultReturns, PC
  <2>5. tlb' \in [Proc -> [VPage -> Frame \cup {None}]]
    BY <1>20, <1>tlb, <1>m DEF CowDecr, FaultReturns, NoTlb
  <2>6. seen' \in [Proc -> Nat] BY <1>20, <1>seen, <1>m DEF CowDecr,
      FaultReturns
  <2> QED
    BY <2>u, <2>1, <2>2, <2>3, <2>4, <2>5, <2>6, <1>parent, <1>sz, <1>perm,
       <1>freelist, <1>data, <1>lock, <1>victim, <1>child, <1>i, <1>lim, <1>cr2,
       <1>scribbled DEF TypeOK
<1>21. ASSUME NEW p \in Proc, KallocPanics(p) PROVE TypeOK'
  <2>u. UNCHANGED <<pc, parent, sz, frame, perm, tlb, freelist, refc, data,
      lock, victim, child, i, lim, cr2, seen, scribbled>>
    BY <1>21 DEF KallocPanics
  <2>1. panic' \in Panics \cup {None} BY <1>21, <1>panic,
      <1>m DEF KallocPanics, Panics
  <2> QED
    BY <2>u, <2>1, <1>pc, <1>parent, <1>sz, <1>frame, <1>perm, <1>tlb,
       <1>freelist, <1>refc, <1>data, <1>lock, <1>victim, <1>child, <1>i,
       <1>lim, <1>cr2, <1>seen, <1>scribbled DEF TypeOK
<1>22. ASSUME NEW p \in Proc, Exit(p) PROVE TypeOK'
  <2>u. UNCHANGED <<sz, frame, perm, freelist, refc, data, lock, victim, child,
      i, lim, cr2, seen, panic, scribbled>>
    BY <1>22 DEF Exit
  <2>1. parent' \in [Proc -> Proc \cup {None}] BY <1>22, <1>parent,
      <1>m DEF Exit
  <2>2. pc' \in [Proc -> PC] BY <1>22, <1>pc, <1>m DEF Exit, PC
  <2>3. tlb' \in [Proc -> [VPage -> Frame \cup {None}]]
    BY <1>22, <1>tlb, <1>m DEF Exit, NoTlb
  <2> QED
    BY <2>u, <2>1, <2>2, <2>3, <1>sz, <1>frame, <1>perm, <1>freelist, <1>refc,
       <1>data, <1>lock, <1>victim, <1>child, <1>i, <1>lim, <1>cr2, <1>seen,
       <1>panic, <1>scribbled DEF TypeOK
<1>23. ASSUME NEW p \in Proc, Evict(p) PROVE TypeOK'
  <2>u. UNCHANGED <<pc, parent, sz, frame, perm, freelist, refc, data, lock,
      victim, child, i, lim, cr2, seen, panic, scribbled>>
    BY <1>23 DEF Evict
  <2>1. tlb' \in [Proc -> [VPage -> Frame \cup {None}]]
    BY <1>23, <1>tlb, <1>m DEF Evict, NoTlb
  <2> QED
    BY <2>u, <2>1, <1>pc, <1>parent, <1>sz, <1>frame, <1>perm, <1>freelist,
       <1>refc, <1>data, <1>lock, <1>victim, <1>child, <1>i, <1>lim, <1>cr2,
       <1>seen, <1>panic, <1>scribbled DEF TypeOK
<1>24. ASSUME NEW p \in Proc, NEW c \in Proc, Fork(p, c) PROVE TypeOK'
  <2>u. UNCHANGED <<parent, sz, frame, perm, tlb, freelist, refc, data, lock,
      victim, i, lim, cr2, seen, panic, scribbled>>
    BY <1>24 DEF Fork
  <2>1. pc' \in [Proc -> PC] BY <1>24, <1>pc, <1>m DEF Fork, PC
  <2>2. child' \in [Proc -> Proc \cup {None}] BY <1>24, <1>child, <1>m DEF Fork
  <2> QED
    BY <2>u, <2>1, <2>2, <1>parent, <1>sz, <1>frame, <1>perm, <1>tlb,
       <1>freelist, <1>refc, <1>data, <1>lock, <1>victim, <1>i, <1>lim, <1>cr2,
       <1>seen, <1>panic, <1>scribbled DEF TypeOK
<1>25. ASSUME NEW p \in Proc, NEW c \in Proc, Wait(p, c) PROVE TypeOK'
  <2>u. UNCHANGED <<parent, sz, frame, perm, tlb, freelist, refc, data, lock,
      victim, i, lim, cr2, seen, panic, scribbled>>
    BY <1>25 DEF Wait
  <2>1. pc' \in [Proc -> PC] BY <1>25, <1>pc, <1>m DEF Wait, PC
  <2>2. child' \in [Proc -> Proc \cup {None}] BY <1>25, <1>child, <1>m DEF Wait
  <2> QED
    BY <2>u, <2>1, <2>2, <1>parent, <1>sz, <1>frame, <1>perm, <1>tlb,
       <1>freelist, <1>refc, <1>data, <1>lock, <1>victim, <1>i, <1>lim, <1>cr2,
       <1>seen, <1>panic, <1>scribbled DEF TypeOK
<1>26. ASSUME NEW p \in Proc, NEW n \in 1 .. MaxSz, Grow(p, n) PROVE TypeOK'
  <2>u. UNCHANGED <<parent, sz, frame, perm, tlb, freelist, refc, data, lock,
      victim, child, cr2, seen, panic, scribbled>>
    BY <1>26 DEF Grow
  <2>1. pc' \in [Proc -> PC] BY <1>26, <1>pc, <1>m DEF Grow, PC
  <2>2. i' \in [Proc -> 0 .. MaxSz] BY <1>26, <1>i, <1>sz DEF Grow
  <2>3. lim' \in [Proc -> 0 .. MaxSz] BY <1>26, <1>lim, <1>m DEF Grow
  <2> QED
    BY <2>u, <2>1, <2>2, <2>3, <1>parent, <1>sz, <1>frame, <1>perm, <1>tlb,
       <1>freelist, <1>refc, <1>data, <1>lock, <1>victim, <1>child, <1>cr2,
       <1>seen, <1>panic, <1>scribbled DEF TypeOK
<1>27. ASSUME NEW p \in Proc, NEW n \in MinSz .. MaxSz, Shrink(p, n)
    PROVE TypeOK'
  <2>u. UNCHANGED <<parent, sz, frame, perm, tlb, freelist, refc, data, lock,
      victim, child, i, cr2, seen, panic, scribbled>>
    BY <1>27 DEF Shrink
  <2>1. pc' \in [Proc -> PC] BY <1>27, <1>pc, <1>m DEF Shrink, PC
  <2>2. lim' \in [Proc -> 0 .. MaxSz] BY <1>27, <1>lim, <1>n, <1>m DEF Shrink
  <2> QED
    BY <2>u, <2>1, <2>2, <1>parent, <1>sz, <1>frame, <1>perm, <1>tlb,
       <1>freelist, <1>refc, <1>data, <1>lock, <1>victim, <1>child, <1>i,
       <1>cr2, <1>seen, <1>panic, <1>scribbled DEF TypeOK
<1>28. ASSUME NEW p \in Proc, NEW v \in VPage, FaultAbsent(p, v) PROVE TypeOK'
  <2>u. UNCHANGED <<pc, parent, sz, frame, perm, tlb, freelist, refc, data,
      lock, victim, child, i, lim, cr2, seen, scribbled>>
    BY <1>28 DEF FaultAbsent
  <2>1. panic' \in Panics \cup {None} BY <1>28, <1>panic, <1>m DEF FaultAbsent,
      Panics
  <2> QED
    BY <2>u, <2>1, <1>pc, <1>parent, <1>sz, <1>frame, <1>perm, <1>tlb,
       <1>freelist, <1>refc, <1>data, <1>lock, <1>victim, <1>child, <1>i,
       <1>lim, <1>cr2, <1>seen, <1>scribbled DEF TypeOK
<1>29. ASSUME NEW p \in Proc, NEW v \in VPage, Fault(p, v) PROVE TypeOK'
  <2>u. UNCHANGED <<parent, sz, frame, perm, tlb, freelist, refc, data, lock,
      victim, child, i, lim, panic, scribbled>>
    BY <1>29 DEF Fault
  <2>f. frame[p][v] \in Frame BY <1>29, <1>frame, Slots DEF Fault
  <2>1. pc' \in [Proc -> PC] BY <1>29, <1>pc, <1>m DEF Fault, PC
  <2>2. cr2' \in [Proc -> VPage \cup {None}] BY <1>29, <1>cr2, <1>m DEF Fault
  <2>3. seen' \in [Proc -> Nat] BY <1>29, <2>f, <1>seen, <1>refc DEF Fault
  <2> QED
    BY <2>u, <2>1, <2>2, <2>3, <1>parent, <1>sz, <1>frame, <1>perm, <1>tlb,
       <1>freelist, <1>refc, <1>data, <1>lock, <1>victim, <1>child, <1>i,
       <1>lim, <1>panic, <1>scribbled DEF TypeOK
<1>30. ASSUME NEW p \in Proc, NEW v \in VPage, NEW x \in Val, Store(p, v,
    x) PROVE TypeOK'
  <2>u. UNCHANGED <<pc, parent, sz, frame, perm, freelist, refc, lock, victim,
      child, i, lim, seen, panic, scribbled>>
    BY <1>30 DEF Store
  <2>t. Target(p, v) \in Frame 
    <3>1. frame[p][v] \in Frame \cup {None} /\ tlb[p][v] \in Frame \cup {None}
      BY <1>30, <1>frame, <1>tlb, Slots
    <3> QED BY <1>30, <3>1 DEF Store, Target, Permitted
  <2>1. data' \in [Frame -> Contents] BY <1>30, <1>data, <2>t,
      PageContents DEF Store
  <2>2. tlb' \in [Proc -> [VPage -> Frame \cup {None}]] BY <1>30, <1>tlb,
      <2>t DEF Store
  <2>3. cr2' \in [Proc -> VPage \cup {None}] BY <1>30, <1>cr2 DEF Store
  <2> QED
    BY <2>u, <2>1, <2>2, <2>3, <1>pc, <1>parent, <1>sz, <1>frame, <1>perm,
       <1>freelist, <1>refc, <1>lock, <1>victim, <1>child, <1>i, <1>lim,
       <1>seen, <1>panic, <1>scribbled DEF TypeOK
<1>31. CASE UNCHANGED vars
  BY <1>31 DEF vars, TypeOK, TypeInv
<1> QED
  BY <1>1, <1>2, <1>3, <1>4, <1>5, <1>6, <1>7, <1>8, <1>9, <1>10, <1>11, <1>12,
     <1>13, <1>14, <1>15, <1>16, <1>17, <1>18, <1>19, <1>20, <1>21, <1>22,
     <1>23, <1>24, <1>25, <1>26, <1>27, <1>28, <1>29, <1>30, <1>31 DEF Next,
     Kernel, User, Access

\* Every step keeps the coupling of program counters and registers.
LEMMA ControlStep == TypeInv /\ [Next]_vars => Control'
<1> SUFFICES ASSUME TypeInv, [Next]_vars PROVE Control'
  OBVIOUS
<1>ctl. Control BY DEF TypeInv
<1>t. /\ pc \in [Proc -> PC] /\ child \in [Proc -> Proc \cup {None}]
      /\ frame \in [Proc -> [Slot -> Frame \cup {None}]]
      /\ cr2 \in [Proc -> VPage \cup {None}]
  BY DEF TypeInv, TypeOK
<1>m. None \notin Frame /\ None \notin Proc
  BY ConstantsOK DEF ConstantsOK
<1>1. ASSUME NEW p \in Proc, AllocStack(p) PROVE Control'
  BY <1>1, <1>ctl, <1>t, <1>m DEF AllocStack, AllocForChild, Control, Building
<1>2. ASSUME NEW p \in Proc, NoStack(p) PROVE Control'
  BY <1>2, <1>ctl, <1>t, <1>m DEF NoStack, Control, Building
<1>3. ASSUME NEW p \in Proc, SetupKvm(p) PROVE Control'
  BY <1>3, <1>ctl, <1>t, <1>m DEF SetupKvm, AllocForChild, Control, Building
<1>4. ASSUME NEW p \in Proc, CopyPgTab(p) PROVE Control'
  BY <1>4, <1>ctl, <1>t, <1>m DEF CopyPgTab, AllocForChild, Control, Building
<1>5. ASSUME NEW p \in Proc, CopyFails(p) PROVE Control'
  BY <1>5, <1>ctl, <1>t, <1>m DEF CopyFails, Control, Building
<1>6. ASSUME NEW p \in Proc, CopyPage(p) PROVE Control'
  BY <1>6, <1>ctl, <1>t, <1>m DEF CopyPage, Control, Building
<1>7. ASSUME NEW p \in Proc, ForkReturns(p) PROVE Control'
  BY <1>7, <1>ctl, <1>t, <1>m DEF ForkReturns, Control, Building
<1>8. ASSUME NEW p \in Proc, GrowPage(p) PROVE Control'
  BY <1>8, <1>ctl, <1>t, <1>m DEF GrowPage, Control, Building
<1>9. ASSUME NEW p \in Proc, GrowFails(p) PROVE Control'
  BY <1>9, <1>ctl, <1>t, <1>m DEF GrowFails, Control, Building
<1>10. ASSUME NEW p \in Proc, GrowDone(p) PROVE Control'
  BY <1>10, <1>ctl, <1>t, <1>m DEF GrowDone, GrowprocReturns, Control, Building
<1>11. ASSUME NEW p \in Proc, KfreeDecr(p) PROVE Control'
  <2>1. PICK s \in Doomed(p) : /\ victim' = frame[Owner(p)][s]
                              /\ frame' = [frame EXCEPT ![Owner(p)][s] = None]
    BY <1>11 DEF KfreeDecr
  <2>2. Owner(p) \in Proc /\ frame[Owner(p)][s] \in Frame
    BY <1>ctl, <1>t, DoomedHeld DEF TypeInv, TypeOK
  <2>3. pc[Owner(p)] # "cow"
    BY <1>ctl DEF Doomed, Owner, Control, Building
  <2>4. UNCHANGED <<pc, child, cr2>> BY <1>11 DEF KfreeDecr
  <2> QED BY <2>1, <2>2, <2>3, <2>4, <1>ctl, <1>t DEF Control
<1>12. ASSUME NEW p \in Proc, KfreePush(p) PROVE Control'
  BY <1>12, <1>ctl, <1>t, <1>m DEF KfreePush, Control, Building
<1>13. ASSUME NEW p \in Proc, GrowUndone(p) PROVE Control'
  BY <1>13, <1>ctl, <1>t, <1>m DEF GrowUndone, GrowprocReturns, Control,
      Building
<1>14. ASSUME NEW p \in Proc, ShrinkDone(p) PROVE Control'
  BY <1>14, <1>ctl, <1>t, <1>m DEF ShrinkDone, GrowprocReturns, Control,
      Building
<1>15. ASSUME NEW p \in Proc, SlotReleased(p) PROVE Control'
  BY <1>15, <1>ctl, <1>t, <1>m DEF SlotReleased, Control, Building
<1>16. ASSUME NEW p \in Proc, CowReuse(p) PROVE Control'
  BY <1>16, <1>ctl, <1>t, <1>m DEF CowReuse, FaultReturns, Control, Building
<1>17. ASSUME NEW p \in Proc, CowCopy(p) PROVE Control'
  BY <1>17, <1>ctl, <1>t, <1>m DEF CowCopy, Control, Building
<1>18. ASSUME NEW p \in Proc, CowDecr(p) PROVE Control'
  BY <1>18, <1>ctl, <1>t, <1>m DEF CowDecr, FaultReturns, Control, Building
<1>19. ASSUME NEW p \in Proc, Exit(p) PROVE Control'
  BY <1>19, <1>ctl, <1>t, <1>m DEF Exit, Control, Building
<1>20. ASSUME NEW p \in Proc, NEW c \in Proc, Fork(p, c) PROVE Control'
  BY <1>20, <1>ctl, <1>t, <1>m DEF Fork, Control, Building
<1>21. ASSUME NEW p \in Proc, NEW c \in Proc, Wait(p, c) PROVE Control'
  BY <1>21, <1>ctl, <1>t, <1>m DEF Wait, HoldsPtable, Control, Building
<1>22. ASSUME NEW p \in Proc, NEW n \in 1 .. MaxSz, Grow(p, n) PROVE Control'
  BY <1>22, <1>ctl, <1>t, <1>m DEF Grow, Control, Building
<1>23. ASSUME NEW p \in Proc, NEW n \in MinSz .. MaxSz, Shrink(p, n)
    PROVE Control'
  BY <1>23, <1>ctl, <1>t, <1>m DEF Shrink, Control, Building
<1>24. ASSUME NEW p \in Proc, NEW v \in VPage, Fault(p, v) PROVE Control'
  BY <1>24, <1>ctl, <1>t, <1>m DEF Fault, Control, Building
<1>25. ASSUME UNCHANGED <<pc, child, lock, victim, cr2, frame>> PROVE Control'
  BY <1>25, <1>ctl DEF Control
<1>26. ASSUME NEW p \in Proc, NEW v \in VPage, NEW x \in Val, Store(p, v,
    x) PROVE Control'
  BY <1>26, <1>ctl, <1>t DEF Store, Control
<1> QED
  BY <1>1, <1>2, <1>3, <1>4, <1>5, <1>6, <1>7, <1>8, <1>9, <1>10, <1>11, <1>12,
     <1>13, <1>14, <1>15, <1>16, <1>17, <1>18, <1>19, <1>20, <1>21, <1>22,
     <1>23, <1>24, <1>25, <1>26 DEF Next, Kernel, User, Access, vars,
     CopyPanics, CowPanics, KallocPanics, Evict, FaultAbsent

Empty(q, S) == \A s \in S : frame[q][s] = None
Above(n) == {v \in VPage : v >= n}
AtSize == {"user", "allocproc", "setupkvm", "copy", "freevm", "reap", "cow",
           "owed", "shrink"}

\* Slots that are filled next are empty: those of an unused slot of the
\* process table, those a fork has not reached, and those above the size.
SlotInv ==
    \A p \in Proc :
        /\ pc[p] = "unused" => Empty(p, Slot)
        /\ pc[p] # "owed" => frame[p][Owed] = None
        /\ pc[p] = "allocproc" => Empty(child[p], Slot)
        /\ pc[p] = "setupkvm" => Empty(child[p], Slot \ {KStack})
        /\ pc[p] = "copy" => Empty(child[p], Above(i[p]))
        /\ pc[p] \in AtSize => Empty(p, Above(sz[p]))
        /\ pc[p] = "grow" => Empty(p, Above(i[p]))

\* Every step keeps the empty slots empty.
LEMMA SlotStep == TypeInv /\ SlotInv /\ [Next]_vars => SlotInv'
<1> SUFFICES ASSUME TypeInv, SlotInv, [Next]_vars PROVE SlotInv'
  OBVIOUS
<1>ctl. Control BY DEF TypeInv
<1>s. SlotInv OBVIOUS
<1>t. /\ pc \in [Proc -> PC] /\ child \in [Proc -> Proc \cup {None}]
      /\ frame \in [Proc -> [Slot -> Frame \cup {None}]]
      /\ i \in [Proc -> 0 .. MaxSz] /\ lim \in [Proc -> 0 .. MaxSz]
      /\ sz \in [Proc -> 0 .. MaxSz]
  BY DEF TypeInv, TypeOK
<1>m. None \notin Frame /\ None \notin Proc
  BY ConstantsOK DEF ConstantsOK
<1>n. \A n \in 0 .. MaxSz : n \in Int
  OBVIOUS
<1>v. \A v \in VPage : v \in Int
  BY DEF VPage
<1>1. ASSUME NEW p \in Proc, AllocStack(p) PROVE SlotInv'
  BY <1>1, <1>ctl, <1>s, <1>t, <1>m, <1>n, <1>v, Slots DEF AllocStack,
     AllocForChild, SlotInv, Empty, Above, AtSize, Control, Building
<1>2. ASSUME NEW p \in Proc, NoStack(p) PROVE SlotInv'
  BY <1>2, <1>ctl, <1>s, <1>t, <1>m, <1>n, <1>v, Slots DEF NoStack, SlotInv,
     Empty, Above, AtSize, Control, Building
<1>3. ASSUME NEW p \in Proc, SetupKvm(p) PROVE SlotInv'
  BY <1>3, <1>ctl, <1>s, <1>t, <1>m, <1>n, <1>v, Slots DEF SetupKvm,
     AllocForChild, SlotInv, Empty, Above, AtSize, Control, Building
<1>4. ASSUME NEW p \in Proc, CopyPgTab(p) PROVE SlotInv'
  BY <1>4, <1>ctl, <1>s, <1>t, <1>m, <1>n, <1>v, Slots DEF CopyPgTab,
     AllocForChild, SlotInv, Empty, Above, AtSize, Control, Building
<1>5. ASSUME NEW p \in Proc, CopyFails(p) PROVE SlotInv'
  BY <1>5, <1>ctl, <1>s, <1>t, <1>m, <1>n, <1>v, Slots DEF CopyFails, SlotInv,
     Empty, Above, AtSize, Control, Building
<1>6. ASSUME NEW p \in Proc, CopyPage(p) PROVE SlotInv'
  BY <1>6, <1>ctl, <1>s, <1>t, <1>m, <1>n, <1>v, Slots DEF CopyPage, SlotInv,
     Empty, Above, AtSize, Control, Building
<1>7. ASSUME NEW p \in Proc, ForkReturns(p) PROVE SlotInv'
  BY <1>7, <1>ctl, <1>s, <1>t, <1>m, <1>n, <1>v, Slots DEF ForkReturns, SlotInv,
     Empty, Above, AtSize, Control, Building
<1>8. ASSUME NEW p \in Proc, GrowPage(p) PROVE SlotInv'
  <2>1. PICK f \in Frame : frame' = [frame EXCEPT ![p][i[p]] = f]
    BY <1>8 DEF GrowPage
  <2>2. i' = [i EXCEPT ![p] = i[p] + 1] /\ UNCHANGED <<pc, child,
      sz>> /\ pc[p] = "grow"
    BY <1>8 DEF GrowPage
  <2>3. i[p] \in VPage BY <1>8, <1>t, Below DEF GrowPage
  <2>4. i[p] \in Slot /\ i[p] # Owed BY <2>3, Slots
  <2>5. Above(i[p] + 1) \subseteq Above(i[p]) \ {i[p]} BY <2>3, <1>v DEF Above
  <2>6. \A q \in Proc \ {p} : frame'[q] = frame[q] /\ i'[q] = i[q] BY <2>1,
      <2>2, <1>t
  <2>7. \A s \in Slot \ {i[p]} : frame'[p][s] = frame[p][s] BY <2>1, <1>t
  <2>8. Empty(p, Above(i[p])) /\ frame[p][Owed] = None BY <2>2, <1>s DEF SlotInv
  <2>9. \A v \in Above(i[p] + 1) : frame'[p][v] = None
    BY <2>5, <2>7, <2>8, Slots DEF Empty, Above
  <2>10. \A q \in Proc : pc[q] \in Building => child[q] # p BY <2>2,
      <1>ctl DEF Control
  <2>11. i'[p] = i[p] + 1 BY <2>2, <1>t
  <2>12. frame'[p][Owed] = None BY <2>7, <2>4, <2>8, Slots
  <2> SUFFICES ASSUME NEW q \in Proc PROVE
        /\ pc[q] = "unused" => \A s \in Slot : frame'[q][s] = None
        /\ pc[q] # "owed" => frame'[q][Owed] = None
        /\ pc[q] = "allocproc" => \A s \in Slot : frame'[child[q]][s] = None
        /\ pc[q] = "setupkvm" => \A s \in Slot \ {KStack} : frame'[child[q]][s] = None
        /\ pc[q] = "copy" => \A s \in Above(i'[q]) : frame'[child[q]][s] = None
        /\ pc[q] \in AtSize => \A s \in Above(sz[q]) : frame'[q][s] = None
        /\ pc[q] = "grow" => \A s \in Above(i'[q]) : frame'[q][s] = None
    BY <2>2 DEF SlotInv, Empty
  <2>13. CASE q = p BY <2>13, <2>2, <2>9, <2>11, <2>12 DEF AtSize
  <2>14. CASE q # p
    <3>1. pc[q] \in Building => child[q] \in Proc \ {p} BY <1>ctl,
        <2>10 DEF Control
    <3>2. pc[q] \in Building => frame'[child[q]] = frame[child[q]] BY <3>1, <2>6
    <3> QED BY <2>14, <3>2, <2>6, <1>s DEF SlotInv, Empty, Building
  <2> QED BY <2>13, <2>14
<1>9. ASSUME NEW p \in Proc, GrowFails(p) PROVE SlotInv'
  BY <1>9, <1>ctl, <1>s, <1>t, <1>m, <1>n, <1>v, Slots DEF GrowFails, SlotInv,
     Empty, Above, AtSize, Control, Building
<1>10. ASSUME NEW p \in Proc, GrowDone(p) PROVE SlotInv'
  BY <1>10, <1>ctl, <1>s, <1>t, <1>m, <1>n, <1>v, Slots DEF GrowDone,
     GrowprocReturns, SlotInv, Empty, Above, AtSize, Control, Building
<1>11. ASSUME NEW p \in Proc, KfreeDecr(p) PROVE SlotInv'
  <2>1. PICK s \in Doomed(p) : frame' = [frame EXCEPT ![Owner(p)][s] = None]
    BY <1>11 DEF KfreeDecr
  <2>2. Owner(p) \in Proc BY <1>ctl, <1>t, DoomedHeld
  <2>3. UNCHANGED <<pc, child, sz, i>> BY <1>11 DEF KfreeDecr
  <2> QED BY <2>1, <2>2, <2>3, <1>s, <1>t DEF SlotInv, Empty, Above
<1>12. ASSUME NEW p \in Proc, GrowUndone(p) PROVE SlotInv'
  <2>1. Empty(p, Above(sz[p]))
    BY <1>12, <1>t, ConstantsOK DEF GrowUndone, GrowprocReturns, Released,
       Doomed, Held, Empty, Above, VPage, ConstantsOK
  <2>2. \A s \in Above(sz'[p]) : frame[p][s] = None
    <3>1. sz'[p] = sz[p] \/ (sz'[p] = sz[p] /\ pc[p] = "shrink")
      BY <1>12, <1>t DEF GrowUndone, GrowprocReturns
    <3> QED BY <2>1, <3>1, <1>s DEF SlotInv, Empty, AtSize
  <2>3. /\ pc' = [pc EXCEPT ![p] = "user"] /\ UNCHANGED <<frame, child>>
        /\ \A q \in Proc \ {p} : i'[q] = i[q] /\ sz'[q] = sz[q]
        /\ pc[p] \in {"undo", "shrink"}
    BY <1>12, <1>t DEF GrowUndone, GrowprocReturns
  <2>4. /\ pc'[p] = "user" /\ frame[p][Owed] = None
        /\ \A q \in Proc \ {p} : pc'[q] = pc[q]
    BY <2>3, <1>s, <1>t DEF SlotInv
  <2> SUFFICES ASSUME NEW q \in Proc PROVE
        /\ pc'[q] = "unused" => \A s \in Slot : frame[q][s] = None
        /\ pc'[q] # "owed" => frame[q][Owed] = None
        /\ pc'[q] = "allocproc" => \A s \in Slot : frame[child[q]][s] = None
        /\ pc'[q] = "setupkvm" => \A s \in Slot \ {KStack} : frame[child[q]][s] = None
        /\ pc'[q] = "copy" => \A s \in Above(i'[q]) : frame[child[q]][s] = None
        /\ pc'[q] \in AtSize => \A s \in Above(sz'[q]) : frame[q][s] = None
        /\ pc'[q] = "grow" => \A s \in Above(i'[q]) : frame[q][s] = None
    BY <2>3 DEF SlotInv, Empty
  <2>5. CASE q = p BY <2>5, <2>2, <2>4 DEF AtSize
  <2>6. CASE q # p BY <2>6, <2>3, <2>4, <1>s DEF SlotInv, Empty
  <2> QED BY <2>5, <2>6
<1>13. ASSUME NEW p \in Proc, ShrinkDone(p) PROVE SlotInv'
  <2>1. Empty(p, Above(lim[p]))
    BY <1>13, <1>t, ConstantsOK DEF ShrinkDone, GrowprocReturns, Released,
       Doomed, Held, Empty, Above, VPage, ConstantsOK
  <2>2. \A s \in Above(sz'[p]) : frame[p][s] = None
    <3>1. sz'[p] = lim[p] \/ (sz'[p] = sz[p] /\ pc[p] = "shrink")
      BY <1>13, <1>t DEF ShrinkDone, GrowprocReturns
    <3> QED BY <2>1, <3>1, <1>s DEF SlotInv, Empty, AtSize
  <2>3. /\ pc' = [pc EXCEPT ![p] = "user"] /\ UNCHANGED <<frame, child>>
        /\ \A q \in Proc \ {p} : i'[q] = i[q] /\ sz'[q] = sz[q]
        /\ pc[p] \in {"undo", "shrink"}
    BY <1>13, <1>t DEF ShrinkDone, GrowprocReturns
  <2>4. /\ pc'[p] = "user" /\ frame[p][Owed] = None
        /\ \A q \in Proc \ {p} : pc'[q] = pc[q]
    BY <2>3, <1>s, <1>t DEF SlotInv
  <2> SUFFICES ASSUME NEW q \in Proc PROVE
        /\ pc'[q] = "unused" => \A s \in Slot : frame[q][s] = None
        /\ pc'[q] # "owed" => frame[q][Owed] = None
        /\ pc'[q] = "allocproc" => \A s \in Slot : frame[child[q]][s] = None
        /\ pc'[q] = "setupkvm" => \A s \in Slot \ {KStack} : frame[child[q]][s] = None
        /\ pc'[q] = "copy" => \A s \in Above(i'[q]) : frame[child[q]][s] = None
        /\ pc'[q] \in AtSize => \A s \in Above(sz'[q]) : frame[q][s] = None
        /\ pc'[q] = "grow" => \A s \in Above(i'[q]) : frame[q][s] = None
    BY <2>3 DEF SlotInv, Empty
  <2>5. CASE q = p BY <2>5, <2>2, <2>4 DEF AtSize
  <2>6. CASE q # p BY <2>6, <2>3, <2>4, <1>s DEF SlotInv, Empty
  <2> QED BY <2>5, <2>6
<1>14. ASSUME NEW p \in Proc, SlotReleased(p) PROVE SlotInv'
  BY <1>14, <1>ctl, <1>s, <1>t, <1>m, <1>n, <1>v, Slots DEF SlotReleased,
     Released, Doomed, Held, SlotInv, Empty, Above, AtSize, Control, Building
<1>15. ASSUME NEW p \in Proc, CowReuse(p) PROVE SlotInv'
  BY <1>15, <1>ctl, <1>s, <1>t, <1>m, <1>n, <1>v, Slots DEF CowReuse,
     FaultReturns, SlotInv, Empty, Above, AtSize, Control, Building
<1>16. ASSUME NEW p \in Proc, CowCopy(p) PROVE SlotInv'
  BY <1>16, <1>ctl, <1>s, <1>t, <1>m, <1>n, <1>v, Slots DEF CowCopy, SlotInv,
     Empty, Above, AtSize, Control, Building
<1>17. ASSUME NEW p \in Proc, CowDecr(p) PROVE SlotInv'
  BY <1>17, <1>ctl, <1>s, <1>t, <1>m, <1>n, <1>v, Slots DEF CowDecr,
     FaultReturns, SlotInv, Empty, Above, AtSize, Control, Building
<1>18. ASSUME NEW p \in Proc, Exit(p) PROVE SlotInv'
  BY <1>18, <1>ctl, <1>s, <1>t, <1>m, <1>n, <1>v, Slots DEF Exit, SlotInv,
     Empty, Above, AtSize, Control, Building
<1>19. ASSUME NEW p \in Proc, NEW c \in Proc, Fork(p, c) PROVE SlotInv'
  BY <1>19, <1>ctl, <1>s, <1>t, <1>m, <1>n, <1>v, Slots DEF Fork, SlotInv,
     Empty, Above, AtSize, Control, Building
<1>20. ASSUME NEW p \in Proc, NEW c \in Proc, Wait(p, c) PROVE SlotInv'
  BY <1>20, <1>ctl, <1>s, <1>t, <1>m, <1>n, <1>v, Slots DEF Wait, SlotInv,
     Empty, Above, AtSize, Control, Building
<1>21. ASSUME NEW p \in Proc, NEW n \in 1 .. MaxSz, Grow(p, n) PROVE SlotInv'
  BY <1>21, <1>ctl, <1>s, <1>t, <1>m, <1>n, <1>v, Slots DEF Grow, SlotInv,
     Empty, Above, AtSize, Control, Building
<1>22. ASSUME NEW p \in Proc, NEW n \in MinSz .. MaxSz, Shrink(p, n)
    PROVE SlotInv'
  BY <1>22, <1>ctl, <1>s, <1>t, <1>m, <1>n, <1>v, Slots DEF Shrink, SlotInv,
     Empty, Above, AtSize, Control, Building
<1>23. ASSUME NEW p \in Proc, NEW v \in VPage, Fault(p, v) PROVE SlotInv'
  BY <1>23, <1>ctl, <1>s, <1>t, <1>m, <1>n, <1>v, Slots DEF Fault, SlotInv,
     Empty, Above, AtSize, Control, Building
<1>24. ASSUME UNCHANGED <<pc, child, frame, sz, i>> PROVE SlotInv'
  BY <1>24, <1>s DEF SlotInv, Empty, Above
<1> QED
  BY <1>1, <1>2, <1>3, <1>4, <1>5, <1>6, <1>7, <1>8, <1>9, <1>10, <1>11, <1>12,
     <1>13, <1>14, <1>15, <1>16, <1>17, <1>18, <1>19, <1>20, <1>21, <1>22,
     <1>23, <1>24, ZenonT(60) DEF Next, Kernel, User, Access, vars,
     CopyPanics, CowPanics, KallocPanics, Evict, FaultAbsent, KfreePush, Store

\* Page tables as values, so that a step can be taken apart into updates.
Maps == [Proc -> [Slot -> Frame \cup {None}]]
Put(g, q, s, f) == [g EXCEPT ![q][s] = f]
HoldersIn(g, f) == {t \in Proc \X Slot : g[t[1]][t[2]] = f}

\* Finitely many slots refer to a page.
LEMMA HoldersFinite == ASSUME NEW g, NEW f PROVE IsFiniteSet(HoldersIn(g, f))
<1>0. MaxSz + 2 \in Int /\ -1 \in Int BY ConstantsOK DEF ConstantsOK
<1>1. IsFiniteSet(Slot)
  <2> DEFINE n == MaxSz + 2
  <2>1. IsFiniteSet((-1) .. n) BY <1>0, FS_Interval
  <2> QED BY <2>1 DEF Slot
<1>2. IsFiniteSet(Proc \X Slot)
  BY <1>1, ConstantsOK, FS_Product DEF ConstantsOK
<1> QED BY <1>2, FS_Subset DEF HoldersIn

\* Filling an empty slot gives the page one holder more, the others none.
LEMMA Fill ==
    ASSUME NEW g \in Maps,
           NEW q \in Proc, NEW s \in Slot, NEW f \in Frame, g[q][s] = None
    PROVE  LET h == Put(g, q, s, f) IN
           /\ h \in Maps
           /\ Cardinality(HoldersIn(h, f)) = Cardinality(HoldersIn(g, f)) + 1
           /\ \A e \in Frame \ {f} : HoldersIn(h, e) = HoldersIn(g, e)
<1> USE DEF Maps, Put
<1> DEFINE h == Put(g, q, s, f)
<1>m. None \notin Frame
  BY ConstantsOK DEF ConstantsOK
<1>1. HoldersIn(h, f) = HoldersIn(g, f) \cup {<<q, s>>}
  BY <1>m DEF HoldersIn
<1>2. <<q, s>> \notin HoldersIn(g, f)
  BY <1>m DEF HoldersIn
<1>3. Cardinality(HoldersIn(h, f)) = Cardinality(HoldersIn(g, f)) + 1
  BY <1>1, <1>2, HoldersFinite, FS_AddElement
<1>4. \A e \in Frame \ {f} : HoldersIn(h, e) = HoldersIn(g, e)
  BY <1>m DEF HoldersIn
<1>5. h \in Maps
  OBVIOUS
<1> QED BY <1>3, <1>4, <1>5

\* Clearing a slot takes one holder from the page, and none from the others.
LEMMA Clear ==
    ASSUME NEW g \in Maps,
           NEW q \in Proc, NEW s \in Slot, NEW f \in Frame, g[q][s] = f
    PROVE  LET h == Put(g, q, s, None) IN
           /\ h \in Maps
           /\ Cardinality(HoldersIn(g, f)) > 0
           /\ Cardinality(HoldersIn(h, f)) = Cardinality(HoldersIn(g, f)) - 1
           /\ \A e \in Frame \ {f} : HoldersIn(h, e) = HoldersIn(g, e)
<1> USE DEF Maps, Put
<1> DEFINE h == Put(g, q, s, None)
<1>m. None \notin Frame
  BY ConstantsOK DEF ConstantsOK
<1>1. HoldersIn(h, f) = HoldersIn(g, f) \ {<<q, s>>}
  BY <1>m DEF HoldersIn
<1>2. <<q, s>> \in HoldersIn(g, f)
  BY <1>m DEF HoldersIn
<1>3. Cardinality(HoldersIn(h, f)) = Cardinality(HoldersIn(g, f)) - 1
  BY <1>1, <1>2, HoldersFinite, FS_RemoveElement
<1>4. Cardinality(HoldersIn(h, f)) \in Nat
  BY HoldersFinite, FS_CardinalityType
<1>5. Cardinality(HoldersIn(g, f)) \in Nat
  BY HoldersFinite, FS_CardinalityType
<1>6. \A e \in Frame \ {f} : HoldersIn(h, e) = HoldersIn(g, e)
  BY <1>m DEF HoldersIn
<1>7. h \in Maps
  OBVIOUS
<1> HIDE DEF h
<1>8. Cardinality(HoldersIn(g, f)) > 0
  BY <1>3, <1>4, <1>5
<1> QED BY <1>3, <1>6, <1>7, <1>8 DEF h

\* The counts are the cardinalities, and a free page counts 0.
RefInv ==
    /\ \A f \in Frame : refc[f] = Cardinality(HoldersIn(frame, f))
    /\ \A f \in freelist : refc[f] = 0

\* kalloc into an empty slot keeps the counts exact.
LEMMA KallocRef ==
    ASSUME TypeOK, RefInv, NEW f, Kalloc(f),
           NEW q \in Proc, NEW s \in Slot, frame[q][s] = None,
           frame' = [frame EXCEPT ![q][s] = f]
    PROVE  RefInv'
<1>t. /\ frame \in Maps /\ frame \in [Proc -> [Slot -> Frame \cup {None}]]
      /\ freelist \in SUBSET Frame /\ refc \in [Frame -> Nat]
  BY DEF TypeOK, Maps
<1>1. /\ f \in Frame /\ freelist' = freelist \ {f}
      /\ refc' = [refc EXCEPT ![f] = refc[f] + 1]
  BY <1>t DEF Kalloc
<1>p. frame' = Put(frame, q, s, f)
  BY DEF Put
<1>2. /\ Cardinality(HoldersIn(frame', f)) = Cardinality(HoldersIn(frame, f)) + 1
      /\ \A e \in Frame \ {f} : HoldersIn(frame', e) = HoldersIn(frame, e)
  <2>1. f \in Frame /\ frame \in Maps BY <1>t, <1>1
  <2>2. LET h == Put(frame, q, s, f)
        IN  /\ Cardinality(HoldersIn(h, f)) = Cardinality(HoldersIn(frame, f)) + 1
            /\ \A e \in Frame \ {f} : HoldersIn(h, e) = HoldersIn(frame, e)
    BY <2>1, Fill
  <2> QED BY <2>2, <1>p
<1> QED BY <1>1, <1>2, <1>t DEF RefInv

\* Every step keeps the counts exact.
LEMMA RefStep == TypeInv /\ SlotInv /\ RefInv /\ [Next]_vars => RefInv'
<1> SUFFICES ASSUME TypeInv, SlotInv, RefInv, [Next]_vars PROVE RefInv'
  OBVIOUS
<1>ctl. Control /\ TypeOK BY DEF TypeInv
<1>t. /\ pc \in [Proc -> PC] /\ child \in [Proc -> Proc \cup {None}]
      /\ frame \in Maps /\ frame \in [Proc -> [Slot -> Frame \cup {None}]]
      /\ i \in [Proc -> 0 .. MaxSz] /\ lim \in [Proc -> 0 .. MaxSz]
      /\ sz \in [Proc -> 0 .. MaxSz] /\ refc \in [Frame -> Nat]
      /\ freelist \in SUBSET Frame /\ cr2 \in [Proc -> VPage \cup {None}]
  BY DEF TypeInv, TypeOK, Maps
<1>m. None \notin Frame /\ None \notin Proc
  BY ConstantsOK DEF ConstantsOK
<1>v. \A v \in VPage : v \in Int
  BY DEF VPage
<1>1. ASSUME NEW p \in Proc, AllocStack(p) PROVE RefInv'
  <2>1. PICK f \in Frame : Kalloc(f) /\ frame' = [frame EXCEPT ![child[p]][KStack] = f]
    BY <1>1 DEF AllocStack, AllocForChild
  <2>2. child[p] \in Proc /\ frame[child[p]][KStack] = None
    BY <1>1, <1>ctl, Slots DEF AllocStack, Control, Building, SlotInv, Empty
  <2> QED BY <2>1, <2>2, <1>ctl, Slots, KallocRef
<1>2. ASSUME NEW p \in Proc, SetupKvm(p) PROVE RefInv'
  <2>1. PICK f \in Frame : Kalloc(f) /\ frame' = [frame EXCEPT ![child[p]][PgDir] = f]
    BY <1>2 DEF SetupKvm, AllocForChild
  <2>2. child[p] \in Proc /\ frame[child[p]][PgDir] = None
    BY <1>2, <1>ctl, Slots DEF SetupKvm, Control, Building, SlotInv, Empty
  <2> QED BY <2>1, <2>2, <1>ctl, Slots, KallocRef
<1>3. ASSUME NEW p \in Proc, CopyPgTab(p) PROVE RefInv'
  <2>1. PICK f \in Frame : Kalloc(f) /\ frame' = [frame EXCEPT ![child[p]][PgTab] = f]
    BY <1>3 DEF CopyPgTab, AllocForChild
  <2>2. child[p] \in Proc /\ frame[child[p]][PgTab] = None
    BY <1>3, <1>ctl DEF CopyPgTab, Control, Building
  <2> QED BY <2>1, <2>2, <1>ctl, Slots, KallocRef
<1>4. ASSUME NEW p \in Proc, GrowPage(p) PROVE RefInv'
  <2>1. PICK f \in Frame : Kalloc(f) /\ frame' = [frame EXCEPT ![p][i[p]] = f]
    BY <1>4 DEF GrowPage
  <2>2. i[p] \in VPage
    BY <1>4, <1>t, Below DEF GrowPage
  <2>3. frame[p][i[p]] = None
    BY <1>4, <2>2, <1>v DEF GrowPage, SlotInv, Empty, Above
  <2> QED BY <2>1, <2>2, <2>3, <1>ctl, Slots, KallocRef
<1>5. ASSUME NEW p \in Proc, CopyPage(p) PROVE RefInv'
  <2> DEFINE f == frame[p][i[p]]
  <2>1. /\ frame' = [frame EXCEPT ![child[p]][i[p]] = f]
        /\ refc' = [refc EXCEPT ![f] = refc[f] + 1] /\ freelist' = freelist
    BY <1>5 DEF CopyPage
  <2>2. i[p] \in VPage /\ i[p] \in Slot
    BY <1>5, <1>t, Below, Slots DEF CopyPage
  <2>3. child[p] \in Proc /\ f \in Frame
    BY <1>5, <1>ctl, <1>t, <2>2 DEF CopyPage, Control, Building
  <2>4. frame[child[p]][i[p]] = None
    BY <1>5, <2>2, <1>v DEF CopyPage, SlotInv, Empty, Above
  <2>5. f \notin freelist
    <3>1. Cardinality(HoldersIn(frame, f)) > 0
      BY <2>2, <2>3, <1>t, Clear
    <3> QED BY <3>1, <2>3 DEF RefInv
  <2>p. frame' = Put(frame, child[p], i[p], f)
    BY <2>1 DEF Put
  <2> HIDE DEF f
  <2>6. /\ Cardinality(HoldersIn(frame', f)) = Cardinality(HoldersIn(frame, f)) + 1
        /\ \A e \in Frame \ {f} : HoldersIn(frame', e) = HoldersIn(frame, e)
    BY <2>p, <2>2, <2>3, <2>4, <1>t, Fill
  <2> QED BY <2>1, <2>3, <2>5, <2>6, <1>t DEF RefInv
<1>6. ASSUME NEW p \in Proc, KfreeDecr(p) PROVE RefInv'
  <2>1. PICK s \in Doomed(p) :
          /\ refc' = [refc EXCEPT ![frame[Owner(p)][s]] = IF @ > 0 THEN @ - 1 ELSE @]
          /\ frame' = [frame EXCEPT ![Owner(p)][s] = None]
          /\ freelist' = freelist
    BY <1>6 DEF KfreeDecr
  <2> DEFINE q == Owner(p)
             f == frame[q][s]
  <2>2. q \in Proc /\ s \in Slot /\ f \in Frame
    BY <1>ctl, <1>t, DoomedHeld
  <2>3. refc' = [refc EXCEPT ![f] = IF refc[f] > 0 THEN refc[f] - 1 ELSE refc[f]]
    BY <2>1
  <2>4. frame' = Put(frame, q, s, None)
    BY <2>1 DEF Put
  <2>5. /\ Cardinality(HoldersIn(frame, f)) > 0
        /\ Cardinality(HoldersIn(frame', f)) = Cardinality(HoldersIn(frame, f)) - 1
        /\ \A e \in Frame \ {f} : HoldersIn(frame', e) = HoldersIn(frame, e)
    BY <2>2, <2>4, <1>t, Clear
  <2>6. freelist' = freelist BY <2>1
  <2> HIDE DEF q, f
  <2>7. refc[f] = Cardinality(HoldersIn(frame, f)) BY <2>2 DEF RefInv
  <2>8. refc'[f] = refc[f] - 1 /\ \A d \in Frame \ {f} : refc'[d] = refc[d]
    BY <2>2, <2>3, <2>5, <2>7, <1>t
  <2>9. f \notin freelist BY <2>5, <2>7 DEF RefInv
  <2> QED BY <2>2, <2>5, <2>6, <2>7, <2>8, <2>9, <1>t DEF RefInv
<1>7. ASSUME NEW p \in Proc, KfreePush(p) PROVE RefInv'
  BY <1>7 DEF KfreePush, RefInv
<1>8. ASSUME NEW p \in Proc, CowCopy(p) PROVE RefInv'
  <2> DEFINE v == cr2[p]
             e == frame[p][v]
             g1 == Put(frame, p, v, None)
             g2 == Put(g1, p, Owed, e)
  <2>1. PICK f \in Frame : Kalloc(f) /\ frame' = [frame EXCEPT ![p][v] = f,
      ![p][Owed] = e]
    BY <1>8 DEF CowCopy
  <2>2. v \in VPage /\ v \in Slot /\ v # Owed /\ Owed \in Slot
    BY <1>8, <1>ctl, Slots DEF CowCopy, Control
  <2>3. e \in Frame
    BY <1>8, <1>ctl, <1>t, <2>2 DEF CowCopy, Control
  <2>4. frame[p][Owed] = None
    BY <1>8 DEF CowCopy, SlotInv
  <2>5. /\ g1 \in Maps
        /\ Cardinality(HoldersIn(frame, e)) > 0
        /\ Cardinality(HoldersIn(g1, e)) = Cardinality(HoldersIn(frame, e)) - 1
        /\ \A d \in Frame \ {e} : HoldersIn(g1, d) = HoldersIn(frame, d)
    BY <2>2, <2>3, <1>t, Clear
  <2>6. g1[p][Owed] = None /\ g2[p][v] = None
    BY <2>2, <2>4, <1>t DEF Put
  <2>7. frame' = Put(g2, p, v, f)
    BY <2>1, <2>2, <1>t DEF Put
  <2>e. refc' = [refc EXCEPT ![f] = refc[f] + 1] /\ freelist' = freelist \ {f}
          /\ f \in freelist
    BY <2>1 DEF Kalloc
  <2>9. e # f
    BY <2>e, <2>5, <2>3 DEF RefInv
  <2> HIDE DEF v, e, g1
  <2>10. /\ g2 \in Maps
         /\ Cardinality(HoldersIn(g2, e)) = Cardinality(HoldersIn(g1, e)) + 1
         /\ \A d \in Frame \ {e} : HoldersIn(g2, d) = HoldersIn(g1, d)
    BY <2>2, <2>3, <2>5, <2>6, Fill
  <2> HIDE DEF g2
  <2>11. /\ Cardinality(HoldersIn(frame', f)) = Cardinality(HoldersIn(g2, f)) + 1
         /\ \A d \in Frame \ {f} : HoldersIn(frame', d) = HoldersIn(g2, d)
    <3>1. f \in Frame BY <2>1
    <3> QED BY <3>1, <2>2, <2>6, <2>7, <2>10, Fill
  <2>12. Cardinality(HoldersIn(g2, e)) = Cardinality(HoldersIn(frame, e))
    <3>1. Cardinality(HoldersIn(frame, e)) \in Nat /\ Cardinality(HoldersIn(g1, e)) \in Nat
      BY HoldersFinite, FS_CardinalityType
    <3> QED BY <3>1, <2>5, <2>10
  <2>13. ASSUME NEW d \in Frame PROVE refc'[d] = Cardinality(HoldersIn(frame', d))
    <3>1. CASE d = f BY <3>1, <2>e, <2>9, <2>11, <2>10, <2>5, <1>t DEF RefInv
    <3>2. CASE d = e BY <3>2, <2>e, <2>9, <2>11, <2>12, <1>t DEF RefInv
    <3>3. CASE d # e /\ d # f BY <3>3, <2>e, <2>11, <2>10, <2>5, <1>t DEF RefInv
    <3> QED BY <3>1, <3>2, <3>3
  <2>14. ASSUME NEW d \in freelist' PROVE refc'[d] = 0
    BY <2>e, <1>t DEF RefInv
  <2> QED BY <2>13, <2>14 DEF RefInv
<1>9. ASSUME NEW p \in Proc, CowDecr(p) PROVE RefInv'
  <2> DEFINE f == frame[p][Owed]
  <2>1. /\ refc' = [refc EXCEPT ![f] = IF refc[f] > 0 THEN refc[f] - 1 ELSE refc[f]]
        /\ frame' = [frame EXCEPT ![p][Owed] = None] /\ freelist' = freelist
    BY <1>9 DEF CowDecr
  <2>2. CASE f \in Frame
    <3>p. frame' = Put(frame, p, Owed, None)
      BY <2>1 DEF Put
    <3>1. /\ Cardinality(HoldersIn(frame, f)) > 0
          /\ Cardinality(HoldersIn(frame', f)) = Cardinality(HoldersIn(frame, f)) - 1
          /\ \A e \in Frame \ {f} : HoldersIn(frame', e) = HoldersIn(frame, e)
      BY <3>p, <2>2, <1>t, Slots, Clear
    <3>2. refc' = [refc EXCEPT ![f] = IF refc[f] > 0 THEN refc[f] - 1 ELSE refc[f]]
          /\ freelist' = freelist
      BY <2>1
    <3> HIDE DEF f
    <3>7. refc[f] = Cardinality(HoldersIn(frame, f)) BY <2>2 DEF RefInv
    <3>8. refc'[f] = refc[f] - 1 /\ \A d \in Frame \ {f} : refc'[d] = refc[d]
      BY <2>2, <3>1, <3>2, <3>7, <1>t
    <3>9. f \notin freelist BY <3>1, <3>7 DEF RefInv
    <3> QED BY <2>2, <3>1, <3>2, <3>7, <3>8, <3>9, <1>t DEF RefInv
  <2>3. CASE f \notin Frame
    <3>1. f = None BY <2>3, <1>t, Slots
    <3>2. frame' = frame BY <2>1, <3>1, <1>t, Slots
    <3>3. refc' = refc BY <2>1, <2>3, <1>t
    <3> QED BY <2>1, <3>2, <3>3 DEF RefInv
  <2> QED BY <2>2, <2>3
<1>10. ASSUME UNCHANGED <<frame, refc, freelist>> PROVE RefInv'
  BY <1>10 DEF RefInv
<1>11. ASSUME NEW p \in Proc,
              \/ NoStack(p) \/ CopyFails(p) \/ CopyPanics(p) \/ ForkReturns(p)
              \/ GrowFails(p) \/ GrowDone(p) \/ GrowUndone(p) \/ ShrinkDone(p)
              \/ SlotReleased(p) \/ CowReuse(p) \/ CowPanics(p)
              \/ KallocPanics(p) \/ Exit(p) \/ Evict(p)
       PROVE  UNCHANGED <<frame, refc, freelist>>
  BY <1>11 DEF NoStack, CopyFails, CopyPanics, ForkReturns, GrowFails,
     GrowDone, GrowUndone, ShrinkDone, SlotReleased, GrowprocReturns, CowReuse,
     CowPanics, KallocPanics, Exit, Evict
<1>12. ASSUME NEW p \in Proc, User(p), ~Exit(p)
       PROVE  UNCHANGED <<frame, refc, freelist>>
  BY <1>12 DEF User, Access, Fork, Wait, Grow, Shrink, Store, FaultAbsent, Fault
<1> QED
  BY <1>1, <1>2, <1>3, <1>4, <1>5, <1>6, <1>7, <1>8, <1>9, <1>10, <1>11, <1>12
  DEF Next, Kernel, vars

\* The first process holds no page above its size and owes none.
LEMMA BootSlots == BootSlot \subseteq Slot /\ Owed \notin BootSlot
                   /\ \A v \in VPage : v >= InitSz => v \notin BootSlot
BY ConstantsOK DEF ConstantsOK, BootSlot, Slot, KStack, PgTab, PgDir, Owed,
    VPage

\* The initial state.
LEMMA InitType == Init => TypeInv
<1> SUFFICES ASSUME Init PROVE TypeInv
  OBVIOUS
<1>c. /\ InitProc \in Proc /\ None \notin Proc /\ None \notin Frame
      /\ MaxSz \in Nat /\ InitSz \in 0 .. MaxSz /\ 0 \in 0 .. MaxSz
      /\ Zero \in Contents /\ Junk \in Contents /\ Boot \in [BootSlot -> Frame]
  BY ConstantsOK, PageContents DEF ConstantsOK
<1>1. pc \in [Proc -> PC] /\ \A p \in Proc : pc[p] \in {"user", "unused"}
  BY DEF Init, PC
<1>2. frame \in [Proc -> [Slot -> Frame \cup {None}]]
  BY <1>c DEF Init
<1>3. perm \in [Proc -> [VPage -> [w : BOOLEAN, u : BOOLEAN]]]
  <2>1. NoPerm \in [w : BOOLEAN, u : BOOLEAN] BY DEF NoPerm
  <2>2. \A v \in VPage : [w |-> TRUE, u |-> v \notin Guard] \in [w : BOOLEAN,
      u : BOOLEAN]
    OBVIOUS
  <2> QED BY <2>1, <2>2 DEF Init
<1>4. /\ sz \in [Proc -> 0 .. MaxSz] /\ i \in [Proc -> 0 .. MaxSz]
      /\ lim \in [Proc -> 0 .. MaxSz] /\ seen \in [Proc -> Nat]
  BY <1>c DEF Init
<1>5. /\ parent \in [Proc -> Proc \cup {None}] /\ child \in [Proc -> Proc \cup {None}]
      /\ cr2 \in [Proc -> VPage \cup {None}] /\ lock = None /\ victim = None
      /\ panic = None /\ scribbled = FALSE
  BY DEF Init
<1>6. freelist \subseteq Frame /\ refc \in [Frame -> Nat]
  BY DEF Init
<1>7. data \in [Frame -> Contents]
  BY <1>c DEF Init
<1>8. tlb \in [Proc -> [VPage -> Frame \cup {None}]]
  BY DEF Init, NoTlb
<1>9. TypeOK
  BY <1>1, <1>2, <1>3, <1>4, <1>5, <1>6, <1>7, <1>8 DEF TypeOK
<1>10. Control
  BY <1>1, <1>5 DEF Control, Building
<1> QED BY <1>9, <1>10 DEF TypeInv

\* At first only the pages that exec mapped are there.
LEMMA InitSlots == Init => SlotInv
<1> SUFFICES ASSUME Init, NEW p \in Proc
    PROVE  /\ pc[p] = "unused" => Empty(p, Slot)
           /\ frame[p][Owed] = None
           /\ pc[p] \in {"user", "unused"}
           /\ pc[p] = "user" => Empty(p, Above(sz[p]))
  BY DEF SlotInv, AtSize
<1>1. \A s \in Slot : frame[p][s] =
            IF p = InitProc /\ s \in BootSlot THEN Boot[s] ELSE None
  BY DEF Init
<1>2. /\ pc[p] = IF p = InitProc THEN "user" ELSE "unused"
      /\ sz[p] = IF p = InitProc THEN InitSz ELSE 0
  BY DEF Init
<1> QED BY <1>1, <1>2, BootSlots, Slots DEF Empty, Above

\* At first each page the first process holds is counted once.
LEMMA InitRef == Init => RefInv
<1> SUFFICES ASSUME Init PROVE RefInv
  OBVIOUS
<1>c. /\ InitProc \in Proc /\ None \notin Frame /\ Boot \in [BootSlot -> Frame]
      /\ \A s, t \in BootSlot : Boot[s] = Boot[t] => s = t
  BY ConstantsOK DEF ConstantsOK
<1>1. \A p \in Proc, s \in Slot :
        frame[p][s] = IF p = InitProc /\ s \in BootSlot THEN Boot[s] ELSE None
  BY DEF Init
<1>2. freelist = {f \in Frame : \A s \in BootSlot : Boot[s] # f}
      /\ refc = [f \in Frame |-> IF f \in freelist THEN 0 ELSE 1]
  BY DEF Init
<1>3. ASSUME NEW f \in freelist PROVE Cardinality(HoldersIn(frame, f)) = 0
  <2>1. HoldersIn(frame, f) = {} BY <1>1, <1>2, <1>3, <1>c DEF HoldersIn
  <2> QED BY <2>1, FS_EmptySet
<1>4. ASSUME NEW f \in Frame \ freelist PROVE Cardinality(HoldersIn(frame, f)) = 1
  <2>1. PICK s \in BootSlot : Boot[s] = f BY <1>2, <1>4
  <2>2. HoldersIn(frame, f) = {<<InitProc, s>>}
    BY <1>1, <1>c, <2>1, BootSlots DEF HoldersIn
  <2> QED BY <2>2, FS_Singleton
<1> QED BY <1>2, <1>3, <1>4 DEF RefInv

\* The inductive invariant.
CowInv == TypeInv /\ SlotInv /\ RefInv

\* The inductive invariant holds in every reachable state.
THEOREM CowInvariant == Spec => []CowInv
<1>1. Init => CowInv
  BY InitType, InitSlots, InitRef DEF CowInv
<1>2. CowInv /\ [Next]_vars => CowInv'
  BY TypeStep, ControlStep, SlotStep, RefStep DEF CowInv, TypeInv
<1> QED BY <1>1, <1>2, PTL DEF Spec

(* Every variable keeps its type. *)
THEOREM TypeCorrect == Spec => []TypeOK
<1>1. CowInv => TypeOK BY DEF CowInv, TypeInv
<1> QED BY <1>1, CowInvariant, PTL

(* For any number of processes, pages and CPUs: the reference count of a    *)
(* page is exactly the number of page-table entries, kernel slots and       *)
(* unfinished faults that refer to it (incr_refc, decr_refc and kfree,      *)
(* kalloc.c:80-165).                                                        *)
THEOREM CountsAreExact == Spec => []CowSound
<1>1. CowInv => CowSound
  BY DEF CowInv, TypeInv, RefInv, CowSound, RefExact, HoldersIn, Holders
<1> QED BY <1>1, CowInvariant, PTL

(* What kalloc hands out was on the free list, and nothing refers to it:    *)
(* no process can be given a page that another still maps.                  *)
THEOREM FreeIsUnheld == Spec => [](\A f \in freelist : Holders(f) = {})
<1>1. CowInv => \A f \in freelist : Holders(f) = {}
  <2> SUFFICES ASSUME CowInv, NEW f \in freelist PROVE Holders(f) = {}
    OBVIOUS
  <2>1. f \in Frame BY DEF CowInv, TypeInv, TypeOK
  <2>2. Cardinality(HoldersIn(frame, f)) = 0 BY <2>1 DEF CowInv, RefInv
  <2>3. HoldersIn(frame, f) = {} BY <2>2, HoldersFinite, FS_EmptySet
  <2> QED BY <2>3 DEF HoldersIn, Holders
<1> QED BY <1>1, CowInvariant, PTL

(* A process's page table has nothing at or above its size, whatever system *)
(* call failed half-way: mappages never panics with "remap".                *)
THEOREM SizeBounds == Spec => []NothingAboveSize
<1>1. CowInv => NothingAboveSize
  BY DEF CowInv, SlotInv, AtSize, Empty, Above, NothingAboveSize
<1> QED BY <1>1, CowInvariant, PTL

-----------------------------------------------------------------------------
(* Sharing *)

\* Nothing but page v of process p refers to the page that is mapped there.
Sole(p, v) ==
    \A q \in Proc, s \in Slot : frame[q][s] = frame[p][v] => q = p /\ s = v

\* A page that may be written has one reference, and so has the page that a
\* fault handler is going to reuse.
PrivInv ==
    /\ \A p \in Proc, v \in VPage : frame[p][v] # None /\ perm[p][v].w => Sole(p, v)
    /\ \A p \in Proc : pc[p] = "cow" /\ seen[p] =< 1 => Sole(p, cr2[p])

\* Only page v of process p, and that of the child it is forking, refers to
\* the page of the cached translation.
Only(p, v) ==
    \A q \in Proc, s \in Slot : frame[q][s] = tlb[p][v] =>
        s = v /\ (q = p \/ (pc[p] \in {"copy", "freevm"} /\ q = child[p]))

\* A cached translation leads to where the page table does, except while
\* pages are being taken away, and then the call ends with a flush.
TlbRow(p) ==
    /\ pc[p] \in {"unused", "embryo", "zombie"} => tlb[p] = NoTlb
    /\ pc[p] \in {"cow", "owed"} => tlb[p][cr2[p]] = None
    /\ pc[p] = "shrink" => lim[p] # 0
    /\ \A v \in VPage : tlb[p][v] # None /\ (pc[p] = "shrink" => v < lim[p])
                            => frame[p][v] = tlb[p][v] /\ Only(p, v)
    /\ \A v \in VPage : tlb[p][v] # None /\ pc[p] \in {"grow", "undo"} => v < sz[p]

TlbInv == \A p \in Proc : TlbRow(p)

\* What fork has copied so far is what the parent has; no other loop has
\* left its counter behind.
CopyInv ==
    /\ \A p \in Proc, v \in VPage :
          pc[p] = "copy" /\ v < i[p] => frame[child[p]][v] = frame[p][v]
    /\ \A p \in Proc :
          pc[p] \notin {"copy", "freevm", "grow", "undo", "shrink"} => i[p] = 0

LockInv == lock = None => victim = None

\* A step that makes slot s of process q refer to f and leaves the others.
PutAt(q, s, f) ==
    \A r \in Proc, t \in Slot : frame'[r][t] = IF r = q /\ t = s THEN f ELSE frame[r][t]

\* An EXCEPT is such a step.
LEMMA PutIsPutAt ==
    ASSUME TypeOK, NEW q \in Proc, NEW s \in Slot, NEW f, frame' = [frame EXCEPT ![q][s] = f]
    PROVE  PutAt(q, s, f)
BY DEF TypeOK, PutAt

\* Nothing refers to a page that kalloc returns.
LEMMA KallocUnheld ==
    ASSUME TypeOK, RefInv, NEW f, Kalloc(f)
    PROVE  f \in Frame /\ f # None /\ \A r \in Proc, t \in Slot : frame[r][t] # f
<1>0. freelist \subseteq Frame BY DEF TypeOK
<1>1. f \in freelist /\ f \in Frame BY <1>0 DEF Kalloc
<1>2. Cardinality(HoldersIn(frame, f)) = 0 BY <1>1 DEF RefInv
<1>3. HoldersIn(frame, f) = {} BY <1>2, HoldersFinite, FS_EmptySet
<1>4. ASSUME NEW r \in Proc, NEW t \in Slot PROVE frame[r][t] # f
  <2>1. <<r, t>> \notin HoldersIn(frame, f) BY <1>3
  <2> QED BY <2>1 DEF HoldersIn
<1> QED BY <1>1, <1>4, ConstantsOK DEF ConstantsOK

\* A page that counts one reference has no other holder than the one known.
LEMMA CountsOne ==
    ASSUME TypeOK, RefInv, NEW p \in Proc, NEW v \in Slot, frame[p][v] # None,
           refc[frame[p][v]] =< 1
    PROVE  Sole(p, v)
<1> DEFINE f == frame[p][v]  H == HoldersIn(frame, f)
<1>1. f \in Frame BY DEF TypeOK
<1>2. <<p, v>> \in H BY DEF HoldersIn
<1>3. IsFiniteSet(H) BY HoldersFinite
<1>4. Cardinality(H) =< 1 BY <1>1 DEF RefInv
<1>5. ASSUME NEW x \in H PROVE x = <<p, v>>
  <2> SUFFICES ASSUME x # <<p, v>> PROVE FALSE OBVIOUS
  <2> HIDE DEF H
  <2>1. {x, <<p, v>>} \subseteq H BY <1>2
  <2>2. Cardinality({x, <<p, v>>}) = 2
    <3>1. IsFiniteSet({x}) /\ Cardinality({x}) = 1 BY FS_Singleton
    <3>2. {x, <<p, v>>} = {x} \cup {<<p, v>>} /\ <<p, v>> \notin {x} OBVIOUS
    <3>3. Cardinality({x} \cup {<<p, v>>}) = Cardinality({x}) + 1 BY <3>1, <3>2, FS_AddElement
    <3> QED BY <3>1, <3>2, <3>3
  <2>3. Cardinality({x, <<p, v>>}) =< Cardinality(H) BY <1>3, <2>1, FS_Subset
  <2>4. Cardinality(H) \in Nat BY <1>3, FS_CardinalityType
  <2> QED BY <1>4, <2>2, <2>3, <2>4
<1>6. ASSUME NEW q \in Proc, NEW s \in Slot, frame[q][s] = f PROVE q = p /\ s = v
  <2>1. <<q, s>> \in H BY <1>6 DEF HoldersIn
  <2> HIDE DEF H
  <2>2. <<q, s>> = <<p, v>> BY <2>1, <1>5
  <2> QED BY <2>2
<1> QED BY <1>6 DEF Sole

\* Permission to write is lost, or given for the slot that is filled.
Rising(q, s) ==
    \A p \in Proc, v \in VPage : perm'[p][v].w => perm[p][v].w \/ (p = q /\ v = s)

\* Nobody begins to handle a fault.
NoFault ==
    \A p \in Proc : pc'[p] = "cow" => pc[p] = "cow" /\ cr2'[p] = cr2[p] /\ seen'[p] = seen[p]

\* Steps that change no slot.
LEMMA PrivKept ==
    ASSUME PrivInv, UNCHANGED frame, Rising(None, None), NoFault
    PROVE  PrivInv'
BY ConstantsOK DEF PrivInv, Rising, NoFault, Sole, ConstantsOK

\* A fresh page in an empty slot.
LEMMA PrivFill ==
    ASSUME PrivInv, TypeInv', NEW q \in Proc, NEW s \in Slot, NEW f \in Frame,
           frame[q][s] = None, \A r \in Proc, t \in Slot : frame[r][t] # f,
           PutAt(q, s, f), Rising(q, s), NoFault, pc[q] # "cow"
    PROVE  PrivInv'
<1>1. ASSUME NEW p \in Proc, NEW v \in VPage, frame'[p][v] # None, perm'[p][v].w
      PROVE  Sole(p, v)'
  <2>1. v \in Slot BY Slots
  <2>2. CASE p = q /\ v = s BY <2>1, <2>2 DEF PutAt, Sole
  <2>3. CASE ~(p = q /\ v = s)
    <3>1. frame'[p][v] = frame[p][v] /\ perm[p][v].w BY <1>1, <2>1, <2>3 DEF PutAt, Rising
    <3>2. Sole(p, v) BY <1>1, <3>1 DEF PrivInv
    <3> QED BY <2>1, <3>1, <3>2 DEF PutAt, Sole
  <2> QED BY <2>2, <2>3
<1>2. ASSUME NEW p \in Proc, pc'[p] = "cow", seen'[p] =< 1
      PROVE  Sole(p, cr2[p])' /\ cr2'[p] = cr2[p]
  <2>1. pc[p] = "cow" /\ cr2'[p] = cr2[p] /\ seen[p] =< 1 BY <1>2 DEF NoFault
  <2>2. Sole(p, cr2[p]) /\ p # q BY <2>1 DEF PrivInv
  <2>3. cr2[p] \in VPage /\ frame'[p][cr2[p]] # None
    BY <1>2, <2>1 DEF TypeInv, Control
  <2>4. cr2[p] \in Slot BY <2>3, Slots
  <2>5. frame'[p][cr2[p]] = frame[p][cr2[p]] BY <2>2, <2>4 DEF PutAt
  <2> QED BY <2>1, <2>2, <2>4, <2>5 DEF PutAt, Sole
<1> QED BY <1>1, <1>2 DEF PrivInv

\* A slot gives its page up.
LEMMA PrivClear ==
    ASSUME PrivInv, TypeInv', NEW q \in Proc, NEW s \in Slot,
           PutAt(q, s, None), Rising(None, None), NoFault
    PROVE  PrivInv'
<1>0. \A p \in Proc : p # None BY ConstantsOK DEF ConstantsOK
<1>1. ASSUME NEW p \in Proc, NEW v \in VPage, frame'[p][v] # None, perm'[p][v].w
      PROVE  Sole(p, v)'
  <2>1. v \in Slot BY Slots
  <2>2. frame'[p][v] = frame[p][v] BY <1>1, <2>1 DEF PutAt
  <2>3. Sole(p, v) BY <1>0, <1>1, <2>2 DEF PrivInv, Rising
  <2> QED BY <1>1, <2>1, <2>2, <2>3 DEF PutAt, Sole
<1>2. ASSUME NEW p \in Proc, pc'[p] = "cow", seen'[p] =< 1
      PROVE  Sole(p, cr2[p])' /\ cr2'[p] = cr2[p]
  <2>1. pc[p] = "cow" /\ cr2'[p] = cr2[p] /\ seen[p] =< 1 BY <1>2 DEF NoFault
  <2>2. Sole(p, cr2[p]) BY <2>1 DEF PrivInv
  <2>3. cr2[p] \in VPage /\ frame'[p][cr2[p]] # None
    BY <1>2, <2>1 DEF TypeInv, Control
  <2>4. cr2[p] \in Slot BY <2>3, Slots
  <2>5. frame'[p][cr2[p]] = frame[p][cr2[p]] BY <2>3, <2>4 DEF PutAt
  <2> QED BY <2>1, <2>2, <2>3, <2>4, <2>5 DEF PutAt, Sole
<1> QED BY <1>1, <1>2 DEF PrivInv

\* fork shares a page: neither side may write it then.
LEMMA PrivShare ==
    ASSUME PrivInv, TypeInv, NEW p \in Proc, NEW c \in Proc, NEW v \in VPage,
           frame[p][v] # None, frame[c][v] = None, PutAt(c, v, frame[p][v]),
           Rising(None, None), NoFault, pc[p] # "cow", p # c,
           ~perm'[p][v].w, ~perm'[c][v].w
    PROVE  PrivInv'
<1>0. (\A q \in Proc : q # None) /\ v \in Slot BY Slots, ConstantsOK DEF ConstantsOK
<1>1. ASSUME NEW r \in Proc, NEW u \in VPage, frame'[r][u] # None, perm'[r][u].w
      PROVE  Sole(r, u)'
  <2>1. u \in Slot BY Slots
  <2>2. ~(r = c /\ u = v) /\ ~(r = p /\ u = v) BY <1>1
  <2>3. frame'[r][u] = frame[r][u] BY <2>1, <2>2 DEF PutAt
  <2>4. Sole(r, u) BY <1>0, <1>1, <2>3 DEF PrivInv, Rising
  <2>5. frame[r][u] # frame[p][v] BY <1>0, <2>2, <2>4 DEF Sole
  <2> QED BY <2>1, <2>3, <2>4, <2>5 DEF PutAt, Sole
<1>2. ASSUME NEW r \in Proc, pc'[r] = "cow", seen'[r] =< 1
      PROVE  Sole(r, cr2[r])' /\ cr2'[r] = cr2[r]
  <2>1. pc[r] = "cow" /\ cr2'[r] = cr2[r] /\ seen[r] =< 1 BY <1>2 DEF NoFault
  <2>2. Sole(r, cr2[r]) /\ r # p BY <2>1 DEF PrivInv
  <2>3. cr2[r] \in VPage /\ frame[r][cr2[r]] # None
    BY <2>1 DEF TypeInv, Control
  <2>4. cr2[r] \in Slot BY <2>3, Slots
  <2>5. frame[r][cr2[r]] # frame[p][v] BY <1>0, <2>2 DEF Sole
  <2>6. frame'[r][cr2[r]] = frame[r][cr2[r]] BY <2>3, <2>4 DEF PutAt
  <2> QED BY <2>1, <2>2, <2>4, <2>5, <2>6 DEF PutAt, Sole
<1> QED BY <1>1, <1>2 DEF PrivInv

\* The flags after a write.
LEMMA PermAt ==
    ASSUME TypeOK, NEW q \in Proc, NEW v \in VPage, NEW x, perm' = [perm EXCEPT ![q][v] = x]
    PROVE  \A p \in Proc, u \in VPage : perm'[p][u] = IF p = q /\ u = v THEN x ELSE perm[p][u]
BY DEF TypeOK

\* Taking PTE_W from a page gives it to none.
LEMMA PermTaken ==
    ASSUME TypeOK, NEW q \in Proc, NEW v \in VPage, perm' = [perm EXCEPT ![q][v].w = FALSE]
    PROVE  Rising(None, None) /\ ~perm'[q][v].w
<1> DEFINE x == [perm[q][v] EXCEPT !.w = FALSE]
<1>1. perm \in [Proc -> [VPage -> [w : BOOLEAN, u : BOOLEAN]]] BY DEF TypeOK
<1>2. x.w = FALSE
  <2>1. perm[q][v] \in [w : BOOLEAN, u : BOOLEAN] BY <1>1
  <2> QED BY <2>1
<1>3. \A p \in Proc, u \in VPage : perm'[p][u] = IF p = q /\ u = v THEN x ELSE perm[p][u]
  BY <1>1
<1> HIDE DEF x
<1>4. \A p \in Proc, u \in VPage : perm'[p][u].w => perm[p][u].w BY <1>2, <1>3
<1>5. ~perm'[q][v].w BY <1>2, <1>3
<1> QED BY <1>4, <1>5 DEF Rising

\* kalloc for a kernel slot of the child.
LEMMA PrivChild ==
    ASSUME CowInv, PrivInv, TypeInv', NEW p \in Proc, NEW s \in Slot, NEW next,
           AllocForChild(p, s, next), Rising(None, None), next # "cow",
           child[p] \in Proc, pc[child[p]] # "cow", frame[child[p]][s] = None
    PROVE  PrivInv'
<1>1. PICK f \in Frame : Kalloc(f) /\ frame' = [frame EXCEPT ![child[p]][s] = f]
  BY DEF AllocForChild
<1>2. f \in Frame /\ \A r \in Proc, t \in Slot : frame[r][t] # f
  BY <1>1, KallocUnheld DEF CowInv, TypeInv
<1>3. PutAt(child[p], s, f) BY <1>1, PutIsPutAt DEF CowInv, TypeInv
<1>4. pc' = [pc EXCEPT ![p] = next] /\ UNCHANGED <<cr2, seen>> BY DEF AllocForChild
<1>5. pc \in [Proc -> PC] BY DEF CowInv, TypeInv, TypeOK
<1>6. NoFault BY <1>4, <1>5 DEF NoFault
<1>7. Rising(child[p], s) BY ConstantsOK DEF Rising, ConstantsOK
<1> DEFINE c == child[p]
<1>8. /\ c \in Proc /\ pc[c] # "cow" /\ frame[c][s] = None /\ PutAt(c, s, f) /\ Rising(c, s)
  BY <1>3, <1>7
<1> HIDE DEF c
<1> QED BY <1>2, <1>6, <1>8, PrivFill

\* Every step keeps shared pages from being written.
LEMMA PrivStep == CowInv /\ CowInv' /\ PrivInv /\ [Next]_vars => PrivInv'
<1> SUFFICES ASSUME CowInv, CowInv', PrivInv, [Next]_vars PROVE PrivInv'
  OBVIOUS
<1>inv. TypeOK /\ Control /\ TypeInv /\ TypeInv' /\ SlotInv /\ RefInv
  BY DEF CowInv, TypeInv
<1>t. /\ pc \in [Proc -> PC] /\ frame \in [Proc -> [Slot -> Frame \cup {None}]]
      /\ perm \in [Proc -> [VPage -> [w : BOOLEAN, u : BOOLEAN]]]
      /\ i \in [Proc -> 0 .. MaxSz] /\ sz \in [Proc -> 0 .. MaxSz] /\ lim \in [Proc -> 0 .. MaxSz]
      /\ cr2 \in [Proc -> VPage \cup {None}] /\ seen \in [Proc -> Nat] /\ refc \in [Frame -> Nat]
  BY <1>inv DEF TypeOK
<1>m. None \notin Frame /\ None \notin Proc
  BY ConstantsOK DEF ConstantsOK
<1>r. UNCHANGED perm => Rising(None, None) BY DEF Rising
<1>n. ASSUME NEW p \in Proc, NEW x, x # "cow", pc' = [pc EXCEPT ![p] = x], UNCHANGED <<cr2, seen>>
      PROVE  NoFault
  BY <1>n, <1>t DEF NoFault
<1>o. UNCHANGED <<pc, cr2, seen>> => NoFault BY DEF NoFault
<1>1. ASSUME NEW p \in Proc, AllocStack(p) PROVE PrivInv'
  <2>1. /\ AllocForChild(p, KStack, "setupkvm") /\ pc[p] = "allocproc" /\ Rising(None, None)
    BY <1>1, <1>r DEF AllocStack
  <2>2. child[p] \in Proc /\ pc[child[p]] = "embryo" /\ frame[child[p]][KStack] = None
    BY <2>1, <1>inv, Slots DEF Control, Building, SlotInv, Empty
  <2> QED BY <2>1, <2>2, <1>inv, Slots, PrivChild
<1>2. ASSUME NEW p \in Proc, SetupKvm(p) PROVE PrivInv'
  <2>1. /\ AllocForChild(p, PgDir, "copy") /\ pc[p] = "setupkvm" /\ Rising(None, None)
    BY <1>2, <1>r DEF SetupKvm
  <2>2. child[p] \in Proc /\ pc[child[p]] = "embryo" /\ frame[child[p]][PgDir] = None
    BY <2>1, <1>inv, Slots DEF Control, Building, SlotInv, Empty
  <2> QED BY <2>1, <2>2, <1>inv, Slots, PrivChild
<1>3. ASSUME NEW p \in Proc, CopyPgTab(p) PROVE PrivInv'
  <2>1. /\ AllocForChild(p, PgTab, "copy") /\ pc[p] = "copy" /\ i[p] < sz[p]
        /\ perm' = [perm EXCEPT ![p][i[p]].w = FALSE] /\ frame[child[p]][PgTab] = None
    BY <1>3 DEF CopyPgTab
  <2>2. child[p] \in Proc /\ pc[child[p]] = "embryo"
    BY <2>1, <1>inv DEF Control, Building
  <2>3. i[p] \in VPage BY <2>1, <1>t, Below
  <2> DEFINE v == i[p]
  <2>4. v \in VPage /\ perm' = [perm EXCEPT ![p][v].w = FALSE] BY <2>1, <2>3
  <2> HIDE DEF v
  <2>5. Rising(None, None) BY <2>4, <1>inv, PermTaken
  <2> QED BY <2>1, <2>2, <2>5, <1>inv, Slots, PrivChild
<1>4. ASSUME NEW p \in Proc, CopyPage(p) PROVE PrivInv'
  <2> DEFINE c == child[p]  v == i[p]  f == frame[p][v]  x == [perm[p][v] EXCEPT !.w = FALSE]
  <2>1. /\ pc[p] = "copy" /\ v < sz[p] /\ f # None /\ frame' = [frame EXCEPT ![c][v] = f]
        /\ perm' = [perm EXCEPT ![p][v].w = FALSE, ![c][v] = x]
        /\ UNCHANGED <<pc, cr2, seen>>
    BY <1>4 DEF CopyPage
  <2>2. c \in Proc /\ pc[c] = "embryo" /\ frame[c][v] = None /\ v \in VPage
    <3>1. v \in VPage BY <2>1, <1>t, Below
    <3> QED BY <2>1, <3>1, <1>inv, <1>t DEF Control, Building, SlotInv, Empty, Above
  <2>3. x.w = FALSE
    <3>1. perm[p][v] \in [w : BOOLEAN, u : BOOLEAN] BY <2>2, <1>t
    <3> QED BY <3>1
  <2>4. PutAt(c, v, f) BY <2>1, <2>2, <1>inv, Slots, PutIsPutAt
  <2>5. \A r \in Proc, u \in VPage :
            perm'[r][u] = IF r = c /\ u = v THEN x ELSE IF r = p /\ u = v THEN x ELSE perm[r][u]
    BY <2>1, <2>2, <1>t
  <2>6. p # c BY <2>1, <2>2
  <2> HIDE DEF c, v, x
  <2>7. Rising(None, None) /\ ~perm'[p][v].w /\ ~perm'[c][v].w
    <3>1. ~perm'[p][v].w /\ ~perm'[c][v].w BY <2>2, <2>3, <2>5
    <3>2. \A r \in Proc, u \in VPage : perm'[r][u].w => perm[r][u].w BY <2>3, <2>5
    <3> QED BY <3>1, <3>2 DEF Rising
  <2>8. NoFault BY <2>1, <1>o
  <2> QED BY <2>1, <2>2, <2>4, <2>6, <2>7, <2>8, <1>inv, PrivShare
<1>5. ASSUME NEW p \in Proc, GrowPage(p) PROVE PrivInv'
  <2> DEFINE v == i[p]
  <2>1. PICK f \in Frame : Kalloc(f) /\ frame' = [frame EXCEPT ![p][v] = f]
    BY <1>5 DEF GrowPage
  <2>2. /\ pc[p] = "grow" /\ v < lim[p] /\ perm' = [perm EXCEPT ![p][v] = Writable]
        /\ UNCHANGED <<pc, cr2, seen>>
    BY <1>5 DEF GrowPage
  <2>3. v \in VPage /\ v \in Slot BY <2>2, <1>t, Below, Slots
  <2>4. frame[p][v] = None BY <2>2, <2>3, <1>inv DEF SlotInv, Empty, Above, VPage
  <2> HIDE DEF v
  <2>5. \A r \in Proc, t \in Slot : frame[r][t] # f BY <2>1, <1>inv, KallocUnheld
  <2>6. PutAt(p, v, f) BY <2>1, <2>3, <1>inv, PutIsPutAt
  <2>7. Rising(p, v) BY <2>2, <2>3, <1>inv, PermAt DEF Rising
  <2>8. NoFault BY <2>2, <1>o
  <2> QED BY <2>2, <2>3, <2>4, <2>5, <2>6, <2>7, <2>8, <1>inv, PrivFill
<1>6. ASSUME NEW p \in Proc, KfreeDecr(p) PROVE PrivInv'
  <2>1. PICK s \in Doomed(p) :
          /\ frame' = [frame EXCEPT ![Owner(p)][s] = None]
          /\ perm' = IF s \in VPage THEN [perm EXCEPT ![Owner(p)][s] = NoPerm] ELSE perm
    BY <1>6 DEF KfreeDecr
  <2>2. UNCHANGED <<pc, cr2, seen>> BY <1>6 DEF KfreeDecr
  <2> DEFINE q == Owner(p)
  <2>3. q \in Proc /\ s \in Slot BY <1>inv, <1>t, DoomedHeld
  <2>4. /\ frame' = [frame EXCEPT ![q][s] = None]
        /\ perm' = IF s \in VPage THEN [perm EXCEPT ![q][s] = NoPerm] ELSE perm
    BY <2>1
  <2> HIDE DEF q
  <2>5. PutAt(q, s, None) BY <2>3, <2>4, <1>inv, PutIsPutAt
  <2>6. Rising(None, None)
    <3>1. CASE s \in VPage
      <4>1. \A r \in Proc, u \in VPage :
              perm'[r][u] = IF r = q /\ u = s THEN NoPerm ELSE perm[r][u]
        <5>1. perm' = [perm EXCEPT ![q][s] = NoPerm] BY <3>1, <2>4
        <5> QED BY <5>1, <3>1, <2>3, <1>t
      <4> QED BY <4>1 DEF Rising, NoPerm
    <3>2. CASE s \notin VPage BY <3>2, <2>4, <1>r
    <3> QED BY <3>1, <3>2
  <2>7. NoFault BY <2>2, <1>o
  <2> QED BY <2>3, <2>5, <2>6, <2>7, <1>inv, PrivClear
<1>7. ASSUME NEW p \in Proc, CowDecr(p) PROVE PrivInv'
  <2>1. /\ frame' = [frame EXCEPT ![p][Owed] = None] /\ pc' = [pc EXCEPT ![p] = "user"]
        /\ seen' = [seen EXCEPT ![p] = 0] /\ UNCHANGED <<perm, cr2>>
    BY <1>7 DEF CowDecr, FaultReturns
  <2>2. PutAt(p, Owed, None) BY <2>1, <1>inv, Slots, PutIsPutAt
  <2>3. NoFault BY <2>1, <1>t DEF NoFault
  <2> QED BY <2>1, <2>2, <2>3, <1>r, <1>inv, Slots, PrivClear
<1>8. ASSUME NEW p \in Proc, CowReuse(p) PROVE PrivInv'
  <2> DEFINE v == cr2[p]
  <2>1. /\ pc[p] = "cow" /\ seen[p] =< 1 /\ pc' = [pc EXCEPT ![p] = "user"]
        /\ perm' = [perm EXCEPT ![p][v].w = @ \/ seen[p] = 1]
        /\ seen' = [seen EXCEPT ![p] = 0] /\ UNCHANGED <<frame, cr2>>
    BY <1>8 DEF CowReuse, FaultReturns
  <2>2. v \in VPage /\ Sole(p, v) BY <2>1, <1>inv DEF Control, PrivInv
  <2>3. NoFault BY <2>1, <1>t DEF NoFault
  <2>4. Rising(p, v)
    <3>1. \A r \in Proc, u \in VPage : ~(r = p /\ u = v) => perm'[r][u] = perm[r][u]
      BY <2>1, <2>2, <1>t
    <3> QED BY <3>1 DEF Rising
  <2> HIDE DEF v
  <2>5. ASSUME NEW r \in Proc, NEW u \in VPage, frame'[r][u] # None, perm'[r][u].w
        PROVE  Sole(r, u)
    BY <2>1, <2>2, <2>4, <2>5 DEF Rising, PrivInv
  <2>6. ASSUME NEW r \in Proc, pc'[r] = "cow", seen'[r] =< 1 PROVE Sole(r, cr2[r])
    BY <2>3, <2>6 DEF NoFault, PrivInv
  <2> QED BY <2>1, <2>5, <2>6 DEF PrivInv, Sole
<1>9. ASSUME NEW p \in Proc, CowCopy(p) PROVE PrivInv'
  <2> DEFINE v == cr2[p]  e == frame[p][v]
  <2>1. PICK f \in Frame : Kalloc(f) /\ frame' = [frame EXCEPT ![p][v] = f, ![p][Owed] = e]
    BY <1>9 DEF CowCopy
  <2>2. /\ pc[p] = "cow" /\ perm' = [perm EXCEPT ![p][v] = Writable]
        /\ pc' = [pc EXCEPT ![p] = "owed"] /\ UNCHANGED <<cr2, seen>>
    BY <1>9 DEF CowCopy
  <2>3. v \in VPage /\ v \in Slot /\ v # Owed /\ Owed \in Slot /\ frame[p][v] = e
    BY <2>2, <1>inv, Slots DEF Control
  <2> HIDE DEF v, e
  <2>4. \A r \in Proc, t \in Slot : frame[r][t] # f BY <2>1, <1>inv, KallocUnheld
  <2>5. \A r \in Proc, t \in Slot :
            frame'[r][t] = IF r = p /\ t = v THEN f
                           ELSE IF r = p /\ t = Owed THEN e ELSE frame[r][t]
    BY <2>1, <2>3, <1>t
  <2>6. Rising(p, v) BY <2>2, <2>3, <1>inv, PermAt DEF Rising
  <2>7. NoFault BY <2>2, <1>n
  <2>8. ASSUME NEW r \in Proc, NEW u \in VPage, Sole(r, u), ~(r = p /\ u = v) PROVE Sole(r, u)'
    <3>1. u \in Slot /\ u # Owed BY Slots
    <3>2. frame[r][u] # e BY <2>3, <2>8, <3>1 DEF Sole
    <3>3. frame'[r][u] = frame[r][u] BY <2>5, <2>8, <3>1
    <3>4. frame[r][u] # f BY <2>4, <3>1
    <3> QED BY <2>5, <2>8, <3>2, <3>3, <3>4 DEF Sole
  <2>9. ASSUME NEW r \in Proc, NEW u \in VPage, frame'[r][u] # None, perm'[r][u].w
        PROVE  Sole(r, u)'
    <3>1. u \in Slot /\ u # Owed BY Slots
    <3>2. CASE r = p /\ u = v
      <4>1. e # f BY <2>3, <2>4
      <4> QED BY <3>1, <3>2, <4>1, <2>4, <2>5 DEF Sole
    <3>3. CASE ~(r = p /\ u = v)
      <4>1. frame[r][u] # None /\ perm[r][u].w BY <2>5, <2>6, <2>9, <3>1, <3>3 DEF Rising
      <4> QED BY <2>8, <3>3, <4>1 DEF PrivInv
    <3> QED BY <3>2, <3>3
  <2>10. ASSUME NEW r \in Proc, pc'[r] = "cow", seen'[r] =< 1
         PROVE  Sole(r, cr2[r])' /\ cr2'[r] = cr2[r]
    <3>1. pc[r] = "cow" /\ seen[r] =< 1 /\ r # p BY <2>2, <2>7, <2>10, <1>t DEF NoFault
    <3>2. Sole(r, cr2[r]) /\ cr2[r] \in VPage BY <3>1, <1>inv DEF PrivInv, Control
    <3>3. PICK u \in VPage : u = cr2[r] BY <3>2
    <3>4. cr2'[r] = u /\ Sole(r, u) BY <2>2, <3>2, <3>3
    <3>5. Sole(r, u)' BY <2>8, <3>1, <3>4
    <3> QED BY <3>3, <3>4, <3>5 DEF Sole
  <2> QED BY <2>9, <2>10, <2>2 DEF PrivInv
<1>10. ASSUME NEW p \in Proc, NEW v \in VPage, Fault(p, v) PROVE PrivInv'
  <2>1. /\ pc' = [pc EXCEPT ![p] = "cow"] /\ cr2' = [cr2 EXCEPT ![p] = v]
        /\ seen' = [seen EXCEPT ![p] = refc[frame[p][v]]]
        /\ frame[p][v] # None /\ UNCHANGED <<frame, perm>>
    BY <1>10 DEF Fault
  <2>2. seen'[p] =< 1 => Sole(p, v) BY <2>1, <1>inv, <1>t, Slots, CountsOne
  <2>3. ASSUME NEW r \in Proc, pc'[r] = "cow", seen'[r] =< 1 PROVE Sole(r, cr2'[r])
    <3>1. CASE r = p BY <2>1, <2>2, <2>3, <3>1, <1>t
    <3>2. CASE r # p BY <2>1, <2>3, <3>2, <1>t DEF PrivInv
    <3> QED BY <3>1, <3>2
  <2> QED BY <2>1, <2>3 DEF PrivInv, Sole
<1>11. ASSUME NEW p \in Proc, CopyFails(p) PROVE PrivInv'
  <2>1. UNCHANGED <<frame, cr2, seen>> /\ pc' = [pc EXCEPT ![p] = "freevm"]
    BY <1>11 DEF CopyFails
  <2>2. Rising(None, None)
    <3>1. CASE UNCHANGED perm BY <3>1, <1>r
    <3>2. CASE i[p] < sz[p] /\ perm' = [perm EXCEPT ![p][i[p]].w = FALSE]
      <4> DEFINE v == i[p]
      <4>1. v \in VPage /\ perm' = [perm EXCEPT ![p][v].w = FALSE] BY <3>2, <1>t, Below
      <4> HIDE DEF v
      <4> QED BY <4>1, <1>inv, PermTaken
    <3> QED BY <1>11, <3>1, <3>2 DEF CopyFails
  <2>3. NoFault BY <2>1, <1>n
  <2> QED BY <2>1, <2>2, <2>3, PrivKept
<1>12. ASSUME NEW p \in Proc,
              \/ NoStack(p) \/ CopyPanics(p) \/ ForkReturns(p)
              \/ GrowFails(p) \/ GrowDone(p) \/ GrowUndone(p) \/ ShrinkDone(p)
              \/ SlotReleased(p) \/ CowPanics(p) \/ KfreePush(p)
              \/ KallocPanics(p) \/ Exit(p) \/ Evict(p)
       PROVE  PrivInv'
  <2>1. UNCHANGED <<frame, perm, cr2, seen>>
    BY <1>12 DEF NoStack, CopyPanics, ForkReturns, GrowFails, GrowDone, GrowUndone, ShrinkDone,
       SlotReleased, GrowprocReturns, CowPanics, KfreePush, KallocPanics, Exit, Evict
  <2>2. \A r \in Proc : pc'[r] = "cow" => pc[r] = "cow"
    BY <1>12, <1>t DEF NoStack, CopyPanics, ForkReturns, GrowFails, GrowDone, GrowUndone,
       ShrinkDone, SlotReleased, GrowprocReturns, CowPanics, KfreePush, KallocPanics, Exit, Evict
  <2>3. NoFault BY <2>1, <2>2 DEF NoFault
  <2> QED BY <2>1, <2>3, <1>r, PrivKept
<1>13. ASSUME NEW p \in Proc, User(p), ~Exit(p), \A v \in VPage : ~Fault(p, v)
       PROVE  PrivInv'
  <2>1. UNCHANGED <<frame, perm, seen>>
    BY <1>13 DEF User, Access, Fork, Wait, Grow, Shrink, Store, FaultAbsent
  <2>2. \A r \in Proc : pc'[r] = "cow" => pc[r] = "cow" /\ cr2'[r] = cr2[r]
    <3>1. CASE \E v \in VPage, x \in Val : Store(p, v, x)
      BY <3>1, <1>t DEF Store
    <3>2. CASE ~\E v \in VPage, x \in Val : Store(p, v, x)
      BY <1>13, <3>2, <1>t DEF User, Access, Fork, Wait, Grow, Shrink, FaultAbsent
    <3> QED BY <3>1, <3>2
  <2>3. NoFault BY <2>1, <2>2 DEF NoFault
  <2> QED BY <2>1, <2>3, <1>r, PrivKept
<1>14. CASE UNCHANGED vars
  <2>1. UNCHANGED <<frame, perm, pc, cr2, seen>> BY <1>14 DEF vars
  <2> QED BY <2>1, <1>o, <1>r, PrivKept
<1> QED
  BY <1>1, <1>2, <1>3, <1>4, <1>5, <1>6, <1>7, <1>8, <1>9, <1>10, <1>11, <1>12, <1>13, <1>14
  DEF Next, Kernel

-----------------------------------------------------------------------------
(* Cached translations *)

Plain == {"user", "allocproc", "setupkvm", "copy", "freevm", "reap"}

\* Process r is where it was, or goes on to a place where no more is known of
\* its translations.
Keeps(r) ==
    /\ tlb'[r] = tlb[r]
    /\ \/ pc'[r] = pc[r] /\ cr2'[r] = cr2[r] /\ lim'[r] = lim[r] /\ sz'[r] = sz[r]
          /\ child'[r] = child[r]
       \/ pc'[r] \in Plain /\ pc[r] \notin {"shrink", "copy", "freevm"}
       \/ pc[r] = "copy" /\ pc'[r] = "freevm" /\ child'[r] = child[r]
       \/ pc[r] = "cow" /\ pc'[r] = "owed" /\ cr2'[r] = cr2[r]
       \/ pc[r] = "grow" /\ pc'[r] = "undo" /\ sz'[r] = sz[r]

\* It has no translations.
Flushed(r) == tlb'[r] = NoTlb /\ (pc'[r] = "shrink" => pc[r] = "shrink" /\ lim'[r] = lim[r])

\* The pages that its translations lead to stay, and nothing new refers to them.
Safe(r) ==
    \A u \in VPage : tlb[r][u] # None /\ (pc[r] = "shrink" => u < lim[r]) =>
        /\ frame'[r][u] = frame[r][u]
        /\ \A q \in Proc, s \in Slot : frame'[q][s] = frame[r][u] => frame[q][s] = frame[r][u]

\* A process that keeps its place and its pages keeps its translations right.
LEMMA RowKept ==
    ASSUME NEW r \in Proc, TlbRow(r), Keeps(r), Safe(r)
    PROVE  TlbRow(r)'
<1>1. ASSUME NEW v \in VPage, tlb'[r][v] # None, pc'[r] = "shrink" => v < lim'[r]
      PROVE  frame'[r][v] = tlb'[r][v] /\ Only(r, v)'
  <2>1. tlb[r][v] # None /\ (pc[r] = "shrink" => v < lim[r]) BY <1>1 DEF Keeps
  <2>2. frame[r][v] = tlb[r][v] /\ Only(r, v) BY <2>1 DEF TlbRow
  <2>3. /\ frame'[r][v] = frame[r][v]
        /\ \A q \in Proc, s \in Slot : frame'[q][s] = frame[r][v] => frame[q][s] = frame[r][v]
    BY <2>1 DEF Safe
  <2>4. tlb'[r][v] = tlb[r][v] BY DEF Keeps
  <2>5. pc[r] \in {"copy", "freevm"} => pc'[r] \in {"copy", "freevm"} /\ child'[r] = child[r]
    BY DEF Keeps
  <2>6. ASSUME NEW q \in Proc, NEW s \in Slot, frame'[q][s] = tlb'[r][v]
        PROVE  s = v /\ (q = r \/ (pc'[r] \in {"copy", "freevm"} /\ q = child'[r]))
    <3>1. frame[q][s] = tlb[r][v] BY <2>2, <2>3, <2>4, <2>6
    <3> QED BY <2>2, <2>5, <3>1 DEF Only
  <2> QED BY <2>2, <2>3, <2>4, <2>6 DEF Only
<1>2. ASSUME NEW v \in VPage, tlb'[r][v] # None, pc'[r] \in {"grow", "undo"}
      PROVE  v < sz'[r]
  BY <1>2 DEF Keeps, TlbRow, Plain
<1>3. /\ pc'[r] \in {"unused", "embryo", "zombie"} => tlb'[r] = NoTlb
      /\ pc'[r] \in {"cow", "owed"} => tlb'[r][cr2'[r]] = None
      /\ pc'[r] = "shrink" => lim'[r] # 0
  BY DEF Keeps, TlbRow, Plain
<1> QED BY <1>1, <1>2, <1>3 DEF TlbRow

\* A process without translations has none that is wrong.
LEMMA RowFlushed ==
    ASSUME NEW r \in Proc, TlbRow(r), Flushed(r), Control'
    PROVE  TlbRow(r)'
<1>1. \A v \in VPage : tlb'[r][v] = None BY DEF Flushed, NoTlb
<1>2. pc'[r] \in {"cow", "owed"} => cr2'[r] \in VPage BY DEF Control
<1>3. tlb'[r] = NoTlb /\ (pc'[r] = "shrink" => lim'[r] # 0) BY DEF Flushed, TlbRow
<1> QED BY <1>1, <1>2, <1>3 DEF TlbRow

\* A step that changes no slot is safe for every process.
LEMMA SafeKept == ASSUME UNCHANGED frame, NEW r \in Proc PROVE Safe(r)
BY DEF Safe

\* A fresh page in an empty slot.
LEMMA SafeFill ==
    ASSUME TlbInv, NEW r \in Proc, NEW q \in Proc, NEW s \in Slot, NEW f \in Frame,
           frame[q][s] = None, \A x \in Proc, t \in Slot : frame[x][t] # f, PutAt(q, s, f)
    PROVE  Safe(r)
<1> SUFFICES ASSUME NEW u \in VPage, tlb[r][u] # None, pc[r] = "shrink" => u < lim[r]
             PROVE  /\ frame'[r][u] = frame[r][u]
                    /\ \A x \in Proc, t \in Slot :
                          frame'[x][t] = frame[r][u] => frame[x][t] = frame[r][u]
  BY DEF Safe
<1>1. frame[r][u] = tlb[r][u] BY DEF TlbInv, TlbRow
<1>2. u \in Slot BY Slots
<1>3. frame[r][u] # None /\ frame[r][u] # f BY <1>1, <1>2
<1> QED BY <1>2, <1>3 DEF PutAt

\* A slot gives up its page, and no translation of its process leads there.
LEMMA SafeClear ==
    ASSUME TlbInv, NEW r \in Proc, NEW q \in Proc, NEW s \in Slot, PutAt(q, s, None),
           s \in VPage => tlb[q][s] = None \/ (pc[q] = "shrink" /\ ~(s < lim[q]))
    PROVE  Safe(r)
<1> SUFFICES ASSUME NEW u \in VPage, tlb[r][u] # None, pc[r] = "shrink" => u < lim[r]
             PROVE  /\ frame'[r][u] = frame[r][u]
                    /\ \A x \in Proc, t \in Slot :
                          frame'[x][t] = frame[r][u] => frame[x][t] = frame[r][u]
  BY DEF Safe
<1>1. frame[r][u] = tlb[r][u] BY DEF TlbInv, TlbRow
<1>2. u \in Slot BY Slots
<1>3. frame[r][u] # None BY <1>1
<1>4. ~(r = q /\ u = s) OBVIOUS
<1> QED BY <1>2, <1>3, <1>4 DEF PutAt

\* Every step keeps cached translations right, if no program shrinks to
\* nothing (then deallocuvm has taken the pages and growproc does not flush).
LEMMA TlbStep ==
    ASSUME MinSz # 0, CowInv, CowInv', PrivInv, TlbInv, [Next]_vars
    PROVE  TlbInv'
<1>inv. TypeOK /\ Control /\ TypeInv /\ TypeInv' /\ SlotInv /\ RefInv /\ Control'
  BY DEF CowInv, TypeInv
<1>t. /\ pc \in [Proc -> PC] /\ frame \in [Proc -> [Slot -> Frame \cup {None}]]
      /\ tlb \in [Proc -> [VPage -> Frame \cup {None}]]
      /\ i \in [Proc -> 0 .. MaxSz] /\ sz \in [Proc -> 0 .. MaxSz] /\ lim \in [Proc -> 0 .. MaxSz]
      /\ cr2 \in [Proc -> VPage \cup {None}] /\ child \in [Proc -> Proc \cup {None}]
  BY <1>inv DEF TypeOK
<1>m. None \notin Frame /\ None \notin Proc /\ MaxSz \in Nat /\ MinSz \in 0 .. MaxSz
  BY ConstantsOK DEF ConstantsOK
<1>e. ASSUME NEW r \in Proc, pc[r] \in {"unused", "embryo", "zombie"} PROVE tlb[r] = NoTlb
  BY <1>e DEF TlbInv, TlbRow
<1>q. ASSUME \A r \in Proc : (Keeps(r) /\ Safe(r)) \/ Flushed(r) PROVE TlbInv'
  BY <1>q, <1>inv, RowKept, RowFlushed DEF TlbInv
<1>s. ASSUME UNCHANGED frame, \A r \in Proc : Keeps(r) \/ Flushed(r) PROVE TlbInv'
  BY <1>s, <1>q, SafeKept
<1>a. ASSUME NEW p \in Proc, NEW s \in Slot, NEW next \in Plain, AllocForChild(p, s, next),
             pc[p] \notin {"shrink", "copy", "freevm"} \/ pc[p] = next,
             child[p] \in Proc, frame[child[p]][s] = None
      PROVE  TlbInv'
  <2>1. PICK f \in Frame : Kalloc(f) /\ frame' = [frame EXCEPT ![child[p]][s] = f]
    BY <1>a DEF AllocForChild
  <2>2. \A r \in Proc, t \in Slot : frame[r][t] # f BY <2>1, <1>inv, KallocUnheld
  <2>3. PutAt(child[p], s, f) BY <2>1, <1>a, <1>inv, PutIsPutAt
  <2> DEFINE c == child[p]
  <2>4. c \in Proc /\ frame[c][s] = None /\ PutAt(c, s, f) BY <2>3, <1>a
  <2> HIDE DEF c
  <2>5. \A r \in Proc : Safe(r) BY <2>2, <2>4, SafeFill
  <2>6. pc' = [pc EXCEPT ![p] = next] /\ UNCHANGED <<tlb, cr2, lim, sz, child>>
    BY <1>a DEF AllocForChild
  <2>7. \A r \in Proc : Keeps(r) BY <2>6, <1>a, <1>t DEF Keeps
  <2> QED BY <2>5, <2>7, <1>q
<1>1. ASSUME NEW p \in Proc, AllocStack(p) PROVE TlbInv'
  <2>1. AllocForChild(p, KStack, "setupkvm") /\ pc[p] = "allocproc" BY <1>1 DEF AllocStack
  <2>2. child[p] \in Proc /\ frame[child[p]][KStack] = None
    BY <2>1, <1>inv, Slots DEF Control, Building, SlotInv, Empty
  <2> QED BY <2>1, <2>2, <1>a, Slots DEF Plain
<1>2. ASSUME NEW p \in Proc, SetupKvm(p) PROVE TlbInv'
  <2>1. AllocForChild(p, PgDir, "copy") /\ pc[p] = "setupkvm" BY <1>2 DEF SetupKvm
  <2>2. child[p] \in Proc /\ frame[child[p]][PgDir] = None
    BY <2>1, <1>inv, Slots DEF Control, Building, SlotInv, Empty
  <2> QED BY <2>1, <2>2, <1>a, Slots DEF Plain
<1>3. ASSUME NEW p \in Proc, CopyPgTab(p) PROVE TlbInv'
  <2>1. AllocForChild(p, PgTab, "copy") /\ pc[p] = "copy" /\ frame[child[p]][PgTab] = None
    BY <1>3 DEF CopyPgTab
  <2>2. child[p] \in Proc BY <2>1, <1>inv DEF Control, Building
  <2> QED BY <2>1, <2>2, <1>a, Slots DEF Plain
<1>4. ASSUME NEW p \in Proc, CopyPage(p) PROVE TlbInv'
  <2> DEFINE c == child[p]  v == i[p]  f == frame[p][v]
  <2>1. /\ pc[p] = "copy" /\ v < sz[p] /\ f # None /\ frame' = [frame EXCEPT ![c][v] = f]
        /\ UNCHANGED <<pc, tlb, cr2, lim, sz, child>>
    BY <1>4 DEF CopyPage
  <2>2. c \in Proc /\ pc[c] = "embryo" /\ frame[c][v] = None /\ v \in VPage /\ v \in Slot
    <3>1. v \in VPage BY <2>1, <1>t, Below
    <3> QED BY <2>1, <3>1, <1>inv, <1>t, Slots DEF Control, Building, SlotInv, Empty, Above
  <2>4. PutAt(c, v, f) BY <2>1, <2>2, <1>inv, PutIsPutAt
  <2>5. tlb[c] = NoTlb BY <2>2, <1>e
  <2>6. \A r \in Proc : Keeps(r) BY <2>1 DEF Keeps
  <2>7. c = child[p] /\ f = frame[p][v] OBVIOUS
  <2> HIDE DEF c, v, f
  <2>8. ASSUME NEW r \in Proc, NEW u \in VPage, tlb[r][u] # None, pc[r] # "shrink"
        PROVE  /\ frame[r][u] = tlb[r][u] /\ frame'[r][u] = frame[r][u] /\ Only(r, u)
               /\ \A x \in Proc, t \in Slot : frame'[x][t] = frame[r][u] =>
                     frame[x][t] = frame[r][u] \/ (r = p /\ u = v /\ x = c /\ t = v)
    <3>1. frame[r][u] = tlb[r][u] /\ Only(r, u) BY <2>8 DEF TlbInv, TlbRow
    <3>2. r # c BY <2>5, <2>8 DEF NoTlb
    <3>3. u \in Slot /\ frame'[r][u] = frame[r][u] BY <2>4, <3>2, Slots DEF PutAt
    <3>4. frame[r][u] = f => u = v /\ r = p
      <4>1. ASSUME pc[r] \in {"copy", "freevm"}, p = child[r] PROVE FALSE
        BY <4>1, <2>1, <1>inv DEF Control, Building
      <4> QED BY <2>2, <2>7, <3>1, <4>1 DEF Only
    <3> QED BY <2>4, <3>1, <3>3, <3>4 DEF PutAt
  <2>9. ASSUME NEW r \in Proc, r # p PROVE TlbRow(r)'
    <3>1. Safe(r)
      <4> SUFFICES ASSUME NEW u \in VPage, tlb[r][u] # None, pc[r] = "shrink" => u < lim[r]
                   PROVE  /\ frame'[r][u] = frame[r][u]
                          /\ \A x \in Proc, t \in Slot :
                                frame'[x][t] = frame[r][u] => frame[x][t] = frame[r][u]
        BY DEF Safe
      <4>1. frame[r][u] = tlb[r][u] /\ Only(r, u) BY DEF TlbInv, TlbRow
      <4>2. r # c BY <2>5 DEF NoTlb
      <4>3. u \in Slot /\ frame'[r][u] = frame[r][u] BY <2>4, <4>2, Slots DEF PutAt
      <4>4. frame[r][u] # f
        <5>1. ASSUME pc[r] \in {"copy", "freevm"}, p = child[r] PROVE FALSE
          BY <5>1, <2>1, <1>inv DEF Control, Building
        <5> QED BY <2>2, <2>7, <2>9, <4>1, <5>1 DEF Only
      <4> QED BY <2>4, <4>3, <4>4 DEF PutAt
    <3> QED BY <3>1, <2>6, RowKept DEF TlbInv
  <2>10. TlbRow(p)'
    <3>1. ASSUME NEW u \in VPage, tlb[p][u] # None PROVE frame'[p][u] = tlb[p][u] /\ Only(p, u)'
      <4>1. /\ frame[p][u] = tlb[p][u] /\ frame'[p][u] = frame[p][u] /\ Only(p, u)
            /\ \A x \in Proc, t \in Slot : frame'[x][t] = frame[p][u] =>
                  frame[x][t] = frame[p][u] \/ (u = v /\ x = c /\ t = v)
        BY <2>1, <2>8, <3>1
      <4> QED BY <4>1, <2>1, <2>7 DEF Only
    <3> QED BY <2>1, <3>1 DEF TlbRow
  <2> QED BY <2>9, <2>10 DEF TlbInv
<1>5. ASSUME NEW p \in Proc, GrowPage(p) PROVE TlbInv'
  <2> DEFINE v == i[p]
  <2>1. PICK f \in Frame : Kalloc(f) /\ frame' = [frame EXCEPT ![p][v] = f]
    BY <1>5 DEF GrowPage
  <2>2. /\ pc[p] = "grow" /\ v < lim[p] /\ UNCHANGED <<pc, tlb, cr2, lim, sz, child>>
    BY <1>5 DEF GrowPage
  <2>3. v \in VPage /\ v \in Slot BY <2>2, <1>t, Below, Slots
  <2>4. frame[p][v] = None BY <2>2, <2>3, <1>inv DEF SlotInv, Empty, Above, VPage
  <2> HIDE DEF v
  <2>5. \A r \in Proc, t \in Slot : frame[r][t] # f BY <2>1, <1>inv, KallocUnheld
  <2>6. PutAt(p, v, f) BY <2>1, <2>3, <1>inv, PutIsPutAt
  <2>7. \A r \in Proc : Safe(r) BY <2>3, <2>4, <2>5, <2>6, SafeFill
  <2>8. \A r \in Proc : Keeps(r) BY <2>2 DEF Keeps
  <2> QED BY <2>7, <2>8, <1>q
<1>6. ASSUME NEW p \in Proc, KfreeDecr(p) PROVE TlbInv'
  <2>1. PICK s \in Doomed(p) : frame' = [frame EXCEPT ![Owner(p)][s] = None]
    BY <1>6 DEF KfreeDecr
  <2>2. UNCHANGED <<pc, tlb, cr2, lim, sz, child>> BY <1>6 DEF KfreeDecr
  <2> DEFINE q == Owner(p)
  <2>3. q \in Proc /\ s \in Slot BY <1>inv, <1>t, DoomedHeld
  <2>4. PutAt(q, s, None) BY <2>1, <2>3, <1>inv, PutIsPutAt
  <2>5. s \in VPage => tlb[q][s] = None \/ (pc[q] = "shrink" /\ ~(s < lim[q]))
    <3>1. CASE pc[p] \in {"freevm", "reap"}
      <4>1. q = child[p] /\ pc[q] \in {"embryo", "zombie"}
        BY <3>1, <1>inv DEF Owner, Control, Building
      <4> QED BY <4>1, <2>3, <1>e DEF NoTlb
    <3>2. CASE pc[p] = "shrink"
      <4>1. q = p /\ s \in lim[p] .. MaxSz - 1 BY <3>2 DEF Owner, Doomed, Held
      <4> QED BY <4>1, <3>2, <1>t
    <3>3. CASE pc[p] = "undo"
      <4>1. q = p /\ s \in sz[p] .. MaxSz - 1 BY <3>3 DEF Owner, Doomed, Held
      <4>2. ~(s < sz[p]) BY <4>1, <1>t
      <4> QED BY <4>1, <4>2, <3>3 DEF TlbInv, TlbRow
    <3> QED BY <3>1, <3>2, <3>3 DEF Doomed
  <2> HIDE DEF q
  <2>6. \A r \in Proc : Safe(r) BY <2>3, <2>4, <2>5, SafeClear
  <2>7. \A r \in Proc : Keeps(r) BY <2>2 DEF Keeps
  <2> QED BY <2>6, <2>7, <1>q
<1>7. ASSUME NEW p \in Proc, CowDecr(p) PROVE TlbInv'
  <2>1. /\ frame' = [frame EXCEPT ![p][Owed] = None] /\ pc' = [pc EXCEPT ![p] = "user"]
        /\ tlb' = [tlb EXCEPT ![p] = NoTlb] /\ UNCHANGED <<cr2, lim, sz, child>>
    BY <1>7 DEF CowDecr, FaultReturns
  <2>2. PutAt(p, Owed, None) BY <2>1, <1>inv, Slots, PutIsPutAt
  <2>3. \A r \in Proc : Safe(r) BY <2>2, Slots, SafeClear
  <2>4. \A r \in Proc : Keeps(r) \/ Flushed(r) BY <2>1, <1>t DEF Keeps, Flushed
  <2> QED BY <2>3, <2>4, <1>q
<1>8. ASSUME NEW p \in Proc, CowReuse(p) PROVE TlbInv'
  <2>1. /\ pc' = [pc EXCEPT ![p] = "user"] /\ tlb' = [tlb EXCEPT ![p] = NoTlb]
        /\ UNCHANGED <<frame, cr2, lim, sz, child>>
    BY <1>8 DEF CowReuse, FaultReturns
  <2>2. \A r \in Proc : Keeps(r) \/ Flushed(r) BY <2>1, <1>t DEF Keeps, Flushed
  <2> QED BY <2>1, <2>2, <1>s
<1>9. ASSUME NEW p \in Proc, CowCopy(p) PROVE TlbInv'
  <2> DEFINE v == cr2[p]  e == frame[p][v]
  <2>1. PICK f \in Frame : Kalloc(f) /\ frame' = [frame EXCEPT ![p][v] = f, ![p][Owed] = e]
    BY <1>9 DEF CowCopy
  <2>2. /\ pc[p] = "cow" /\ pc' = [pc EXCEPT ![p] = "owed"]
        /\ UNCHANGED <<tlb, cr2, lim, sz, child>>
    BY <1>9 DEF CowCopy
  <2>3. v \in VPage /\ v \in Slot /\ v # Owed /\ Owed \in Slot /\ frame[p][v] = e
    BY <2>2, <1>inv, Slots DEF Control
  <2>4. tlb[p][v] = None BY <2>2 DEF TlbInv, TlbRow
  <2> HIDE DEF v, e
  <2>5. \A r \in Proc, t \in Slot : frame[r][t] # f BY <2>1, <1>inv, KallocUnheld
  <2>6. \A r \in Proc, t \in Slot :
            frame'[r][t] = IF r = p /\ t = v THEN f
                           ELSE IF r = p /\ t = Owed THEN e ELSE frame[r][t]
    BY <2>1, <2>3, <1>t
  <2>7. ASSUME NEW r \in Proc PROVE Safe(r)
    <3> SUFFICES ASSUME NEW u \in VPage, tlb[r][u] # None, pc[r] = "shrink" => u < lim[r]
                 PROVE  /\ frame'[r][u] = frame[r][u]
                        /\ \A x \in Proc, t \in Slot :
                              frame'[x][t] = frame[r][u] => frame[x][t] = frame[r][u]
      BY DEF Safe
    <3>1. u \in Slot /\ u # Owed BY Slots
    <3>2. frame'[r][u] = frame[r][u] BY <2>4, <2>6, <3>1
    <3>3. frame[r][u] # f BY <2>5, <3>1
    <3>4. frame[r][u] # e
      <4>1. frame[r][u] = tlb[r][u] /\ Only(r, u) BY DEF TlbInv, TlbRow
      <4>2. ASSUME pc[r] \in {"copy", "freevm"}, p = child[r] PROVE FALSE
        BY <4>2, <2>2, <1>inv DEF Control, Building
      <4> QED BY <2>3, <2>4, <4>1, <4>2 DEF Only
    <3> QED BY <2>6, <3>2, <3>3, <3>4
  <2>8. \A r \in Proc : Keeps(r) BY <2>2, <1>t DEF Keeps
  <2> QED BY <2>7, <2>8, <1>q
<1>10. ASSUME NEW p \in Proc, NEW v \in VPage, Fault(p, v) PROVE TlbInv'
  <2>1. /\ pc' = [pc EXCEPT ![p] = "cow"] /\ cr2' = [cr2 EXCEPT ![p] = v]
        /\ pc[p] = "user" /\ tlb[p][v] = None /\ UNCHANGED <<frame, tlb, lim, sz, child>>
    BY <1>10 DEF Fault
  <2>2. ASSUME NEW r \in Proc, r # p PROVE TlbRow(r)'
    <3>1. Keeps(r) BY <2>1, <2>2, <1>t DEF Keeps
    <3> QED BY <3>1, <2>1, SafeKept, RowKept DEF TlbInv
  <2>3. TlbRow(p)'
    <3>1. pc'[p] = "cow" /\ cr2'[p] = v BY <2>1, <1>t
    <3> QED BY <2>1, <3>1 DEF TlbInv, TlbRow, Only
  <2> QED BY <2>2, <2>3 DEF TlbInv
<1>11. ASSUME NEW p \in Proc, NEW v \in VPage, NEW x \in Val, Store(p, v, x) PROVE TlbInv'
  <2>1. /\ pc[p] = "user" /\ (tlb[p][v] # None \/ Permitted(p, v))
        /\ tlb' = [tlb EXCEPT ![p][v] = Target(p, v)]
        /\ cr2' = [cr2 EXCEPT ![p] = None]
        /\ UNCHANGED <<frame, pc, lim, sz, child>>
    BY <1>11 DEF Store
  <2>2. ASSUME NEW r \in Proc, r # p PROVE TlbRow(r)'
    <3>1. Keeps(r) BY <2>1, <2>2, <1>t DEF Keeps
    <3> QED BY <3>1, <2>1, SafeKept, RowKept DEF TlbInv
  <2>3. \A u \in VPage : tlb[p][u] # None => frame[p][u] = tlb[p][u] /\ Only(p, u)
    BY <2>1 DEF TlbInv, TlbRow
  <2>4. tlb[p][v] = None => frame[p][v] # None /\ Sole(p, v)
    BY <2>1 DEF Permitted, Writable, PrivInv
  <2>5. \A u \in VPage : tlb'[p][u] = IF u = v THEN Target(p, v) ELSE tlb[p][u]
    BY <2>1, <1>t
  <2>6. ASSUME NEW u \in VPage, tlb'[p][u] # None PROVE frame[p][u] = tlb'[p][u] /\ Only(p, u)'
    <3>1. CASE u = v /\ tlb[p][v] = None
      <4>1. tlb'[p][u] = frame[p][v] /\ Sole(p, v) BY <2>4, <2>5, <3>1 DEF Target
      <4> QED BY <2>1, <3>1, <4>1 DEF Only, Sole
    <3>2. CASE ~(u = v /\ tlb[p][v] = None)
      <4>1. tlb'[p][u] = tlb[p][u] BY <2>5, <3>2 DEF Target
      <4> QED BY <2>1, <2>3, <2>6, <4>1 DEF Only
    <3> QED BY <3>1, <3>2
  <2>7. TlbRow(p)' BY <2>1, <2>6 DEF TlbRow
  <2> QED BY <2>2, <2>7 DEF TlbInv
<1>12. ASSUME NEW p \in Proc, NEW n \in 1 .. MaxSz, Grow(p, n) PROVE TlbInv'
  <2>1. /\ pc[p] = "user" /\ pc' = [pc EXCEPT ![p] = "grow"] /\ lim' = [lim EXCEPT ![p] = n]
        /\ UNCHANGED <<frame, tlb, cr2, sz, child>>
    BY <1>12 DEF Grow
  <2>2. ASSUME NEW r \in Proc, r # p PROVE TlbRow(r)'
    <3>1. Keeps(r) BY <2>1, <2>2, <1>t DEF Keeps
    <3> QED BY <3>1, <2>1, SafeKept, RowKept DEF TlbInv
  <2>3. pc'[p] = "grow" BY <2>1, <1>t
  <2>4. \A u \in VPage : tlb[p][u] # None => frame[p][u] = tlb[p][u] /\ Only(p, u)
    BY <2>1 DEF TlbInv, TlbRow
  <2>5. \A u \in VPage : tlb[p][u] # None => u < sz[p]
    <3>1. \A u \in VPage : ~(u < sz[p]) => frame[p][u] = None
      BY <2>1, <1>inv, <1>t DEF SlotInv, AtSize, Empty, Above, VPage
    <3> QED BY <2>4, <3>1
  <2>6. TlbRow(p)' BY <2>1, <2>3, <2>4, <2>5 DEF TlbRow, Only
  <2> QED BY <2>2, <2>6 DEF TlbInv
<1>13. ASSUME NEW p \in Proc, NEW n \in MinSz .. MaxSz, Shrink(p, n) PROVE TlbInv'
  <2>1. /\ pc[p] = "user" /\ pc' = [pc EXCEPT ![p] = "shrink"] /\ lim' = [lim EXCEPT ![p] = n]
        /\ UNCHANGED <<frame, tlb, cr2, sz, child>>
    BY <1>13 DEF Shrink
  <2>2. ASSUME NEW r \in Proc, r # p PROVE TlbRow(r)'
    <3>1. Keeps(r) BY <2>1, <2>2, <1>t DEF Keeps
    <3> QED BY <3>1, <2>1, SafeKept, RowKept DEF TlbInv
  <2>3. pc'[p] = "shrink" /\ lim'[p] # 0 BY <2>1, <1>t, <1>m
  <2>4. \A u \in VPage : tlb[p][u] # None => frame[p][u] = tlb[p][u] /\ Only(p, u)
    BY <2>1 DEF TlbInv, TlbRow
  <2>5. TlbRow(p)' BY <2>1, <2>3, <2>4 DEF TlbRow, Only
  <2> QED BY <2>2, <2>5 DEF TlbInv
<1>14. ASSUME NEW p \in Proc, SlotReleased(p) PROVE TlbInv'
  <2> DEFINE c == child[p]
  <2>1. /\ pc' = [pc EXCEPT ![p] = "user", ![c] = "unused"] /\ pc[p] \in {"freevm", "reap"}
        /\ child' = [child EXCEPT ![p] = None] /\ UNCHANGED <<frame, tlb, cr2, lim, sz>>
        /\ Doomed(p) = {}
    BY <1>14 DEF SlotReleased, Released
  <2>2. c \in Proc /\ pc[c] \in {"embryo", "zombie"} /\ c # p
    BY <2>1, <1>inv DEF Control, Building
  <2>3. \A s \in Slot : frame[c][s] = None
    BY <2>1, Slots DEF Doomed, Held
  <2>4. tlb[c] = NoTlb BY <2>2, <1>e
  <2>5. \A r \in Proc \ {p, c} : Keeps(r) BY <2>1, <2>2, <1>t DEF Keeps
  <2>6. Flushed(c) BY <2>1, <2>2, <2>4, <1>t DEF Flushed
  <2>7. \A r \in Proc \ {p} : TlbRow(r)'
    <3>1. \A r \in Proc \ {p, c} : TlbRow(r)'
      BY <2>1, <2>5, SafeKept, RowKept DEF TlbInv
    <3>2. \A r \in Proc : Flushed(r) => TlbRow(r)' BY <1>inv, RowFlushed DEF TlbInv
    <3> QED BY <2>6, <3>1, <3>2
  <2>8. pc'[p] = "user" BY <2>1, <2>2, <1>t
  <2>9. \A u \in VPage : tlb[p][u] # None => frame[p][u] = tlb[p][u] /\ Only(p, u)
    BY <2>1 DEF TlbInv, TlbRow
  <2>10. ASSUME NEW u \in VPage, tlb[p][u] # None, NEW q \in Proc, NEW s \in Slot,
                frame[q][s] = tlb[p][u]
         PROVE  s = u /\ q = p
    BY <2>3, <2>9, <2>10 DEF Only
  <2> HIDE DEF c
  <2>11. \A u \in VPage : tlb'[p][u] # None => frame'[p][u] = tlb'[p][u] /\ Only(p, u)'
    <3> SUFFICES ASSUME NEW u \in VPage, tlb'[p][u] # None
                 PROVE  frame'[p][u] = tlb'[p][u] /\ Only(p, u)'
      OBVIOUS
    <3>1. tlb[p][u] # None /\ frame' = frame /\ tlb' = tlb BY <2>1
    <3>2. \A q \in Proc, s \in Slot : frame[q][s] = tlb[p][u] => s = u /\ q = p
      BY <2>10, <3>1
    <3>3. Only(p, u)' BY <3>1, <3>2 DEF Only
    <3> QED BY <2>9, <3>1, <3>3
  <2>12. TlbRow(p)' BY <2>8, <2>11 DEF TlbRow
  <2> QED BY <2>7, <2>12 DEF TlbInv
<1>15. ASSUME NEW p \in Proc, ForkReturns(p) PROVE TlbInv'
  <2> DEFINE c == child[p]
  <2>1. /\ pc[p] = "copy" /\ tlb' = [tlb EXCEPT ![p] = NoTlb]
        /\ pc' = [pc EXCEPT ![p] = "user", ![c] = "user"]
        /\ sz' = [sz EXCEPT ![c] = sz[p]] /\ child' = [child EXCEPT ![p] = None]
        /\ UNCHANGED <<frame, cr2, lim>>
    BY <1>15 DEF ForkReturns
  <2>2. c \in Proc /\ pc[c] = "embryo" /\ tlb[c] = NoTlb
    BY <2>1, <1>inv, <1>e DEF Control, Building
  <2>3. \A r \in Proc : Keeps(r) \/ Flushed(r) BY <2>1, <2>2, <1>t DEF Keeps, Flushed
  <2> QED BY <2>1, <2>3, <1>s
<1>16. ASSUME NEW p \in Proc, NEW c \in Proc, Fork(p, c) \/ Wait(p, c) PROVE TlbInv'
  <2>1. /\ pc[p] = "user" /\ pc[c] \in {"unused", "zombie"}
        /\ UNCHANGED <<frame, tlb, cr2, lim, sz>>
        /\ child' = [child EXCEPT ![p] = c]
        /\ \/ pc' = [pc EXCEPT ![p] = "allocproc", ![c] = "embryo"]
           \/ pc' = [pc EXCEPT ![p] = "reap"]
    BY <1>16 DEF Fork, Wait
  <2>2. tlb[c] = NoTlb BY <2>1, <1>e
  <2>3. \A r \in Proc : Keeps(r) \/ Flushed(r)
    BY <2>1, <2>2, <1>t DEF Keeps, Flushed, Plain
  <2> QED BY <2>1, <2>3, <1>s
<1>17. ASSUME NEW p \in Proc, NoStack(p) PROVE TlbInv'
  <2> DEFINE c == child[p]
  <2>1. /\ pc[p] = "allocproc" /\ pc' = [pc EXCEPT ![p] = "user", ![c] = "unused"]
        /\ child' = [child EXCEPT ![p] = None] /\ UNCHANGED <<frame, tlb, cr2, lim, sz>>
    BY <1>17 DEF NoStack
  <2>2. c \in Proc /\ pc[c] = "embryo" /\ tlb[c] = NoTlb
    BY <2>1, <1>inv, <1>e DEF Control, Building
  <2>3. \A r \in Proc : Keeps(r) \/ Flushed(r)
    BY <2>1, <2>2, <1>t DEF Keeps, Flushed, Plain
  <2> QED BY <2>1, <2>3, <1>s
<1>18. ASSUME NEW p \in Proc, GrowDone(p) \/ GrowUndone(p) \/ ShrinkDone(p) PROVE TlbInv'
  <2>1. CASE GrowUndone(p)
    <3>1. /\ pc[p] = "undo" /\ pc' = [pc EXCEPT ![p] = "user"]
          /\ \A r \in Proc \ {p} : lim'[r] = lim[r] /\ sz'[r] = sz[r]
          /\ UNCHANGED <<frame, tlb, cr2, child>>
      BY <2>1, <1>t DEF GrowUndone, GrowprocReturns
    <3>2. \A r \in Proc : Keeps(r) BY <3>1, <1>t DEF Keeps, Plain
    <3> QED BY <3>1, <3>2, <1>s
  <2>2. CASE GrowDone(p) \/ ShrinkDone(p)
    <3>1. lim[p] # 0 \/ GrowDone(p) BY <2>2 DEF ShrinkDone, TlbInv, TlbRow
    <3>2. /\ pc' = [pc EXCEPT ![p] = "user"] /\ tlb' = [tlb EXCEPT ![p] = NoTlb]
          /\ \A r \in Proc \ {p} : lim'[r] = lim[r] /\ sz'[r] = sz[r]
          /\ UNCHANGED <<frame, cr2, child>>
      BY <2>2, <3>1, <1>t DEF GrowDone, ShrinkDone, GrowprocReturns
    <3>3. \A r \in Proc : Keeps(r) \/ Flushed(r) BY <3>2, <1>t DEF Keeps, Flushed
    <3> QED BY <3>2, <3>3, <1>s
  <2> QED BY <1>18, <2>1, <2>2
<1>19. ASSUME NEW p \in Proc, CopyFails(p) \/ GrowFails(p) PROVE TlbInv'
  <2>1. /\ UNCHANGED <<frame, tlb, cr2, lim, sz, child>>
        /\ \/ pc[p] \in {"setupkvm", "copy"} /\ pc' = [pc EXCEPT ![p] = "freevm"]
           \/ pc[p] = "grow" /\ pc' = [pc EXCEPT ![p] = "undo"]
    BY <1>19 DEF CopyFails, GrowFails
  <2>2. \A r \in Proc : Keeps(r) BY <2>1, <1>t DEF Keeps, Plain
  <2> QED BY <2>1, <2>2, <1>s
<1>20. ASSUME NEW p \in Proc, Exit(p) \/ Evict(p) PROVE TlbInv'
  <2>1. /\ UNCHANGED <<frame, cr2, lim, sz, child>> /\ tlb' = [tlb EXCEPT ![p] = NoTlb]
        /\ (pc' = pc \/ pc' = [pc EXCEPT ![p] = "zombie"])
    BY <1>20 DEF Exit, Evict
  <2>2. \A r \in Proc : Keeps(r) \/ Flushed(r) BY <2>1, <1>t DEF Keeps, Flushed
  <2> QED BY <2>1, <2>2, <1>s
<1>21. ASSUME UNCHANGED <<frame, tlb, pc, cr2, lim, sz, child>> PROVE TlbInv'
  <2>1. \A r \in Proc : Keeps(r) BY <1>21 DEF Keeps
  <2> QED BY <1>21, <2>1, <1>s
<1>22. ASSUME NEW p \in Proc,
              \/ CopyPanics(p) \/ CowPanics(p) \/ KfreePush(p) \/ KallocPanics(p)
              \/ \E v \in VPage : FaultAbsent(p, v)
       PROVE  TlbInv'
  BY <1>22, <1>21 DEF CopyPanics, CowPanics, KfreePush, KallocPanics, FaultAbsent
<1>23. CASE UNCHANGED vars BY <1>23, <1>21 DEF vars
<1> QED
  BY <1>1, <1>2, <1>3, <1>4, <1>5, <1>6, <1>7, <1>8, <1>9, <1>10, <1>11, <1>12, <1>13, <1>14,
     <1>15, <1>16, <1>17, <1>18, <1>19, <1>20, <1>22, <1>23 DEF Next, Kernel, User, Access

\* At first nothing is shared and nothing cached.
LEMMA InitPriv == Init => PrivInv /\ TlbInv /\ CopyInv /\ LockInv
<1> SUFFICES ASSUME Init PROVE PrivInv /\ TlbInv /\ CopyInv /\ LockInv
  OBVIOUS
<1>c. /\ InitProc \in Proc /\ None \notin Frame /\ Boot \in [BootSlot -> Frame]
      /\ \A s, t \in BootSlot : Boot[s] = Boot[t] => s = t
  BY ConstantsOK DEF ConstantsOK
<1>1. \A p \in Proc, s \in Slot :
        frame[p][s] = IF p = InitProc /\ s \in BootSlot THEN Boot[s] ELSE None
  BY DEF Init
<1>2. \A p \in Proc : pc[p] \in {"user", "unused"} /\ tlb[p] = NoTlb /\ i[p] = 0
  BY DEF Init
<1>3. ASSUME NEW p \in Proc, NEW v \in VPage, frame[p][v] # None PROVE Sole(p, v)
  <2>1. v \in Slot BY Slots
  <2>2. p = InitProc /\ v \in BootSlot /\ frame[p][v] = Boot[v] BY <1>1, <1>3, <2>1
  <2> QED BY <1>c, <1>1, <2>2 DEF Sole
<1>4. PrivInv BY <1>2, <1>3 DEF PrivInv
<1>5. TlbInv
  <2>1. \A p \in Proc, v \in VPage : tlb[p][v] = None BY <1>2 DEF NoTlb
  <2> QED BY <1>2, <2>1 DEF TlbInv, TlbRow
<1>6. CopyInv BY <1>2 DEF CopyInv
<1>7. LockInv BY DEF Init, LockInv
<1> QED BY <1>4, <1>5, <1>6, <1>7

\* The page that kfree has in hand is there only under kmem.lock.
LEMMA LockStep == TypeOK /\ LockInv /\ [Next]_vars => LockInv'
<1> SUFFICES ASSUME TypeOK, LockInv, [Next]_vars PROVE LockInv'
  OBVIOUS
<1>0. None \notin Proc BY ConstantsOK DEF ConstantsOK
<1>1. ASSUME NEW p \in Proc, KfreeDecr(p) PROVE LockInv'
  BY <1>0, <1>1 DEF KfreeDecr, LockInv
<1>2. ASSUME NEW p \in Proc, KfreePush(p) PROVE LockInv'
  BY <1>2 DEF KfreePush, LockInv
<1>3. ASSUME UNCHANGED <<lock, victim>> PROVE LockInv'
  BY <1>3 DEF LockInv
<1>4. ASSUME NEW p \in Proc, Kernel(p), ~KfreeDecr(p), ~KfreePush(p) PROVE LockInv'
  BY <1>3, <1>4 DEF Kernel, AllocStack, SetupKvm, CopyPgTab, AllocForChild, NoStack, CopyFails,
     CopyPage, CopyPanics, ForkReturns, GrowPage, GrowFails, GrowDone, GrowUndone, ShrinkDone,
     GrowprocReturns, SlotReleased, CowReuse, CowCopy, CowPanics, CowDecr, KallocPanics
<1>5. ASSUME NEW p \in Proc, User(p) \/ Evict(p) PROVE LockInv'
  BY <1>3, <1>5 DEF User, Access, Fork, Wait, Grow, Shrink, Store, FaultAbsent, Fault, Exit, Evict
<1>6. CASE UNCHANGED vars BY <1>3, <1>6 DEF vars
<1> QED BY <1>1, <1>2, <1>4, <1>5, <1>6 DEF Next

(* No page that a program may write is mapped in a second place, whatever   *)
(* forks and faults are under way: copyuvm takes PTE_W from both sides, and *)
(* CoW_handler gives it back when its reference is the last one.            *)
THEOREM SharedIsReadOnly == Spec => []WritableIsPrivate
<1>1. Init => PrivInv BY InitPriv
<1>2. CowInv /\ CowInv' /\ PrivInv /\ [Next]_vars => PrivInv' BY PrivStep
<1>3. PrivInv => WritableIsPrivate
  <2> SUFFICES ASSUME PrivInv, NEW p \in Proc, NEW v \in VPage,
                      frame[p][v] # None, perm[p][v].w
               PROVE  UserHolders(frame[p][v]) = {<<p, v>>}
    BY DEF WritableIsPrivate
  <2>1. \A q \in Proc, u \in VPage : frame[q][u] = frame[p][v] => q = p /\ u = v
    BY Slots DEF PrivInv, Sole
  <2> QED BY <2>1 DEF UserHolders
<1> QED BY <1>1, <1>2, <1>3, CowInvariant, PTL DEF Spec

\* The invariants about sharing and translations together.
SharingInv == CowInv /\ PrivInv /\ TlbInv

\* They hold in every reachable state, if no program shrinks to nothing.
LEMMA Sharing == ASSUME MinSz # 0 PROVE Spec => []SharingInv
<1>1. Init => PrivInv /\ TlbInv BY InitPriv
<1>2. CowInv /\ CowInv' /\ PrivInv /\ TlbInv /\ [Next]_vars => PrivInv' /\ TlbInv'
  BY PrivStep, TlbStep
<1>3. CowInv /\ PrivInv /\ TlbInv => SharingInv BY DEF SharingInv
<1> QED BY <1>1, <1>2, <1>3, CowInvariant, PTL DEF Spec

(* In user code no cached translation is older than the page table: the     *)
(* flushes at the end of copyuvm, CoW_handler and growproc are enough, if   *)
(* no program shrinks to nothing.                                           *)
THEOREM FlushesSuffice == ASSUME MinSz # 0 PROVE Spec => []TlbIsFresh
<1>1. SharingInv => TlbIsFresh
  <2> SUFFICES ASSUME TlbInv, NEW p \in Proc, NEW v \in VPage,
                      pc[p] = "user", tlb[p][v] # None
               PROVE  UserHolders(tlb[p][v]) = {<<p, v>>}
    BY DEF TlbIsFresh, SharingInv
  <2>1. frame[p][v] = tlb[p][v] BY DEF TlbInv, TlbRow
  <2>2. \A q \in Proc, u \in VPage : frame[q][u] = tlb[p][v] => q = p /\ u = v
    BY Slots DEF TlbInv, TlbRow, Only
  <2> QED BY <2>1, <2>2 DEF UserHolders
<1> QED BY <1>1, Sharing, PTL

(* kfree and the failing forks and sbrks lose no page: only a CoW_handler   *)
(* that gives up the last reference does (kalloc.c:153, decr_refc).         *)
THEOREM OnlyHandlersLosePages == Spec => OnlyHandlersLose
<1> DEFINE A == \A f \in Lost' \ Lost :
                   \E p \in Proc : frame[p][Owed] = f /\ frame'[p][Owed] = None
<1>0. None \notin Proc /\ None \notin Frame BY ConstantsOK DEF ConstantsOK
<1>1. ASSUME CowInv, LockInv, [Next]_vars PROVE A
  <2> SUFFICES ASSUME NEW f \in Frame, refc'[f] = 0, f \notin freelist', f # victim', f \notin Lost
               PROVE  \E p \in Proc : frame[p][Owed] = f /\ frame'[p][Owed] = None
    BY DEF Lost
  <2>t. /\ refc \in [Frame -> Nat] /\ frame \in [Proc -> [Slot -> Frame \cup {None}]]
        /\ freelist \subseteq Frame
    BY <1>1 DEF CowInv, TypeInv, TypeOK
  <2>l. refc[f] # 0 \/ f \in freelist \/ f = victim BY DEF Lost
  <2>s. ASSUME UNCHANGED <<refc, freelist, victim>> PROVE FALSE BY <2>s, <2>l
  <2>k. ASSUME NEW g, Kalloc(g), UNCHANGED victim PROVE FALSE
    <3>1. g \in Frame /\ refc' = [refc EXCEPT ![g] = @ + 1] /\ freelist' = freelist \ {g}
      BY <2>k, <2>t DEF Kalloc
    <3>2. f # g
      <4>1. refc'[g] = refc[g] + 1 /\ refc[g] \in Nat BY <3>1, <2>t
      <4> QED BY <4>1
    <3>3. refc'[f] = refc[f] BY <3>1, <3>2, <2>t
    <3> QED BY <2>k, <2>l, <3>1, <3>2, <3>3
  <2>1. ASSUME NEW p \in Proc, KfreeDecr(p) PROVE FALSE
    <3>1. PICK s \in Doomed(p) : LET g == frame[Owner(p)][s] IN
             /\ refc' = [refc EXCEPT ![g] = IF @ > 0 THEN @ - 1 ELSE @] /\ victim' = g
      BY <2>1 DEF KfreeDecr
    <3>2. victim = None /\ freelist' = freelist BY <1>1, <2>1 DEF KfreeDecr, LockInv
    <3> DEFINE g == frame[Owner(p)][s]
    <3>3. refc' = [refc EXCEPT ![g] = IF @ > 0 THEN @ - 1 ELSE @] /\ f # g BY <3>1
    <3> HIDE DEF g
    <3>4. refc'[f] = refc[f] BY <3>3, <2>t
    <3> QED BY <2>l, <3>2, <3>4, <1>0
  <2>2. ASSUME NEW p \in Proc, KfreePush(p) PROVE FALSE
    BY <2>2, <2>l DEF KfreePush
  <2>3. ASSUME NEW p \in Proc, CopyPage(p) PROVE FALSE
    <3> DEFINE g == frame[p][i[p]]
    <3>1. refc' = [refc EXCEPT ![g] = @ + 1] /\ UNCHANGED <<freelist, victim>>
      BY <2>3 DEF CopyPage
    <3> HIDE DEF g
    <3>2. CASE f = g
      <4>1. refc'[f] = refc[f] + 1 /\ refc[f] \in Nat BY <3>1, <3>2, <2>t
      <4> QED BY <4>1
    <3>3. CASE f # g
      <4>1. refc'[f] = refc[f] BY <3>1, <3>3, <2>t
      <4> QED BY <4>1, <3>1, <2>l
    <3> QED BY <3>2, <3>3
  <2>4. ASSUME NEW p \in Proc, CowDecr(p)
        PROVE  frame[p][Owed] = f /\ frame'[p][Owed] = None
    <3> DEFINE g == frame[p][Owed]
    <3>1. /\ refc' = [refc EXCEPT ![g] = IF @ > 0 THEN @ - 1 ELSE @]
          /\ UNCHANGED <<freelist, victim>> /\ frame' = [frame EXCEPT ![p][Owed] = None]
      BY <2>4 DEF CowDecr
    <3>2. frame'[p][Owed] = None BY <3>1, <2>t, Slots
    <3> HIDE DEF g
    <3>3. f = g
      <4> SUFFICES ASSUME f # g PROVE FALSE OBVIOUS
      <4>1. refc'[f] = refc[f] BY <3>1, <2>t
      <4> QED BY <4>1, <3>1, <2>l
    <3> QED BY <3>2, <3>3 DEF g
  <2>5. ASSUME NEW p \in Proc,
               \/ AllocStack(p) \/ SetupKvm(p) \/ CopyPgTab(p) \/ GrowPage(p) \/ CowCopy(p)
        PROVE  FALSE
    <3>1. (\E g : Kalloc(g)) /\ UNCHANGED victim
      BY <2>5 DEF AllocStack, SetupKvm, CopyPgTab, AllocForChild, GrowPage, CowCopy
    <3> QED BY <3>1, <2>k
  <2>6. ASSUME NEW p \in Proc, NoStack(p) \/ CopyFails(p) \/ CopyPanics(p) \/ ForkReturns(p)
               \/ GrowFails(p) \/ GrowDone(p) \/ GrowUndone(p) \/ ShrinkDone(p) \/ SlotReleased(p)
               \/ CowReuse(p) \/ CowPanics(p) \/ KallocPanics(p)
        PROVE  FALSE
    BY <2>6, <2>s DEF NoStack, CopyFails, CopyPanics, ForkReturns, GrowFails, GrowDone,
       GrowUndone, ShrinkDone, GrowprocReturns, SlotReleased, CowReuse, CowPanics, KallocPanics
  <2>7. ASSUME NEW p \in Proc, User(p) \/ Evict(p) PROVE FALSE
    BY <2>7, <2>s DEF User, Access, Fork, Wait, Grow, Shrink, Store, FaultAbsent, Fault, Exit, Evict
  <2>8. ~UNCHANGED vars BY <2>s DEF vars
  <2>9. PICK p \in Proc : Kernel(p) \/ User(p) \/ Evict(p) BY <1>1, <2>8 DEF Next
  <2>10. frame[p][Owed] = f /\ frame'[p][Owed] = None
    BY <2>1, <2>2, <2>3, <2>4, <2>5, <2>6, <2>7, <2>9 DEF Kernel
  <2> QED BY <2>10
<1>2. CowInv => TypeOK BY DEF CowInv, TypeInv
<1>3. Init => LockInv BY InitPriv
<1>4. TypeOK /\ LockInv /\ [Next]_vars => LockInv' BY LockStep
<1>5. CowInv /\ LockInv /\ [Next]_vars => A BY <1>1
<1> HIDE DEF A
<1>6. Spec => [][A]_vars BY <1>2, <1>3, <1>4, <1>5, CowInvariant, PTL DEF Spec
<1> QED BY <1>6 DEF A, OnlyHandlersLose

-----------------------------------------------------------------------------
(* Copying *)

\* A step that touches no page of a fork under way.
LEMMA CopyKept ==
    ASSUME CopyInv, NEW p \in Proc,
           pc'[p] = "copy" => pc[p] = "copy" /\ i'[p] = i[p] /\ child'[p] = child[p],
           \A v \in VPage : pc[p] = "copy" =>
              frame'[child[p]][v] = frame[child[p]][v] /\ frame'[p][v] = frame[p][v]
    PROVE  \A v \in VPage :
              pc'[p] = "copy" /\ v < i'[p] => frame'[child'[p]][v] = frame'[p][v]
BY DEF CopyInv

\* Where a process uses its loop counter, or leaves it behind.
Looping == {"copy", "freevm", "grow", "undo", "shrink"}

\* Every step keeps a copy under way equal to its original.
LEMMA CopyStep == CowInv /\ CopyInv /\ [Next]_vars => CopyInv'
<1> SUFFICES ASSUME CowInv, CopyInv, [Next]_vars PROVE CopyInv'
  OBVIOUS
<1>inv. TypeOK /\ Control /\ SlotInv BY DEF CowInv, TypeInv
<1>t. /\ pc \in [Proc -> PC] /\ frame \in [Proc -> [Slot -> Frame \cup {None}]]
      /\ i \in [Proc -> 0 .. MaxSz] /\ sz \in [Proc -> 0 .. MaxSz] /\ lim \in [Proc -> 0 .. MaxSz]
      /\ cr2 \in [Proc -> VPage \cup {None}] /\ child \in [Proc -> Proc \cup {None}]
  BY <1>inv DEF TypeOK
<1>i. \A r \in Proc : pc[r] \notin Looping => i[r] = 0 BY DEF CopyInv, Looping
<1>c. \A r \in Proc : pc[r] = "copy" => child[r] \in Proc /\ pc[child[r]] = "embryo"
  BY <1>inv DEF Control, Building
<1>d. \A r, q \in Proc : r # q /\ pc[r] = "copy" /\ pc[q] \in Building \cup {"reap"}
                           => child[r] # child[q]
  BY <1>inv DEF Control, Building
<1>q. ASSUME \A r \in Proc : pc'[r] \notin Looping => i'[r] = 0,
             \A r \in Proc, v \in VPage :
                pc'[r] = "copy" /\ v < i'[r] => frame'[child'[r]][v] = frame'[r][v]
      PROVE  CopyInv'
  BY <1>q DEF CopyInv, Looping
\* Steps that change no page of a process that forks, or of its child.
<1>k. ASSUME \A r \in Proc : pc'[r] \notin Looping => i'[r] = 0,
             \A r \in Proc : pc'[r] = "copy" =>
                pc[r] = "copy" /\ i'[r] = i[r] /\ child'[r] = child[r],
             \A r \in Proc, v \in VPage : frame'[r][v] # frame[r][v] =>
                pc[r] \notin {"copy", "embryo"}
      PROVE  CopyInv'
  BY <1>k, <1>q, <1>c, CopyKept
<1>f. ASSUME UNCHANGED <<frame, i>>,
             \A r \in Proc : pc'[r] = "copy" => pc[r] = "copy" /\ child'[r] = child[r],
             \A r \in Proc : pc'[r] \notin Looping => pc[r] \notin Looping
      PROVE  CopyInv'
  BY <1>f, <1>k, <1>i
<1>a. ASSUME NEW p \in Proc, NEW s \in Slot \ VPage, NEW next, AllocForChild(p, s, next),
             child[p] \in Proc, next # "copy" \/ pc[p] \in {"setupkvm", "copy"},
             next \in Looping \/ pc[p] \notin Looping
      PROVE  CopyInv'
  <2>1. PICK f \in Frame : frame' = [frame EXCEPT ![child[p]][s] = f]
    BY <1>a DEF AllocForChild
  <2>2. \A r \in Proc, v \in VPage : frame'[r][v] = frame[r][v]
    BY <1>a, <1>t, <2>1, Slots
  <2>3. pc' = [pc EXCEPT ![p] = next] /\ UNCHANGED <<i, child>> BY <1>a DEF AllocForChild
  <2>4. \A r \in Proc : pc'[r] \notin Looping => i'[r] = 0 BY <1>a, <1>i, <1>t, <2>3
  <2>5. ASSUME NEW r \in Proc, NEW v \in VPage, pc'[r] = "copy", v < i'[r]
        PROVE  frame'[child'[r]][v] = frame'[r][v]
    <3>1. CASE pc[r] = "copy" BY <1>c, <2>2, <2>3, <2>5, <3>1 DEF CopyInv
    <3>2. CASE pc[r] # "copy"
      <4>1. pc[r] = "setupkvm" BY <1>a, <1>t, <2>3, <2>5, <3>2
      <4>2. i[r] = 0 BY <4>1, <1>i DEF Looping
      <4> QED BY <4>2, <2>3, <2>5 DEF VPage
    <3> QED BY <3>1, <3>2
  <2> QED BY <2>4, <2>5, <1>q
<1>1. ASSUME NEW p \in Proc, AllocStack(p) PROVE CopyInv'
  <2>1. AllocForChild(p, KStack, "setupkvm") /\ pc[p] = "allocproc" BY <1>1 DEF AllocStack
  <2>2. child[p] \in Proc BY <2>1, <1>inv DEF Control, Building
  <2> QED BY <2>1, <2>2, <1>a, Slots DEF Looping
<1>2. ASSUME NEW p \in Proc, SetupKvm(p) PROVE CopyInv'
  <2>1. AllocForChild(p, PgDir, "copy") /\ pc[p] = "setupkvm" BY <1>2 DEF SetupKvm
  <2>2. child[p] \in Proc BY <2>1, <1>inv DEF Control, Building
  <2> QED BY <2>1, <2>2, <1>a, Slots DEF Looping
<1>3. ASSUME NEW p \in Proc, CopyPgTab(p) PROVE CopyInv'
  <2>1. AllocForChild(p, PgTab, "copy") /\ pc[p] = "copy" BY <1>3 DEF CopyPgTab
  <2>2. child[p] \in Proc BY <2>1, <1>c
  <2> QED BY <2>1, <2>2, <1>a, Slots DEF Looping
<1>4. ASSUME NEW p \in Proc, CopyPage(p) PROVE CopyInv'
  <2> DEFINE c == child[p]  v == i[p]  f == frame[p][v]
  <2>1. /\ pc[p] = "copy" /\ v < sz[p] /\ frame' = [frame EXCEPT ![c][v] = f]
        /\ i' = [i EXCEPT ![p] = v + 1] /\ UNCHANGED <<pc, child>>
    BY <1>4 DEF CopyPage
  <2>2. c \in Proc /\ pc[c] = "embryo" /\ v \in VPage /\ v \in Slot /\ f \in Frame \cup {None}
    BY <2>1, <1>c, <1>t, Below, Slots
  <2>3. PutAt(c, v, f) BY <2>1, <2>2, <1>inv, PutIsPutAt
  <2>4. \A r \in Proc : i'[r] = IF r = p THEN v + 1 ELSE i[r] BY <2>1, <1>t
  <2>5. ASSUME NEW r \in Proc, NEW u \in VPage, pc'[r] = "copy", u < i'[r]
        PROVE  frame'[child'[r]][u] = frame'[r][u]
    <3>0. pc[r] = "copy" /\ r # c /\ child[r] \in Proc /\ u \in Slot
      BY <2>1, <2>2, <2>5, <1>c, Slots
    <3>1. CASE r = p
      <4>1. CASE u = v BY <2>1, <2>2, <2>3, <3>0, <3>1, <4>1 DEF PutAt
      <4>2. CASE u # v
        <5>1. u < i[p] BY <2>2, <2>4, <2>5, <3>1, <4>2 DEF VPage
        <5>2. frame[child[p]][u] = frame[p][u] BY <5>1, <3>0, <3>1 DEF CopyInv
        <5> QED BY <2>1, <2>3, <3>0, <3>1, <4>2, <5>2 DEF PutAt
      <4> QED BY <4>1, <4>2
    <3>2. CASE r # p
      <4>1. child[r] # c BY <1>d, <2>1, <3>0, <3>2 DEF Building
      <4>2. frame[child[r]][u] = frame[r][u] BY <2>4, <2>5, <3>0, <3>2 DEF CopyInv
      <4> QED BY <2>1, <2>3, <3>0, <4>1, <4>2 DEF PutAt
    <3> QED BY <3>1, <3>2
  <2>6. \A r \in Proc : pc'[r] \notin Looping => i'[r] = 0 BY <1>i, <2>1, <2>4 DEF Looping
  <2> QED BY <2>5, <2>6, <1>q
<1>5. ASSUME NEW p \in Proc, GrowPage(p) PROVE CopyInv'
  <2> DEFINE v == i[p]
  <2>1. PICK f \in Frame : frame' = [frame EXCEPT ![p][v] = f] BY <1>5 DEF GrowPage
  <2>2. /\ pc[p] = "grow" /\ v < lim[p] /\ i' = [i EXCEPT ![p] = @ + 1] /\ UNCHANGED <<pc, child>>
    BY <1>5 DEF GrowPage
  <2>3. v \in Slot BY <2>2, <1>t, Below, Slots
  <2> HIDE DEF v
  <2>4. PutAt(p, v, f) BY <2>1, <2>3, <1>inv, PutIsPutAt
  <2>5. \A r \in Proc : r # p => i'[r] = i[r] BY <2>2, <1>t
  <2>6. \A r \in Proc, u \in VPage : r # p => frame'[r][u] = frame[r][u]
    BY <2>4, Slots DEF PutAt
  <2>7. \A r \in Proc : pc'[r] \notin Looping => i'[r] = 0 BY <1>i, <2>2, <2>5 DEF Looping
  <2> QED BY <2>2, <2>5, <2>6, <2>7, <1>k
<1>6. ASSUME NEW p \in Proc, KfreeDecr(p) PROVE CopyInv'
  <2>1. PICK s \in Doomed(p) : frame' = [frame EXCEPT ![Owner(p)][s] = None]
    BY <1>6 DEF KfreeDecr
  <2>2. UNCHANGED <<pc, i, child>> BY <1>6 DEF KfreeDecr
  <2> DEFINE q == Owner(p)
  <2>3. q \in Proc /\ s \in Slot BY <1>inv, <1>t, DoomedHeld
  <2>4. PutAt(q, s, None) BY <2>1, <2>3, <1>inv, PutIsPutAt
  <2>5. \A r \in Proc : pc[r] = "copy" => q # r /\ q # child[r]
    <3>1. pc[p] \in {"shrink", "undo", "reap", "freevm"} BY <2>1 DEF Doomed
    <3>2. CASE pc[p] \in {"shrink", "undo"}
      <4>1. q = p BY <3>2 DEF Owner
      <4> QED BY <4>1, <3>2, <1>c
    <3>3. CASE pc[p] \in {"reap", "freevm"}
      <4>1. q = child[p] /\ pc[q] \in {"embryo", "zombie"}
        BY <3>3, <1>inv DEF Owner, Control, Building
      <4> QED BY <4>1, <3>3, <1>d DEF Building
    <3> QED BY <3>1, <3>2, <3>3
  <2> HIDE DEF q
  <2>6. ASSUME NEW r \in Proc
        PROVE  \A v \in VPage :
                  pc'[r] = "copy" /\ v < i'[r] => frame'[child'[r]][v] = frame'[r][v]
    BY <2>2, <2>4, <2>5, <1>c, Slots, CopyKept DEF PutAt
  <2>7. \A r \in Proc : pc'[r] \notin Looping => i'[r] = 0 BY <1>i, <2>2
  <2> QED BY <2>6, <2>7, <1>q
<1>7. ASSUME NEW p \in Proc, CowDecr(p) PROVE CopyInv'
  <2>1. /\ frame' = [frame EXCEPT ![p][Owed] = None] /\ pc' = [pc EXCEPT ![p] = "user"]
        /\ pc[p] = "owed" /\ UNCHANGED <<i, child>>
    BY <1>7 DEF CowDecr, FaultReturns
  <2>2. PutAt(p, Owed, None) BY <2>1, <1>inv, Slots, PutIsPutAt
  <2>3. \A r \in Proc, v \in VPage : frame'[r][v] = frame[r][v] BY <2>2, Slots DEF PutAt
  <2>4. \A r \in Proc : pc'[r] \notin Looping => i'[r] = 0 BY <1>i, <1>t, <2>1 DEF Looping
  <2> QED BY <2>1, <2>3, <2>4, <1>t, <1>k
<1>8. ASSUME NEW p \in Proc, CowCopy(p) PROVE CopyInv'
  <2> DEFINE v == cr2[p]  e == frame[p][v]
  <2>1. PICK f \in Frame : frame' = [frame EXCEPT ![p][v] = f, ![p][Owed] = e]
    BY <1>8 DEF CowCopy
  <2>2. pc[p] = "cow" /\ pc' = [pc EXCEPT ![p] = "owed"] /\ UNCHANGED <<i, child>>
    BY <1>8 DEF CowCopy
  <2> HIDE DEF v, e
  <2>3. \A r \in Proc : r # p => frame'[r] = frame[r] BY <2>1, <1>t
  <2>4. \A r \in Proc : pc'[r] \notin Looping => i'[r] = 0 BY <1>i, <1>t, <2>2 DEF Looping
  <2> QED BY <2>2, <2>3, <2>4, <1>t, <1>k
<1>9. ASSUME NEW p \in Proc, ForkReturns(p) PROVE CopyInv'
  <2>1. /\ pc[p] = "copy" /\ pc' = [pc EXCEPT ![p] = "user", ![child[p]] = "user"]
        /\ child' = [child EXCEPT ![p] = None] /\ i' = [i EXCEPT ![p] = 0] /\ UNCHANGED frame
    BY <1>9 DEF ForkReturns
  <2>2. \A r \in Proc : i'[r] = IF r = p THEN 0 ELSE i[r] BY <2>1, <1>t
  <2>3. \A r \in Proc : pc'[r] \notin Looping => i'[r] = 0
    BY <1>i, <1>t, <1>c, <2>1, <2>2 DEF Looping
  <2>4. \A r \in Proc : pc'[r] = "copy" => pc[r] = "copy" /\ i'[r] = i[r] /\ child'[r] = child[r]
    BY <1>t, <2>1, <2>2
  <2> QED BY <2>1, <2>3, <2>4, <1>k
<1>10. ASSUME NEW p \in Proc, SlotReleased(p) PROVE CopyInv'
  <2>1. /\ pc[p] \in {"freevm", "reap"} /\ pc' = [pc EXCEPT ![p] = "user", ![child[p]] = "unused"]
        /\ child' = [child EXCEPT ![p] = None] /\ i' = [i EXCEPT ![p] = 0] /\ UNCHANGED frame
    BY <1>10 DEF SlotReleased
  <2>2. child[p] \in Proc /\ pc[child[p]] \in {"embryo", "zombie"}
    BY <2>1, <1>inv DEF Control, Building
  <2>3. \A r \in Proc : i'[r] = IF r = p THEN 0 ELSE i[r] BY <2>1, <1>t
  <2>4. \A r \in Proc : pc'[r] \notin Looping => i'[r] = 0
    BY <1>i, <1>t, <2>1, <2>2, <2>3 DEF Looping
  <2>5. \A r \in Proc : pc'[r] = "copy" => pc[r] = "copy" /\ i'[r] = i[r] /\ child'[r] = child[r]
    BY <1>t, <2>1, <2>3
  <2> QED BY <2>1, <2>4, <2>5, <1>k
<1>11. ASSUME NEW p \in Proc, GrowDone(p) \/ GrowUndone(p) \/ ShrinkDone(p) PROVE CopyInv'
  <2>1. /\ pc[p] # "copy" /\ pc' = [pc EXCEPT ![p] = "user"] /\ i' = [i EXCEPT ![p] = 0]
        /\ UNCHANGED <<frame, child>>
    BY <1>11 DEF GrowDone, GrowUndone, ShrinkDone, GrowprocReturns
  <2>2. \A r \in Proc : i'[r] = IF r = p THEN 0 ELSE i[r] BY <2>1, <1>t
  <2>3. \A r \in Proc : pc'[r] \notin Looping => i'[r] = 0 BY <1>i, <1>t, <2>1, <2>2
  <2>4. \A r \in Proc : pc'[r] = "copy" => pc[r] = "copy" /\ i'[r] = i[r] /\ child'[r] = child[r]
    BY <1>t, <2>1, <2>2
  <2> QED BY <2>1, <2>3, <2>4, <1>k
<1>12. ASSUME NEW p \in Proc, NEW n \in 1 .. MaxSz, Grow(p, n) PROVE CopyInv'
  <2>1. /\ pc[p] = "user" /\ pc' = [pc EXCEPT ![p] = "grow"] /\ i' = [i EXCEPT ![p] = sz[p]]
        /\ UNCHANGED <<frame, child>>
    BY <1>12 DEF Grow
  <2>2. \A r \in Proc : r # p => i'[r] = i[r] /\ pc'[r] = pc[r] BY <2>1, <1>t
  <2>3. \A r \in Proc : pc'[r] \notin Looping => i'[r] = 0 BY <1>i, <1>t, <2>1, <2>2 DEF Looping
  <2>4. \A r \in Proc : pc'[r] = "copy" => pc[r] = "copy" /\ i'[r] = i[r] /\ child'[r] = child[r]
    BY <1>t, <2>1, <2>2
  <2> QED BY <2>1, <2>3, <2>4, <1>k
<1>13. ASSUME NEW p \in Proc, NEW c \in Proc, Fork(p, c) \/ Wait(p, c) PROVE CopyInv'
  <2>1. /\ pc[p] = "user" /\ pc[c] \in {"unused", "zombie"} /\ UNCHANGED <<frame, i>>
        /\ child' = [child EXCEPT ![p] = c]
        /\ \/ pc' = [pc EXCEPT ![p] = "allocproc", ![c] = "embryo"]
           \/ pc' = [pc EXCEPT ![p] = "reap"]
    BY <1>13 DEF Fork, Wait
  <2>2. \A r \in Proc : pc'[r] = "copy" => pc[r] = "copy" /\ child'[r] = child[r]
    BY <2>1, <1>t
  <2>3. \A r \in Proc : pc'[r] \notin Looping => pc[r] \notin Looping
    BY <2>1, <1>t DEF Looping
  <2> QED BY <2>1, <2>2, <2>3, <1>f
<1>14. ASSUME NEW p \in Proc, NoStack(p) PROVE CopyInv'
  <2>1. /\ pc[p] = "allocproc" /\ pc' = [pc EXCEPT ![p] = "user", ![child[p]] = "unused"]
        /\ child' = [child EXCEPT ![p] = None] /\ UNCHANGED <<frame, i>>
    BY <1>14 DEF NoStack
  <2>2. child[p] \in Proc /\ pc[child[p]] = "embryo" BY <2>1, <1>inv DEF Control, Building
  <2>3. \A r \in Proc : pc'[r] = "copy" => pc[r] = "copy" /\ child'[r] = child[r]
    BY <2>1, <1>t
  <2>4. \A r \in Proc : pc'[r] \notin Looping => pc[r] \notin Looping
    BY <2>1, <2>2, <1>t DEF Looping
  <2> QED BY <2>1, <2>3, <2>4, <1>f
<1>15. ASSUME NEW p \in Proc, NEW x, x \notin {"copy", "user"}, pc' = [pc EXCEPT ![p] = x],
              x \in Looping \/ pc[p] \notin Looping, UNCHANGED <<frame, i, child>>
       PROVE  CopyInv'
  <2>1. \A r \in Proc : pc'[r] = "copy" => pc[r] = "copy" BY <1>15, <1>t
  <2>2. \A r \in Proc : pc'[r] \notin Looping => pc[r] \notin Looping BY <1>15, <1>t
  <2> QED BY <1>15, <2>1, <2>2, <1>f
<1>16. ASSUME NEW p \in Proc, CopyFails(p) \/ GrowFails(p) PROVE CopyInv'
  BY <1>15, <1>16 DEF CopyFails, GrowFails, Looping
<1>17. ASSUME NEW p \in Proc, Exit(p) \/ \E n \in MinSz .. MaxSz : Shrink(p, n) PROVE CopyInv'
  BY <1>15, <1>17 DEF Exit, Shrink, Looping
<1>18. ASSUME NEW p \in Proc, NEW v \in VPage, Fault(p, v) PROVE CopyInv'
  BY <1>15, <1>18 DEF Fault, Looping
<1>19. ASSUME NEW p \in Proc, CowReuse(p) PROVE CopyInv'
  <2>1. /\ pc[p] = "cow" /\ pc' = [pc EXCEPT ![p] = "user"] /\ UNCHANGED <<frame, i, child>>
    BY <1>19 DEF CowReuse, FaultReturns
  <2>2. \A r \in Proc : pc'[r] = "copy" => pc[r] = "copy" BY <2>1, <1>t
  <2>3. \A r \in Proc : pc'[r] \notin Looping => pc[r] \notin Looping BY <2>1, <1>t DEF Looping
  <2> QED BY <2>1, <2>2, <2>3, <1>f
<1>20. ASSUME UNCHANGED <<pc, frame, i, child>> PROVE CopyInv'
  BY <1>20, <1>f
<1>21. ASSUME NEW p \in Proc,
              \/ CopyPanics(p) \/ CowPanics(p) \/ KfreePush(p) \/ KallocPanics(p) \/ Evict(p)
              \/ \E v \in VPage : FaultAbsent(p, v) \/ \E x \in Val : Store(p, v, x)
       PROVE  CopyInv'
  BY <1>21, <1>20 DEF CopyPanics, CowPanics, KfreePush, KallocPanics, Evict, FaultAbsent, Store
<1>22. CASE UNCHANGED vars BY <1>22, <1>20 DEF vars
<1> QED
  BY <1>1, <1>2, <1>3, <1>4, <1>5, <1>6, <1>7, <1>8, <1>9, <1>10, <1>11, <1>12, <1>13, <1>14,
     <1>16, <1>17, <1>18, <1>19, <1>21, <1>22 DEF Next, Kernel, User, Access

-----------------------------------------------------------------------------
(* The memory of a program *)

Dead == {"unused", "embryo", "zombie"}
Mem  == [p \in Proc |-> View(p)]

\* What program p sees in page v.
Cell(p, v) == IF pc[p] \in Dead \/ frame[p][v] = None THEN None ELSE data[frame[p][v]]

Cells ==
    /\ Mem \in [Proc -> [VPage -> Contents \cup {None}]]
    /\ \A p \in Proc, v \in VPage : Mem[p][v] = Cell(p, v)

\* The memories are made of cells.
LEMMA MemCells == ASSUME TypeOK PROVE Cells
<1>1. \A p \in Proc, v \in VPage : Cell(p, v) \in Contents \cup {None}
  BY Slots DEF TypeOK, Cell
<1>2. Mem = [p \in Proc |-> [v \in VPage |-> Cell(p, v)]] BY DEF Mem, View, Cell, Dead
<1> HIDE DEF Mem
<1> QED BY <1>1, <1>2 DEF Cells

\* The same of the state after a step.
LEMMA MemCellsNext == ASSUME TypeOK' PROVE Cells'
<1>1. \A p \in Proc, v \in VPage : Cell(p, v)' \in Contents \cup {None}
  BY Slots DEF TypeOK, Cell
<1>2. Mem' = [p \in Proc |-> [v \in VPage |-> Cell(p, v)']] BY DEF Mem, View, Cell, Dead
<1>3. Mem' \in [Proc -> [VPage -> Contents \cup {None}]] BY <1>1, <1>2
<1>4. \A p \in Proc, v \in VPage : Mem'[p][v] = Cell(p, v)' BY <1>2
<1> QED BY <1>3, <1>4 DEF Cells

\* Two memories of the same cells are the same.
LEMMA Extensional ==
    ASSUME NEW S, NEW a, NEW b, a \in [Proc -> [VPage -> S]], b \in [Proc -> [VPage -> S]],
           \A p \in Proc, v \in VPage : a[p][v] = b[p][v]
    PROVE  a = b
<1>1. \A p \in Proc : a[p] = b[p] OBVIOUS
<1> QED BY <1>1

\* No cell changes.
LEMMA MemKept ==
    ASSUME TypeOK, TypeOK', \A p \in Proc, v \in VPage : Cell(p, v)' = Cell(p, v)
    PROVE  Mem' = Mem
<1>1. Cells /\ Cells' BY MemCells, MemCellsNext
<1>2. /\ Mem \in [Proc -> [VPage -> Contents \cup {None}]]
      /\ Mem' \in [Proc -> [VPage -> Contents \cup {None}]]
      /\ \A p \in Proc, v \in VPage : Mem'[p][v] = Mem[p][v]
  BY <1>1 DEF Cells
<1> HIDE DEF Mem
<1> QED BY <1>2, Extensional

\* One cell changes.
LEMMA MemPut ==
    ASSUME TypeOK, TypeOK', NEW p \in Proc, NEW v \in VPage, NEW x \in Contents \cup {None},
           \A q \in Proc, u \in VPage :
              Cell(q, u)' = IF q = p /\ u = v THEN x ELSE Cell(q, u)
    PROVE  Mem' = [Mem EXCEPT ![p][v] = x]
<1> DEFINE b == [Mem EXCEPT ![p][v] = x]
<1>1. Cells /\ Cells' BY MemCells, MemCellsNext
<1>2. /\ Mem \in [Proc -> [VPage -> Contents \cup {None}]]
      /\ Mem' \in [Proc -> [VPage -> Contents \cup {None}]]
  BY <1>1 DEF Cells
<1>3. \A q \in Proc, u \in VPage : Mem'[q][u] = IF q = p /\ u = v THEN x ELSE Mem[q][u]
  BY <1>1 DEF Cells
<1> HIDE DEF Mem
<1>4. b \in [Proc -> [VPage -> Contents \cup {None}]] BY <1>2
<1>5. \A q \in Proc, u \in VPage : b[q][u] = IF q = p /\ u = v THEN x ELSE Mem[q][u]
  BY <1>2
<1>6. \A q \in Proc, u \in VPage : Mem'[q][u] = b[q][u] BY <1>3, <1>5
<1> HIDE DEF b
<1>7. Mem' = b BY <1>2, <1>4, <1>6, Extensional
<1> QED BY <1>7 DEF b

\* The memory of one process changes.
LEMMA MemRow ==
    ASSUME TypeOK, TypeOK', NEW p \in Proc, NEW y \in [VPage -> Contents \cup {None}],
           \A q \in Proc, u \in VPage : Cell(q, u)' = IF q = p THEN y[u] ELSE Cell(q, u)
    PROVE  Mem' = [Mem EXCEPT ![p] = y]
<1> DEFINE b == [Mem EXCEPT ![p] = y]
<1>1. Cells /\ Cells' BY MemCells, MemCellsNext
<1>2. /\ Mem \in [Proc -> [VPage -> Contents \cup {None}]]
      /\ Mem' \in [Proc -> [VPage -> Contents \cup {None}]]
  BY <1>1 DEF Cells
<1>3. \A q \in Proc, u \in VPage : Mem'[q][u] = IF q = p THEN y[u] ELSE Mem[q][u]
  BY <1>1 DEF Cells
<1> HIDE DEF Mem
<1>4. b \in [Proc -> [VPage -> Contents \cup {None}]] BY <1>2
<1>5. \A q \in Proc, u \in VPage : b[q][u] = IF q = p THEN y[u] ELSE Mem[q][u]
  BY <1>2
<1>6. \A q \in Proc, u \in VPage : Mem'[q][u] = b[q][u] BY <1>3, <1>5
<1> HIDE DEF b
<1>7. Mem' = b BY <1>2, <1>4, <1>6, Extensional
<1> QED BY <1>7 DEF b

\* Nothing refers to a page that counts no reference.
LEMMA CountsNone ==
    ASSUME RefInv, NEW f \in Frame, refc[f] = 0
    PROVE  \A r \in Proc, t \in Slot : frame[r][t] # f
<1>1. HoldersIn(frame, f) = {} BY HoldersFinite, FS_EmptySet DEF RefInv
<1>2. ASSUME NEW r \in Proc, NEW t \in Slot PROVE frame[r][t] # f
  <2>1. <<r, t>> \notin HoldersIn(frame, f) BY <1>1
  <2> QED BY <2>1 DEF HoldersIn
<1> QED BY <1>2

\* Each step does to the memories what one of fork, sbrk, exit and a store
\* promises, or nothing, or kalloc has incremented a foreign word.
LEMMA MemStep ==
    ASSUME CowInv, CowInv', PrivInv, TlbInv, CopyInv, [Next]_vars
    PROVE  PM!Next \/ scribbled' \/ Mem' = Mem
<1>inv. TypeOK /\ TypeOK' /\ Control /\ SlotInv /\ RefInv BY DEF CowInv, TypeInv
<1>t. /\ pc \in [Proc -> PC] /\ frame \in [Proc -> [Slot -> Frame \cup {None}]]
      /\ tlb \in [Proc -> [VPage -> Frame \cup {None}]] /\ data \in [Frame -> Contents]
      /\ i \in [Proc -> 0 .. MaxSz] /\ sz \in [Proc -> 0 .. MaxSz] /\ lim \in [Proc -> 0 .. MaxSz]
      /\ cr2 \in [Proc -> VPage \cup {None}] /\ child \in [Proc -> Proc \cup {None}]
  BY <1>inv DEF TypeOK
<1>m. None \notin Frame /\ None \notin Proc /\ None \notin Contents /\ MaxSz \in Nat
  BY ConstantsOK DEF ConstantsOK
\* Pages and contents stay, and so does who is alive.
<1>k. ASSUME \A r \in Proc : pc'[r] \in Dead <=> pc[r] \in Dead,
             \A r \in Proc, u \in VPage : pc[r] \notin Dead => frame'[r][u] = frame[r][u],
             UNCHANGED data
      PROVE  Mem' = Mem
  <2>1. \A r \in Proc, u \in VPage : Cell(r, u)' = Cell(r, u) BY <1>k DEF Cell
  <2> QED BY <2>1, <1>inv, MemKept
<1>s. ASSUME UNCHANGED <<frame, data>>, \A r \in Proc : pc'[r] \in Dead <=> pc[r] \in Dead
      PROVE  Mem' = Mem
  BY <1>s, <1>k
<1>a. ASSUME NEW p \in Proc, NEW s \in Slot \ VPage, NEW next, next \notin Dead, pc[p] \notin Dead,
             AllocForChild(p, s, next), child[p] \in Proc
      PROVE  Mem' = Mem
  <2>1. PICK f \in Frame : frame' = [frame EXCEPT ![child[p]][s] = f] BY <1>a DEF AllocForChild
  <2>2. pc' = [pc EXCEPT ![p] = next] /\ UNCHANGED data BY <1>a DEF AllocForChild
  <2>3. \A r \in Proc, u \in VPage : frame'[r][u] = frame[r][u] BY <1>a, <1>t, <2>1, Slots
  <2>4. \A r \in Proc : pc'[r] \in Dead <=> pc[r] \in Dead BY <1>a, <1>t, <2>2
  <2> QED BY <2>2, <2>3, <2>4, <1>k
<1>1. ASSUME NEW p \in Proc, AllocStack(p) PROVE Mem' = Mem
  <2>1. AllocForChild(p, KStack, "setupkvm") /\ pc[p] = "allocproc" BY <1>1 DEF AllocStack
  <2>2. child[p] \in Proc BY <2>1, <1>inv DEF Control, Building
  <2> QED BY <2>1, <2>2, <1>a, Slots DEF Dead
<1>2. ASSUME NEW p \in Proc, SetupKvm(p) PROVE Mem' = Mem
  <2>1. AllocForChild(p, PgDir, "copy") /\ pc[p] = "setupkvm" BY <1>2 DEF SetupKvm
  <2>2. child[p] \in Proc BY <2>1, <1>inv DEF Control, Building
  <2> QED BY <2>1, <2>2, <1>a, Slots DEF Dead
<1>3. ASSUME NEW p \in Proc, CopyPgTab(p) PROVE Mem' = Mem
  <2>1. AllocForChild(p, PgTab, "copy") /\ pc[p] = "copy" BY <1>3 DEF CopyPgTab
  <2>2. child[p] \in Proc BY <2>1, <1>inv DEF Control, Building
  <2> QED BY <2>1, <2>2, <1>a, Slots DEF Dead
<1>4. ASSUME NEW p \in Proc, CopyPage(p) PROVE Mem' = Mem
  <2> DEFINE c == child[p]  v == i[p]  f == frame[p][v]
  <2>1. pc[p] = "copy" /\ frame' = [frame EXCEPT ![c][v] = f] /\ UNCHANGED <<pc, data>>
    BY <1>4 DEF CopyPage
  <2>2. c \in Proc /\ pc[c] \in Dead BY <2>1, <1>inv DEF Control, Building, Dead
  <2> HIDE DEF c, v, f
  <2>3. \A r \in Proc : r # c => frame'[r] = frame[r] BY <2>1, <1>t
  <2> QED BY <2>1, <2>2, <2>3, <1>k
\* The child begins with what its parent has.
<1>5. ASSUME NEW p \in Proc, ForkReturns(p) PROVE PM!Next
  <2> DEFINE c == child[p]
  <2>1. /\ pc[p] = "copy" /\ i[p] = sz[p] /\ pc' = [pc EXCEPT ![p] = "user", ![c] = "user"]
        /\ UNCHANGED <<frame, data>>
    BY <1>5 DEF ForkReturns
  <2>2. c \in Proc /\ pc[c] = "embryo" /\ c # p BY <2>1, <1>inv DEF Control, Building
  <2>3. \A u \in VPage : frame[c][u] = frame[p][u]
    <3> SUFFICES ASSUME NEW u \in VPage PROVE frame[c][u] = frame[p][u] OBVIOUS
    <3>1. CASE u < i[p] BY <2>1, <3>1 DEF CopyInv
    <3>2. CASE ~(u < i[p])
      <4>1. u \in Above(i[p]) /\ u \in Above(sz[p]) BY <1>t, <2>1, <3>2 DEF Above, VPage
      <4>2. frame[c][u] = None BY <1>inv, <2>1, <4>1 DEF SlotInv, Empty
      <4>3. frame[p][u] = None BY <1>inv, <2>1, <4>1 DEF SlotInv, Empty, AtSize
      <4> QED BY <4>2, <4>3
    <3> QED BY <3>1, <3>2
  <2> HIDE DEF c
  <2>4. \A r \in Proc : pc'[r] = IF r = p \/ r = c THEN "user" ELSE pc[r] BY <2>1, <1>t
  <2>5. \A r \in Proc, u \in VPage : Cell(r, u)' = IF r = c THEN Cell(p, u) ELSE Cell(r, u)
    <3> SUFFICES ASSUME NEW r \in Proc, NEW u \in VPage
                 PROVE  Cell(r, u)' = IF r = c THEN Cell(p, u) ELSE Cell(r, u)
      OBVIOUS
    <3>0. pc[p] \notin Dead /\ "user" \notin Dead BY <2>1 DEF Dead
    <3>1. pc'[r] \in Dead <=> r # c /\ pc[r] \in Dead
      <4>1. CASE r = p BY <2>2, <2>4, <3>0, <4>1
      <4>2. CASE r = c BY <2>4, <3>0, <4>2
      <4>3. CASE r # p /\ r # c BY <2>4, <4>3
      <4> QED BY <4>1, <4>2, <4>3
    <3>2. CASE r = c BY <2>1, <2>3, <3>0, <3>1, <3>2 DEF Cell
    <3>3. CASE r # c BY <2>1, <3>1, <3>3 DEF Cell
    <3> QED BY <3>2, <3>3
  <2>6. Cells BY <1>inv, MemCells
  <2>7. Mem[p] \in [VPage -> Contents \cup {None}] /\ \A u \in VPage : Mem[p][u] = Cell(p, u)
    BY <2>6 DEF Cells
  <2>8. Mem[c] = PM!NoMem
    <3>1. \A u \in VPage : Mem[c][u] = None BY <2>2, <2>6 DEF Cells, Cell, Dead
    <3>2. Mem[c] \in [VPage -> Contents \cup {None}] BY <2>2, <2>6 DEF Cells
    <3> HIDE DEF Mem
    <3> QED BY <3>1, <3>2 DEF PM!NoMem
  <2> DEFINE y == Mem[p]
  <2>9. /\ y \in [VPage -> Contents \cup {None}]
        /\ \A r \in Proc, u \in VPage : Cell(r, u)' = IF r = c THEN y[u] ELSE Cell(r, u)
    BY <2>5, <2>7
  <2> HIDE DEF y
  <2>10. Mem' = [Mem EXCEPT ![c] = y] BY <2>2, <2>9, <1>inv, MemRow
  <2>11. PM!Duplicate(p, c) BY <2>8, <2>10 DEF PM!Duplicate, Mem, y
  <2> QED BY <2>2, <2>11 DEF PM!Next
\* sbrk adds a page of zeroes.
<1>6. ASSUME NEW p \in Proc, GrowPage(p) PROVE PM!Next
  <2> DEFINE v == i[p]
  <2>1. PICK f \in Frame : Kalloc(f) /\ data' = [data EXCEPT ![f] = Zero]
                           /\ frame' = [frame EXCEPT ![p][v] = f]
    BY <1>6 DEF GrowPage
  <2>2. pc[p] = "grow" /\ v < lim[p] /\ UNCHANGED pc BY <1>6 DEF GrowPage
  <2>3. v \in VPage /\ v \in Slot BY <2>2, <1>t, Below, Slots
  <2>4. frame[p][v] = None BY <2>2, <2>3, <1>inv DEF SlotInv, Empty, Above, VPage
  <2> HIDE DEF v
  <2>5. \A r \in Proc, t \in Slot : frame[r][t] # f BY <2>1, <1>inv, KallocUnheld
  <2>6. PutAt(p, v, f) BY <2>1, <2>3, <1>inv, PutIsPutAt
  <2>7. Cell(p, v) = None BY <2>4 DEF Cell
  <2>8. \A r \in Proc, u \in VPage :
            Cell(r, u)' = IF r = p /\ u = v THEN Zero ELSE Cell(r, u)
    <3> SUFFICES ASSUME NEW r \in Proc, NEW u \in VPage
                 PROVE  Cell(r, u)' = IF r = p /\ u = v THEN Zero ELSE Cell(r, u)
      OBVIOUS
    <3>1. u \in Slot /\ frame'[r][u] = IF r = p /\ u = v THEN f ELSE frame[r][u]
      BY <2>6, Slots DEF PutAt
    <3>2. \A g \in Frame : data'[g] = IF g = f THEN Zero ELSE data[g] BY <2>1, <1>t
    <3>3. frame[r][u] # f /\ frame[r][u] \in Frame \cup {None} BY <2>5, <3>1, <1>t
    <3>4. CASE r = p /\ u = v BY <2>2, <3>1, <3>2, <3>4, <1>m DEF Cell, Dead
    <3>5. CASE ~(r = p /\ u = v) BY <2>2, <3>1, <3>2, <3>3, <3>5 DEF Cell
    <3> QED BY <3>4, <3>5
  <2>9. Mem' = [Mem EXCEPT ![p][v] = Zero] BY <2>3, <2>8, <1>inv, PageContents, MemPut
  <2>10. Mem[p][v] = None BY <2>3, <2>7, <1>inv, MemCells DEF Cells
  <2>11. PM!AddPage(p, v) BY <2>9, <2>10 DEF PM!AddPage, Mem
  <2> QED BY <2>3, <2>11 DEF PM!Next
\* A page goes away.
<1>7. ASSUME NEW p \in Proc, KfreeDecr(p) PROVE PM!Next \/ Mem' = Mem
  <2>1. PICK s \in Doomed(p) : frame' = [frame EXCEPT ![Owner(p)][s] = None]
    BY <1>7 DEF KfreeDecr
  <2>2. UNCHANGED <<pc, data>> BY <1>7 DEF KfreeDecr
  <2> DEFINE q == Owner(p)
  <2>3. q \in Proc /\ s \in Slot BY <1>inv, <1>t, DoomedHeld
  <2>4. PutAt(q, s, None) BY <2>1, <2>3, <1>inv, PutIsPutAt
  <2> HIDE DEF q
  <2>5. CASE s \in VPage
    <3>1. \A r \in Proc, u \in VPage :
              Cell(r, u)' = IF r = q /\ u = s THEN None ELSE Cell(r, u)
      <4> SUFFICES ASSUME NEW r \in Proc, NEW u \in VPage
                   PROVE  Cell(r, u)' = IF r = q /\ u = s THEN None ELSE Cell(r, u)
        OBVIOUS
      <4>1. frame'[r][u] = IF r = q /\ u = s THEN None ELSE frame[r][u]
        BY <2>4, Slots DEF PutAt
      <4> QED BY <4>1, <2>2 DEF Cell
    <3>2. Mem' = [Mem EXCEPT ![q][s] = None] BY <2>3, <2>5, <3>1, <1>inv, MemPut
    <3>3. PM!DropPage(q, s) BY <3>2 DEF PM!DropPage, Mem
    <3> QED BY <2>3, <2>5, <3>3 DEF PM!Next
  <2>6. CASE s \notin VPage
    <3>1. \A r \in Proc, u \in VPage : frame'[r][u] = frame[r][u]
      BY <2>4, <2>6, Slots DEF PutAt
    <3> QED BY <2>2, <3>1, <1>k
  <2> QED BY <2>5, <2>6
\* kfree fills a page with junk that nothing refers to.
<1>8. ASSUME NEW p \in Proc, KfreePush(p) PROVE Mem' = Mem
  <2>1. UNCHANGED <<pc, frame>> BY <1>8 DEF KfreePush
  <2>2. victim \in Frame BY <1>8, <1>inv, <1>m DEF KfreePush, Control
  <2>3. CASE refc[victim] = 0
    <3>1. \A r \in Proc, t \in Slot : frame[r][t] # victim BY <1>inv, <2>2, <2>3, CountsNone
    <3>2. data' = [data EXCEPT ![victim] = Junk] BY <1>8, <2>3 DEF KfreePush
    <3>3. \A g \in Frame : g # victim => data'[g] = data[g] BY <3>2, <1>t
    <3>4. ASSUME NEW r \in Proc, NEW u \in VPage PROVE Cell(r, u)' = Cell(r, u)
      <4>1. frame[r][u] # victim /\ frame[r][u] \in Frame \cup {None} BY <3>1, <1>t, Slots
      <4> QED BY <2>1, <3>3, <4>1 DEF Cell
    <3> QED BY <3>4, <1>inv, MemKept
  <2>4. CASE refc[victim] # 0 BY <1>8, <2>1, <2>4, <1>k DEF KfreePush
  <2> QED BY <2>3, <2>4
\* The copy holds what the page held.
<1>9. ASSUME NEW p \in Proc, CowCopy(p) PROVE Mem' = Mem
  <2> DEFINE v == cr2[p]  e == frame[p][v]
  <2>1. PICK f \in Frame : Kalloc(f) /\ data' = [data EXCEPT ![f] = data[e]]
                           /\ frame' = [frame EXCEPT ![p][v] = f, ![p][Owed] = e]
    BY <1>9 DEF CowCopy
  <2>2. pc[p] = "cow" /\ pc' = [pc EXCEPT ![p] = "owed"] BY <1>9 DEF CowCopy
  <2>3. v \in VPage /\ v \in Slot /\ v # Owed /\ frame[p][v] = e /\ e # None
    BY <2>2, <1>inv, Slots DEF Control
  <2> HIDE DEF v, e
  <2>4. \A r \in Proc, t \in Slot : frame[r][t] # f BY <2>1, <1>inv, KallocUnheld
  <2>5. \A r \in Proc, u \in VPage :
            frame'[r][u] = IF r = p /\ u = v THEN f ELSE frame[r][u]
    BY <2>1, <2>3, <1>t, Slots
  <2>6. \A g \in Frame : data'[g] = IF g = f THEN data[e] ELSE data[g] BY <2>1, <1>t
  <2>7. \A r \in Proc : pc'[r] \in Dead <=> pc[r] \in Dead BY <2>2, <1>t DEF Dead
  <2>8. ASSUME NEW r \in Proc, NEW u \in VPage PROVE Cell(r, u)' = Cell(r, u)
    <3>1. CASE r = p /\ u = v BY <2>3, <2>5, <2>6, <2>7, <3>1, <1>m DEF Cell
    <3>2. CASE ~(r = p /\ u = v)
      <4>1. frame[r][u] # f /\ frame[r][u] \in Frame \cup {None} BY <2>4, <1>t, Slots
      <4> QED BY <2>5, <2>6, <2>7, <3>2, <4>1 DEF Cell
    <3> QED BY <3>1, <3>2
  <2> QED BY <2>8, <1>inv, MemKept
<1>10. ASSUME NEW p \in Proc, CowDecr(p) PROVE Mem' = Mem
  <2>1. /\ frame' = [frame EXCEPT ![p][Owed] = None] /\ pc' = [pc EXCEPT ![p] = "user"]
        /\ pc[p] = "owed" /\ UNCHANGED data
    BY <1>10 DEF CowDecr, FaultReturns
  <2>2. \A r \in Proc, u \in VPage : frame'[r][u] = frame[r][u] BY <2>1, <1>t, Slots
  <2>3. \A r \in Proc : pc'[r] \in Dead <=> pc[r] \in Dead BY <2>1, <1>t DEF Dead
  <2> QED BY <2>1, <2>2, <2>3, <1>k
\* A store changes the page that only its own process sees.
<1>11. ASSUME NEW p \in Proc, NEW v \in VPage, NEW x \in Val, Store(p, v, x) PROVE PM!Next
  <2> DEFINE f == Target(p, v)
  <2>1. /\ pc[p] = "user" /\ (tlb[p][v] # None \/ Permitted(p, v))
        /\ data' = [data EXCEPT ![f] = <<p, x>>] /\ UNCHANGED <<pc, frame>>
    BY <1>11 DEF Store
  <2>2. f = frame[p][v] /\ f \in Frame /\ v \in Slot /\
        \A r \in Proc, t \in Slot : frame[r][t] = f => r = p /\ t = v
    <3>1. v \in Slot BY Slots
    <3>2. CASE tlb[p][v] # None
      <4>1. f = tlb[p][v] /\ f \in Frame BY <3>2, <1>t DEF Target
      <4>2. frame[p][v] = tlb[p][v] /\ Only(p, v) BY <2>1, <3>2 DEF TlbInv, TlbRow
      <4> HIDE DEF f
      <4>3. \A r \in Proc, t \in Slot : frame[r][t] = f => r = p /\ t = v
        BY <2>1, <4>1, <4>2 DEF Only
      <4> QED BY <3>1, <4>1, <4>2, <4>3
    <3>3. CASE tlb[p][v] = None
      <4>1. f = frame[p][v] /\ frame[p][v] # None /\ perm[p][v] = Writable
        BY <2>1, <3>3 DEF Target, Permitted
      <4>2. Sole(p, v) BY <4>1 DEF PrivInv, Writable
      <4> QED BY <3>1, <4>1, <4>2, <1>t DEF Sole
    <3> QED BY <3>2, <3>3
  <2> HIDE DEF f
  <2>3. \A g \in Frame : data'[g] = IF g = f THEN <<p, x>> ELSE data[g] BY <2>1, <1>t
  <2>4. \A r \in Proc, u \in VPage :
            Cell(r, u)' = IF r = p /\ u = v THEN <<p, x>> ELSE Cell(r, u)
    <3> SUFFICES ASSUME NEW r \in Proc, NEW u \in VPage
                 PROVE  Cell(r, u)' = IF r = p /\ u = v THEN <<p, x>> ELSE Cell(r, u)
      OBVIOUS
    <3>1. CASE r = p /\ u = v BY <2>1, <2>2, <2>3, <3>1, <1>m DEF Cell, Dead
    <3>2. CASE ~(r = p /\ u = v)
      <4>1. frame[r][u] # f /\ frame[r][u] \in Frame \cup {None} BY <2>2, <3>2, <1>t, Slots
      <4> QED BY <2>1, <2>3, <3>2, <4>1 DEF Cell
    <3> QED BY <3>1, <3>2
  <2>5. <<p, x>> \in Contents \cup {None} BY PageContents
  <2>6. Mem' = [Mem EXCEPT ![p][v] = <<p, x>>] BY <2>4, <2>5, <1>inv, MemPut
  <2>7. Mem[p][v] # None
    <3>1. Cell(p, v) = data[f] /\ data[f] # None BY <2>1, <2>2, <1>t, <1>m DEF Cell, Dead
    <3>2. Mem[p][v] = Cell(p, v) BY <1>inv, MemCells DEF Cells
    <3> QED BY <3>1, <3>2
  <2>8. PM!Write(p, v, x) BY <2>6, <2>7 DEF PM!Write, Mem
  <2> QED BY <2>8 DEF PM!Next
\* exit gives the whole memory up.
<1>12. ASSUME NEW p \in Proc, Exit(p) PROVE PM!Next
  <2>1. pc' = [pc EXCEPT ![p] = "zombie"] /\ UNCHANGED <<frame, data>> BY <1>12 DEF Exit
  <2> DEFINE y == [v \in VPage |-> None]
  <2>2. \A r \in Proc : pc'[r] = IF r = p THEN "zombie" ELSE pc[r] BY <2>1, <1>t
  <2>3. y \in [VPage -> Contents \cup {None}] /\ \A u \in VPage : y[u] = None OBVIOUS
  <2>4. y = PM!NoMem BY DEF PM!NoMem
  <2> HIDE DEF y
  <2>5. \A r \in Proc, u \in VPage : Cell(r, u)' = IF r = p THEN y[u] ELSE Cell(r, u)
    BY <2>1, <2>2, <2>3 DEF Cell, Dead
  <2>6. Mem' = [Mem EXCEPT ![p] = y] BY <2>3, <2>5, <1>inv, MemRow
  <2>7. PM!Drop(p) BY <2>4, <2>6 DEF PM!Drop, Mem
  <2> QED BY <2>7 DEF PM!Next
<1>13. ASSUME NEW p \in Proc, NoStack(p) \/ CopyFails(p) \/ GrowFails(p) \/ CowPanics(p)
       PROVE  scribbled'
  BY <1>13 DEF NoStack, CopyFails, GrowFails, CowPanics, KallocReturnsZero
<1>14. ASSUME NEW p \in Proc, NEW x, x \notin Dead, pc[p] \notin Dead, pc' = [pc EXCEPT ![p] = x],
              UNCHANGED <<frame, data>>
       PROVE  Mem' = Mem
  <2>1. \A r \in Proc : pc'[r] \in Dead <=> pc[r] \in Dead BY <1>14, <1>t
  <2> QED BY <2>1, <1>14, <1>s
<1>15. ASSUME NEW p \in Proc, GrowDone(p) \/ GrowUndone(p) \/ ShrinkDone(p) \/ CowReuse(p)
       PROVE  Mem' = Mem
  BY <1>14, <1>15 DEF GrowDone, GrowUndone, ShrinkDone, GrowprocReturns, CowReuse,
     FaultReturns, Dead
<1>16. ASSUME NEW p \in Proc, NEW n, Grow(p, n) \/ Shrink(p, n) PROVE Mem' = Mem
  BY <1>14, <1>16 DEF Grow, Shrink, Dead
<1>17. ASSUME NEW p \in Proc, NEW v \in VPage, Fault(p, v) PROVE Mem' = Mem
  BY <1>14, <1>17 DEF Fault, Dead
<1>18. ASSUME NEW p \in Proc, NEW c \in Proc, Fork(p, c) PROVE Mem' = Mem
  <2>1. /\ pc[p] = "user" /\ pc[c] = "unused" /\ UNCHANGED <<frame, data>>
        /\ pc' = [pc EXCEPT ![p] = "allocproc", ![c] = "embryo"]
    BY <1>18 DEF Fork
  <2>2. \A r \in Proc : pc'[r] \in Dead <=> pc[r] \in Dead BY <2>1, <1>t DEF Dead
  <2> QED BY <2>1, <2>2, <1>s
<1>19. ASSUME NEW p \in Proc, NEW c \in Proc, Wait(p, c) PROVE Mem' = Mem
  BY <1>14, <1>19 DEF Wait, Dead
<1>20. ASSUME NEW p \in Proc, SlotReleased(p) PROVE Mem' = Mem
  <2>1. /\ pc[p] \in {"freevm", "reap"} /\ UNCHANGED <<frame, data>>
        /\ pc' = [pc EXCEPT ![p] = "user", ![child[p]] = "unused"]
    BY <1>20 DEF SlotReleased
  <2>2. child[p] \in Proc /\ pc[child[p]] \in {"embryo", "zombie"}
    BY <2>1, <1>inv DEF Control, Building
  <2>3. \A r \in Proc : pc'[r] \in Dead <=> pc[r] \in Dead BY <2>1, <2>2, <1>t DEF Dead
  <2> QED BY <2>1, <2>3, <1>s
<1>21. ASSUME UNCHANGED <<pc, frame, data>> PROVE Mem' = Mem BY <1>21, <1>s
<1>22. ASSUME NEW p \in Proc,
              \/ CopyPanics(p) \/ KallocPanics(p) \/ Evict(p) \/ \E v \in VPage : FaultAbsent(p, v)
       PROVE  Mem' = Mem
  BY <1>21, <1>22 DEF CopyPanics, KallocPanics, Evict, FaultAbsent
<1>23. CASE UNCHANGED vars BY <1>21, <1>23 DEF vars
<1> QED
  BY <1>1, <1>2, <1>3, <1>4, <1>5, <1>6, <1>7, <1>8, <1>9, <1>10, <1>11, <1>12, <1>13, <1>15,
     <1>16, <1>17, <1>18, <1>19, <1>20, <1>22, <1>23 DEF Next, Kernel, User, Access

(* Sharing pages is invisible: each process has the memory it would have of *)
(* its own.  copyuvm, CoW_handler, growproc and kfree together implement    *)
(* PrivateMemory, until a kalloc that finds no page writes where it should  *)
(* not, and if no program shrinks to nothing.                               *)
THEOREM SharingIsInvisible == ASSUME MinSz # 0 PROVE Spec => MemoryIsPrivate
<1>1. SharingInv /\ SharingInv' /\ CopyInv /\ [Next]_vars
         => [PM!Next \/ scribbled']_[p \in Proc |-> View(p)]
  BY MemStep DEF SharingInv, Mem
<1>2. Init => CopyInv BY InitPriv
<1>3. SharingInv /\ CopyInv /\ [Next]_vars => CopyInv' BY CopyStep DEF SharingInv
<1> QED BY <1>1, <1>2, <1>3, Sharing, PTL DEF Spec, MemoryIsPrivate

=============================================================================
