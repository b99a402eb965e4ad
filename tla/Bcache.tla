------------------------------- MODULE Bcache -------------------------------
(***************************************************************************)
(* The buffer cache (src/xv6-public/bio.c) with the sleep-lock of each      *)
(* buffer (sleeplock.c) and the disk driver below it (ide.c).               *)
(*                                                                         *)
(* A step is a critical section of one spin-lock: bcache.lock, the lock in  *)
(* a sleep-lock, or idelock.  Between two of them anything may happen on    *)
(* another CPU.  sleep releases the lock it is given and falls asleep in    *)
(* one step (see Procs).  The disk works on one request at a time and       *)
(* answers with an interrupt.                                               *)
(*                                                                         *)
(* Which unused buffer bget recycles is left open here (the code takes the  *)
(* one that was used least recently), so the order of the list is left out. *)
(***************************************************************************)
EXTENDS Integers, Sequences, FiniteSets, SequencesExt, FiniteSetsExt

CONSTANTS
    Proc,       \* the processes
    Block,      \* block numbers
    Changing,   \* the blocks that the processes change, the others they read
    Nested,     \* pairs: with the first block in use a process may ask for the second
    Buf,        \* bcache.buf
    None,
    MaxHold,    \* buffers a process uses at once
    MaxPinned   \* blocks that the log has changed and not yet committed

ASSUME BcacheAssumption ==
    /\ IsFiniteSet(Proc) /\ IsFiniteSet(Buf)
    /\ None \notin Proc \cup Int \cup Buf
    /\ Block \subseteq Nat \ {0} /\ Changing \subseteq Block
    /\ \A b \in Block : <<b, b>> \notin Nested
    /\ MaxHold \in Nat \ {0} /\ MaxPinned \in Nat

VARIABLES
    disk,     \* disk[b]
    idequeue,
    busy,     \* the buffer whose request the disk works on, or None
    blockno,  \* blockno[i], None before the first use
    refcnt, valid, dirty, data,
    locked,   \* locked[i]: the holder of the buffer's sleep-lock, or None
    pc,       \* pc[p]: where p is
    hold,     \* hold[p]: the buffers p got from bget and has not dropped
    panic

ide == <<disk, idequeue, busy>>
flags == <<valid, dirty>>
vars == <<ide, blockno, refcnt, flags, data, locked, pc, hold, panic>>

\* hold[p] is a sequence of records of the block asked for and the buffer; the
\* last is the one that p asks for, waits for or gives back.
Top(p) == Last(hold[p]).i

-----------------------------------------------------------------------------
(* bio.c: bget *)

\* bget is called by a process that uses nothing or for a further block: bmap
\* has an indirect block, or none, when balloc asks for the bitmap (fs.c:389),
\* write_log a block of the log when it asks for the block to be copied.
MayAsk(p, b) ==
    /\ pc[p] \in {"idle", "use"}
    /\ Len(hold[p]) < MaxHold
    /\ \A k \in 1..Len(hold[p]) : <<hold[p][k].b, b>> \in Nested

Cached(b) == {i \in Buf : blockno[i] = b}

\* Mutant: does not look at B_DIRTY.
UnusedOrPinned == {i \in Buf : refcnt[i] = 0}

\* Mutant: takes a buffer for unused while nobody has locked it.
UnusedUnlocked == {i \in Buf : locked[i] = None /\ ~dirty[i]}

Unused == {i \in Buf : refcnt[i] = 0 /\ ~dirty[i]}

\* The block is cached.
BgetHit(p, b) ==
    /\ MayAsk(p, b)
    /\ \E i \in Cached(b) :
          /\ refcnt' = [refcnt EXCEPT ![i] = @ + 1]
          /\ hold' = [hold EXCEPT ![p] = Append(@, [b |-> b, i |-> i])]
    /\ pc' = [pc EXCEPT ![p] = "acquiresleep"]
    /\ UNCHANGED <<ide, blockno, flags, data, locked, panic>>

\* It is not: recycle an unused buffer, whose contents mean nothing now.
BgetRecycle(p, b) ==
    /\ MayAsk(p, b)
    /\ Cached(b) = {}
    /\ IF Unused = {}
         THEN /\ panic' = "bget: no buffers"
              /\ UNCHANGED <<blockno, refcnt, flags, data, pc, hold>>
         ELSE /\ \E i \in Unused :
                    /\ blockno' = [blockno EXCEPT ![i] = b]
                    /\ valid' = [valid EXCEPT ![i] = FALSE]
                    /\ dirty' = [dirty EXCEPT ![i] = FALSE]
                    /\ data' = [data EXCEPT ![i] = None]
                    /\ refcnt' = [refcnt EXCEPT ![i] = 1]
                    /\ hold' = [hold EXCEPT ![p] = Append(@, [b |-> b, i |-> i])]
              /\ pc' = [pc EXCEPT ![p] = "acquiresleep"]
              /\ UNCHANGED panic
    /\ UNCHANGED <<ide, locked>>

(* sleeplock.c, bread *)

\* acquiresleep; bread goes on to iderw if the buffer is not valid, which it
\* may test without a lock since it now has the buffer to itself.
AcquireSleep(p) ==
    /\ pc[p] = "acquiresleep"
    /\ IF locked[Top(p)] # None
         THEN pc' = [pc EXCEPT ![p] = "asleep"] /\ UNCHANGED locked
         ELSE /\ locked' = [locked EXCEPT ![Top(p)] = p]
              /\ pc' = [pc EXCEPT ![p] = IF valid[Top(p)] THEN "use" ELSE "iderw"]
    /\ UNCHANGED <<ide, blockno, refcnt, flags, data, hold, panic>>

-----------------------------------------------------------------------------
(* ide.c *)

\* idestart hands the request to the disk, and the data if it is a write.
Idestart(i) ==
    /\ busy' = i
    /\ disk' = IF dirty[i] THEN [disk EXCEPT ![blockno[i]] = data[i]] ELSE disk

Iderw(p) ==
    /\ pc[p] = "iderw"
    /\ panic' = IF locked[Top(p)] # p THEN "iderw: buf not locked"
                ELSE IF valid[Top(p)] /\ ~dirty[Top(p)] THEN "iderw: nothing to do"
                ELSE panic
    /\ idequeue' = Append(idequeue, Top(p))
    /\ IF idequeue = << >> THEN Idestart(Top(p)) ELSE UNCHANGED <<disk, busy>>
    /\ pc' = [pc EXCEPT ![p] = "wait"]
    /\ UNCHANGED <<blockno, refcnt, flags, data, locked, hold>>

\* The loop in iderw has ended for the processes that slept on buffer i.
Woken(i) ==
    [p \in Proc |-> IF pc[p] = "wait" /\ Top(p) = i THEN "use" ELSE pc[p]]

\* Mutant: starts the same request again.
IdeintrRepeats ==
    /\ busy # None
    /\ Idestart(busy)
    /\ UNCHANGED <<idequeue, blockno, refcnt, flags, data, locked, pc, hold, panic>>

\* The interrupt: the first buffer of the queue is done.
Ideintr ==
    /\ busy # None
    /\ LET i == Head(idequeue) IN
          /\ data' = IF dirty[i] THEN data ELSE [data EXCEPT ![i] = disk[blockno[i]]]
          /\ valid' = [valid EXCEPT ![i] = TRUE]
          /\ dirty' = [dirty EXCEPT ![i] = FALSE]
          /\ pc' = Woken(i)
    /\ idequeue' = Tail(idequeue)
    /\ IF idequeue' # << >>
         THEN Idestart(Head(idequeue'))
         ELSE busy' = None /\ UNCHANGED disk
    /\ UNCHANGED <<blockno, refcnt, locked, hold, panic>>

-----------------------------------------------------------------------------
(* What a process does with a buffer it has *)

\* A change: block b contains b or -b.
Values(k) == IF k \in Changing \/ -k \in Changing THEN {k, -k} ELSE {k}

Pinned == {i \in Buf : dirty[i] /\ i \notin Range(idequeue)}

\* It changes the data and tells the log, which pins the buffer (log.c:231).
LogWrite(p, k) ==
    /\ pc[p] = "use"
    /\ hold[p][k].b \in Changing
    /\ LET i == hold[p][k].i IN
          /\ dirty[i] \/ Cardinality(Pinned) < MaxPinned
          /\ \E v \in Values(data[i]) : data' = [data EXCEPT ![i] = v]
          /\ dirty' = [dirty EXCEPT ![i] = TRUE]
    /\ UNCHANGED <<ide, blockno, refcnt, valid, locked, pc, hold, panic>>

\* It writes the data to the disk: the log's own writes, changed or not.
Bwrite(p, k) ==
    /\ pc[p] = "use"
    /\ LET i == hold[p][k].i IN
          /\ \E v \in Values(data[i]) : data' = [data EXCEPT ![i] = v]
          /\ dirty' = [dirty EXCEPT ![i] = TRUE]
    /\ pc' = [pc EXCEPT ![p] = "iderw"]
    /\ hold' = [hold EXCEPT ![p] = Append(RemoveAt(@, k), @[k])]
    /\ UNCHANGED <<ide, blockno, refcnt, valid, locked, panic>>

\* Mutant: releasesleep wakes nobody.
BrelseSilent(p, k) ==
    /\ pc[p] = "use"
    /\ locked' = [locked EXCEPT ![hold[p][k].i] = None]
    /\ pc' = [pc EXCEPT ![p] = "brelse"]
    /\ hold' = [hold EXCEPT ![p] = Append(RemoveAt(@, k), @[k])]
    /\ UNCHANGED <<ide, blockno, refcnt, flags, data, panic>>

\* releasesleep
Brelse(p, k) ==
    /\ pc[p] = "use"
    /\ LET i == hold[p][k].i IN
          /\ panic' = IF locked[i] # p THEN "brelse" ELSE panic
          /\ locked' = [locked EXCEPT ![i] = None]
          /\ pc' = [q \in Proc |-> IF q = p THEN "brelse"
                                   ELSE IF pc[q] = "asleep" /\ Top(q) = i THEN "acquiresleep"
                                   ELSE pc[q]]
          /\ hold' = [hold EXCEPT ![p] = Append(RemoveAt(@, k), @[k])]
    /\ UNCHANGED <<ide, blockno, refcnt, flags, data>>

\* Mutant: does not count down.
DropUncounted(p) ==
    /\ pc[p] = "brelse"
    /\ hold' = [hold EXCEPT ![p] = Front(@)]
    /\ pc' = [pc EXCEPT ![p] = IF Len(hold[p]) = 1 THEN "idle" ELSE "use"]
    /\ UNCHANGED <<ide, blockno, refcnt, flags, data, locked, panic>>

\* ... and the rest of brelse, under bcache.lock.
Drop(p) ==
    /\ pc[p] = "brelse"
    /\ refcnt' = [refcnt EXCEPT ![Top(p)] = @ - 1]
    /\ hold' = [hold EXCEPT ![p] = Front(@)]
    /\ pc' = [pc EXCEPT ![p] = IF Len(hold[p]) = 1 THEN "idle" ELSE "use"]
    /\ UNCHANGED <<ide, blockno, flags, data, locked, panic>>

-----------------------------------------------------------------------------
Init ==
    /\ disk = [b \in Block |-> b]
    /\ idequeue = << >>
    /\ busy = None
    /\ blockno = [i \in Buf |-> None]
    /\ refcnt = [i \in Buf |-> 0]
    /\ valid = [i \in Buf |-> FALSE]
    /\ dirty = [i \in Buf |-> FALSE]
    /\ data = [i \in Buf |-> None]
    /\ locked = [i \in Buf |-> None]
    /\ pc = [p \in Proc |-> "idle"]
    /\ hold = [p \in Proc |-> << >>]
    /\ panic = None

Bget(p) ==
    \E b \in Block : BgetHit(p, b) \/ BgetRecycle(p, b)

Use(p) ==
    \E k \in 1..Len(hold[p]) : Bwrite(p, k) \/ LogWrite(p, k)

Outer == {b \in Block : \E c \in Block : <<b, c>> \in Nested}

GiveBack(p, b) == \E k \in 1..Len(hold[p]) : hold[p][k].b = b /\ Brelse(p, k)
Release(p) == \E k \in 1..Len(hold[p]) : Brelse(p, k)

Next ==
    /\ panic = None
    /\ \/ Ideintr
       \/ \E p \in Proc : \/ Bget(p) \/ AcquireSleep(p) \/ Iderw(p)
                          \/ Use(p) \/ Release(p) \/ Drop(p)

Spec == Init /\ [][Next]_vars

\* The disk answers every request; a process goes on unless it sleeps, and
\* uses no buffer for ever, nor one with which it asks for others.
FairSpec ==
    /\ Spec
    /\ WF_vars(panic = None /\ Ideintr)
    /\ \A p \in Proc : /\ WF_vars(panic = None /\ (AcquireSleep(p) \/ Iderw(p) \/ Drop(p)))
                       /\ SF_vars(panic = None /\ Release(p))
                       /\ \A b \in Outer : SF_vars(panic = None /\ GiveBack(p, b))

-----------------------------------------------------------------------------
(* Properties *)

TypeOK ==
    /\ disk \in [Block -> Int] /\ \A b \in Block : disk[b] \in {b, -b}
    /\ idequeue \in Seq(Buf)
    /\ busy \in Buf \cup {None}
    /\ blockno \in [Buf -> Block \cup {None}]
    /\ refcnt \in [Buf -> 0..Cardinality(Proc)]
    /\ valid \in [Buf -> BOOLEAN] /\ dirty \in [Buf -> BOOLEAN]
    /\ data \in [Buf -> Int \cup {None}]
    /\ \A i \in Buf : data[i] # None => data[i] \in {blockno[i], -blockno[i]}
    /\ locked \in [Buf -> Proc \cup {None}]
    /\ pc \in [Proc -> {"idle", "acquiresleep", "asleep", "iderw", "wait", "use", "brelse"}]
    /\ hold \in [Proc -> Seq([b : Block, i : Buf])]
    /\ \A p \in Proc : Len(hold[p]) =< MaxHold

\* A buffer that somebody got from bget stays the buffer of that block until
\* he gives it back, and its count says how many such processes there are.
KeptWhileInUse ==
    /\ \A p \in Proc : \A k \in 1..Len(hold[p]) : blockno[hold[p][k].i] = hold[p][k].b
    /\ \A i \in Buf :
          refcnt[i] = Cardinality({p \in Proc : \E k \in 1..Len(hold[p]) : hold[p][k].i = i})

\* While a request for a buffer is queued, its holder waits and nobody else
\* has it; the disk works on the first of the queue.
QueueIsSound ==
    /\ IsInjective(idequeue)
    /\ busy = IF idequeue = << >> THEN None ELSE Head(idequeue)
    /\ \A i \in Range(idequeue) :
          \E p \in Proc : pc[p] = "wait" /\ Top(p) = i /\ locked[i] = p

\* The state is well typed, buffers are kept while they are in use, and the
\* disk's queue is sound.
BcacheInv == TypeOK /\ KeptWhileInUse /\ QueueIsSound

\* The kernel never runs out of buffers as long as there are as many as can
\* be in use or pinned, and its own checks in iderw and brelse hold.
NeverPanics == panic = None

Owner(b) ==
    IF \E i \in Cached(b) : locked[i] # None
      THEN locked[CHOOSE i \in Cached(b) : locked[i] # None]
      ELSE None

Content(b) ==
    IF \E i \in Cached(b) : valid[i]
      THEN data[CHOOSE i \in Cached(b) : valid[i]]
      ELSE disk[b]

Store == INSTANCE BlockStore
             WITH Nobody <- None,
                  Val <- Block \cup {-b : b \in Block},
                  owner <- [b \in Block |-> Owner(b)],
                  content <- [b \in Block |-> Content(b)]

\* Processes cannot tell the cache from blocks with a lock each: one user at
\* a time, who finds what the last one left, whatever is recycled, read and
\* written in between.
ImplementsBlockStore == Store!Spec

\* Whoever waits for the disk gets an answer.
DiskAnswers == \A p \in Proc : pc[p] = "wait" ~> pc[p] = "use"

\* Whoever sleeps for a buffer is woken (he may be overtaken then).
SleepersWake == \A p \in Proc : pc[p] = "asleep" ~> pc[p] # "asleep"
=============================================================================
