-------------------------------- MODULE Log --------------------------------
(***************************************************************************)
(* src/xv6-public/log.c: the log of the file system.  An operation says     *)
(* begin_op, changes blocks in the buffer cache, tells log_write of each,   *)
(* and says end_op.  When the last operation under way ends, all changed    *)
(* blocks are copied to the log on disk, the header that names them is      *)
(* written (the commit), the blocks are written to their places, and the    *)
(* header is cleared.  After a crash the header says what to install.       *)
(*                                                                         *)
(* A step is a critical section of log.lock, one write of a block to the    *)
(* disk (a block is one sector: written entirely or not at all), or what a  *)
(* process does to one block while it holds the block's sleep-lock.         *)
(***************************************************************************)
EXTENDS Integers, Sequences, FiniteSets, SequencesExt

CONSTANTS
    Proc,      \* the processes
    Block,     \* the blocks of the file system (not those of the log)
    Val,       \* what a block may contain
    Zero,      \* what it contains at first
    None,
    MaxOp,     \* MAXOPBLOCKS: blocks begin_op reserves for an operation
    LogSize,   \* LOGSIZE: entries of the header
    NLog,      \* sb.nlog: blocks of the log on disk, the header among them
    OpBlocks   \* different blocks that an operation of this instance writes at most

ASSUME LogAssumption ==
    /\ IsFiniteSet(Proc)
    /\ Zero \in Val /\ None \notin Val /\ None \notin Block
    /\ MaxOp \in Nat \ {0} /\ LogSize \in Nat /\ NLog \in Nat /\ OpBlocks \in Nat
    /\ MaxOp =< LogSize
    /\ OpBlocks =< MaxOp

VARIABLES
    \* on the disk
    data,    \* data[b]: block b in its place
    logged,  \* logged[k]: block log.start + k
    head,    \* the header, as the sequence of the block numbers it names
    \* in memory
    cache,   \* cache[b]: block b in the buffer cache, or None
    dirty,   \* the blocks whose buffer has B_DIRTY
    lh,      \* log.lh
    outstanding, committing,
    up,      \* has the log been recovered since the last start?
    at,      \* what write_log, write_head or install_trans does next
    tail,    \* how many blocks it has done
    pc,      \* pc[p]: where process p is
    held,    \* held[p]: the block p has changed and not yet told the log of
    wrote,   \* wrote[p]: the blocks that p's operation has told the log of
    panic

disk == <<data, logged, head>>
locals == <<pc, held, wrote>>
vars == <<disk, cache, dirty, lh, outstanding, committing, up, at, tail, locals, panic>>

Slot == 1..(NLog - 1)

-----------------------------------------------------------------------------
(* Helpers *)

\* log_write's first test, made without log.lock
TooBig == Len(lh) >= LogSize \/ Len(lh) >= NLog - 1

\* Mutant: reserves nothing for the operations under way.
AdmitsGreedy == ~committing /\ Len(lh) + MaxOp =< LogSize

\* begin_op's test
Admits == ~committing /\ Len(lh) + (outstanding + 1) * MaxOp =< LogSize

\* The processes that sleep on &log wake up.
Wakeup(f) == [q \in Proc |-> IF f[q] = "asleep" THEN "begin" ELSE f[q]]

\* What bread of b returns: the buffer if there is one, or what the disk has.
Bread(b) == IF cache[b] = None THEN data[b] ELSE cache[b]

-----------------------------------------------------------------------------
(* Operations *)

Enter(p) ==
    /\ up
    /\ pc[p] = "idle"
    /\ pc' = [pc EXCEPT ![p] = "begin"]
    /\ UNCHANGED <<disk, cache, dirty, lh, outstanding, committing, up, at, tail, held, wrote, panic>>

BeginOp(p) ==
    /\ pc[p] = "begin"
    /\ IF Admits
         THEN /\ outstanding' = outstanding + 1
              /\ pc' = [pc EXCEPT ![p] = "op"]
         ELSE /\ pc' = [pc EXCEPT ![p] = "asleep"]
              /\ UNCHANGED outstanding
    /\ UNCHANGED <<disk, cache, dirty, lh, committing, up, at, tail, held, wrote, panic>>

\* bread, a change of the data, and log_write up to acquire(&log.lock): the
\* buffer is locked until Record.  A block may be written any number of times,
\* and log_write's tests come before it is found in the log already.
Modify(p, b, v) ==
    /\ pc[p] = "op"
    /\ Cardinality(wrote[p] \cup {b}) =< OpBlocks
    /\ \A q \in Proc : held[q] # b
    /\ cache' = [cache EXCEPT ![b] = v]
    /\ held' = [held EXCEPT ![p] = b]
    /\ pc' = [pc EXCEPT ![p] = "log_write"]
    /\ panic' = IF TooBig THEN "too big a transaction"
                ELSE IF outstanding < 1 THEN "log_write outside of trans"
                ELSE panic
    /\ UNCHANGED <<disk, dirty, lh, outstanding, committing, up, at, tail, wrote>>

\* Mutant: the buffer is not pinned.
RecordUnpinned(p) ==
    /\ pc[p] = "log_write"
    /\ lh' = IF held[p] \in Range(lh) THEN lh ELSE Append(lh, held[p])
    /\ held' = [held EXCEPT ![p] = None]
    /\ wrote' = [wrote EXCEPT ![p] = @ \cup {held[p]}]
    /\ pc' = [pc EXCEPT ![p] = "op"]
    /\ UNCHANGED <<disk, cache, dirty, outstanding, committing, up, at, tail, panic>>

\* The rest of log_write, and brelse.
Record(p) ==
    /\ pc[p] = "log_write"
    /\ lh' = IF held[p] \in Range(lh) THEN lh ELSE Append(lh, held[p])
    /\ dirty' = dirty \cup {held[p]}
    /\ held' = [held EXCEPT ![p] = None]
    /\ wrote' = [wrote EXCEPT ![p] = @ \cup {held[p]}]
    /\ pc' = [pc EXCEPT ![p] = "op"]
    /\ UNCHANGED <<disk, cache, outstanding, committing, up, at, tail, panic>>

EndOp(p) ==
    /\ pc[p] = "op"
    /\ outstanding' = outstanding - 1
    /\ wrote' = [wrote EXCEPT ![p] = {}]
    /\ panic' = IF committing THEN "log.committing" ELSE panic
    /\ IF outstanding' = 0
         THEN /\ committing' = TRUE
              /\ pc' = [pc EXCEPT ![p] = "commit"]
              /\ at' = IF lh = << >> THEN "end" ELSE "write_log"
         ELSE /\ pc' = Wakeup([pc EXCEPT ![p] = "idle"])
              /\ UNCHANGED <<committing, at>>
    /\ UNCHANGED <<disk, cache, dirty, lh, up, tail, held>>

\* The buffer cache takes the buffer of a block nobody uses, unless it has
\* B_DIRTY (bget, src/xv6-public/bio.c:81).
Evict(b) ==
    /\ cache[b] # None
    /\ b \notin dirty
    /\ \A p \in Proc : held[p] # b
    /\ cache' = [cache EXCEPT ![b] = None]
    /\ UNCHANGED <<disk, dirty, lh, outstanding, committing, up, at, tail, locals, panic>>

-----------------------------------------------------------------------------
(* Commit and recovery *)

WriteLog ==
    /\ at = "write_log"
    /\ logged' = [logged EXCEPT ![tail + 1] = Bread(lh[tail + 1])]
    /\ IF tail + 1 < Len(lh)
         THEN tail' = tail + 1 /\ UNCHANGED at
         ELSE tail' = 0 /\ at' = "write_head"
    /\ UNCHANGED <<data, head, cache, dirty, lh, outstanding, committing, up, locals, panic>>

WriteHead ==
    /\ at = "write_head"
    /\ head' = lh
    /\ at' = "install_trans"
    /\ UNCHANGED <<data, logged, cache, dirty, lh, outstanding, committing, up, tail, locals, panic>>

\* bwrite takes B_DIRTY away.
InstallTrans ==
    /\ at = "install_trans"
    /\ IF tail < Len(lh)
         THEN /\ data' = [data EXCEPT ![lh[tail + 1]] = logged[tail + 1]]
              /\ cache' = [cache EXCEPT ![lh[tail + 1]] = logged[tail + 1]]
              /\ dirty' = dirty \ {lh[tail + 1]}
              /\ tail' = tail + 1
              /\ UNCHANGED <<lh, at>>
         ELSE /\ lh' = << >>
              /\ tail' = 0
              /\ at' = "erase"
              /\ UNCHANGED <<data, cache, dirty>>
    /\ UNCHANGED <<logged, head, outstanding, committing, up, locals, panic>>

\* write_head with nothing in the log; recover_from_log ends with it, too.
Erase ==
    /\ at = "erase"
    /\ head' = lh
    /\ at' = IF up THEN "end" ELSE "none"
    /\ up' = TRUE
    /\ UNCHANGED <<data, logged, cache, dirty, lh, outstanding, committing, tail, locals, panic>>

\* Mutant: committing stays set.
CommitDoneLocked(p) ==
    /\ pc[p] = "commit"
    /\ at = "end"
    /\ at' = "none"
    /\ pc' = Wakeup([pc EXCEPT ![p] = "idle"])
    /\ UNCHANGED <<disk, cache, dirty, lh, outstanding, committing, up, tail, held, wrote, panic>>

\* Mutant: nobody is woken after the commit.
CommitDoneSilent(p) ==
    /\ pc[p] = "commit"
    /\ at = "end"
    /\ committing' = FALSE
    /\ at' = "none"
    /\ pc' = [pc EXCEPT ![p] = "idle"]
    /\ UNCHANGED <<disk, cache, dirty, lh, outstanding, up, tail, held, wrote, panic>>

CommitDone(p) ==
    /\ pc[p] = "commit"
    /\ at = "end"
    /\ committing' = FALSE
    /\ at' = "none"
    /\ pc' = Wakeup([pc EXCEPT ![p] = "idle"])
    /\ UNCHANGED <<disk, cache, dirty, lh, outstanding, up, tail, held, wrote, panic>>

\* The machine stops and starts again: only the disk remains.
Crash ==
    /\ cache' = [b \in Block |-> None]
    /\ dirty' = {}
    /\ lh' = << >>
    /\ outstanding' = 0
    /\ committing' = FALSE
    /\ up' = FALSE
    /\ at' = "read_head"
    /\ tail' = 0
    /\ pc' = [p \in Proc |-> "idle"]
    /\ held' = [p \in Proc |-> None]
    /\ wrote' = [p \in Proc |-> {}]
    /\ UNCHANGED <<disk, panic>>

\* recover_from_log goes on with InstallTrans and Erase.
ReadHead ==
    /\ at = "read_head"
    /\ lh' = head
    /\ at' = "install_trans"
    /\ UNCHANGED <<disk, cache, dirty, outstanding, committing, up, tail, locals, panic>>

-----------------------------------------------------------------------------
Init ==
    /\ data = [b \in Block |-> Zero]
    /\ logged = [k \in Slot |-> Zero]
    /\ head = << >>
    /\ cache = [b \in Block |-> None]
    /\ dirty = {}
    /\ lh = << >>
    /\ outstanding = 0
    /\ committing = FALSE
    /\ up = FALSE
    /\ at = "read_head"
    /\ tail = 0
    /\ pc = [p \in Proc |-> "idle"]
    /\ held = [p \in Proc |-> None]
    /\ wrote = [p \in Proc |-> {}]
    /\ panic = None

\* What goes on by itself once it has begun.
Commits == WriteLog \/ WriteHead \/ InstallTrans \/ Erase \/ ReadHead
Goes(p) == BeginOp(p) \/ Record(p) \/ CommitDone(p)

Next ==
    /\ panic = None
    /\ \/ Commits
       \/ Crash
       \/ \E b \in Block : Evict(b)
       \/ \E p \in Proc : \/ Enter(p)
                          \/ Goes(p) \/ EndOp(p)
                          \/ \E b \in Block, v \in Val : Modify(p, b, v)

Spec == Init /\ [][Next]_vars

\* The disk answers, and a process inside the kernel goes on.  It ends its
\* operation, though it may write one block again and again before that.
FairSpec ==
    /\ Spec
    /\ WF_vars(panic = None /\ Commits)
    /\ \A p \in Proc : /\ WF_vars(panic = None /\ Goes(p))
                       /\ SF_vars(panic = None /\ EndOp(p))

-----------------------------------------------------------------------------
(* Properties *)

TypeOK ==
    /\ data \in [Block -> Val]
    /\ logged \in [Slot -> Val]
    /\ head \in Seq(Block) /\ lh \in Seq(Block)
    /\ Len(head) =< NLog - 1 /\ Len(lh) =< NLog - 1
    /\ cache \in [Block -> Val \cup {None}]
    /\ dirty \subseteq Block
    /\ outstanding \in 0..Cardinality(Proc)
    /\ committing \in BOOLEAN /\ up \in BOOLEAN
    /\ at \in {"none", "write_log", "write_head", "install_trans", "erase", "end", "read_head"}
    /\ tail \in 0..(NLog - 1)
    /\ pc \in [Proc -> {"idle", "begin", "asleep", "op", "log_write", "commit"}]
    /\ held \in [Proc -> Block \cup {None}]
    /\ wrote \in [Proc -> SUBSET Block]
    /\ \A p \in Proc : Cardinality(wrote[p]) \in 0..OpBlocks

\* begin_op admits only as many operations as the log has room for: no
\* log_write finds the log full, of a block that is in the log already either,
\* and no operation is under way in a commit.
NeverPanics == panic = None

\* The state is well typed, and log_write never panics.
LogInv == TypeOK /\ NeverPanics

\* What recovery would make of the disk now.
Recovered ==
    [b \in Block |->
        IF b \in Range(head)
          THEN logged[CHOOSE k \in 1..Len(head) : head[k] = b]
          ELSE data[b]]

\* What operations see; before the log has been recovered there are none.
View == IF up THEN [b \in Block |-> Bread(b)] ELSE Recovered

Disk == INSTANCE AtomicDisk
            WITH mem <- View, stable <- Recovered,
                 active <- {p \in Proc : pc[p] \in {"op", "log_write"}}

\* The log, the buffer cache and the disk together behave like a disk on
\* which the writes of finished operations become stable at once, in spite
\* of crashes at any write, also during recovery.
ImplementsAtomicDisk == Disk!Spec

\* A process that sleeps because the log is short of space or committing is
\* woken (to test again: it may be overtaken then).
SleepersWake == \A p \in Proc : pc[p] = "asleep" ~> pc[p] # "asleep"

\* A commit ends.
CommitEnds == committing ~> ~committing
=============================================================================
