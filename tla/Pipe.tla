-------------------------------- MODULE Pipe --------------------------------
(***************************************************************************)
(* A pipe (src/xv6-public/pipe.c) between processes of the base kernel      *)
(* (module Procs): the programs fork, share the pipe's two ends, read,      *)
(* write, close, wait, kill each other and exit, in any order.              *)
(*                                                                         *)
(* p->lock is held from the check of the buffer to the end of the call, or  *)
(* to the sleep, and ptable.lock is acquired under it.  How the counters    *)
(* wrap at 2^32 is kept: they count modulo Wrap, a multiple of PIPESIZE.    *)
(***************************************************************************)
EXTENDS Procs, Sequences, SequencesExt

CONSTANTS
    PIPESIZE, Wrap,
    Sizes,       \* how many bytes a call reads or writes
    Victims,     \* the slots whose processes may be killed,
    KillWriters  \* also while they have the pipe open for writing

ASSUME PipeAssumption ==
    /\ PIPESIZE \in Nat \ {0} /\ Wrap \in Nat
    /\ Wrap % PIPESIZE = 0 /\ Wrap > PIPESIZE
    /\ Sizes \subseteq Nat \ {0} /\ Victims \subseteq Proc
    /\ KillWriters \in BOOLEAN
    /\ None \notin Seq(0..Wrap - 1)

VARIABLES
    fd,         \* fd[p]: the ends p has open; the others' references count them
    lock,       \* p->lock: the process that holds it, or None
    data, nread, nwrite, readopen, writeopen,
    got         \* got[p]: what a read has put at addr, None outside of the call

ends == <<fd, readopen, writeopen>>
bytes == <<data, nread, nwrite>>
pipe == <<ends, bytes, lock, got>>
vars == <<ptable, pipe>>

\* The addresses of p->nread and p->nwrite, as sleep's channels.
NREAD == 0
NWRITE == -1

Length == (nwrite - nread) % Wrap
Empty == nread = nwrite

\* Mutant: the bytes counted as if the counters never wrapped.
SpaceUnwrapped == PIPESIZE - (IF nwrite >= nread THEN nwrite - nread ELSE 0)

Space == PIPESIZE - Length

At(k) == data[k % PIPESIZE]

\* The value of pc[p] after p's system call.
Return(p) == [pc EXCEPT ![p] = "user"]

-----------------------------------------------------------------------------
(* pipealloc *)

\* Two files and a page, for a process of the program (not for init).
PipeAlloc(p) ==
    /\ InUser(p) /\ p # InitProc
    /\ ~readopen /\ ~writeopen /\ lock = None
    /\ fd' = [fd EXCEPT ![p] = {"r", "w"}]
    /\ readopen' = TRUE /\ writeopen' = TRUE
    /\ nread' = 0 /\ nwrite' = 0
    /\ UNCHANGED <<ptable, data, lock, got>>

-----------------------------------------------------------------------------
(* piperead *)

\* A call for n bytes, or the return from sleep with arg[p] = n.
PipeRead(p, n) ==
    /\ \/ InUser(p) /\ "r" \in fd[p]
       \/ Running(p) /\ pc[p] = "read"
    /\ lock = None
    /\ \/ /\ Empty /\ writeopen /\ p \in killed
          /\ pc' = Return(p)
          /\ arg' = [arg EXCEPT ![p] = 0]
          /\ UNCHANGED <<lock, nread, got>>
       \/ /\ Empty /\ writeopen /\ p \notin killed
          /\ pc' = [pc EXCEPT ![p] = "sleep nread"]
          /\ arg' = [arg EXCEPT ![p] = n]
          /\ lock' = p
          /\ UNCHANGED <<nread, got>>
       \/ /\ ~Empty \/ ~writeopen
          /\ LET m == IF n < Length THEN n ELSE Length IN
                /\ got' = [got EXCEPT ![p] = [k \in 1..m |-> At(nread + k - 1)]]
                /\ nread' = (nread + m) % Wrap
          /\ pc' = [pc EXCEPT ![p] = "has read"]
          /\ arg' = [arg EXCEPT ![p] = 0]
          /\ lock' = p
    /\ UNCHANGED <<state, chan, parent, killed, run, ptlock, ends, data, nwrite>>

ReadReturns(p) ==
    /\ pc[p] = "has read"
    /\ Wakeup(p, NWRITE, "user")
    /\ got' = [got EXCEPT ![p] = None]
    /\ lock' = None
    /\ UNCHANGED <<arg, ends, bytes>>

-----------------------------------------------------------------------------
(* pipewrite *)

\* What the programs write is theirs; these number the bytes.
Byte(k) == (nwrite + k) % Wrap

\* A call for n bytes, or the return from sleep with n of them left: as many
\* as there is space for are copied.
PipeWrite(p, n) ==
    /\ \/ InUser(p) /\ "w" \in fd[p]
       \/ Running(p) /\ pc[p] = "write"
    /\ lock = None
    /\ LET m == IF n < Space THEN n ELSE Space IN
          /\ data' = [j \in DOMAIN data |->
                        IF \E k \in 0..m - 1 : (nwrite + k) % PIPESIZE = j
                          THEN Byte(CHOOSE k \in 0..m - 1 : (nwrite + k) % PIPESIZE = j)
                          ELSE data[j]]
          /\ nwrite' = (nwrite + m) % Wrap
          /\ \/ /\ m = n
                /\ pc' = [pc EXCEPT ![p] = "has written"]
                /\ arg' = [arg EXCEPT ![p] = 0]
                /\ lock' = p
             \/ /\ m < n /\ (~readopen \/ p \in killed)
                /\ pc' = Return(p)
                /\ arg' = [arg EXCEPT ![p] = 0]
                /\ UNCHANGED lock
             \/ /\ m < n /\ readopen /\ p \notin killed
                /\ pc' = [pc EXCEPT ![p] = "is full"]
                /\ arg' = [arg EXCEPT ![p] = n - m]
                /\ lock' = p
    /\ UNCHANGED <<state, chan, parent, killed, run, ptlock, ends, nread, got>>

\* The buffer is full: wake the readers, then sleep.
WakeReaders(p) ==
    /\ pc[p] = "is full"
    /\ Wakeup(p, NREAD, "sleep nwrite")
    /\ UNCHANGED <<arg, pipe>>

WriteReturns(p) ==
    /\ pc[p] = "has written"
    /\ Wakeup(p, NREAD, "user")
    /\ lock' = None
    /\ UNCHANGED <<arg, ends, bytes, got>>

-----------------------------------------------------------------------------
(* sleep(&p->nread, &p->lock) and sleep(&p->nwrite, &p->lock) *)

Asleep(place) == IF place = "sleep nread" THEN "asleep nread" ELSE "asleep nwrite"

\* Mutant: releases p->lock before it acquires ptable.lock.
SleepSwapped(p) ==
    /\ pc[p] \in {"sleep nread", "sleep nwrite"}
    /\ IF lock = p
         THEN Running(p) /\ lock' = None /\ UNCHANGED <<ptable, ends, bytes, got>>
         ELSE /\ SleepLocks(p)
              /\ pc' = [pc EXCEPT ![p] = Asleep(@)]
              /\ UNCHANGED pipe

Sleep(p) ==
    /\ pc[p] \in {"sleep nread", "sleep nwrite"}
    /\ SleepLocks(p)
    /\ pc' = [pc EXCEPT ![p] = Asleep(@)]
    /\ lock' = None
    /\ UNCHANGED <<ends, bytes, got>>

FallAsleep(p) ==
    /\ \/ pc[p] = "asleep nread" /\ SleepState(p, NREAD, "read")
       \/ pc[p] = "asleep nwrite" /\ SleepState(p, NWRITE, "write")
    /\ UNCHANGED pipe

-----------------------------------------------------------------------------
(* fileclose, pipeclose *)

\* Mutant: closes the pipe with the first reference.
CloseAll(p, e) ==
    /\ Running(p) /\ pc[p] = "user" /\ e \in fd[p]
    /\ fd' = [fd EXCEPT ![p] = @ \ {e}]
    /\ pc' = [pc EXCEPT ![p] = IF e = "r" THEN "close r" ELSE "close w"]
    /\ UNCHANGED <<state, chan, parent, killed, arg, run, ptlock, readopen, writeopen,
                   bytes, lock, got>>

\* close, one of the closes of exit, or those of a process that was killed.
\* The last reference to an end closes the pipe there.
Close(p, e) ==
    /\ Running(p) /\ pc[p] = "user" /\ e \in fd[p]
    /\ fd' = [fd EXCEPT ![p] = @ \ {e}]
    /\ IF \E q \in Proc \ {p} : e \in fd[q]
         THEN UNCHANGED pc
         ELSE pc' = [pc EXCEPT ![p] = IF e = "r" THEN "close r" ELSE "close w"]
    /\ UNCHANGED <<state, chan, parent, killed, arg, run, ptlock, readopen, writeopen,
                   bytes, lock, got>>

PipeClose(p) ==
    /\ Running(p) /\ lock = None
    /\ \/ pc[p] = "close w" /\ writeopen' = FALSE /\ UNCHANGED readopen
       \/ pc[p] = "close r" /\ readopen' = FALSE /\ UNCHANGED writeopen
    /\ pc' = [pc EXCEPT ![p] = IF @ = "close w" THEN "closed w" ELSE "closed r"]
    /\ lock' = p
    /\ UNCHANGED <<state, chan, parent, killed, arg, run, ptlock, fd, bytes, got>>

\* The page is freed with the second end: what it contains means nothing.
PipeCloseReturns(p) ==
    /\ \/ pc[p] = "closed w" /\ Wakeup(p, NREAD, "user")
       \/ pc[p] = "closed r" /\ Wakeup(p, NWRITE, "user")
    /\ lock' = None
    /\ IF readopen \/ writeopen THEN UNCHANGED bytes
       ELSE nread' = 0 /\ nwrite' = 0 /\ UNCHANGED data
    /\ UNCHANGED <<arg, ends, got>>

-----------------------------------------------------------------------------
(* The process table's steps *)

\* fork: filedup for each end.
Forked(p) ==
    /\ ForkReturns(p)
    /\ fd' = [fd EXCEPT ![arg[p]] = fd[p]]
    /\ UNCHANGED <<readopen, writeopen, bytes, lock, got>>

Killed(p, q) ==
    /\ q \in Victims /\ (KillWriters \/ "w" \notin fd[q])
    /\ Kill(p, q)
    /\ UNCHANGED pipe

Exited(p) == fd[p] = {} /\ Exit(p) /\ UNCHANGED pipe

Waits(p) == Wait(p) /\ UNCHANGED pipe

\* What a program decides to do.  Init forks when it has no child (init.c:25).
Call(p) ==
    \/ PipeAlloc(p)
    \/ \E n \in Sizes : InUser(p) /\ (PipeRead(p, n) \/ PipeWrite(p, n))
    \/ \E e \in fd[p] : Close(p, e)
    \/ (p = InitProc => Children(p) = {}) /\ Fork(p) /\ UNCHANGED pipe
    \/ Exited(p)
    \/ \E q \in Proc : Killed(p, q)
    \/ pc[p] = "user" /\ Waits(p)

\* What the kernel does for p in a system call.
Kernel(p) ==
    \/ pc[p] # "user" /\ (PipeRead(p, arg[p]) \/ PipeWrite(p, arg[p]))
    \/ ReadReturns(p) \/ WriteReturns(p) \/ WakeReaders(p)
    \/ Sleep(p) \/ FallAsleep(p)
    \/ PipeClose(p) \/ PipeCloseReturns(p)
    \/ Forked(p)
    \/ ForkFails(p) /\ UNCHANGED pipe
    \/ pc[p] = "wait" /\ Waits(p)

Timer(p) == lock # p /\ Yield(p) /\ UNCHANGED pipe

Scheduler(c) == (Pass(c) \/ Sched(c)) /\ UNCHANGED pipe

Init ==
    /\ ProcsInit
    /\ fd = [p \in Proc |-> {}]
    /\ lock = None
    /\ data = [j \in 0..PIPESIZE - 1 |-> 0]
    /\ nread = 0 /\ nwrite = 0
    /\ readopen = FALSE /\ writeopen = FALSE
    /\ got = [p \in Proc |-> None]

Next ==
    \/ \E p \in Proc : Call(p) \/ Kernel(p) \/ Timer(p)
    \/ \E c \in Cpu : Scheduler(c)

Spec == Init /\ [][Next]_vars

-----------------------------------------------------------------------------
(* Properties *)

Place == {"user", "fork", "wait", "read", "write", "sleep nread", "sleep nwrite",
          "asleep nread", "asleep nwrite", "has read", "has written", "is full",
          "close r", "close w", "closed r", "closed w"}

TypeOK ==
    /\ state \in [Proc -> {"UNUSED", "LEFT", "EMBRYO", "SLEEPING", "RUNNABLE", "RUNNING", "ZOMBIE"}]
    /\ chan \in [Proc -> Proc \cup {NREAD, NWRITE, None}]
    /\ parent \in [Proc -> Proc \cup {None}]
    /\ killed \subseteq Proc
    /\ \A p \in Proc : arg[p] \in Nat
    /\ pc \in [Proc -> Place]
    /\ run \in [Cpu -> Proc \cup {None}]
    /\ ptlock \in Cpu \cup {None}
    /\ fd \in [Proc -> SUBSET {"r", "w"}]
    /\ lock \in Proc \cup {None}
    /\ data \in [0..PIPESIZE - 1 -> 0..Wrap - 1]
    /\ {nread, nwrite} \subseteq 0..Wrap - 1
    /\ readopen \in BOOLEAN /\ writeopen \in BOOLEAN
    /\ \A p \in Proc : got[p] # None => got[p] \in Seq(0..Wrap - 1)
    /\ Length =< PIPESIZE

\* A CPU runs a process on the process's kernel stack until swtch.  Until
\* then ptable.lock keeps everybody else from running it too, and from
\* freeing the stack of one that has exited.
StacksApart ==
    /\ \A c, d \in Cpu : run[c] # None /\ run[c] = run[d] => c = d
    /\ \A p \in Proc : state[p] = "RUNNING" => \E c \in Cpu : run[c] = p
    /\ \A c \in Cpu :
          run[c] # None => \/ state[run[c]] = "RUNNING"
                           \/ ptlock = c /\ state[run[c]] \in {"RUNNABLE", "SLEEPING", "ZOMBIE"}

Asleep1(p, ch) == state[p] = "SLEEPING" /\ chan[p] = ch

\* Nobody sleeps over what he waits for: whenever nobody is in the middle of
\* a call a sleeping reader finds the buffer empty and a writer left, a
\* sleeping writer finds it full and a reader left, and a parent asleep in
\* wait has children and none to reap.
NoLostWakeup ==
    /\ lock = None =>
          \A p \in Proc :
              /\ Asleep1(p, NREAD) => Empty /\ writeopen
              /\ Asleep1(p, NWRITE) => Length = PIPESIZE /\ readopen
    /\ ptlock = None =>
          \A p \in Proc :
              Asleep1(p, p) => /\ Children(p) # {}
                               /\ \A q \in Children(p) : state[q] # "ZOMBIE"

\* An end is open in the pipe as long as some process has it or is closing
\* it, so nobody uses the pipe's page after pipeclose has freed it.
EndsCounted ==
    \A e \in {"r", "w"} :
        (IF e = "r" THEN readopen ELSE writeopen) <=>
            \E p \in Proc : e \in fd[p] \/ pc[p] = (IF e = "r" THEN "close r" ELSE "close w")

\* The state is well typed and the ends are counted.
PipeInv == TypeOK /\ EndsCounted

Content == [k \in 1..Length |-> At(nread + k - 1)]

Queue == INSTANCE Stream WITH Size <- PIPESIZE, Val <- 0..Wrap - 1, content <- Content

\* Bytes come out of the pipe once and in the order in which they went in,
\* also when the counters wrap.
ImplementsStream == Queue!Spec

\* A killed process is not asleep.  This does not hold, see NoLostWakeup for
\* what does: kill may come between a process's look at its `killed` and its
\* sleep, and finds it RUNNING.
KilledIsAwake == \A p \in killed : state[p] # "SLEEPING"
=============================================================================
