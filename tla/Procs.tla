------------------------------- MODULE Procs -------------------------------
(***************************************************************************)
(* The process table of the base kernel (src/xv6-public/proc.c): scheduler, *)
(* fork, exit, wait, kill, yield, sleep and wakeup, on several CPUs.        *)
(*                                                                         *)
(* ptable.lock is the point of this module.  It is held across swtch, taken *)
(* by a process and released by the next one that runs on the CPU, or by    *)
(* the scheduler.  A step begins where ptable.lock, or a lock of the        *)
(* module's user, is acquired and ends where the next one is; while it is   *)
(* held a process that gives up the CPU takes two steps, its own (which     *)
(* changes its state) and the CPU's (swtch and the rest of the scheduler's  *)
(* pass).  pc[p] is the place where p waits or has stopped.                 *)
(*                                                                         *)
(* A module that EXTENDS this one adds what processes wait for; see Pipe.   *)
(***************************************************************************)
EXTENDS Integers, FiniteSets, FiniteSetsExt

CONSTANTS NPROC, Cpu, None

ASSUME ProcsAssumption ==
    /\ NPROC \in Nat \ {0}
    /\ IsFiniteSet(Cpu) /\ Cpu # {}
    /\ None \notin Cpu \cup Int

Proc == 1..NPROC
InitProc == 1

VARIABLES
    state, chan, parent,
    killed,  \* the processes whose killed is set
    arg,     \* arg[p]: a local variable of p's system call, 0 if it has none
    pc,
    run,     \* run[c]: mycpu()->proc, None in the scheduler
    ptlock   \* the CPU that holds ptable.lock, or None

ptable == <<state, chan, parent, killed, arg, pc, run, ptlock>>

CpuOf(p) == CHOOSE c \in Cpu : run[c] = p

\* p executes (it has not changed its state in order to give up the CPU).
Running(p) == state[p] = "RUNNING" /\ \E c \in Cpu : run[c] = p

\* p is in its program, with nothing to do for the kernel; a killed process
\* does not come back to it (trap.c:40-45, 101, 110).
InUser(p) == Running(p) /\ pc[p] = "user" /\ p \notin killed

\* The state after wakeup1(ch) for each ch of S.
WokenBy(S) ==
    [q \in Proc |-> IF state[q] = "SLEEPING" /\ chan[q] \in S THEN "RUNNABLE" ELSE state[q]]

\* The slots that allocproc may take; "LEFT" is UNUSED with the pid of a fork
\* that failed still in it.
Free == {q \in Proc : state[q] \in {"UNUSED", "LEFT"}}

Children(p) == {q \in Proc : parent[q] = p}

-----------------------------------------------------------------------------
(* scheduler *)

\* CPU c holds ptable.lock, and its pass is at slot k.  The process it finds
\* comes out of its own sched and releases the lock, unless it slept in wait.
\* (When that one gives up the CPU the pass goes on behind it.)
Continue(c, k) ==
    LET ready == {q \in Proc : q >= k /\ state[q] = "RUNNABLE"} IN
    IF ready = {}
      THEN /\ run' = [run EXCEPT ![c] = None]
           /\ ptlock' = None
           /\ UNCHANGED <<state, chan>>
      ELSE LET q == Min(ready) IN
           /\ run' = [run EXCEPT ![c] = q]
           /\ ptlock' = IF pc[q] = "wait" THEN c ELSE None
           /\ state' = [state EXCEPT ![q] = "RUNNING"]
           /\ chan' = [chan EXCEPT ![q] = None]

\* A new pass; one that finds nobody changes nothing.
Pass(c) ==
    /\ run[c] = None /\ ptlock = None
    /\ \E q \in Proc : state[q] = "RUNNABLE"
    /\ Continue(c, 1)
    /\ UNCHANGED <<parent, killed, arg, pc>>

\* sched: the process on c has changed its state under ptable.lock.
Sched(c) ==
    /\ run[c] # None /\ ptlock = c /\ state[run[c]] # "RUNNING"
    /\ Continue(c, run[c] + 1)
    /\ UNCHANGED <<parent, killed, arg, pc>>

\* Mutant: gives up ptable.lock before the CPU has left p's stack.
YieldUnlocked(p) ==
    /\ Running(p) /\ ptlock = None
    /\ state' = [state EXCEPT ![p] = "RUNNABLE"]
    /\ UNCHANGED <<chan, parent, killed, arg, pc, run, ptlock>>

\* The timer interrupt.  It comes while p has no lock, as interrupts are off on
\* a CPU that has one: the user of the module says so of its own locks.
Yield(p) ==
    /\ Running(p) /\ ptlock = None
    /\ state' = [state EXCEPT ![p] = "RUNNABLE"]
    /\ ptlock' = CpuOf(p)
    /\ UNCHANGED <<chan, parent, killed, arg, pc, run>>

-----------------------------------------------------------------------------
(* sleep and wakeup *)

\* sleep(ch, lk) up to release(lk), for a lock other than ptable.lock: the
\* caller waits at "sleep" holding lk, and its user's step releases it.
SleepLocks(p) ==
    /\ Running(p) /\ ptlock = None
    /\ ptlock' = CpuOf(p)
    /\ UNCHANGED <<state, chan, parent, killed, arg, run>>

\* ... and its second half; p goes on at `then` when it runs again.
SleepState(p, ch, then) ==
    /\ Running(p) /\ ptlock = CpuOf(p)
    /\ chan' = [chan EXCEPT ![p] = ch]
    /\ state' = [state EXCEPT ![p] = "SLEEPING"]
    /\ pc' = [pc EXCEPT ![p] = then]
    /\ UNCHANGED <<parent, killed, arg, run, ptlock>>

\* wakeup(ch), by p, which goes on at `then`.
Wakeup(p, ch, then) ==
    /\ Running(p) /\ ptlock = None
    /\ state' = WokenBy({ch})
    /\ pc' = [pc EXCEPT ![p] = then]
    /\ UNCHANGED <<chan, parent, killed, run, ptlock>>

-----------------------------------------------------------------------------
(* fork, exit, wait, kill *)

\* fork: allocproc takes the first slot that is free, if there is one.
Fork(p) ==
    /\ InUser(p) /\ ptlock = None
    /\ Free # {}
    /\ state' = [state EXCEPT ![Min(Free)] = "EMBRYO"]
    /\ arg' = [arg EXCEPT ![p] = Min(Free)]
    /\ pc' = [pc EXCEPT ![p] = "fork"]
    /\ UNCHANGED <<chan, parent, killed, run, ptlock>>

\* The rest: the child gets its parent and may run ...
ForkReturns(p) ==
    /\ Running(p) /\ pc[p] = "fork" /\ ptlock = None
    /\ state' = [state EXCEPT ![arg[p]] = "RUNNABLE"]
    /\ parent' = [parent EXCEPT ![arg[p]] = p]
    /\ pc' = [pc EXCEPT ![p] = "user", ![arg[p]] = "user"]
    /\ arg' = [arg EXCEPT ![p] = 0]
    /\ UNCHANGED <<chan, killed, run, ptlock>>

\* ... or there is no memory for it.
ForkFails(p) ==
    /\ Running(p) /\ pc[p] = "fork"
    /\ state' = [state EXCEPT ![arg[p]] = "LEFT"]
    /\ pc' = [pc EXCEPT ![p] = "user"]
    /\ arg' = [arg EXCEPT ![p] = 0]
    /\ UNCHANGED <<chan, parent, killed, run, ptlock>>

\* exit, once the files are closed.
Exit(p) ==
    /\ Running(p) /\ pc[p] = "user" /\ p # InitProc /\ ptlock = None
    /\ LET orphaned == \E q \in Children(p) : state[q] = "ZOMBIE"
           woken == {parent[p]} \cup IF orphaned THEN {InitProc} ELSE {}
       IN state' = [WokenBy(woken) EXCEPT ![p] = "ZOMBIE"]
    /\ parent' = [q \in Proc |-> IF q \in Children(p) THEN InitProc ELSE parent[q]]
    /\ ptlock' = CpuOf(p)
    /\ UNCHANGED <<chan, killed, arg, pc, run>>

\* wait, from the call or from its sleep on the process itself, in which it
\* keeps ptable.lock.
Wait(p) ==
    /\ Running(p)
    /\ \/ pc[p] = "user" /\ p \notin killed /\ ptlock = None
       \/ pc[p] = "wait" /\ ptlock = CpuOf(p)
    /\ LET zombies == {q \in Children(p) : state[q] = "ZOMBIE"} IN
          \/ /\ zombies # {}
             /\ state' = [state EXCEPT ![Min(zombies)] = "UNUSED"]
             /\ parent' = [parent EXCEPT ![Min(zombies)] = None]
             /\ killed' = killed \ {Min(zombies)}
             /\ pc' = [pc EXCEPT ![p] = "user"]
             /\ ptlock' = None
             /\ UNCHANGED chan
          \/ /\ zombies = {}
             /\ Children(p) = {} \/ p \in killed
             /\ pc' = [pc EXCEPT ![p] = "user"]
             /\ ptlock' = None
             /\ UNCHANGED <<state, chan, parent, killed>>
          \/ /\ zombies = {} /\ Children(p) # {} /\ p \notin killed
             /\ pc' = [pc EXCEPT ![p] = "wait"]
             /\ state' = [state EXCEPT ![p] = "SLEEPING"]
             /\ chan' = [chan EXCEPT ![p] = p]
             /\ ptlock' = CpuOf(p)
             /\ UNCHANGED <<parent, killed>>
    /\ UNCHANGED <<arg, run>>

\* kill(q), by p.  It finds any slot that has a pid.  (A kill of init stops
\* the kernel, proc.c:235.)
Kill(p, q) ==
    /\ InUser(p) /\ ptlock = None
    /\ q # InitProc /\ state[q] # "UNUSED"
    /\ killed' = killed \cup {q}
    /\ state' = [state EXCEPT ![q] = IF @ = "SLEEPING" THEN "RUNNABLE" ELSE @]
    /\ UNCHANGED <<chan, parent, arg, pc, run, ptlock>>

\* userinit: init is the first process, and nobody runs yet.
ProcsInit ==
    /\ state = [p \in Proc |-> IF p = InitProc THEN "RUNNABLE" ELSE "UNUSED"]
    /\ chan = [p \in Proc |-> None]
    /\ parent = [p \in Proc |-> None]
    /\ killed = {}
    /\ arg = [p \in Proc |-> 0]
    /\ pc = [p \in Proc |-> "user"]
    /\ run = [c \in Cpu |-> None]
    /\ ptlock = None
=============================================================================
