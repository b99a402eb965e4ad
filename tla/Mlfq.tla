-------------------------------- MODULE Mlfq ---------------------------------
(***************************************************************************)
(* The scheduler of xv6-public_project02: a multilevel feedback queue of    *)
(* four levels with priority boosting, and the monopoly queue MoQ that some *)
(* programs put others in and switch on.  There is one CPU (CPUS := 1).     *)
(* A step is what happens between two places where an interrupt can come:   *)
(* everything done under ptable.lock, or in the timer's handler, is atomic. *)
(***************************************************************************)
EXTENDS Integers, FiniteSets

CONSTANTS
    NProc,      \* NPROC, the slots of ptable.proc
    BoostTicks, \* the ticks from one priority boost to the next (100)
    Step,       \* what the quantum grows by from level to level (2)
    Prio,       \* the priorities programs pass to setpriority
    Monopoly,   \* whether programs use the monopoly queue
    Misuse,     \* what else they do with it than its author expects: name a
                \* process "again" (or themselves), or name a "dead" one
    MoqWaits,   \* whether a process in the MoQ waits for a child outside it
    MaxPid,     \* bound on the processes created
    MaxBoost,   \* bound on the priority boosts
    MaxSeq,     \* bound on the positions handed out in each of L1, L2, L3
    MaxMoq,     \* bound on the positions handed out in the MoQ
    Event,      \* what a process sleeps for, other than a child that exits
    None        \* no process, no call

Slot == 1 .. NProc
InitProc == 1

L0 == 0
L3 == 3
MoQ == 4
Level == 0 .. 4
Bound(l) == IF l = L0 THEN MaxPid + NProc * MaxBoost
            ELSE IF l = MoQ THEN MaxMoq ELSE MaxSeq

ASSUME MlfqConstants ==
    /\ NProc \in Nat \ {0} /\ BoostTicks \in Nat \ {0}
    /\ Step \in Nat \ {0}
    /\ Prio \subseteq 0 .. 10
    /\ {Monopoly, MoqWaits} \subseteq BOOLEAN
    /\ Misuse \subseteq {"again", "dead"}
    /\ {MaxPid, MaxBoost, MaxSeq, MaxMoq} \subseteq Nat /\ MaxPid # 0
    /\ None \notin Slot /\ Event \notin Slot \cup {None}

VARIABLES
    proc,     \* ptable.proc
    cnt,      \* L0_cnt to L3_cnt and MoQ_cnt: the next position of each level
    active,   \* MoQ_active
    size,     \* MoQ_sz
    gtick,    \* global_tick
    nextpid,  \* nextpid
    cur,      \* the process that the CPU runs, or None in the scheduler
    call,     \* call[p]: the system call p is in the middle of, or None
    leaked,   \* a system call has returned with ptable.lock held
    panic     \* the kernel has stopped in acquire

vars == <<proc, cnt, active, size, gtick, nextpid, cur, call, leaked, panic>>

Fresh == [state |-> "UNUSED", pid |-> 0, parent |-> None, chan |-> None,
          qlev |-> L0, seq |-> 0, tick |-> 0, priority |-> 0]

\* init runs; it came out of allocproc as pid 1.
Init ==
    /\ proc = [p \in Slot |->
          IF p = InitProc THEN [Fresh EXCEPT !.state = "RUNNABLE", !.pid = 1]
                          ELSE Fresh]
    /\ cnt = [l \in Level |-> IF l = L0 THEN 1 ELSE 0]
    /\ active = FALSE /\ size = 0
    /\ gtick = 0 /\ nextpid = 2
    /\ cur = None
    /\ call = [p \in Slot |-> None]
    /\ leaked = FALSE /\ panic = FALSE

Is(p, s) == proc[p].state = s
Runs(p) == cur = p /\ ~leaked /\ ~panic
InUser(p) == Runs(p) /\ call[p] = None
InCall(p, op) == Runs(p) /\ call[p] # None /\ call[p].op = op

-----------------------------------------------------------------------------
(***************************************************************************)
(* scheduler().  Without a monopoly: the lowest level first; in L3 the      *)
(* highest priority first; then the earliest position; then table order.    *)
(* With one: the earliest position in the MoQ, and nobody if all of the MoQ *)
(* sleeps.                                                                  *)
(***************************************************************************)
Before(p, q) ==
    LET a == proc[p]
        b == proc[q]
        ranked == a.qlev = L3 => a.priority = b.priority
    IN  \/ a.qlev < b.qlev
        \/ a.qlev = b.qlev /\ a.qlev = L3 /\ a.priority > b.priority
        \/ a.qlev = b.qlev /\ ranked /\ a.seq < b.seq
        \/ a.qlev = b.qlev /\ ranked /\ a.seq = b.seq /\ p < q

Ready == {p \in Slot : Is(p, "RUNNABLE")}
Eligible ==
    IF ~active THEN Ready
    ELSE {p \in Ready : proc[p].qlev = MoQ /\ size # 0}

Dispatch(p) ==
    /\ cur = None /\ ~panic
    /\ p \in Eligible
    /\ \A q \in Eligible \ {p} : Before(p, q)
    /\ cur' = p
    /\ proc' = [proc EXCEPT ![p].state = "RUNNING"]
    /\ UNCHANGED <<cnt, active, size, gtick, nextpid, call, leaked, panic>>

\* The scheduler finds the MoQ empty: unmonopolize().
LeaveMonopoly ==
    /\ cur = None /\ ~panic
    /\ active /\ size = 0
    /\ active' = FALSE /\ gtick' = 0
    /\ UNCHANGED <<proc, cnt, size, nextpid, cur, call, leaked, panic>>

-----------------------------------------------------------------------------
(***************************************************************************)
(* The timer.  Every tick is charged to the running process.  Outside a     *)
(* monopoly the BoostTicks-th tick lifts every process that is not in the   *)
(* MoQ to L0, where it keeps its old position; and a process that has used  *)
(* its quantum goes down a level, L0 to L1 or L2 by the parity of its pid,  *)
(* or loses a priority in L3, and gives up the CPU.                         *)
(***************************************************************************)
Quantum(l) == Step * l + Step

\* Mutated form: processes in L3 are not lifted.
BoostedBelowL3(r) ==
    IF r.qlev \in {MoQ, L3} THEN r ELSE [r EXCEPT !.qlev = L0, !.tick = 0]
Boosted(r) ==
    IF r.qlev = MoQ THEN r ELSE [r EXCEPT !.qlev = L0, !.tick = 0]

Lower(r, positions) ==
    LET l == IF r.qlev # L0 THEN L3 ELSE IF r.pid % 2 # 0 THEN 1 ELSE 2
    IN  [r EXCEPT !.qlev = l, !.seq = positions[l], !.tick = 0]

\* Mutated form: in L3 the ticks are not reset.
DemotedKeepsTick(r, positions) ==
    IF r.qlev # L3 THEN Lower(r, positions)
    ELSE [r EXCEPT !.priority = IF @ > 0 THEN @ - 1 ELSE 0]
Demoted(r, positions) ==
    IF r.qlev # L3 THEN Lower(r, positions)
    ELSE [r EXCEPT !.priority = IF @ > 0 THEN @ - 1 ELSE 0, !.tick = 0]

\* Ticks are only compared with the quantum of the level, never in the MoQ, and
\* global_tick with BoostTicks: what lies beyond need not be counted.
Upto(n, max) == IF n < max THEN n + 1 ELSE max
Charged(r) == IF r.qlev = MoQ THEN r
              ELSE [r EXCEPT !.tick = Upto(@, Quantum(r.qlev))]

Tick(p) ==
    LET boost == ~active /\ gtick + 1 >= BoostTicks
        used  == [proc EXCEPT ![p] = Charged(@)]
        table == IF boost THEN [q \in Slot |-> Boosted(used[q])] ELSE used
        lifted == Cardinality({q \in Slot : proc[q].qlev # MoQ})
        counts == IF boost THEN [cnt EXCEPT ![L0] = @ + lifted] ELSE cnt
        r     == table[p]
        expired == ~active /\ r.qlev # MoQ /\ r.tick >= Quantum(r.qlev)
        next  == Demoted(r, counts)
    IN  /\ Runs(p)
        /\ gtick' = IF boost THEN 0 ELSE Upto(gtick, BoostTicks)
        /\ IF expired
             THEN /\ proc' = [table EXCEPT ![p] = [next EXCEPT !.state = "RUNNABLE"]]
                  /\ cnt' = IF r.qlev = L3 THEN counts
                            ELSE [counts EXCEPT ![next.qlev] = @ + 1]
                  /\ cur' = None
             ELSE proc' = table /\ cnt' = counts /\ UNCHANGED cur
        /\ \A l \in Level : cnt'[l] =< Bound(l)
        /\ UNCHANGED <<active, size, nextpid, call, leaked, panic>>

-----------------------------------------------------------------------------
(***************************************************************************)
(* fork, exit, wait, and sleeping for anything other than a child.          *)
(***************************************************************************)
\* allocproc takes the first unused slot, at the end of L0.
Fork(p) ==
    /\ InUser(p)
    /\ nextpid =< MaxPid /\ cnt[L0] < Bound(L0)
    /\ \E c \in Slot :
          /\ Is(c, "UNUSED") /\ \A d \in 1 .. c - 1 : ~Is(d, "UNUSED")
          /\ proc' = [proc EXCEPT ![c] = [@ EXCEPT !.state = "EMBRYO",
                         !.pid = nextpid, !.qlev = L0, !.seq = cnt[L0],
                         !.tick = 0, !.priority = 0]]
          /\ call' = [call EXCEPT ![p] = [op |-> "fork", slot |-> c]]
    /\ cnt' = [cnt EXCEPT ![L0] = @ + 1]
    /\ nextpid' = nextpid + 1
    /\ UNCHANGED <<active, size, gtick, cur, leaked, panic>>

\* Memory for the child is there, or not: then its slot is UNUSED again and
\* keeps its pid.
ForkReturns(p) ==
    /\ InCall(p, "fork")
    /\ LET c == call[p].slot IN
          \/ proc' = [proc EXCEPT ![c].state = "RUNNABLE", ![c].parent = p]
          \/ proc' = [proc EXCEPT ![c].state = "UNUSED"]
    /\ call' = [call EXCEPT ![p] = None]
    /\ UNCHANGED <<cnt, active, size, gtick, nextpid, cur, leaked, panic>>

WokenBy(q, chan) ==
    IF Is(q, "SLEEPING") /\ proc[q].chan = chan
      THEN [proc[q] EXCEPT !.state = "RUNNABLE", !.chan = None] ELSE proc[q]

\* Mutated form: exit forgets that the process was in the MoQ.
LeftMoqUncounted(p) == size
LeftMoq(p) == IF proc[p].qlev = MoQ THEN size - 1 ELSE size

Children(p) == {q \in Slot : proc[q].parent = p}

\* Whom the exit of p wakes if they wait for a child: its parent, and init if
\* it inherits a zombie.
Roused(p) ==
    {proc[p].parent}
    \cup {q \in {InitProc} : \E c \in Children(p) : Is(c, "ZOMBIE")}

\* Init inherits the children.
Exit(p) ==
    LET table == [q \in Slot |-> IF q \in Roused(p) THEN WokenBy(q, q) ELSE proc[q]]
    IN  /\ InUser(p) /\ p # InitProc
        /\ proc' = [q \in Slot |->
              IF q = p
                THEN [proc[p] EXCEPT !.state = "ZOMBIE", !.qlev = -1,
                                     !.seq = -1, !.tick = -1, !.priority = -1]
              ELSE IF q \in Children(p)
                THEN [table[q] EXCEPT !.parent = InitProc]
              ELSE table[q]]
        /\ size' = LeftMoq(p)
        /\ cur' = None
        /\ UNCHANGED <<cnt, active, gtick, nextpid, call, leaked, panic>>

\* wait: the first zombie child is reaped; with children that live the caller
\* sleeps until one of them exits, and looks again.
Wait(p) ==
    LET kids == Children(p)
        dead == {q \in kids : Is(q, "ZOMBIE")}
    IN  /\ InUser(p) \/ InCall(p, "wait")
        /\ kids # {}
        /\ IF dead # {}
             THEN /\ \E q \in dead :
                        /\ \A d \in dead : q =< d
                        /\ proc' = [proc EXCEPT ![q].state = "UNUSED",
                                          ![q].pid = 0, ![q].parent = None]
                  /\ call' = [call EXCEPT ![p] = None]
                  /\ UNCHANGED cur
             ELSE /\ \/ MoqWaits \/ proc[p].qlev # MoQ
                     \/ \A q \in kids : proc[q].qlev = MoQ
                  /\ proc' = [proc EXCEPT ![p].state = "SLEEPING", ![p].chan = p]
                  /\ call' = [call EXCEPT ![p] = [op |-> "wait"]]
                  /\ cur' = None
        /\ UNCHANGED <<cnt, active, size, gtick, nextpid, leaked, panic>>

Sleep(p) ==
    /\ InUser(p)
    /\ proc' = [proc EXCEPT ![p].state = "SLEEPING", ![p].chan = Event]
    /\ cur' = None
    /\ UNCHANGED <<cnt, active, size, gtick, nextpid, call, leaked, panic>>

\* The timer, a device, or kill wakes a process.
Wake(q) ==
    /\ ~leaked /\ ~panic
    /\ Is(q, "SLEEPING") /\ proc[q].chan = Event
    /\ proc' = [proc EXCEPT ![q] = WokenBy(q, Event)]
    /\ UNCHANGED <<cnt, active, size, gtick, nextpid, cur, call, leaked, panic>>

-----------------------------------------------------------------------------
(***************************************************************************)
(* The new system calls.                                                    *)
(***************************************************************************)
Yield(p) ==
    /\ InUser(p)
    /\ proc' = [proc EXCEPT ![p].state = "RUNNABLE"]
    /\ cur' = None
    /\ UNCHANGED <<cnt, active, size, gtick, nextpid, call, leaked, panic>>

\* setpriority looks the pid up under ptable.lock, and writes the priority
\* after it has released the lock.
SetPriority(p, q, x) ==
    /\ InUser(p)
    /\ proc[q].pid # 0
    /\ call' = [call EXCEPT ![p] = [op |-> "setpriority", slot |-> q,
                                    pid |-> proc[q].pid, priority |-> x]]
    /\ UNCHANGED <<proc, cnt, active, size, gtick, nextpid, cur, leaked, panic>>

PriorityWritten(p, x) ==
    /\ InCall(p, "setpriority") /\ call[p].priority = x
    /\ proc' = [proc EXCEPT ![call[p].slot].priority = x]
    /\ call' = [call EXCEPT ![p] = None]
    /\ UNCHANGED <<cnt, active, size, gtick, nextpid, cur, leaked, panic>>

\* The processes one expects a program to put in the MoQ: others than itself
\* that are not in it, and that are alive.
Callee(p, q) ==
    /\ q # InitProc /\ (MoqWaits \/ proc[q].chan # q)
    /\ "again" \in Misuse \/ (q # p /\ proc[q].qlev # MoQ)
    /\ "dead" \in Misuse \/ proc[q].state \in {"RUNNABLE", "RUNNING", "SLEEPING"}

\* Mutated form: the position is the number of processes in the MoQ.
MoqPositionBySize(k) == size + k
\* The position of the (k+1)-st process that a setmonopoly adds.
MoqPosition(k) == cnt[MoQ] + k

\* setmonopoly(pid): every slot with this pid (pid 0: the unused ones) moves
\* to the end of the MoQ, up to one that is there already or is the caller's:
\* there the call returns, with ptable.lock held.
SetMonopoly(p, n) ==
    LET found == {q \in Slot : proc[q].pid = n}
        stop  == {q \in found : proc[q].qlev = MoQ \/ q = p}
        new   == {q \in found : \A s \in stop : q < s}
        place(q) == MoqPosition(Cardinality({d \in new : d < q}))
    IN  /\ InUser(p)
        /\ found # {}
        /\ \A q \in found : Callee(p, q)
        /\ cnt[MoQ] + Cardinality(new) =< MaxMoq
        /\ proc' = [q \in Slot |->
              IF q \in new THEN [proc[q] EXCEPT !.qlev = MoQ, !.seq = place(q)]
                           ELSE proc[q]]
        /\ cnt' = [cnt EXCEPT ![MoQ] = @ + Cardinality(new)]
        /\ size' = size + Cardinality(new)
        /\ leaked' = (stop # {})
        /\ UNCHANGED <<active, gtick, nextpid, cur, call, panic>>

Monopolize(p) ==
    /\ InUser(p) /\ ~active
    /\ active' = TRUE
    /\ UNCHANGED <<proc, cnt, size, gtick, nextpid, cur, call, leaked, panic>>

Unmonopolize(p) ==
    /\ InUser(p)
    /\ active' = FALSE /\ gtick' = 0
    /\ UNCHANGED <<proc, cnt, size, nextpid, cur, call, leaked, panic>>

\* Whatever takes ptable.lock next, at the latest the timer, finds it held by
\* its own CPU.
AcquirePanics ==
    /\ leaked /\ ~panic
    /\ panic' = TRUE
    /\ UNCHANGED <<proc, cnt, active, size, gtick, nextpid, cur, call, leaked>>

-----------------------------------------------------------------------------
Monopolies(p) ==
    /\ Monopoly /\ p # InitProc
    /\ \/ \E n \in 0 .. MaxPid : SetMonopoly(p, n)
       \/ Monopolize(p) \/ Unmonopolize(p)

Next ==
    \/ LeaveMonopoly
    \/ AcquirePanics
    \/ \E p \in Slot :
          \/ Dispatch(p) \/ Tick(p) \/ Wake(p)
          \/ Fork(p) \/ ForkReturns(p) \/ Exit(p) \/ Wait(p) \/ Sleep(p)
          \/ Yield(p)
          \/ \E q \in Slot, x \in Prio : SetPriority(p, q, x)
          \/ \E x \in Prio : PriorityWritten(p, x)
          \/ Monopolies(p)

Spec == Init /\ [][Next]_vars

CallReturns(p) ==
    \/ ForkReturns(p)
    \/ \E x \in Prio : PriorityWritten(p, x)
    \/ InCall(p, "wait") /\ Wait(p)

\* The scheduler never stops; the timer comes, and so does what a process
\* sleeps for; a call comes to its end; and a program does not keep the CPU
\* for ever.
Fairness ==
    /\ WF_vars(LeaveMonopoly) /\ WF_vars(AcquirePanics)
    /\ WF_vars(\E p \in Slot : Dispatch(p))
    /\ \A p \in Slot : WF_vars(Wake(p)) /\ SF_vars(CallReturns(p))
    /\ \A p \in Slot \ {InitProc} : SF_vars(Exit(p))

FairSpec == Spec /\ Fairness

-----------------------------------------------------------------------------
(***************************************************************************)
(* Properties.                                                              *)
(***************************************************************************)
TypeOK ==
    /\ \A p \in Slot :
          /\ proc[p].state \in {"UNUSED", "EMBRYO", "SLEEPING", "RUNNABLE",
                                "RUNNING", "ZOMBIE"}
          /\ proc[p].pid \in 0 .. MaxPid
          /\ proc[p].parent \in Slot \cup {None}
          /\ proc[p].chan \in Slot \cup {None, Event}
          /\ proc[p].state \notin {"UNUSED", "ZOMBIE"} =>
                /\ proc[p].qlev \in Level /\ proc[p].seq \in Nat
                /\ proc[p].tick \in Nat /\ proc[p].priority \in 0 .. 10
    /\ DOMAIN cnt = Level /\ \A l \in Level : cnt[l] \in 0 .. Bound(l)
    /\ size \in 0 .. NProc
    /\ \A p \in Slot : Is(p, "RUNNING") <=> cur = p

\* A process that is not running has not used up the quantum of its level.
WithinQuantum ==
    \A p \in Slot :
        Is(p, "RUNNABLE") /\ proc[p].qlev # MoQ
            => proc[p].tick < Quantum(proc[p].qlev)

\* The state is well typed and the quanta are kept (trap.c:113-137).
MlfqInv == TypeOK /\ WithinQuantum

InMoq == {p \in Slot : proc[p].qlev = MoQ /\ proc[p].state \notin {"UNUSED", "ZOMBIE"}}

\* proc.c:23: MoQ_sz is the size of the MoQ.
MoqSizeExact == size = Cardinality(InMoq)

\* No two processes in the MoQ have the same position, and a process that
\* enters it later comes later.
MoqInOrder ==
    \A p, q \in InMoq : p # q =>
        /\ proc[p].seq # proc[q].seq
        /\ proc[p].seq < cnt[MoQ]

\* spinlock.c:28: a CPU does not acquire a lock that it holds.
NoDoubleAcquire == ~panic

\* A monopoly comes to its end.
MonopolyEnds == active ~> ~active \/ panic

\* When a process can run, one does run in the end: the scheduler, which looks at
\* the MoQ only during a monopoly, finds one (proc.c:345).
SomebodyRuns == Ready # {} ~> cur # None \/ panic
=============================================================================
