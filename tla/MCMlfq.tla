------------------------------- MODULE MCMlfq --------------------------------
(* Mlfq with a clock that is set by each priority boost. *)
EXTENDS Mlfq

VARIABLES
    waiters,  \* the processes outside of the MoQ that could run at the last
              \* boost and have waited ever since, with no monopoly
    ticks,    \* the ticks since then
    boostpid  \* nextpid at that time

clock == <<waiters, ticks, boostpid>>

WaitInit == Init /\ waiters = {} /\ ticks = 0 /\ boostpid = nextpid

Ticks == \E q \in Slot : Tick(q)
Boosts == ~active /\ gtick + 1 >= BoostTicks /\ Ticks

\* The scheduler looks at the MoQ only, or a process of it has the CPU, which
\* the timer does not take from it.
Monopolized == active \/ (cur # None /\ proc[cur].qlev = MoQ)

Waiting(table) == {p \in Slot : table[p].state = "RUNNABLE" /\ table[p].qlev # MoQ}

WaitNext ==
    /\ Next
    /\ waiters' = IF Monopolized' THEN {}
                 ELSE Waiting(proc') \cap (IF Boosts THEN Slot ELSE waiters)
    /\ ticks' = IF Boosts THEN 0 ELSE IF Ticks THEN ticks + 1 ELSE ticks
    /\ boostpid' = IF Boosts THEN nextpid ELSE boostpid

WaitSpec == WaitInit /\ [][WaitNext]_<<vars, clock>>

\* trap.c:116: the timer forces a process to give up the CPU.  From a boost on
\* a process waits until every other one that is not waiting as long, and every
\* one that has been created since, has used up its quantum of L0: nobody has
\* more, and nobody in a level below has anything.
NoStarvation ==
    waiters # {} =>
        ticks =< Quantum(L0) * (NProc - Cardinality(waiters) + (nextpid - boostpid))
=============================================================================
