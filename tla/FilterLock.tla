----------------------------- MODULE FilterLock -----------------------------
(***************************************************************************)
(* src/project03/pthread_lock_linux.c: a lock for N threads made of the     *)
(* ordinary variables flag and turn (Peterson's filter: N - 1 levels, at    *)
(* each of which one thread stays behind), and the program that tests it:   *)
(* every thread locks once, increments shared_resource NUM_ITERS times and  *)
(* unlocks.                                                                 *)
(*                                                                         *)
(* A step is one access to one shared variable.  flag and turn are          *)
(* volatile, so the compiler keeps the accesses and their order             *)
(* (shared_resource is not: it is modelled as compiled without              *)
(* optimisation).  The hardware need not keep it.  ncpu says what the       *)
(* threads run on: on one processor a store is seen by everybody at once;   *)
(* on several it may stay for a while in a buffer that only its own thread  *)
(* looks at.                                                                *)
(***************************************************************************)
EXTENDS Integers, Sequences, FiniteSets, FiniteSetsExt

CONSTANTS
    N,         \* NUM_THREADS
    NumIters,  \* NUM_ITERS
    Delay      \* how many stores a processor may hold back

ASSUME FilterAssumption ==
    /\ N \in Nat /\ N >= 2
    /\ NumIters \in Nat \ {0}
    /\ Delay \in Nat

Thread == 0..(N - 1)
Level == 0..(N - 2)

VARIABLES
    ncpu,    \* the processors of the machine (more than 2 differ in nothing)
    flag,    \* flag[t]: 0, or 1 + the level thread t has reached
    turn,    \* turn[l]: the thread that came to level l last
    shared,  \* shared_resource
    buf,     \* buf[t]: the stores of t that have not reached memory
    pc,      \* pc[t]: the access t does next
    level,   \* lock's i
    other,   \* lock's other
    tmp,     \* what t has read of shared_resource
    n        \* thread_func's i

memory == <<flag, turn, shared>>
locals == <<level, other, tmp, n>>
vars == <<ncpu, memory, buf, pc, locals>>

-----------------------------------------------------------------------------
(* Memory *)

\* A store of v into element i of a variable.
Write(var, i, v) ==
    /\ flag' = IF var = "flag" THEN [flag EXCEPT ![i] = v] ELSE flag
    /\ turn' = IF var = "turn" THEN [turn EXCEPT ![i] = v] ELSE turn
    /\ shared' = IF var = "shared" THEN v ELSE shared

Store(t, var, i, v) ==
    \/ /\ buf[t] = << >>
       /\ Write(var, i, v)
       /\ UNCHANGED buf
    \/ /\ ncpu > 1
       /\ Len(buf[t]) < Delay
       /\ buf' = [buf EXCEPT ![t] = Append(@, [var |-> var, i |-> i, v |-> v])]
       /\ UNCHANGED memory

\* A thread sees its own latest store to a place, or else memory.
Load(t, var, i, mem) ==
    LET own == {k \in 1..Len(buf[t]) : buf[t][k].var = var /\ buf[t][k].i = i}
    IN  IF own = {} THEN mem ELSE buf[t][Max(own)].v

Drain(t) ==
    /\ buf[t] # << >>
    /\ Write(Head(buf[t]).var, Head(buf[t]).i, Head(buf[t]).v)
    /\ buf' = [buf EXCEPT ![t] = Tail(@)]
    /\ UNCHANGED <<ncpu, pc, locals>>

-----------------------------------------------------------------------------
(* lock *)

\* The next thread to look at, from o on: the loop leaves out t itself.
Skip(t, o) == IF o = t THEN o + 1 ELSE o

\* Mutant: The loop stops before the last of the other threads.
PassEarly(t) ==
    LET o == Skip(t, other[t] + 1)
    IN  IF o < N - 1
          THEN /\ other' = [other EXCEPT ![t] = o]
               /\ pc' = [pc EXCEPT ![t] = "scan"]
               /\ UNCHANGED level
          ELSE /\ other' = [other EXCEPT ![t] = Skip(t, 0)]
               /\ level' = [level EXCEPT ![t] = @ + 1]
               /\ pc' = [pc EXCEPT ![t] =
                            IF level[t] + 1 < N - 1 THEN "flag" ELSE "load"]

\* Mutant: A level too few.
PassShallow(t) ==
    LET o == Skip(t, other[t] + 1)
    IN  IF o < N
          THEN /\ other' = [other EXCEPT ![t] = o]
               /\ pc' = [pc EXCEPT ![t] = "scan"]
               /\ UNCHANGED level
          ELSE /\ other' = [other EXCEPT ![t] = Skip(t, 0)]
               /\ level' = [level EXCEPT ![t] = @ + 1]
               /\ pc' = [pc EXCEPT ![t] =
                            IF level[t] + 1 < N - 2 THEN "flag" ELSE "load"]

\* Thread t need not wait for other: on to the next, and after the last of
\* them to the next level; behind the last level the lock is t's.
Pass(t) ==
    LET o == Skip(t, other[t] + 1)
    IN  IF o < N
          THEN /\ other' = [other EXCEPT ![t] = o]
               /\ pc' = [pc EXCEPT ![t] = "scan"]
               /\ UNCHANGED level
          ELSE /\ other' = [other EXCEPT ![t] = Skip(t, 0)]
               /\ level' = [level EXCEPT ![t] = @ + 1]
               /\ pc' = [pc EXCEPT ![t] =
                            IF level[t] + 1 < N - 1 THEN "flag" ELSE "load"]

SetFlag(t) ==
    /\ pc[t] = "flag"
    /\ Store(t, "flag", t, level[t] + 1)
    /\ pc' = [pc EXCEPT ![t] = "turn"]
    /\ UNCHANGED <<ncpu, locals>>

SetTurn(t) ==
    /\ pc[t] = "turn"
    /\ Store(t, "turn", level[t], t)
    /\ pc' = [pc EXCEPT ![t] = "scan"]
    /\ UNCHANGED <<ncpu, locals>>

\* Mutant: The test of the flags lets a thread of the same level pass.
ReadFlagLax(t) ==
    /\ pc[t] = "scan"
    /\ IF Load(t, "flag", other[t], flag[other[t]]) =< level[t] + 1
         THEN Pass(t)
         ELSE /\ pc' = [pc EXCEPT ![t] = "check"]
              /\ UNCHANGED <<level, other>>
    /\ UNCHANGED <<ncpu, memory, buf, tmp, n>>

\* while (!(flag[other] < flag[tid] || turn[i] != tid)): flag[tid] is the
\* thread's own, level + 1; turn is read only if the first test fails.
ReadFlag(t) ==
    /\ pc[t] = "scan"
    /\ IF Load(t, "flag", other[t], flag[other[t]]) < level[t] + 1
         THEN Pass(t)
         ELSE /\ pc' = [pc EXCEPT ![t] = "check"]
              /\ UNCHANGED <<level, other>>
    /\ UNCHANGED <<ncpu, memory, buf, tmp, n>>

ReadTurn(t) ==
    /\ pc[t] = "check"
    /\ IF Load(t, "turn", level[t], turn[level[t]]) # t
         THEN Pass(t)
         ELSE /\ pc' = [pc EXCEPT ![t] = "scan"]
              /\ UNCHANGED <<level, other>>
    /\ UNCHANGED <<ncpu, memory, buf, tmp, n>>

(* thread_func: shared_resource++ is a load and a store *)
ReadShared(t) ==
    /\ pc[t] = "load"
    /\ tmp' = [tmp EXCEPT ![t] = Load(t, "shared", 0, shared)]
    /\ pc' = [pc EXCEPT ![t] = "store"]
    /\ UNCHANGED <<ncpu, memory, buf, level, other, n>>

WriteShared(t) ==
    /\ pc[t] = "store"
    /\ Store(t, "shared", 0, tmp[t] + 1)
    /\ n' = [n EXCEPT ![t] = @ + 1]
    /\ pc' = [pc EXCEPT ![t] = IF n[t] + 1 < NumIters THEN "load" ELSE "unlock"]
    /\ UNCHANGED <<ncpu, level, other, tmp>>

\* Mutant: unlock forgets to take the flag down.
UnlockForgets(t) ==
    /\ pc[t] = "unlock"
    /\ pc' = [pc EXCEPT ![t] = "done"]
    /\ UNCHANGED <<ncpu, memory, buf, locals>>

Unlock(t) ==
    /\ pc[t] = "unlock"
    /\ Store(t, "flag", t, 0)
    /\ pc' = [pc EXCEPT ![t] = "done"]
    /\ UNCHANGED <<ncpu, locals>>

-----------------------------------------------------------------------------
Init ==
    /\ ncpu \in {1, 2}
    /\ flag = [t \in Thread |-> 0]
    /\ turn = [l \in Level |-> 0]
    /\ shared = 0
    /\ buf = [t \in Thread |-> << >>]
    /\ pc = [t \in Thread |-> "flag"]
    /\ level = [t \in Thread |-> 0]
    /\ other = [t \in Thread |-> Skip(t, 0)]
    /\ tmp = [t \in Thread |-> 0]
    /\ n = [t \in Thread |-> 0]

Step(t) ==
    \/ SetFlag(t)
    \/ SetTurn(t)
    \/ ReadFlag(t)
    \/ ReadTurn(t)
    \/ ReadShared(t)
    \/ WriteShared(t)
    \/ Unlock(t)

Next == \E t \in Thread : Step(t) \/ Drain(t)

Spec == Init /\ [][Next]_vars

\* The threads are scheduled and a buffered store reaches memory in the end.
FairSpec == Spec /\ \A t \in Thread : WF_vars(Step(t)) /\ WF_vars(Drain(t))

-----------------------------------------------------------------------------
(* Properties *)

\* The type invariant.
TypeOK ==
    /\ ncpu \in {1, 2}
    /\ flag \in [Thread -> 0..(N - 1)]
    /\ turn \in [Level -> Thread]
    /\ shared \in Nat
    /\ pc \in [Thread -> {"flag", "turn", "scan", "check",
                          "load", "store", "unlock", "done"}]
    /\ level \in [Thread -> 0..(N - 1)]
    /\ other \in [Thread -> 0..(N - 1)]
    /\ tmp \in [Thread -> Nat]
    /\ n \in [Thread -> 0..NumIters]
    /\ \A t \in Thread : Len(buf[t]) =< Delay

InCS(t) == pc[t] \in {"load", "store", "unlock"}

\* Thread t has got past level l and has not given the lock back.
Beyond(t, l) == pc[t] # "done" /\ level[t] > l

\* On one processor two threads are never between lock and unlock together,
\* whatever the order of their accesses to flag and turn.
MutualExclusion ==
    ncpu = 1 => \A s, t \in Thread : InCS(s) /\ InCS(t) => s = t

\* On one processor each level holds one thread back: of N threads at most
\* N - 1 - l are beyond level l (the argument behind the lock).
LevelsFilter ==
    ncpu = 1 => \A l \in Level :
               Cardinality({t \in Thread : Beyond(t, l)}) =< N - 1 - l

\* On one processor the number main prints, once every thread has been
\* joined, counts every increment.
EveryIncrementCounts ==
    ncpu = 1 /\ (\A t \in Thread : pc[t] = "done") => shared = N * NumIters

\* On one processor or several, every thread gets the lock and ends: nobody
\* waits for ever at a level.
EveryThreadEnds == \A t \in Thread : <>(pc[t] = "done")

=============================================================================
