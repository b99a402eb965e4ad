----------------------------- MODULE PipeProofs -----------------------------
(***************************************************************************)
(* Proofs about Pipe and the process table of Procs as Pipe uses it.       *)
(* First the table: no two CPUs are ever on one kernel stack, StacksApart; *)
(* TableInv strengthens it with what a process in fork, in sleep or        *)
(* without a life may look like.  Then the pipe: the ends are counted, the *)
(* buffer never holds more than PIPESIZE bytes, (as long as no writer is   *)
(* killed) nobody sleeps over what he waits for, and the pipe implements   *)
(* Stream.                                                                 *)
(***************************************************************************)
EXTENDS Pipe, WellFoundedInduction, SequenceTheorems, TLAPS

States == {"UNUSED", "LEFT", "EMBRYO", "SLEEPING", "RUNNABLE", "RUNNING", "ZOMBIE"}

Typed ==
    /\ state \in [Proc -> States]
    /\ chan \in [Proc -> Proc \cup {NREAD, NWRITE, None}]
    /\ parent \in [Proc -> Proc \cup {None}]
    /\ killed \subseteq Proc
    /\ arg = [p \in Proc |-> arg[p]]
    /\ pc \in [Proc -> Place]
    /\ run \in [Cpu -> Proc \cup {None}]
    /\ ptlock \in Cpu \cup {None}
    /\ fd \in [Proc -> SUBSET {"r", "w"}]

\* The three parts of StacksApart.
OneCpu == \A c, d \in Cpu : run[c] # None /\ run[c] = run[d] => c = d

OnCpu == \A p \in Proc : state[p] = "RUNNING" => \E c \in Cpu : run[c] = p

Leaves ==
    \A c \in Cpu : run[c] # None =>
        \/ state[run[c]] = "RUNNING"
        \/ ptlock = c /\ state[run[c]] \in {"RUNNABLE", "SLEEPING", "ZOMBIE"}

\* The child of a fork under way is an embryo that nobody else builds.
Embryos == \A p \in Proc : pc[p] = "fork" => arg[p] \in Proc /\ state[arg[p]] = "EMBRYO"

ForksApart ==
    \A p, q \in Proc : pc[p] = "fork" /\ pc[q] = "fork" /\ arg[p] = arg[q] => p = q

\* A slot without a living process has no files, no parent and no system call.
Idle ==
    \A p \in Proc :
        /\ state[p] \in {"UNUSED", "LEFT", "EMBRYO", "ZOMBIE"} => fd[p] = {} /\ pc[p] = "user"
        /\ state[p] \in {"UNUSED", "LEFT", "EMBRYO"} => parent[p] = None

\* What a process sleeps on is what its system call sleeps on.
Sleeps ==
    \A p \in Proc :
        /\ chan[p] \in {p, NREAD, NWRITE, None}
        /\ state[p] = "SLEEPING" => /\ chan[p] = p => pc[p] = "wait"
                                    /\ chan[p] = NREAD => pc[p] = "read"
                                    /\ chan[p] = NWRITE => pc[p] = "write"

\* A process that is about to sleep has ptable.lock.
Falling(p) == pc[p] \in {"asleep nread", "asleep nwrite"}

Falls == \A p \in Proc : Falling(p) => Running(p) /\ ptlock = CpuOf(p)

TableInv ==
    /\ Typed /\ OneCpu /\ OnCpu /\ Leaves
    /\ Embryos /\ ForksApart /\ Idle /\ Sleeps /\ Falls

-----------------------------------------------------------------------------
(* Facts about the operators *)

LEMMA Channels ==
    /\ InitProc \in Proc
    /\ \A p \in Proc : p # NREAD /\ p # NWRITE /\ p # None /\ p \in Nat
    /\ NREAD # NWRITE /\ NREAD # None /\ NWRITE # None
    /\ None \notin Cpu /\ None \notin Nat
BY ProcsAssumption DEF Proc, InitProc, NREAD, NWRITE

LEMMA MinIn == ASSUME NEW S \in SUBSET Proc, S # {}
               PROVE  Min(S) \in S
<1> DEFINE Less == {ss \in Nat \X Nat : ss[1] < ss[2]}
<1>1. IsWellFoundedOn(Less, Nat)
  BY NatLessThanWellFounded DEF OpToRel
<1>2. S \subseteq Nat
  BY DEF Proc
<1>3. \E x \in S : \A y \in S : ~(<<y, x>> \in Less)
  BY <1>1, <1>2, WFMin
<1>4. PICK x \in S : \A y \in S : ~(<<y, x>> \in Less)
  BY <1>3
<1>5. \A y \in S : ~(y < x)
  <2> TAKE y \in S
  <2>1. <<y, x>> \in Nat \X Nat
    BY <1>2
  <2> QED
    BY <1>4, <2>1
<1> HIDE DEF Less
<1>6. \A y \in S : x =< y
  BY <1>2, <1>5
<1> QED
  BY <1>6 DEF Min

LEMMA CpuOfRuns ==
    ASSUME OneCpu, OnCpu, NEW p \in Proc, state[p] = "RUNNING"
    PROVE  /\ Running(p)
           /\ CpuOf(p) \in Cpu /\ run[CpuOf(p)] = p
           /\ \A c \in Cpu : run[c] = p => c = CpuOf(p)
<1>1. \E c \in Cpu : run[c] = p
  BY DEF OnCpu
<1>2. CpuOf(p) \in Cpu /\ run[CpuOf(p)] = p
  BY <1>1 DEF CpuOf
<1> QED
  BY <1>1, <1>2, Channels DEF OneCpu, Running

\* With ptable.lock free, or held by a process that runs, whoever is on a CPU
\* is RUNNING ...
LEMMA AllRun ==
    ASSUME Typed, OneCpu, OnCpu, Leaves,
           ptlock = None \/ \E p \in Proc : Running(p) /\ ptlock = CpuOf(p)
    PROVE  \A c \in Cpu : run[c] # None => run[c] \in Proc /\ state[run[c]] = "RUNNING"
<1>1. CASE ptlock = None
  BY <1>1, Channels DEF Leaves, Typed
<1>2. CASE \E p \in Proc : Running(p) /\ ptlock = CpuOf(p)
  BY <1>2, CpuOfRuns DEF Leaves, Running, Typed
<1> QED
  BY <1>1, <1>2

\* ... and nobody else is about to sleep.
LEMMA NobodyFalls ==
    ASSUME OneCpu, OnCpu, Falls, NEW p \in Proc, Falling(p)
    PROVE  ptlock \in Cpu /\ run[ptlock] = p /\ state[p] = "RUNNING"
<1>1. Running(p) /\ ptlock = CpuOf(p)
  BY DEF Falls
<1> QED
  BY <1>1, CpuOfRuns DEF Running

-----------------------------------------------------------------------------
(* The steps *)

\* A step of a running p that changes only p's system call and p's files.
Quiet(p) ==
    /\ Running(p)
    /\ pc[p] # "fork" /\ ~Falling(p)
    /\ \E v \in Place \ {"fork", "asleep nread", "asleep nwrite"} : pc' = [pc EXCEPT ![p] = v]
    /\ \E a : arg' = [arg EXCEPT ![p] = a]
    /\ \E S \in SUBSET {"r", "w"} : fd' = [fd EXCEPT ![p] = S]
    /\ UNCHANGED <<state, chan, parent, killed, run, ptlock>>

LEMMA QuietKeeps == ASSUME TableInv, NEW p \in Proc, Quiet(p) PROVE TableInv'
<1>0. /\ Typed /\ OneCpu /\ OnCpu /\ Leaves
      /\ Embryos /\ ForksApart /\ Idle /\ Sleeps /\ Falls
  BY DEF TableInv
<1>1. /\ UNCHANGED <<state, chan, parent, killed, run, ptlock>> /\ state[p] = "RUNNING"
      /\ pc[p] \notin {"fork", "asleep nread", "asleep nwrite"}
  BY DEF Quiet, Running, Falling
<1>2. /\ Typed'
      /\ pc'[p] \notin {"fork", "asleep nread", "asleep nwrite"}
      /\ \A q \in Proc \ {p} : pc'[q] = pc[q] /\ arg'[q] = arg[q] /\ fd'[q] = fd[q]
  <2>1. PICK v \in Place \ {"fork", "asleep nread", "asleep nwrite"} : pc' = [pc EXCEPT ![p] = v]
    BY DEF Quiet
  <2>2. PICK a : arg' = [arg EXCEPT ![p] = a]
    BY DEF Quiet
  <2>3. PICK S \in SUBSET {"r", "w"} : fd' = [fd EXCEPT ![p] = S]
    BY DEF Quiet
  <2>4. Typed'
    BY <1>0, <1>1, <2>1, <2>2, <2>3 DEF Typed
  <2> QED
    BY <1>0, <2>1, <2>2, <2>3, <2>4 DEF Typed
<1>3. OneCpu' /\ OnCpu' /\ Leaves'
  BY <1>0, <1>1 DEF OneCpu, OnCpu, Leaves
<1>4. \A q \in Proc : pc'[q] = "fork" => pc[q] = "fork" /\ arg'[q] = arg[q]
  BY <1>2
<1>5. Embryos'
  BY <1>0, <1>1, <1>4, ZenonT(60) DEF Embryos
<1>6. ForksApart'
  BY <1>0, <1>4 DEF ForksApart
<1>7. Idle'
  BY <1>0, <1>1, <1>2 DEF Idle
<1>8. Sleeps'
  BY <1>0, <1>1, <1>2 DEF Sleeps
<1>9. Falls'
  <2>1. \A q \in Proc : Falling(q)' => Falling(q)
    BY <1>1, <1>2 DEF Falling
  <2>2. \A q \in Proc : Running(q)' = Running(q) /\ CpuOf(q)' = CpuOf(q)
    BY <1>1 DEF Running, CpuOf
  <2> QED
    BY <1>0, <1>1, <2>1, <2>2 DEF Falls
<1> QED
  BY <1>2, <1>3, <1>5, <1>6, <1>7, <1>8, <1>9 DEF TableInv

\* Some sleepers are woken, while ptable.lock stays free.
Wakes(p) ==
    /\ Running(p) /\ ptlock = None
    /\ state' \in [Proc -> States]
    /\ \A q \in Proc : \/ state'[q] = state[q]
                       \/ state[q] = "SLEEPING" /\ state'[q] = "RUNNABLE"
    /\ \E v \in Place \ {"fork", "asleep nread", "asleep nwrite"} : pc' = [pc EXCEPT ![p] = v]
    /\ UNCHANGED <<chan, parent, arg, run, ptlock, fd>> /\ killed' \subseteq Proc

LEMMA WakesKeeps == ASSUME TableInv, NEW p \in Proc, Wakes(p) PROVE TableInv'
<1>0. /\ Typed /\ OneCpu /\ OnCpu /\ Leaves
      /\ Embryos /\ ForksApart /\ Idle /\ Sleeps /\ Falls
  BY DEF TableInv
<1>1. /\ ptlock = None /\ state[p] = "RUNNING"
      /\ UNCHANGED <<chan, parent, arg, run, ptlock, fd>>
      /\ killed' \subseteq Proc /\ state' \in [Proc -> States]
  BY DEF Wakes, Running
<1>2. \A q \in Proc : \/ state'[q] = state[q]
                      \/ state[q] = "SLEEPING" /\ state'[q] = "RUNNABLE"
  BY DEF Wakes
<1>3. /\ Typed'
      /\ pc'[p] \notin {"fork", "asleep nread", "asleep nwrite"}
      /\ \A q \in Proc \ {p} : pc'[q] = pc[q]
  <2>1. PICK v \in Place \ {"fork", "asleep nread", "asleep nwrite"} : pc' = [pc EXCEPT ![p] = v]
    BY DEF Wakes
  <2> QED
    BY <1>0, <1>1, <2>1 DEF Typed
<1>4. \A c \in Cpu : run[c] # None => run[c] \in Proc /\ state[run[c]] = "RUNNING"
  BY <1>0, <1>1, AllRun
<1>5. OneCpu'
  BY <1>0, <1>1 DEF OneCpu
<1>6. OnCpu'
  BY <1>0, <1>1, <1>2 DEF OnCpu
<1>7. Leaves'
  BY <1>1, <1>2, <1>4 DEF Leaves
<1>8. \A q \in Proc : /\ pc'[q] = "fork" => pc[q] = "fork"
                      /\ state[q] = "EMBRYO" => state'[q] = "EMBRYO"
  BY <1>2, <1>3
<1>9. Embryos'
  BY <1>0, <1>1, <1>8 DEF Embryos
<1>10. ForksApart'
  BY <1>0, <1>1, <1>8 DEF ForksApart
<1>11. Idle'
  BY <1>0, <1>1, <1>2, <1>3 DEF Idle
<1>12. Sleeps'
  BY <1>0, <1>1, <1>2, <1>3 DEF Sleeps
<1>13. \A q \in Proc : ~Falling(q)
  BY <1>0, <1>1, NobodyFalls, Channels
<1>14. Falls'
  BY <1>3, <1>13 DEF Falls, Falling
<1> QED
  BY <1>3, <1>5, <1>6, <1>7, <1>9, <1>10, <1>11, <1>12, <1>14 DEF TableInv

\* A running p that finds ptable.lock free, or has kept it in wait.
LEMMA Alone ==
    ASSUME TableInv, NEW p \in Proc, Running(p),
           ptlock = None \/ (ptlock = CpuOf(p) /\ ~Falling(p))
    PROVE  /\ state[p] = "RUNNING" /\ CpuOf(p) \in Cpu /\ run[CpuOf(p)] = p
           /\ \A c \in Cpu : run[c] = p => c = CpuOf(p)
           /\ \A c \in Cpu : run[c] # None => run[c] \in Proc /\ state[run[c]] = "RUNNING"
           /\ \A q \in Proc : ~Falling(q)
<1>0. /\ Typed /\ OneCpu /\ OnCpu /\ Leaves
      /\ Embryos /\ ForksApart /\ Idle /\ Sleeps /\ Falls
  BY DEF TableInv
<1>1. state[p] = "RUNNING"
  BY DEF Running
<1>2. CpuOf(p) \in Cpu /\ run[CpuOf(p)] = p /\ \A c \in Cpu : run[c] = p => c = CpuOf(p)
  BY <1>0, <1>1, CpuOfRuns
<1>3. \A c \in Cpu : run[c] # None => run[c] \in Proc /\ state[run[c]] = "RUNNING"
  BY <1>0, AllRun
<1>4. \A q \in Proc : ~Falling(q)
  BY <1>0, <1>2, NobodyFalls, Channels
<1> QED
  BY <1>1, <1>2, <1>3, <1>4

LEMMA SleepKeeps == ASSUME TableInv, NEW p \in Proc, Sleep(p) PROVE TableInv'
<1>0. /\ Typed /\ OneCpu /\ OnCpu /\ Leaves
      /\ Embryos /\ ForksApart /\ Idle /\ Sleeps /\ Falls
  BY DEF TableInv
<1>1. /\ Running(p) /\ ptlock = None /\ ptlock' = CpuOf(p)
      /\ pc' = [pc EXCEPT ![p] = Asleep(@)]
      /\ pc[p] \in {"sleep nread", "sleep nwrite"}
      /\ UNCHANGED <<state, chan, parent, killed, arg, run, fd>>
  BY DEF Sleep, SleepLocks, ends
<1>2. /\ state[p] = "RUNNING" /\ CpuOf(p) \in Cpu
      /\ \A c \in Cpu : run[c] # None => run[c] \in Proc /\ state[run[c]] = "RUNNING"
      /\ \A q \in Proc : ~Falling(q)
  BY <1>1, Alone
<1>3. /\ pc' \in [Proc -> Place] /\ pc'[p] \notin {"user", "fork"}
      /\ \A q \in Proc \ {p} : pc'[q] = pc[q]
  BY <1>0, <1>1 DEF Typed, Asleep, Place
<1>4. Typed'
  BY <1>0, <1>1, <1>2, <1>3, ZenonT(60) DEF Typed
<1>5. OneCpu' /\ OnCpu' /\ Leaves'
  BY <1>0, <1>1, <1>2 DEF OneCpu, OnCpu, Leaves
<1>6. \A q \in Proc : pc'[q] = "fork" => pc[q] = "fork"
  BY <1>3
<1>7. Embryos' /\ ForksApart'
  BY <1>0, <1>1, <1>6 DEF Embryos, ForksApart
<1>8. Idle' /\ Sleeps'
  BY <1>0, <1>1, <1>2, <1>3 DEF Idle, Sleeps
<1>9. Running(p)' /\ CpuOf(p)' = CpuOf(p)
  BY <1>1 DEF Running, CpuOf
<1>10. Falls'
  BY <1>1, <1>2, <1>3, <1>9 DEF Falls, Falling
<1> QED
  BY <1>4, <1>5, <1>7, <1>8, <1>10 DEF TableInv

LEMMA FallAsleepKeeps == ASSUME TableInv, NEW p \in Proc, FallAsleep(p) PROVE TableInv'
<1>0. /\ Typed /\ OneCpu /\ OnCpu /\ Leaves
      /\ Embryos /\ ForksApart /\ Idle /\ Sleeps /\ Falls
  BY DEF TableInv
<1>1. /\ Falling(p) /\ UNCHANGED <<parent, killed, arg, run, ptlock, fd>>
      /\ state' = [state EXCEPT ![p] = "SLEEPING"]
      /\ \/ chan' = [chan EXCEPT ![p] = NREAD] /\ pc' = [pc EXCEPT ![p] = "read"]
         \/ chan' = [chan EXCEPT ![p] = NWRITE] /\ pc' = [pc EXCEPT ![p] = "write"]
  BY DEF FallAsleep, SleepState, Falling, pipe, ends
<1>2. /\ state[p] = "RUNNING" /\ ptlock \in Cpu /\ run[ptlock] = p
      /\ Running(p) /\ ptlock = CpuOf(p)
  BY <1>0, <1>1, NobodyFalls DEF Falls
<1>3. \A c \in Cpu : run[c] # None => run[c] \in Proc /\ state[run[c]] = "RUNNING"
  BY <1>0, <1>2, AllRun
<1>4. \A q \in Proc \ {p} : ~Falling(q)
  BY <1>0, <1>2, NobodyFalls
<1>5. /\ state'[p] = "SLEEPING"
      /\ \/ chan'[p] = NREAD /\ pc'[p] = "read"
         \/ chan'[p] = NWRITE /\ pc'[p] = "write"
      /\ \A q \in Proc \ {p} : state'[q] = state[q] /\ chan'[q] = chan[q] /\ pc'[q] = pc[q]
  BY <1>0, <1>1 DEF Typed
<1>6. Typed'
  BY <1>0, <1>1 DEF Typed, Place, States
<1>7. OneCpu' /\ OnCpu'
  BY <1>0, <1>1, <1>5 DEF OneCpu, OnCpu
<1>8. Leaves'
  BY <1>0, <1>1, <1>2, <1>3, <1>5 DEF Leaves, OneCpu
<1>9. \A q \in Proc : /\ pc'[q] = "fork" => pc[q] = "fork"
                      /\ state[q] = "EMBRYO" => state'[q] = "EMBRYO"
  BY <1>2, <1>5
<1>10. Embryos' /\ ForksApart'
  BY <1>0, <1>1, <1>9 DEF Embryos, ForksApart
<1>11. Idle'
  BY <1>0, <1>1, <1>5 DEF Idle
<1>12. Sleeps'
  BY <1>0, <1>1, <1>5, Channels DEF Sleeps
<1>13. Falls'
  BY <1>4, <1>5 DEF Falls, Falling
<1> QED
  BY <1>6, <1>7, <1>8, <1>10, <1>11, <1>12, <1>13 DEF TableInv

LEMMA YieldKeeps == ASSUME TableInv, NEW p \in Proc, Yield(p), UNCHANGED fd PROVE TableInv'
<1>0. /\ Typed /\ OneCpu /\ OnCpu /\ Leaves
      /\ Embryos /\ ForksApart /\ Idle /\ Sleeps /\ Falls
  BY DEF TableInv
<1>1. /\ Running(p) /\ ptlock = None /\ ptlock' = CpuOf(p)
      /\ state' = [state EXCEPT ![p] = "RUNNABLE"]
      /\ UNCHANGED <<chan, parent, killed, arg, pc, run, fd>>
  BY DEF Yield
<1>2. /\ state[p] = "RUNNING" /\ CpuOf(p) \in Cpu /\ run[CpuOf(p)] = p
      /\ \A c \in Cpu : run[c] = p => c = CpuOf(p)
      /\ \A c \in Cpu : run[c] # None => run[c] \in Proc /\ state[run[c]] = "RUNNING"
      /\ \A q \in Proc : ~Falling(q)
  BY <1>1, Alone
<1>3. state'[p] = "RUNNABLE" /\ \A q \in Proc \ {p} : state'[q] = state[q]
  BY <1>0, <1>1 DEF Typed
<1>4. Typed'
  BY <1>0, <1>1, <1>2 DEF Typed, States
<1>5. OneCpu' /\ OnCpu'
  BY <1>0, <1>1, <1>3 DEF OneCpu, OnCpu
<1>6. Leaves'
  BY <1>1, <1>2, <1>3 DEF Leaves
<1>7. \A q \in Proc : state[q] = "EMBRYO" => state'[q] = "EMBRYO"
  BY <1>2, <1>3
<1>8. Embryos' /\ ForksApart'
  BY <1>0, <1>1, <1>7 DEF Embryos, ForksApart
<1>9. Idle' /\ Sleeps'
  BY <1>0, <1>1, <1>3 DEF Idle, Sleeps
<1>10. Falls'
  BY <1>1, <1>2 DEF Falls, Falling
<1> QED
  BY <1>4, <1>5, <1>6, <1>8, <1>9, <1>10 DEF TableInv

LEMMA ForkKeeps == ASSUME TableInv, NEW p \in Proc, Fork(p), UNCHANGED fd PROVE TableInv'
<1>0. /\ Typed /\ OneCpu /\ OnCpu /\ Leaves
      /\ Embryos /\ ForksApart /\ Idle /\ Sleeps /\ Falls
  BY DEF TableInv
<1>1. Running(p) /\ ptlock = None /\ pc[p] = "user"
  BY DEF Fork, InUser
<1>2. PICK n \in Proc :
        /\ state[n] \in {"UNUSED", "LEFT"}
        /\ state' = [state EXCEPT ![n] = "EMBRYO"] /\ arg' = [arg EXCEPT ![p] = n]
        /\ pc' = [pc EXCEPT ![p] = "fork"]
        /\ UNCHANGED <<chan, parent, killed, run, ptlock, fd>>
  <2>1. Free # {} /\ Free \in SUBSET Proc
    BY DEF Fork, Free
  <2>2. Min(Free) \in Free
    BY <2>1, MinIn
  <2>3. Min(Free) \in Proc /\ state[Min(Free)] \in {"UNUSED", "LEFT"}
    BY <2>2 DEF Free
  <2> QED
    BY <2>3 DEF Fork
<1>3. /\ state[p] = "RUNNING" /\ CpuOf(p) \in Cpu /\ run[CpuOf(p)] = p
      /\ \A c \in Cpu : run[c] = p => c = CpuOf(p)
      /\ \A c \in Cpu : run[c] # None => run[c] \in Proc /\ state[run[c]] = "RUNNING"
      /\ \A q \in Proc : ~Falling(q)
  BY <1>1, Alone
<1>4. /\ state'[n] = "EMBRYO" /\ n # p /\ pc'[p] = "fork" /\ arg'[p] = n
      /\ \A q \in Proc \ {n} : state'[q] = state[q]
      /\ \A q \in Proc \ {p} : pc'[q] = pc[q] /\ arg'[q] = arg[q]
  BY <1>0, <1>2, <1>3 DEF Typed
<1>5. Typed'
  BY <1>0, <1>2 DEF Typed, States, Place
<1>6. OneCpu' /\ OnCpu'
  BY <1>0, <1>2, <1>4 DEF OneCpu, OnCpu
<1>7. Leaves'
  BY <1>2, <1>3, <1>4 DEF Leaves
<1>8. Embryos'
  BY <1>0, <1>2, <1>4 DEF Embryos
<1>9. ForksApart'
  BY <1>0, <1>2, <1>4 DEF Embryos, ForksApart
<1>10. Idle'
  BY <1>0, <1>2, <1>3, <1>4 DEF Idle
<1>11. Sleeps'
  BY <1>0, <1>2, <1>3, <1>4 DEF Sleeps
<1>12. \A q \in Proc : Falling(q)' => Falling(q)
  BY <1>4 DEF Falling
<1>13. Falls'
  BY <1>3, <1>12 DEF Falls
<1> QED
  BY <1>5, <1>6, <1>7, <1>8, <1>9, <1>10, <1>11, <1>13 DEF TableInv

LEMMA ForkedKeeps == ASSUME TableInv, NEW p \in Proc, Forked(p) PROVE TableInv'
<1>0. /\ Typed /\ OneCpu /\ OnCpu /\ Leaves
      /\ Embryos /\ ForksApart /\ Idle /\ Sleeps /\ Falls
  BY DEF TableInv
<1> DEFINE n == arg[p]
<1>1. /\ Running(p) /\ ptlock = None /\ pc[p] = "fork"
      /\ state' = [state EXCEPT ![n] = "RUNNABLE"] /\ parent' = [parent EXCEPT ![n] = p]
      /\ pc' = [pc EXCEPT ![p] = "user", ![n] = "user"] /\ arg' = [arg EXCEPT ![p] = 0]
      /\ fd' = [fd EXCEPT ![n] = fd[p]]
      /\ UNCHANGED <<chan, killed, run, ptlock>>
  BY DEF Forked, ForkReturns
<1>2. /\ state[p] = "RUNNING" /\ CpuOf(p) \in Cpu /\ run[CpuOf(p)] = p
      /\ \A c \in Cpu : run[c] = p => c = CpuOf(p)
      /\ \A c \in Cpu : run[c] # None => run[c] \in Proc /\ state[run[c]] = "RUNNING"
      /\ \A q \in Proc : ~Falling(q)
  BY <1>1, Alone
<1>3. n \in Proc /\ state[n] = "EMBRYO" /\ n # p
  BY <1>0, <1>1, <1>2 DEF Embryos
<1> HIDE DEF n
<1>4. /\ state'[n] = "RUNNABLE" /\ parent'[n] = p /\ fd'[n] = fd[p]
      /\ pc'[n] = "user" /\ pc'[p] = "user"
      /\ \A q \in Proc \ {n} : state'[q] = state[q] /\ parent'[q] = parent[q] /\ fd'[q] = fd[q]
      /\ \A q \in Proc \ {p, n} : pc'[q] = pc[q]
      /\ \A q \in Proc \ {p} : arg'[q] = arg[q]
  BY <1>0, <1>1, <1>3 DEF Typed
<1>5. Typed'
  BY <1>0, <1>1, <1>3 DEF Typed, States, Place
<1>6. OneCpu' /\ OnCpu'
  BY <1>0, <1>1, <1>4 DEF OneCpu, OnCpu
<1>7. Leaves'
  BY <1>1, <1>2, <1>3, <1>4 DEF Leaves
<1>8. \A q \in Proc : pc'[q] = "fork" =>
        q # p /\ q # n /\ pc[q] = "fork" /\ arg'[q] = arg[q] /\ arg[q] # n
  <2>1. \A q \in Proc : pc'[q] = "fork" => q # p /\ q # n /\ pc[q] = "fork" /\ arg'[q] = arg[q]
    BY <1>4
  <2>2. \A q \in Proc : q # p /\ pc[q] = "fork" => arg[q] # n
    BY <1>0, <1>1 DEF ForksApart, n
  <2> QED
    BY <2>1, <2>2
<1>9. Embryos'
  BY <1>0, <1>4, <1>8 DEF Embryos
<1>10. ForksApart'
  BY <1>0, <1>8 DEF ForksApart
<1>11. Idle'
  BY <1>0, <1>2, <1>4 DEF Idle
<1>12. Sleeps'
  <2>1. chan' = chan
    BY <1>1
  <2>2. \A q \in Proc : state'[q] = "SLEEPING" => state[q] = "SLEEPING" /\ pc'[q] = pc[q]
    BY <1>2, <1>4
  <2> QED
    BY <1>0, <2>1, <2>2 DEF Sleeps
<1>13. \A q \in Proc : Falling(q)' => Falling(q)
  BY <1>4 DEF Falling
<1>14. Falls'
  BY <1>2, <1>13 DEF Falls
<1> QED
  BY <1>5, <1>6, <1>7, <1>9, <1>10, <1>11, <1>12, <1>14 DEF TableInv

LEMMA ForkFailsKeeps == ASSUME TableInv, NEW p \in Proc, ForkFails(p), UNCHANGED fd PROVE TableInv'
<1>0. /\ Typed /\ OneCpu /\ OnCpu /\ Leaves
      /\ Embryos /\ ForksApart /\ Idle /\ Sleeps /\ Falls
  BY DEF TableInv
<1> DEFINE n == arg[p]
<1>1. /\ Running(p) /\ pc[p] = "fork"
      /\ state' = [state EXCEPT ![n] = "LEFT"]
      /\ pc' = [pc EXCEPT ![p] = "user"] /\ arg' = [arg EXCEPT ![p] = 0]
      /\ UNCHANGED <<chan, parent, killed, run, ptlock, fd>>
  BY DEF ForkFails
<1>2. n \in Proc /\ state[n] = "EMBRYO" /\ state[p] = "RUNNING" /\ n # p
  BY <1>0, <1>1 DEF Embryos, Running
<1>3. \A q \in Proc : q # p /\ pc[q] = "fork" => arg[q] # n
  BY <1>0, <1>1 DEF ForksApart
<1> HIDE DEF n
<1>4. /\ state'[n] = "LEFT" /\ pc'[p] = "user"
      /\ \A q \in Proc \ {n} : state'[q] = state[q]
      /\ \A q \in Proc \ {p} : pc'[q] = pc[q] /\ arg'[q] = arg[q]
  BY <1>0, <1>1, <1>2 DEF Typed
<1>5. Typed'
  BY <1>0, <1>1, <1>2 DEF Typed, States, Place
<1>6. OneCpu' /\ OnCpu'
  BY <1>0, <1>1, <1>2, <1>4 DEF OneCpu, OnCpu
<1>7. Leaves'
  <2>1. \A c \in Cpu : run[c] # None => run[c] \in Proc /\ run[c] # n
    BY <1>0, <1>2 DEF Leaves, Typed
  <2> QED
    BY <1>0, <1>1, <1>4, <2>1 DEF Leaves
<1>8. \A q \in Proc : pc'[q] = "fork" => pc[q] = "fork" /\ arg'[q] = arg[q] /\ arg[q] # n
  BY <1>3, <1>4
<1>9. Embryos'
  BY <1>0, <1>4, <1>8 DEF Embryos
<1>10. ForksApart'
  BY <1>0, <1>8 DEF ForksApart
<1>11. Idle'
  BY <1>0, <1>1, <1>2, <1>4 DEF Idle
<1>12. Sleeps'
  BY <1>0, <1>1, <1>2, <1>4 DEF Sleeps
<1>13. \A q \in Proc : Falling(q)' => Falling(q) /\ q # p
  BY <1>1, <1>4 DEF Falling
<1>14. \A q \in Proc : Running(q) => Running(q)' /\ CpuOf(q)' = CpuOf(q)
  BY <1>1, <1>2, <1>4 DEF Running, CpuOf
<1>15. Falls'
  BY <1>0, <1>1, <1>13, <1>14 DEF Falls
<1> QED
  BY <1>5, <1>6, <1>7, <1>9, <1>10, <1>11, <1>12, <1>15 DEF TableInv

LEMMA ExitedKeeps == ASSUME TableInv, NEW p \in Proc, Exited(p) PROVE TableInv'
<1>0. /\ Typed /\ OneCpu /\ OnCpu /\ Leaves
      /\ Embryos /\ ForksApart /\ Idle /\ Sleeps /\ Falls
  BY DEF TableInv
<1>1. /\ Running(p) /\ pc[p] = "user" /\ ptlock = None /\ ptlock' = CpuOf(p) /\ fd[p] = {}
      /\ UNCHANGED <<chan, killed, arg, pc, run, fd>>
  BY DEF Exited, Exit, pipe, ends
<1>2. /\ state[p] = "RUNNING" /\ CpuOf(p) \in Cpu /\ run[CpuOf(p)] = p
      /\ \A c \in Cpu : run[c] = p => c = CpuOf(p)
      /\ \A c \in Cpu : run[c] # None => run[c] \in Proc /\ state[run[c]] = "RUNNING"
      /\ \A q \in Proc : ~Falling(q)
  BY <1>1, Alone
<1>3. PICK woken : state' = [WokenBy(woken) EXCEPT ![p] = "ZOMBIE"]
  BY DEF Exited, Exit
<1>4. /\ state' \in [Proc -> States] /\ state'[p] = "ZOMBIE"
      /\ \A q \in Proc \ {p} : \/ state'[q] = state[q]
                               \/ state[q] = "SLEEPING" /\ state'[q] = "RUNNABLE"
  BY <1>0, <1>3 DEF Typed, WokenBy, States
<1>5. /\ parent' \in [Proc -> Proc \cup {None}]
      /\ \A q \in Proc : parent[q] = None => parent'[q] = None
  <2>1. parent' = [q \in Proc |-> IF q \in Children(p) THEN InitProc ELSE parent[q]]
    BY DEF Exited, Exit
  <2> QED
    BY <1>0, <2>1, Channels DEF Typed, Children
<1>6. Typed'
  BY <1>0, <1>1, <1>2, <1>4, <1>5 DEF Typed
<1>7. OneCpu' /\ OnCpu'
  BY <1>0, <1>1, <1>4 DEF OneCpu, OnCpu
<1>8. Leaves'
  BY <1>1, <1>2, <1>4 DEF Leaves
<1>9. \A q \in Proc : state[q] = "EMBRYO" => state'[q] = "EMBRYO"
  BY <1>2, <1>4
<1>10. Embryos' /\ ForksApart'
  BY <1>0, <1>1, <1>9 DEF Embryos, ForksApart
<1>11. Idle'
  BY <1>0, <1>1, <1>4, <1>5 DEF Idle
<1>12. Sleeps'
  BY <1>0, <1>1, <1>4 DEF Sleeps
<1>13. \A q \in Proc : Falling(q)' => Falling(q)
  BY <1>1 DEF Falling
<1>14. Falls'
  BY <1>2, <1>13 DEF Falls
<1> QED
  BY <1>6, <1>7, <1>8, <1>10, <1>11, <1>12, <1>14 DEF TableInv

LEMMA WaitsKeeps == ASSUME TableInv, NEW p \in Proc, Waits(p) PROVE TableInv'
<1>0. /\ Typed /\ OneCpu /\ OnCpu /\ Leaves
      /\ Embryos /\ ForksApart /\ Idle /\ Sleeps /\ Falls
  BY DEF TableInv
<1>1. /\ Running(p) /\ pc[p] \in {"user", "wait"}
      /\ ptlock = None \/ (ptlock = CpuOf(p) /\ ~Falling(p))
      /\ UNCHANGED <<arg, run, fd>>
  BY DEF Waits, Wait, Falling, pipe, ends
<1>2. /\ state[p] = "RUNNING" /\ CpuOf(p) \in Cpu /\ run[CpuOf(p)] = p
      /\ \A c \in Cpu : run[c] = p => c = CpuOf(p)
      /\ \A c \in Cpu : run[c] # None => run[c] \in Proc /\ state[run[c]] = "RUNNING"
      /\ \A q \in Proc : ~Falling(q)
  BY <1>1, Alone
<1> DEFINE zombies == {q \in Children(p) : state[q] = "ZOMBIE"}
<1>3. CASE zombies # {}
  <2>1. PICK z \in Proc :
          /\ state[z] = "ZOMBIE"
          /\ state' = [state EXCEPT ![z] = "UNUSED"] /\ parent' = [parent EXCEPT ![z] = None]
          /\ killed' = killed \ {z} /\ pc' = [pc EXCEPT ![p] = "user"]
          /\ ptlock' = None /\ UNCHANGED chan
    <3>1. zombies \in SUBSET Proc
      BY DEF Children
    <3>2. Min(zombies) \in zombies
      BY <1>3, <3>1, MinIn
    <3> QED
      BY <1>3, <3>1, <3>2 DEF Waits, Wait
  <2>2. /\ state'[z] = "UNUSED" /\ parent'[z] = None /\ z # p /\ pc'[p] = "user"
        /\ \A q \in Proc \ {z} : state'[q] = state[q] /\ parent'[q] = parent[q]
        /\ \A q \in Proc \ {p} : pc'[q] = pc[q]
    BY <1>0, <1>2, <2>1 DEF Typed
  <2>3. Typed'
    BY <1>0, <1>1, <2>1 DEF Typed, States, Place
  <2>4. OneCpu' /\ OnCpu'
    BY <1>0, <1>1, <2>2 DEF OneCpu, OnCpu
  <2>5. Leaves'
    BY <1>1, <1>2, <2>1, <2>2 DEF Leaves
  <2>6. \A q \in Proc : /\ pc'[q] = "fork" => pc[q] = "fork"
                        /\ state[q] = "EMBRYO" => state'[q] = "EMBRYO"
    BY <2>1, <2>2
  <2>7. Embryos' /\ ForksApart'
    BY <1>0, <1>1, <2>6 DEF Embryos, ForksApart
  <2>8. Idle'
    BY <1>0, <1>1, <1>2, <2>1, <2>2 DEF Idle
  <2>9. Sleeps'
    BY <1>0, <1>2, <2>1, <2>2 DEF Sleeps
  <2>10. \A q \in Proc : Falling(q)' => Falling(q)
    BY <2>2 DEF Falling
  <2>11. Falls'
    BY <1>2, <2>10 DEF Falls
  <2> QED
    BY <2>3, <2>4, <2>5, <2>7, <2>8, <2>9, <2>11 DEF TableInv
<1>4. CASE zombies = {} /\ (Children(p) = {} \/ p \in killed)
  <2>1. /\ pc' = [pc EXCEPT ![p] = "user"] /\ ptlock' = None
        /\ UNCHANGED <<state, chan, parent, killed>>
    BY <1>4 DEF Waits, Wait
  <2>2. pc'[p] = "user" /\ \A q \in Proc \ {p} : pc'[q] = pc[q]
    BY <1>0, <2>1 DEF Typed
  <2>3. Typed'
    BY <1>0, <1>1, <2>1 DEF Typed, Place
  <2>4. OneCpu' /\ OnCpu' /\ Leaves'
    BY <1>0, <1>1, <1>2, <2>1 DEF OneCpu, OnCpu, Leaves
  <2>5. \A q \in Proc : pc'[q] = "fork" => pc[q] = "fork"
    BY <2>2
  <2>6. Embryos' /\ ForksApart'
    BY <1>0, <1>1, <2>1, <2>5 DEF Embryos, ForksApart
  <2>7. Idle' /\ Sleeps'
    BY <1>0, <1>1, <1>2, <2>1, <2>2 DEF Idle, Sleeps
  <2>8. \A q \in Proc : Falling(q)' => Falling(q)
    BY <2>2 DEF Falling
  <2>9. Falls'
    BY <1>2, <2>8 DEF Falls
  <2> QED
    BY <2>3, <2>4, <2>6, <2>7, <2>9 DEF TableInv
<1>5. CASE zombies = {} /\ Children(p) # {} /\ p \notin killed
  <2>1. /\ pc' = [pc EXCEPT ![p] = "wait"] /\ ptlock' = CpuOf(p)
        /\ state' = [state EXCEPT ![p] = "SLEEPING"] /\ chan' = [chan EXCEPT ![p] = p]
        /\ UNCHANGED <<parent, killed>>
    BY <1>5 DEF Waits, Wait
  <2>2. /\ pc'[p] = "wait" /\ state'[p] = "SLEEPING" /\ chan'[p] = p
        /\ \A q \in Proc \ {p} : pc'[q] = pc[q] /\ state'[q] = state[q] /\ chan'[q] = chan[q]
    BY <1>0, <2>1 DEF Typed
  <2>3. Typed'
    BY <1>0, <1>1, <1>2, <2>1 DEF Typed, Place, States
  <2>4. OneCpu' /\ OnCpu'
    BY <1>0, <1>1, <2>2 DEF OneCpu, OnCpu
  <2>5. Leaves'
    BY <1>1, <1>2, <2>1, <2>2 DEF Leaves
  <2>6. \A q \in Proc : /\ pc'[q] = "fork" => pc[q] = "fork"
                        /\ state[q] = "EMBRYO" => state'[q] = "EMBRYO"
    BY <1>2, <2>2
  <2>7. Embryos' /\ ForksApart'
    BY <1>0, <1>1, <2>6 DEF Embryos, ForksApart
  <2>8. Idle'
    BY <1>0, <1>1, <2>1, <2>2 DEF Idle
  <2>9. Sleeps'
    BY <1>0, <2>2, Channels DEF Sleeps
  <2>10. \A q \in Proc : Falling(q)' => Falling(q)
    BY <2>2 DEF Falling
  <2>11. Falls'
    BY <1>2, <2>10 DEF Falls
  <2> QED
    BY <2>3, <2>4, <2>5, <2>7, <2>8, <2>9, <2>11 DEF TableInv
<1> QED
  BY <1>3, <1>4, <1>5

\* A CPU's pass, when whoever the CPU still runs has changed its state.
LEMMA ContinueKeeps ==
    ASSUME TableInv, NEW c \in Cpu, NEW k,
           \/ ptlock = None /\ run[c] = None
           \/ ptlock = c /\ run[c] # None /\ state[run[c]] # "RUNNING",
           Continue(c, k), UNCHANGED <<parent, killed, arg, pc, fd>>
    PROVE  TableInv'
<1>0. /\ Typed /\ OneCpu /\ OnCpu /\ Leaves
      /\ Embryos /\ ForksApart /\ Idle /\ Sleeps /\ Falls
  BY DEF TableInv
<1> DEFINE ready == {q \in Proc : q >= k /\ state[q] = "RUNNABLE"}
<1>1. \A d \in Cpu \ {c} : run[d] # None => run[d] \in Proc /\ state[run[d]] = "RUNNING"
  BY <1>0, Channels DEF Leaves, Typed
<1>2. run[c] # None => run[c] \in Proc /\ state[run[c]] # "RUNNING"
  BY <1>0 DEF Typed
<1>3. \A q \in Proc : ~Falling(q)
  BY <1>0, <1>2, NobodyFalls, Channels
<1>4. CASE ready = {}
  <2>1. /\ run' = [run EXCEPT ![c] = None] /\ ptlock' = None
        /\ UNCHANGED <<state, chan, parent, killed, arg, pc, fd>>
    BY <1>4 DEF Continue
  <2>2. run'[c] = None /\ \A d \in Cpu \ {c} : run'[d] = run[d]
    BY <1>0, <2>1 DEF Typed
  <2>3. Typed'
    BY <1>0, <2>1 DEF Typed
  <2>4. OneCpu'
    BY <1>0, <2>2 DEF OneCpu
  <2>5. OnCpu'
    BY <1>0, <1>2, <2>1, <2>2, Channels DEF OnCpu
  <2>6. Leaves'
    BY <1>1, <2>1, <2>2 DEF Leaves
  <2>7. Embryos' /\ ForksApart' /\ Idle' /\ Sleeps'
    BY <1>0, <2>1 DEF Embryos, ForksApart, Idle, Sleeps
  <2>8. \A q \in Proc : Falling(q)' => Falling(q)
    BY <2>1 DEF Falling
  <2>9. Falls'
    BY <1>3, <2>8 DEF Falls
  <2> QED
    BY <2>3, <2>4, <2>5, <2>6, <2>7, <2>9 DEF TableInv
<1>5. CASE ready # {}
  <2>1. PICK q \in Proc :
          /\ state[q] = "RUNNABLE"
          /\ run' = [run EXCEPT ![c] = q] /\ ptlock' \in Cpu \cup {None}
          /\ state' = [state EXCEPT ![q] = "RUNNING"] /\ chan' = [chan EXCEPT ![q] = None]
    <3>1. ready \in SUBSET Proc
      OBVIOUS
    <3>2. Min(ready) \in ready
      BY <1>5, <3>1, MinIn
    <3> QED
      BY <1>5, <3>2 DEF Continue
  <2>2. /\ run'[c] = q /\ \A d \in Cpu \ {c} : run'[d] = run[d]
        /\ state'[q] = "RUNNING" /\ \A p \in Proc \ {q} : state'[p] = state[p]
        /\ chan'[q] = None /\ \A p \in Proc \ {q} : chan'[p] = chan[p]
    BY <1>0, <2>1 DEF Typed
  <2>3. Typed'
    BY <1>0, <2>1 DEF Typed, States
  <2>4. \A d \in Cpu \ {c} : run[d] # q
    BY <1>1, <2>1, Channels
  <2>5. OneCpu'
    BY <1>0, <2>2, <2>4 DEF OneCpu
  <2>6. OnCpu'
    <3> SUFFICES ASSUME NEW p \in Proc, state'[p] = "RUNNING" PROVE \E d \in Cpu : run'[d] = p
      BY DEF OnCpu
    <3>1. CASE p = q
      BY <2>2, <3>1
    <3>2. CASE p # q
      <4>1. PICK d \in Cpu : run[d] = p
        BY <1>0, <2>2, <3>2 DEF OnCpu
      <4>2. d # c
        BY <1>2, <2>2, <3>2, <4>1, Channels
      <4> QED
        BY <2>2, <4>1, <4>2
    <3> QED
      BY <3>1, <3>2
  <2>7. Leaves'
    BY <1>1, <2>2, <2>4 DEF Leaves
  <2>8. \A p \in Proc : state[p] = "EMBRYO" => state'[p] = "EMBRYO"
    BY <2>1, <2>2
  <2>9. Embryos' /\ ForksApart'
    BY <1>0, <2>8 DEF Embryos, ForksApart
  <2>10. Idle'
    BY <1>0, <2>2 DEF Idle
  <2>11. Sleeps'
    BY <1>0, <2>2 DEF Sleeps
  <2>12. \A p \in Proc : Falling(p)' => Falling(p)
    BY DEF Falling
  <2>13. Falls'
    BY <1>3, <2>12 DEF Falls
  <2> QED
    BY <2>3, <2>5, <2>6, <2>7, <2>9, <2>10, <2>11, <2>13 DEF TableInv
<1> QED
  BY <1>4, <1>5

LEMMA SchedulerKeeps == ASSUME TableInv, NEW c \in Cpu, Scheduler(c) PROVE TableInv'
<1>1. \/ /\ ptlock = None /\ run[c] = None /\ Continue(c, 1)
      \/ /\ ptlock = c /\ run[c] # None /\ state[run[c]] # "RUNNING" /\ Continue(c, run[c] + 1)
  BY DEF Scheduler, Pass, Sched
<1>2. UNCHANGED <<parent, killed, arg, pc, fd>>
  BY DEF Scheduler, Pass, Sched, pipe, ends
<1> QED
  BY <1>1, <1>2, ContinueKeeps

-----------------------------------------------------------------------------
(* The calls of the pipe *)

LEMMA PipeAllocKeeps == ASSUME TableInv, NEW p \in Proc, PipeAlloc(p) PROVE TableInv'
<1>1. /\ Running(p) /\ pc[p] = "user" /\ fd' = [fd EXCEPT ![p] = {"r", "w"}]
      /\ UNCHANGED <<state, chan, parent, killed, arg, pc, run, ptlock>>
  BY DEF PipeAlloc, InUser, ptable
<1>2. pc' = [pc EXCEPT ![p] = "user"] /\ arg' = [arg EXCEPT ![p] = arg[p]]
  BY <1>1 DEF TableInv, Typed
<1>3. Quiet(p)
  BY <1>1, <1>2 DEF Quiet, Place, Falling
<1> QED
  BY <1>3, QuietKeeps

LEMMA ReadWriteKeeps ==
    ASSUME TableInv, NEW p \in Proc, NEW n, PipeRead(p, n) \/ PipeWrite(p, n)
    PROVE  TableInv'
<1>1. /\ Running(p) /\ pc[p] \in {"user", "read", "write"}
      /\ UNCHANGED <<state, chan, parent, killed, run, ptlock, fd>>
  BY DEF PipeRead, PipeWrite, InUser, ends
<1>2. \E v \in Place \ {"fork", "asleep nread", "asleep nwrite"} : pc' = [pc EXCEPT ![p] = v]
  BY DEF PipeRead, PipeWrite, Return, Place
<1>3. \E a : arg' = [arg EXCEPT ![p] = a]
  BY DEF PipeRead, PipeWrite
<1>4. fd' = [fd EXCEPT ![p] = fd[p]] /\ fd[p] \in SUBSET {"r", "w"}
  BY <1>1 DEF TableInv, Typed
<1>5. Quiet(p)
  BY <1>1, <1>2, <1>3, <1>4 DEF Quiet, Falling
<1> QED
  BY <1>5, QuietKeeps

LEMMA CloseKeeps == ASSUME TableInv, NEW p \in Proc, NEW e \in fd[p], Close(p, e) PROVE TableInv'
<1>1. /\ Running(p) /\ pc[p] = "user" /\ fd' = [fd EXCEPT ![p] = @ \ {e}]
      /\ UNCHANGED <<state, chan, parent, killed, arg, run, ptlock>>
  BY DEF Close
<1>2. pc' = pc \/ \E v \in {"close r", "close w"} : pc' = [pc EXCEPT ![p] = v]
  BY DEF Close
<1>3. pc = [pc EXCEPT ![p] = "user"] /\ arg = [arg EXCEPT ![p] = arg[p]]
  BY <1>1 DEF TableInv, Typed
<1>4. \E v \in Place \ {"fork", "asleep nread", "asleep nwrite"} : pc' = [pc EXCEPT ![p] = v]
  BY <1>2, <1>3 DEF Place
<1>5. fd[p] \ {e} \in SUBSET {"r", "w"}
  BY DEF TableInv, Typed
<1>6. Quiet(p)
  BY <1>1, <1>3, <1>4, <1>5 DEF Quiet, Falling
<1> QED
  BY <1>6, QuietKeeps

LEMMA PipeCloseKeeps == ASSUME TableInv, NEW p \in Proc, PipeClose(p) PROVE TableInv'
<1>1. /\ Running(p) /\ pc[p] \in {"close w", "close r"}
      /\ UNCHANGED <<state, chan, parent, killed, arg, run, ptlock, fd>>
  BY DEF PipeClose
<1>2. \E v \in Place \ {"fork", "asleep nread", "asleep nwrite"} : pc' = [pc EXCEPT ![p] = v]
  BY DEF PipeClose, Place
<1>3. /\ fd = [fd EXCEPT ![p] = fd[p]] /\ fd[p] \in SUBSET {"r", "w"}
      /\ arg = [arg EXCEPT ![p] = arg[p]]
  BY DEF TableInv, Typed
<1>4. Quiet(p)
  BY <1>1, <1>2, <1>3 DEF Quiet, Falling
<1> QED
  BY <1>4, QuietKeeps

\* The wakeups: every process that is not asleep keeps its state.
LEMMA WokenByTypes ==
    ASSUME Typed, NEW S
    PROVE  /\ WokenBy(S) \in [Proc -> States]
           /\ \A q \in Proc : \/ WokenBy(S)[q] = state[q]
                              \/ state[q] = "SLEEPING" /\ WokenBy(S)[q] = "RUNNABLE"
BY DEF Typed, WokenBy, States

LEMMA WakeupKeeps ==
    ASSUME TableInv, NEW p \in Proc,
           \/ ReadReturns(p) \/ WriteReturns(p) \/ WakeReaders(p) \/ PipeCloseReturns(p)
    PROVE  TableInv'
<1>1. PICK ch \in {NREAD, NWRITE}, then \in {"user", "sleep nwrite"} : Wakeup(p, ch, then)
  BY ZenonT(30) DEF ReadReturns, WriteReturns, WakeReaders, PipeCloseReturns
<1>2. UNCHANGED <<arg, fd>>
  BY DEF ReadReturns, WriteReturns, WakeReaders, PipeCloseReturns, pipe, ends
<1>3. /\ Running(p) /\ ptlock = None /\ state' = WokenBy({ch})
      /\ pc' = [pc EXCEPT ![p] = then] /\ UNCHANGED <<chan, parent, killed, run, ptlock>>
  BY <1>1 DEF Wakeup
<1>4. Typed
  BY DEF TableInv
<1>5. Wakes(p)
  BY <1>2, <1>3, <1>4, WokenByTypes DEF Wakes, Typed, Place
<1> QED
  BY <1>5, WakesKeeps

LEMMA KilledKeeps == ASSUME TableInv, NEW p \in Proc, NEW q \in Proc, Killed(p, q) PROVE TableInv'
<1>1. /\ Running(p) /\ pc[p] = "user" /\ ptlock = None /\ killed' = killed \cup {q}
      /\ state' = [state EXCEPT ![q] = IF @ = "SLEEPING" THEN "RUNNABLE" ELSE @]
      /\ UNCHANGED <<chan, parent, arg, pc, run, ptlock, fd>>
  BY DEF Killed, Kill, InUser, pipe, ends
<1>2. pc' = [pc EXCEPT ![p] = "user"]
  BY <1>1 DEF TableInv, Typed
<1>3. state' \in [Proc -> States] /\ killed' \subseteq Proc
  BY <1>1 DEF TableInv, Typed, States
<1>4. \A r \in Proc : \/ state'[r] = state[r]
                      \/ state[r] = "SLEEPING" /\ state'[r] = "RUNNABLE"
  BY <1>1 DEF TableInv, Typed
<1>5. Wakes(p)
  BY <1>1, <1>2, <1>3, <1>4 DEF Wakes, Place
<1> QED
  BY <1>5, WakesKeeps

-----------------------------------------------------------------------------
(* The theorem *)

LEMMA InitTable == Init => TableInv
<1> SUFFICES ASSUME Init PROVE TableInv
  OBVIOUS
<1> USE Channels DEF Init, ProcsInit
<1>1. Typed
  BY DEF Typed, States, Place
<1>2. OneCpu /\ OnCpu /\ Leaves
  BY DEF OneCpu, OnCpu, Leaves
<1>3. Embryos /\ ForksApart /\ Idle /\ Sleeps
  BY DEF Embryos, ForksApart, Idle, Sleeps
<1>4. Falls
  BY DEF Falls, Falling
<1> QED
  BY <1>1, <1>2, <1>3, <1>4 DEF TableInv

LEMMA NextTable == TableInv /\ [Next]_vars => TableInv'
<1> SUFFICES ASSUME TableInv, [Next]_vars PROVE TableInv'
  OBVIOUS
<1>1. ASSUME NEW p \in Proc, Call(p) PROVE TableInv'
  <2>1. CASE PipeAlloc(p)
    BY <2>1, PipeAllocKeeps
  <2>2. CASE \E n \in Sizes : InUser(p) /\ (PipeRead(p, n) \/ PipeWrite(p, n))
    BY <2>2, ReadWriteKeeps
  <2>3. CASE \E e \in fd[p] : Close(p, e)
    BY <2>3, CloseKeeps
  <2>4. CASE Fork(p) /\ UNCHANGED pipe
    <3>1. UNCHANGED fd
      BY <2>4 DEF pipe, ends
    <3> QED
      BY <2>4, <3>1, ForkKeeps
  <2>5. CASE Exited(p)
    BY <2>5, ExitedKeeps
  <2>6. CASE \E q \in Proc : Killed(p, q)
    BY <2>6, KilledKeeps
  <2>7. CASE Waits(p)
    BY <2>7, WaitsKeeps
  <2> QED
    BY <1>1, <2>1, <2>2, <2>3, <2>4, <2>5, <2>6, <2>7 DEF Call
<1>2. ASSUME NEW p \in Proc, Kernel(p) PROVE TableInv'
  <2>1. CASE PipeRead(p, arg[p]) \/ PipeWrite(p, arg[p])
    BY <2>1, ReadWriteKeeps
  <2>2. CASE ReadReturns(p) \/ WriteReturns(p) \/ WakeReaders(p) \/ PipeCloseReturns(p)
    BY <2>2, WakeupKeeps
  <2>3. CASE Sleep(p)
    BY <2>3, SleepKeeps
  <2>4. CASE FallAsleep(p)
    BY <2>4, FallAsleepKeeps
  <2>5. CASE PipeClose(p)
    BY <2>5, PipeCloseKeeps
  <2>6. CASE Forked(p)
    BY <2>6, ForkedKeeps
  <2>7. CASE ForkFails(p) /\ UNCHANGED pipe
    <3>1. UNCHANGED fd
      BY <2>7 DEF pipe, ends
    <3> QED
      BY <2>7, <3>1, ForkFailsKeeps
  <2>8. CASE Waits(p)
    BY <2>8, WaitsKeeps
  <2> QED
    BY <1>2, <2>1, <2>2, <2>3, <2>4, <2>5, <2>6, <2>7, <2>8 DEF Kernel
<1>3. ASSUME NEW p \in Proc, Timer(p) PROVE TableInv'
  <2>1. Yield(p) /\ UNCHANGED fd
    BY <1>3 DEF Timer, pipe, ends
  <2> QED
    BY <2>1, YieldKeeps
<1>4. ASSUME NEW c \in Cpu, Scheduler(c) PROVE TableInv'
  BY <1>4, SchedulerKeeps
<1>5. CASE UNCHANGED vars
  <2>1. UNCHANGED <<state, chan, parent, killed, arg, pc, run, ptlock, fd>>
    BY <1>5 DEF vars, ptable, pipe, ends
  <2>2. Typed' /\ OneCpu' /\ OnCpu' /\ Leaves'
    BY <2>1 DEF TableInv, Typed, OneCpu, OnCpu, Leaves
  <2>3. Embryos' /\ ForksApart' /\ Idle' /\ Sleeps'
    BY <2>1 DEF TableInv, Embryos, ForksApart, Idle, Sleeps
  <2>4. Falls'
    BY <2>1 DEF TableInv, Falls, Falling, Running, CpuOf
  <2> QED
    BY <2>2, <2>3, <2>4 DEF TableInv
<1> QED
  BY <1>1, <1>2, <1>3, <1>4, <1>5 DEF Next

\* A process on a CPU is that CPU's alone and RUNNING, or on its way out under
\* ptable.lock; an embryo belongs to one fork; a slot without a process has no
\* files and no parent; and a process sleeps on what its system call waits for
\* (allocproc, fork, exit, wait and sleep, proc.c:74-116, 181-312, 418-452).
THEOREM TableIsSound == Spec => []TableInv
BY InitTable, NextTable, PTL DEF Spec

\* No two CPUs are on one process's kernel stack, and none is on the stack of
\* a process that another may run or free: scheduler, sched and exit keep
\* ptable.lock across swtch (proc.c:323-356, 366-382, 228-268).
THEOREM StacksAreApart == Spec => []StacksApart
<1>1. TableInv => StacksApart
  BY DEF TableInv, OneCpu, OnCpu, Leaves, StacksApart
<1> QED
  BY <1>1, TableIsSound, PTL

-----------------------------------------------------------------------------
(* The steps that are not about the pipe *)

Numbers == \A p \in Proc : arg[p] \in Nat

Aside ==
    /\ UNCHANGED pipe
    /\ \A q \in Proc : pc'[q] = pc[q] \/ {pc[q], pc'[q]} \subseteq {"user", "fork", "wait"}
    /\ Numbers'
    /\ \A q \in Proc : arg'[q] = arg[q] \/ pc'[q] \in {"user", "fork"}
    /\ \A q \in Proc : \A ch \in {NREAD, NWRITE} : Asleep1(q, ch)' => Asleep1(q, ch)
    /\ \A q \in Proc : q \in killed' => q \in killed \/ KillWriters \/ "w" \notin fd[q]

\* How much a call asks for: something, or what is left of it.
Due(p, n) == n # 0 \/ (pc[p] # "user" /\ n = arg[p])

PipeStep(p) ==
    \/ PipeAlloc(p)
    \/ \E n \in Nat : Due(p, n) /\ (PipeRead(p, n) \/ PipeWrite(p, n))
    \/ ReadReturns(p) \/ WriteReturns(p) \/ WakeReaders(p)
    \/ Sleep(p) \/ FallAsleep(p)
    \/ \E e \in fd[p] : Close(p, e)
    \/ PipeClose(p) \/ PipeCloseReturns(p)
    \/ Forked(p)

LEMMA ForkAside ==
    ASSUME TableInv, Numbers, NEW p \in Proc, Fork(p) \/ ForkFails(p), UNCHANGED pipe PROVE Aside
<1>0. Typed
  BY DEF TableInv
<1>1. /\ pc[p] \in {"user", "fork"} /\ UNCHANGED <<chan, killed>>
      /\ \E v \in {"user", "fork"} : pc' = [pc EXCEPT ![p] = v]
      /\ \E n : \E v \in {"EMBRYO", "LEFT"} : state' = [state EXCEPT ![n] = v]
  BY DEF Fork, ForkFails, InUser
<1>2. \E n \in Nat : arg' = [arg EXCEPT ![p] = n]
  <2>1. CASE Fork(p)
    <3>1. Free # {} /\ Free \in SUBSET Proc /\ arg' = [arg EXCEPT ![p] = Min(Free)]
      BY <2>1 DEF Fork, Free
    <3> QED
      BY <3>1, MinIn, Channels
  <2>2. CASE ForkFails(p)
    BY <2>2 DEF ForkFails
  <2> QED
    BY <2>1, <2>2
<1>3. Numbers'
  BY <1>0, <1>2 DEF Numbers, Typed
<1>4. \A q \in Proc : pc'[q] = pc[q] \/ {pc[q], pc'[q]} \subseteq {"user", "fork", "wait"}
  BY <1>0, <1>1 DEF Typed
<1>5. \A q \in Proc : \A ch \in {NREAD, NWRITE} : Asleep1(q, ch)' => Asleep1(q, ch)
  BY <1>0, <1>1 DEF Typed, Asleep1
<1>6. \A q \in Proc : arg'[q] = arg[q] \/ pc'[q] \in {"user", "fork"}
  BY <1>0, <1>1, <1>2 DEF Typed
<1> QED
  BY <1>1, <1>3, <1>4, <1>5, <1>6 DEF Aside

LEMMA ExitedAside == ASSUME TableInv, Numbers, NEW p \in Proc, Exited(p) PROVE Aside
<1>0. Typed
  BY DEF TableInv
<1>1. UNCHANGED <<pc, chan, killed, arg>> /\ UNCHANGED pipe
  BY DEF Exited, Exit
<1>2. PICK woken : state' = [WokenBy(woken) EXCEPT ![p] = "ZOMBIE"]
  BY DEF Exited, Exit
<1>3. \A q \in Proc : state'[q] = "SLEEPING" => state[q] = "SLEEPING"
  BY <1>0, <1>2, WokenByTypes
<1>4. Numbers' /\ \A q \in Proc : pc'[q] = pc[q]
  BY <1>1 DEF Numbers
<1>5. \A q \in Proc : \A ch \in {NREAD, NWRITE} : Asleep1(q, ch)' => Asleep1(q, ch)
  BY <1>1, <1>3 DEF Asleep1
<1> QED
  BY <1>1, <1>4, <1>5 DEF Aside

LEMMA WaitsAside == ASSUME TableInv, Numbers, NEW p \in Proc, Waits(p) PROVE Aside
<1>0. Typed
  BY DEF TableInv
<1>1. UNCHANGED arg /\ UNCHANGED pipe /\ pc[p] \in {"user", "wait"} /\ state[p] = "RUNNING"
  BY DEF Waits, Wait, Running
<1>2. \E v \in {"user", "wait"} : pc' = [pc EXCEPT ![p] = v]
  BY DEF Waits, Wait
<1>3. killed' \subseteq killed
  BY DEF Waits, Wait
<1>4. \/ UNCHANGED chan /\ \E z : state' = [state EXCEPT ![z] = "UNUSED"]
      \/ UNCHANGED <<chan, state>>
      \/ state' = [state EXCEPT ![p] = "SLEEPING"] /\ chan' = [chan EXCEPT ![p] = p]
  BY DEF Waits, Wait
<1>5. Numbers'
  BY <1>1 DEF Numbers
<1>6. \A q \in Proc : pc'[q] = pc[q] \/ {pc[q], pc'[q]} \subseteq {"user", "fork", "wait"}
  BY <1>0, <1>1, <1>2 DEF Typed
<1>7. \A q \in Proc : \A ch \in {NREAD, NWRITE} : Asleep1(q, ch)' => Asleep1(q, ch)
  BY <1>0, <1>4, Channels DEF Typed, Asleep1
<1> QED
  BY <1>1, <1>3, <1>5, <1>6, <1>7 DEF Aside

LEMMA KilledAside ==
    ASSUME TableInv, Numbers, NEW p \in Proc, NEW q \in Proc, Killed(p, q) PROVE Aside
<1>0. Typed
  BY DEF TableInv
<1>1. UNCHANGED <<arg, pc, chan>> /\ UNCHANGED pipe
  BY DEF Killed, Kill
<1>2. killed' = killed \cup {q} /\ (KillWriters \/ "w" \notin fd[q])
  BY DEF Killed, Kill
<1>3. state' = [state EXCEPT ![q] = IF @ = "SLEEPING" THEN "RUNNABLE" ELSE @]
  BY DEF Killed, Kill
<1>4. Numbers' /\ \A r \in Proc : pc'[r] = pc[r]
  BY <1>1 DEF Numbers
<1>5. \A r \in Proc : \A ch \in {NREAD, NWRITE} : Asleep1(r, ch)' => Asleep1(r, ch)
  BY <1>0, <1>1, <1>3 DEF Asleep1, Typed
<1> QED
  BY <1>1, <1>2, <1>4, <1>5 DEF Aside

LEMMA SchedulerAside ==
    ASSUME TableInv, Numbers,
           (\E c \in Cpu : Scheduler(c)) \/ (\E p \in Proc : Timer(p)) \/ UNCHANGED vars
    PROVE  Aside
<1>0. Typed
  BY DEF TableInv
<1>1. UNCHANGED <<arg, pc, killed>> /\ UNCHANGED pipe
  BY DEF Scheduler, Pass, Sched, Timer, Yield, vars, ptable
<1>2. \A q \in Proc : \A ch \in {NREAD, NWRITE} : Asleep1(q, ch)' => Asleep1(q, ch)
  <2>1. CASE \E c \in Cpu : Scheduler(c)
    <3>1. \/ UNCHANGED <<state, chan>>
          \/ \E r : state' = [state EXCEPT ![r] = "RUNNING"] /\ chan' = [chan EXCEPT ![r] = None]
      BY <2>1 DEF Scheduler, Pass, Sched, Continue
    <3> QED
      BY <1>0, <3>1, Channels DEF Typed, Asleep1
  <2>2. CASE \E p \in Proc : Timer(p)
    <3>1. UNCHANGED chan /\ \E r : state' = [state EXCEPT ![r] = "RUNNABLE"]
      BY <2>2 DEF Timer, Yield
    <3> QED
      BY <1>0, <3>1 DEF Typed, Asleep1
  <2>3. CASE UNCHANGED vars
    BY <2>3 DEF vars, ptable, Asleep1
  <2> QED
    BY <2>1, <2>2, <2>3
<1>3. Numbers' /\ \A q \in Proc : pc'[q] = pc[q]
  BY <1>1 DEF Numbers
<1> QED
  BY <1>1, <1>2, <1>3 DEF Aside

\* Every step is one of the pipe's or leaves it alone.
LEMMA Steps ==
    ASSUME TableInv, Numbers, [Next]_vars PROVE Aside \/ \E p \in Proc : PipeStep(p)
<1>1. ASSUME NEW p \in Proc, Call(p) PROVE Aside \/ PipeStep(p)
  <2>1. \A n \in Sizes : n \in Nat /\ n # 0
    BY PipeAssumption
  <2>2. CASE PipeAlloc(p) \/ \E e \in fd[p] : Close(p, e)
    BY <2>2 DEF PipeStep
  <2>3. CASE \E n \in Sizes : InUser(p) /\ (PipeRead(p, n) \/ PipeWrite(p, n))
    BY <2>1, <2>3 DEF PipeStep, Due
  <2>4. CASE Fork(p) /\ UNCHANGED pipe
    BY <2>4, ForkAside
  <2>5. CASE Exited(p) \/ Waits(p) \/ \E q \in Proc : Killed(p, q)
    BY <2>5, ExitedAside, WaitsAside, KilledAside
  <2> QED
    BY <1>1, <2>2, <2>3, <2>4, <2>5 DEF Call
<1>2. ASSUME NEW p \in Proc, Kernel(p) PROVE Aside \/ PipeStep(p)
  <2>1. CASE pc[p] # "user" /\ (PipeRead(p, arg[p]) \/ PipeWrite(p, arg[p]))
    BY <2>1 DEF PipeStep, Numbers, Due
  <2>2. CASE \/ ReadReturns(p) \/ WriteReturns(p) \/ WakeReaders(p) \/ Sleep(p)
             \/ FallAsleep(p) \/ PipeClose(p) \/ PipeCloseReturns(p) \/ Forked(p)
    BY <2>2 DEF PipeStep
  <2>3. CASE ForkFails(p) /\ UNCHANGED pipe
    BY <2>3, ForkAside
  <2>4. CASE Waits(p)
    BY <2>4, WaitsAside
  <2> QED
    BY <1>2, <2>1, <2>2, <2>3, <2>4 DEF Kernel
<1>3. CASE \/ (\E c \in Cpu : Scheduler(c)) \/ (\E p \in Proc : Timer(p)) \/ UNCHANGED vars
  BY <1>3, SchedulerAside
<1> QED
  BY <1>1, <1>2, <1>3 DEF Next

-----------------------------------------------------------------------------
(* The counters, which wrap at Wrap *)

LEMMA Bounds == /\ PIPESIZE \in Nat \ {0} /\ Wrap \in Nat \ {0} /\ PIPESIZE < Wrap
                /\ 0 \in 0..Wrap - 1
BY PipeAssumption

LEMMA ModIn == ASSUME NEW W \in Nat \ {0}, NEW a \in Int PROVE a % W \in 0..W - 1
BY SMTT(30)

LEMMA ModIs ==
    ASSUME NEW W \in Nat \ {0}, NEW a \in Int
    PROVE  /\ a \in 0..W - 1 => a % W = a
           /\ a \in W..2 * W - 1 => a % W = a - W
           /\ a \in -W..-1 => a % W = a + W
BY SMTT(30)

\* The bytes between two counters.
LEMMA Between ==
    ASSUME NEW r \in 0..Wrap - 1, NEW w \in 0..Wrap - 1
    PROVE  (w - r) % Wrap = IF r =< w THEN w - r ELSE w - r + Wrap
<1>1. CASE r =< w
  BY <1>1, Bounds, ModIs
<1>2. CASE ~(r =< w)
  <2>1. w - r \in Int /\ w - r \in -Wrap..-1
    BY <1>2, Bounds
  <2> QED
    BY <1>2, <2>1, Bounds, ModIs
<1> QED
  BY <1>1, <1>2

LEMMA Advance ==
    ASSUME NEW r \in 0..Wrap - 1, NEW m \in 0..Wrap - 1
    PROVE  /\ (r + m) % Wrap \in 0..Wrap - 1
           /\ (r + m) % Wrap = IF r + m < Wrap THEN r + m ELSE (r + m) - Wrap
<1>1. (r + m) % Wrap \in 0..Wrap - 1
  BY Bounds, ModIn
<1>2. r + m \in Int
  BY Bounds
<1>3. CASE r + m < Wrap
  <2>1. r + m \in 0..Wrap - 1
    BY <1>3, Bounds
  <2>2. (r + m) % Wrap = r + m
    BY <1>2, <2>1, Bounds, ModIs, Zenon
  <2> QED
    BY <1>1, <1>3, <2>2, Zenon
<1>4. CASE ~(r + m < Wrap)
  <2>1. r + m \in Wrap..2 * Wrap - 1
    BY <1>4, Bounds
  <2>2. (r + m) % Wrap = (r + m) - Wrap
    BY <1>2, <2>1, Bounds, ModIs, Zenon
  <2> QED
    BY <1>1, <1>4, <2>2, Zenon
<1> QED
  BY <1>3, <1>4

\* A read takes m bytes away, a write puts m more in.
LEMMA ReadMoves ==
    ASSUME NEW r \in 0..Wrap - 1, NEW w \in 0..Wrap - 1, NEW m \in 0..((w - r) % Wrap)
    PROVE  (w - ((r + m) % Wrap)) % Wrap = ((w - r) % Wrap) - m
<1>1. (w - r) % Wrap = IF r =< w THEN w - r ELSE w - r + Wrap
  BY Between
<1>2. m \in 0..Wrap - 1
  BY <1>1, Bounds
<1> DEFINE x == (r + m) % Wrap
<1>3. x \in 0..Wrap - 1 /\ x = IF r + m < Wrap THEN r + m ELSE (r + m) - Wrap
  BY <1>2, Advance
<1> HIDE DEF x
<1>4. (w - x) % Wrap = IF x =< w THEN w - x ELSE w - x + Wrap
  BY <1>3, Between
<1>5. (w - x) % Wrap = ((w - r) % Wrap) - m
  BY <1>1, <1>2, <1>3, <1>4, Bounds
<1> QED
  BY <1>5, Zenon DEF x

LEMMA WriteMoves ==
    ASSUME NEW r \in 0..Wrap - 1, NEW w \in 0..Wrap - 1, NEW m \in Nat,
           ((w - r) % Wrap) + m < Wrap
    PROVE  (((w + m) % Wrap) - r) % Wrap = ((w - r) % Wrap) + m
<1>1. (w - r) % Wrap = IF r =< w THEN w - r ELSE w - r + Wrap
  BY Between
<1>2. m \in 0..Wrap - 1
  BY <1>1, Bounds
<1> DEFINE x == (w + m) % Wrap
<1>3. x \in 0..Wrap - 1 /\ x = IF w + m < Wrap THEN w + m ELSE (w + m) - Wrap
  BY <1>2, Advance
<1> HIDE DEF x
<1>4. (x - r) % Wrap = IF r =< x THEN x - r ELSE x - r + Wrap
  BY <1>3, Between
<1>5. (x - r) % Wrap = ((w - r) % Wrap) + m
  BY <1>1, <1>2, <1>3, <1>4, Bounds
<1> QED
  BY <1>5, Zenon DEF x

\* The division by P.
LEMMA Quotient ==
    ASSUME NEW P \in Nat \ {0}, NEW x \in Int
    PROVE  \E q \in Int : x = P * q + (x % P)
<1>1. x = P * (x \div P) + (x % P) /\ x \div P \in Int
  BY SMTT(30)
<1> QED
  BY <1>1

LEMMA Remainder ==
    ASSUME NEW P \in Nat \ {0}, NEW q \in Int, NEW r \in 0..P - 1
    PROVE  (P * q + r) % P = r
<1> DEFINE x == P * q + r
<1>1. PICK d \in Int : x = P * d + (x % P)
  <2>1. x \in Int
    OBVIOUS
  <2> HIDE DEF x
  <2> QED
    BY <2>1, Quotient
<1>2. x % P \in 0..P - 1
  <2>1. x \in Int
    OBVIOUS
  <2> HIDE DEF x
  <2> QED
    BY <2>1, ModIn
<1> DEFINE s == x % P
<1>3. P * q + r = P * d + s /\ s \in 0..P - 1
  BY <1>1, <1>2
<1> HIDE DEF s
<1>4. P * (q - d) = s - r
  BY <1>3
<1>5. q = d
  <2>1. CASE q - d >= 1
    <3>1. P * (q - d) >= P
      BY <2>1
    <3> QED
      BY <1>3, <1>4, <3>1
  <2>2. CASE q - d =< -1
    <3>1. P * (q - d) =< -P
      BY <2>2
    <3> QED
      BY <1>3, <1>4, <3>1
  <2> QED
    BY <2>1, <2>2
<1>6. s = r
  BY <1>3, <1>5
<1> QED
  BY <1>6 DEF s
\* A counter's slot does not change when the counter wraps, and counters that
\* are less than a buffer apart have different slots.
LEMMA Slots ==
    ASSUME NEW x \in Int
    PROVE  /\ (x - Wrap) % PIPESIZE = x % PIPESIZE
           /\ \A y \in Int : 0 < y - x /\ y - x < PIPESIZE => x % PIPESIZE # y % PIPESIZE
<1>1. PICK q \in Int : x = PIPESIZE * q + (x % PIPESIZE)
  BY Quotient, Bounds
<1>2. PICK w \in Int : Wrap = PIPESIZE * w
  <2>1. Wrap \in Int /\ PIPESIZE \in Nat \ {0} /\ Wrap % PIPESIZE = 0
    BY Bounds, PipeAssumption
  <2>2. PICK w \in Int : Wrap = PIPESIZE * w + (Wrap % PIPESIZE)
    BY <2>1, Quotient
  <2>3. Wrap = PIPESIZE * w
    BY <2>1, <2>2
  <2> QED
    BY <2>3
<1> DEFINE r == x % PIPESIZE
<1>3. r \in 0..PIPESIZE - 1
  BY ModIn, Bounds
<1>4. x = PIPESIZE * q + r
  BY <1>1
<1> HIDE DEF r
<1>5. (x - Wrap) % PIPESIZE = x % PIPESIZE
  <2>1. x - Wrap = PIPESIZE * (q - w) + r
    BY <1>2, <1>3, <1>4, Bounds
  <2>2. (PIPESIZE * (q - w) + r) % PIPESIZE = r
    BY <1>3, Bounds, Remainder
  <2> QED
    BY <2>1, <2>2 DEF r
<1>6. ASSUME NEW y \in Int, 0 < y - x, y - x < PIPESIZE PROVE x % PIPESIZE # y % PIPESIZE
  <2>1. PICK k \in Int : y = PIPESIZE * k + (y % PIPESIZE)
    BY Quotient, Bounds
  <2> SUFFICES ASSUME y % PIPESIZE = r PROVE FALSE
    BY DEF r
  <2>2. y - x = PIPESIZE * (k - q)
    BY <1>3, <1>4, <2>1, Bounds
  <2>3. CASE k - q >= 1
    <3>1. PIPESIZE * (k - q) >= PIPESIZE
      BY <2>3, Bounds
    <3> QED
      BY <1>6, <2>2, <3>1, Bounds
  <2>4. CASE k - q =< 0
    <3>1. PIPESIZE * (k - q) =< 0
      BY <2>4, Bounds
    <3> QED
      BY <1>6, <2>2, <3>1, Bounds
  <2> QED
    BY <2>3, <2>4
<1> QED
  BY <1>5, <1>6

LEMMA SlotMoves ==
    ASSUME NEW a \in 0..Wrap - 1, NEW b \in 0..Wrap - 1, NEW k \in Int
    PROVE  (((a + b) % Wrap) + k) % PIPESIZE = ((a + b) + k) % PIPESIZE
<1> DEFINE x == (a + b) % Wrap
<1>1. x = IF a + b < Wrap THEN a + b ELSE (a + b) - Wrap
  BY Advance
<1> HIDE DEF x
<1>2. (a + b) + k \in Int /\ ((a + b) + k) - Wrap = ((a + b) - Wrap) + k
  BY Bounds
<1>3. (((a + b) - Wrap) + k) % PIPESIZE = ((a + b) + k) % PIPESIZE
  BY <1>2, Slots
<1>4. (x + k) % PIPESIZE = ((a + b) + k) % PIPESIZE
  BY <1>1, <1>3
<1> QED
  BY <1>4 DEF x

-----------------------------------------------------------------------------
(* The buffer *)

BufferInv ==
    /\ Numbers
    /\ lock \in Proc \cup {None}
    /\ data \in [0..PIPESIZE - 1 -> 0..Wrap - 1]
    /\ nread \in 0..Wrap - 1 /\ nwrite \in 0..Wrap - 1
    /\ Length =< PIPESIZE
    /\ got = [p \in Proc |-> got[p]]
    /\ \A p \in Proc : got[p] # None => got[p] \in Seq(0..Wrap - 1)

LEMMA LengthIs ==
    ASSUME BufferInv
    PROVE  /\ Length \in 0..PIPESIZE
           /\ Space \in 0..PIPESIZE /\ Space = PIPESIZE - Length
           /\ Empty <=> Length = 0
<1>1. Length = IF nread =< nwrite THEN nwrite - nread ELSE nwrite - nread + Wrap
  BY Between DEF BufferInv, Length
<1> QED
  BY <1>1, Bounds DEF BufferInv, Space, Empty, Length

\* What piperead and pipewrite do to the counters.
LEMMA ReadCounts ==
    ASSUME BufferInv, NEW p \in Proc, NEW n \in Nat, PipeRead(p, n)
    PROVE  /\ UNCHANGED <<data, nwrite>> /\ nread' \in 0..Wrap - 1
           /\ Length' \in 0..Length
           /\ pc' # [pc EXCEPT ![p] = "has read"] => UNCHANGED nread
<1>1. UNCHANGED <<data, nwrite>>
  BY DEF PipeRead
<1>2. CASE UNCHANGED nread
  <2>1. Length' = Length
    BY <1>1, <1>2 DEF Length
  <2> QED
    BY <1>1, <1>2, <2>1, LengthIs DEF BufferInv
<1>3. CASE ~UNCHANGED nread
  <2> DEFINE m == IF n < Length THEN n ELSE Length
  <2>1. nread' = (nread + m) % Wrap /\ pc' = [pc EXCEPT ![p] = "has read"]
    BY <1>3 DEF PipeRead
  <2> HIDE DEF m
  <2>0. Length \in 0..PIPESIZE
    BY LengthIs
  <2>2. m \in 0..Length /\ m \in 0..Wrap - 1
    BY <2>0, Bounds DEF m
  <2>3. Length' = Length - m
    <3>1. Length' = (nwrite - ((nread + m) % Wrap)) % Wrap
      BY <1>1, <2>1, Zenon DEF Length
    <3>2. m \in 0..((nwrite - nread) % Wrap)
      BY <2>2, Zenon DEF Length
    <3>3. (nwrite - ((nread + m) % Wrap)) % Wrap = ((nwrite - nread) % Wrap) - m
      BY <3>2, ReadMoves, Zenon DEF BufferInv
    <3> QED
      BY <3>1, <3>3, Zenon DEF Length
  <2>4. nread' \in 0..Wrap - 1
    BY <2>1, <2>2, Advance DEF BufferInv
  <2> QED
    <3>1. Length' \in 0..Length
      BY <2>0, <2>2, <2>3
    <3> QED
      BY <1>1, <2>1, <2>4, <3>1, Zenon
<1> QED
  BY <1>2, <1>3

LEMMA WriteCounts ==
    ASSUME BufferInv, NEW p \in Proc, NEW n \in Nat, PipeWrite(p, n)
    PROVE  /\ UNCHANGED nread /\ nwrite' \in 0..Wrap - 1
           /\ Length' = IF n < Space THEN Length + n ELSE PIPESIZE
<1> DEFINE m == IF n < Space THEN n ELSE Space
<1>1. UNCHANGED nread /\ nwrite' = (nwrite + m) % Wrap
  BY DEF PipeWrite
<1>2. m \in 0..Wrap - 1 /\ m \in Nat /\ Length + m < Wrap
  BY LengthIs, Bounds
<1>5. Length + m = IF n < Space THEN Length + n ELSE PIPESIZE
  BY LengthIs, Bounds
<1> HIDE DEF m
<1>3. Length' = Length + m
  <2>1. Length' = (((nwrite + m) % Wrap) - nread) % Wrap
    BY <1>1, Zenon DEF Length
  <2>2. ((nwrite - nread) % Wrap) + m < Wrap
    BY <1>2, Zenon DEF Length
  <2>3. (((nwrite + m) % Wrap) - nread) % Wrap = ((nwrite - nread) % Wrap) + m
    BY <1>2, <2>2, WriteMoves, Zenon DEF BufferInv
  <2> QED
    BY <2>1, <2>3, Zenon DEF Length
<1>4. nwrite' \in 0..Wrap - 1
  BY <1>1, <1>2, Advance DEF BufferInv
<1> QED
  BY <1>1, <1>5, <1>3, <1>4

LEMMA WriteData ==
    ASSUME BufferInv, NEW p \in Proc, NEW n \in Nat, PipeWrite(p, n)
    PROVE  data' \in [0..PIPESIZE - 1 -> 0..Wrap - 1]
<1> DEFINE m == IF n < Space THEN n ELSE Space
<1>1. data' = [j \in DOMAIN data |->
                IF \E k \in 0..m - 1 : (nwrite + k) % PIPESIZE = j
                  THEN Byte(CHOOSE k \in 0..m - 1 : (nwrite + k) % PIPESIZE = j)
                  ELSE data[j]]
  BY DEF PipeWrite
<1>2. m \in Nat
  BY LengthIs, Bounds
<1> HIDE DEF m
<1>3. \A k \in Int : Byte(k) \in 0..Wrap - 1
  BY Bounds, ModIn DEF BufferInv, Byte
<1>4. \A j \in DOMAIN data : (\E k \in 0..m - 1 : (nwrite + k) % PIPESIZE = j) =>
            (CHOOSE k \in 0..m - 1 : (nwrite + k) % PIPESIZE = j) \in 0..m - 1
  OBVIOUS
<1>5. \A j \in DOMAIN data : data'[j] \in 0..Wrap - 1
  <2> TAKE j \in DOMAIN data
  <2>1. CASE \E k \in 0..m - 1 : (nwrite + k) % PIPESIZE = j
    <3> DEFINE i == CHOOSE k \in 0..m - 1 : (nwrite + k) % PIPESIZE = j
    <3>1. data'[j] = Byte(i)
      BY <1>1, <2>1
    <3>2. i \in 0..m - 1
      BY <1>4, <2>1
    <3> HIDE DEF i
    <3> QED
      BY <1>2, <1>3, <3>1, <3>2
  <2>2. CASE ~\E k \in 0..m - 1 : (nwrite + k) % PIPESIZE = j
    <3>1. data'[j] = data[j]
      BY <1>1, <2>2
    <3> QED
      BY <3>1 DEF BufferInv
  <2> QED
    BY <2>1, <2>2
<1>6. data' = [j \in 0..PIPESIZE - 1 |-> data'[j]] /\ DOMAIN data = 0..PIPESIZE - 1
  BY <1>1 DEF BufferInv
<1> QED
  BY <1>5, <1>6

\* BufferInv is kept when the bytes are, and nothing else of it goes wrong.
LEMMA SameBytes ==
    ASSUME BufferInv, UNCHANGED bytes, Numbers', lock' \in Proc \cup {None},
           \/ UNCHANGED got
           \/ \E p \in Proc : got' = [got EXCEPT ![p] = None]
    PROVE  BufferInv'
<1>1. Length' = Length /\ UNCHANGED <<data, nread, nwrite>>
  BY DEF bytes, Length
<1>2. got' = [p \in Proc |-> got'[p]]
  BY DEF BufferInv
<1>3. \A p \in Proc : got'[p] # None => got'[p] \in Seq(0..Wrap - 1)
  BY DEF BufferInv
<1> QED
  BY <1>1, <1>2, <1>3 DEF BufferInv

LEMMA BufferRead ==
    ASSUME TableInv, BufferInv, NEW p \in Proc, NEW n \in Nat, PipeRead(p, n) PROVE BufferInv'
<1>1. Numbers'
  <2>1. \E a \in Nat : arg' = [arg EXCEPT ![p] = a]
    BY DEF PipeRead
  <2> QED
    BY <2>1 DEF BufferInv, Numbers, TableInv, Typed
<1>2. lock' \in Proc \cup {None}
  BY DEF PipeRead, BufferInv
<1>3. /\ data' = data /\ nwrite' = nwrite /\ nread' \in 0..Wrap - 1
      /\ Length' =< PIPESIZE
  <2>1. /\ data' = data /\ nwrite' = nwrite /\ nread' \in 0..Wrap - 1
        /\ Length' \in 0..Length
    BY ReadCounts
  <2>2. Length \in 0..PIPESIZE
    BY LengthIs
  <2>3. Length' =< PIPESIZE
    BY <2>1, <2>2, Bounds
  <2> QED
    BY <2>1, <2>3
<1>4. /\ got' = [q \in Proc |-> got'[q]]
      /\ \A q \in Proc : got'[q] # None => got'[q] \in Seq(0..Wrap - 1)
  <2>1. CASE UNCHANGED got
    BY <2>1 DEF BufferInv
  <2>2. CASE ~UNCHANGED got
    <3> DEFINE m == IF n < Length THEN n ELSE Length
               s == [k \in 1..m |-> At(nread + k - 1)]
    <3>1. got' = [got EXCEPT ![p] = s]
      BY <2>2 DEF PipeRead
    <3>2. m \in Nat
      BY LengthIs, Bounds
    <3> HIDE DEF m
    <3>3. \A k \in 1..m : At(nread + k - 1) \in 0..Wrap - 1
      <4> TAKE k \in 1..m
      <4>1. nread + k - 1 \in Int
        BY <3>2 DEF BufferInv
      <4>2. (nread + k - 1) % PIPESIZE \in 0..PIPESIZE - 1
        BY <4>1, ModIn, Bounds
      <4> QED
        BY <4>2 DEF At, BufferInv
    <3>4. s \in [1..m -> 0..Wrap - 1]
      BY <3>3
    <3>5. s \in Seq(0..Wrap - 1)
      BY <3>2, <3>4
    <3> HIDE DEF s
    <3> QED
      BY <3>1, <3>5 DEF BufferInv
  <2> QED
    BY <2>1, <2>2
<1> QED
  BY <1>1, <1>2, <1>3, <1>4 DEF BufferInv

LEMMA BufferWrite ==
    ASSUME TableInv, BufferInv, NEW p \in Proc, NEW n \in Nat, PipeWrite(p, n) PROVE BufferInv'
<1>1. Numbers'
  <2>1. Space \in Nat
    BY LengthIs, Bounds
  <2>2. \/ arg' = [arg EXCEPT ![p] = 0]
        \/ /\ (IF n < Space THEN n ELSE Space) < n
           /\ arg' = [arg EXCEPT ![p] = n - (IF n < Space THEN n ELSE Space)]
    BY DEF PipeWrite
  <2>3. \E a \in Nat : arg' = [arg EXCEPT ![p] = a]
    BY <2>1, <2>2
  <2> QED
    BY <2>3 DEF BufferInv, Numbers, TableInv, Typed
<1>2. lock' \in Proc \cup {None} /\ UNCHANGED got
  BY DEF PipeWrite, BufferInv
<1>3. nread' = nread /\ nwrite' \in 0..Wrap - 1
  BY WriteCounts
<1>4. Length' =< PIPESIZE
  <2>1. Length' = IF n < Space THEN Length + n ELSE PIPESIZE
    BY WriteCounts
  <2>2. Length \in 0..PIPESIZE /\ Space = PIPESIZE - Length
    BY LengthIs
  <2> QED
    BY <2>1, <2>2, Bounds
<1>5. data' \in [0..PIPESIZE - 1 -> 0..Wrap - 1]
  BY WriteData
<1> QED
  BY <1>1, <1>2, <1>3, <1>4, <1>5 DEF BufferInv

LEMMA ResetBytes == ASSUME nread' = 0, nwrite' = 0 PROVE Length' = 0 /\ 0 =< PIPESIZE
<1>1. (0 - 0) % Wrap = 0
  BY Bounds, Between
<1>2. Length' = (0 - 0) % Wrap
  BY DEF Length
<1> QED
  BY <1>1, <1>2, Bounds

LEMMA BufferKeeps ==
    ASSUME TableInv, BufferInv, NEW p \in Proc, PipeStep(p) PROVE BufferInv'
<1>1. CASE PipeAlloc(p)
  <2>1. /\ nread' = 0 /\ nwrite' = 0 /\ UNCHANGED <<data, lock, got, arg>>
    BY <1>1 DEF PipeAlloc, ptable
  <2>2. Length' = 0 /\ 0 =< PIPESIZE
    BY <2>1, ResetBytes
  <2>3. Numbers'
    BY <2>1 DEF BufferInv, Numbers
  <2> QED
    BY <2>1, <2>2, <2>3, Bounds DEF BufferInv
<1>2. CASE \E n \in Nat : PipeRead(p, n) \/ PipeWrite(p, n)
  BY <1>2, BufferRead, BufferWrite
<1>3. CASE ReadReturns(p) \/ WriteReturns(p) \/ WakeReaders(p)
  <2>1. UNCHANGED bytes /\ UNCHANGED arg /\ (lock' = lock \/ lock' = None)
    BY <1>3 DEF ReadReturns, WriteReturns, WakeReaders, pipe
  <2>2. UNCHANGED got \/ got' = [got EXCEPT ![p] = None]
    BY <1>3 DEF ReadReturns, WriteReturns, WakeReaders, pipe
  <2>3. Numbers' /\ lock' \in Proc \cup {None}
    BY <2>1 DEF BufferInv, Numbers
  <2> QED
    BY <2>1, <2>2, <2>3, SameBytes
<1>4. CASE Sleep(p) \/ FallAsleep(p)
  <2>1. UNCHANGED bytes /\ UNCHANGED <<arg, got>> /\ (lock' = lock \/ lock' = None)
    BY <1>4 DEF Sleep, FallAsleep, SleepLocks, SleepState, pipe
  <2>2. Numbers' /\ lock' \in Proc \cup {None}
    BY <2>1 DEF BufferInv, Numbers
  <2> QED
    BY <2>1, <2>2, SameBytes
<1>5. CASE \E e \in fd[p] : Close(p, e)
  <2>1. UNCHANGED bytes /\ UNCHANGED <<arg, got, lock>>
    BY <1>5 DEF Close
  <2>2. Numbers' /\ lock' \in Proc \cup {None}
    BY <2>1 DEF BufferInv, Numbers
  <2> QED
    BY <2>1, <2>2, SameBytes
<1>6. CASE PipeClose(p)
  <2>1. UNCHANGED bytes /\ UNCHANGED <<arg, got>> /\ lock' = p
    BY <1>6 DEF PipeClose
  <2>2. Numbers' /\ lock' \in Proc \cup {None}
    BY <2>1 DEF BufferInv, Numbers
  <2> QED
    BY <2>1, <2>2, SameBytes
<1>7. CASE PipeCloseReturns(p)
  <2>1. UNCHANGED <<arg, got>> /\ lock' = None
    BY <1>7 DEF PipeCloseReturns
  <2>2. UNCHANGED bytes \/ (nread' = 0 /\ nwrite' = 0 /\ UNCHANGED data)
    BY <1>7 DEF PipeCloseReturns
  <2>3. Numbers' /\ lock' \in Proc \cup {None}
    BY <2>1 DEF BufferInv, Numbers
  <2>4. CASE UNCHANGED bytes
    BY <2>1, <2>3, <2>4, SameBytes
  <2>5. CASE nread' = 0 /\ nwrite' = 0 /\ UNCHANGED data
    <3>1. Length' = 0 /\ 0 =< PIPESIZE
      BY <2>5, ResetBytes
    <3> QED
      BY <2>1, <2>3, <2>5, <3>1, Bounds DEF BufferInv
  <2> QED
    BY <2>2, <2>4, <2>5
<1>8. CASE Forked(p)
  <2>1. UNCHANGED bytes /\ UNCHANGED <<got, lock>> /\ arg' = [arg EXCEPT ![p] = 0]
    BY <1>8 DEF Forked, ForkReturns
  <2>2. Numbers' /\ lock' \in Proc \cup {None}
    BY <2>1 DEF BufferInv, Numbers, TableInv, Typed
  <2> QED
    BY <2>1, <2>2, SameBytes
<1> QED
  BY <1>1, <1>2, <1>3, <1>4, <1>5, <1>6, <1>7, <1>8 DEF PipeStep

LEMMA BufferInit == Init => BufferInv
<1> SUFFICES ASSUME Init PROVE BufferInv
  OBVIOUS
<1>1. (0 - 0) % Wrap = 0
  BY Bounds, Between
<1>2. Length = 0
  BY <1>1 DEF Init, Length
<1> QED
  BY <1>2, Bounds DEF Init, ProcsInit, BufferInv, Numbers

LEMMA BufferNext == TableInv /\ BufferInv /\ [Next]_vars => BufferInv'
<1> SUFFICES ASSUME TableInv, BufferInv, [Next]_vars PROVE BufferInv'
  OBVIOUS
<1>1. CASE Aside
  <2>1. UNCHANGED bytes /\ UNCHANGED <<got, lock>> /\ Numbers'
    BY <1>1 DEF Aside, pipe
  <2>2. lock' \in Proc \cup {None}
    BY <2>1 DEF BufferInv
  <2> QED
    BY <2>1, <2>2, SameBytes
<1> QED
  BY <1>1, Steps, BufferKeeps DEF BufferInv

\* The buffer of pipe.c never holds more than PIPESIZE bytes, whatever the
\* counters have wrapped to (pipewrite and piperead, pipe.c:79-121).
THEOREM BufferIsSound == Spec => []BufferInv
<1>1. Spec => []TableInv
  BY TableIsSound
<1> QED
  BY <1>1, BufferInit, BufferNext, PTL DEF Spec

-----------------------------------------------------------------------------
(* The ends *)

OpenFor(e, place) == \E p \in Proc : e \in fd[p] \/ pc[p] = place

\* Who closes an end for good is the only one who does, and nobody has it open.
ClosesAlone(e, place) ==
    \A p, q \in Proc : pc[p] = place => e \notin fd[q] /\ (pc[q] = place => p = q)

EndsInv ==
    /\ (readopen <=> OpenFor("r", "close r")) /\ ClosesAlone("r", "close r")
    /\ (writeopen <=> OpenFor("w", "close w")) /\ ClosesAlone("w", "close w")

LEMMA EndsAre == EndsInv => EndsCounted
BY DEF EndsInv, EndsCounted, OpenFor

\* One end, in a step that leaves it alone.
LEMMA SameEnd ==
    ASSUME NEW e, NEW place,
           \A q \in Proc : (e \in fd'[q] <=> e \in fd[q]) /\ (pc'[q] = place <=> pc[q] = place)
    PROVE  /\ OpenFor(e, place)' <=> OpenFor(e, place)
           /\ ClosesAlone(e, place) => ClosesAlone(e, place)'
BY DEF OpenFor, ClosesAlone

LEMMA SameEnds ==
    ASSUME EndsInv, UNCHANGED ends,
           \A q \in Proc : /\ pc'[q] = "close r" <=> pc[q] = "close r"
                           /\ pc'[q] = "close w" <=> pc[q] = "close w"
    PROVE  EndsInv'
<1>1. fd' = fd /\ (readopen' <=> readopen) /\ (writeopen' <=> writeopen)
  BY DEF ends
<1>2. /\ OpenFor("r", "close r")' <=> OpenFor("r", "close r")
      /\ ClosesAlone("r", "close r") => ClosesAlone("r", "close r")'
  BY <1>1, SameEnd
<1>3. /\ OpenFor("w", "close w")' <=> OpenFor("w", "close w")
      /\ ClosesAlone("w", "close w") => ClosesAlone("w", "close w")'
  BY <1>1, SameEnd
<1> QED
  BY <1>1, <1>2, <1>3 DEF EndsInv

LEMMA EndsAlloc ==
    ASSUME TableInv, EndsInv, NEW p \in Proc, PipeAlloc(p) PROVE EndsInv'
<1>1. /\ readopen' /\ writeopen' /\ ~readopen /\ ~writeopen
      /\ fd' = [fd EXCEPT ![p] = {"r", "w"}] /\ UNCHANGED pc
  BY DEF PipeAlloc, ptable
<1>2. \A q \in Proc : pc[q] # "close r" /\ pc[q] # "close w"
  BY <1>1 DEF EndsInv, OpenFor
<1>3. fd'[p] = {"r", "w"}
  BY <1>1 DEF TableInv, Typed
<1>4. OpenFor("r", "close r")' /\ OpenFor("w", "close w")'
  BY <1>3 DEF OpenFor
<1>5. ClosesAlone("r", "close r")' /\ ClosesAlone("w", "close w")'
  BY <1>1, <1>2 DEF ClosesAlone
<1> QED
  BY <1>1, <1>4, <1>5 DEF EndsInv

\* A close of end e: the other end d is not touched.
LEMMA CloseEnd ==
    ASSUME NEW p \in Proc, NEW e, NEW place, NEW d, NEW other,
           pc[p] = "user", place # "user", other # "user", place # other, e # d,
           ClosesAlone(e, place), e \in fd[p], fd'[p] = fd[p] \ {e},
           \A q \in Proc \ {p} : fd'[q] = fd[q] /\ pc'[q] = pc[q],
           (\E q \in Proc \ {p} : e \in fd[q]) => pc'[p] = "user",
           (\A q \in Proc \ {p} : e \notin fd[q]) => pc'[p] = place
    PROVE  /\ OpenFor(e, place)' /\ OpenFor(e, place) /\ ClosesAlone(e, place)'
           /\ OpenFor(d, other)' <=> OpenFor(d, other)
           /\ ClosesAlone(d, other) => ClosesAlone(d, other)'
<1>1. \A q \in Proc : pc[q] # place
  BY DEF ClosesAlone
<1>2. OpenFor(e, place)
  BY DEF OpenFor
<1>3. OpenFor(e, place)'
  BY DEF OpenFor
<1>4. ClosesAlone(e, place)'
  BY <1>1 DEF ClosesAlone
<1>5. \A q \in Proc : (d \in fd'[q] <=> d \in fd[q]) /\ (pc'[q] = other <=> pc[q] = other)
  OBVIOUS
<1> QED
  BY <1>2, <1>3, <1>4, <1>5, SameEnd

LEMMA EndsClose ==
    ASSUME TableInv, EndsInv, NEW p \in Proc, NEW e \in fd[p], Close(p, e) PROVE EndsInv'
<1> DEFINE place == IF e = "r" THEN "close r" ELSE "close w"
<1>1. /\ pc[p] = "user" /\ fd'[p] = fd[p] \ {e}
      /\ (readopen' <=> readopen) /\ (writeopen' <=> writeopen)
  BY DEF Close, TableInv, Typed
<1>2. /\ \A q \in Proc \ {p} : fd'[q] = fd[q] /\ pc'[q] = pc[q]
      /\ (\E q \in Proc \ {p} : e \in fd[q]) => pc'[p] = "user"
      /\ (\A q \in Proc \ {p} : e \notin fd[q]) => pc'[p] = place
  BY DEF Close, TableInv, Typed
<1>3. e \in {"r", "w"}
  BY DEF TableInv, Typed
<1>4. CASE e = "r"
  <2>1. place = "close r" /\ ClosesAlone(e, place)
    BY <1>4 DEF EndsInv
  <2> HIDE DEF place
  <2>2. /\ OpenFor(e, place)' /\ OpenFor(e, place) /\ ClosesAlone(e, place)'
        /\ OpenFor("w", "close w")' <=> OpenFor("w", "close w")
        /\ ClosesAlone("w", "close w") => ClosesAlone("w", "close w")'
    BY <1>1, <1>2, <1>4, <2>1, CloseEnd
  <2> QED
    BY <1>1, <1>4, <2>1, <2>2 DEF EndsInv
<1>5. CASE e = "w"
  <2>1. place = "close w" /\ ClosesAlone(e, place)
    BY <1>5 DEF EndsInv
  <2> HIDE DEF place
  <2>2. /\ OpenFor(e, place)' /\ OpenFor(e, place) /\ ClosesAlone(e, place)'
        /\ OpenFor("r", "close r")' <=> OpenFor("r", "close r")
        /\ ClosesAlone("r", "close r") => ClosesAlone("r", "close r")'
    BY <1>1, <1>2, <1>5, <2>1, CloseEnd
  <2> QED
    BY <1>1, <1>5, <2>1, <2>2 DEF EndsInv
<1> QED
  BY <1>3, <1>4, <1>5

\* pipeclose of end e.
LEMMA ClosedEnd ==
    ASSUME TableInv, NEW p \in Proc, NEW e, NEW place, NEW d, NEW other, NEW after,
           pc[p] = place, place # other, after # place, after # other,
           ClosesAlone(e, place), UNCHANGED fd, pc' = [pc EXCEPT ![p] = after]
    PROVE  /\ ~OpenFor(e, place)' /\ ClosesAlone(e, place)'
           /\ OpenFor(d, other)' <=> OpenFor(d, other)
           /\ ClosesAlone(d, other) => ClosesAlone(d, other)'
<1>1. pc'[p] = after /\ \A q \in Proc \ {p} : pc'[q] = pc[q]
  BY DEF TableInv, Typed
<1>2. \A q \in Proc : e \notin fd[q] /\ (pc[q] = place => q = p)
  BY DEF ClosesAlone
<1>3. \A q \in Proc : pc'[q] # place
  BY <1>1, <1>2
<1>4. ~OpenFor(e, place)' /\ ClosesAlone(e, place)'
  BY <1>2, <1>3 DEF OpenFor, ClosesAlone
<1>5. \A q \in Proc : (d \in fd'[q] <=> d \in fd[q]) /\ (pc'[q] = other <=> pc[q] = other)
  BY <1>1
<1> QED
  BY <1>4, <1>5, SameEnd

LEMMA EndsClosed ==
    ASSUME TableInv, EndsInv, NEW p \in Proc, PipeClose(p) PROVE EndsInv'
<1>1. fd' = fd
  BY DEF PipeClose
<1>2. CASE pc[p] = "close r"
  <2>1. readopen' = FALSE /\ writeopen' = writeopen
    BY <1>2 DEF PipeClose
  <2>2. pc' = [pc EXCEPT ![p] = "closed r"]
    BY <1>2 DEF PipeClose, TableInv, Typed
  <2>3. ClosesAlone("r", "close r")
    BY DEF EndsInv
  <2>4. /\ ~OpenFor("r", "close r")' /\ ClosesAlone("r", "close r")'
        /\ OpenFor("w", "close w")' <=> OpenFor("w", "close w")
        /\ ClosesAlone("w", "close w") => ClosesAlone("w", "close w")'
    BY <1>1, <1>2, <2>2, <2>3, ClosedEnd
  <2> QED
    BY <2>1, <2>4 DEF EndsInv
<1>3. CASE pc[p] = "close w"
  <2>1. writeopen' = FALSE /\ readopen' = readopen
    BY <1>3 DEF PipeClose
  <2>2. pc' = [pc EXCEPT ![p] = "closed w"]
    BY <1>3 DEF PipeClose, TableInv, Typed
  <2>3. ClosesAlone("w", "close w")
    BY DEF EndsInv
  <2>4. /\ ~OpenFor("w", "close w")' /\ ClosesAlone("w", "close w")'
        /\ OpenFor("r", "close r")' <=> OpenFor("r", "close r")
        /\ ClosesAlone("r", "close r") => ClosesAlone("r", "close r")'
    BY <1>1, <1>3, <2>2, <2>3, ClosedEnd
  <2> QED
    BY <2>1, <2>4 DEF EndsInv
<1> QED
  BY <1>2, <1>3 DEF PipeClose

\* The child of a fork gets its parent's ends.
LEMMA ForkedEnd ==
    ASSUME NEW p \in Proc, NEW n \in Proc, NEW e, NEW place,
           fd[n] = {}, fd'[n] = fd[p], \A q \in Proc \ {n} : fd'[q] = fd[q],
           \A q \in Proc : pc'[q] = place <=> pc[q] = place
    PROVE  /\ OpenFor(e, place)' <=> OpenFor(e, place)
           /\ ClosesAlone(e, place) => ClosesAlone(e, place)'
<1>1. OpenFor(e, place)' => OpenFor(e, place)
  BY DEF OpenFor
<1>2. OpenFor(e, place) => OpenFor(e, place)'
  BY DEF OpenFor
<1>3. ClosesAlone(e, place) => ClosesAlone(e, place)'
  BY DEF ClosesAlone
<1> QED
  BY <1>1, <1>2, <1>3

LEMMA EndsForked ==
    ASSUME TableInv, EndsInv, NEW p \in Proc, Forked(p) PROVE EndsInv'
<1> DEFINE n == arg[p]
<1>1. /\ pc[p] = "fork" /\ state[p] = "RUNNING"
      /\ pc' = [pc EXCEPT ![p] = "user", ![n] = "user"] /\ fd' = [fd EXCEPT ![n] = fd[p]]
      /\ (readopen' <=> readopen) /\ (writeopen' <=> writeopen)
  BY DEF Forked, ForkReturns, Running
<1>2. n \in Proc /\ state[n] = "EMBRYO"
  BY <1>1 DEF TableInv, Embryos
<1> HIDE DEF n
<1>3. fd[n] = {} /\ pc[n] = "user"
  BY <1>2 DEF TableInv, Idle
<1>4. fd'[n] = fd[p] /\ \A q \in Proc \ {n} : fd'[q] = fd[q]
  BY <1>1, <1>2 DEF TableInv, Typed
<1>5. pc'[p] = "user" /\ pc'[n] = "user" /\ \A q \in Proc \ {p, n} : pc'[q] = pc[q]
  BY <1>1, <1>2 DEF TableInv, Typed
<1>6. \A q \in Proc : /\ pc'[q] = "close r" <=> pc[q] = "close r"
                      /\ pc'[q] = "close w" <=> pc[q] = "close w"
  BY <1>1, <1>3, <1>5
<1>7. /\ OpenFor("r", "close r")' <=> OpenFor("r", "close r")
      /\ ClosesAlone("r", "close r") => ClosesAlone("r", "close r")'
  BY <1>2, <1>3, <1>4, <1>6, ForkedEnd
<1>8. /\ OpenFor("w", "close w")' <=> OpenFor("w", "close w")
      /\ ClosesAlone("w", "close w") => ClosesAlone("w", "close w")'
  BY <1>2, <1>3, <1>4, <1>6, ForkedEnd
<1> QED
  BY <1>1, <1>7, <1>8 DEF EndsInv

\* The places of a system call that is not a close.
NotClosing == Place \ {"close r", "close w"}

LEMMA EndsKeep ==
    ASSUME TableInv, EndsInv, NEW p \in Proc, PipeStep(p) PROVE EndsInv'
<1>1. CASE \/ \E n \in Nat : PipeRead(p, n) \/ PipeWrite(p, n)
           \/ ReadReturns(p) \/ WriteReturns(p) \/ WakeReaders(p)
           \/ Sleep(p) \/ FallAsleep(p) \/ PipeCloseReturns(p)
  <2>1. UNCHANGED ends
    BY <1>1 DEF PipeRead, PipeWrite, ReadReturns, WriteReturns, WakeReaders, Sleep, FallAsleep,
                PipeCloseReturns, pipe
  <2>2. pc[p] \in NotClosing
    BY <1>1 DEF PipeRead, PipeWrite, ReadReturns, WriteReturns, WakeReaders, Sleep, FallAsleep,
                PipeCloseReturns, InUser, NotClosing, Place
  <2>3. \E v \in NotClosing : pc' = [pc EXCEPT ![p] = v]
    <3>1. CASE \E n \in Nat : PipeRead(p, n) \/ PipeWrite(p, n)
      BY <3>1 DEF PipeRead, PipeWrite, Return, NotClosing, Place
    <3>2. CASE ReadReturns(p) \/ WriteReturns(p) \/ WakeReaders(p) \/ PipeCloseReturns(p)
      BY <3>2 DEF ReadReturns, WriteReturns, WakeReaders, PipeCloseReturns, Wakeup,
                  NotClosing, Place
    <3>3. CASE Sleep(p)
      BY <3>3 DEF Sleep, Asleep, NotClosing, Place, TableInv, Typed
    <3>4. CASE FallAsleep(p)
      BY <3>4 DEF FallAsleep, SleepState, NotClosing, Place
    <3> QED
      BY <1>1, <3>1, <3>2, <3>3, <3>4
  <2>4. \A q \in Proc : pc'[q] = pc[q] \/ {pc[q], pc'[q]} \subseteq NotClosing
    BY <2>2, <2>3 DEF TableInv, Typed
  <2>5. \A q \in Proc : /\ pc'[q] = "close r" <=> pc[q] = "close r"
                        /\ pc'[q] = "close w" <=> pc[q] = "close w"
    BY <2>4 DEF NotClosing
  <2> QED
    BY <2>1, <2>5, SameEnds
<1> QED
  BY <1>1, EndsAlloc, EndsClose, EndsClosed, EndsForked DEF PipeStep

LEMMA EndsInit == Init => EndsInv
<1> SUFFICES ASSUME Init PROVE EndsInv
  OBVIOUS
<1>1. \A p \in Proc : fd[p] = {} /\ pc[p] = "user"
  BY DEF Init, ProcsInit
<1>2. ~OpenFor("r", "close r") /\ ~OpenFor("w", "close w")
  BY <1>1 DEF OpenFor
<1>3. ClosesAlone("r", "close r") /\ ClosesAlone("w", "close w")
  BY <1>1 DEF ClosesAlone
<1>4. ~readopen /\ ~writeopen
  BY DEF Init
<1> QED
  BY <1>2, <1>3, <1>4 DEF EndsInv

LEMMA EndsNext == TableInv /\ BufferInv /\ EndsInv /\ [Next]_vars => EndsInv'
<1> SUFFICES ASSUME TableInv, BufferInv, EndsInv, [Next]_vars PROVE EndsInv'
  OBVIOUS
<1>1. CASE Aside
  <2>1. UNCHANGED ends
    BY <1>1 DEF Aside, pipe
  <2>2. \A q \in Proc : /\ pc'[q] = "close r" <=> pc[q] = "close r"
                        /\ pc'[q] = "close w" <=> pc[q] = "close w"
    BY <1>1 DEF Aside
  <2> QED
    BY <2>1, <2>2, SameEnds
<1> QED
  BY <1>1, Steps, EndsKeep DEF BufferInv

\* A process that closes an end no longer has it, and the flag of an end says
\* whether anybody has it: fork and exit, filedup and fileclose keep the
\* references that pipeclose relies on (file.c:45-80, pipe.c:60-75).
THEOREM EndsAreSound == Spec => []EndsInv
<1>1. Spec => []TableInv
  BY TableIsSound
<1>2. Spec => []BufferInv
  BY BufferIsSound
<1> QED
  BY <1>1, <1>2, EndsInit, EndsNext, PTL DEF Spec

Flags == {readopen, writeopen} \subseteq BOOLEAN

LEMMA FlagsNext ==
    TableInv /\ BufferInv /\ Flags /\ [Next]_vars => Flags'
<1> SUFFICES ASSUME TableInv, BufferInv, Flags, [Next]_vars PROVE Flags'
  OBVIOUS
<1>1. CASE Aside
  BY <1>1 DEF Aside, pipe, ends, Flags
<1>2. ASSUME NEW p \in Proc, PipeStep(p)
      PROVE  readopen' \in {readopen, TRUE, FALSE} /\ writeopen' \in {writeopen, TRUE, FALSE}
  <2>1. CASE \/ \E n \in Nat : PipeRead(p, n) \/ PipeWrite(p, n)
             \/ ReadReturns(p) \/ WriteReturns(p) \/ WakeReaders(p)
             \/ Sleep(p) \/ FallAsleep(p) \/ PipeCloseReturns(p)
    BY <2>1 DEF PipeRead, PipeWrite, ReadReturns, WriteReturns, WakeReaders, Sleep, FallAsleep,
                PipeCloseReturns, pipe, ends
  <2>2. CASE PipeAlloc(p) \/ PipeClose(p) \/ Forked(p) \/ \E e \in fd[p] : Close(p, e)
    BY <2>2 DEF PipeAlloc, PipeClose, Forked, Close
  <2> QED
    BY <1>2, <2>1, <2>2 DEF PipeStep
<1> QED
  BY <1>1, <1>2, Steps DEF BufferInv, Flags

\* Every state is well typed, and an end of the pipe is open exactly as long as
\* a process has it or is about to close it: the references that fork, close
\* and exit count (file.c:45-80) are right when pipeclose frees the page
\* (pipe.c:60-75), and Length stays within the buffer.
THEOREM PipeIsSound == Spec => []PipeInv
<1>1. Init => Flags
  BY DEF Init, Flags
<1>2. Spec => []TableInv
  BY TableIsSound
<1>3. Spec => []BufferInv
  BY BufferIsSound
<1>4. Spec => []EndsInv
  BY EndsAreSound
<1>5. TableInv /\ BufferInv /\ EndsInv /\ Flags => PipeInv
  <2> SUFFICES ASSUME TableInv, BufferInv, EndsInv, Flags
               PROVE  TypeOK /\ EndsCounted
    BY DEF PipeInv
  <2>1. Typed
    BY DEF TableInv
  <2>2. readopen \in BOOLEAN /\ writeopen \in BOOLEAN
    BY DEF Flags
  <2>3. {nread, nwrite} \subseteq 0..Wrap - 1
    BY DEF BufferInv
  <2>4. TypeOK
    BY <2>1, <2>2, <2>3 DEF Typed, States, BufferInv, Numbers, TypeOK
  <2> QED
    BY <2>4, EndsAre
<1> QED
  BY <1>1, <1>2, <1>3, <1>4, <1>5, FlagsNext, PTL DEF Spec

-----------------------------------------------------------------------------
(* What the buffer contains *)

\* nwrite is Length bytes after nread.
LEMMA SlotWritten ==
    ASSUME BufferInv, NEW k \in Int
    PROVE  (nwrite + k) % PIPESIZE = ((nread + Length) + k) % PIPESIZE
<1>1. /\ nread \in Int /\ nwrite \in Int /\ Length \in Int /\ Wrap \in Int
      /\ Length = IF nread =< nwrite THEN nwrite - nread ELSE nwrite - nread + Wrap
  <2>1. nread \in 0..Wrap - 1 /\ nwrite \in 0..Wrap - 1
    BY DEF BufferInv
  <2>2. Length = IF nread =< nwrite THEN nwrite - nread ELSE nwrite - nread + Wrap
    BY <2>1, Between DEF Length
  <2>3. Length \in 0..PIPESIZE
    BY LengthIs
  <2> QED
    BY <2>1, <2>2, <2>3, Bounds
<1>2. CASE nread =< nwrite
  <2>1. nwrite + k = (nread + Length) + k
    BY <1>1, <1>2
  <2> QED
    BY <2>1, Zenon
<1>3. CASE ~(nread =< nwrite)
  <2>1. (nread + Length) + k \in Int /\ nwrite + k = ((nread + Length) + k) - Wrap
    BY <1>1, <1>3
  <2>2. (((nread + Length) + k) - Wrap) % PIPESIZE = ((nread + Length) + k) % PIPESIZE
    BY <2>1, Slots
  <2> QED
    BY <2>1, <2>2, Zenon
<1> QED
  BY <1>2, <1>3

\* The bytes.
Values == 0..Wrap - 1

\* The n bytes from counter r on.
Slice(d, r, n) == [k \in 1..n |-> d[(r + k - 1) % PIPESIZE]]

LEMMA SliceIs ==
    ASSUME NEW n \in 0..PIPESIZE, NEW r \in 0..Wrap - 1, NEW d \in [0..PIPESIZE - 1 -> Values]
    PROVE  /\ Slice(d, r, n) \in Seq(Values) /\ Len(Slice(d, r, n)) = n
           /\ \A k \in 1..n : Slice(d, r, n)[k] = d[(r + k - 1) % PIPESIZE]
<1>1. \A k \in 1..n : d[(r + k - 1) % PIPESIZE] \in Values
  <2> TAKE k \in 1..n
  <2>1. r + k - 1 \in Int
    BY Bounds
  <2>2. (r + k - 1) % PIPESIZE \in 0..PIPESIZE - 1
    BY <2>1, ModIn, Bounds
  <2> QED
    BY <2>2
<1>2. Slice(d, r, n) \in [1..n -> Values] /\ n \in Nat
  BY <1>1, Bounds DEF Slice
<1>3. \A k \in 1..n : Slice(d, r, n)[k] = d[(r + k - 1) % PIPESIZE]
  BY DEF Slice
<1> QED
  BY <1>2, <1>3

LEMMA ContentIs ==
    ASSUME BufferInv
    PROVE  /\ Content \in Seq(Values) /\ Len(Content) = Length
           /\ \A k \in 1..Length : Content[k] = data[(nread + k - 1) % PIPESIZE]
<1>1. /\ Length \in 0..PIPESIZE /\ nread \in 0..Wrap - 1
      /\ data \in [0..PIPESIZE - 1 -> Values]
  BY LengthIs DEF BufferInv, Values
<1>2. Content = Slice(data, nread, Length)
  BY DEF Content, At, Slice
<1> QED
  BY <1>1, <1>2, SliceIs

LEMMA ContentNext ==
    ASSUME BufferInv', Length' \in 0..PIPESIZE
    PROVE  /\ Content' \in Seq(Values) /\ Len(Content') = Length'
           /\ \A k \in 1..Length' : Content'[k] = data'[(nread' + k - 1) % PIPESIZE]
<1>1. nread' \in 0..Wrap - 1 /\ data' \in [0..PIPESIZE - 1 -> Values]
  BY DEF BufferInv, Values
<1>2. Content' = Slice(data', nread', Length')
  BY DEF Content, At, Slice
<1> QED
  BY <1>1, <1>2, SliceIs

LEMMA SameContent == ASSUME UNCHANGED bytes PROVE Content' = Content
BY DEF bytes, Content, Length, At

LEMMA NoContent == ASSUME BufferInv PROVE (Content = << >>) <=> Empty
<1>1. Content \in Seq(Values) /\ Len(Content) = Length /\ (Empty <=> Length = 0)
  BY ContentIs, LengthIs
<1>2. (Content = << >>) <=> Len(Content) = 0
  BY <1>1, EmptySeq
<1> QED
  BY <1>1, <1>2

\* A read takes m bytes from the front.
LEMMA ContentRead ==
    ASSUME BufferInv, BufferInv', NEW m \in 0..Length, UNCHANGED data,
           nread' = (nread + m) % Wrap, Length' = Length - m
    PROVE  /\ Content' = SubSeq(Content, m + 1, Len(Content))
           /\ [k \in 1..m |-> At(nread + k - 1)] = SubSeq(Content, 1, m)
<1> DEFINE front == [k \in 1..m |-> At(nread + k - 1)]
<1>1. /\ Content \in Seq(Values) /\ Len(Content) = Length
      /\ \A k \in 1..Length : Content[k] = data[(nread + k - 1) % PIPESIZE]
  BY ContentIs
<1>2. Length \in 0..PIPESIZE /\ nread \in 0..Wrap - 1 /\ m \in 0..Wrap - 1 /\ m \in Nat
  BY LengthIs, Bounds DEF BufferInv
<1>3. /\ Content' \in Seq(Values) /\ Len(Content') = Length - m
      /\ \A k \in 1..Length - m : Content'[k] = data[(nread' + k - 1) % PIPESIZE]
  <2>1. Length - m \in 0..PIPESIZE
    BY <1>2, Bounds
  <2> QED
    BY <2>1, ContentNext
<1>4. \A k \in 1..Length : Content[k] \in Values
  BY <1>1, ElementOfSeq
<1> HIDE DEF Content
<1>5. Content' = SubSeq(Content, m + 1, Len(Content))
  <2> DEFINE rest == SubSeq(Content, m + 1, Length)
  <2>1. /\ rest \in Seq(Values)
        /\ Len(rest) = IF m + 1 =< Length THEN Length - (m + 1) + 1 ELSE 0
        /\ \A k \in 1..Length - (m + 1) + 1 : rest[k] = Content[(m + 1) + k - 1]
    <3>1. m + 1 \in Int /\ Length \in Int /\ \A k \in m + 1..Length : Content[k] \in Values
      BY <1>2, <1>4
    <3> QED
      BY <3>1, SubSeqProperties
  <2> HIDE DEF rest
  <2>2. Len(rest) = Length - m /\ \A k \in 1..Length - m : rest[k] = Content[m + k]
    BY <1>2, <2>1
  <2>3. ASSUME NEW k \in 1..Length - m PROVE Content'[k] = rest[k]
    <3>1. k - 1 \in Int /\ m + k \in 1..Length
      BY <1>2
    <3>2. (((nread + m) % Wrap) + (k - 1)) % PIPESIZE = ((nread + m) + (k - 1)) % PIPESIZE
      BY <1>2, <3>1, SlotMoves
    <3>3. nread' + k - 1 = ((nread + m) % Wrap) + (k - 1)
      <4>1. nread' \in Int
        BY Bounds DEF BufferInv
      <4> QED
        BY <3>1, <4>1
    <3>4. nread + (m + k) - 1 = (nread + m) + (k - 1)
      BY <1>2, <3>1
    <3>5. Content[m + k] = data[(nread + (m + k) - 1) % PIPESIZE]
      BY <1>1, <3>1
    <3>6. Content'[k] = data[(nread' + k - 1) % PIPESIZE]
      BY <1>3
    <3> QED
      BY <2>2, <3>2, <3>3, <3>4, <3>5, <3>6
  <2>4. Content' = rest
    BY <1>3, <2>1, <2>2, <2>3, SeqEqual
  <2> QED
    BY <1>1, <2>4 DEF rest
<1>6. front = SubSeq(Content, 1, m)
  <2> DEFINE s == SubSeq(Content, 1, m)
  <2>1. /\ s \in Seq(Values)
        /\ Len(s) = IF 1 =< m THEN m - 1 + 1 ELSE 0
        /\ \A k \in 1..m - 1 + 1 : s[k] = Content[1 + k - 1]
    <3>1. m \in Int /\ 1 \in Int /\ \A k \in 1..m : Content[k] \in Values
      BY <1>2, <1>4
    <3> QED
      BY <3>1, SubSeqProperties
  <2> HIDE DEF s
  <2>2. Len(s) = m /\ \A k \in 1..m : s[k] = Content[k]
    BY <1>2, <2>1
  <2>3. \A k \in 1..m : Content[k] = front[k] /\ front[k] \in Values
    <3> TAKE k \in 1..m
    <3>1. k \in 1..Length
      BY <1>2
    <3>2. front[k] = data[(nread + k - 1) % PIPESIZE]
      BY DEF At
    <3> QED
      BY <1>1, <1>4, <3>1, <3>2
  <2>4. front \in Seq(Values) /\ Len(front) = m
    <3>1. front \in [1..m -> Values] /\ m \in Nat
      BY <1>2, <2>3
    <3> HIDE DEF front
    <3> QED
      BY <3>1
  <2> HIDE DEF front
  <2> QED
    BY <2>1, <2>2, <2>3, <2>4, SeqEqual DEF s
<1> QED
  BY <1>5, <1>6

\* A write of m bytes leaves those before them where they are.
LEMMA ContentWritten ==
    ASSUME BufferInv, BufferInv', NEW m \in 0..Space, UNCHANGED nread, Length' = Length + m,
           \A j \in 0..PIPESIZE - 1 :
              (\A k \in 0..m - 1 : (nwrite + k) % PIPESIZE # j) => data'[j] = data[j]
    PROVE  \E s \in [1..m -> Values] : Content' = Content \o s
<1>1. /\ Content \in Seq(Values) /\ Len(Content) = Length
      /\ \A k \in 1..Length : Content[k] = data[(nread + k - 1) % PIPESIZE]
  BY ContentIs
<1>2. Length \in 0..PIPESIZE /\ nread \in Int /\ m \in 0..PIPESIZE /\ Length + m =< PIPESIZE
  BY LengthIs, Bounds DEF BufferInv
<1>3. /\ Content' \in Seq(Values) /\ Len(Content') = Length + m
      /\ \A k \in 1..Length + m : Content'[k] = data'[(nread + k - 1) % PIPESIZE]
  <2>1. Length + m \in 0..PIPESIZE
    BY <1>2, Bounds
  <2> QED
    BY <2>1, ContentNext
<1>4. \A k \in 1..Length : Content'[k] = Content[k]
  <2> TAKE k \in 1..Length
  <2> DEFINE x == nread + k - 1
  <2>1. x \in Int /\ x % PIPESIZE \in 0..PIPESIZE - 1
    BY <1>2, ModIn, Bounds
  <2>2. ASSUME NEW i \in 0..m - 1 PROVE (nwrite + i) % PIPESIZE # x % PIPESIZE
    <3> DEFINE y == (nread + Length) + i
    <3>1. (nwrite + i) % PIPESIZE = y % PIPESIZE
      BY <1>2, SlotWritten
    <3>2. y \in Int /\ 0 < y - x /\ y - x < PIPESIZE
      BY <1>2, Bounds
    <3> HIDE DEF x, y
    <3> QED
      BY <2>1, <3>1, <3>2, Slots
  <2>3. data'[x % PIPESIZE] = data[x % PIPESIZE]
    <3> HIDE DEF x
    <3> QED
      BY <2>1, <2>2
  <2>4. k \in 1..Length + m
    BY <1>2
  <2> QED
    BY <1>1, <1>3, <2>3, <2>4
<1> DEFINE s == [k \in 1..m |-> Content'[Length + k]]
<1> HIDE DEF Content
<1>5. \A k \in 1..m : Length + k \in 1..Length + m /\ Content'[Length + k] \in Values
  <2>1. \A k \in 1..m : Length + k \in 1..Length + m
    BY <1>2
  <2> QED
    BY <1>3, <2>1, ElementOfSeq
<1>6. s \in [1..m -> Values]
  BY <1>5
<1>7. s \in Seq(Values) /\ Len(s) = m /\ \A k \in 1..m : s[k] = Content'[Length + k]
  BY <1>2, <1>6
<1> HIDE DEF s
<1>8. /\ Content \o s \in Seq(Values) /\ Len(Content \o s) = Length + m
      /\ \A k \in 1..Length + m :
            (Content \o s)[k] = IF k =< Length THEN Content[k] ELSE s[k - Length]
  <2>1. /\ Content \o s \in Seq(Values) /\ Len(Content \o s) = Len(Content) + Len(s)
        /\ \A k \in 1..Len(Content) + Len(s) :
              (Content \o s)[k] = IF k =< Len(Content) THEN Content[k] ELSE s[k - Len(Content)]
    BY <1>1, <1>7, ConcatProperties
  <2> QED
    BY <1>1, <1>7, <2>1, Zenon
<1>9. \A k \in 1..Length + m : Content'[k] = (Content \o s)[k]
  <2> TAKE k \in 1..Length + m
  <2>1. CASE k =< Length
    <3>1. k \in 1..Length
      BY <1>2, <2>1
    <3> QED
      BY <1>4, <1>8, <2>1, <3>1
  <2>2. CASE ~(k =< Length)
    <3>1. k - Length \in 1..m /\ Length + (k - Length) = k
      BY <1>2, <2>2
    <3> QED
      BY <1>7, <1>8, <2>2, <3>1
  <2> QED
    BY <2>1, <2>2
<1>10. Content' = Content \o s
  BY <1>3, <1>8, <1>9, SeqEqual
<1> QED
  BY <1>6, <1>10
-----------------------------------------------------------------------------
(* Calls in progress *)

\* Where p->lock is held; where a system call needs an end.
LockPlace == {"sleep nread", "sleep nwrite", "has read", "has written", "is full",
              "closed r", "closed w"}

ReadPlace == {"read", "sleep nread", "asleep nread", "has read"}

WritePlace == {"write", "sleep nwrite", "asleep nwrite", "is full", "has written"}

\* p->lock is held by whoever is in such a place, and by nobody else.
Locks == \A p \in Proc : pc[p] \in LockPlace <=> lock = p

\* What a call in progress has, and has not, done.
Progress(p) ==
    /\ pc[p] \in ReadPlace => "r" \in fd[p]
    /\ pc[p] \in WritePlace => "w" \in fd[p]
    /\ got[p] # None <=> pc[p] = "has read"
    /\ pc[p] \in ReadPlace \ {"has read"} => arg[p] # 0

\* A pipe without ends is empty, or will be when the last close returns.
Dead == readopen \/ writeopen \/ Empty \/ \E p \in Proc : pc[p] \in {"closed r", "closed w"}

CallInv == Locks /\ Dead /\ \A p \in Proc : Progress(p)

\* The call of p goes to another place; the lock goes with it.
LEMMA LocksMove ==
    ASSUME Locks, NEW p \in Proc, lock = None \/ lock = p,
           \A q \in Proc \ {p} : pc'[q] = pc[q],
           lock' = IF pc'[p] \in LockPlace THEN p ELSE None
    PROVE  Locks'
<1>1. \A q \in Proc \ {p} : pc[q] \notin LockPlace
  BY Channels DEF Locks
<1> QED
  BY <1>1, Channels DEF Locks

\* A step of those who neither have the lock nor get it.
LEMMA LocksStay ==
    ASSUME Locks, UNCHANGED lock,
           \A q \in Proc : \/ pc'[q] = pc[q]
                           \/ pc[q] \notin LockPlace /\ pc'[q] \notin LockPlace
    PROVE  Locks'
BY DEF Locks

\* A step that is nobody's business but p's.
LEMMA ProgressMove ==
    ASSUME \A q \in Proc : Progress(q), NEW p \in Proc,
           \A q \in Proc \ {p} : /\ pc'[q] = pc[q] /\ fd'[q] = fd[q]
                                 /\ got'[q] = got[q] /\ arg'[q] = arg[q],
           Progress(p)'
    PROVE  \A q \in Proc : Progress(q)'
<1> SUFFICES ASSUME NEW q \in Proc PROVE Progress(q)'
  OBVIOUS
<1>1. CASE q = p
  BY <1>1
<1>2. CASE q # p
  <2>1. /\ pc'[q] = pc[q] /\ fd'[q] = fd[q] /\ got'[q] = got[q] /\ arg'[q] = arg[q]
    BY <1>2
  <2> QED
    BY <2>1 DEF Progress
<1> QED
  BY <1>1, <1>2

\* Most steps do not change whether the pipe is dead.
LEMMA DeadStays ==
    ASSUME Dead, UNCHANGED bytes, readopen' <=> readopen, writeopen' <=> writeopen,
           \A q \in Proc : pc[q] \in {"closed r", "closed w"} => pc'[q] = pc[q]
    PROVE  Dead'
<1>1. Empty' <=> Empty
  BY DEF bytes, Empty
<1> QED
  BY <1>1 DEF Dead

LEMMA CallAside == ASSUME CallInv, Aside PROVE CallInv'
<1>1. \A q \in Proc : pc'[q] = pc[q] \/ {pc[q], pc'[q]} \subseteq {"user", "fork", "wait"}
  BY DEF Aside
<1>2. UNCHANGED bytes /\ UNCHANGED <<lock, fd, got>>
      /\ (readopen' <=> readopen) /\ (writeopen' <=> writeopen)
  BY DEF Aside, pipe, ends
<1>3. Locks'
  BY <1>1, <1>2, LocksStay DEF CallInv, LockPlace
<1>4. \A q \in Proc : Progress(q)'
  <2> TAKE q \in Proc
  <2>1. arg'[q] = arg[q] \/ pc'[q] \in {"user", "fork"}
    BY DEF Aside
  <2> QED
    BY <1>1, <1>2, <2>1 DEF CallInv, Progress, ReadPlace, WritePlace
<1>5. Dead'
  BY <1>1, <1>2, DeadStays DEF CallInv
<1> QED
  BY <1>3, <1>4, <1>5 DEF CallInv

LEMMA CallAlloc ==
    ASSUME TableInv, CallInv, NEW p \in Proc, PipeAlloc(p) PROVE CallInv'
<1>1. pc[p] = "user" /\ readopen' /\ UNCHANGED <<lock, got, arg, pc>>
      /\ fd' = [fd EXCEPT ![p] = {"r", "w"}]
  BY DEF PipeAlloc, InUser, ptable
<1>2. Locks'
  BY <1>1 DEF CallInv, Locks
<1>3. \A q \in Proc : Progress(q)'
  <2>1. Progress(p)'
    BY <1>1 DEF CallInv, Progress, ReadPlace, WritePlace
  <2>2. \A q \in Proc \ {p} : fd'[q] = fd[q]
    BY <1>1 DEF TableInv, Typed
  <2> QED
    BY <1>1, <2>1, <2>2, ProgressMove DEF CallInv
<1> QED
  BY <1>1, <1>2, <1>3 DEF CallInv, Dead

LEMMA ReadHolds ==
    ASSUME CallInv, NEW p \in Proc, NEW n \in Nat, Due(p, n), PipeRead(p, n)
    PROVE  /\ lock = None /\ pc[p] \in {"user", "read"} /\ "r" \in fd[p] /\ n # 0 /\ got[p] = None
           /\ UNCHANGED fd
           /\ (readopen' <=> readopen) /\ (writeopen' <=> writeopen)
<1>1. lock = None /\ ((pc[p] = "user" /\ "r" \in fd[p]) \/ pc[p] = "read")
  BY DEF PipeRead, InUser
<1>2. UNCHANGED ends
  BY DEF PipeRead
<1>3. "r" \in fd[p]
  BY <1>1 DEF CallInv, Progress, ReadPlace
<1>4. n # 0
  BY <1>1 DEF CallInv, Progress, ReadPlace, Due
<1>5. got[p] = None
  BY <1>1 DEF CallInv, Progress
<1> QED
  BY <1>1, <1>2, <1>3, <1>4, <1>5 DEF ends

LEMMA WriteHolds ==
    ASSUME CallInv, NEW p \in Proc, NEW n \in Nat, PipeWrite(p, n)
    PROVE  /\ lock = None /\ pc[p] \in {"user", "write"} /\ "w" \in fd[p]
           /\ UNCHANGED <<fd, got>>
           /\ (readopen' <=> readopen) /\ (writeopen' <=> writeopen)
<1>1. lock = None /\ ((pc[p] = "user" /\ "w" \in fd[p]) \/ pc[p] = "write")
  BY DEF PipeWrite, InUser
<1>2. UNCHANGED ends /\ UNCHANGED got
  BY DEF PipeWrite
<1>3. "w" \in fd[p]
  BY <1>1 DEF CallInv, Progress, WritePlace
<1> QED
  BY <1>1, <1>2, <1>3 DEF ends

\* Who has an end open keeps the pipe from being dead.
LEMMA EndsOpen ==
    ASSUME EndsInv, NEW p \in Proc
    PROVE  ("r" \in fd[p] => readopen) /\ ("w" \in fd[p] => writeopen)
BY DEF EndsInv, OpenFor

\* What piperead returns, when it has not slept.
LEMMA ReadMaps ==
    ASSUME TableInv, BufferInv, NEW p \in Proc, NEW n \in Nat, PipeRead(p, n),
           ~Empty \/ ~writeopen
    PROVE  \E m \in 0..Length :
              /\ m = 0 => n = 0 \/ Length = 0
              /\ got' = [got EXCEPT ![p] = SubSeq(Content, 1, m)]
              /\ SubSeq(Content, 1, m) \in Seq(Values)
              /\ Content' = SubSeq(Content, m + 1, Len(Content))
<1> DEFINE m == IF n < Length THEN n ELSE Length
<1>1. /\ UNCHANGED <<data, nwrite>> /\ nread' = (nread + m) % Wrap
      /\ got' = [got EXCEPT ![p] = [k \in 1..m |-> At(nread + k - 1)]]
  BY DEF PipeRead
<1>2. Length \in 0..PIPESIZE
  BY LengthIs
<1>3. m \in 0..Length /\ (m = 0 => n = 0 \/ Length = 0)
  BY <1>2, Bounds
<1> HIDE DEF m
<1>4. Length' = Length - m
  <2>1. m \in 0..((nwrite - nread) % Wrap)
    BY <1>3, Zenon DEF Length
  <2>2. (nwrite - ((nread + m) % Wrap)) % Wrap = ((nwrite - nread) % Wrap) - m
    BY <2>1, ReadMoves, Zenon DEF BufferInv
  <2> QED
    BY <1>1, <2>2, Zenon DEF Length
<1>5. BufferInv'
  BY BufferRead
<1>6. /\ Content' = SubSeq(Content, m + 1, Len(Content))
      /\ [k \in 1..m |-> At(nread + k - 1)] = SubSeq(Content, 1, m)
  BY <1>1, <1>3, <1>4, <1>5, ContentRead
<1>7. SubSeq(Content, 1, m) \in Seq(Values)
  <2>1. Content \in Seq(Values) /\ Len(Content) = Length
    BY ContentIs
  <2>2. \A k \in 1..Length : Content[k] \in Values
    BY <2>1, ElementOfSeq
  <2>3. m \in Int /\ 1 \in Int /\ \A k \in 1..m : Content[k] \in Values
    BY <1>2, <1>3, <2>2
  <2> QED
    BY <2>3, SubSeqProperties
<1> QED
  BY <1>1, <1>3, <1>6, <1>7, Zenon

LEMMA CallRead ==
    ASSUME TableInv, BufferInv, EndsInv, CallInv, NEW p \in Proc, NEW n \in Nat,
           Due(p, n), PipeRead(p, n)
    PROVE  CallInv'
<1>1. /\ lock = None /\ pc[p] \in {"user", "read"} /\ "r" \in fd[p] /\ n # 0 /\ got[p] = None
      /\ UNCHANGED fd /\ (readopen' <=> readopen)
  BY ReadHolds
<1>2. \A q \in Proc \ {p} : pc'[q] = pc[q] /\ arg'[q] = arg[q] /\ got'[q] = got[q]
  BY DEF PipeRead, Return, TableInv, Typed, BufferInv
<1>3. \/ pc'[p] = "user" /\ lock' = None /\ got'[p] = None
      \/ pc'[p] = "sleep nread" /\ lock' = p /\ got'[p] = None /\ arg'[p] = n
      \/ pc'[p] = "has read" /\ lock' = p /\ got'[p] # None
  <2>1. CASE Empty /\ writeopen
    <3>1. /\ got' = got
          /\ \/ pc' = [pc EXCEPT ![p] = "user"] /\ lock' = lock
             \/ /\ pc' = [pc EXCEPT ![p] = "sleep nread"] /\ lock' = p
                /\ arg' = [arg EXCEPT ![p] = n]
      BY <2>1 DEF PipeRead, Return
    <3> QED
      BY <1>1, <3>1 DEF TableInv, Typed
  <2>2. CASE ~Empty \/ ~writeopen
    <3>1. pc' = [pc EXCEPT ![p] = "has read"] /\ lock' = p
      BY <2>2 DEF PipeRead
    <3>2. \E s \in Seq(Values) : got' = [got EXCEPT ![p] = s]
      BY <2>2, ReadMaps
    <3>3. None \notin Seq(Values)
      BY PipeAssumption DEF Values
    <3>4. got'[p] # None
      BY <3>2, <3>3 DEF BufferInv
    <3> QED
      BY <3>1, <3>4 DEF TableInv, Typed
  <2> QED
    BY <2>1, <2>2
<1>4. Locks'
  <2>1. lock' = IF pc'[p] \in LockPlace THEN p ELSE None
    BY <1>3 DEF LockPlace
  <2> QED
    BY <1>1, <1>2, <2>1, LocksMove DEF CallInv
<1>5. Progress(p)'
  BY <1>1, <1>3 DEF Progress, ReadPlace, WritePlace
<1>6. \A q \in Proc : Progress(q)'
  BY <1>1, <1>2, <1>5, ProgressMove DEF CallInv
<1>7. Dead'
  BY <1>1, EndsOpen DEF Dead
<1> QED
  BY <1>4, <1>6, <1>7 DEF CallInv

LEMMA CallWrite ==
    ASSUME TableInv, BufferInv, EndsInv, CallInv, NEW p \in Proc, NEW n \in Nat, PipeWrite(p, n)
    PROVE  CallInv'
<1>1. /\ lock = None /\ pc[p] \in {"user", "write"} /\ "w" \in fd[p]
      /\ UNCHANGED <<fd, got>> /\ (writeopen' <=> writeopen)
  BY WriteHolds
<1>2. \A q \in Proc \ {p} : pc'[q] = pc[q] /\ arg'[q] = arg[q]
  BY DEF PipeWrite, Return, TableInv, Typed
<1>3. \/ pc'[p] = "user" /\ lock' = None
      \/ pc'[p] \in {"has written", "is full"} /\ lock' = p
  <2>1. \/ pc' = [pc EXCEPT ![p] = "has written"] /\ lock' = p
        \/ pc' = [pc EXCEPT ![p] = "user"] /\ lock' = lock
        \/ pc' = [pc EXCEPT ![p] = "is full"] /\ lock' = p
    BY DEF PipeWrite, Return
  <2> QED
    BY <1>1, <2>1 DEF TableInv, Typed
<1>4. Locks'
  <2>1. lock' = IF pc'[p] \in LockPlace THEN p ELSE None
    BY <1>3 DEF LockPlace
  <2> QED
    BY <1>1, <1>2, <2>1, LocksMove DEF CallInv
<1>5. Progress(p)'
  <2>1. got[p] = None
    BY <1>1 DEF CallInv, Progress
  <2> QED
    BY <1>1, <1>3, <2>1 DEF Progress, ReadPlace, WritePlace
<1>6. \A q \in Proc : Progress(q)'
  BY <1>1, <1>2, <1>5, ProgressMove DEF CallInv
<1>7. Dead'
  BY <1>1, EndsOpen DEF Dead
<1> QED
  BY <1>4, <1>6, <1>7 DEF CallInv

\* The rest of a call: p wakes somebody, or goes to sleep.
LEMMA CallReturns ==
    ASSUME TableInv, BufferInv, CallInv, NEW p \in Proc,
           ReadReturns(p) \/ WriteReturns(p) \/ WakeReaders(p)
    PROVE  CallInv'
<1>1. /\ UNCHANGED <<arg, fd>> /\ UNCHANGED bytes
      /\ (readopen' <=> readopen) /\ (writeopen' <=> writeopen)
  <2>1. UNCHANGED bytes /\ UNCHANGED ends /\ UNCHANGED arg
    BY DEF ReadReturns, WriteReturns, WakeReaders, pipe
  <2> QED
    BY <2>1 DEF ends
<1>2. \E v \in {"user", "sleep nwrite"} : pc' = [pc EXCEPT ![p] = v]
  BY DEF ReadReturns, WriteReturns, WakeReaders, Wakeup
<1>3. \A q \in Proc \ {p} : pc'[q] = pc[q] /\ got'[q] = got[q]
  BY <1>2 DEF TableInv, Typed, ReadReturns, WriteReturns, WakeReaders, pipe, BufferInv
<1>4. \/ pc[p] = "has read" /\ pc'[p] = "user" /\ got'[p] = None /\ lock' = None
      \/ pc[p] = "has written" /\ pc'[p] = "user" /\ got' = got /\ lock' = None
      \/ pc[p] = "is full" /\ pc'[p] = "sleep nwrite" /\ got' = got /\ lock' = lock
  BY DEF TableInv, Typed, ReadReturns, WriteReturns, WakeReaders, Wakeup, pipe, BufferInv
<1>5. lock = p
  BY <1>4 DEF CallInv, Locks, LockPlace
<1>6. Locks'
  <2>1. lock' = IF pc'[p] \in LockPlace THEN p ELSE None
    BY <1>4, <1>5 DEF LockPlace
  <2> QED
    BY <1>3, <1>5, <2>1, LocksMove DEF CallInv
<1>7. Progress(p)'
  BY <1>1, <1>4 DEF CallInv, Progress, ReadPlace, WritePlace
<1>8. \A q \in Proc : Progress(q)'
  BY <1>1, <1>3, <1>7, ProgressMove DEF CallInv
<1>9. Dead'
  BY <1>1, <1>3, <1>4, DeadStays DEF CallInv
<1> QED
  BY <1>6, <1>8, <1>9 DEF CallInv

LEMMA CallSleep ==
    ASSUME TableInv, CallInv, NEW p \in Proc, Sleep(p) \/ FallAsleep(p) PROVE CallInv'
<1>1. /\ UNCHANGED <<arg, fd, got>> /\ UNCHANGED bytes
      /\ (readopen' <=> readopen) /\ (writeopen' <=> writeopen)
  <2>1. UNCHANGED bytes /\ UNCHANGED ends /\ UNCHANGED <<arg, got>>
    BY DEF Sleep, FallAsleep, SleepLocks, SleepState, pipe
  <2> QED
    BY <2>1 DEF ends
<1>2. \A q \in Proc \ {p} : pc'[q] = pc[q]
  BY DEF Sleep, FallAsleep, SleepState, TableInv, Typed
<1>3. \/ pc[p] = "sleep nread" /\ pc'[p] = "asleep nread" /\ lock' = None
      \/ pc[p] = "sleep nwrite" /\ pc'[p] = "asleep nwrite" /\ lock' = None
      \/ pc[p] = "asleep nread" /\ pc'[p] = "read" /\ lock' = lock
      \/ pc[p] = "asleep nwrite" /\ pc'[p] = "write" /\ lock' = lock
  <2>1. CASE Sleep(p)
    BY <2>1 DEF Sleep, Asleep, TableInv, Typed
  <2>2. CASE FallAsleep(p)
    BY <2>2 DEF FallAsleep, SleepState, TableInv, Typed, pipe
  <2> QED
    BY <2>1, <2>2
<1>4. Locks'
  <2>1. CASE pc[p] \in {"sleep nread", "sleep nwrite"}
    <3>1. lock = p /\ lock' = None /\ pc'[p] \notin LockPlace
      BY <1>3, <2>1 DEF CallInv, Locks, LockPlace
    <3> QED
      BY <1>2, <3>1, LocksMove DEF CallInv
  <2>2. CASE pc[p] \in {"asleep nread", "asleep nwrite"}
    <3>1. lock' = lock /\ pc[p] \notin LockPlace /\ pc'[p] \notin LockPlace
      BY <1>3, <2>2 DEF LockPlace
    <3> QED
      BY <1>2, <3>1, LocksStay DEF CallInv
  <2> QED
    BY <1>3, <2>1, <2>2
<1>5. Progress(p)'
  BY <1>1, <1>3 DEF CallInv, Progress, ReadPlace, WritePlace
<1>6. \A q \in Proc : Progress(q)'
  BY <1>1, <1>2, <1>5, ProgressMove DEF CallInv
<1>7. Dead'
  BY <1>1, <1>2, <1>3, DeadStays DEF CallInv
<1> QED
  BY <1>4, <1>6, <1>7 DEF CallInv

LEMMA CallClose ==
    ASSUME TableInv, CallInv, NEW p \in Proc, NEW e \in fd[p], Close(p, e) PROVE CallInv'
<1>1. /\ UNCHANGED <<arg, lock, got>> /\ UNCHANGED bytes /\ pc[p] = "user"
      /\ (readopen' <=> readopen) /\ (writeopen' <=> writeopen)
  BY DEF Close
<1>2. /\ \A q \in Proc \ {p} : pc'[q] = pc[q] /\ fd'[q] = fd[q]
      /\ pc'[p] \in {"user", "close r", "close w"}
  BY DEF Close, TableInv, Typed
<1>3. Locks'
  BY <1>1, <1>2, LocksStay DEF CallInv, LockPlace
<1>4. Progress(p)'
  BY <1>1, <1>2 DEF CallInv, Progress, ReadPlace, WritePlace
<1>5. \A q \in Proc : Progress(q)'
  BY <1>1, <1>2, <1>4, ProgressMove DEF CallInv
<1>6. Dead'
  BY <1>1, <1>2, DeadStays DEF CallInv
<1> QED
  BY <1>3, <1>5, <1>6 DEF CallInv

LEMMA CallPipeClose ==
    ASSUME TableInv, CallInv, NEW p \in Proc, PipeClose(p) \/ PipeCloseReturns(p) PROVE CallInv'
<1>1. UNCHANGED <<arg, got, fd>>
  BY DEF PipeClose, PipeCloseReturns, ends
<1>2. /\ \A q \in Proc \ {p} : pc'[q] = pc[q]
      /\ \/ /\ pc[p] \in {"close r", "close w"} /\ pc'[p] \in {"closed r", "closed w"}
            /\ lock = None /\ lock' = p
         \/ /\ pc[p] \in {"closed r", "closed w"} /\ pc'[p] = "user" /\ lock' = None
            /\ PipeCloseReturns(p)
  BY DEF PipeClose, PipeCloseReturns, Wakeup, TableInv, Typed
<1>3. lock = None \/ lock = p
  BY <1>2 DEF CallInv, Locks, LockPlace
<1>4. Locks'
  <2>1. lock' = IF pc'[p] \in LockPlace THEN p ELSE None
    BY <1>2 DEF LockPlace
  <2> QED
    BY <1>2, <1>3, <2>1, LocksMove DEF CallInv
<1>5. Progress(p)'
  BY <1>1, <1>2 DEF CallInv, Progress, ReadPlace, WritePlace
<1>6. \A q \in Proc : Progress(q)'
  BY <1>1, <1>2, <1>5, ProgressMove DEF CallInv
<1>7. Dead'
  <2>1. CASE pc'[p] \in {"closed r", "closed w"}
    BY <2>1 DEF Dead
  <2>2. CASE PipeCloseReturns(p)
    BY <2>2 DEF PipeCloseReturns, ends, Dead, Empty
  <2> QED
    BY <1>2, <2>1, <2>2
<1> QED
  BY <1>4, <1>6, <1>7 DEF CallInv

LEMMA CallForked ==
    ASSUME TableInv, CallInv, NEW p \in Proc, Forked(p) PROVE CallInv'
<1> DEFINE n == arg[p]
<1>1. /\ pc[p] = "fork" /\ UNCHANGED <<lock, got>> /\ UNCHANGED bytes
      /\ pc' = [pc EXCEPT ![p] = "user", ![n] = "user"] /\ fd' = [fd EXCEPT ![n] = fd[p]]
      /\ arg' = [arg EXCEPT ![p] = 0]
      /\ (readopen' <=> readopen) /\ (writeopen' <=> writeopen)
  BY DEF Forked, ForkReturns
<1>2. n \in Proc /\ state[n] = "EMBRYO"
  BY <1>1 DEF TableInv, Embryos
<1> HIDE DEF n
<1>3. pc[n] = "user"
  BY <1>2 DEF TableInv, Idle
<1>4. /\ pc'[p] = "user" /\ pc'[n] = "user" /\ \A q \in Proc \ {p, n} : pc'[q] = pc[q]
      /\ \A q \in Proc \ {n} : fd'[q] = fd[q]
      /\ \A q \in Proc \ {p} : arg'[q] = arg[q]
  BY <1>1, <1>2 DEF TableInv, Typed
<1>5. Locks'
  <2>1. \A q \in Proc : \/ pc'[q] = pc[q]
                        \/ pc[q] \notin LockPlace /\ pc'[q] \notin LockPlace
    BY <1>1, <1>3, <1>4 DEF LockPlace
  <2> QED
    BY <1>1, <2>1, LocksStay DEF CallInv
<1>6. \A q \in Proc : Progress(q)'
  <2> TAKE q \in Proc
  <2>1. CASE q \in {p, n}
    BY <1>1, <1>3, <1>4, <2>1 DEF CallInv, Progress, ReadPlace, WritePlace
  <2>2. CASE q \notin {p, n}
    BY <1>1, <1>4, <2>2 DEF CallInv, Progress
  <2> QED
    BY <2>1, <2>2
<1>7. Dead'
  BY <1>1, <1>3, <1>4, DeadStays DEF CallInv
<1> QED
  BY <1>5, <1>6, <1>7 DEF CallInv

LEMMA CallInit == Init => CallInv
<1> SUFFICES ASSUME Init PROVE CallInv
  OBVIOUS
<1>1. \A p \in Proc : fd[p] = {} /\ pc[p] = "user" /\ got[p] = None
  BY DEF Init, ProcsInit
<1>2. lock = None /\ Empty
  BY DEF Init, Empty
<1>3. Locks
  BY <1>1, <1>2, Channels DEF Locks, LockPlace
<1>4. \A p \in Proc : Progress(p)
  BY <1>1 DEF Progress, ReadPlace, WritePlace
<1> QED
  BY <1>2, <1>3, <1>4 DEF CallInv, Dead

LEMMA CallNext == TableInv /\ BufferInv /\ EndsInv /\ CallInv /\ [Next]_vars => CallInv'
<1> SUFFICES ASSUME TableInv, BufferInv, EndsInv, CallInv, [Next]_vars PROVE CallInv'
  OBVIOUS
<1>1. ASSUME NEW p \in Proc, PipeStep(p) PROVE CallInv'
  BY <1>1, CallAlloc, CallRead, CallWrite, CallReturns, CallSleep, CallClose, CallPipeClose,
     CallForked DEF PipeStep
<1> QED
  BY <1>1, CallAside, Steps DEF BufferInv
\* p->lock is held from a call's look at the buffer to its end or its sleep,
\* a caller keeps the end that it uses, and whoever finds both ends closed and
\* nobody in pipeclose finds the buffer empty (pipe.c:60-121).
THEOREM CallsAreSound == Spec => []CallInv
<1>1. Spec => []TableInv
  BY TableIsSound
<1>2. Spec => []BufferInv
  BY BufferIsSound
<1>3. Spec => []EndsInv
  BY EndsAreSound
<1> QED
  BY <1>1, <1>2, <1>3, CallInit, CallNext, PTL DEF Spec

-----------------------------------------------------------------------------
(* Nobody sleeps over what he waits for *)

\* Where a wakeup of the readers, or of the writers, is still to come.
Fills == {"has written", "is full", "closed w"}

Drains == {"has read", "closed r"}

Dry == Empty /\ writeopen
Full == Length = PIPESIZE /\ readopen

WillRead(p) == pc[p] \in {"sleep nread", "asleep nread"} \/ Asleep1(p, NREAD)
WillWrite(p) == pc[p] \in {"sleep nwrite", "asleep nwrite", "is full"} \/ Asleep1(p, NWRITE)

\* No writer has been killed.
Spared == \A p \in Proc : pc[p] \in WritePlace => p \notin killed

\* Who sleeps, or is about to, has reason to, or a wakeup is still to come.
Readers == \A p \in Proc : WillRead(p) => Dry \/ \E q \in Proc : pc[q] \in Fills
Writers == \A p \in Proc : WillWrite(p) => Full \/ \E q \in Proc : pc[q] \in Drains

WaitInv == Spared /\ Readers /\ Writers

-----------------------------------------------------------------------------
(* How the parts are used and kept *)

LEMMA NoFill ==
    ASSUME Locks, Readers, lock = None \/ \E p \in Proc : lock = p /\ pc[p] \notin Fills
    PROVE  \A q \in Proc : WillRead(q) => Dry
<1>1. \A q \in Proc : pc[q] \in Fills => lock = q
  BY DEF Locks, Fills, LockPlace
<1>2. \A q \in Proc : pc[q] \notin Fills
  BY <1>1, Channels
<1> QED
  BY <1>2 DEF Readers

LEMMA NoDrain ==
    ASSUME Locks, Writers, lock = None \/ \E p \in Proc : lock = p /\ pc[p] \notin Drains
    PROVE  \A q \in Proc : WillWrite(q) => Full
<1>1. \A q \in Proc : pc[q] \in Drains => lock = q
  BY DEF Locks, Drains, LockPlace
<1>2. \A q \in Proc : pc[q] \notin Drains
  BY <1>1, Channels
<1> QED
  BY <1>2 DEF Writers

LEMMA SameBuffer ==
    ASSUME UNCHANGED bytes
    PROVE  /\ (writeopen' <=> writeopen) => (Dry' <=> Dry)
           /\ (readopen' <=> readopen) => (Full' <=> Full)
<1>1. Length' = Length /\ (Empty' <=> Empty)
  BY DEF bytes, Length, Empty
<1> QED
  BY <1>1 DEF Dry, Full

LEMMA SameWaits ==
    ASSUME Readers, Writers, Dry' <=> Dry, Full' <=> Full,
           \A q \in Proc : /\ WillRead(q)' => WillRead(q)
                           /\ WillWrite(q)' => WillWrite(q)
                           /\ pc[q] \in Fills \cup Drains => pc'[q] = pc[q]
    PROVE  Readers' /\ Writers'
<1>1. Readers'
  <2> SUFFICES ASSUME NEW q \in Proc, WillRead(q)' PROVE Dry' \/ \E r \in Proc : pc'[r] \in Fills
    BY DEF Readers, Fills
  <2>1. Dry \/ \E r \in Proc : pc[r] \in Fills
    BY DEF Readers
  <2> QED
    BY <2>1
<1>2. Writers'
  <2> SUFFICES ASSUME NEW q \in Proc, WillWrite(q)' PROVE Full' \/ \E r \in Proc : pc'[r] \in Drains
    BY DEF Writers, Drains
  <2>1. Full \/ \E r \in Proc : pc[r] \in Drains
    BY DEF Writers
  <2> QED
    BY <2>1
<1> QED
  BY <1>1, <1>2

\* A step of p alone, which nobody else notices.
LEMMA OthersWait ==
    ASSUME NEW p \in Proc, UNCHANGED <<state, chan>>, \A q \in Proc \ {p} : pc'[q] = pc[q]
    PROVE  \A q \in Proc \ {p} : /\ WillRead(q)' <=> WillRead(q)
                                 /\ WillWrite(q)' <=> WillWrite(q)
BY DEF WillRead, WillWrite, Asleep1

-----------------------------------------------------------------------------
(* The steps *)

LEMMA WaitAside ==
    ASSUME ~KillWriters, TableInv, CallInv, WaitInv, Aside PROVE WaitInv'
<1>1. \A q \in Proc : pc'[q] = pc[q] \/ {pc[q], pc'[q]} \subseteq {"user", "fork", "wait"}
  BY DEF Aside
<1>2. UNCHANGED bytes /\ lock' = lock /\ fd' = fd /\ (readopen' <=> readopen)
      /\ (writeopen' <=> writeopen)
  BY DEF Aside, pipe, ends
<1>3. Spared'
  <2>1. \A q \in Proc : q \in killed' => q \in killed \/ "w" \notin fd[q]
    BY DEF Aside
  <2> QED
    BY <1>1, <1>2, <2>1 DEF CallInv, Progress, WaitInv, Spared, WritePlace
<1>4. \A q \in Proc : \A ch \in {NREAD, NWRITE} : Asleep1(q, ch)' => Asleep1(q, ch)
  BY DEF Aside
<1>5. \A q \in Proc : /\ WillRead(q)' => WillRead(q)
                      /\ WillWrite(q)' => WillWrite(q)
                      /\ pc[q] \in Fills \cup Drains => pc'[q] = pc[q]
  BY <1>1, <1>4 DEF WillRead, WillWrite, Fills, Drains
<1>6. (Dry' <=> Dry) /\ (Full' <=> Full)
  BY <1>2, SameBuffer
<1>7. Readers' /\ Writers'
  BY <1>5, <1>6, SameWaits DEF WaitInv
<1> QED
  BY <1>3, <1>7 DEF WaitInv

LEMMA WaitAlloc ==
    ASSUME TableInv, CallInv, WaitInv, NEW p \in Proc, PipeAlloc(p) PROVE WaitInv'
<1>1. /\ pc[p] = "user" /\ ~readopen /\ ~writeopen /\ lock = None /\ lock' = None
      /\ fd' = [fd EXCEPT ![p] = {"r", "w"}] /\ UNCHANGED <<state, chan, pc, killed>>
  BY DEF PipeAlloc, InUser, ptable
<1>2. \A q \in Proc : ~WillRead(q)
  BY <1>1, NoFill DEF CallInv, WaitInv, Dry
<1>3. \A q \in Proc : ~WillWrite(q)
  BY <1>1, NoDrain DEF CallInv, WaitInv, Full
<1>4. \A q \in Proc : (WillRead(q)' <=> WillRead(q)) /\ (WillWrite(q)' <=> WillWrite(q))
  BY <1>1 DEF WillRead, WillWrite, Asleep1
<1>5. Readers' /\ Writers'
  BY <1>2, <1>3, <1>4 DEF Readers, Writers
<1>6. Spared'
  BY <1>1 DEF WaitInv, Spared
<1> QED
  BY <1>5, <1>6 DEF WaitInv

LEMMA SparedMove ==
    ASSUME Spared, NEW p \in Proc, UNCHANGED killed,
           \A q \in Proc \ {p} : pc'[q] = pc[q],
           pc'[p] \in WritePlace => p \notin killed
    PROVE  Spared'
BY DEF Spared

LEMMA WaitRead ==
    ASSUME TableInv, CallInv, WaitInv, NEW p \in Proc, NEW n \in Nat, PipeRead(p, n) PROVE WaitInv'
<1>1. /\ lock = None /\ pc[p] \in {"user", "read"} /\ "r" \in fd[p]
      /\ UNCHANGED <<state, chan, killed, fd>>
      /\ (readopen' <=> readopen) /\ (writeopen' <=> writeopen)
  BY DEF PipeRead, InUser, ends, CallInv, Progress, ReadPlace
<1>2. /\ \A q \in Proc \ {p} : pc'[q] = pc[q]
      /\ \/ pc'[p] = "user" /\ lock' = None /\ UNCHANGED bytes
         \/ pc'[p] = "sleep nread" /\ lock' = p /\ UNCHANGED bytes /\ Dry
         \/ pc'[p] = "has read" /\ lock' = p /\ ~Dry
  BY <1>1 DEF PipeRead, Return, TableInv, Typed, Dry, bytes
<1>3. Spared'
  BY <1>1, <1>2, SparedMove DEF WaitInv, WritePlace
<1>4. \A q \in Proc : (WillRead(q) => Dry) /\ (WillWrite(q) => Full)
  BY <1>1, NoFill, NoDrain DEF CallInv, WaitInv
<1>5. \A q \in Proc \ {p} : (WillRead(q)' <=> WillRead(q)) /\ (WillWrite(q)' <=> WillWrite(q))
  BY <1>1, <1>2, OthersWait
<1>6. state[p] = "RUNNING"
  BY DEF PipeRead, InUser, Running
<1>7. ~WillWrite(p)' /\ (WillRead(p)' => pc'[p] = "sleep nread")
  BY <1>1, <1>2, <1>6 DEF WillRead, WillWrite, Asleep1
<1>8. CASE UNCHANGED bytes /\ (pc'[p] = "sleep nread" => Dry)
  <2>1. (Dry' <=> Dry) /\ (Full' <=> Full)
    BY <1>1, <1>8, SameBuffer
  <2>2. Readers'
    BY <1>4, <1>5, <1>7, <1>8, <2>1 DEF Readers
  <2>3. Writers'
    BY <1>4, <1>5, <1>7, <2>1 DEF Writers
  <2> QED
    BY <1>3, <2>2, <2>3 DEF WaitInv
<1>9. CASE pc'[p] = "has read" /\ ~Dry
  <2>1. Readers'
    BY <1>4, <1>5, <1>7, <1>9 DEF Readers
  <2>2. Writers'
    BY <1>9 DEF Writers, Drains
  <2> QED
    BY <1>3, <2>1, <2>2 DEF WaitInv
<1> QED
  BY <1>2, <1>8, <1>9

LEMMA WaitWrite ==
    ASSUME TableInv, BufferInv, EndsInv, CallInv, WaitInv,
           NEW p \in Proc, NEW n \in Nat, PipeWrite(p, n)
    PROVE  WaitInv'
<1>1. /\ lock = None /\ pc[p] \in {"user", "write"} /\ "w" \in fd[p] /\ p \notin killed
      /\ UNCHANGED <<state, chan, killed, fd>>
      /\ (readopen' <=> readopen) /\ (writeopen' <=> writeopen)
  BY DEF PipeWrite, InUser, ends, CallInv, Progress, WaitInv, Spared, WritePlace
<1>2. /\ \A q \in Proc \ {p} : pc'[q] = pc[q]
      /\ \/ pc'[p] = "has written" /\ lock' = p
         \/ pc'[p] = "user" /\ lock' = None /\ ~readopen
         \/ pc'[p] = "is full" /\ lock' = p /\ readopen /\ ~(n < Space)
  <2> DEFINE m == IF n < Space THEN n ELSE Space
  <2>1. \/ pc' = [pc EXCEPT ![p] = "has written"] /\ lock' = p
        \/ m < n /\ (~readopen \/ p \in killed) /\ pc' = [pc EXCEPT ![p] = "user"] /\ lock' = lock
        \/ m < n /\ readopen /\ pc' = [pc EXCEPT ![p] = "is full"] /\ lock' = p
    BY DEF PipeWrite, Return
  <2>2. m < n => ~(n < Space)
    BY LengthIs, Bounds
  <2> HIDE DEF m
  <2> QED
    BY <1>1, <2>1, <2>2 DEF TableInv, Typed
<1>3. Spared'
  BY <1>1, <1>2, SparedMove DEF WaitInv
<1>4. \A q \in Proc : (WillRead(q) => Dry) /\ (WillWrite(q) => Full)
  BY <1>1, NoFill, NoDrain DEF CallInv, WaitInv
<1>5. \A q \in Proc \ {p} : (WillRead(q)' <=> WillRead(q)) /\ (WillWrite(q)' <=> WillWrite(q))
  BY <1>1, <1>2, OthersWait
<1>6. state[p] = "RUNNING"
  BY DEF PipeWrite, InUser, Running
<1>7. ~WillRead(p)' /\ (WillWrite(p)' => pc'[p] = "is full")
  BY <1>1, <1>2, <1>6 DEF WillRead, WillWrite, Asleep1
<1>8. ~(n < Space) => Length' = PIPESIZE
  BY WriteCounts
<1>9. CASE pc'[p] = "has written"
  <2>1. Readers'
    BY <1>9 DEF Readers, Fills
  <2>2. Full => Full'
    <3>1. SUFFICES ASSUME Length = PIPESIZE, readopen PROVE Length' = PIPESIZE
      BY <1>1 DEF Full
    <3>2. ~(n < Space)
      BY <3>1, LengthIs, Bounds
    <3> QED
      BY <1>8, <3>2
  <2>3. Writers'
    BY <1>4, <1>5, <1>7, <1>9, <2>2 DEF Writers
  <2> QED
    BY <1>3, <2>1, <2>3 DEF WaitInv
<1>10. CASE pc'[p] = "user" /\ ~readopen
  <2>1. \A q \in Proc : ~WillRead(q)
    <3>1. \A q \in Proc : WillRead(q) => pc[q] \in ReadPlace
      BY DEF TableInv, Sleeps, WillRead, Asleep1, ReadPlace
    <3>2. \A q \in Proc : WillRead(q) => "r" \in fd[q]
      BY <3>1 DEF CallInv, Progress
    <3> QED
      BY <1>10, <3>2 DEF EndsInv, OpenFor
  <2>2. \A q \in Proc : ~WillWrite(q)
    BY <1>4, <1>10 DEF Full
  <2>3. Readers'
    BY <1>5, <1>7, <2>1 DEF Readers
  <2>4. Writers'
    BY <1>5, <1>7, <1>10, <2>2 DEF Writers
  <2> QED
    BY <1>3, <2>3, <2>4 DEF WaitInv
<1>11. CASE pc'[p] = "is full" /\ readopen /\ ~(n < Space)
  <2>1. Readers'
    BY <1>11 DEF Readers, Fills
  <2>2. Full'
    BY <1>1, <1>8, <1>11 DEF Full
  <2>3. Writers'
    BY <2>2 DEF Writers
  <2> QED
    BY <1>3, <2>1, <2>3 DEF WaitInv
<1> QED
  BY <1>2, <1>9, <1>10, <1>11

\* A wakeup by p, who holds p->lock, of those who sleep on ch.
LEMMA Woken ==
    ASSUME TableInv, CallInv, WaitInv, NEW p \in Proc, NEW ch \in {NREAD, NWRITE}, NEW then,
           lock = p, Wakeup(p, ch, then)
    PROVE  /\ ptlock = None /\ UNCHANGED <<chan, killed>>
           /\ pc'[p] = then /\ \A q \in Proc \ {p} : pc'[q] = pc[q]
           /\ \A q \in Proc \ {p} : pc[q] \notin LockPlace /\ ~Falling(q)
           /\ \A q \in Proc \ {p} : /\ WillRead(q)' => WillRead(q) /\ ch # NREAD
                                    /\ WillWrite(q)' => WillWrite(q) /\ ch # NWRITE
           /\ \A d \in {NREAD, NWRITE} : ~Asleep1(p, d)'
<1>1. /\ Running(p) /\ ptlock = None /\ state' = WokenBy({ch}) /\ pc' = [pc EXCEPT ![p] = then]
      /\ UNCHANGED <<chan, killed>>
  BY DEF Wakeup
<1>2. \A q \in Proc : ~Falling(q) /\ state[p] = "RUNNING"
  BY <1>1, Alone
<1>3. pc'[p] = then /\ \A q \in Proc \ {p} : pc'[q] = pc[q]
  BY <1>1 DEF TableInv, Typed
<1>4. \A q \in Proc \ {p} : pc[q] \notin LockPlace
  BY DEF CallInv, Locks
<1>5. \A q \in Proc : \A d \in {NREAD, NWRITE} :
        Asleep1(q, d)' => Asleep1(q, d) /\ d # ch /\ q # p
  BY <1>1, <1>2 DEF Asleep1, WokenBy
<1>6. \A q \in Proc \ {p} : /\ WillRead(q)' => WillRead(q) /\ ch # NREAD
                            /\ WillWrite(q)' => WillWrite(q) /\ ch # NWRITE
  <2> TAKE q \in Proc \ {p}
  <2>1. pc'[q] \notin {"sleep nread", "asleep nread", "sleep nwrite", "asleep nwrite", "is full"}
    BY <1>2, <1>3, <1>4 DEF LockPlace, Falling
  <2> QED
    BY <1>5, <2>1 DEF WillRead, WillWrite
<1> QED
  BY <1>1, <1>2, <1>3, <1>4, <1>5, <1>6

LEMMA WaitReadReturns ==
    ASSUME TableInv, CallInv, WaitInv, NEW p \in Proc, ReadReturns(p) PROVE WaitInv'
<1>1. /\ pc[p] = "has read" /\ lock' = None /\ Wakeup(p, NWRITE, "user") /\ lock = p
      /\ UNCHANGED fd /\ UNCHANGED bytes
      /\ (readopen' <=> readopen) /\ (writeopen' <=> writeopen)
  BY DEF ReadReturns, ends, CallInv, Locks, LockPlace
<1>2. /\ UNCHANGED <<chan, killed>>
      /\ pc'[p] = "user" /\ \A q \in Proc \ {p} : pc'[q] = pc[q]
      /\ \A q \in Proc \ {p} : /\ WillRead(q)' => WillRead(q)
                               /\ ~WillWrite(q)'
      /\ \A d \in {NREAD, NWRITE} : ~Asleep1(p, d)'
  BY <1>1, Woken
<1>3. Spared'
  BY <1>1, <1>2, SparedMove DEF WaitInv, WritePlace
<1>4. ~WillRead(p)' /\ ~WillWrite(p)'
  BY <1>2 DEF WillRead, WillWrite
<1>5. \A q \in Proc : WillRead(q) => Dry
  BY <1>1, NoFill DEF CallInv, WaitInv, Fills
<1>6. Dry' <=> Dry
  BY <1>1, SameBuffer
<1>7. Readers'
  BY <1>2, <1>4, <1>5, <1>6 DEF Readers
<1>8. Writers'
  BY <1>2, <1>4 DEF Writers
<1> QED
  BY <1>3, <1>7, <1>8 DEF WaitInv

LEMMA WaitWriteReturns ==
    ASSUME TableInv, CallInv, WaitInv, NEW p \in Proc, WriteReturns(p) PROVE WaitInv'
<1>1. /\ pc[p] = "has written" /\ lock' = None /\ Wakeup(p, NREAD, "user") /\ lock = p
      /\ UNCHANGED fd /\ UNCHANGED bytes
      /\ (readopen' <=> readopen) /\ (writeopen' <=> writeopen)
  BY DEF WriteReturns, ends, CallInv, Locks, LockPlace
<1>2. /\ UNCHANGED <<chan, killed>>
      /\ pc'[p] = "user" /\ \A q \in Proc \ {p} : pc'[q] = pc[q]
      /\ \A q \in Proc \ {p} : /\ WillWrite(q)' => WillWrite(q)
                               /\ ~WillRead(q)'
      /\ \A d \in {NREAD, NWRITE} : ~Asleep1(p, d)'
  BY <1>1, Woken
<1>3. Spared'
  BY <1>1, <1>2, SparedMove DEF WaitInv, WritePlace
<1>4. ~WillRead(p)' /\ ~WillWrite(p)'
  BY <1>2 DEF WillRead, WillWrite
<1>5. \A q \in Proc : WillWrite(q) => Full
  BY <1>1, NoDrain DEF CallInv, WaitInv, Drains
<1>6. Full' <=> Full
  BY <1>1, SameBuffer
<1>7. Readers'
  BY <1>2, <1>4 DEF Readers
<1>8. Writers'
  BY <1>2, <1>4, <1>5, <1>6 DEF Writers
<1> QED
  BY <1>3, <1>7, <1>8 DEF WaitInv

LEMMA WaitWakeReaders ==
    ASSUME TableInv, CallInv, WaitInv, NEW p \in Proc, WakeReaders(p) PROVE WaitInv'
<1>1. /\ pc[p] = "is full" /\ lock' = p /\ Wakeup(p, NREAD, "sleep nwrite") /\ lock = p
      /\ UNCHANGED fd /\ UNCHANGED bytes
      /\ (readopen' <=> readopen) /\ (writeopen' <=> writeopen)
  BY DEF WakeReaders, pipe, ends, CallInv, Locks, LockPlace
<1>2. /\ UNCHANGED <<chan, killed>>
      /\ pc'[p] = "sleep nwrite" /\ \A q \in Proc \ {p} : pc'[q] = pc[q]
      /\ \A q \in Proc \ {p} : /\ WillWrite(q)' => WillWrite(q)
                               /\ ~WillRead(q)'
      /\ \A d \in {NREAD, NWRITE} : ~Asleep1(p, d)'
  BY <1>1, Woken
<1>3. p \notin killed
  BY <1>1 DEF WaitInv, Spared, WritePlace
<1>4. Spared'
  BY <1>1, <1>2, <1>3, SparedMove DEF WaitInv
<1>5. ~WillRead(p)' /\ WillWrite(p)
  BY <1>1, <1>2 DEF WillRead, WillWrite
<1>6. \A q \in Proc : WillWrite(q) => Full
  BY <1>1, NoDrain DEF CallInv, WaitInv, Drains
<1>7. Full' <=> Full
  BY <1>1, SameBuffer
<1>8. Readers'
  BY <1>2, <1>5 DEF Readers
<1>9. Writers'
  BY <1>2, <1>5, <1>6, <1>7 DEF Writers
<1> QED
  BY <1>4, <1>8, <1>9 DEF WaitInv

LEMMA WaitSleep ==
    ASSUME TableInv, CallInv, WaitInv, NEW p \in Proc, Sleep(p) \/ FallAsleep(p) PROVE WaitInv'
<1>1. UNCHANGED bytes /\ UNCHANGED <<fd, killed>>
      /\ (readopen' <=> readopen) /\ (writeopen' <=> writeopen)
  <2>1. UNCHANGED bytes /\ UNCHANGED ends
    BY DEF Sleep, FallAsleep, pipe
  <2>2. UNCHANGED killed
    BY DEF Sleep, FallAsleep, SleepLocks, SleepState
  <2> QED
    BY <2>1, <2>2 DEF ends
<1>2. \A q \in Proc \ {p} : pc'[q] = pc[q] /\ state'[q] = state[q] /\ chan'[q] = chan[q]
  <2>1. CASE Sleep(p)
    BY <2>1 DEF Sleep, SleepLocks, TableInv, Typed
  <2>2. CASE FallAsleep(p)
    BY <2>2 DEF FallAsleep, SleepState, TableInv, Typed
  <2> QED
    BY <2>1, <2>2
<1>3. \/ pc[p] = "sleep nread" /\ pc'[p] = "asleep nread"
      \/ pc[p] = "sleep nwrite" /\ pc'[p] = "asleep nwrite"
      \/ pc[p] = "asleep nread" /\ pc'[p] = "read" /\ chan'[p] = NREAD
      \/ pc[p] = "asleep nwrite" /\ pc'[p] = "write" /\ chan'[p] = NWRITE
  <2>1. CASE Sleep(p)
    BY <2>1 DEF Sleep, Asleep, TableInv, Typed
  <2>2. CASE FallAsleep(p)
    BY <2>2 DEF FallAsleep, SleepState, TableInv, Typed
  <2> QED
    BY <2>1, <2>2
<1>4. Spared'
  BY <1>1, <1>2, <1>3 DEF WaitInv, Spared, WritePlace
<1>5. \A q \in Proc \ {p} : /\ WillRead(q)' => WillRead(q)
                            /\ WillWrite(q)' => WillWrite(q)
  BY <1>2 DEF WillRead, WillWrite, Asleep1
<1>6. state[p] # "SLEEPING"
  BY DEF Sleep, FallAsleep, SleepLocks, SleepState, Running
<1>7. (WillRead(p)' => WillRead(p)) /\ (WillWrite(p)' => WillWrite(p))
  <2>1. CASE Sleep(p)
    <3>1. UNCHANGED state
      BY <2>1 DEF Sleep, SleepLocks
    <3> QED
      BY <1>3, <1>6, <2>1, <3>1 DEF WillRead, WillWrite, Asleep1
  <2>2. CASE FallAsleep(p)
    <3>1. pc[p] \in {"asleep nread", "asleep nwrite"}
      BY <2>2 DEF FallAsleep
    <3> QED
      BY <1>3, <3>1, Channels DEF WillRead, WillWrite, Asleep1
  <2> QED
    BY <2>1, <2>2
<1>8. \A q \in Proc : pc[q] \in Fills \cup Drains => pc'[q] = pc[q]
  BY <1>2, <1>3 DEF Fills, Drains
<1>9. (Dry' <=> Dry) /\ (Full' <=> Full)
  BY <1>1, SameBuffer
<1>10. Readers' /\ Writers'
  BY <1>5, <1>7, <1>8, <1>9, SameWaits DEF WaitInv
<1> QED
  BY <1>4, <1>10 DEF WaitInv

\* p, which does not read or write, changes its place, and one end its state.
LEMMA WaitClose ==
    ASSUME TableInv, CallInv, WaitInv, NEW p \in Proc, NEW e \in fd[p], Close(p, e) PROVE WaitInv'
<1>1. /\ pc[p] = "user" /\ UNCHANGED <<state, chan, killed, lock>> /\ UNCHANGED bytes
      /\ (readopen' <=> readopen) /\ (writeopen' <=> writeopen)
      /\ fd' = [fd EXCEPT ![p] = @ \ {e}]
  BY DEF Close
<1>2. /\ pc'[p] \in {"user", "close r", "close w"}
      /\ \A q \in Proc \ {p} : pc'[q] = pc[q] /\ fd'[q] = fd[q]
  BY <1>1 DEF Close, TableInv, Typed
<1>3. state[p] = "RUNNING"
  BY DEF Close, Running
<1>4. Spared'
  BY <1>1, <1>2 DEF WaitInv, Spared, WritePlace
<1>5. \A q \in Proc : /\ WillRead(q)' => WillRead(q)
                      /\ WillWrite(q)' => WillWrite(q)
                      /\ pc[q] \in Fills \cup Drains => pc'[q] = pc[q]
  BY <1>1, <1>2, <1>3 DEF WillRead, WillWrite, Asleep1, Fills, Drains
<1>6. (Dry' <=> Dry) /\ (Full' <=> Full)
  BY <1>1, SameBuffer
<1>7. Readers' /\ Writers'
  BY <1>5, <1>6, SameWaits DEF WaitInv
<1> QED
  BY <1>4, <1>7 DEF WaitInv

LEMMA WaitPipeClose ==
    ASSUME TableInv, CallInv, WaitInv, NEW p \in Proc, PipeClose(p) PROVE WaitInv'
<1>1. /\ lock = None /\ lock' = p /\ UNCHANGED <<state, chan, killed, fd>> /\ UNCHANGED bytes
      /\ state[p] = "RUNNING"
  BY DEF PipeClose, Running
<1>2. /\ \A q \in Proc \ {p} : pc'[q] = pc[q]
      /\ \/ pc'[p] = "closed w" /\ readopen' = readopen
         \/ pc'[p] = "closed r" /\ writeopen' = writeopen
  BY DEF PipeClose, TableInv, Typed
<1>3. Spared'
  BY <1>1, <1>2, SparedMove DEF WaitInv, WritePlace
<1>4. \A q \in Proc : (WillRead(q) => Dry) /\ (WillWrite(q) => Full)
  BY <1>1, NoFill, NoDrain DEF CallInv, WaitInv
<1>5. \A q \in Proc \ {p} : (WillRead(q)' <=> WillRead(q)) /\ (WillWrite(q)' <=> WillWrite(q))
  BY <1>1, <1>2, OthersWait
<1>6. ~WillRead(p)' /\ ~WillWrite(p)'
  BY <1>1, <1>2 DEF WillRead, WillWrite, Asleep1
<1>7. CASE pc'[p] = "closed w" /\ readopen' = readopen
  <2>1. Readers'
    BY <1>7 DEF Readers, Fills
  <2>2. Full' <=> Full
    BY <1>1, <1>7, SameBuffer
  <2>3. Writers'
    BY <1>4, <1>5, <1>6, <2>2 DEF Writers
  <2> QED
    BY <1>3, <2>1, <2>3 DEF WaitInv
<1>8. CASE pc'[p] = "closed r" /\ writeopen' = writeopen
  <2>1. Writers'
    BY <1>8 DEF Writers, Drains
  <2>2. Dry' <=> Dry
    BY <1>1, <1>8, SameBuffer
  <2>3. Readers'
    BY <1>4, <1>5, <1>6, <2>2 DEF Readers
  <2> QED
    BY <1>3, <2>1, <2>3 DEF WaitInv
<1> QED
  BY <1>2, <1>7, <1>8

LEMMA WaitPipeCloseReturns ==
    ASSUME TableInv, CallInv, WaitInv, NEW p \in Proc, PipeCloseReturns(p) PROVE WaitInv'
<1>1. /\ lock' = None /\ lock = p /\ UNCHANGED fd
      /\ (readopen' <=> readopen) /\ (writeopen' <=> writeopen)
      /\ readopen \/ writeopen => UNCHANGED bytes
  BY DEF PipeCloseReturns, ends, CallInv, Locks, LockPlace
<1>2. PICK ch \in {NREAD, NWRITE} :
        /\ Wakeup(p, ch, "user")
        /\ pc[p] = IF ch = NREAD THEN "closed w" ELSE "closed r"
  BY Channels DEF PipeCloseReturns
<1>3. /\ UNCHANGED <<chan, killed>>
      /\ pc'[p] = "user" /\ \A q \in Proc \ {p} : pc'[q] = pc[q]
      /\ \A q \in Proc \ {p} : /\ WillRead(q)' => WillRead(q) /\ ch # NREAD
                               /\ WillWrite(q)' => WillWrite(q) /\ ch # NWRITE
      /\ \A d \in {NREAD, NWRITE} : ~Asleep1(p, d)'
  BY <1>1, <1>2, Woken
<1>4. Spared'
  BY <1>1, <1>3, SparedMove DEF WaitInv, WritePlace
<1>5. ~WillRead(p)' /\ ~WillWrite(p)'
  BY <1>3 DEF WillRead, WillWrite
<1>6. CASE ch = NREAD
  <2>1. Readers'
    BY <1>3, <1>5, <1>6 DEF Readers
  <2>2. \A q \in Proc : WillWrite(q) => Full
    BY <1>1, <1>2, <1>6, NoDrain DEF CallInv, WaitInv, Drains
  <2>3. Full => Full'
    BY <1>1, SameBuffer DEF Full
  <2>4. Writers'
    BY <1>3, <1>5, <2>2, <2>3 DEF Writers
  <2> QED
    BY <1>4, <2>1, <2>4 DEF WaitInv
<1>7. CASE ch = NWRITE
  <2>1. Writers'
    BY <1>3, <1>5, <1>7 DEF Writers
  <2>2. \A q \in Proc : WillRead(q) => Dry
    BY <1>1, <1>2, <1>7, NoFill, Channels DEF CallInv, WaitInv, Fills
  <2>3. Dry => Dry'
    BY <1>1, SameBuffer DEF Dry
  <2>4. Readers'
    BY <1>3, <1>5, <2>2, <2>3 DEF Readers
  <2> QED
    BY <1>4, <2>1, <2>4 DEF WaitInv
<1> QED
  BY <1>6, <1>7

LEMMA WaitForked ==
    ASSUME TableInv, CallInv, WaitInv, NEW p \in Proc, Forked(p) PROVE WaitInv'
<1> DEFINE n == arg[p]
<1>1. /\ pc[p] = "fork" /\ state[p] = "RUNNING"
      /\ pc' = [pc EXCEPT ![p] = "user", ![n] = "user"] /\ fd' = [fd EXCEPT ![n] = fd[p]]
      /\ state' = [state EXCEPT ![n] = "RUNNABLE"]
      /\ UNCHANGED <<chan, killed, lock>> /\ UNCHANGED bytes
      /\ (readopen' <=> readopen) /\ (writeopen' <=> writeopen)
  BY DEF Forked, ForkReturns, Running
<1>2. n \in Proc /\ state[n] = "EMBRYO"
  BY <1>1 DEF TableInv, Embryos
<1> HIDE DEF n
<1>3. pc[n] = "user"
  BY <1>2 DEF TableInv, Idle
<1>4. \A q \in Proc \ {n} : fd'[q] = fd[q] /\ state'[q] = state[q]
  BY <1>1, <1>2 DEF TableInv, Typed
<1>5. /\ pc'[p] = "user" /\ pc'[n] = "user" /\ state'[n] = "RUNNABLE"
      /\ \A q \in Proc \ {p, n} : pc'[q] = pc[q]
  BY <1>1, <1>2 DEF TableInv, Typed
<1>6. Spared'
  BY <1>1, <1>4, <1>5 DEF WaitInv, Spared, WritePlace
<1>7. \A q \in Proc : /\ WillRead(q)' => WillRead(q)
                      /\ WillWrite(q)' => WillWrite(q)
                      /\ pc[q] \in Fills \cup Drains => pc'[q] = pc[q]
  BY <1>1, <1>3, <1>4, <1>5 DEF WillRead, WillWrite, Asleep1, Fills, Drains
<1>8. (Dry' <=> Dry) /\ (Full' <=> Full)
  BY <1>1, SameBuffer
<1>9. Readers' /\ Writers'
  BY <1>7, <1>8, SameWaits DEF WaitInv
<1> QED
  BY <1>6, <1>9 DEF WaitInv

LEMMA WaitInit == Init => WaitInv
<1> SUFFICES ASSUME Init PROVE WaitInv
  OBVIOUS
<1>1. \A p \in Proc : pc[p] = "user" /\ chan[p] = None /\ p \notin killed
  BY DEF Init, ProcsInit
<1>2. Spared
  BY <1>1 DEF Spared
<1>3. \A p \in Proc : ~WillRead(p) /\ ~WillWrite(p)
  BY <1>1, Channels DEF WillRead, WillWrite, Asleep1
<1> QED
  BY <1>2, <1>3 DEF WaitInv, Readers, Writers

LEMMA WaitNext ==
    ASSUME ~KillWriters
    PROVE  TableInv /\ BufferInv /\ EndsInv /\ CallInv /\ WaitInv /\ [Next]_vars => WaitInv'
<1> SUFFICES ASSUME TableInv, BufferInv, EndsInv, CallInv, WaitInv, [Next]_vars PROVE WaitInv'
  OBVIOUS
<1>1. CASE Aside
  BY <1>1, WaitAside
<1>2. ASSUME NEW p \in Proc, PipeStep(p) PROVE WaitInv'
  BY <1>2, WaitAlloc, WaitRead, WaitWrite, WaitReadReturns, WaitWriteReturns, WaitWakeReaders,
     WaitSleep, WaitClose, WaitPipeClose, WaitPipeCloseReturns, WaitForked DEF PipeStep
<1> QED
  BY <1>1, <1>2, Steps DEF BufferInv

-----------------------------------------------------------------------------
(* wait: a parent that sleeps has children and none to reap *)

Alive == {"SLEEPING", "RUNNABLE", "RUNNING"}

ParentsInv ==
    /\ parent[InitProc] = None /\ state[InitProc] \in Alive
    /\ \A p \in Proc : parent[p] # p
    /\ \A p \in Proc : Asleep1(p, p) =>
          (\E q \in Proc : parent[q] = p) /\ \A q \in Proc : parent[q] = p => state[q] # "ZOMBIE"

\* A step in which nobody exits, is reaped or falls asleep in wait.
Mild ==
    /\ parent' = parent
    /\ \A q \in Proc : state'[q] = "ZOMBIE" => state[q] = "ZOMBIE"
    /\ \A q \in Proc : Asleep1(q, q)' => Asleep1(q, q)
    /\ state[InitProc] \in Alive => state'[InitProc] \in Alive

LEMMA MildKeeps == ASSUME ParentsInv, Mild PROVE ParentsInv'
<1>1. parent'[InitProc] = None /\ state'[InitProc] \in Alive
  BY DEF ParentsInv, Mild
<1>2. \A p \in Proc : parent'[p] # p
  BY DEF ParentsInv, Mild
<1>3. \A p \in Proc : Asleep1(p, p)' =>
        (\E q \in Proc : parent'[q] = p) /\ \A q \in Proc : parent'[q] = p => state'[q] # "ZOMBIE"
  BY DEF ParentsInv, Mild
<1> QED
  BY <1>1, <1>2, <1>3 DEF ParentsInv, Alive

LEMMA MildQuiet ==
    ASSUME TableInv, NEW p \in Proc,
           \/ PipeAlloc(p) \/ (\E n \in Nat : PipeRead(p, n) \/ PipeWrite(p, n))
           \/ (\E e \in fd[p] : Close(p, e)) \/ PipeClose(p) \/ Sleep(p)
    PROVE  Mild
<1>1. UNCHANGED <<state, chan, parent>>
  BY DEF PipeAlloc, PipeRead, PipeWrite, Close, PipeClose, Sleep, SleepLocks, ptable
<1> QED
  BY <1>1 DEF Mild, Asleep1

LEMMA MildWakeup ==
    ASSUME TableInv, NEW p \in Proc,
           \/ ReadReturns(p) \/ WriteReturns(p) \/ WakeReaders(p) \/ PipeCloseReturns(p)
    PROVE  Mild
<1>1. UNCHANGED <<chan, parent>> /\ \E S : state' = WokenBy(S)
  BY DEF ReadReturns, WriteReturns, WakeReaders, PipeCloseReturns, Wakeup
<1>2. \A q \in Proc : \/ state'[q] = state[q]
                      \/ state[q] = "SLEEPING" /\ state'[q] = "RUNNABLE"
  BY <1>1, WokenByTypes DEF TableInv
<1> QED
  BY <1>1, <1>2, Channels DEF Mild, Asleep1, Alive

LEMMA MildFall == ASSUME TableInv, NEW p \in Proc, FallAsleep(p) PROVE Mild
<1>1. /\ parent' = parent /\ state' = [state EXCEPT ![p] = "SLEEPING"] /\ state[p] = "RUNNING"
      /\ \E ch \in {NREAD, NWRITE} : chan' = [chan EXCEPT ![p] = ch]
  BY DEF FallAsleep, SleepState, Running
<1>2. /\ state'[p] = "SLEEPING" /\ chan'[p] # p
      /\ \A q \in Proc \ {p} : state'[q] = state[q] /\ chan'[q] = chan[q]
  BY <1>1, Channels DEF TableInv, Typed
<1> QED
  BY <1>1, <1>2, Channels DEF Mild, Asleep1, Alive

LEMMA MildTable ==
    ASSUME TableInv,
           \/ \E p, q \in Proc : Killed(p, q)
           \/ \E p \in Proc : Fork(p) \/ ForkFails(p) \/ Timer(p)
           \/ \E c \in Cpu : Scheduler(c)
           \/ UNCHANGED vars
    PROVE  Mild
<1>1. CASE \E p, q \in Proc : Killed(p, q)
  <2>1. PICK q \in Proc : /\ UNCHANGED <<chan, parent>>
                          /\ state' = [state EXCEPT ![q] = IF @ = "SLEEPING" THEN "RUNNABLE" ELSE @]
    BY <1>1 DEF Killed, Kill
  <2>2. \A r \in Proc : \/ state'[r] = state[r]
                        \/ state[r] = "SLEEPING" /\ state'[r] = "RUNNABLE"
    BY <2>1 DEF TableInv, Typed
  <2> QED
    BY <2>1, <2>2, Channels DEF Mild, Asleep1, Alive
<1>2. CASE \E p \in Proc : Fork(p) \/ ForkFails(p)
  <2>1. PICK n \in Proc : /\ UNCHANGED <<chan, parent>> /\ state[n] \in {"UNUSED", "LEFT", "EMBRYO"}
                          /\ \E v \in {"LEFT", "EMBRYO"} : state' = [state EXCEPT ![n] = v]
    <3>1. CASE \E p \in Proc : Fork(p)
      <4>1. /\ Free # {} /\ Free \in SUBSET Proc /\ UNCHANGED <<chan, parent>>
            /\ state' = [state EXCEPT ![Min(Free)] = "EMBRYO"]
        BY <3>1 DEF Fork, Free
      <4>2. Min(Free) \in Proc /\ state[Min(Free)] \in {"UNUSED", "LEFT"}
        BY <4>1, MinIn DEF Free
      <4> QED
        BY <4>1, <4>2
    <3>2. CASE \E p \in Proc : ForkFails(p)
      BY <3>2 DEF ForkFails, TableInv, Embryos
    <3> QED
      BY <1>2, <3>1, <3>2
  <2>2. /\ state'[n] \in {"LEFT", "EMBRYO"} /\ \A q \in Proc \ {n} : state'[q] = state[q]
    BY <2>1 DEF TableInv, Typed
  <2> QED
    BY <2>1, <2>2, Channels DEF Mild, Asleep1, Alive
<1>3. CASE \E p \in Proc : Timer(p)
  <2>1. PICK p \in Proc : /\ UNCHANGED <<chan, parent>> /\ state[p] = "RUNNING"
                          /\ state' = [state EXCEPT ![p] = "RUNNABLE"]
    BY <1>3 DEF Timer, Yield, Running
  <2>2. state'[p] = "RUNNABLE" /\ \A q \in Proc \ {p} : state'[q] = state[q]
    BY <2>1 DEF TableInv, Typed
  <2> QED
    BY <2>1, <2>2, Channels DEF Mild, Asleep1, Alive
<1>4. CASE \E c \in Cpu : Scheduler(c)
  <2>1. /\ parent' = parent
        /\ \/ UNCHANGED <<state, chan>>
           \/ \E r : state' = [state EXCEPT ![r] = "RUNNING"] /\ chan' = [chan EXCEPT ![r] = None]
    BY <1>4 DEF Scheduler, Pass, Sched, Continue
  <2>2. \A q \in Proc : \/ state'[q] = state[q] /\ chan'[q] = chan[q]
                        \/ state'[q] = "RUNNING"
    BY <2>1 DEF TableInv, Typed
  <2> QED
    BY <2>1, <2>2, Channels DEF Mild, Asleep1, Alive
<1>5. CASE UNCHANGED vars
  BY <1>5 DEF vars, ptable, Mild, Asleep1
<1> QED
  BY <1>1, <1>2, <1>3, <1>4, <1>5

LEMMA ParentsForked == ASSUME TableInv, ParentsInv, NEW p \in Proc, Forked(p) PROVE ParentsInv'
<1> DEFINE n == arg[p]
<1>1. /\ pc[p] = "fork" /\ state[p] = "RUNNING" /\ chan' = chan
      /\ state' = [state EXCEPT ![n] = "RUNNABLE"] /\ parent' = [parent EXCEPT ![n] = p]
  BY DEF Forked, ForkReturns, Running
<1>2. n \in Proc /\ state[n] = "EMBRYO"
  BY <1>1 DEF TableInv, Embryos
<1> HIDE DEF n
<1>3. parent[n] = None /\ n # p /\ n # InitProc
  BY <1>1, <1>2 DEF TableInv, Idle, ParentsInv, Alive
<1>4. /\ state'[n] = "RUNNABLE" /\ parent'[n] = p
      /\ \A q \in Proc \ {n} : state'[q] = state[q] /\ parent'[q] = parent[q]
  BY <1>1, <1>2 DEF TableInv, Typed
<1>5. parent'[InitProc] = None /\ state'[InitProc] \in Alive
  BY <1>3, <1>4, Channels DEF ParentsInv
<1>6. \A q \in Proc : parent'[q] # q
  BY <1>3, <1>4 DEF ParentsInv
<1>7. \A q \in Proc : Asleep1(q, q)' =>
        (\E r \in Proc : parent'[r] = q) /\ \A r \in Proc : parent'[r] = q => state'[r] # "ZOMBIE"
  <2> TAKE q \in Proc
  <2> HAVE Asleep1(q, q)'
  <2>1. Asleep1(q, q)
    BY <1>1, <1>4 DEF Asleep1
  <2>2. PICK r \in Proc : parent[r] = q
    BY <2>1 DEF ParentsInv
  <2>3. parent'[r] = q
    BY <1>3, <1>4, <2>2, Channels
  <2>4. \A x \in Proc : parent'[x] = q => state'[x] # "ZOMBIE"
    BY <1>4, <2>1 DEF ParentsInv
  <2> QED
    BY <2>3, <2>4
<1> QED
  BY <1>5, <1>6, <1>7 DEF ParentsInv, Alive

LEMMA ParentsExited == ASSUME TableInv, ParentsInv, NEW p \in Proc, Exited(p) PROVE ParentsInv'
<1> DEFINE orphaned == \E q \in Children(p) : state[q] = "ZOMBIE"
           woken == {parent[p]} \cup IF orphaned THEN {InitProc} ELSE {}
<1>1. /\ p # InitProc /\ chan' = chan /\ state' = [WokenBy(woken) EXCEPT ![p] = "ZOMBIE"]
      /\ parent' = [q \in Proc |-> IF q \in Children(p) THEN InitProc ELSE parent[q]]
  BY DEF Exited, Exit
<1>2. parent[p] \in woken /\ (orphaned => InitProc \in woken)
  OBVIOUS
<1>3. /\ state'[p] = "ZOMBIE"
      /\ \A q \in Proc \ {p} :
            state'[q] = IF state[q] = "SLEEPING" /\ chan[q] \in woken THEN "RUNNABLE" ELSE state[q]
  BY <1>1 DEF WokenBy
<1>4. orphaned <=> \E q \in Proc : parent[q] = p /\ state[q] = "ZOMBIE"
  BY DEF Children
<1> HIDE DEF woken, orphaned
<1>5. \A q \in Proc : parent'[q] = IF parent[q] = p THEN InitProc ELSE parent[q]
  BY <1>1 DEF Children
<1>6. parent'[InitProc] = None /\ state'[InitProc] \in Alive
  BY <1>1, <1>3, <1>5, Channels DEF ParentsInv, Alive
<1>7. \A q \in Proc : parent'[q] # q
  BY <1>5, Channels DEF ParentsInv
<1>8. \A q \in Proc : Asleep1(q, q)' =>
        (\E r \in Proc : parent'[r] = q) /\ \A r \in Proc : parent'[r] = q => state'[r] # "ZOMBIE"
  <2> TAKE q \in Proc
  <2> HAVE Asleep1(q, q)'
  <2>1. Asleep1(q, q) /\ q # p /\ q \notin woken
    BY <1>1, <1>3 DEF Asleep1
  <2>2. q # parent[p] /\ (q = InitProc => ~orphaned)
    BY <1>2, <2>1
  <2>3. PICK r \in Proc : parent[r] = q
    BY <2>1 DEF ParentsInv
  <2>4. parent'[r] = q
    BY <1>5, <2>1, <2>3
  <2>5. ASSUME NEW x \in Proc, parent'[x] = q PROVE state'[x] # "ZOMBIE"
    <3>1. x # p
      <4>1. parent'[p] = parent[p]
        BY <1>5 DEF ParentsInv
      <4> QED
        BY <2>2, <2>5, <4>1
    <3>2. state[x] # "ZOMBIE"
      <4>1. CASE parent[x] = p
        BY <1>4, <1>5, <2>2, <2>5, <4>1
      <4>2. CASE parent[x] # p
        BY <1>5, <2>1, <2>5, <4>2 DEF ParentsInv
      <4> QED
        BY <4>1, <4>2
    <3> QED
      BY <1>3, <3>1, <3>2
  <2> QED
    BY <2>4, <2>5
<1> QED
  BY <1>6, <1>7, <1>8 DEF ParentsInv, Alive

LEMMA ParentsWaits == ASSUME TableInv, ParentsInv, NEW p \in Proc, Waits(p) PROVE ParentsInv'
<1>1. state[p] = "RUNNING"
  BY DEF Waits, Wait, Running
<1> DEFINE zombies == {q \in Children(p) : state[q] = "ZOMBIE"}
<1>2. CASE zombies # {}
  <2>1. PICK z \in Proc :
          /\ parent[z] = p /\ state[z] = "ZOMBIE" /\ chan' = chan
          /\ state' = [state EXCEPT ![z] = "UNUSED"] /\ parent' = [parent EXCEPT ![z] = None]
    <3>1. zombies \in SUBSET Proc
      BY DEF Children
    <3>2. Min(zombies) \in zombies
      BY <1>2, <3>1, MinIn
    <3> QED
      BY <1>2, <3>1, <3>2 DEF Waits, Wait, Children
  <2>2. /\ state'[z] = "UNUSED" /\ parent'[z] = None
        /\ \A q \in Proc \ {z} : state'[q] = state[q] /\ parent'[q] = parent[q]
    BY <2>1 DEF TableInv, Typed
  <2>3. parent'[InitProc] = None /\ state'[InitProc] \in Alive
    BY <2>1, <2>2, Channels DEF ParentsInv, Alive
  <2>4. \A q \in Proc : parent'[q] # q
    BY <2>2, Channels DEF ParentsInv
  <2>5. \A q \in Proc : Asleep1(q, q)' =>
          (\E r \in Proc : parent'[r] = q) /\ \A r \in Proc : parent'[r] = q => state'[r] # "ZOMBIE"
    <3> TAKE q \in Proc
    <3> HAVE Asleep1(q, q)'
    <3>1. Asleep1(q, q) /\ q # p
      BY <1>1, <2>1, <2>2 DEF Asleep1
    <3>2. PICK r \in Proc : parent[r] = q
      BY <3>1 DEF ParentsInv
    <3>3. parent'[r] = q
      BY <2>1, <2>2, <3>1, <3>2
    <3>4. \A x \in Proc : parent'[x] = q => state'[x] # "ZOMBIE"
      BY <2>2, <3>1, Channels DEF ParentsInv
    <3> QED
      BY <3>3, <3>4
  <2> QED
    BY <2>3, <2>4, <2>5 DEF ParentsInv, Alive
<1>3. CASE zombies = {} /\ (Children(p) = {} \/ p \in killed)
  <2>1. UNCHANGED <<state, chan, parent>>
    BY <1>3 DEF Waits, Wait
  <2>2. Mild
    BY <2>1 DEF Mild, Asleep1
  <2> QED
    BY <2>2, MildKeeps
<1>4. CASE zombies = {} /\ Children(p) # {} /\ p \notin killed
  <2>1. /\ parent' = parent /\ state' = [state EXCEPT ![p] = "SLEEPING"]
        /\ chan' = [chan EXCEPT ![p] = p]
    BY <1>4 DEF Waits, Wait
  <2>2. /\ state'[p] = "SLEEPING"
        /\ \A q \in Proc \ {p} : state'[q] = state[q] /\ chan'[q] = chan[q]
    BY <2>1 DEF TableInv, Typed
  <2>3. /\ \E q \in Proc : parent[q] = p
        /\ \A q \in Proc : parent[q] = p => state[q] # "ZOMBIE"
    BY <1>4 DEF Children
  <2>4. parent'[InitProc] = None /\ state'[InitProc] \in Alive /\ \A q \in Proc : parent'[q] # q
    BY <2>1, <2>2, Channels DEF ParentsInv, Alive
  <2>5. \A q \in Proc : Asleep1(q, q)' =>
          (\E r \in Proc : parent'[r] = q) /\ \A r \in Proc : parent'[r] = q => state'[r] # "ZOMBIE"
    <3> TAKE q \in Proc
    <3> HAVE Asleep1(q, q)'
    <3>1. q = p \/ Asleep1(q, q)
      BY <2>2 DEF Asleep1
    <3>2. (\E r \in Proc : parent[r] = q) /\ \A r \in Proc : parent[r] = q => state[r] # "ZOMBIE"
      BY <2>3, <3>1 DEF ParentsInv
    <3>3. \A r \in Proc : state'[r] = "ZOMBIE" => state[r] = "ZOMBIE"
      BY <2>2
    <3> QED
      BY <2>1, <3>2, <3>3
  <2> QED
    BY <2>4, <2>5 DEF ParentsInv, Alive
<1> QED
  BY <1>2, <1>3, <1>4

LEMMA ParentsNext == TableInv /\ BufferInv /\ ParentsInv /\ [Next]_vars => ParentsInv'
<1> SUFFICES ASSUME TableInv, BufferInv, ParentsInv, [Next]_vars PROVE ParentsInv'
  OBVIOUS
<1>1. \A n \in Sizes : n \in Nat /\ n # 0
  BY PipeAssumption
<1>2. ASSUME NEW p \in Proc, PipeStep(p) PROVE ParentsInv'
  BY <1>2, MildQuiet, MildWakeup, MildFall, MildKeeps, ParentsForked DEF PipeStep
<1>3. ASSUME NEW p \in Proc, Call(p) PROVE ParentsInv'
  <2>1. CASE PipeAlloc(p) \/ \E e \in fd[p] : Close(p, e)
    BY <1>2, <2>1 DEF PipeStep
  <2>2. CASE \E n \in Sizes : InUser(p) /\ (PipeRead(p, n) \/ PipeWrite(p, n))
    BY <1>1, <1>2, <2>2 DEF PipeStep, Due
  <2>3. CASE Fork(p) \/ \E q \in Proc : Killed(p, q)
    BY <2>3, MildTable, MildKeeps
  <2>4. CASE Exited(p) \/ Waits(p)
    BY <2>4, ParentsExited, ParentsWaits
  <2> QED
    BY <1>3, <2>1, <2>2, <2>3, <2>4 DEF Call
<1>4. ASSUME NEW p \in Proc, Kernel(p) PROVE ParentsInv'
  <2>1. CASE pc[p] # "user" /\ (PipeRead(p, arg[p]) \/ PipeWrite(p, arg[p]))
    BY <1>2, <2>1 DEF PipeStep, BufferInv, Numbers, Due
  <2>2. CASE \/ ReadReturns(p) \/ WriteReturns(p) \/ WakeReaders(p) \/ Sleep(p)
             \/ FallAsleep(p) \/ PipeClose(p) \/ PipeCloseReturns(p) \/ Forked(p)
    BY <1>2, <2>2 DEF PipeStep
  <2>3. CASE ForkFails(p)
    BY <2>3, MildTable, MildKeeps
  <2>4. CASE Waits(p)
    BY <2>4, ParentsWaits
  <2> QED
    BY <1>4, <2>1, <2>2, <2>3, <2>4 DEF Kernel
<1>5. CASE (\E c \in Cpu : Scheduler(c)) \/ (\E p \in Proc : Timer(p)) \/ UNCHANGED vars
  BY <1>5, MildTable, MildKeeps
<1> QED
  BY <1>3, <1>4, <1>5 DEF Next

LEMMA ParentsInit == Init => ParentsInv
<1> SUFFICES ASSUME Init PROVE ParentsInv
  OBVIOUS
<1>1. \A p \in Proc : parent[p] = None /\ chan[p] = None
  BY DEF Init, ProcsInit
<1>2. state[InitProc] = "RUNNABLE"
  BY Channels DEF Init, ProcsInit
<1> QED
  BY <1>1, <1>2, Channels DEF ParentsInv, Alive, Asleep1

-----------------------------------------------------------------------------
(* The theorem *)

\* sleep, wakeup, wait and exit lose no wakeup (proc.c:418-474, 228-312), and
\* piperead, pipewrite and pipeclose give every one that is due (pipe.c:60-121),
\* as long as no process is killed that has the pipe open for writing.
THEOREM NobodySleepsInVain == ASSUME ~KillWriters PROVE Spec => []NoLostWakeup
<1>1. Spec => []TableInv
  BY TableIsSound
<1>2. Spec => []BufferInv
  BY BufferIsSound
<1>3. Spec => []EndsInv
  BY EndsAreSound
<1>4. Spec => []CallInv
  BY CallsAreSound
<1>5. TableInv /\ BufferInv /\ EndsInv /\ CallInv /\ WaitInv /\ [Next]_vars => WaitInv'
  BY WaitNext
<1>6. CallInv /\ WaitInv /\ ParentsInv => NoLostWakeup
  <2> SUFFICES ASSUME CallInv, WaitInv, ParentsInv PROVE NoLostWakeup
    OBVIOUS
  <2>1. ASSUME lock = None, NEW p \in Proc
        PROVE  /\ Asleep1(p, NREAD) => Empty /\ writeopen
               /\ Asleep1(p, NWRITE) => Length = PIPESIZE /\ readopen
    <3>1. Asleep1(p, NREAD) => Dry
      BY <2>1, NoFill DEF CallInv, WaitInv, WillRead
    <3>2. Asleep1(p, NWRITE) => Full
      BY <2>1, NoDrain DEF CallInv, WaitInv, WillWrite
    <3> QED
      BY <3>1, <3>2 DEF Dry, Full
  <2>2. ASSUME NEW p \in Proc, Asleep1(p, p)
        PROVE  Children(p) # {} /\ \A q \in Children(p) : state[q] # "ZOMBIE"
    BY <2>2 DEF ParentsInv, Children
  <2> QED
    BY <2>1, <2>2 DEF NoLostWakeup
<1> QED
  BY <1>1, <1>2, <1>3, <1>4, <1>5, <1>6, WaitInit, ParentsInit, ParentsNext, PTL DEF Spec

-----------------------------------------------------------------------------
(* The bytes come out once and in order *)

\* What a step may be for the stream.
Moves == Queue!Next \/ UNCHANGED Queue!vars

\* A step that changes neither the bytes nor the flags nor what was read.
LEMMA StreamStays ==
    ASSUME UNCHANGED bytes, UNCHANGED got, UNCHANGED <<readopen, writeopen>> PROVE Moves
<1>1. Content' = Content
  BY SameContent
<1> QED
  BY <1>1 DEF Moves, Queue!vars

LEMMA ResetContent == ASSUME BufferInv', nread' = 0, nwrite' = 0 PROVE Content' = << >>
<1>1. Length' = 0 /\ 0 \in 0..PIPESIZE
  BY ResetBytes, Bounds
<1>2. Content' \in Seq(Values) /\ Len(Content') = 0
  BY <1>1, ContentNext
<1> QED
  BY <1>2, EmptySeq

LEMMA StreamOpens ==
    ASSUME BufferInv, BufferInv', CallInv, NEW p \in Proc, PipeAlloc(p) PROVE Moves
<1>1. /\ lock = None /\ ~readopen /\ ~writeopen /\ readopen' = TRUE /\ writeopen' = TRUE
      /\ nread' = 0 /\ nwrite' = 0 /\ UNCHANGED got
  BY DEF PipeAlloc
<1>2. Empty
  <2>1. \A q \in Proc : pc[q] \notin {"closed r", "closed w"}
    BY <1>1, Channels DEF CallInv, Locks, LockPlace
  <2> QED
    BY <1>1, <2>1 DEF CallInv, Dead
<1>3. Content = << >>
  BY <1>2, NoContent
<1>4. Content' = << >>
  BY <1>1, ResetContent
<1> QED
  BY <1>1, <1>3, <1>4 DEF Moves, Queue!Next, Queue!Open

LEMMA StreamReads ==
    ASSUME TableInv, BufferInv, EndsInv, CallInv, NEW p \in Proc, NEW n \in Nat,
           Due(p, n), PipeRead(p, n)
    PROVE  Moves
<1>1. "r" \in fd[p] /\ n # 0 /\ got[p] = None
  BY ReadHolds
<1>2. UNCHANGED <<readopen, writeopen>>
  BY DEF PipeRead, ends
<1>3. CASE Empty /\ writeopen
  <2>1. UNCHANGED bytes /\ UNCHANGED got
    BY <1>3 DEF PipeRead, bytes
  <2> QED
    BY <1>2, <2>1, StreamStays
<1>4. CASE ~Empty \/ ~writeopen
  <2>1. PICK m \in 0..Length :
          /\ m = 0 => n = 0 \/ Length = 0
          /\ got' = [got EXCEPT ![p] = SubSeq(Content, 1, m)]
          /\ Content' = SubSeq(Content, m + 1, Len(Content))
    BY <1>4, ReadMaps
  <2>2. /\ Len(Content) = Length /\ (m = 0 => Content = << >>)
        /\ (Content = << >> => ~writeopen)
    BY <1>1, <1>4, <2>1, ContentIs, NoContent, LengthIs
  <2>3. readopen
    BY <1>1, EndsOpen
  <2>4. m \in 0..Len(Content)
    BY <2>2
  <2>5. Queue!Read(p)
    BY <1>1, <1>2, <2>1, <2>2, <2>3, <2>4 DEF Queue!Read
  <2> QED
    BY <2>5 DEF Moves, Queue!Next
<1> QED
  BY <1>3, <1>4

LEMMA StreamWrites ==
    ASSUME TableInv, BufferInv, EndsInv, CallInv, NEW p \in Proc, NEW n \in Nat, PipeWrite(p, n)
    PROVE  Moves
<1> DEFINE m == IF n < Space THEN n ELSE Space
<1>1. "w" \in fd[p]
  BY WriteHolds
<1>2. UNCHANGED <<readopen, writeopen, got, nread>>
  BY DEF PipeWrite, ends
<1>3. data' = [j \in DOMAIN data |->
                IF \E k \in 0..m - 1 : (nwrite + k) % PIPESIZE = j
                  THEN Byte(CHOOSE k \in 0..m - 1 : (nwrite + k) % PIPESIZE = j)
                  ELSE data[j]]
  BY DEF PipeWrite
<1>4. Space \in 0..PIPESIZE /\ Space = PIPESIZE - Length /\ Length \in 0..PIPESIZE
  BY LengthIs
<1>5. Length' = IF n < Space THEN Length + n ELSE PIPESIZE
  BY WriteCounts
<1>6. m \in 0..Space /\ Length' = Length + m
  BY <1>4, <1>5, Bounds
<1> HIDE DEF m
<1>7. \A j \in 0..PIPESIZE - 1 :
          (\A k \in 0..m - 1 : (nwrite + k) % PIPESIZE # j) => data'[j] = data[j]
  <2>1. DOMAIN data = 0..PIPESIZE - 1
    BY DEF BufferInv
  <2> QED
    BY <1>3, <2>1
<1>8. BufferInv'
  BY BufferWrite
<1>9. PICK s \in [1..m -> Values] : Content' = Content \o s
  BY <1>2, <1>6, <1>7, <1>8, ContentWritten
<1>10. writeopen /\ Len(Content) = Length /\ Content \in Seq(Values)
  BY <1>1, EndsOpen, ContentIs
<1>11. CASE m = 0
  <2>1. s \in Seq(Values) /\ Len(s) = 0
    BY <1>9, <1>11
  <2>2. s = << >>
    BY <2>1, EmptySeq
  <2>3. Content' = Content
    BY <1>9, <1>10, <2>2, ConcatEmptySeq
  <2> QED
    BY <1>2, <2>3 DEF Moves, Queue!vars
<1>12. CASE m # 0
  <2>1. m \in 1..PIPESIZE - Len(Content)
    BY <1>4, <1>6, <1>10, <1>12, Bounds
  <2>2. \E t \in [1..m -> 0..Wrap - 1] : Content' = Content \o t
    BY <1>9 DEF Values
  <2>3. Queue!Write
    BY <1>2, <1>10, <2>1, <2>2 DEF Queue!Write
  <2> QED
    BY <2>3 DEF Moves, Queue!Next
<1> QED
  BY <1>11, <1>12

LEMMA StreamReturns ==
    ASSUME BufferInv, CallInv, NEW p \in Proc, ReadReturns(p) PROVE Moves
<1>1. /\ pc[p] = "has read" /\ got' = [got EXCEPT ![p] = None] /\ UNCHANGED bytes
      /\ UNCHANGED <<readopen, writeopen>>
  BY DEF ReadReturns, ends
<1>2. got[p] # None
  BY <1>1 DEF CallInv, Progress
<1>3. Content' = Content
  BY <1>1, SameContent
<1>4. Queue!Used(p)
  BY <1>1, <1>2, <1>3 DEF Queue!Used
<1> QED
  BY <1>4 DEF Moves, Queue!Next

LEMMA StreamCloses ==
    ASSUME EndsInv, NEW p \in Proc, PipeClose(p) PROVE Moves
<1>1. UNCHANGED bytes /\ UNCHANGED got
  BY DEF PipeClose
<1>2. Content' = Content
  BY <1>1, SameContent
<1>3. CASE pc[p] = "close r"
  <2>1. readopen /\ readopen' = FALSE /\ UNCHANGED writeopen
    BY <1>3 DEF PipeClose, EndsInv, OpenFor
  <2>2. Queue!CloseRead
    BY <1>1, <1>2, <2>1 DEF Queue!CloseRead
  <2> QED
    BY <2>2 DEF Moves, Queue!Next
<1>4. CASE pc[p] = "close w"
  <2>1. writeopen /\ writeopen' = FALSE /\ UNCHANGED readopen
    BY <1>4 DEF PipeClose, EndsInv, OpenFor
  <2>2. Queue!CloseWrite
    BY <1>1, <1>2, <2>1 DEF Queue!CloseWrite
  <2> QED
    BY <2>2 DEF Moves, Queue!Next
<1> QED
  BY <1>3, <1>4 DEF PipeClose

LEMMA StreamDrops ==
    ASSUME BufferInv', NEW p \in Proc, PipeCloseReturns(p) PROVE Moves
<1>1. UNCHANGED <<readopen, writeopen>> /\ UNCHANGED got
  BY DEF PipeCloseReturns, ends
<1>2. CASE readopen \/ writeopen
  <2>1. UNCHANGED bytes
    BY <1>2 DEF PipeCloseReturns
  <2> QED
    BY <1>1, <2>1, StreamStays
<1>3. CASE ~readopen /\ ~writeopen
  <2>1. nread' = 0 /\ nwrite' = 0
    BY <1>3 DEF PipeCloseReturns
  <2>2. Content' = << >>
    BY <2>1, ResetContent
  <2>3. Queue!Drop
    BY <1>1, <1>3, <2>2 DEF Queue!Drop
  <2> QED
    BY <2>3 DEF Moves, Queue!Next
<1> QED
  BY <1>2, <1>3

LEMMA StreamNext ==
    /\ TableInv /\ BufferInv /\ EndsInv /\ CallInv /\ BufferInv' /\ [Next]_vars
    => [Queue!Next]_(Queue!vars)
<1> SUFFICES ASSUME TableInv, BufferInv, EndsInv, CallInv, BufferInv', [Next]_vars PROVE Moves
  BY DEF Moves
<1>1. CASE Aside
  BY <1>1, StreamStays DEF Aside, pipe, ends
<1>2. ASSUME NEW p \in Proc, PipeStep(p) PROVE Moves
  <2>1. CASE \E n \in Nat : Due(p, n) /\ (PipeRead(p, n) \/ PipeWrite(p, n))
    BY <2>1, StreamReads, StreamWrites
  <2>2. CASE \/ WriteReturns(p) \/ WakeReaders(p) \/ Sleep(p) \/ FallAsleep(p)
             \/ Forked(p) \/ \E e \in fd[p] : Close(p, e)
    <3>1. UNCHANGED bytes /\ UNCHANGED got /\ UNCHANGED <<readopen, writeopen>>
      BY <2>2 DEF WriteReturns, WakeReaders, Sleep, FallAsleep, Forked, Close, pipe, ends
    <3> QED
      BY <3>1, StreamStays
  <2> QED
    BY <1>2, <2>1, <2>2, StreamOpens, StreamReturns, StreamCloses, StreamDrops DEF PipeStep
<1> QED
  BY <1>1, <1>2, Steps DEF BufferInv

LEMMA StreamInit == Init => Queue!Init
<1> SUFFICES ASSUME Init PROVE Queue!Init
  OBVIOUS
<1>1. BufferInv /\ Empty
  BY BufferInit DEF Init, Empty
<1>2. Content = << >>
  BY <1>1, NoContent
<1> QED
  BY <1>2 DEF Init, Queue!Init

\* Bytes come out of a pipe once and in the order in which they went in, also
\* when nread and nwrite wrap; a read ends with nothing only when the pipe is
\* empty and nobody can write to it, and what nobody can read any more is
\* dropped (piperead, pipewrite and pipeclose, pipe.c:59-121).
THEOREM PipeIsStream == Spec => ImplementsStream
<1>1. Spec => []TableInv
  BY TableIsSound
<1>2. Spec => []BufferInv
  BY BufferIsSound
<1>3. Spec => []EndsInv
  BY EndsAreSound
<1>4. Spec => []CallInv
  BY CallsAreSound
<1> QED
  BY <1>1, <1>2, <1>3, <1>4, StreamInit, StreamNext, PTL
  DEF Spec, ImplementsStream, Queue!Spec
=============================================================================
