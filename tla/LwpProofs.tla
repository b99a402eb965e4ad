----------------------------- MODULE LwpProofs ------------------------------
(***************************************************************************)
(* Proofs about the threads of Lwp.  KStackInv is inductive with any set   *)
(* of calls: the two levels of the table agree (LevelInv), kstacks has no  *)
(* page twice and none that is free, and a thread's kernel stack is the    *)
(* one that kstacks has for its slot.  When programs do not call exec,     *)
(* UStacks adds that the user stacks of a process are apart and mapped.    *)
(***************************************************************************)
EXTENDS Lwp, WellFoundedInduction, TLAPS

-----------------------------------------------------------------------------
(* Types *)

Chan ==
    {None, Event, FsLock} \cup {WaitChan(p) : p \in Slot \cup {None}}
    \cup {JoinChan(x) : x \in 0 .. MaxTid}

ProcRec ==
    [state : States, parent : Slot \cup {None}, killed : BOOLEAN, onTidx : Pth,
     sz : 0 .. MaxSz, mapped : SUBSET (0 .. MaxSz - 1)]

PthRec ==
    [state : States, tid : 0 .. MaxTid, chan : Chan, kstack : KStack \cup {None},
     stack : 0 .. MaxSz]

CallRec ==
    [op : {"fork"}, slot : Slot] \cup [op : {"sbrk"}, sz : 0 .. MaxSz - 1]
    \cup [op : {"join"}, tid : 1 .. MaxTid] \cup [op : {"disk", "lock", "wait", "exit"}]

Typed ==
    /\ proc \in [Slot -> ProcRec]
    /\ pth \in [Slot -> [Pth -> PthRec]]
    /\ kstacks \in [Slot -> [Pth -> KStack \cup {None}]]
    /\ ustacks \in [Slot -> [Pth -> 0 .. MaxSz]]
    /\ free \subseteq KStack
    /\ nextTid \in Nat \ {0}
    /\ cur \in Thread \cup {None}
    /\ call \in [Thread -> CallRec \cup {None}]

-----------------------------------------------------------------------------
(* The inductive invariant *)

Some(p, s) == \E i \in Pth : pth[p][i].state = s

\* The state of a process follows from those of its threads.
Level(p) ==
    /\ Some(p, "RUNNABLE") => proc[p].state \in {"RUNNABLE", "RUNNING"}
    /\ proc[p].state = "RUNNABLE" => Some(p, "RUNNABLE") \/ Some(p, "RUNNING")
    /\ proc[p].state = "RUNNING" => Some(p, "RUNNING")
    /\ proc[p].state = "SLEEPING" => Some(p, "SLEEPING") /\ ~Some(p, "RUNNING")
    /\ \A i \in Pth : pth[p][i].state \in Live => proc[p].state \in Live
    /\ \A i \in Pth : pth[p][i].state = "EMBRYO" => proc[p].state = "EMBRYO"
    /\ \A i \in Pth : proc[p].state = "UNUSED" => pth[p][i].state = "UNUSED"
    /\ \A i \in Pth \ {0} : proc[p].state = "EMBRYO" => pth[p][i].state = "UNUSED"

Levels == \A p \in Slot : Level(p)

\* The one CPU runs the thread that is RUNNING.
OneRuns ==
    \A p \in Slot : \A i \in Pth : pth[p][i].state = "RUNNING" <=> cur = <<p, i>>

Forks(t) == call[t] # None /\ call[t].op = "fork"

\* A fork under way has a process of its own that is not born yet.
Embryos ==
    \A t \in Thread : Forks(t) =>
        /\ proc[call[t].slot].state = "EMBRYO"
        /\ pth[call[t].slot][0].state = "EMBRYO"
ForksApart ==
    \A s, t \in Thread : Forks(s) /\ Forks(t) /\ call[s].slot = call[t].slot => s = t

LevelInv == Typed /\ Levels /\ OneRuns /\ Embryos /\ ForksApart

\* kstacks knows the kernel stack of every thread, and the page of each that
\* was joined: until somebody forgets it nobody else has it.
Kept ==
    \A p \in Slot : \A i \in Pth :
        /\ pth[p][i].kstack # None => kstacks[p][i] = pth[p][i].kstack
        /\ pth[p][i].state \in Live \cup {"EMBRYO"} => pth[p][i].kstack # None
        /\ pth[p][i].state = "UNUSED" => pth[p][i].kstack = None
        /\ kstacks[p][i] \notin free
KeptApart ==
    \A p, q \in Slot : \A i, j \in Pth :
        kstacks[p][i] # None /\ kstacks[p][i] = kstacks[q][j] => p = q /\ i = j

KStackInv == LevelInv /\ Kept /\ KeptApart

Lasting(p, i) == pth[p][i].state \notin {"UNUSED", "EMBRYO"}

\* The user stacks of a process are the first entries of ustacks and all
\* different; those of its threads are mapped, but for that of a fork's child, which
\* may be above what fork copied; and the CPU's thread is the current one.
UStacks(p) ==
    /\ \A i, j \in Pth : ustacks[p][i] # 0 /\ ustacks[p][i] = ustacks[p][j] => i = j
    /\ \A i, j \in Pth : i < j /\ ustacks[p][j] # 0 => ustacks[p][i] # 0
    /\ \A i \in Pth : Lasting(p, i) =>
          ustacks[p][i] # 0 /\ pth[p][i].stack = ustacks[p][i]
    /\ \/ \A i \in Pth : Lasting(p, i) => ustacks[p][i] - 1 \in proc[p].mapped
       \/ \A i \in Pth \ {0} : pth[p][i].state = "UNUSED"
    /\ \A i \in Pth : pth[p][i].state = "RUNNING" => proc[p].onTidx = i

-----------------------------------------------------------------------------
(* Types *)

LEMMA Sorts ==
    /\ Slot \subseteq Nat /\ Pth \subseteq Nat /\ 0 \in Pth /\ InitProc \in Slot
    /\ 1 \in KStack /\ ExecSz \in 0 .. MaxSz /\ ExecSz = 1
    /\ MaxTid \in Nat /\ MaxSz \in Nat /\ None \notin KStack /\ None \notin Thread
    /\ 0 .. ExecSz - 1 \subseteq 0 .. MaxSz - 1 /\ 1 \in 0 .. MaxTid
    /\ None \notin {"remap", "trap", "wild"}
BY LwpConstants DEF Slot, Pth, KStack, InitProc, ExecSz

LEMMA Chans ==
    /\ {None, Event, FsLock} \subseteq Chan
    /\ \A p \in Slot : WaitChan(p) \in Chan
    /\ \A x \in 0 .. MaxTid : JoinChan(x) \in Chan
BY DEF Chan

LEMMA CallTypes ==
    ASSUME Typed, NEW t \in Thread, call[t] # None
    PROVE  /\ call[t].op = "fork" => call[t].slot \in Slot
           /\ call[t].op = "sbrk" => call[t].sz \in 0 .. MaxSz - 1
           /\ call[t].op = "join" => call[t].tid \in 1 .. MaxTid
BY DEF Typed, CallRec

LEMMA Calling ==
    /\ \A q \in Slot : [op |-> "fork", slot |-> q] \in CallRec
    /\ \A n \in 0 .. MaxSz - 1 : [op |-> "sbrk", sz |-> n] \in CallRec
    /\ \A x \in 1 .. MaxTid : [op |-> "join", tid |-> x] \in CallRec
    /\ \A o \in {"disk", "lock", "wait", "exit"} : [op |-> o] \in CallRec
BY DEF CallRec

\* What a thread's record is while it is not created or reaped.
SameThread(q, j) ==
    /\ pth'[q][j].tid = pth[q][j].tid /\ pth'[q][j].stack = pth[q][j].stack
    /\ pth'[q][j].kstack = pth[q][j].kstack
    /\ \/ pth'[q][j].state = pth[q][j].state
       \/ Lasting(q, j) /\ Lasting(q, j)'
    /\ pth'[q][j].state \in Live => pth[q][j].state \in Live

\* A thread that has changed only its state and channel.
Turned(r, s, c) == [r EXCEPT !.state = s, !.chan = c]

LEMMA TurnedTyped ==
    ASSUME NEW r \in PthRec, NEW s \in States, NEW c \in Chan
    PROVE  /\ Turned(r, s, c) \in PthRec
           /\ Turned(r, s, c).state = s
           /\ Turned(r, s, c).tid = r.tid
           /\ Turned(r, s, c).kstack = r.kstack
           /\ Turned(r, s, c).stack = r.stack
BY DEF Turned, PthRec

\* Steps that create and reap no thread.
Quiet ==
    /\ \A q \in Slot : \A j \in Pth : SameThread(q, j)
    /\ UNCHANGED <<kstacks, ustacks, free>>
    /\ panic' = None => panic = None
    /\ \A q \in Slot : proc[q].mapped \subseteq proc'[q].mapped
    /\ \A q \in Slot : \A j \in Pth :
          pth'[q][j].state = "RUNNING" => pth[q][j].state = "RUNNING" \/ proc'[q].onTidx = j
    /\ \A q \in Slot : proc'[q].onTidx = proc[q].onTidx \/ \A j \in Pth : pth[q][j].state # "RUNNING"

LEMMA QuietKeeps ==
    ASSUME Kept, KeptApart, Quiet
    PROVE  Kept' /\ KeptApart'
<1>1. KeptApart'
  BY DEF KeptApart, Quiet
<1>2. ASSUME NEW q \in Slot, NEW j \in Pth
      PROVE  /\ pth'[q][j].kstack # None => kstacks'[q][j] = pth'[q][j].kstack
             /\ pth'[q][j].state \in Live \cup {"EMBRYO"} => pth'[q][j].kstack # None
             /\ pth'[q][j].state = "UNUSED" => pth'[q][j].kstack = None
             /\ kstacks'[q][j] \notin free'
  BY DEF Kept, Quiet, SameThread, Lasting, Live
<1> QED
  BY <1>1, <1>2 DEF Kept

LEMMA QuietStacks ==
    ASSUME Quiet, NEW p \in Slot, UStacks(p)
    PROVE  UStacks(p)'
<1>1. \A j \in Pth : /\ Lasting(p, j)' => Lasting(p, j)
                     /\ pth'[p][j].stack = pth[p][j].stack
                     /\ pth[p][j].state = "UNUSED" => pth'[p][j].state = "UNUSED"
  BY DEF Quiet, SameThread, Lasting
<1>2. /\ ustacks'[p] = ustacks[p]
      /\ proc[p].mapped \subseteq proc'[p].mapped
  BY DEF Quiet
<1>3. \A i \in Pth : pth'[p][i].state = "RUNNING" => proc'[p].onTidx = i
  BY DEF Quiet, UStacks
<1> QED
  BY <1>1, <1>2, <1>3 DEF UStacks

-----------------------------------------------------------------------------
(* The two levels of the table *)

LEMMA LevelStays ==
    ASSUME NEW q \in Slot, Level(q), proc'[q].state = proc[q].state,
           \A j \in Pth : pth'[q][j].state = pth[q][j].state
    PROVE  Level(q)'
BY DEF Level, Some

LEMMA EmbryosStay ==
    ASSUME LevelInv,
           \A t \in Thread : Forks(t)' => Forks(t) /\ call'[t].slot = call[t].slot,
           \A q \in Slot : proc[q].state = "EMBRYO" /\ pth[q][0].state = "EMBRYO" =>
               proc'[q].state = "EMBRYO" /\ pth'[q][0].state = "EMBRYO"
    PROVE  Embryos' /\ ForksApart'
<1>1. \A t \in Thread : Forks(t) => call[t].slot \in Slot
  BY CallTypes DEF LevelInv, Forks
<1>2. Embryos'
  BY <1>1 DEF LevelInv, Embryos
<1>3. ForksApart'
  BY DEF LevelInv, ForksApart
<1> QED
  BY <1>2, <1>3

\* A thread that has changed only its state.
WithState(r, s) == [r EXCEPT !.state = s]

LEMMA WithStateTyped ==
    ASSUME NEW r \in PthRec, NEW s \in States
    PROVE  /\ WithState(r, s) \in PthRec
           /\ WithState(r, s).state = s
           /\ WithState(r, s).tid = r.tid
           /\ WithState(r, s).kstack = r.kstack
           /\ WithState(r, s).stack = r.stack
BY DEF WithState, PthRec

LEMMA OneState ==
    ASSUME Typed, NEW p \in Slot, NEW s \in States, proc' = [proc EXCEPT ![p].state = s]
    PROVE  /\ proc' \in [Slot -> ProcRec]
           /\ proc'[p].state = s
           /\ \A q \in Slot : /\ proc'[q].onTidx = proc[q].onTidx
                              /\ proc'[q].mapped = proc[q].mapped
           /\ \A q \in Slot \ {p} : proc'[q] = proc[q]
<1> DEFINE r == [proc[p] EXCEPT !.state = s]
<1>1. proc[p] \in ProcRec
  BY DEF Typed
<1>2. r \in ProcRec /\ r.state = s /\ r.onTidx = proc[p].onTidx /\ r.mapped = proc[p].mapped
  BY <1>1 DEF ProcRec
<1>3. proc' = [proc EXCEPT ![p] = r]
  OBVIOUS
<1> HIDE DEF r
<1> QED
  BY <1>2, <1>3 DEF Typed

LEMMA DispatchLevels ==
    ASSUME LevelInv, NEW p \in Slot, NEW i \in Pth, Dispatch(<<p, i>>)
    PROVE  LevelInv' /\ Quiet
<1>1. /\ cur = None /\ pth[p][i].state = "RUNNABLE" /\ cur' = <<p, i>>
      /\ proc[p].state \in {"RUNNABLE", "RUNNING"}
      /\ UNCHANGED <<kstacks, ustacks, free, nextTid, call, panic>>
  BY DEF Dispatch, Eligible, Is, LevelInv, Levels, Level, Some
<1>2. pth[p][i] \in PthRec /\ proc[p] \in ProcRec
  BY DEF LevelInv, Typed
<1>3. pth' = [pth EXCEPT ![p][i] = WithState(pth[p][i], "RUNNING")]
  BY DEF Dispatch, WithState
<1>4. WithState(pth[p][i], "RUNNING") \in PthRec
  BY <1>2, WithStateTyped DEF States
<1>5. /\ pth' \in [Slot -> [Pth -> PthRec]]
      /\ pth'[p][i] = WithState(pth[p][i], "RUNNING")
      /\ \A q \in Slot : \A j \in Pth : q # p \/ j # i => pth'[q][j] = pth[q][j]
  <2> DEFINE r == WithState(pth[p][i], "RUNNING")
  <2>1. r \in PthRec /\ Typed
    BY <1>4 DEF LevelInv
  <2>2. pth' = [pth EXCEPT ![p][i] = r]
    BY <1>3
  <2> HIDE DEF r
  <2>3. /\ pth' \in [Slot -> [Pth -> PthRec]] /\ pth'[p][i] = r
        /\ \A q \in Slot : \A j \in Pth : q # p \/ j # i => pth'[q][j] = pth[q][j]
    BY <2>1, <2>2 DEF Typed
  <2> QED
    BY <2>3 DEF r
<1>6. pth'[p][i].state = "RUNNING" /\ SameThread(p, i)
  BY <1>1, <1>2, <1>5, WithStateTyped DEF States, SameThread, Lasting, Live
<1>7. /\ proc' \in [Slot -> ProcRec]
      /\ proc'[p].state \in {"RUNNABLE", "RUNNING"}
      /\ proc'[p].onTidx = i /\ proc'[p].mapped = proc[p].mapped
      /\ \A q \in Slot \ {p} : proc'[q] = proc[q]
  BY <1>1, <1>2 DEF Dispatch, LevelInv, Typed, ProcRec, States
<1>8. \A q \in Slot : \A j \in Pth : pth[q][j].state # "RUNNING"
  <2>1. \A q \in Slot : \A j \in Pth : cur # <<q, j>>
    BY <1>1, Sorts DEF Thread
  <2> QED
    BY <2>1 DEF LevelInv, OneRuns
<1>9. Typed'
  BY <1>1, <1>5, <1>7 DEF LevelInv, Typed, Thread
<1>10. Level(p)'
  BY <1>1, <1>5, <1>6, <1>7 DEF LevelInv, Levels, Level, Some, Live
<1>11. Levels'
  BY <1>5, <1>7, <1>10, LevelStays DEF LevelInv, Levels
<1>12. OneRuns'
  BY <1>1, <1>5, <1>6, <1>8 DEF OneRuns
<1>13. Embryos' /\ ForksApart'
  BY <1>1, <1>5, <1>7, EmbryosStay, Sorts DEF Forks
<1>14. Quiet
  <2>1. \A q \in Slot : \A j \in Pth : SameThread(q, j)
    BY <1>5, <1>6 DEF SameThread
  <2> QED
    BY <2>1, <1>1, <1>5, <1>7, <1>8 DEF Quiet
<1> QED
  BY <1>9, <1>11, <1>12, <1>13, <1>14 DEF LevelInv

LEMMA Running ==
    ASSUME LevelInv, NEW p \in Slot, NEW i \in Pth, cur = <<p, i>>
    PROVE  /\ pth[p][i].state = "RUNNING"
           /\ \A q \in Slot : \A j \in Pth :
                 pth[q][j].state = "RUNNING" => q = p /\ j = i
           /\ proc[p].state \in {"RUNNABLE", "RUNNING"}
           /\ \A j \in Pth : pth[p][j].state # "EMBRYO"
           /\ pth[p][i] \in PthRec /\ proc[p] \in ProcRec
<1>1. pth[p][i].state = "RUNNING"
  BY DEF LevelInv, OneRuns
<1>2. \A q \in Slot : \A j \in Pth : pth[q][j].state = "RUNNING" => q = p /\ j = i
  BY DEF LevelInv, OneRuns
<1>3. proc[p].state \in {"RUNNABLE", "RUNNING"}
  BY <1>1 DEF LevelInv, Levels, Level, Some, Live
<1>4. \A j \in Pth : pth[p][j].state # "EMBRYO"
  BY <1>3 DEF LevelInv, Levels, Level
<1>5. pth[p][i] \in PthRec /\ proc[p] \in ProcRec
  BY DEF LevelInv, Typed
<1> QED
  BY <1>1, <1>2, <1>3, <1>4, <1>5

LEMMA YieldLevels ==
    ASSUME LevelInv, NEW p \in Slot, NEW i \in Pth, Yield(<<p, i>>)
    PROVE  LevelInv' /\ Quiet
<1>1. /\ cur = <<p, i>> /\ cur' = None
      /\ UNCHANGED <<kstacks, ustacks, free, nextTid, call, panic>>
  BY DEF Yield, Runs
<1>2. pth' = [pth EXCEPT ![p][i] = WithState(pth[p][i], "RUNNABLE")]
  BY DEF Yield, WithState
<1>3. WithState(pth[p][i], "RUNNABLE") \in PthRec
  BY <1>1, Running, WithStateTyped DEF States
<1>4. /\ pth' \in [Slot -> [Pth -> PthRec]]
      /\ pth'[p][i] = WithState(pth[p][i], "RUNNABLE")
      /\ \A q \in Slot : \A j \in Pth : q # p \/ j # i => pth'[q][j] = pth[q][j]
  <2> DEFINE r == WithState(pth[p][i], "RUNNABLE")
  <2>1. r \in PthRec /\ Typed
    BY <1>3 DEF LevelInv
  <2>2. pth' = [pth EXCEPT ![p][i] = r]
    BY <1>2
  <2> HIDE DEF r
  <2>3. /\ pth' \in [Slot -> [Pth -> PthRec]] /\ pth'[p][i] = r
        /\ \A q \in Slot : \A j \in Pth : q # p \/ j # i => pth'[q][j] = pth[q][j]
    BY <2>1, <2>2 DEF Typed
  <2> QED
    BY <2>3 DEF r
<1>5. pth'[p][i].state = "RUNNABLE" /\ SameThread(p, i)
  BY <1>1, <1>4, Running, WithStateTyped DEF States, SameThread, Lasting, Live
<1>6. /\ proc' \in [Slot -> ProcRec]
      /\ proc'[p].state = "RUNNABLE"
      /\ \A q \in Slot : proc'[q].onTidx = proc[q].onTidx /\ proc'[q].mapped = proc[q].mapped
      /\ \A q \in Slot \ {p} : proc'[q] = proc[q]
  BY OneState DEF Yield, LevelInv, States
<1>7. \A q \in Slot : \A j \in Pth : pth'[q][j].state # "RUNNING"
  BY <1>1, <1>4, <1>5, Running
<1>8. Typed'
  BY <1>1, <1>4, <1>6 DEF LevelInv, Typed
<1>9. Level(p)'
  <2>1. \A j \in Pth : /\ j # i => pth'[p][j].state = pth[p][j].state
                       /\ pth'[p][j].state \notin {"RUNNING", "EMBRYO"}
    BY <1>1, <1>4, <1>5, <1>7, Running
  <2> QED
    BY <2>1, <1>5, <1>6 DEF Level, Some, Live
<1>10. Levels'
  BY <1>4, <1>6, <1>9, LevelStays DEF LevelInv, Levels
<1>11. OneRuns'
  <2>1. \A q \in Slot : \A j \in Pth : cur' # <<q, j>>
    BY <1>1, Sorts DEF Thread
  <2> QED
    BY <2>1, <1>7 DEF OneRuns
<1>12. Embryos' /\ ForksApart'
  BY <1>1, <1>4, <1>6, Running, EmbryosStay, Sorts DEF Forks
<1>13. Quiet
  <2>1. \A q \in Slot : \A j \in Pth : SameThread(q, j)
    BY <1>4, <1>5 DEF SameThread
  <2> QED
    BY <2>1, <1>1, <1>6, <1>7 DEF Quiet
<1> QED
  BY <1>8, <1>10, <1>11, <1>12, <1>13 DEF LevelInv

LEMMA SetProcState ==
    ASSUME NEW p \in Slot, NEW th, pth'[p] = th, proc'[p].state = set_proc_state(th),
           \A j \in Pth : th[j].state \notin {"RUNNING", "EMBRYO"},
           NEW i \in Pth, th[i].state \in {"SLEEPING", "ZOMBIE"}
    PROVE  Level(p)' /\ proc'[p].state \in {"RUNNABLE", "SLEEPING", "ZOMBIE"}
<1>1. CASE \E j \in Pth : th[j].state = "RUNNABLE"
  <2>1. proc'[p].state = "RUNNABLE"
    BY <1>1 DEF set_proc_state
  <2> QED
    BY <2>1, <1>1 DEF Level, Some, Live
<1>2. CASE /\ ~\E j \in Pth : th[j].state = "RUNNABLE"
           /\ \E j \in Pth : th[j].state = "SLEEPING"
  <2>1. proc'[p].state = "SLEEPING"
    BY <1>2 DEF set_proc_state
  <2> QED
    BY <2>1, <1>2 DEF Level, Some, Live
<1>3. CASE /\ ~\E j \in Pth : th[j].state = "RUNNABLE"
           /\ ~\E j \in Pth : th[j].state = "SLEEPING"
  <2>1. proc'[p].state = "ZOMBIE"
    BY <1>3 DEF set_proc_state
  <2> QED
    BY <2>1, <1>3 DEF Level, Some, Live
<1> QED
  BY <1>1, <1>2, <1>3

\* The threads of t's process when t has gone to sleep.
SleepThreads(t, chan) ==
    [pth[t[1]] EXCEPT ![t[2]].state = "SLEEPING", ![t[2]].chan = chan]

LEMMA SleepLevels ==
    ASSUME LevelInv, NEW p \in Slot, NEW i \in Pth, cur = <<p, i>>,
           NEW ch \in Chan, NEW c \in CallRec \cup {None}, c = None \/ c.op # "fork",
           SleepOn(<<p, i>>, ch, c), UNCHANGED <<kstacks, ustacks, free, nextTid, panic>>
    PROVE  LevelInv' /\ Quiet
<1> DEFINE th == SleepThreads(<<p, i>>, ch)
<1>1. /\ pth' = [pth EXCEPT ![p] = th]
      /\ proc' = [proc EXCEPT ![p].state = set_proc_state(th)]
      /\ call' = [call EXCEPT ![<<p, i>>] = c]
      /\ cur' = None
  BY DEF SleepOn, SleepThreads
<1>2. pth[p] \in [Pth -> PthRec] /\ pth[p][i] \in PthRec
  BY DEF LevelInv, Typed
<1>3. /\ Turned(pth[p][i], "SLEEPING", ch) \in PthRec
      /\ Turned(pth[p][i], "SLEEPING", ch).state = "SLEEPING"
      /\ Turned(pth[p][i], "SLEEPING", ch).tid = pth[p][i].tid
      /\ Turned(pth[p][i], "SLEEPING", ch).kstack = pth[p][i].kstack
      /\ Turned(pth[p][i], "SLEEPING", ch).stack = pth[p][i].stack
  <2>1. "SLEEPING" \in States
    BY DEF States
  <2> QED
    BY <2>1, <1>2, TurnedTyped
<1>4. /\ th \in [Pth -> PthRec]
      /\ th[i] = Turned(pth[p][i], "SLEEPING", ch)
      /\ \A j \in Pth \ {i} : th[j] = pth[p][j]
  <2>1. th = [pth[p] EXCEPT ![i] = Turned(pth[p][i], "SLEEPING", ch)]
    BY <1>2 DEF SleepThreads, Turned
  <2> HIDE DEF th
  <2> QED
    BY <2>1, <1>2, <1>3
<1> HIDE DEF th
<1>5. /\ pth' \in [Slot -> [Pth -> PthRec]]
      /\ pth'[p] = th
      /\ \A q \in Slot \ {p} : pth'[q] = pth[q]
  BY <1>1, <1>4 DEF LevelInv, Typed
<1>6. pth'[p][i].state = "SLEEPING" /\ SameThread(p, i)
  BY <1>3, <1>4, <1>5, Running DEF SameThread, Lasting, Live
<1>7. \A q \in Slot : \A j \in Pth : pth'[q][j].state # "RUNNING"
  BY <1>4, <1>5, <1>6, Running
<1>8. \A j \in Pth : th[j].state \notin {"RUNNING", "EMBRYO"}
  BY <1>4, <1>5, <1>6, <1>7, Running
<1>9. proc'[p].state = set_proc_state(th)
  BY <1>1 DEF LevelInv, Typed, ProcRec
<1>10. Level(p)' /\ proc'[p].state \in {"RUNNABLE", "SLEEPING", "ZOMBIE"}
  BY <1>5, <1>6, <1>8, <1>9, SetProcState
<1>11. /\ proc' \in [Slot -> ProcRec]
       /\ \A q \in Slot : proc'[q].onTidx = proc[q].onTidx /\ proc'[q].mapped = proc[q].mapped
       /\ \A q \in Slot \ {p} : proc'[q] = proc[q]
  <2>1. set_proc_state(th) \in States
    BY <1>9, <1>10 DEF States
  <2> QED
    BY <2>1, <1>1, OneState DEF LevelInv
<1>12. Typed'
  BY <1>1, <1>5, <1>11, Sorts DEF LevelInv, Typed
<1>13. Levels'
  BY <1>5, <1>10, <1>11, LevelStays DEF LevelInv, Levels
<1>14. OneRuns'
  BY <1>1, <1>7, Sorts DEF OneRuns, Thread
<1>15. \A t \in Thread : Forks(t)' => Forks(t) /\ call'[t].slot = call[t].slot
  BY <1>1 DEF Forks, LevelInv, Typed
<1>16. Embryos' /\ ForksApart'
  BY <1>5, <1>11, <1>15, Running, EmbryosStay, Sorts
<1>17. Quiet
  <2>1. \A q \in Slot : \A j \in Pth : SameThread(q, j)
    BY <1>4, <1>5, <1>6 DEF SameThread
  <2> QED
    BY <2>1, <1>7, <1>11 DEF Quiet
<1> QED
  BY <1>12, <1>13, <1>14, <1>16, <1>17 DEF LevelInv

-----------------------------------------------------------------------------
(* Threads that are woken *)

Asleep(woken) ==
    \A q \in Slot : \A j \in Pth : <<q, j>> \in woken => pth[q][j].state = "SLEEPING"

LEMMA SleepersAsleep ==
    ASSUME NEW ch PROVE Asleep(Sleepers(ch))
BY DEF Asleep, Sleepers, Is

\* What wakeup1 leaves of the two tables.
WokenPth(th, woken) ==
    /\ th \in [Slot -> [Pth -> PthRec]]
    /\ \A q \in Slot : \A j \in Pth :
          /\ th[q][j].state = IF <<q, j>> \in woken THEN "RUNNABLE" ELSE pth[q][j].state
          /\ th[q][j].tid = pth[q][j].tid
          /\ th[q][j].kstack = pth[q][j].kstack
          /\ th[q][j].stack = pth[q][j].stack
WokenProc(table, woken) ==
    /\ table \in [Slot -> ProcRec]
    /\ \A q \in Slot :
          /\ table[q].state = IF proc[q].state = "SLEEPING" /\ \E j \in Pth : <<q, j>> \in woken
                              THEN "RUNNABLE" ELSE proc[q].state
          /\ table[q].onTidx = proc[q].onTidx
          /\ table[q].mapped = proc[q].mapped

LEMMA PthIsWoken ==
    ASSUME Typed, NEW woken PROVE WokenPth(PthWoken(woken), woken)
<1>1. ASSUME NEW q \in Slot, NEW j \in Pth
      PROVE  LET r == IF <<q, j>> \in woken
                        THEN [pth[q][j] EXCEPT !.state = "RUNNABLE", !.chan = None]
                        ELSE pth[q][j]
             IN  /\ r \in PthRec
                 /\ r.state = IF <<q, j>> \in woken THEN "RUNNABLE" ELSE pth[q][j].state
                 /\ r.tid = pth[q][j].tid
                 /\ r.kstack = pth[q][j].kstack
                 /\ r.stack = pth[q][j].stack
  <2>1. pth[q][j] \in PthRec /\ "RUNNABLE" \in States /\ None \in Chan
    BY Chans DEF Typed, States
  <2>2. [pth[q][j] EXCEPT !.state = "RUNNABLE", !.chan = None]
          = Turned(pth[q][j], "RUNNABLE", None)
    BY DEF Turned
  <2> QED
    BY <2>1, <2>2, TurnedTyped
<1> QED
  BY <1>1 DEF WokenPth, PthWoken

LEMMA ProcIsWoken ==
    ASSUME Typed, NEW woken PROVE WokenProc(ProcWoken(woken), woken)
<1>1. ASSUME NEW q \in Slot
      PROVE  LET r == [proc[q] EXCEPT !.state = "RUNNABLE"]
             IN  /\ r \in ProcRec /\ r.state = "RUNNABLE"
                 /\ r.onTidx = proc[q].onTidx /\ r.mapped = proc[q].mapped
                 /\ proc[q] \in ProcRec
  BY DEF Typed, ProcRec, States
<1> QED
  BY <1>1 DEF WokenProc, ProcWoken

LEMMA WokenLevel ==
    ASSUME NEW woken, Asleep(woken), NEW th, NEW table,
           WokenPth(th, woken), WokenProc(table, woken),
           NEW q \in Slot, Level(q), pth'[q] = th[q], proc'[q].state = table[q].state
    PROVE  Level(q)'
<1>1. \A j \in Pth :
        /\ pth'[q][j].state = IF <<q, j>> \in woken THEN "RUNNABLE" ELSE pth[q][j].state
        /\ <<q, j>> \in woken => pth[q][j].state = "SLEEPING"
  BY DEF WokenPth, Asleep
<1>2. proc'[q].state = IF proc[q].state = "SLEEPING" /\ \E j \in Pth : <<q, j>> \in woken
                         THEN "RUNNABLE" ELSE proc[q].state
  BY DEF WokenProc
<1>3. CASE \E j \in Pth : <<q, j>> \in woken
  <2>1. proc[q].state \in Live
    BY <1>1, <1>3 DEF Level, Live
  <2>2. proc'[q].state \in {"RUNNABLE", "RUNNING"}
    BY <1>2, <1>3, <2>1 DEF Live
  <2>3. Some(q, "RUNNABLE")'
    BY <1>1, <1>3 DEF Some
  <2>4. Some(q, "RUNNING") => Some(q, "RUNNING")'
    BY <1>1 DEF Some
  <2>5. proc'[q].state = "RUNNING" => proc[q].state = "RUNNING"
    BY <1>2
  <2>6. \A j \in Pth : pth'[q][j].state # "EMBRYO"
    BY <1>1, <2>1 DEF Level, Live
  <2> QED
    BY <2>2, <2>3, <2>4, <2>5, <2>6 DEF Level, Live
<1>4. CASE ~\E j \in Pth : <<q, j>> \in woken
  BY <1>1, <1>2, <1>4, LevelStays
<1> QED
  BY <1>3, <1>4

LEMMA WokenSame ==
    ASSUME NEW woken, Asleep(woken), NEW th, WokenPth(th, woken),
           NEW q \in Slot, NEW j \in Pth, pth'[q][j] = th[q][j]
    PROVE  /\ SameThread(q, j)
           /\ pth'[q][j].state = "RUNNING" <=> pth[q][j].state = "RUNNING"
           /\ pth[q][j].state = "EMBRYO" => pth'[q][j].state = "EMBRYO"
<1>1. /\ pth'[q][j].state = IF <<q, j>> \in woken THEN "RUNNABLE" ELSE pth[q][j].state
      /\ pth'[q][j].tid = pth[q][j].tid
      /\ pth'[q][j].kstack = pth[q][j].kstack
      /\ pth'[q][j].stack = pth[q][j].stack
  BY DEF WokenPth
<1>2. <<q, j>> \in woken => pth[q][j].state = "SLEEPING"
  BY DEF Asleep
<1>3. CASE <<q, j>> \in woken
  BY <1>1, <1>2, <1>3 DEF SameThread, Lasting, Live
<1>4. CASE <<q, j>> \notin woken
  BY <1>1, <1>4 DEF SameThread
<1> QED
  BY <1>3, <1>4

LEMMA WakingLevels ==
    ASSUME LevelInv, NEW woken, Asleep(woken),
           WokenPth(pth', woken), WokenProc(proc', woken),
           call' \in [Thread -> CallRec \cup {None}],
           \A t \in Thread : Forks(t)' => Forks(t) /\ call'[t].slot = call[t].slot,
           UNCHANGED <<kstacks, ustacks, free, nextTid, cur, panic>>
    PROVE  LevelInv' /\ Quiet
<1>2. Typed'
  BY DEF LevelInv, Typed, WokenPth, WokenProc
<1>3. Levels'
  BY WokenLevel DEF LevelInv, Levels
<1>4. \A q \in Slot : \A j \in Pth :
        /\ SameThread(q, j)
        /\ pth'[q][j].state = "RUNNING" <=> pth[q][j].state = "RUNNING"
        /\ pth[q][j].state = "EMBRYO" => pth'[q][j].state = "EMBRYO"
  BY WokenSame
<1>5. OneRuns'
  BY <1>4 DEF LevelInv, OneRuns
<1>6. \A q \in Slot : /\ proc[q].state = "EMBRYO" => proc'[q].state = "EMBRYO"
                      /\ proc'[q].onTidx = proc[q].onTidx
                      /\ proc'[q].mapped = proc[q].mapped
  BY DEF WokenProc
<1>7. Embryos' /\ ForksApart'
  BY <1>4, <1>6, EmbryosStay, Sorts
<1>8. Quiet
  BY <1>4, <1>6 DEF Quiet
<1> QED
  BY <1>2, <1>3, <1>5, <1>7, <1>8 DEF LevelInv

LEMMA WakeLevels ==
    ASSUME LevelInv, NEW p \in Slot, NEW i \in Pth, Wake(<<p, i>>)
    PROVE  LevelInv' /\ Quiet
<1>1. Asleep({<<p, i>>})
  BY DEF Wake, Sleepers, Is, Asleep
<1>2. call' \in [Thread -> CallRec \cup {None}]
  BY DEF LevelInv, Typed, Wake
<1>3. \A t \in Thread : Forks(t)' => Forks(t) /\ call'[t].slot = call[t].slot
  BY DEF Wake, Forks
<1>4. WokenPth(pth', {<<p, i>>}) /\ WokenProc(proc', {<<p, i>>})
  BY PthIsWoken, ProcIsWoken DEF LevelInv, Wake
<1> QED
  BY <1>1, <1>2, <1>3, <1>4, WakingLevels DEF Wake

LEMMA FileOpReturnsLevels ==
    ASSUME LevelInv, NEW p \in Slot, NEW i \in Pth, FileOpReturns(<<p, i>>)
    PROVE  LevelInv' /\ Quiet
<1>1. Asleep(Sleepers(FsLock))
  BY SleepersAsleep
<1>2. call' \in [Thread -> CallRec \cup {None}]
  BY DEF LevelInv, Typed, FileOpReturns
<1>3. \A t \in Thread : Forks(t)' => Forks(t) /\ call'[t].slot = call[t].slot
  BY DEF FileOpReturns, Forks, LevelInv, Typed
<1>4. WokenPth(pth', Sleepers(FsLock)) /\ WokenProc(proc', Sleepers(FsLock))
  BY PthIsWoken, ProcIsWoken DEF LevelInv, FileOpReturns
<1> QED
  BY <1>1, <1>2, <1>3, <1>4, WakingLevels DEF FileOpReturns

LEMMA KillLevels ==
    ASSUME LevelInv, NEW p \in Slot, NEW i \in Pth, NEW q \in Slot, Kill(<<p, i>>, q)
    PROVE  LevelInv' /\ Quiet
<1> DEFINE woken == {t \in Thread : t[1] = q /\ Is(t, "SLEEPING")}
<1>1. \A r \in Slot : \A j \in Pth :
        <<r, j>> \in woken <=> r = q /\ pth[q][j].state = "SLEEPING"
  BY DEF Thread, Is
<1> HIDE DEF woken
<1>2. Asleep(woken)
  BY <1>1 DEF Asleep
<1>3. WokenPth(pth', woken)
  <2>1. ASSUME NEW j \in Pth
        PROVE  LET r == IF pth[q][j].state = "SLEEPING"
                          THEN [pth[q][j] EXCEPT !.state = "RUNNABLE", !.chan = None]
                          ELSE pth[q][j]
               IN  /\ r \in PthRec
                   /\ r.state = IF <<q, j>> \in woken THEN "RUNNABLE" ELSE pth[q][j].state
                   /\ r.tid = pth[q][j].tid
                   /\ r.kstack = pth[q][j].kstack
                   /\ r.stack = pth[q][j].stack
    <3>1. pth[q][j] \in PthRec /\ "RUNNABLE" \in States /\ None \in Chan
      BY Chans DEF LevelInv, Typed, States
    <3>2. [pth[q][j] EXCEPT !.state = "RUNNABLE", !.chan = None]
            = Turned(pth[q][j], "RUNNABLE", None)
      BY DEF Turned
    <3> QED
      BY <1>1, <3>1, <3>2, TurnedTyped
  <2>2. pth' = [pth EXCEPT ![q] = [j \in Pth |->
                  IF pth[q][j].state = "SLEEPING"
                    THEN [pth[q][j] EXCEPT !.state = "RUNNABLE", !.chan = None]
                    ELSE pth[q][j]]]
    BY DEF Kill
  <2> QED
    BY <1>1, <2>1, <2>2 DEF WokenPth, LevelInv, Typed
<1>4. WokenProc(proc', woken)
  <2> DEFINE s == IF proc[q].state = "SLEEPING" THEN "RUNNABLE" ELSE proc[q].state
             r == [proc[q] EXCEPT !.killed = TRUE, !.state = s]
  <2>1. proc[q] \in ProcRec
    BY DEF LevelInv, Typed
  <2>2. r \in ProcRec /\ r.state = s /\ r.onTidx = proc[q].onTidx /\ r.mapped = proc[q].mapped
    BY <2>1 DEF ProcRec, States
  <2>3. proc' = [proc EXCEPT ![q] = r]
    BY <2>1 DEF Kill, ProcRec
  <2>4. s = IF proc[q].state = "SLEEPING" /\ \E j \in Pth : <<q, j>> \in woken
              THEN "RUNNABLE" ELSE proc[q].state
    BY <1>1 DEF LevelInv, Levels, Level, Some
  <2> HIDE DEF r, s
  <2> QED
    BY <1>1, <2>2, <2>3, <2>4 DEF WokenProc, LevelInv, Typed
<1>5. call' \in [Thread -> CallRec \cup {None}]
  BY DEF LevelInv, Typed, Kill
<1>6. \A t \in Thread : Forks(t)' => Forks(t) /\ call'[t].slot = call[t].slot
  BY DEF Kill, Forks
<1> QED
  BY <1>2, <1>3, <1>4, <1>5, <1>6, WakingLevels DEF Kill

\* Steps that leave the two tables alone.
LEMMA StillLevels ==
    ASSUME LevelInv, UNCHANGED <<proc, pth, kstacks, ustacks, free, nextTid, cur, panic>>,
           call' \in [Thread -> CallRec \cup {None}],
           \A t \in Thread : Forks(t)' => Forks(t) /\ call'[t].slot = call[t].slot
    PROVE  LevelInv' /\ Quiet
<1>1. Typed'
  BY DEF LevelInv, Typed
<1>2. Levels' /\ OneRuns'
  BY LevelStays DEF LevelInv, Levels, OneRuns
<1>3. Embryos' /\ ForksApart'
  BY EmbryosStay
<1>4. Quiet
  BY DEF Quiet, SameThread
<1> QED
  BY <1>1, <1>2, <1>3, <1>4 DEF LevelInv

LEMMA PassEndsLevels ==
    ASSUME LevelInv, PassEnds \/ UNCHANGED vars
    PROVE  LevelInv' /\ Quiet
<1>1. UNCHANGED <<proc, pth, kstacks, ustacks, free, nextTid, cur, panic, call>>
  BY DEF PassEnds, vars
<1> QED
  BY <1>1, StillLevels DEF LevelInv, Typed, Forks

LEMMA ExitLevels ==
    ASSUME LevelInv, NEW p \in Slot, NEW i \in Pth, Exit(<<p, i>>) \/ Grow(<<p, i>>)
    PROVE  LevelInv' /\ Quiet
<1>1. \E c \in CallRec : c.op # "fork" /\ call' = [call EXCEPT ![<<p, i>>] = c]
  <2>1. CASE Exit(<<p, i>>)
    BY <2>1, Calling DEF Exit
  <2>2. CASE Grow(<<p, i>>)
    <3>1. proc[p].sz \in 0 .. MaxSz - 1
      BY <2>2, Sorts DEF Grow, LevelInv, Typed, ProcRec
    <3> QED
      BY <2>2, <3>1, Calling DEF Grow
  <2> QED
    BY <2>1, <2>2
<1>2. UNCHANGED <<proc, pth, kstacks, ustacks, free, nextTid, cur, panic>>
  BY DEF Exit, Grow
<1> QED
  BY <1>1, <1>2, StillLevels DEF LevelInv, Typed, Forks

LEMMA SleepingLevels ==
    ASSUME LevelInv, NEW p \in Slot, NEW i \in Pth, Sleep(<<p, i>>) \/ FileOp(<<p, i>>)
    PROVE  LevelInv' /\ Quiet
<1>1. cur = <<p, i>>
  BY DEF Sleep, FileOp, InUser, InProgram, InCall, Runs
<1>2. UNCHANGED <<kstacks, ustacks, free, nextTid, panic>>
  BY DEF Sleep, FileOp
<1>3. \E ch \in Chan : \E c \in CallRec \cup {None} :
         (c = None \/ c.op # "fork") /\ SleepOn(<<p, i>>, ch, c)
  BY Chans, Calling DEF Sleep, FileOp
<1> QED
  BY <1>1, <1>2, <1>3, SleepLevels

LEMMA GrowReturnsLevels ==
    ASSUME LevelInv, NEW p \in Slot, NEW i \in Pth, GrowReturns(<<p, i>>)
    PROVE  LevelInv' /\ Quiet
<1> DEFINE sz == call[<<p, i>>].sz
           r == [proc[p] EXCEPT !.sz = sz + 1, !.mapped = @ \cup {sz}]
<1>1. sz \in 0 .. MaxSz - 1 /\ panic = None
  BY CallTypes DEF GrowReturns, InCall, Runs, LevelInv, Thread
<1>2. proc[p] \in ProcRec
  BY DEF LevelInv, Typed
<1> HIDE DEF sz
<1>3. /\ r \in ProcRec /\ r.state = proc[p].state /\ r.onTidx = proc[p].onTidx
      /\ proc[p].mapped \subseteq r.mapped
  <2>1. sz + 1 \in 0 .. MaxSz
    BY <1>1, Sorts
  <2>2. proc[p].mapped \cup {sz} \in SUBSET (0 .. MaxSz - 1)
    BY <1>1, <1>2 DEF ProcRec
  <2> QED
    BY <1>2, <2>1, <2>2 DEF ProcRec
<1>4. proc' = [proc EXCEPT ![p] = r]
  BY <1>2 DEF GrowReturns, ProcRec, sz
<1> HIDE DEF r
<1>5. /\ proc' \in [Slot -> ProcRec]
      /\ \A q \in Slot : /\ proc'[q].state = proc[q].state
                         /\ proc'[q].onTidx = proc[q].onTidx
                         /\ proc[q].mapped \subseteq proc'[q].mapped
  BY <1>3, <1>4 DEF LevelInv, Typed
<1>6. /\ UNCHANGED <<pth, kstacks, ustacks, free, nextTid, cur>>
      /\ call' = [call EXCEPT ![<<p, i>>] = None]
  BY DEF GrowReturns
<1>7. Typed'
  BY <1>5, <1>6 DEF LevelInv, Typed
<1>8. Levels' /\ OneRuns'
  BY <1>5, <1>6, LevelStays DEF LevelInv, Levels, OneRuns
<1>9. \A t \in Thread : Forks(t)' => Forks(t) /\ call'[t].slot = call[t].slot
  BY <1>6 DEF Forks, LevelInv, Typed
<1>10. Embryos' /\ ForksApart'
  BY <1>5, <1>6, <1>9, EmbryosStay
<1>11. Quiet
  BY <1>1, <1>5, <1>6 DEF Quiet, SameThread
<1> QED
  BY <1>7, <1>8, <1>10, <1>11 DEF LevelInv

LEMMA ThreadExitLevels ==
    ASSUME LevelInv, NEW p \in Slot, NEW i \in Pth, ThreadExit(<<p, i>>)
    PROVE  LevelInv' /\ Quiet
<1> DEFINE woken == Sleepers(JoinChan(pth[p][i].tid))
           mid == PthWoken(woken)
           table == [mid EXCEPT ![p][i].state = "ZOMBIE"]
           awake == ProcWoken(woken)
<1>1. /\ cur = <<p, i>> /\ cur' = None
      /\ pth' = table
      /\ proc' = [awake EXCEPT ![p].state = set_proc_state(table[p])]
      /\ UNCHANGED <<kstacks, ustacks, free, nextTid, call, panic>>
  BY DEF ThreadExit, InProgram, InUser, Runs
<1>2. Asleep(woken)
  BY SleepersAsleep
<1>3. WokenPth(mid, woken) /\ WokenProc(awake, woken)
  BY PthIsWoken, ProcIsWoken DEF LevelInv
<1>4. table = [mid EXCEPT ![p][i] = WithState(mid[p][i], "ZOMBIE")]
  BY DEF WithState
<1> HIDE DEF woken, mid, table, awake
<1>5. <<p, i>> \notin woken
  BY <1>1, <1>2, Running DEF Asleep
<1>6. /\ mid[p][i] \in PthRec
      /\ mid[p][i].tid = pth[p][i].tid /\ mid[p][i].kstack = pth[p][i].kstack
      /\ mid[p][i].stack = pth[p][i].stack
  BY <1>3 DEF WokenPth
<1>7. /\ WithState(mid[p][i], "ZOMBIE") \in PthRec
      /\ WithState(mid[p][i], "ZOMBIE").state = "ZOMBIE"
      /\ WithState(mid[p][i], "ZOMBIE").tid = pth[p][i].tid
      /\ WithState(mid[p][i], "ZOMBIE").kstack = pth[p][i].kstack
      /\ WithState(mid[p][i], "ZOMBIE").stack = pth[p][i].stack
  <2>1. "ZOMBIE" \in States
    BY DEF States
  <2> QED
    BY <2>1, <1>6, WithStateTyped
<1>8. /\ pth' \in [Slot -> [Pth -> PthRec]]
      /\ pth'[p][i] = WithState(mid[p][i], "ZOMBIE")
      /\ \A q \in Slot : \A j \in Pth : q # p \/ j # i => pth'[q][j] = mid[q][j]
      /\ \A q \in Slot \ {p} : pth'[q] = mid[q]
  BY <1>1, <1>3, <1>4, <1>7 DEF WokenPth
<1>9. SameThread(p, i) /\ pth'[p][i].state = "ZOMBIE"
  BY <1>1, <1>7, <1>8, Running DEF SameThread, Lasting, Live
<1>10. \A q \in Slot : \A j \in Pth : q # p \/ j # i =>
         /\ SameThread(q, j)
         /\ pth'[q][j].state = "RUNNING" <=> pth[q][j].state = "RUNNING"
         /\ pth[q][j].state = "EMBRYO" => pth'[q][j].state = "EMBRYO"
  BY <1>2, <1>3, <1>8, WokenSame
<1>11. \A q \in Slot : \A j \in Pth : SameThread(q, j) /\ pth'[q][j].state # "RUNNING"
  BY <1>1, <1>9, <1>10, Running
<1>12. \A j \in Pth : table[p][j].state \notin {"RUNNING", "EMBRYO"}
  <2> TAKE j \in Pth
  <2>1. pth'[p][j].state # "RUNNING" /\ pth[p][j].state # "EMBRYO"
    BY <1>1, <1>11, Running
  <2>2. pth'[p][j].state # "EMBRYO"
    BY <2>1, <1>11 DEF SameThread, Lasting
  <2> QED
    BY <2>1, <2>2, <1>1
<1>13. /\ awake \in [Slot -> ProcRec]
       /\ \A q \in Slot : awake[q].onTidx = proc[q].onTidx /\ awake[q].mapped = proc[q].mapped
       /\ \A q \in Slot : proc[q].state = "EMBRYO" => awake[q].state = "EMBRYO"
  BY <1>3 DEF WokenProc
<1>14. proc'[p].state = set_proc_state(table[p])
  BY <1>1, <1>13 DEF ProcRec
<1>15. Level(p)' /\ proc'[p].state \in {"RUNNABLE", "SLEEPING", "ZOMBIE"}
  BY <1>1, <1>9, <1>12, <1>14, SetProcState
<1>16. /\ proc' \in [Slot -> ProcRec]
       /\ \A q \in Slot : proc'[q].onTidx = proc[q].onTidx /\ proc'[q].mapped = proc[q].mapped
       /\ \A q \in Slot \ {p} : proc'[q] = awake[q]
  <2> DEFINE s == set_proc_state(table[p])
             r == [awake[p] EXCEPT !.state = s]
  <2>1. s \in States
    BY <1>14, <1>15 DEF States
  <2> HIDE DEF s
  <2>2. r \in ProcRec /\ r.onTidx = proc[p].onTidx /\ r.mapped = proc[p].mapped
    BY <1>13, <2>1 DEF ProcRec
  <2>3. proc' = [awake EXCEPT ![p] = r]
    BY <1>1 DEF s
  <2> HIDE DEF r
  <2> QED
    BY <1>13, <2>2, <2>3
<1>17. Typed'
  BY <1>1, <1>8, <1>16 DEF LevelInv, Typed
<1>18. Levels'
  BY <1>2, <1>3, <1>8, <1>15, <1>16, WokenLevel DEF LevelInv, Levels
<1>19. OneRuns'
  BY <1>1, <1>11, Sorts DEF OneRuns, Thread
<1>20. \A q \in Slot : proc[q].state = "EMBRYO" => q # p
  BY <1>1, Running
<1>21. Embryos' /\ ForksApart'
  BY <1>1, <1>10, <1>13, <1>16, <1>20, EmbryosStay, Sorts DEF Forks
<1>22. Quiet
  BY <1>1, <1>11, <1>16 DEF Quiet
<1> QED
  BY <1>17, <1>18, <1>19, <1>21, <1>22 DEF LevelInv

LEMMA ExitDoneLevels ==
    ASSUME LevelInv, NEW p \in Slot, NEW i \in Pth, ExitDone(<<p, i>>)
    PROVE  LevelInv' /\ Quiet
<1> DEFINE woken == ExitRouses(p)
           mid == PthWoken(woken)
           awake == ProcWoken(woken)
<1>0. cur = <<p, i>> /\ cur' = None
  BY DEF ExitDone, InCall, Runs
<1>1. /\ proc' = [q \in Slot |->
            IF q = p THEN [proc[p] EXCEPT !.state = "ZOMBIE"]
            ELSE IF q \in Children(p) THEN [awake[q] EXCEPT !.parent = InitProc]
            ELSE awake[q]]
      /\ pth' = [mid EXCEPT ![p] = [j \in Pth |->
            IF pth[p][j].state = "UNUSED" THEN pth[p][j]
            ELSE [pth[p][j] EXCEPT !.state = "ZOMBIE", !.chan = None]]]
      /\ call' = [s \in Thread |-> IF s[1] = p THEN None ELSE call[s]]
      /\ UNCHANGED <<kstacks, ustacks, free, nextTid, panic>>
  BY DEF ExitDone
<1>2. Asleep(woken)
  BY DEF Asleep, ExitRouses, Sleepers, Is
<1>3. WokenPth(mid, woken) /\ WokenProc(awake, woken)
  BY PthIsWoken, ProcIsWoken DEF LevelInv
<1> HIDE DEF woken, mid, awake
<1>4. ASSUME NEW j \in Pth
      PROVE  LET r == IF pth[p][j].state = "UNUSED" THEN pth[p][j]
                      ELSE [pth[p][j] EXCEPT !.state = "ZOMBIE", !.chan = None]
             IN  /\ r \in PthRec
                 /\ r.state = IF pth[p][j].state = "UNUSED" THEN "UNUSED" ELSE "ZOMBIE"
                 /\ r.tid = pth[p][j].tid
                 /\ r.kstack = pth[p][j].kstack
                 /\ r.stack = pth[p][j].stack
  <2>1. pth[p][j] \in PthRec /\ "ZOMBIE" \in States /\ None \in Chan
    BY Chans DEF LevelInv, Typed, States
  <2>2. [pth[p][j] EXCEPT !.state = "ZOMBIE", !.chan = None]
          = Turned(pth[p][j], "ZOMBIE", None)
    BY DEF Turned
  <2> QED
    BY <2>1, <2>2, TurnedTyped
<1>5. /\ pth' \in [Slot -> [Pth -> PthRec]]
      /\ \A q \in Slot \ {p} : pth'[q] = mid[q]
      /\ \A j \in Pth : SameThread(p, j) /\ pth'[p][j].state \in {"UNUSED", "ZOMBIE"}
  <2>1. pth' \in [Slot -> [Pth -> PthRec]] /\ \A q \in Slot \ {p} : pth'[q] = mid[q]
    BY <1>1, <1>3, <1>4 DEF WokenPth
  <2>2. \A j \in Pth : /\ pth'[p][j].tid = pth[p][j].tid
                       /\ pth'[p][j].kstack = pth[p][j].kstack
                       /\ pth'[p][j].stack = pth[p][j].stack
                       /\ pth'[p][j].state = IF pth[p][j].state = "UNUSED"
                                               THEN "UNUSED" ELSE "ZOMBIE"
    BY <1>1, <1>3, <1>4 DEF WokenPth
  <2>3. \A j \in Pth : pth[p][j].state # "EMBRYO"
    BY <1>0, Running
  <2> QED
    BY <2>1, <2>2, <2>3 DEF SameThread, Lasting, Live
<1>6. \A q \in Slot \ {p} : \A j \in Pth :
        /\ SameThread(q, j)
        /\ pth'[q][j].state = "RUNNING" <=> pth[q][j].state = "RUNNING"
        /\ pth[q][j].state = "EMBRYO" => pth'[q][j].state = "EMBRYO"
  BY <1>2, <1>3, <1>5, WokenSame
<1>7. \A q \in Slot : \A j \in Pth : SameThread(q, j) /\ pth'[q][j].state # "RUNNING"
  <2>1. \A q \in Slot : \A j \in Pth : pth[q][j].state = "RUNNING" => q = p
    BY <1>0, Running
  <2>2. \A j \in Pth : SameThread(p, j) /\ pth'[p][j].state # "RUNNING"
    BY <1>5
  <2> QED
    BY <1>6, <2>1, <2>2
<1>8. /\ proc' \in [Slot -> ProcRec]
      /\ proc'[p].state = "ZOMBIE"
      /\ \A q \in Slot : proc'[q].onTidx = proc[q].onTidx /\ proc'[q].mapped = proc[q].mapped
      /\ \A q \in Slot \ {p} : proc'[q].state = awake[q].state
  <2>1. ASSUME NEW q \in Slot
        PROVE  LET r == IF q = p THEN [proc[p] EXCEPT !.state = "ZOMBIE"]
                        ELSE IF q \in Children(p) THEN [awake[q] EXCEPT !.parent = InitProc]
                        ELSE awake[q]
               IN  /\ r \in ProcRec
                   /\ r.state = IF q = p THEN "ZOMBIE" ELSE awake[q].state
                   /\ r.onTidx = proc[q].onTidx /\ r.mapped = proc[q].mapped
    <3>1. /\ proc[p] \in ProcRec /\ awake[q] \in ProcRec
          /\ awake[q].onTidx = proc[q].onTidx /\ awake[q].mapped = proc[q].mapped
      BY <1>3 DEF WokenProc, LevelInv, Typed
    <3> QED
      BY <3>1, Sorts DEF ProcRec, States
  <2> QED
    BY <1>1, <2>1
<1>9. \A q \in Slot \ {p} : proc[q].state = "EMBRYO" => proc'[q].state = "EMBRYO"
  BY <1>3, <1>8 DEF WokenProc
<1>10. call' \in [Thread -> CallRec \cup {None}]
  BY <1>1 DEF LevelInv, Typed
<1>11. Typed'
  BY <1>0, <1>1, <1>5, <1>8, <1>10 DEF LevelInv, Typed
<1>12. Level(p)'
  BY <1>5, <1>8 DEF Level, Some, Live
<1>13. Levels'
  BY <1>2, <1>3, <1>5, <1>8, <1>12, WokenLevel DEF LevelInv, Levels
<1>14. OneRuns'
  BY <1>0, <1>7, Sorts DEF OneRuns, Thread
<1>15. \A t \in Thread : Forks(t)' => Forks(t) /\ call'[t].slot = call[t].slot
  BY <1>1 DEF Forks
<1>16. \A q \in Slot : proc[q].state = "EMBRYO" => q # p
  BY <1>0, Running
<1>17. Embryos' /\ ForksApart'
  BY <1>6, <1>9, <1>15, <1>16, EmbryosStay, Sorts
<1>18. Quiet
  BY <1>1, <1>7, <1>8 DEF Quiet
<1> QED
  BY <1>11, <1>13, <1>14, <1>17, <1>18 DEF LevelInv

-----------------------------------------------------------------------------
(* wait and thread_join *)

LEMMA WaitStillLevels ==
    ASSUME LevelInv, NEW p \in Slot, NEW i \in Pth, Wait(<<p, i>>),
           ~\E q \in Children(p) : proc[q].state = "ZOMBIE"
    PROVE  LevelInv' /\ Quiet
<1>1. cur = <<p, i>> /\ UNCHANGED <<kstacks, ustacks, free, nextTid, panic>>
  BY DEF Wait, InUser, InCall, Runs
<1>2. CASE SleepOn(<<p, i>>, WaitChan(p), [op |-> "wait"])
  BY <1>1, <1>2, Chans, Calling, SleepLevels
<1>3. CASE UNCHANGED <<proc, pth, cur>> /\ call' = [call EXCEPT ![<<p, i>>] = None]
  BY <1>1, <1>3, StillLevels DEF LevelInv, Typed, Forks
<1> QED
  BY <1>2, <1>3 DEF Wait

LEMMA WaitReaps ==
    ASSUME LevelInv, NEW p \in Slot, NEW i \in Pth, Wait(<<p, i>>),
           \E q \in Children(p) : proc[q].state = "ZOMBIE"
    PROVE  /\ \E q \in Slot : proc[q].state = "ZOMBIE" /\ Reaped(q)
           /\ call' = [call EXCEPT ![<<p, i>>] = None]
           /\ UNCHANGED <<nextTid, cur, panic>>
BY DEF Wait, Children

LEMMA ReapedShape ==
    ASSUME LevelInv, NEW q \in Slot, Reaped(q)
    PROVE  /\ proc' \in [Slot -> ProcRec] /\ pth' \in [Slot -> [Pth -> PthRec]]
           /\ kstacks' \in [Slot -> [Pth -> KStack \cup {None}]]
           /\ ustacks' \in [Slot -> [Pth -> 0 .. MaxSz]]
           /\ free' \subseteq KStack
           /\ proc'[q] = NoProc /\ \A j \in Pth : pth'[q][j] = NoThread
           /\ \A j \in Pth : kstacks'[q][j] =
                 IF pth[q][j].kstack # None THEN None ELSE kstacks[q][j]
           /\ \A j \in Pth : ustacks'[q][j] = 0
           /\ free' = free \cup ({pth[q][j].kstack : j \in Pth} \ {None})
           /\ \A r \in Slot \ {q} : /\ proc'[r] = proc[r] /\ pth'[r] = pth[r]
                                    /\ kstacks'[r] = kstacks[r] /\ ustacks'[r] = ustacks[r]
<1>1. NoProc \in ProcRec /\ NoThread \in PthRec
  BY Sorts, Chans DEF NoProc, NoThread, ProcRec, PthRec, States
<1>2. /\ proc' = [proc EXCEPT ![q] = NoProc]
      /\ pth' = [pth EXCEPT ![q] = [j \in Pth |-> NoThread]]
      /\ kstacks' = [kstacks EXCEPT ![q] =
            [j \in Pth |-> IF pth[q][j].kstack # None THEN None ELSE kstacks[q][j]]]
      /\ ustacks' = [ustacks EXCEPT ![q] = [j \in Pth |-> 0]]
      /\ free' = free \cup ({pth[q][j].kstack : j \in Pth} \ {None})
  BY DEF Reaped
<1>3. \A j \in Pth : pth[q][j].kstack \in KStack \cup {None} /\ kstacks[q][j] \in KStack \cup {None}
  BY DEF LevelInv, Typed, PthRec
<1>4. free' \subseteq KStack
  BY <1>2, <1>3 DEF LevelInv, Typed
<1>5. /\ proc' \in [Slot -> ProcRec] /\ proc'[q] = NoProc
      /\ \A r \in Slot \ {q} : proc'[r] = proc[r]
  BY <1>1, <1>2 DEF LevelInv, Typed
<1>6. /\ pth' \in [Slot -> [Pth -> PthRec]] /\ \A j \in Pth : pth'[q][j] = NoThread
      /\ \A r \in Slot \ {q} : pth'[r] = pth[r]
  BY <1>1, <1>2 DEF LevelInv, Typed
<1>7. /\ kstacks' \in [Slot -> [Pth -> KStack \cup {None}]]
      /\ \A j \in Pth : kstacks'[q][j] =
            IF pth[q][j].kstack # None THEN None ELSE kstacks[q][j]
      /\ \A r \in Slot \ {q} : kstacks'[r] = kstacks[r]
  BY <1>2, <1>3 DEF LevelInv, Typed
<1>8. /\ ustacks' \in [Slot -> [Pth -> 0 .. MaxSz]] /\ \A j \in Pth : ustacks'[q][j] = 0
      /\ \A r \in Slot \ {q} : ustacks'[r] = ustacks[r]
  BY <1>2, Sorts DEF LevelInv, Typed
<1> QED
  BY <1>2, <1>4, <1>5, <1>6, <1>7, <1>8

LEMMA ReapedLevels ==
    ASSUME LevelInv, NEW q \in Slot, proc[q].state = "ZOMBIE", Reaped(q),
           NEW t \in Thread, call' = [call EXCEPT ![t] = None],
           UNCHANGED <<nextTid, cur, panic>>
    PROVE  LevelInv'
<1>1. Typed'
  BY ReapedShape DEF LevelInv, Typed
<1>2. proc'[q].state = "UNUSED" /\ \A j \in Pth : pth'[q][j].state = "UNUSED"
  BY ReapedShape DEF NoProc, NoThread
<1>3. \A r \in Slot \ {q} : proc'[r] = proc[r] /\ pth'[r] = pth[r]
  BY ReapedShape
<1>4. Level(q)'
  BY <1>2 DEF Level, Some, Live
<1>5. Levels'
  BY <1>3, <1>4, LevelStays DEF LevelInv, Levels
<1>6. \A j \in Pth : pth[q][j].state # "RUNNING"
  BY DEF LevelInv, Levels, Level, Live
<1>7. OneRuns'
  BY <1>2, <1>3, <1>6 DEF LevelInv, OneRuns
<1>8. \A s \in Thread : Forks(s)' => Forks(s) /\ call'[s].slot = call[s].slot
  BY DEF Forks, LevelInv, Typed
<1>9. Embryos' /\ ForksApart'
  BY <1>3, <1>8, EmbryosStay
<1> QED
  BY <1>1, <1>5, <1>7, <1>9 DEF LevelInv

LEMMA ReapedKeeps ==
    ASSUME KStackInv, NEW q \in Slot, proc[q].state = "ZOMBIE", Reaped(q)
    PROVE  Kept' /\ KeptApart'
<1>0. LevelInv /\ None \notin KStack
  BY Sorts DEF KStackInv
<1>1. /\ \A j \in Pth : pth'[q][j].state = "UNUSED" /\ pth'[q][j].kstack = None
      /\ \A j \in Pth : kstacks'[q][j] \in {None, kstacks[q][j]}
      /\ \A r \in Slot \ {q} : pth'[r] = pth[r] /\ kstacks'[r] = kstacks[r]
  BY <1>0, ReapedShape DEF NoThread
<1>2. KeptApart'
  BY <1>1 DEF KStackInv, KeptApart
<1>3. ASSUME NEW r \in Slot, NEW j \in Pth PROVE kstacks'[r][j] \notin free'
  <2>1. SUFFICES ASSUME kstacks'[r][j] \in free' PROVE FALSE
    OBVIOUS
  <2>2. kstacks'[r][j] # None /\ kstacks'[r][j] = kstacks[r][j]
    BY <1>0, <1>1, <2>1, ReapedShape
  <2>3. kstacks[r][j] \notin free
    BY DEF KStackInv, Kept
  <2>4. PICK k \in Pth : kstacks[r][j] = pth[q][k].kstack
    BY <1>0, <2>1, <2>2, <2>3, ReapedShape
  <2>5. kstacks[q][k] = kstacks[r][j]
    BY <2>2, <2>4 DEF KStackInv, Kept
  <2>6. r = q /\ j = k
    BY <2>2, <2>5 DEF KStackInv, KeptApart
  <2>7. kstacks'[r][j] = None
    BY <1>0, <2>2, <2>4, <2>6, ReapedShape
  <2> QED
    BY <2>2, <2>7
<1>4. Kept'
  BY <1>1, <1>3 DEF KStackInv, Kept, Live
<1> QED
  BY <1>2, <1>4

LEMMA ReapedStacks ==
    ASSUME LevelInv, NEW q \in Slot, Reaped(q), NEW r \in Slot, UStacks(r)
    PROVE  UStacks(r)'
<1>1. CASE r = q
  <2>1. \A j \in Pth : pth'[q][j].state = "UNUSED" /\ ustacks'[q][j] = 0
    BY ReapedShape DEF NoThread
  <2> QED
    BY <1>1, <2>1 DEF UStacks, Lasting
<1>2. CASE r # q
  <2>1. proc'[r] = proc[r] /\ pth'[r] = pth[r] /\ ustacks'[r] = ustacks[r]
    BY <1>2, ReapedShape
  <2> QED
    BY <2>1 DEF UStacks, Lasting
<1> QED
  BY <1>1, <1>2

JoinedDead(x) == {s \in Named(x) : Is(s, "ZOMBIE")}

LEMMA JoinStillLevels ==
    ASSUME LevelInv, NEW p \in Slot, NEW i \in Pth, NEW x \in 1 .. MaxTid,
           ThreadJoin(<<p, i>>, x), JoinedDead(x) = {}
    PROVE  LevelInv' /\ Quiet
<1>1. cur = <<p, i>> /\ UNCHANGED <<kstacks, ustacks, free, nextTid, panic>>
  BY DEF ThreadJoin, InProgram, InUser, InCall, Runs
<1>2. SleepOn(<<p, i>>, JoinChan(x), [op |-> "join", tid |-> x])
  BY DEF ThreadJoin, JoinedDead
<1>3. /\ JoinChan(x) \in Chan
      /\ [op |-> "join", tid |-> x] \in CallRec
  BY Chans, Calling
<1> QED
  BY <1>1, <1>2, <1>3, SleepLevels

LEMMA JoinShape ==
    ASSUME LevelInv, NEW t \in Thread, NEW x \in 1 .. MaxTid,
           ThreadJoin(t, x), JoinedDead(x) # {}
    PROVE  /\ pth' \in [Slot -> [Pth -> PthRec]]
           /\ \A q \in Slot : \A j \in Pth :
                 \/ pth'[q][j] = pth[q][j]
                 \/ pth'[q][j] = NoThread /\ pth[q][j].state = "ZOMBIE"
           /\ call' = [call EXCEPT ![t] = None]
           /\ UNCHANGED <<proc, kstacks, ustacks, free, nextTid, cur, panic>>
<1>1. NoThread \in PthRec
  BY Sorts, Chans DEF NoThread, PthRec, States
<1>2. pth' = [q \in Slot |-> [j \in Pth |->
                IF <<q, j>> \in JoinedDead(x) THEN NoThread ELSE pth[q][j]]]
  BY DEF ThreadJoin, JoinedDead
<1>3. \A q \in Slot : \A j \in Pth :
        <<q, j>> \in JoinedDead(x) => pth[q][j].state = "ZOMBIE"
  BY DEF JoinedDead, Is
<1>4. pth' \in [Slot -> [Pth -> PthRec]]
  BY <1>1, <1>2 DEF LevelInv, Typed
<1> QED
  BY <1>2, <1>3, <1>4 DEF ThreadJoin, JoinedDead

LEMMA JoinLevels ==
    ASSUME LevelInv, NEW t \in Thread, NEW x \in 1 .. MaxTid,
           ThreadJoin(t, x), JoinedDead(x) # {}
    PROVE  LevelInv'
<1>1. \A q \in Slot : \A j \in Pth :
        \/ pth'[q][j].state = pth[q][j].state
        \/ pth'[q][j].state = "UNUSED" /\ pth[q][j].state = "ZOMBIE"
  BY JoinShape DEF NoThread
<1>2. UNCHANGED <<proc, kstacks, ustacks, free, nextTid, cur, panic>>
  BY JoinShape
<1>3. Typed'
  BY <1>2, JoinShape DEF LevelInv, Typed
<1>4. ASSUME NEW q \in Slot PROVE Level(q)'
  <2>1. Level(q) /\ proc'[q] = proc[q]
    BY <1>2 DEF LevelInv, Levels
  <2>2. \A s \in Live : Some(q, s)' <=> Some(q, s)
    BY <1>1 DEF Some, Live
  <2>3. \A j \in Pth : pth'[q][j].state \in Live \cup {"EMBRYO"} => pth'[q][j].state = pth[q][j].state
    BY <1>1 DEF Live
  <2>4. \A j \in Pth : pth[q][j].state = "UNUSED" => pth'[q][j].state = "UNUSED"
    BY <1>1
  <2> QED
    BY <2>1, <2>2, <2>3, <2>4 DEF Level, Live
<1>5. OneRuns'
  BY <1>1, <1>2 DEF LevelInv, OneRuns
<1>6. \A s \in Thread : Forks(s)' => Forks(s) /\ call'[s].slot = call[s].slot
  BY JoinShape DEF Forks, LevelInv, Typed
<1>7. Embryos' /\ ForksApart'
  BY <1>1, <1>2, <1>6, EmbryosStay, Sorts
<1> QED
  BY <1>3, <1>4, <1>5, <1>7 DEF LevelInv, Levels

LEMMA JoinKeeps ==
    ASSUME KStackInv, NEW t \in Thread, NEW x \in 1 .. MaxTid,
           ThreadJoin(t, x), JoinedDead(x) # {}
    PROVE  Kept' /\ KeptApart'
<1>1. \A q \in Slot : \A j \in Pth :
        \/ pth'[q][j] = pth[q][j]
        \/ pth'[q][j].state = "UNUSED" /\ pth'[q][j].kstack = None
  BY JoinShape DEF KStackInv, NoThread
<1>2. UNCHANGED <<kstacks, free>>
  BY JoinShape DEF KStackInv
<1>3. Kept'
  BY <1>1, <1>2 DEF KStackInv, Kept, Live
<1> QED
  BY <1>2, <1>3 DEF KStackInv, KeptApart

LEMMA JoinStacks ==
    ASSUME LevelInv, NEW t \in Thread, NEW x \in 1 .. MaxTid,
           ThreadJoin(t, x), JoinedDead(x) # {}, NEW q \in Slot, UStacks(q)
    PROVE  UStacks(q)'
<1>1. \A j \in Pth : pth'[q][j] = pth[q][j] \/ pth'[q][j].state = "UNUSED"
  BY JoinShape DEF NoThread
<1>2. proc'[q] = proc[q] /\ ustacks'[q] = ustacks[q]
  BY JoinShape
<1>3. \A j \in Pth : Lasting(q, j)' => Lasting(q, j) /\ pth'[q][j] = pth[q][j]
  BY <1>1 DEF Lasting
<1>4. \A j \in Pth : pth[q][j].state = "UNUSED" => pth'[q][j].state = "UNUSED"
  BY <1>1
<1>5. \A j \in Pth : pth'[q][j].state = "RUNNING" => pth[q][j].state = "RUNNING"
  BY <1>1
<1> QED
  BY <1>2, <1>3, <1>4, <1>5 DEF UStacks

-----------------------------------------------------------------------------
(* fork *)

LEMMA PageIsFree ==
    ASSUME Typed, free # {} PROVE Page \in free
<1> DEFINE Less == {ss \in Nat \X Nat : ss[1] < ss[2]}
<1>1. IsWellFoundedOn(Less, Nat)
  BY NatLessThanWellFounded DEF OpToRel
<1>2. free \subseteq Nat
  BY DEF Typed, KStack
<1>3. PICK k \in free : \A l \in free : ~(<<l, k>> \in Less)
  BY <1>1, <1>2, WFMin
<1>4. \A l \in free : ~(l < k)
  <2> TAKE l \in free
  <2>1. <<l, k>> \in Nat \X Nat
    BY <1>2
  <2> QED
    BY <1>3, <2>1
<1> HIDE DEF Less
<1>5. \A l \in free : k =< l
  BY <1>2, <1>4
<1> QED
  BY <1>5 DEF Page

\* Slot c has been taken for a child of t's process, whose thread 0 has Page.
Begun(t, c) ==
    /\ proc[c].state = "UNUSED" /\ proc'[c].state = "EMBRYO" /\ proc'[c].onTidx = 0
    /\ pth'[c][0].state = "EMBRYO" /\ pth'[c][0].kstack = Page
    /\ \A j \in Pth \ {0} : pth'[c][j] = pth[c][j]
    /\ \A j \in Pth : kstacks'[c][j] = IF j = 0 THEN Page ELSE None
    /\ Page \in free /\ free' = free \ {Page}
    /\ call' = [call EXCEPT ![t] = [op |-> "fork", slot |-> c]]

\* Slot c has been looked at, and there was no page for its kernel stack.
NotBegun(c) ==
    /\ proc[c].state = "UNUSED" /\ proc'[c] = proc[c]
    /\ \A j \in Pth : pth'[c][j].state = pth[c][j].state /\ pth'[c][j].kstack = pth[c][j].kstack
    /\ \A j \in Pth : kstacks'[c][j] = None
    /\ UNCHANGED <<free, call>>

LEMMA ForkShape ==
    ASSUME LevelInv, NEW p \in Slot, NEW i \in Pth, Fork(<<p, i>>)
    PROVE  /\ \E c \in Slot :
                 /\ Begun(<<p, i>>, c) \/ NotBegun(c)
                 /\ \A j \in Pth : ustacks'[c][j] = 0
                 /\ \A r \in Slot \ {c} : /\ proc'[r] = proc[r] /\ pth'[r] = pth[r]
                                          /\ kstacks'[r] = kstacks[r] /\ ustacks'[r] = ustacks[r]
           /\ UNCHANGED <<cur, panic>>
           /\ Typed'
<1>1. PICK c \in Slot :
        /\ proc[c].state = "UNUSED"
        /\ nextTid =< MaxTid /\ nextTid' = nextTid + 1
        /\ ustacks' = [ustacks EXCEPT ![c] = [j \in Pth |-> 0]]
        /\ IF free # {}
             THEN /\ proc' = [proc EXCEPT ![c].state = "EMBRYO", ![c].onTidx = 0]
                  /\ pth' = [pth EXCEPT ![c][0] = [@ EXCEPT !.state = "EMBRYO",
                                           !.tid = nextTid, !.kstack = Page]]
                  /\ kstacks' = [kstacks EXCEPT ![c] =
                                   [j \in Pth |-> IF j = 0 THEN Page ELSE None]]
                  /\ free' = free \ {Page}
                  /\ call' = [call EXCEPT ![<<p, i>>] = [op |-> "fork", slot |-> c]]
             ELSE /\ pth' = [pth EXCEPT ![c][0].tid = nextTid]
                  /\ kstacks' = [kstacks EXCEPT ![c] = [j \in Pth |-> None]]
                  /\ UNCHANGED <<proc, free, call>>
  BY DEF Fork
<1>2. UNCHANGED <<cur, panic>>
  BY DEF Fork
<1>3. /\ 0 \in Pth /\ proc[c] \in ProcRec /\ pth[c][0] \in PthRec
      /\ nextTid \in 0 .. MaxTid /\ nextTid' \in Nat \ {0}
  BY <1>1, Sorts DEF LevelInv, Typed
<1>4. /\ ustacks' \in [Slot -> [Pth -> 0 .. MaxSz]]
      /\ \A j \in Pth : ustacks'[c][j] = 0
      /\ \A r \in Slot \ {c} : ustacks'[r] = ustacks[r]
  BY <1>1, Sorts DEF LevelInv, Typed
<1>5. CASE free # {}
  <2>1. Page \in free /\ Page \in KStack
    BY <1>5, PageIsFree DEF LevelInv, Typed
  <2> DEFINE r == [proc[c] EXCEPT !.state = "EMBRYO", !.onTidx = 0]
             th == [pth[c][0] EXCEPT !.state = "EMBRYO", !.tid = nextTid, !.kstack = Page]
  <2>2. r \in ProcRec /\ r.state = "EMBRYO" /\ r.onTidx = 0
    BY <1>3 DEF ProcRec, States
  <2>3. th \in PthRec /\ th.state = "EMBRYO" /\ th.kstack = Page
    BY <1>3, <2>1 DEF PthRec, States
  <2>4. /\ proc' = [proc EXCEPT ![c] = r] /\ pth' = [pth EXCEPT ![c][0] = th]
        /\ kstacks' = [kstacks EXCEPT ![c] = [j \in Pth |-> IF j = 0 THEN Page ELSE None]]
        /\ free' = free \ {Page}
        /\ call' = [call EXCEPT ![<<p, i>>] = [op |-> "fork", slot |-> c]]
    BY <1>1, <1>3, <1>5 DEF ProcRec
  <2> HIDE DEF r, th
  <2>5. /\ proc' \in [Slot -> ProcRec] /\ proc'[c] = r
        /\ \A q \in Slot \ {c} : proc'[q] = proc[q]
    BY <2>2, <2>4 DEF LevelInv, Typed
  <2>6. /\ pth' \in [Slot -> [Pth -> PthRec]] /\ pth'[c][0] = th
        /\ \A j \in Pth \ {0} : pth'[c][j] = pth[c][j]
        /\ \A q \in Slot \ {c} : pth'[q] = pth[q]
    BY <1>3, <2>3, <2>4 DEF LevelInv, Typed
  <2>7. /\ kstacks' \in [Slot -> [Pth -> KStack \cup {None}]]
        /\ \A j \in Pth : kstacks'[c][j] = IF j = 0 THEN Page ELSE None
        /\ \A q \in Slot \ {c} : kstacks'[q] = kstacks[q]
    BY <2>1, <2>4 DEF LevelInv, Typed
  <2>8. call' \in [Thread -> CallRec \cup {None}]
    BY <2>4, Calling DEF LevelInv, Typed
  <2>9. Typed'
    BY <1>2, <1>3, <1>4, <2>4, <2>5, <2>6, <2>7, <2>8 DEF LevelInv, Typed
  <2>10. Begun(<<p, i>>, c)
    BY <1>1, <2>1, <2>2, <2>3, <2>4, <2>5, <2>6, <2>7 DEF Begun
  <2> QED
    BY <1>2, <1>4, <2>5, <2>6, <2>7, <2>9, <2>10
<1>6. CASE free = {}
  <2> DEFINE th == [pth[c][0] EXCEPT !.tid = nextTid]
  <2>1. th \in PthRec /\ th.state = pth[c][0].state /\ th.kstack = pth[c][0].kstack
    BY <1>3 DEF PthRec
  <2>2. /\ pth' = [pth EXCEPT ![c][0] = th]
        /\ kstacks' = [kstacks EXCEPT ![c] = [j \in Pth |-> None]]
        /\ UNCHANGED <<proc, free, call>>
    BY <1>1, <1>6
  <2> HIDE DEF th
  <2>3. /\ pth' \in [Slot -> [Pth -> PthRec]] /\ pth'[c][0] = th
        /\ \A j \in Pth \ {0} : pth'[c][j] = pth[c][j]
        /\ \A q \in Slot \ {c} : pth'[q] = pth[q]
    BY <1>3, <2>1, <2>2 DEF LevelInv, Typed
  <2>4. /\ kstacks' \in [Slot -> [Pth -> KStack \cup {None}]]
        /\ \A j \in Pth : kstacks'[c][j] = None
        /\ \A q \in Slot \ {c} : kstacks'[q] = kstacks[q]
    BY <2>2 DEF LevelInv, Typed
  <2>5. Typed'
    BY <1>2, <1>3, <1>4, <2>2, <2>3, <2>4 DEF LevelInv, Typed
  <2>6. \A j \in Pth : pth'[c][j].state = pth[c][j].state /\ pth'[c][j].kstack = pth[c][j].kstack
    BY <2>1, <2>3
  <2>7. NotBegun(c)
    BY <1>1, <2>2, <2>4, <2>6 DEF NotBegun
  <2> QED
    BY <1>2, <1>4, <2>2, <2>3, <2>4, <2>5, <2>7
<1> QED
  BY <1>5, <1>6

LEMMA ForkLevels ==
    ASSUME LevelInv, NEW p \in Slot, NEW i \in Pth, Fork(<<p, i>>)
    PROVE  LevelInv'
<1>1. PICK c \in Slot :
        /\ Begun(<<p, i>>, c) \/ NotBegun(c)
        /\ \A r \in Slot \ {c} : proc'[r] = proc[r] /\ pth'[r] = pth[r]
  BY ForkShape
<1>2. Typed' /\ UNCHANGED cur
  BY ForkShape
<1>3. /\ proc[c].state = "UNUSED" /\ \A j \in Pth : pth[c][j].state = "UNUSED"
  BY <1>1 DEF Begun, NotBegun, LevelInv, Levels, Level
<1>4. /\ \A j \in Pth \ {0} : pth'[c][j].state = "UNUSED"
      /\ proc'[c].state = pth'[c][0].state
      /\ pth'[c][0].state \in {"UNUSED", "EMBRYO"}
  BY <1>1, <1>3, Sorts DEF Begun, NotBegun
<1>5. \A j \in Pth : pth'[c][j].state \in {"UNUSED", "EMBRYO"}
  BY <1>4
<1>6. Level(c)'
  BY <1>4, <1>5 DEF Level, Some, Live
<1>7. Levels'
  BY <1>1, <1>6, LevelStays DEF LevelInv, Levels
<1>8. OneRuns'
  <2>1. \A j \in Pth : pth[c][j].state # "RUNNING" /\ pth'[c][j].state # "RUNNING"
    BY <1>3, <1>5
  <2> QED
    BY <1>1, <1>2, <2>1 DEF LevelInv, OneRuns
<1>9. \A t \in Thread : Forks(t) => call[t].slot \in Slot /\ call[t].slot # c
  BY <1>3, CallTypes DEF Forks, LevelInv, Embryos
<1>10. \A q \in Slot : proc[q].state = "EMBRYO" => proc'[q] = proc[q] /\ pth'[q] = pth[q]
  BY <1>1, <1>3
<1>11. CASE Begun(<<p, i>>, c)
  <2>1. call' = [call EXCEPT ![<<p, i>>] = [op |-> "fork", slot |-> c]] /\ <<p, i>> \in Thread
    BY <1>11 DEF Begun, Thread
  <2>2. proc'[c].state = "EMBRYO" /\ pth'[c][0].state = "EMBRYO"
    BY <1>11 DEF Begun
  <2>3. \A t \in Thread : Forks(t)' =>
          \/ t = <<p, i>> /\ call'[t].slot = c
          \/ t # <<p, i>> /\ Forks(t) /\ call'[t].slot = call[t].slot
    BY <2>1 DEF Forks, LevelInv, Typed
  <2>4. Embryos'
    BY <1>9, <1>10, <2>2, <2>3 DEF LevelInv, Embryos
  <2>5. ForksApart'
    BY <1>9, <2>3 DEF LevelInv, ForksApart
  <2> QED
    BY <1>2, <1>7, <1>8, <2>4, <2>5 DEF LevelInv
<1>12. CASE NotBegun(c)
  <2>1. Embryos' /\ ForksApart'
    BY <1>10, <1>12, EmbryosStay DEF NotBegun, Forks
  <2> QED
    BY <1>2, <1>7, <1>8, <2>1 DEF LevelInv
<1> QED
  BY <1>1, <1>11, <1>12

LEMMA ForkKeeps ==
    ASSUME KStackInv, NEW p \in Slot, NEW i \in Pth, Fork(<<p, i>>)
    PROVE  Kept' /\ KeptApart'
<1>0. LevelInv /\ None \notin KStack /\ 0 \in Pth
  BY Sorts DEF KStackInv
<1>1. PICK c \in Slot :
        /\ Begun(<<p, i>>, c) \/ NotBegun(c)
        /\ \A r \in Slot \ {c} : pth'[r] = pth[r] /\ kstacks'[r] = kstacks[r]
  BY <1>0, ForkShape
<1>2. \A j \in Pth : pth[c][j].state = "UNUSED" /\ pth[c][j].kstack = None
  BY <1>1 DEF KStackInv, LevelInv, Levels, Level, Begun, NotBegun, Kept
<1>3. None \notin free
  BY <1>0 DEF LevelInv, Typed
<1>4. CASE Begun(<<p, i>>, c)
  <2>1. /\ pth'[c][0].state = "EMBRYO" /\ pth'[c][0].kstack = Page
        /\ \A j \in Pth \ {0} : pth'[c][j] = pth[c][j] /\ kstacks'[c][j] = None
        /\ kstacks'[c][0] = Page /\ Page \in free /\ free' = free \ {Page} /\ Page # None
    BY <1>0, <1>3, <1>4 DEF Begun
  <2>2. \A r \in Slot \ {c} : \A j \in Pth : kstacks'[r][j] # Page
    BY <1>1, <2>1 DEF KStackInv, Kept
  <2>3. KeptApart'
    BY <1>1, <2>1, <2>2 DEF KStackInv, KeptApart
  <2>4. ASSUME NEW j \in Pth
        PROVE  /\ pth'[c][j].kstack # None => kstacks'[c][j] = pth'[c][j].kstack
               /\ pth'[c][j].state \in Live \cup {"EMBRYO"} => pth'[c][j].kstack # None
               /\ pth'[c][j].state = "UNUSED" => pth'[c][j].kstack = None
               /\ kstacks'[c][j] \notin free'
    BY <1>2, <1>3, <2>1 DEF Live
  <2>5. Kept'
    BY <1>1, <2>1, <2>4 DEF KStackInv, Kept
  <2> QED
    BY <2>3, <2>5
<1>5. CASE NotBegun(c)
  <2>1. /\ \A j \in Pth : pth'[c][j].state = "UNUSED" /\ pth'[c][j].kstack = None
        /\ \A j \in Pth : kstacks'[c][j] = None
        /\ free' = free
    BY <1>2, <1>5 DEF NotBegun
  <2>2. KeptApart'
    BY <1>1, <2>1 DEF KStackInv, KeptApart
  <2>3. Kept'
    BY <1>1, <1>3, <2>1 DEF KStackInv, Kept, Live
  <2> QED
    BY <2>2, <2>3
<1> QED
  BY <1>1, <1>4, <1>5

LEMMA ForkStacks ==
    ASSUME LevelInv, NEW p \in Slot, NEW i \in Pth, Fork(<<p, i>>), NEW q \in Slot, UStacks(q)
    PROVE  UStacks(q)'
<1>1. PICK c \in Slot :
        /\ Begun(<<p, i>>, c) \/ NotBegun(c)
        /\ \A j \in Pth : ustacks'[c][j] = 0
        /\ \A r \in Slot \ {c} : /\ proc'[r] = proc[r] /\ pth'[r] = pth[r]
                                 /\ ustacks'[r] = ustacks[r]
  BY ForkShape
<1>2. \A j \in Pth : pth[c][j].state = "UNUSED"
  BY <1>1 DEF LevelInv, Levels, Level, Begun, NotBegun
<1>3. \A j \in Pth : pth'[c][j].state \in {"UNUSED", "EMBRYO"}
  BY <1>1, <1>2 DEF Begun, NotBegun
<1>4. CASE q = c
  BY <1>1, <1>3, <1>4 DEF UStacks, Lasting
<1>5. CASE q # c
  <2>1. proc'[q] = proc[q] /\ pth'[q] = pth[q] /\ ustacks'[q] = ustacks[q]
    BY <1>1, <1>5
  <2> QED
    BY <2>1 DEF UStacks, Lasting
<1> QED
  BY <1>4, <1>5

\* The child in slot c is there, a copy of t's process with t as its thread 0.
ChildBorn(t, c) ==
    /\ proc'[c].state = "RUNNABLE"
    /\ pth'[c][0].state = "RUNNABLE" /\ pth'[c][0].kstack = pth[c][0].kstack
    /\ pth'[c][0].stack = pth[t[1]][t[2]].stack
    /\ ustacks'[c] = ForkedStacks(t[1])
    /\ UNCHANGED <<kstacks, free>>

\* There was no memory for the copy.
ChildDropped(c) ==
    /\ proc'[c].state = "UNUSED"
    /\ pth'[c][0].state = "UNUSED" /\ pth'[c][0].kstack = None
    /\ kstacks'[c][0] = None /\ \A j \in Pth \ {0} : kstacks'[c][j] = kstacks[c][j]
    /\ free' = free \cup {pth[c][0].kstack}
    /\ ustacks'[c] = ustacks[c]

\* The slot of the child whose fork t is in the middle of.
Child(t) == call[t].slot

LEMMA ForkReturnsReady ==
    ASSUME KStackInv, NEW p \in Slot, NEW i \in Pth, ForkReturns(<<p, i>>)
    PROVE  /\ \A j \in Pth : pth[p][j].state # "EMBRYO"
           /\ \A q \in Slot : pth[q][0].state = "EMBRYO" => pth[q][0].kstack \in KStack
<1>1. cur = <<p, i>> /\ LevelInv
  BY DEF ForkReturns, InCall, Runs, KStackInv
<1>2. \A j \in Pth : pth[p][j].state # "EMBRYO"
  BY <1>1, Running
<1>3. \A q \in Slot : pth[q][0].state = "EMBRYO" => pth[q][0].kstack \in KStack
  <2> TAKE q \in Slot
  <2>1. pth[q][0] \in PthRec /\ 0 \in Pth
    BY <1>1, Sorts DEF LevelInv, Typed
  <2> QED
    BY <2>1 DEF KStackInv, Kept, PthRec
<1> QED
  BY <1>2, <1>3

LEMMA ForkReturnsShape ==
    ASSUME KStackInv, NEW p \in Slot, NEW i \in Pth, ForkReturns(<<p, i>>)
    PROVE  /\ cur = <<p, i>> /\ panic = None /\ UNCHANGED <<nextTid, cur, panic>>
           /\ call' = [call EXCEPT ![<<p, i>>] = None]
           /\ Forks(<<p, i>>)
           /\ Typed'
           /\ \E c \in Slot \ {p} :
                  /\ c = Child(<<p, i>>)
                  /\ proc[c].state = "EMBRYO" /\ pth[c][0].state = "EMBRYO"
                  /\ ChildBorn(<<p, i>>, c) \/ ChildDropped(c)
                  /\ \A j \in Pth \ {0} : pth'[c][j] = pth[c][j]
                  /\ \A r \in Slot \ {c} : /\ proc'[r] = proc[r] /\ pth'[r] = pth[r]
                                           /\ kstacks'[r] = kstacks[r]
                                           /\ ustacks'[r] = ustacks[r]
<1> DEFINE c == Child(<<p, i>>)
<1>0. LevelInv
  BY DEF KStackInv
<1>1. /\ cur = <<p, i>> /\ panic = None /\ UNCHANGED <<nextTid, cur, panic>>
      /\ call' = [call EXCEPT ![<<p, i>>] = None]
      /\ Forks(<<p, i>>) /\ <<p, i>> \in Thread
  BY DEF ForkReturns, InCall, Runs, Forks, Thread
<1>2. c \in Slot /\ proc[c].state = "EMBRYO" /\ pth[c][0].state = "EMBRYO"
  BY <1>0, <1>1, CallTypes DEF Forks, LevelInv, Embryos, Child
<1>3. c # p /\ 0 \in Pth
  <2>1. \A j \in Pth : pth[p][j].state # "EMBRYO"
    BY ForkReturnsReady
  <2> QED
    BY <1>2, <2>1, Sorts
<1>4. /\ proc[p] \in ProcRec /\ proc[c] \in ProcRec /\ pth[c][0] \in PthRec
      /\ pth[p][i] \in PthRec /\ call' \in [Thread -> CallRec \cup {None}]
  BY <1>0, <1>1, <1>2, <1>3 DEF LevelInv, Typed
<1>5. pth[c][0].kstack \in KStack
  BY <1>2, ForkReturnsReady
<1>6. CASE /\ proc' = [proc EXCEPT ![c] = [@ EXCEPT !.state = "RUNNABLE",
                         !.parent = p, !.sz = proc[p].sz,
                         !.mapped = 0 .. proc[p].sz - 1]]
           /\ pth' = [pth EXCEPT ![c][0].state = "RUNNABLE",
                                 ![c][0].stack = pth[p][i].stack]
           /\ ustacks' = [ustacks EXCEPT ![c] = ForkedStacks(p)]
           /\ UNCHANGED <<kstacks, free>>
  <2> DEFINE r == [proc[c] EXCEPT !.state = "RUNNABLE", !.parent = p, !.sz = proc[p].sz,
                                  !.mapped = 0 .. proc[p].sz - 1]
             th == [pth[c][0] EXCEPT !.state = "RUNNABLE", !.stack = pth[p][i].stack]
  <2>1. proc[p].sz \in 0 .. MaxSz /\ 0 .. proc[p].sz - 1 \in SUBSET (0 .. MaxSz - 1)
    BY <1>4, Sorts DEF ProcRec
  <2>2. r \in ProcRec /\ r.state = "RUNNABLE"
    BY <1>4, <2>1 DEF ProcRec, States
  <2>3. /\ th \in PthRec /\ th.state = "RUNNABLE" /\ th.kstack = pth[c][0].kstack
        /\ th.stack = pth[p][i].stack
    BY <1>4 DEF PthRec, States
  <2>4. proc' = [proc EXCEPT ![c] = r] /\ pth' = [pth EXCEPT ![c][0] = th]
    <3>1. proc' = [proc EXCEPT ![c] = r]
      BY <1>6
    <3>2. pth' = [pth EXCEPT ![c][0] = th]
      BY <1>0, <1>2, <1>3, <1>4, <1>6 DEF LevelInv, Typed, PthRec
    <3> QED
      BY <3>1, <3>2
  <2> HIDE DEF r, th, c
  <2>5. /\ proc' \in [Slot -> ProcRec] /\ proc'[c] = r
        /\ \A q \in Slot \ {c} : proc'[q] = proc[q]
    BY <1>0, <1>2, <2>2, <2>4 DEF LevelInv, Typed
  <2>6. /\ pth' \in [Slot -> [Pth -> PthRec]] /\ pth'[c][0] = th
        /\ \A j \in Pth \ {0} : pth'[c][j] = pth[c][j]
        /\ \A q \in Slot \ {c} : pth'[q] = pth[q]
    BY <1>0, <1>2, <1>3, <2>3, <2>4 DEF LevelInv, Typed
  <2>7. ForkedStacks(p) \in [Pth -> 0 .. MaxSz]
    BY <1>0, <1>3, <1>4 DEF ForkedStacks, LevelInv, Typed, ProcRec
  <2>8. /\ ustacks' \in [Slot -> [Pth -> 0 .. MaxSz]] /\ ustacks'[c] = ForkedStacks(p)
        /\ \A q \in Slot \ {c} : ustacks'[q] = ustacks[q]
    BY <1>0, <1>2, <1>6, <2>7 DEF LevelInv, Typed
  <2>9. Typed'
    BY <1>0, <1>1, <1>4, <1>6, <2>5, <2>6, <2>8 DEF LevelInv, Typed
  <2>10. ChildBorn(<<p, i>>, c)
    BY <1>6, <2>2, <2>3, <2>5, <2>6, <2>8 DEF ChildBorn
  <2> QED
    BY <1>1, <1>2, <1>3, <1>6, <2>5, <2>6, <2>8, <2>9, <2>10 DEF c
<1>7. CASE /\ proc' = [proc EXCEPT ![c].state = "UNUSED"]
           /\ pth' = [pth EXCEPT ![c][0].state = "UNUSED", ![c][0].kstack = None]
           /\ kstacks' = [kstacks EXCEPT ![c][0] = None]
           /\ free' = free \cup {pth[c][0].kstack}
           /\ UNCHANGED ustacks
  <2> DEFINE th == [pth[c][0] EXCEPT !.state = "UNUSED", !.kstack = None]
  <2>1. th \in PthRec /\ th.state = "UNUSED" /\ th.kstack = None
    BY <1>4 DEF PthRec, States
  <2>2. pth' = [pth EXCEPT ![c][0] = th]
    BY <1>0, <1>2, <1>3, <1>4, <1>7 DEF LevelInv, Typed, PthRec
  <2>3. "UNUSED" \in States
    BY DEF States
  <2>4. /\ proc' \in [Slot -> ProcRec] /\ proc'[c].state = "UNUSED"
        /\ \A q \in Slot \ {c} : proc'[q] = proc[q]
    BY <1>0, <1>2, <1>7, <2>3, OneState DEF LevelInv
  <2> HIDE DEF th, c
  <2>5. /\ pth' \in [Slot -> [Pth -> PthRec]] /\ pth'[c][0] = th
        /\ \A j \in Pth \ {0} : pth'[c][j] = pth[c][j]
        /\ \A q \in Slot \ {c} : pth'[q] = pth[q]
    BY <1>0, <1>2, <1>3, <2>1, <2>2 DEF LevelInv, Typed
  <2>6. /\ kstacks' \in [Slot -> [Pth -> KStack \cup {None}]] /\ kstacks'[c][0] = None
        /\ \A j \in Pth \ {0} : kstacks'[c][j] = kstacks[c][j]
        /\ \A q \in Slot \ {c} : kstacks'[q] = kstacks[q]
    BY <1>0, <1>2, <1>3, <1>7 DEF LevelInv, Typed
  <2>7. Typed'
    BY <1>0, <1>1, <1>4, <1>5, <1>7, <2>4, <2>5, <2>6 DEF LevelInv, Typed
  <2>8. ChildDropped(c)
    BY <1>7, <2>1, <2>4, <2>5, <2>6 DEF ChildDropped
  <2> QED
    BY <1>1, <1>2, <1>3, <1>7, <2>4, <2>5, <2>6, <2>7, <2>8 DEF c
<1> QED
  BY <1>6, <1>7 DEF ForkReturns, Child

LEMMA ForkReturnsLevels ==
    ASSUME KStackInv, NEW p \in Slot, NEW i \in Pth, ForkReturns(<<p, i>>)
    PROVE  LevelInv'
<1>0. LevelInv
  BY DEF KStackInv
<1>1. /\ cur' = <<p, i>> /\ cur = <<p, i>> /\ Typed' /\ 0 \in Pth
      /\ call' = [call EXCEPT ![<<p, i>>] = None] /\ Forks(<<p, i>>)
  BY ForkReturnsShape, Sorts
<1>2. PICK c \in Slot \ {p} :
      /\ c = Child(<<p, i>>)
      /\ proc[c].state = "EMBRYO" /\ pth[c][0].state = "EMBRYO"
      /\ ChildBorn(<<p, i>>, c) \/ ChildDropped(c)
      /\ \A j \in Pth \ {0} : pth'[c][j] = pth[c][j]
      /\ \A r \in Slot \ {c} : proc'[r] = proc[r] /\ pth'[r] = pth[r]
  BY ForkReturnsShape
<1>3. \A j \in Pth \ {0} : pth[c][j].state = "UNUSED" /\ pth'[c][j].state = "UNUSED"
  BY <1>0, <1>1, <1>2 DEF LevelInv, Levels, Level
<1>4. proc'[c].state = pth'[c][0].state /\ pth'[c][0].state \in {"UNUSED", "RUNNABLE"}
  BY <1>1, <1>2 DEF ChildBorn, ChildDropped
<1>5. \A j \in Pth : pth'[c][j].state \in {"UNUSED", "RUNNABLE"}
  BY <1>3, <1>4
<1>6. Level(c)'
  <2>1. proc'[c].state # "EMBRYO" /\ proc'[c].state \notin {"RUNNING", "SLEEPING", "ZOMBIE"}
    BY <1>4
  <2>2. CASE pth'[c][0].state = "RUNNABLE"
    BY <1>1, <1>2, <1>4, <1>5, <2>1, <2>2 DEF Level, Some, Live
  <2>3. CASE pth'[c][0].state = "UNUSED"
    <3>1. \A j \in Pth : pth'[c][j].state = "UNUSED"
      BY <1>3, <2>3
    <3> QED
      BY <1>4, <2>3, <3>1 DEF Level, Some, Live
  <2> QED
    BY <1>4, <2>2, <2>3
<1>7. Levels'
  BY <1>0, <1>1, <1>2, <1>6, LevelStays DEF LevelInv, Levels
<1>8. OneRuns'
  BY <1>0, <1>1, <1>2, <1>5 DEF LevelInv, OneRuns
<1>9. \A t \in Thread : Forks(t)' =>
        t # <<p, i>> /\ Forks(t) /\ call'[t].slot = call[t].slot
  BY <1>0, <1>1, <1>2 DEF Forks, LevelInv, Typed
<1>10. \A t \in Thread \ {<<p, i>>} : Forks(t) => call[t].slot # c /\ call[t].slot \in Slot
  BY <1>0, <1>1, <1>2, CallTypes DEF Forks, LevelInv, ForksApart, Thread, Child
<1>11. Embryos'
  BY <1>0, <1>1, <1>2, <1>9, <1>10 DEF LevelInv, Embryos
<1>12. ForksApart'
  BY <1>0, <1>9 DEF LevelInv, ForksApart
<1> QED
  BY <1>1, <1>2, <1>7, <1>8, <1>11, <1>12 DEF LevelInv

LEMMA ForkReturnsKeeps ==
    ASSUME KStackInv, NEW p \in Slot, NEW i \in Pth, ForkReturns(<<p, i>>)
    PROVE  Kept' /\ KeptApart'
<1>0. LevelInv
  BY DEF KStackInv
<1>1. 0 \in Pth /\ None \notin KStack
  BY Sorts
<1>2. PICK c \in Slot :
      /\ proc[c].state = "EMBRYO" /\ pth[c][0].state = "EMBRYO"
      /\ ChildBorn(<<p, i>>, c) \/ ChildDropped(c)
      /\ \A j \in Pth \ {0} : pth'[c][j] = pth[c][j]
      /\ \A r \in Slot \ {c} : pth'[r] = pth[r] /\ kstacks'[r] = kstacks[r]
  BY ForkReturnsShape
<1>3. /\ pth[c][0].kstack # None /\ kstacks[c][0] = pth[c][0].kstack
      /\ None \notin free
  BY <1>1, <1>2, <1>0 DEF KStackInv, Kept, LevelInv, Typed
<1>4. CASE ChildBorn(<<p, i>>, c)
  <2>1. /\ pth'[c][0].state = "RUNNABLE" /\ pth'[c][0].kstack = pth[c][0].kstack
        /\ UNCHANGED <<kstacks, free>>
    BY <1>4 DEF ChildBorn
  <2>2. ASSUME NEW r \in Slot, NEW j \in Pth, r # c \/ j # 0 PROVE pth'[r][j] = pth[r][j]
    BY <1>1, <1>2, <2>2
  <2>3. KeptApart'
    BY <2>1 DEF KStackInv, KeptApart
  <2>4. Kept'
    BY <1>1, <1>2, <1>3, <2>1, <2>2 DEF KStackInv, Kept
  <2> QED
    BY <2>3, <2>4
<1>5. CASE ChildDropped(c)
  <2>1. /\ pth'[c][0].state = "UNUSED" /\ pth'[c][0].kstack = None
        /\ kstacks'[c][0] = None /\ \A j \in Pth \ {0} : kstacks'[c][j] = kstacks[c][j]
        /\ free' = free \cup {kstacks[c][0]}
    BY <1>3, <1>5 DEF ChildDropped
  <2>2. ASSUME NEW r \in Slot, NEW j \in Pth, r # c \/ j # 0
        PROVE  pth'[r][j] = pth[r][j] /\ kstacks'[r][j] = kstacks[r][j]
    BY <1>1, <1>2, <2>1, <2>2
  <2>3. KeptApart'
    BY <1>1, <1>2, <2>1, <2>2 DEF KStackInv, KeptApart
  <2>4. ASSUME NEW r \in Slot, NEW j \in Pth PROVE kstacks'[r][j] \notin free'
    BY <1>1, <1>2, <1>3, <2>1, <2>2 DEF KStackInv, Kept, KeptApart
  <2>5. Kept'
    BY <1>1, <1>2, <2>1, <2>2, <2>4 DEF KStackInv, Kept, Live
  <2> QED
    BY <2>3, <2>5
<1> QED
  BY <1>1, <1>2, <1>4, <1>5

LEMMA ForkReturnsStacks ==
    ASSUME KStackInv, NEW p \in Slot, NEW i \in Pth, ForkReturns(<<p, i>>),
           \A q \in Slot : UStacks(q), NEW q \in Slot
    PROVE  UStacks(q)'
<1>0. LevelInv
  BY DEF KStackInv
<1>1. 0 \in Pth /\ cur = <<p, i>>
  BY ForkReturnsShape, Sorts
<1>2. PICK c \in Slot \ {p} :
      /\ proc[c].state = "EMBRYO" /\ pth[c][0].state = "EMBRYO"
      /\ ChildBorn(<<p, i>>, c) \/ ChildDropped(c)
      /\ \A j \in Pth \ {0} : pth'[c][j] = pth[c][j]
      /\ \A r \in Slot \ {c} : /\ proc'[r] = proc[r] /\ pth'[r] = pth[r]
                               /\ ustacks'[r] = ustacks[r]
  BY ForkReturnsShape
<1>3. \A j \in Pth \ {0} : pth'[c][j].state = "UNUSED"
  BY <1>0, <1>1, <1>2 DEF LevelInv, Levels, Level
<1>4. CASE q # c
  <2>1. proc'[q] = proc[q] /\ pth'[q] = pth[q] /\ ustacks'[q] = ustacks[q]
    BY <1>1, <1>2, <1>4
  <2> QED
    BY <2>1 DEF UStacks, Lasting
<1>5. CASE q = c /\ ChildDropped(c)
  <2>1. ustacks'[c] = ustacks[c] /\ pth'[c][0].state = "UNUSED"
    BY <1>5 DEF ChildDropped
  <2>2. \A j \in Pth : pth'[c][j].state = "UNUSED"
    BY <1>3, <2>1
  <2> QED
    BY <1>1, <1>2, <1>5, <2>1, <2>2 DEF UStacks, Lasting
<1>6. CASE q = c /\ ChildBorn(<<p, i>>, c)
  <2>1. /\ ustacks'[c] = [ustacks[p] EXCEPT ![proc[p].onTidx] = ustacks[p][0],
                                            ![0] = ustacks[p][proc[p].onTidx]]
        /\ pth'[c][0].state = "RUNNABLE" /\ pth'[c][0].stack = pth[p][i].stack
    BY <1>6 DEF ChildBorn, ForkedStacks
  <2>2. /\ proc[p].onTidx = i
        /\ pth[p][i].stack = ustacks[p][i] /\ ustacks[p][i] # 0
        /\ ustacks[p][0] # 0
        /\ ustacks[p] \in [Pth -> 0 .. MaxSz]
    <3>1. pth[p][i].state = "RUNNING"
      BY <1>0, <1>1, <1>2, Running
    <3>2. /\ proc[p].onTidx = i /\ pth[p][i].stack = ustacks[p][i] /\ ustacks[p][i] # 0
      BY <3>1 DEF UStacks, Lasting
    <3>3. ustacks[p][0] # 0
      <4>1. i = 0 \/ 0 < i
        BY Sorts
      <4> QED
        BY <1>1, <1>2, <3>2, <4>1 DEF UStacks
    <3> QED
      BY <1>0, <3>2, <3>3 DEF LevelInv, Typed
  <2>3. \A j \in Pth : ustacks'[c][j] = IF j = 0 THEN ustacks[p][i]
                                        ELSE IF j = i THEN ustacks[p][0] ELSE ustacks[p][j]
    BY <1>1, <1>2, <2>1, <2>2
  <2>4. \A j, k \in Pth : ustacks[p][j] # 0 /\ ustacks[p][j] = ustacks[p][k] => j = k
    BY DEF UStacks
  <2>5. \A j, k \in Pth : j < k /\ ustacks[p][k] # 0 => ustacks[p][j] # 0
    BY DEF UStacks
  <2>6. \A j, k \in Pth : ustacks'[c][j] # 0 /\ ustacks'[c][j] = ustacks'[c][k] => j = k
    BY <1>1, <1>2, <2>2, <2>3, <2>4
  <2>7. \A j, k \in Pth : j < k /\ ustacks'[c][k] # 0 => ustacks'[c][j] # 0
    <3> TAKE j, k \in Pth
    <3>1. \A l \in Pth : ustacks'[c][l] # 0 <=> ustacks[p][l] # 0
      BY <2>2, <2>3
    <3> QED
      BY <2>5, <3>1
  <2>8. \A j \in Pth : /\ Lasting(c, j)' => j = 0
                       /\ pth'[c][j].state # "RUNNING"
    <3> TAKE j \in Pth
    <3>1. j # 0 => pth'[c][j].state = "UNUSED"
      BY <1>3
    <3> QED
      BY <2>1, <3>1 DEF Lasting
  <2>9. pth'[c][0].stack = ustacks'[c][0] /\ ustacks'[c][0] # 0
    BY <1>1, <1>2, <2>1, <2>2, <2>3
  <2>10. UStacks(c)'
    BY <1>3, <2>6, <2>7, <2>8, <2>9 DEF UStacks
  <2> QED
    BY <1>6, <2>10
<1> QED
  BY <1>1, <1>2, <1>4, <1>5, <1>6

-----------------------------------------------------------------------------
(* exec *)

LEMMA ExecShape ==
    ASSUME KStackInv, NEW p \in Slot, NEW i \in Pth, Exec(<<p, i>>)
    PROVE  /\ cur = <<p, i>> /\ UNCHANGED <<nextTid, cur, panic>> /\ "exec" \in Calls
           /\ proc' \in [Slot -> ProcRec] /\ pth' \in [Slot -> [Pth -> PthRec]]
           /\ kstacks' \in [Slot -> [Pth -> KStack \cup {None}]]
           /\ ustacks' \in [Slot -> [Pth -> 0 .. MaxSz]]
           /\ free' \subseteq KStack
           /\ call' \in [Thread -> CallRec \cup {None}]
           /\ proc'[p].state = proc[p].state
           /\ pth'[p][i].state = pth[p][i].state /\ pth'[p][i].kstack = pth[p][i].kstack
           /\ \A j \in Pth \ {i} : pth'[p][j] = NoThread /\ kstacks'[p][j] = None
           /\ kstacks'[p][i] = kstacks[p][i]
           /\ free' = free \cup ({kstacks[p][j] : j \in Pth \ {i}} \ {None})
           /\ \A r \in Slot \ {p} : /\ proc'[r] = proc[r] /\ pth'[r] = pth[r]
                                    /\ kstacks'[r] = kstacks[r]
           /\ \A t \in Thread : Forks(t)' => Forks(t) /\ call'[t].slot = call[t].slot
<1> DEFINE had == HadKstack(p, i)
<1>0. LevelInv /\ <<p, i>> \in Thread
  BY DEF KStackInv, Thread
<1>1. /\ cur = <<p, i>> /\ UNCHANGED <<nextTid, cur, panic>> /\ "exec" \in Calls
      /\ proc' = [proc EXCEPT ![p].sz = ExecSz, ![p].mapped = 0 .. ExecSz - 1]
      /\ pth' = [pth EXCEPT ![p] = [j \in Pth |->
            IF j = i THEN [pth[p][j] EXCEPT !.stack = ExecSz] ELSE NoThread]]
      /\ kstacks' = [kstacks EXCEPT ![p] = [j \in Pth |->
            IF j \in had THEN None ELSE kstacks[p][j]]]
      /\ ustacks' = [ustacks EXCEPT ![p] = [j \in Pth |->
            IF j = i THEN ExecSz ELSE IF j \in had THEN 0 ELSE ustacks[p][j]]]
      /\ free' = free \cup {kstacks[p][j] : j \in had}
      /\ call' = [s \in Thread |-> IF s[1] = p THEN None ELSE call[s]]
  BY DEF Exec, InProgram, InUser, Runs
<1>2. \A j \in Pth : j \in had <=> j # i /\ kstacks[p][j] # None
  BY DEF KStackInv, Kept, HadKstack
<1> HIDE DEF had
<1>3. had \subseteq Pth
  BY DEF HadKstack, had
<1>4. /\ proc[p] \in ProcRec /\ pth[p][i] \in PthRec
      /\ \A j \in Pth : kstacks[p][j] \in KStack \cup {None}
      /\ \A j \in Pth : ustacks[p][j] \in 0 .. MaxSz
  BY <1>0 DEF LevelInv, Typed
<1>5. /\ proc' \in [Slot -> ProcRec] /\ proc'[p].state = proc[p].state
      /\ \A r \in Slot \ {p} : proc'[r] = proc[r]
  <2> DEFINE r == [proc[p] EXCEPT !.sz = ExecSz, !.mapped = 0 .. ExecSz - 1]
  <2>1. r \in ProcRec /\ r.state = proc[p].state
    BY <1>4, Sorts DEF ProcRec
  <2>2. proc' = [proc EXCEPT ![p] = r]
    BY <1>1, <1>4 DEF ProcRec
  <2> HIDE DEF r
  <2> QED
    BY <1>0, <2>1, <2>2 DEF LevelInv, Typed
<1>6. /\ pth' \in [Slot -> [Pth -> PthRec]]
      /\ pth'[p][i].state = pth[p][i].state /\ pth'[p][i].kstack = pth[p][i].kstack
      /\ \A j \in Pth \ {i} : pth'[p][j] = NoThread
      /\ \A r \in Slot \ {p} : pth'[r] = pth[r]
  <2> DEFINE th == [pth[p][i] EXCEPT !.stack = ExecSz]
  <2>1. th \in PthRec /\ th.state = pth[p][i].state /\ th.kstack = pth[p][i].kstack
    BY <1>4, Sorts DEF PthRec
  <2>2. NoThread \in PthRec
    BY Sorts, Chans DEF NoThread, PthRec, States
  <2>3. pth' = [pth EXCEPT ![p] = [j \in Pth |-> IF j = i THEN th ELSE NoThread]]
    BY <1>1
  <2> HIDE DEF th
  <2> QED
    BY <1>0, <2>1, <2>2, <2>3 DEF LevelInv, Typed
<1>7. /\ kstacks' \in [Slot -> [Pth -> KStack \cup {None}]]
      /\ \A j \in Pth \ {i} : kstacks'[p][j] = None
      /\ kstacks'[p][i] = kstacks[p][i]
      /\ \A r \in Slot \ {p} : kstacks'[r] = kstacks[r]
  BY <1>0, <1>1, <1>2, <1>4 DEF LevelInv, Typed
<1>8. ustacks' \in [Slot -> [Pth -> 0 .. MaxSz]]
  BY <1>0, <1>1, <1>4, Sorts DEF LevelInv, Typed
<1>9. free' = free \cup ({kstacks[p][j] : j \in Pth \ {i}} \ {None})
  BY <1>1, <1>2, <1>3
<1>10. free' \subseteq KStack
  BY <1>0, <1>4, <1>9 DEF LevelInv, Typed
<1>11. call' \in [Thread -> CallRec \cup {None}]
  BY <1>0, <1>1 DEF LevelInv, Typed
<1>12. \A t \in Thread : Forks(t)' => Forks(t) /\ call'[t].slot = call[t].slot
  BY <1>1 DEF Forks
<1> QED
  BY <1>1, <1>5, <1>6, <1>7, <1>8, <1>9, <1>10, <1>11, <1>12

LEMMA ExecLevels ==
    ASSUME KStackInv, NEW p \in Slot, NEW i \in Pth, Exec(<<p, i>>)
    PROVE  LevelInv'
<1>0. LevelInv
  BY DEF KStackInv
<1>1. /\ cur = <<p, i>> /\ UNCHANGED <<nextTid, cur, panic>>
      /\ proc'[p].state = proc[p].state /\ pth'[p][i].state = pth[p][i].state
      /\ \A j \in Pth \ {i} : pth'[p][j].state = "UNUSED"
      /\ \A r \in Slot \ {p} : proc'[r] = proc[r] /\ pth'[r] = pth[r]
  BY ExecShape DEF NoThread
<1>2. /\ pth[p][i].state = "RUNNING" /\ proc[p].state \in {"RUNNABLE", "RUNNING"}
      /\ \A q \in Slot : \A j \in Pth : pth[q][j].state = "RUNNING" => q = p /\ j = i
  BY <1>0, <1>1, Running
<1>3. Typed'
  BY <1>0, ExecShape DEF LevelInv, Typed
<1>4. Level(p)'
  <2>1. \A j \in Pth : pth'[p][j].state = IF j = i THEN "RUNNING" ELSE "UNUSED"
    BY <1>1, <1>2
  <2> QED
    BY <1>1, <1>2, <2>1 DEF Level, Some, Live
<1>5. Levels'
  BY <1>0, <1>1, <1>4, LevelStays DEF LevelInv, Levels
<1>6. OneRuns'
  BY <1>0, <1>1, <1>2 DEF LevelInv, OneRuns
<1>7. Embryos' /\ ForksApart'
  BY <1>0, <1>1, <1>2, ExecShape, EmbryosStay
<1> QED
  BY <1>3, <1>5, <1>6, <1>7 DEF LevelInv

LEMMA ExecKeeps ==
    ASSUME KStackInv, NEW p \in Slot, NEW i \in Pth, Exec(<<p, i>>)
    PROVE  Kept' /\ KeptApart'
<1>1. /\ pth'[p][i].state = pth[p][i].state /\ pth'[p][i].kstack = pth[p][i].kstack
      /\ \A j \in Pth \ {i} : /\ pth'[p][j].state = "UNUSED" /\ pth'[p][j].kstack = None
                              /\ kstacks'[p][j] = None
      /\ kstacks'[p][i] = kstacks[p][i]
      /\ \A r \in Slot \ {p} : pth'[r] = pth[r] /\ kstacks'[r] = kstacks[r]
      /\ None \notin KStack /\ None \notin free
  BY ExecShape, Sorts DEF NoThread, KStackInv, LevelInv, Typed
<1>2. KeptApart'
  BY <1>1 DEF KStackInv, KeptApart
<1>3. ASSUME NEW r \in Slot, NEW j \in Pth PROVE kstacks'[r][j] \notin free'
  <2>1. SUFFICES ASSUME kstacks'[r][j] \in free' PROVE FALSE
    OBVIOUS
  <2>2. free' = free \cup ({kstacks[p][k] : k \in Pth \ {i}} \ {None})
    BY ExecShape
  <2>3. /\ kstacks'[r][j] # None /\ kstacks'[r][j] = kstacks[r][j]
        /\ r = p => j = i
    BY <1>1, <2>1, <2>2
  <2>4. kstacks[r][j] \notin free
    BY DEF KStackInv, Kept
  <2>5. PICK k \in Pth \ {i} : kstacks[r][j] = kstacks[p][k]
    BY <2>1, <2>2, <2>3, <2>4
  <2>6. r = p /\ j = k
    BY <2>3, <2>5 DEF KStackInv, KeptApart
  <2> QED
    BY <2>3, <2>5, <2>6
<1>4. Kept'
  BY <1>1, <1>3 DEF KStackInv, Kept, Live
<1> QED
  BY <1>2, <1>4

-----------------------------------------------------------------------------
(* thread_create *)

LEMMA CreateShape ==
    ASSUME LevelInv, NEW p \in Slot, NEW i \in Pth, ThreadCreate(<<p, i>>)
    PROVE  /\ cur = <<p, i>> /\ panic = None /\ UNCHANGED <<cur, call>>
           /\ pth[p][i].stack - 1 \in proc[p].mapped
           /\ Typed'
           /\ \E j \in Pth :
                /\ pth[p][j].state = "UNUSED"
                /\ \A k \in Pth : k < j => pth[p][k].state # "UNUSED"
                /\ pth'[p][j].state = "RUNNABLE" /\ pth'[p][j].kstack = Page
                /\ pth'[p][j].stack = StackTop(p, j) /\ ustacks'[p][j] = StackTop(p, j)
                /\ kstacks'[p][j] = Page /\ Page \in free /\ free' = free \ {Page}
                /\ proc'[p].state = proc[p].state /\ proc'[p].onTidx = proc[p].onTidx
                /\ proc'[p].mapped = proc[p].mapped \cup {StackTop(p, j) - 1}
                /\ panic' = IF ustacks[p][j] = 0 /\ proc[p].sz \in proc[p].mapped THEN "remap"
                            ELSE IF /\ ustacks[p][j] # 0
                                    /\ StackTop(p, j) - 1 \notin proc[p].mapped
                              THEN "trap" ELSE None
                /\ \A k \in Pth \ {j} : /\ pth'[p][k] = pth[p][k]
                                        /\ kstacks'[p][k] = kstacks[p][k]
                                        /\ ustacks'[p][k] = ustacks[p][k]
                /\ \A r \in Slot \ {p} : /\ proc'[r] = proc[r] /\ pth'[r] = pth[r]
                                         /\ kstacks'[r] = kstacks[r]
                                         /\ ustacks'[r] = ustacks[r]
<1>1. /\ cur = <<p, i>> /\ panic = None /\ UNCHANGED <<cur, call>>
      /\ pth[p][i].stack - 1 \in proc[p].mapped
  BY DEF ThreadCreate, Creates, InProgram, InUser, Runs
<1>2. PICK j \in Pth :
        /\ nextTid =< MaxTid /\ nextTid' = nextTid + 1
        /\ pth[p][j].state = "UNUSED" /\ \A k \in 0 .. j - 1 : pth[p][k].state # "UNUSED"
        /\ free # {} /\ StackTop(p, j) =< MaxSz
        /\ panic' = IF ustacks[p][j] = 0 /\ proc[p].sz \in proc[p].mapped THEN "remap"
                    ELSE IF ~(ustacks[p][j] = 0) /\ StackTop(p, j) - 1 \notin proc[p].mapped
                      THEN "trap" ELSE None
        /\ pth' = [pth EXCEPT ![p][j] = [@ EXCEPT !.state = "RUNNABLE",
                      !.tid = nextTid, !.kstack = Page, !.stack = StackTop(p, j)]]
        /\ kstacks' = [kstacks EXCEPT ![p][j] = Page]
        /\ free' = free \ {Page}
        /\ ustacks' = [ustacks EXCEPT ![p][j] = StackTop(p, j)]
        /\ proc' = [proc EXCEPT ![p].sz = StackTop(p, j),
                                ![p].mapped = @ \cup {StackTop(p, j) - 1}]
  <2>1. ASSUME NEW j \in Pth, Creates(<<p, i>>, j)
        PROVE  /\ nextTid =< MaxTid /\ nextTid' = nextTid + 1
               /\ pth[p][j].state = "UNUSED" /\ \A k \in 0 .. j - 1 : pth[p][k].state # "UNUSED"
               /\ free # {} /\ StackTop(p, j) =< MaxSz
               /\ panic' = IF ustacks[p][j] = 0 /\ proc[p].sz \in proc[p].mapped THEN "remap"
                           ELSE IF ~(ustacks[p][j] = 0) /\ StackTop(p, j) - 1 \notin proc[p].mapped
                             THEN "trap" ELSE None
               /\ pth' = [pth EXCEPT ![p][j] = [@ EXCEPT !.state = "RUNNABLE",
                             !.tid = nextTid, !.kstack = Page, !.stack = StackTop(p, j)]]
               /\ kstacks' = [kstacks EXCEPT ![p][j] = Page]
               /\ free' = free \ {Page}
               /\ ustacks' = [ustacks EXCEPT ![p][j] = StackTop(p, j)]
               /\ proc' = [proc EXCEPT ![p].sz = StackTop(p, j),
                                       ![p].mapped = @ \cup {StackTop(p, j) - 1}]
    BY <2>1 DEF Creates
  <2>2. \E j \in Pth : Creates(<<p, i>>, j)
    BY DEF ThreadCreate
  <2> QED
    BY <2>1, <2>2
<1> DEFINE top == StackTop(p, j)
           th == [pth[p][j] EXCEPT !.state = "RUNNABLE", !.tid = nextTid,
                                   !.kstack = Page, !.stack = top]
           r == [proc[p] EXCEPT !.sz = top, !.mapped = @ \cup {top - 1}]
<1>3. /\ proc[p] \in ProcRec /\ pth[p][j] \in PthRec /\ ustacks[p][j] \in 0 .. MaxSz
      /\ proc[p].sz \in 0 .. MaxSz /\ nextTid \in 0 .. MaxTid /\ nextTid' \in Nat \ {0}
  BY <1>2, Sorts DEF LevelInv, Typed, ProcRec
<1>4. top \in 1 .. MaxSz /\ top - 1 \in 0 .. MaxSz - 1
  BY <1>2, <1>3, Sorts DEF StackTop
<1>5. Page \in free /\ Page \in KStack
  BY <1>2, PageIsFree DEF LevelInv, Typed
<1>6. \A k \in Pth : k < j => pth[p][k].state # "UNUSED"
  BY <1>2, Sorts
<1> HIDE DEF top
<1>7. th \in PthRec /\ th.state = "RUNNABLE" /\ th.kstack = Page /\ th.stack = top
  <2>1. top \in 0 .. MaxSz
    BY <1>4
  <2> QED
    BY <1>3, <1>5, <2>1 DEF PthRec, States
<1>8. /\ r \in ProcRec /\ r.state = proc[p].state /\ r.onTidx = proc[p].onTidx
      /\ r.mapped = proc[p].mapped \cup {top - 1}
  <2>1. top \in 0 .. MaxSz /\ proc[p].mapped \cup {top - 1} \in SUBSET (0 .. MaxSz - 1)
    BY <1>3, <1>4 DEF ProcRec
  <2> QED
    BY <1>3, <2>1 DEF ProcRec
<1>9. pth' = [pth EXCEPT ![p][j] = th]
  BY <1>2 DEF top
<1>10. proc' = [proc EXCEPT ![p] = r]
  BY <1>2, <1>3 DEF top, ProcRec
<1> HIDE DEF th, r
<1>11. /\ pth' \in [Slot -> [Pth -> PthRec]] /\ pth'[p][j] = th
       /\ \A k \in Pth \ {j} : pth'[p][k] = pth[p][k]
       /\ \A q \in Slot \ {p} : pth'[q] = pth[q]
  BY <1>7, <1>9 DEF LevelInv, Typed
<1>12. /\ proc' \in [Slot -> ProcRec] /\ proc'[p] = r
       /\ \A q \in Slot \ {p} : proc'[q] = proc[q]
  BY <1>8, <1>10 DEF LevelInv, Typed
<1>13. /\ kstacks' \in [Slot -> [Pth -> KStack \cup {None}]] /\ kstacks'[p][j] = Page
       /\ \A k \in Pth \ {j} : kstacks'[p][k] = kstacks[p][k]
       /\ \A q \in Slot \ {p} : kstacks'[q] = kstacks[q]
  BY <1>2, <1>5 DEF LevelInv, Typed
<1>14. /\ ustacks' \in [Slot -> [Pth -> 0 .. MaxSz]] /\ ustacks'[p][j] = top
       /\ \A k \in Pth \ {j} : ustacks'[p][k] = ustacks[p][k]
       /\ \A q \in Slot \ {p} : ustacks'[q] = ustacks[q]
  <2>1. ustacks' = [ustacks EXCEPT ![p][j] = top] /\ top \in 0 .. MaxSz
    BY <1>2, <1>4 DEF top
  <2> QED
    BY <2>1 DEF LevelInv, Typed
<1>15. Typed'
  BY <1>1, <1>2, <1>3, <1>11, <1>12, <1>13, <1>14 DEF LevelInv, Typed
<1>16. panic' = IF ustacks[p][j] = 0 /\ proc[p].sz \in proc[p].mapped THEN "remap"
                ELSE IF ustacks[p][j] # 0 /\ top - 1 \notin proc[p].mapped
                  THEN "trap" ELSE None
  BY <1>2 DEF top
<1> QED
  BY <1>1, <1>2, <1>5, <1>6, <1>7, <1>8, <1>11, <1>12, <1>13, <1>14, <1>15, <1>16 DEF top

LEMMA CreateLevels ==
    ASSUME LevelInv, NEW p \in Slot, NEW i \in Pth, ThreadCreate(<<p, i>>)
    PROVE  LevelInv'
<1>1. PICK j \in Pth :
        /\ pth[p][j].state = "UNUSED" /\ pth'[p][j].state = "RUNNABLE"
        /\ proc'[p].state = proc[p].state
        /\ \A k \in Pth \ {j} : pth'[p][k] = pth[p][k]
        /\ \A q \in Slot \ {p} : proc'[q] = proc[q] /\ pth'[q] = pth[q]
  BY CreateShape
<1>2. cur = <<p, i>> /\ UNCHANGED <<cur, call>> /\ Typed'
  BY CreateShape
<1>3. proc[p].state \in {"RUNNABLE", "RUNNING"}
  BY <1>2, Running
<1>4. Level(p)'
  <2>1. \A k \in Pth : k # j => pth'[p][k].state = pth[p][k].state
    BY <1>1
  <2>2. Some(p, "RUNNING") => Some(p, "RUNNING")'
    BY <1>1, <2>1 DEF Some
  <2>3. Level(p)
    BY DEF LevelInv, Levels
  <2> QED
    BY <1>1, <1>3, <2>1, <2>2, <2>3 DEF Level, Some, Live
<1>5. Levels'
  BY <1>1, <1>4, LevelStays DEF LevelInv, Levels
<1>6. OneRuns'
  BY <1>1, <1>2 DEF LevelInv, OneRuns
<1>7. Embryos' /\ ForksApart'
  BY <1>1, <1>2, <1>3, EmbryosStay DEF Forks
<1> QED
  BY <1>2, <1>5, <1>6, <1>7 DEF LevelInv

LEMMA CreateKeeps ==
    ASSUME KStackInv, NEW p \in Slot, NEW i \in Pth, ThreadCreate(<<p, i>>)
    PROVE  Kept' /\ KeptApart'
<1>1. PICK j \in Pth :
        /\ pth'[p][j].state = "RUNNABLE" /\ pth'[p][j].kstack = Page
        /\ kstacks'[p][j] = Page /\ Page \in free /\ free' = free \ {Page}
        /\ \A k \in Pth \ {j} : pth'[p][k] = pth[p][k] /\ kstacks'[p][k] = kstacks[p][k]
        /\ \A q \in Slot \ {p} : pth'[q] = pth[q] /\ kstacks'[q] = kstacks[q]
  BY CreateShape DEF KStackInv
<1>2. Page # None
  BY <1>1, Sorts DEF KStackInv, LevelInv, Typed
<1>3. ASSUME NEW q \in Slot, NEW k \in Pth, q # p \/ k # j
      PROVE  /\ pth'[q][k] = pth[q][k] /\ kstacks'[q][k] = kstacks[q][k]
             /\ kstacks[q][k] # Page /\ kstacks[q][k] \notin free
  BY <1>1, <1>3 DEF KStackInv, Kept
<1>4. KeptApart'
  BY <1>1, <1>3 DEF KStackInv, KeptApart
<1>5. Kept'
  BY <1>1, <1>2, <1>3 DEF KStackInv, Kept, Live
<1> QED
  BY <1>4, <1>5

LEMMA CreateStacks ==
    ASSUME LevelInv, NEW p \in Slot, NEW i \in Pth, ThreadCreate(<<p, i>>), panic' = None,
           NEW q \in Slot, UStacks(p), UStacks(q)
    PROVE  UStacks(q)'
<1>1. PICK j \in Pth :
        /\ pth[p][j].state = "UNUSED"
        /\ \A k \in Pth : k < j => pth[p][k].state # "UNUSED"
        /\ pth'[p][j].state = "RUNNABLE"
        /\ pth'[p][j].stack = StackTop(p, j) /\ ustacks'[p][j] = StackTop(p, j)
        /\ proc'[p].onTidx = proc[p].onTidx
        /\ proc'[p].mapped = proc[p].mapped \cup {StackTop(p, j) - 1}
        /\ panic' = IF ustacks[p][j] = 0 /\ proc[p].sz \in proc[p].mapped THEN "remap"
                    ELSE IF ustacks[p][j] # 0 /\ StackTop(p, j) - 1 \notin proc[p].mapped
                      THEN "trap" ELSE None
        /\ \A k \in Pth \ {j} : pth'[p][k] = pth[p][k] /\ ustacks'[p][k] = ustacks[p][k]
        /\ \A r \in Slot \ {p} : proc'[r] = proc[r] /\ pth'[r] = pth[r] /\ ustacks'[r] = ustacks[r]
  BY CreateShape
<1>2. cur = <<p, i>> /\ pth[p][i].stack - 1 \in proc[p].mapped
  BY CreateShape
<1>3. CASE q # p
  <2>1. proc'[q] = proc[q] /\ pth'[q] = pth[q] /\ ustacks'[q] = ustacks[q]
    BY <1>1, <1>3
  <2> QED
    BY <2>1 DEF UStacks, Lasting
<1>4. pth[p][i].state = "RUNNING" /\ \A k \in Pth : pth[p][k].state # "EMBRYO"
  BY <1>2, Running
<1>5. proc[p].sz \in 0 .. MaxSz /\ \A k \in Pth : ustacks[p][k] \in 0 .. MaxSz
  BY DEF LevelInv, Typed, ProcRec
<1>6. \A k \in Pth : Lasting(p, k) => ustacks[p][k] - 1 \in proc[p].mapped
  <2>1. CASE \A k \in Pth \ {0} : pth[p][k].state = "UNUSED"
    <3>1. \A k \in Pth : Lasting(p, k) => k = i
      BY <1>4, <2>1 DEF Lasting
    <3>2. ustacks[p][i] = pth[p][i].stack
      BY <1>4 DEF UStacks, Lasting
    <3> QED
      BY <1>2, <3>1, <3>2
  <2> QED
    BY <2>1 DEF UStacks
<1>7. \A k \in Pth : pth[p][k].state # "UNUSED" => Lasting(p, k) /\ ustacks[p][k] # 0
  BY <1>4 DEF UStacks, Lasting
<1>8. StackTop(p, j) # 0 /\ \A k \in Pth \ {j} : ustacks[p][k] # StackTop(p, j)
  <2>1. CASE ustacks[p][j] # 0
    BY <2>1 DEF UStacks, StackTop
  <2>2. CASE ustacks[p][j] = 0
    <3>1. StackTop(p, j) = proc[p].sz + 1 /\ proc[p].sz \notin proc[p].mapped
      BY <1>1, <2>2, Sorts DEF StackTop
    <3>2. ASSUME NEW k \in Pth \ {j} PROVE ustacks[p][k] # proc[p].sz + 1
      <4>1. CASE k < j
        <5>1. ustacks[p][k] - 1 \in proc[p].mapped
          BY <1>1, <1>6, <1>7, <4>1
        <5> QED
          BY <1>5, <3>1, <5>1
      <4>2. CASE j < k
        <5>1. ustacks[p][k] = 0
          BY <2>2, <4>2 DEF UStacks
        <5> QED
          BY <1>5, <5>1
      <4> QED
        BY <4>1, <4>2, Sorts
    <3> QED
      BY <1>5, <3>1, <3>2
  <2> QED
    BY <2>1, <2>2
<1>9. CASE q = p
  <2>1. \A k, l \in Pth : ustacks'[p][k] # 0 /\ ustacks'[p][k] = ustacks'[p][l] => k = l
    BY <1>1, <1>8 DEF UStacks
  <2>2. \A k, l \in Pth : k < l /\ ustacks'[p][l] # 0 => ustacks'[p][k] # 0
    <3> TAKE k, l \in Pth
    <3>1. CASE l = j
      <4>1. k < j => ustacks[p][k] # 0
        BY <1>1, <1>7
      <4> QED
        BY <1>1, <1>8, <3>1, <4>1
    <3>2. CASE l # j
      BY <1>1, <1>8, <3>2 DEF UStacks
    <3> QED
      BY <3>1, <3>2
  <2>3. \A k \in Pth : Lasting(p, k)' =>
          ustacks'[p][k] # 0 /\ pth'[p][k].stack = ustacks'[p][k]
    BY <1>1, <1>8 DEF UStacks, Lasting
  <2>4. \A k \in Pth : Lasting(p, k)' => ustacks'[p][k] - 1 \in proc'[p].mapped
    BY <1>1, <1>6 DEF Lasting
  <2>5. \A k \in Pth : pth'[p][k].state = "RUNNING" => proc'[p].onTidx = k
    BY <1>1 DEF UStacks
  <2> QED
    BY <1>9, <2>1, <2>2, <2>3, <2>4, <2>5 DEF UStacks
<1> QED
  BY <1>3, <1>9

LEMMA CreateFailsAll ==
    ASSUME LevelInv, NEW p \in Slot, NEW i \in Pth, CreateFails(<<p, i>>)
    PROVE  /\ LevelInv'
           /\ Kept /\ KeptApart => Kept' /\ KeptApart'
           /\ \A q \in Slot : UStacks(q) => UStacks(q)'
<1>1. /\ UNCHANGED <<proc, pth, ustacks, cur, call>>
      /\ nextTid' = nextTid + 1
      /\ \/ UNCHANGED <<kstacks, free>>
         \/ \E j \in Pth : /\ pth[p][j].state = "UNUSED"
                           /\ kstacks' = [kstacks EXCEPT ![p][j] = None]
                           /\ free' = free \ {Page}
  BY DEF CreateFails
<1>2. /\ kstacks' \in [Slot -> [Pth -> KStack \cup {None}]] /\ free' \subseteq KStack
      /\ nextTid' \in Nat \ {0}
  <2>1. CASE UNCHANGED <<kstacks, free>>
    BY <1>1, <2>1 DEF LevelInv, Typed
  <2>2. ASSUME NEW j \in Pth, kstacks' = [kstacks EXCEPT ![p][j] = None], free' = free \ {Page}
        PROVE  kstacks' \in [Slot -> [Pth -> KStack \cup {None}]] /\ free' \subseteq KStack
    BY <2>2 DEF LevelInv, Typed
  <2>3. nextTid' \in Nat \ {0}
    BY <1>1 DEF LevelInv, Typed
  <2> QED
    BY <1>1, <2>1, <2>2, <2>3 DEF LevelInv, Typed
<1>3. Typed'
  BY <1>1, <1>2 DEF LevelInv, Typed
<1>4. Levels' /\ OneRuns'
  BY <1>1, LevelStays DEF LevelInv, Levels, OneRuns
<1>5. Embryos' /\ ForksApart'
  BY <1>1, EmbryosStay DEF Forks
<1>6. ASSUME Kept, KeptApart PROVE Kept' /\ KeptApart'
  <2>1. CASE UNCHANGED <<kstacks, free>>
    BY <1>1, <1>6, <2>1 DEF Kept, KeptApart
  <2>2. CASE \E j \in Pth : /\ pth[p][j].state = "UNUSED"
                            /\ kstacks' = [kstacks EXCEPT ![p][j] = None]
                            /\ free' = free \ {Page}
    <3>1. PICK j \in Pth : /\ pth[p][j].state = "UNUSED"
                           /\ kstacks' = [kstacks EXCEPT ![p][j] = None]
                           /\ free' = free \ {Page}
      BY <2>2
    <3>2. /\ kstacks'[p][j] = None /\ pth[p][j].kstack = None /\ None \notin free
          /\ \A q \in Slot : \A k \in Pth : q # p \/ k # j => kstacks'[q][k] = kstacks[q][k]
      BY <1>6, <3>1, Sorts DEF LevelInv, Typed, Kept
    <3>3. KeptApart'
      BY <1>6, <3>2 DEF KeptApart
    <3>4. Kept'
      BY <1>1, <1>6, <3>1, <3>2 DEF Kept
    <3> QED
      BY <3>3, <3>4
  <2> QED
    BY <1>1, <2>1, <2>2
<1>7. \A q \in Slot : UStacks(q) => UStacks(q)'
  BY <1>1 DEF UStacks, Lasting
<1> QED
  BY <1>3, <1>4, <1>5, <1>6, <1>7 DEF LevelInv

-----------------------------------------------------------------------------
(* The theorems *)

LEMMA InitSound == Init => KStackInv /\ \A p \in Slot : UStacks(p)
<1> SUFFICES ASSUME Init PROVE KStackInv /\ \A p \in Slot : UStacks(p)
  OBVIOUS
<1> DEFINE first == [NoThread EXCEPT !.state = "RUNNABLE", !.tid = 1, !.kstack = 1,
                                     !.stack = ExecSz]
           init == [NoProc EXCEPT !.state = "RUNNABLE", !.sz = ExecSz,
                                  !.mapped = 0 .. ExecSz - 1]
<1>1. /\ NoThread \in PthRec /\ NoThread.state = "UNUSED" /\ NoThread.kstack = None
      /\ NoProc \in ProcRec /\ NoProc.state = "UNUSED"
  BY Sorts, Chans DEF NoThread, NoProc, PthRec, ProcRec, States
<1>2. /\ first \in PthRec /\ first.state = "RUNNABLE" /\ first.kstack = 1
      /\ first.stack = ExecSz
  BY Sorts, Chans DEF NoThread, PthRec, States
<1>3. init \in ProcRec /\ init.state = "RUNNABLE" /\ init.mapped = 0 .. ExecSz - 1
  BY Sorts DEF NoProc, ProcRec, States
<1>4. /\ proc = [p \in Slot |-> IF p = InitProc THEN init ELSE NoProc]
      /\ pth = [p \in Slot |-> [i \in Pth |->
                  IF <<p, i>> = <<InitProc, 0>> THEN first ELSE NoThread]]
      /\ kstacks = [p \in Slot |-> [i \in Pth |-> pth[p][i].kstack]]
      /\ ustacks = [p \in Slot |-> [i \in Pth |->
                      IF <<p, i>> = <<InitProc, 0>> THEN ExecSz ELSE 0]]
      /\ free = KStack \ {1} /\ nextTid = 2 /\ cur = None
      /\ call = [t \in Thread |-> None]
  BY DEF Init
<1> HIDE DEF first, init
<1>5. /\ proc \in [Slot -> ProcRec] /\ pth \in [Slot -> [Pth -> PthRec]]
      /\ \A p \in Slot : proc[p] = IF p = InitProc THEN init ELSE NoProc
      /\ \A p \in Slot : \A i \in Pth :
            pth[p][i] = IF p = InitProc /\ i = 0 THEN first ELSE NoThread
  BY <1>1, <1>2, <1>3, <1>4
<1>6. /\ kstacks \in [Slot -> [Pth -> KStack \cup {None}]]
      /\ ustacks \in [Slot -> [Pth -> 0 .. MaxSz]]
      /\ \A p \in Slot : \A i \in Pth :
            /\ kstacks[p][i] = IF p = InitProc /\ i = 0 THEN 1 ELSE None
            /\ ustacks[p][i] = IF p = InitProc /\ i = 0 THEN ExecSz ELSE 0
  BY <1>1, <1>2, <1>4, <1>5, Sorts
<1>7. Typed
  BY <1>4, <1>5, <1>6 DEF Typed
<1>8. Levels
  BY <1>1, <1>2, <1>3, <1>5, Sorts DEF Levels, Level, Some, Live
<1>9. OneRuns
  BY <1>1, <1>2, <1>4, <1>5, Sorts DEF OneRuns, Thread
<1>10. Embryos /\ ForksApart
  BY <1>4 DEF Embryos, ForksApart, Forks
<1>11. Kept /\ KeptApart
  BY <1>1, <1>2, <1>4, <1>5, <1>6, Sorts DEF Kept, KeptApart, Live
<1>12. ASSUME NEW p \in Slot PROVE UStacks(p)
  <2>1. \A i \in Pth : /\ ustacks[p][i] # 0 => p = InitProc /\ i = 0
                       /\ Lasting(p, i) => /\ p = InitProc /\ i = 0
                                           /\ ustacks[p][i] = 1 /\ pth[p][i].stack = 1
                                           /\ 0 \in proc[p].mapped
                       /\ pth[p][i].state # "RUNNING"
    BY <1>1, <1>2, <1>3, <1>5, <1>6, Sorts DEF Lasting
  <2>2. \A i, j \in Pth : i < j /\ ustacks[p][j] # 0 => FALSE
    BY <2>1, Sorts DEF Pth
  <2> QED
    BY <2>1, <2>2 DEF UStacks
<1> QED
  BY <1>7, <1>8, <1>9, <1>10, <1>11, <1>12 DEF KStackInv, LevelInv

LEMMA Step ==
    ASSUME KStackInv, [Next]_vars
    PROVE  /\ KStackInv'
           /\ panic' = None => panic = None
           /\ "exec" \notin Calls /\ panic' = None /\ (\A p \in Slot : UStacks(p))
                => (\A p \in Slot : UStacks(p))'
<1>0. LevelInv /\ Kept /\ KeptApart
  BY DEF KStackInv
<1>1. ASSUME LevelInv', Quiet
      PROVE  /\ KStackInv' /\ (panic' = None => panic = None)
             /\ (\A p \in Slot : UStacks(p)) => (\A p \in Slot : UStacks(p))'
  BY <1>0, <1>1, QuietKeeps, QuietStacks DEF KStackInv, Quiet
<1>2. CASE PassEnds \/ UNCHANGED vars
  BY <1>0, <1>1, <1>2, PassEndsLevels
<1>3. ASSUME NEW p \in Slot, NEW i \in Pth,
             \/ Dispatch(<<p, i>>) \/ Yield(<<p, i>>) \/ Wake(<<p, i>>) \/ Sleep(<<p, i>>)
             \/ FileOp(<<p, i>>) \/ FileOpReturns(<<p, i>>) \/ Exit(<<p, i>>)
             \/ ExitDone(<<p, i>>) \/ ThreadExit(<<p, i>>)
             \/ Grow(<<p, i>>) \/ GrowReturns(<<p, i>>)
             \/ \E q \in Slot : Kill(<<p, i>>, q)
      PROVE  LevelInv' /\ Quiet
  BY <1>0, <1>3, DispatchLevels, YieldLevels, WakeLevels, SleepingLevels,
     FileOpReturnsLevels, ExitLevels, ExitDoneLevels, ThreadExitLevels,
     GrowReturnsLevels, KillLevels
<1>4. ASSUME NEW p \in Slot, NEW i \in Pth, Fork(<<p, i>>)
      PROVE  /\ KStackInv' /\ panic' = panic
             /\ (\A q \in Slot : UStacks(q)) => (\A q \in Slot : UStacks(q))'
  BY <1>0, <1>4, ForkShape, ForkLevels, ForkKeeps, ForkStacks DEF KStackInv
<1>5. ASSUME NEW p \in Slot, NEW i \in Pth, ForkReturns(<<p, i>>)
      PROVE  /\ KStackInv' /\ panic' = panic
             /\ (\A q \in Slot : UStacks(q)) => (\A q \in Slot : UStacks(q))'
  BY <1>5, ForkReturnsShape, ForkReturnsLevels, ForkReturnsKeeps, ForkReturnsStacks DEF KStackInv
<1>6. ASSUME NEW p \in Slot, NEW i \in Pth, Wait(<<p, i>>)
      PROVE  /\ KStackInv' /\ panic' = panic
             /\ (\A q \in Slot : UStacks(q)) => (\A q \in Slot : UStacks(q))'
  <2>1. panic' = panic /\ <<p, i>> \in Thread
    BY <1>6 DEF Wait, SleepOn, Thread
  <2>2. CASE ~\E q \in Children(p) : proc[q].state = "ZOMBIE"
    BY <1>0, <1>1, <1>6, <2>1, <2>2, WaitStillLevels
  <2>3. CASE \E q \in Children(p) : proc[q].state = "ZOMBIE"
    <3>1. PICK q \in Slot : proc[q].state = "ZOMBIE" /\ Reaped(q)
      BY <1>0, <1>6, <2>3, WaitReaps
    <3>2. LevelInv'
      BY <1>0, <1>6, <2>1, <2>3, <3>1, WaitReaps, ReapedLevels
    <3> QED
      BY <1>0, <2>1, <3>1, <3>2, ReapedKeeps, ReapedStacks DEF KStackInv
  <2> QED
    BY <2>2, <2>3
<1>7. ASSUME NEW p \in Slot, NEW i \in Pth, NEW x \in 1 .. MaxTid, ThreadJoin(<<p, i>>, x)
      PROVE  /\ KStackInv' /\ panic' = panic
             /\ (\A q \in Slot : UStacks(q)) => (\A q \in Slot : UStacks(q))'
  <2>1. panic' = panic /\ <<p, i>> \in Thread
    BY <1>7 DEF ThreadJoin, SleepOn, Thread
  <2>2. CASE JoinedDead(x) = {}
    BY <1>0, <1>1, <1>7, <2>1, <2>2, JoinStillLevels
  <2>3. CASE JoinedDead(x) # {}
    BY <1>0, <1>7, <2>1, <2>3, JoinLevels, JoinKeeps, JoinStacks DEF KStackInv
  <2> QED
    BY <2>2, <2>3
<1>8. ASSUME NEW p \in Slot, NEW i \in Pth, Exec(<<p, i>>)
      PROVE  KStackInv' /\ panic' = panic /\ "exec" \in Calls
  BY <1>8, ExecShape, ExecLevels, ExecKeeps DEF KStackInv
<1>9. ASSUME NEW p \in Slot, NEW i \in Pth, ThreadCreate(<<p, i>>)
      PROVE  /\ KStackInv' /\ panic = None
             /\ panic' = None /\ (\A q \in Slot : UStacks(q)) => (\A q \in Slot : UStacks(q))'
  BY <1>0, <1>9, CreateShape, CreateLevels, CreateKeeps, CreateStacks DEF KStackInv
<1>10. ASSUME NEW p \in Slot, NEW i \in Pth, CreateFails(<<p, i>>)
       PROVE  /\ KStackInv' /\ panic = None
              /\ (\A q \in Slot : UStacks(q)) => (\A q \in Slot : UStacks(q))'
  <2>1. panic = None
    BY <1>10 DEF CreateFails, InProgram, InUser, Runs
  <2> QED
    BY <1>0, <1>10, <2>1, CreateFailsAll DEF KStackInv
<1>11. ASSUME NEW t \in Thread,
              \/ Dispatch(t) \/ Yield(t) \/ Wake(t) \/ Sleep(t)
              \/ FileOp(t) \/ FileOpReturns(t)
              \/ Fork(t) \/ ForkReturns(t) \/ Wait(t) \/ Exit(t) \/ ExitDone(t)
              \/ Exec(t) \/ (\E q \in Slot : Kill(t, q))
              \/ ThreadCreate(t) \/ CreateFails(t) \/ ThreadExit(t)
              \/ (\E x \in 1 .. MaxTid : ThreadJoin(t, x))
              \/ Grow(t) \/ GrowReturns(t)
       PROVE  \E p \in Slot : \E i \in Pth :
              \/ LevelInv' /\ Quiet
              \/ Fork(<<p, i>>) \/ ForkReturns(<<p, i>>) \/ Wait(<<p, i>>)
              \/ \E x \in 1 .. MaxTid : ThreadJoin(<<p, i>>, x)
              \/ Exec(<<p, i>>) \/ ThreadCreate(<<p, i>>) \/ CreateFails(<<p, i>>)
  <2>1. PICK p \in Slot, i \in Pth : t = <<p, i>>
    BY DEF Thread
  <2> QED
    BY <1>3, <1>11, <2>1
<1>12. CASE \E t \in Thread :
              \/ Dispatch(t) \/ Yield(t) \/ Wake(t) \/ Sleep(t)
              \/ FileOp(t) \/ FileOpReturns(t)
              \/ Fork(t) \/ ForkReturns(t) \/ Wait(t) \/ Exit(t) \/ ExitDone(t)
              \/ Exec(t) \/ (\E q \in Slot : Kill(t, q))
              \/ ThreadCreate(t) \/ CreateFails(t) \/ ThreadExit(t)
              \/ (\E x \in 1 .. MaxTid : ThreadJoin(t, x))
              \/ Grow(t) \/ GrowReturns(t)
  BY <1>1, <1>4, <1>5, <1>6, <1>7, <1>8, <1>9, <1>10, <1>11, <1>12
<1> QED
  BY <1>2, <1>12 DEF Next

\* However threads and processes are created, killed and joined, the two levels
\* of the table agree, a fork under way has a slot of its own, and kstacks knows
\* each page that is some thread's kernel stack, or was one's that was joined,
\* exactly once (allocproc, fork, exit, wait, init_allpth, allocpth, proc.c).
THEOREM TableIsKept == Spec => []KStackInv
<1>1. Init => KStackInv
  BY InitSound
<1>2. KStackInv /\ [Next]_vars => KStackInv'
  BY Step
<1> QED
  BY <1>1, <1>2, PTL DEF Spec

\* The state is well typed; a thread that can run belongs to a process that the
\* scheduler looks at; and a process without life has no thread that has any
\* (set_proc_state, wakeup1, kill, exit, proc.c:696-740, 551-610, 300-324).
THEOREM NobodyIsLost == Spec => []LwpInv
<1>1. ASSUME KStackInv PROVE LwpInv
  <2>0. LevelInv
    BY <1>1 DEF KStackInv
  <2>1. \A p \in Slot :
          /\ proc[p].state \in States /\ proc[p].parent \in Slot \cup {None}
          /\ proc[p].killed \in BOOLEAN /\ proc[p].onTidx \in Pth
          /\ proc[p].sz \in 0 .. MaxSz /\ proc[p].mapped \subseteq 0 .. MaxSz - 1
    BY <2>0 DEF LevelInv, Typed, ProcRec
  <2>2. \A p \in Slot : \A i \in Pth :
          /\ pth[p][i].state \in States /\ pth[p][i].tid \in 0 .. MaxTid
          /\ pth[p][i].kstack \in KStack \cup {None}
          /\ pth[p][i].state = "RUNNING" <=> cur = <<p, i>>
    BY <2>0 DEF LevelInv, Typed, PthRec, OneRuns
  <2>3. ASSUME NEW t \in Thread
        PROVE  /\ pth[t[1]][t[2]].state \in States /\ pth[t[1]][t[2]].tid \in 0 .. MaxTid
               /\ pth[t[1]][t[2]].kstack \in KStack \cup {None}
               /\ Is(t, "RUNNING") <=> cur = t
    <3>1. PICK p \in Slot, i \in Pth : t = <<p, i>>
      BY DEF Thread
    <3> QED
      BY <2>2, <3>1 DEF Is
  <2>4. TypeOK
    BY <2>0, <2>1, <2>3 DEF TypeOK, LevelInv, Typed
  <2>5. NoThreadLost
    BY <2>0 DEF NoThreadLost, LevelInv, Levels, Level, Some, Live
  <2> QED
    BY <2>4, <2>5 DEF LwpInv
<1> QED
  BY <1>1, TableIsKept, PTL

\* A thread that can ever run again has a kernel stack that no other thread has,
\* that kalloc does not hand out and that init_allpth will find in kstacks.
THEOREM KernelStacksAreOwn == Spec => []KStacksSound
<1>1. ASSUME KStackInv PROVE KStacksSound
  <2>1. ASSUME NEW p \in Slot, NEW i \in Pth, pth[p][i].state \in Live
        PROVE  /\ pth[p][i].kstack # None /\ pth[p][i].kstack \notin free
               /\ kstacks[p][i] = pth[p][i].kstack
               /\ \A q \in Slot : \A j \in Pth :
                     pth[q][j].kstack = pth[p][i].kstack => q = p /\ j = i
    <3>1. /\ pth[p][i].kstack # None /\ kstacks[p][i] = pth[p][i].kstack
          /\ kstacks[p][i] \notin free
      BY <1>1, <2>1 DEF KStackInv, Kept
    <3>2. ASSUME NEW q \in Slot, NEW j \in Pth, pth[q][j].kstack = pth[p][i].kstack
          PROVE  q = p /\ j = i
      <4>1. kstacks[q][j] = kstacks[p][i] /\ kstacks[p][i] # None
        BY <1>1, <3>1, <3>2 DEF KStackInv, Kept
      <4> QED
        BY <1>1, <4>1 DEF KStackInv, KeptApart
    <3> QED
      BY <3>1, <3>2
  <2>2. ASSUME NEW s \in Thread, pth[s[1]][s[2]].state \in Live
        PROVE  /\ pth[s[1]][s[2]].kstack # None /\ pth[s[1]][s[2]].kstack \notin free
               /\ kstacks[s[1]][s[2]] = pth[s[1]][s[2]].kstack
               /\ \A t \in Thread \ {s} : pth[t[1]][t[2]].kstack # pth[s[1]][s[2]].kstack
    <3>1. PICK p \in Slot, i \in Pth : s = <<p, i>>
      BY DEF Thread
    <3>2. ASSUME NEW t \in Thread, t # s
          PROVE  pth[t[1]][t[2]].kstack # pth[s[1]][s[2]].kstack
      <4>1. PICK q \in Slot, j \in Pth : t = <<q, j>>
        BY DEF Thread
      <4> QED
        BY <2>1, <2>2, <3>1, <3>2, <4>1
    <3> QED
      BY <2>1, <2>2, <3>1, <3>2
  <2> QED
    BY <2>2 DEF KStacksSound
<1> QED
  BY <1>1, TableIsKept, PTL

\* If programs do not call exec, which leaves the entries of ustacks that fork
\* has copied (init_allpth, proc.c:667-693), every thread that can run is on the
\* user stack that ustacks has for it, and no other of the process is
\* (alloc_ustack and the exchange of stacks in fork, proc.c:786-807, 236-247).
THEOREM UserStacksAreOwn == ASSUME "exec" \notin Calls PROVE Spec => []UStacksOwn
<1> DEFINE I == KStackInv /\ (panic = None => \A p \in Slot : UStacks(p))
<1>1. Init => I
  BY InitSound
<1>2. I /\ [Next]_vars => I'
  BY Step
<1>3. ASSUME I PROVE UStacksOwn
  <2>1. SUFFICES ASSUME panic = None, NEW s \in Thread, pth[s[1]][s[2]].state \in Live
                 PROVE  /\ pth[s[1]][s[2]].stack = ustacks[s[1]][s[2]]
                        /\ \A i \in Pth \ {s[2]} : pth[s[1]][i].state \in Live =>
                              pth[s[1]][i].stack # pth[s[1]][s[2]].stack
    BY DEF UStacksOwn
  <2>2. PICK p \in Slot, j \in Pth : s = <<p, j>>
    BY DEF Thread
  <2>3. UStacks(p)
    BY <1>3, <2>1
  <2>4. \A i \in Pth : pth[p][i].state \in Live =>
          ustacks[p][i] # 0 /\ pth[p][i].stack = ustacks[p][i]
    BY <2>3 DEF UStacks, Lasting, Live
  <2>5. \A i \in Pth \ {j} : pth[p][i].state \in Live => pth[p][i].stack # pth[p][j].stack
    BY <2>1, <2>2, <2>3, <2>4 DEF UStacks
  <2> QED
    BY <2>1, <2>2, <2>4, <2>5
<1> HIDE DEF I
<1> QED
  BY <1>1, <1>2, <1>3, PTL DEF Spec
=============================================================================
