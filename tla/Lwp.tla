-------------------------------- MODULE Lwp ---------------------------------
(***************************************************************************)
(* The threads of xv6-public_project03: a process has NPTH threads that     *)
(* share its memory, the scheduler runs the threads of a process one after  *)
(* the other, and thread_create, thread_exit and thread_join go with fork,  *)
(* exec, exit, wait, sleep and kill.  There is one CPU (CPUS := 1).  A step *)
(* is what happens between two places where the timer can come in.          *)
(***************************************************************************)
EXTENDS Integers, FiniteSets

CONSTANTS
    NProc,      \* NPROC
    NPth,       \* NPTH
    NStack,     \* pages there are for kernel stacks
    MaxTid,     \* bound on the threads created
    MaxSz,      \* bound on a process's size, in pages: user memory ends there
    Calls,      \* the system calls programs make
    None        \* nobody, nothing

Slot == 1 .. NProc
Pth == 0 .. NPth - 1
Thread == Slot \X Pth
KStack == 1 .. NStack
InitProc == 1
ExecSz == 1     \* the size of a program that exec has just loaded

ASSUME LwpConstants ==
    /\ {NProc, NPth, NStack, MaxTid, MaxSz} \subseteq Nat \ {0}
    /\ Calls \subseteq {"fork", "exec", "sbrk", "kill", "create", "join", "any_join",
                        "thread_exit", "last_exit", "file", "sleep"}
    /\ None \notin Thread \cup KStack \cup {"remap", "trap", "wild"}

VARIABLES
    proc,     \* ptable.proc: state, parent, killed, onTidx, sz, and the pages mapped
    pth,      \* pth[p][i]: thread i of process p: state, tid, chan, kstack, and the
              \* user stack that its trap frame points into, by its top page
    kstacks,  \* proc->kstacks
    ustacks,  \* proc->ustacks: the size at which the stack was added, or 0
    free,     \* the free kernel pages
    nextTid,  \* nextTid
    cur,      \* the thread that the CPU runs, or None in the scheduler
    at,       \* the last thread run in the scheduler's pass, or Start
    call,     \* call[t]: the system call thread t is in the middle of, or None
    fslock,   \* the thread that holds a sleep lock of the file system, or None
    panic     \* why nothing more is said about the kernel, or None: it has
              \* stopped, or thread_create has gone "wild" (see CreateFails)

vars == <<proc, pth, kstacks, ustacks, free, nextTid, cur, at, call, fslock, panic>>

Start == <<0, 0>>
NoThread == [state |-> "UNUSED", tid |-> 0, chan |-> None, kstack |-> None,
             stack |-> 0]
NoProc == [state |-> "UNUSED", parent |-> None, killed |-> FALSE, onTidx |-> 0,
           sz |-> 0, mapped |-> {}]

\* init has been exec'ed.
Init ==
    /\ proc = [p \in Slot |->
          IF p = InitProc
            THEN [NoProc EXCEPT !.state = "RUNNABLE", !.sz = ExecSz,
                                !.mapped = 0 .. ExecSz - 1]
            ELSE NoProc]
    /\ pth = [p \in Slot |-> [i \in Pth |->
          IF <<p, i>> = <<InitProc, 0>>
            THEN [NoThread EXCEPT !.state = "RUNNABLE", !.tid = 1, !.kstack = 1,
                                  !.stack = ExecSz]
            ELSE NoThread]]
    /\ kstacks = [p \in Slot |-> [i \in Pth |-> pth[p][i].kstack]]
    /\ ustacks = [p \in Slot |-> [i \in Pth |->
          IF <<p, i>> = <<InitProc, 0>> THEN ExecSz ELSE 0]]
    /\ free = KStack \ {1}
    /\ nextTid = 2
    /\ cur = None /\ at = Start
    /\ call = [t \in Thread |-> None]
    /\ fslock = None /\ panic = None

Is(t, s) == pth[t[1]][t[2]].state = s
Runs(t) == cur = t /\ panic = None
\* A thread in user code that the next trap does not take to exit(): nobody has
\* killed its process, and its stack is mapped (fork copies the pages below the
\* size, which may be lower than the stack of the thread that forks).
InUser(t) ==
    /\ Runs(t) /\ call[t] = None /\ ~proc[t[1]].killed
    /\ pth[t[1]][t[2]].stack - 1 \in proc[t[1]].mapped
InProgram(t) == InUser(t) /\ t[1] # InitProc   \* init forks, waits, sleeps, kills
InCall(t, op) == Runs(t) /\ call[t] # None /\ call[t].op = op

Live == {"RUNNABLE", "RUNNING", "SLEEPING"}

-----------------------------------------------------------------------------
(***************************************************************************)
(* scheduler(), with ptable.lock held from one thread it runs to the next.  *)
(* One pass visits every process once and runs all threads of it that are   *)
(* RUNNABLE by then in turn.  Only the first one makes the process RUNNING. *)
(***************************************************************************)
Earlier(s, t) == s[1] < t[1] \/ (s[1] = t[1] /\ s[2] < t[2])

Eligible ==
    {t \in Thread :
        /\ Is(t, "RUNNABLE")
        /\ \/ t[1] = at[1] /\ t[2] > at[2]
           \/ t[1] > at[1] /\ proc[t[1]].state = "RUNNABLE"}

Dispatch(t) ==
    /\ cur = None /\ panic = None
    /\ t \in Eligible /\ \A s \in Eligible \ {t} : Earlier(t, s)
    /\ pth' = [pth EXCEPT ![t[1]][t[2]].state = "RUNNING"]
    /\ proc' = [proc EXCEPT ![t[1]].onTidx = t[2],
                            ![t[1]].state = IF t[1] = at[1] THEN @ ELSE "RUNNING"]
    /\ cur' = t /\ at' = t
    /\ UNCHANGED <<kstacks, ustacks, free, nextTid, call, fslock, panic>>

PassEnds ==
    /\ cur = None /\ panic = None
    /\ at # Start /\ Eligible = {}
    /\ at' = Start
    /\ UNCHANGED <<proc, pth, kstacks, ustacks, free, nextTid, cur, call, fslock, panic>>

\* The timer makes a thread give up the CPU, in user code or in the kernel,
\* if its process is RUNNING.
Yield(t) ==
    /\ Runs(t) /\ proc[t[1]].state = "RUNNING"
    /\ pth' = [pth EXCEPT ![t[1]][t[2]].state = "RUNNABLE"]
    /\ proc' = [proc EXCEPT ![t[1]].state = "RUNNABLE"]
    /\ cur' = None
    /\ UNCHANGED <<kstacks, ustacks, free, nextTid, at, call, fslock, panic>>

-----------------------------------------------------------------------------
(***************************************************************************)
(* set_proc_state, wakeup1 and sleep.                                       *)
(***************************************************************************)
set_proc_state(threads) ==
    LET some(s) == \E i \in Pth : threads[i].state = s
    IN  IF some("RUNNING") THEN "RUNNING"
        ELSE IF some("RUNNABLE") THEN "RUNNABLE"
        ELSE IF some("SLEEPING") THEN "SLEEPING"
        ELSE IF some("ZOMBIE") THEN "ZOMBIE" ELSE "UNUSED"

\* Mutated form: only processes with no other thread awake are looked at.
SleepersInSleeping(chan) ==
    {t \in Thread : /\ proc[t[1]].state = "SLEEPING"
                    /\ Is(t, "SLEEPING") /\ pth[t[1]][t[2]].chan = chan}
Sleepers(chan) ==
    {t \in Thread : /\ proc[t[1]].state \in Live
                    /\ Is(t, "SLEEPING") /\ pth[t[1]][t[2]].chan = chan}

\* The table after the threads in woken have been made RUNNABLE.  Mutated
\* form: their processes are left SLEEPING.
ProcUnwoken(woken) == proc
ProcWoken(woken) ==
    [p \in Slot |->
        IF proc[p].state = "SLEEPING" /\ \E i \in Pth : <<p, i>> \in woken
          THEN [proc[p] EXCEPT !.state = "RUNNABLE"] ELSE proc[p]]
PthWoken(woken) ==
    [p \in Slot |-> [i \in Pth |->
        IF <<p, i>> \in woken
          THEN [pth[p][i] EXCEPT !.state = "RUNNABLE", !.chan = None]
          ELSE pth[p][i]]]

\* The running thread sleeps on chan, in the call c.
SleepOn(t, chan, c) ==
    LET threads == [pth[t[1]] EXCEPT ![t[2]].state = "SLEEPING", ![t[2]].chan = chan]
    IN  /\ pth' = [pth EXCEPT ![t[1]] = threads]
        /\ proc' = [proc EXCEPT ![t[1]].state = set_proc_state(threads)]
        /\ call' = [call EXCEPT ![t] = c]
        /\ cur' = None

Event == <<"event", 0>>   \* the timer or a device
FsLock == <<"fslock", 0>>

Sleep(t) ==
    /\ InUser(t) /\ "sleep" \in Calls
    /\ SleepOn(t, Event, None)
    /\ UNCHANGED <<kstacks, ustacks, free, nextTid, at, fslock, panic>>

\* An interrupt wakes a thread.  None comes while the scheduler is in a pass.
Wake(t) ==
    /\ cur # None \/ at = Start
    /\ panic = None
    /\ t \in Sleepers(Event)
    /\ proc' = ProcWoken({t}) /\ pth' = PthWoken({t})
    /\ UNCHANGED <<kstacks, ustacks, free, nextTid, cur, at, call, fslock, panic>>

\* A system call that holds a sleep lock of the file system while it waits
\* for the disk.
FileOp(t) ==
    /\ (InProgram(t) /\ "file" \in Calls) \/ InCall(t, "lock")
    /\ IF fslock = None
         THEN fslock' = t /\ SleepOn(t, Event, [op |-> "disk"])
         ELSE fslock' = fslock /\ SleepOn(t, FsLock, [op |-> "lock"])
    /\ UNCHANGED <<kstacks, ustacks, free, nextTid, at, panic>>

FileOpReturns(t) ==
    /\ InCall(t, "disk")
    /\ fslock' = None
    /\ proc' = ProcWoken(Sleepers(FsLock)) /\ pth' = PthWoken(Sleepers(FsLock))
    /\ call' = [call EXCEPT ![t] = None]
    /\ UNCHANGED <<kstacks, ustacks, free, nextTid, cur, at, panic>>

-----------------------------------------------------------------------------
(***************************************************************************)
(* fork, wait, exit, kill and exec.                                         *)
(***************************************************************************)
WaitChan(p) == <<"wait", p>>
Page == CHOOSE k \in free : \A l \in free : k =< l   \* what kalloc returns

\* allocproc: the first unused slot, with a kernel stack for its thread 0.
Fork(t) ==
    \E c \in Slot :
        /\ InUser(t) /\ "fork" \in Calls /\ nextTid =< MaxTid
        /\ proc[c].state = "UNUSED" /\ \A d \in 1 .. c - 1 : proc[d].state # "UNUSED"
        /\ nextTid' = nextTid + 1
        /\ ustacks' = [ustacks EXCEPT ![c] = [i \in Pth |-> 0]]
        /\ IF free # {}
             THEN /\ proc' = [proc EXCEPT ![c].state = "EMBRYO", ![c].onTidx = 0]
                  /\ pth' = [pth EXCEPT ![c][0] = [@ EXCEPT !.state = "EMBRYO",
                                           !.tid = nextTid, !.kstack = Page]]
                  /\ kstacks' = [kstacks EXCEPT ![c] =
                                   [i \in Pth |-> IF i = 0 THEN Page ELSE None]]
                  /\ free' = free \ {Page}
                  /\ call' = [call EXCEPT ![t] = [op |-> "fork", slot |-> c]]
             ELSE /\ pth' = [pth EXCEPT ![c][0].tid = nextTid]
                  /\ kstacks' = [kstacks EXCEPT ![c] = [i \in Pth |-> None]]
                  /\ UNCHANGED <<proc, free, call>>
        /\ UNCHANGED <<cur, at, fslock, panic>>

\* Mutated form: the child's thread 0 has the stack of the parent's thread 0.
ForkedStacksUnswapped(p) == ustacks[p]
\* The child's thread 0 has the stack of the thread that called fork.
ForkedStacks(p) ==
    [ustacks[p] EXCEPT ![proc[p].onTidx] = ustacks[p][0],
                       ![0] = ustacks[p][proc[p].onTidx]]

\* copyuvm copies the pages below the size, or finds too little memory.
ForkReturns(t) ==
    LET p == t[1]
        c == call[t].slot
    IN  /\ InCall(t, "fork")
        /\ \/ /\ proc' = [proc EXCEPT ![c] = [@ EXCEPT !.state = "RUNNABLE",
                             !.parent = p, !.sz = proc[p].sz,
                             !.mapped = 0 .. proc[p].sz - 1]]
              /\ pth' = [pth EXCEPT ![c][0].state = "RUNNABLE",
                                     ![c][0].stack = pth[p][t[2]].stack]
              /\ ustacks' = [ustacks EXCEPT ![c] = ForkedStacks(p)]
              /\ UNCHANGED <<kstacks, free>>
           \/ /\ proc' = [proc EXCEPT ![c].state = "UNUSED"]
              /\ pth' = [pth EXCEPT ![c][0].state = "UNUSED", ![c][0].kstack = None]
              /\ kstacks' = [kstacks EXCEPT ![c][0] = None]
              /\ free' = free \cup {pth[c][0].kstack}
              /\ UNCHANGED ustacks
        /\ call' = [call EXCEPT ![t] = None]
        /\ UNCHANGED <<nextTid, cur, at, fslock, panic>>

Children(p) == {q \in Slot : proc[q].parent = p}

\* The stacks that thread_join has taken from the threads are not freed.
Reaped(q) ==
    /\ proc' = [proc EXCEPT ![q] = NoProc]
    /\ pth' = [pth EXCEPT ![q] = [i \in Pth |-> NoThread]]
    /\ kstacks' = [kstacks EXCEPT ![q] =
          [i \in Pth |-> IF pth[q][i].kstack # None THEN None ELSE @[i]]]
    /\ ustacks' = [ustacks EXCEPT ![q] = [i \in Pth |-> 0]]
    /\ free' = free \cup ({pth[q][i].kstack : i \in Pth} \ {None})

Wait(t) ==
    LET kids == Children(t[1])
        dead == {q \in kids : proc[q].state = "ZOMBIE"}
    IN  /\ (InUser(t) /\ kids # {}) \/ InCall(t, "wait")
        /\ IF dead # {}
             THEN /\ \E q \in dead : (\A d \in dead : q =< d) /\ Reaped(q)
                  /\ call' = [call EXCEPT ![t] = None]
                  /\ UNCHANGED cur
             ELSE IF kids = {} \/ proc[t[1]].killed
               THEN /\ call' = [call EXCEPT ![t] = None]
                    /\ UNCHANGED <<proc, pth, kstacks, ustacks, free, cur>>
               ELSE /\ SleepOn(t, WaitChan(t[1]), [op |-> "wait"])
                    /\ UNCHANGED <<kstacks, ustacks, free>>
        /\ UNCHANGED <<nextTid, at, fslock, panic>>

\* exit first closes the files.  A killed process gets here from any trap, and
\* a thread without a stack from its page fault.
Exit(t) ==
    /\ Runs(t) /\ call[t] = None /\ t[1] # InitProc
    /\ call' = [call EXCEPT ![t] = [op |-> "exit"]]
    /\ UNCHANGED <<proc, pth, kstacks, ustacks, free, nextTid, cur, at, fslock, panic>>

\* Mutated form: the parent is forgotten.
ExitRousesInit(p) ==
    {t \in Sleepers(WaitChan(InitProc)) :
        \E q \in Children(p) : proc[q].state = "ZOMBIE"}
\* Who waits for the exit of p, or inherits a zombie from it.
ExitRouses(p) ==
    Sleepers(WaitChan(proc[p].parent))
    \cup {t \in Sleepers(WaitChan(InitProc)) :
            \E q \in Children(p) : proc[q].state = "ZOMBIE"}

\* Then it wakes its parent, gives its children to init, and is a zombie with
\* all of its threads, whatever they were doing.
ExitDone(t) ==
    LET p == t[1]
        woken == ExitRouses(p)
    IN  /\ InCall(t, "exit")
        /\ proc' = [q \in Slot |->
              IF q = p THEN [proc[p] EXCEPT !.state = "ZOMBIE"]
              ELSE IF q \in Children(p)
                THEN [ProcWoken(woken)[q] EXCEPT !.parent = InitProc]
              ELSE ProcWoken(woken)[q]]
        /\ pth' = [PthWoken(woken) EXCEPT ![p] = [i \in Pth |->
              IF pth[p][i].state = "UNUSED" THEN pth[p][i]
              ELSE [pth[p][i] EXCEPT !.state = "ZOMBIE", !.chan = None]]]
        /\ call' = [s \in Thread |-> IF s[1] = p THEN None ELSE call[s]]
        /\ cur' = None
        /\ UNCHANGED <<kstacks, ustacks, free, nextTid, at, fslock, panic>>

\* Mutated form: a process that sleeps is left SLEEPING.
KillThreadsOnly(t, q) ==
    /\ InUser(t) /\ "kill" \in Calls
    /\ q # InitProc /\ proc[q].state # "UNUSED"
    /\ proc' = [proc EXCEPT ![q].killed = TRUE]
    /\ pth' = [pth EXCEPT ![q] = [i \in Pth |->
          IF @[i].state = "SLEEPING"
            THEN [@[i] EXCEPT !.state = "RUNNABLE", !.chan = None] ELSE @[i]]]
    /\ UNCHANGED <<kstacks, ustacks, free, nextTid, cur, at, call, fslock, panic>>
\* kill wakes the threads of the process whatever they sleep for.
Kill(t, q) ==
    /\ InUser(t) /\ "kill" \in Calls
    /\ q # InitProc /\ proc[q].state # "UNUSED"
    /\ proc' = [proc EXCEPT ![q].killed = TRUE,
                            ![q].state = IF @ = "SLEEPING" THEN "RUNNABLE" ELSE @]
    /\ pth' = [pth EXCEPT ![q] = [i \in Pth |->
          IF @[i].state = "SLEEPING"
            THEN [@[i] EXCEPT !.state = "RUNNABLE", !.chan = None] ELSE @[i]]]
    /\ UNCHANGED <<kstacks, ustacks, free, nextTid, cur, at, call, fslock, panic>>

\* Mutated form: without the test pth != curpth.
HadKstackOrMe(p, me) ==
    {i \in Pth : pth[p][i].kstack # None \/ kstacks[p][i] # None}
HadKstack(p, me) ==
    {i \in Pth \ {me} : pth[p][i].kstack # None \/ kstacks[p][i] # None}

\* exec commits to the new program: init_allpth ends all other threads.  It
\* forgets the user stacks of those that have had a kernel stack.
Exec(t) ==
    LET p == t[1]
        had == HadKstack(p, t[2])
    IN  /\ InProgram(t) /\ "exec" \in Calls
        /\ proc' = [proc EXCEPT ![p].sz = ExecSz, ![p].mapped = 0 .. ExecSz - 1]
        /\ pth' = [pth EXCEPT ![p] = [i \in Pth |->
              IF i = t[2] THEN [@[i] EXCEPT !.stack = ExecSz] ELSE NoThread]]
        /\ kstacks' = [kstacks EXCEPT ![p] = [i \in Pth |->
              IF i \in had THEN None ELSE @[i]]]
        /\ ustacks' = [ustacks EXCEPT ![p] = [i \in Pth |->
              IF i = t[2] THEN ExecSz ELSE IF i \in had THEN 0 ELSE @[i]]]
        /\ free' = free \cup {kstacks[p][i] : i \in had}
        /\ call' = [s \in Thread |-> IF s[1] = p THEN None ELSE call[s]]
        /\ UNCHANGED <<nextTid, cur, at, fslock, panic>>

-----------------------------------------------------------------------------
(***************************************************************************)
(* thread_create, thread_exit, thread_join, and sbrk.                       *)
(***************************************************************************)
\* The user stack of thread i ends where alloc_ustack put it before, or is a
\* new page above the process.
StackTop(p, i) == IF ustacks[p][i] # 0 THEN ustacks[p][i] ELSE proc[p].sz + 1

\* allocpth has found thread i; alloc_ustack adds a page if i has no stack yet;
\* and the size of the process becomes the end of that stack, new or old.
Creates(t, i) ==
    LET p == t[1]
        top == StackTop(p, i)
        new == ustacks[p][i] = 0
    IN  /\ InProgram(t) /\ "create" \in Calls /\ nextTid =< MaxTid
        /\ pth[p][i].state = "UNUSED" /\ \A j \in 0 .. i - 1 : pth[p][j].state # "UNUSED"
        /\ free # {} /\ top =< MaxSz
        /\ panic' = IF new /\ proc[p].sz \in proc[p].mapped THEN "remap"
                    ELSE IF ~new /\ top - 1 \notin proc[p].mapped THEN "trap"
                    ELSE None
        /\ pth' = [pth EXCEPT ![p][i] = [@ EXCEPT !.state = "RUNNABLE",
                      !.tid = nextTid, !.kstack = Page, !.stack = top]]
        /\ kstacks' = [kstacks EXCEPT ![p][i] = Page]
        /\ free' = free \ {Page}
        /\ ustacks' = [ustacks EXCEPT ![p][i] = top]
        /\ proc' = [proc EXCEPT ![p].sz = top,
                                ![p].mapped = @ \cup {top - 1}]
        /\ nextTid' = nextTid + 1
        /\ UNCHANGED <<cur, at, call, fslock>>

ThreadCreate(t) == \E i \in Pth : Creates(t, i)

\* No memory for the user stack: the kernel stack is lost.  No thread, or no
\* page for its kernel stack: the label bad writes through a null pointer and
\* variables that have no value yet.
CreateFails(t) ==
    LET p == t[1]
        unused == {i \in Pth : pth[p][i].state = "UNUSED"}
    IN  /\ InProgram(t) /\ "create" \in Calls /\ nextTid =< MaxTid
        /\ nextTid' = nextTid + 1
        /\ IF unused = {} \/ free = {}
             THEN panic' = "wild" /\ UNCHANGED <<kstacks, free>>
             ELSE \E i \in unused :
                    /\ \A j \in unused : i =< j
                    /\ StackTop(p, i) > MaxSz
                    /\ kstacks' = [kstacks EXCEPT ![p][i] = None]
                    /\ free' = free \ {Page}
                    /\ UNCHANGED panic
        /\ UNCHANGED <<proc, pth, ustacks, cur, at, call, fslock>>

JoinChan(x) == <<"join", x>>

ThreadExit(t) ==
    LET woken == Sleepers(JoinChan(pth[t[1]][t[2]].tid))
        table == [PthWoken(woken) EXCEPT ![t[1]][t[2]].state = "ZOMBIE"]
    IN  /\ InProgram(t) /\ "thread_exit" \in Calls
        /\ "last_exit" \in Calls \/ \E i \in Pth \ {t[2]} : pth[t[1]][i].state \in Live
        /\ pth' = table
        /\ proc' = [ProcWoken(woken) EXCEPT ![t[1]].state = set_proc_state(table[t[1]])]
        /\ cur' = None
        /\ UNCHANGED <<kstacks, ustacks, free, nextTid, at, call, fslock, panic>>

Joins(t) == call[t] # None /\ call[t].op = "join"
Named(x) == {s \in Thread : pth[s[1]][s[2]].tid = x}

\* Programs without "any_join": one thread waits for x, and is older than x.
OneJoins(t, x) ==
    /\ pth[t[1]][t[2]].tid < x
    /\ \A s \in Thread : Joins(s) => call[s].tid # x

\* A thread that has exited is reaped, without its kernel stack.  A caller that
\* has slept sleeps again if another one has reaped the thread.
ThreadJoin(t, x) ==
    LET zombies == {s \in Named(x) : Is(s, "ZOMBIE")}
    IN  /\ \/ /\ InProgram(t) /\ "join" \in Calls
              /\ \E s \in Named(x) : s # t /\ s[1] = t[1]
              /\ "any_join" \in Calls \/ OneJoins(t, x)
           \/ InCall(t, "join") /\ x = call[t].tid
        /\ IF zombies # {}
             THEN /\ pth' = [p \in Slot |-> [i \in Pth |->
                        IF <<p, i>> \in zombies THEN NoThread ELSE pth[p][i]]]
                  /\ call' = [call EXCEPT ![t] = None]
                  /\ UNCHANGED <<proc, cur>>
             ELSE SleepOn(t, JoinChan(x), [op |-> "join", tid |-> x])
        /\ UNCHANGED <<kstacks, ustacks, free, nextTid, at, fslock, panic>>

\* growproc reads the size, and later maps the page there and writes the size.
Grow(t) ==
    /\ InProgram(t) /\ "sbrk" \in Calls /\ proc[t[1]].sz < MaxSz
    /\ call' = [call EXCEPT ![t] = [op |-> "sbrk", sz |-> proc[t[1]].sz]]
    /\ UNCHANGED <<proc, pth, kstacks, ustacks, free, nextTid, cur, at, fslock, panic>>

GrowReturns(t) ==
    LET sz == call[t].sz
    IN  /\ InCall(t, "sbrk")
        /\ proc' = [proc EXCEPT ![t[1]].sz = sz + 1,
                                ![t[1]].mapped = @ \cup {sz}]
        /\ panic' = IF sz \in proc[t[1]].mapped THEN "remap" ELSE None
        /\ call' = [call EXCEPT ![t] = None]
        /\ UNCHANGED <<pth, kstacks, ustacks, free, nextTid, cur, at, fslock>>

-----------------------------------------------------------------------------
CallReturns(t) ==
    \/ ForkReturns(t) \/ ExitDone(t) \/ GrowReturns(t) \/ FileOpReturns(t)
    \/ InCall(t, "wait") /\ Wait(t)
    \/ InCall(t, "lock") /\ FileOp(t)
    \/ InCall(t, "join") /\ ThreadJoin(t, call[t].tid)

Next ==
    \/ PassEnds
    \/ \E t \in Thread :
          \/ Dispatch(t) \/ Yield(t) \/ Wake(t) \/ Sleep(t)
          \/ FileOp(t) \/ FileOpReturns(t)
          \/ Fork(t) \/ ForkReturns(t) \/ Wait(t) \/ Exit(t) \/ ExitDone(t)
          \/ Exec(t) \/ \E q \in Slot : Kill(t, q)
          \/ ThreadCreate(t) \/ CreateFails(t) \/ ThreadExit(t)
          \/ \E x \in 1 .. MaxTid : ThreadJoin(t, x)
          \/ Grow(t) \/ GrowReturns(t)

Spec == Init /\ [][Next]_vars

\* The scheduler never stops, and the timer and what a thread sleeps for come.
KernelFairness ==
    /\ WF_vars(PassEnds) /\ WF_vars(\E t \in Thread : Dispatch(t))
    /\ \A t \in Thread : WF_vars(Wake(t)) /\ WF_vars(Yield(t))

\* A call goes on when its thread runs, and programs end.
ProgramFairness ==
    /\ \A t \in Thread : SF_vars(CallReturns(t))
    /\ \A t \in Thread : t[1] # InitProc => SF_vars(ThreadExit(t) \/ Exit(t))

FairSpec == Spec /\ KernelFairness /\ ProgramFairness

-----------------------------------------------------------------------------
(***************************************************************************)
(* Properties.                                                              *)
(***************************************************************************)
States == {"UNUSED", "EMBRYO", "SLEEPING", "RUNNABLE", "RUNNING", "ZOMBIE"}

TypeOK ==
    /\ \A p \in Slot :
          /\ proc[p].state \in States /\ proc[p].parent \in Slot \cup {None}
          /\ proc[p].killed \in BOOLEAN /\ proc[p].onTidx \in Pth
          /\ proc[p].sz \in 0 .. MaxSz /\ proc[p].mapped \subseteq 0 .. MaxSz - 1
    /\ \A t \in Thread :
          /\ pth[t[1]][t[2]].state \in States /\ pth[t[1]][t[2]].tid \in 0 .. MaxTid
          /\ pth[t[1]][t[2]].kstack \in KStack \cup {None}
          /\ Is(t, "RUNNING") <=> cur = t
    /\ free \subseteq KStack

\* A thread that can run belongs to a process that the scheduler looks at; a
\* process that it looks at has such a thread, or it runs one; and a process
\* that is not alive has no thread that is.
NoThreadLost ==
    \A p \in Slot :
        LET some(s) == \E i \in Pth : pth[p][i].state = s
        IN  /\ some("RUNNABLE") => proc[p].state \in {"RUNNABLE", "RUNNING"}
            /\ proc[p].state = "RUNNABLE" => some("RUNNABLE") \/ some("RUNNING")
            /\ proc[p].state = "RUNNING" => some("RUNNING")
            /\ proc[p].state \in {"UNUSED", "EMBRYO", "ZOMBIE"} =>
                  \A s \in Live : ~some(s)

\* The state is well typed and the two levels of the table agree.
LwpInv == TypeOK /\ NoThreadLost

\* Every thread that can ever run again has a kernel stack of its own, which is
\* not free, and which init_allpth will find in kstacks.
KStacksSound ==
    \A s \in Thread : pth[s[1]][s[2]].state \in Live =>
        LET k == pth[s[1]][s[2]].kstack
        IN  /\ k # None /\ k \notin free /\ kstacks[s[1]][s[2]] = k
            /\ \A t \in Thread \ {s} : pth[t[1]][t[2]].kstack # k

\* Every thread runs on the user stack that ustacks has for it, and no other
\* thread of the process does.
UStacksOwn ==
    panic = None =>
    \A s \in Thread : pth[s[1]][s[2]].state \in Live =>
        /\ pth[s[1]][s[2]].stack = ustacks[s[1]][s[2]]
        /\ \A i \in Pth \ {s[2]} :
              pth[s[1]][i].state \in Live => pth[s[1]][i].stack # pth[s[1]][s[2]].stack

\* proc.c:803: a thread that gets the stack of an earlier one leaves the size
\* of the process as it is, so the next new stack never is where one is mapped.
NeverRemaps == panic # "remap"

\* trap.c:99: a thread that executes in the kernel keeps running until it
\* returns from the system call: nobody dies with a lock.
NoDeadHolder == fslock # None => pth[fslock[1]][fslock[2]].state \in Live

\* A join returns when the thread has exited.
Exited(x) == \A s \in Named(x) : pth[s[1]][s[2]].state \notin Live
JoinReturns ==
    \A t \in Thread :
        Joins(t) /\ Exited(call[t].tid) ~> ~Joins(t) \/ panic # None

\* A wait returns when a child has exited.
Waits(t) == call[t] # None /\ call[t].op = "wait"
ChildIsNoticed ==
    \A t \in Thread :
        Waits(t) /\ (\E q \in Children(t[1]) : proc[q].state = "ZOMBIE")
            ~> ~Waits(t) \/ panic # None

\* A process that is killed exits.
KilledExits ==
    \A p \in Slot : proc[p].killed ~> proc[p].state \in {"ZOMBIE", "UNUSED"} \/ panic # None
=============================================================================
