----------------------------- MODULE MlfqProofs -----------------------------
(***************************************************************************)
(* Proofs about Mlfq for any number of processes, priorities and levels'    *)
(* quanta.  Layout has the fields of the process table and the calls under  *)
(* way; MoqInv says what the monopoly queue counts and in which order, if   *)
(* programs name only processes that live; QuantaInv is about programs      *)
(* that leave the monopoly queue alone; WaitInv is about the clock of       *)
(* MCMlfq.                                                                  *)
(***************************************************************************)
EXTENDS MCMlfq, FiniteSetTheorems, TLAPS

States == {"UNUSED", "EMBRYO", "SLEEPING", "RUNNABLE", "RUNNING", "ZOMBIE"}

Row == [state : States, pid : 0 .. MaxPid, parent : Slot \cup {None},
        chan : Slot \cup {None, Event}, qlev : -1 .. 4, seq : Int, tick : Int, priority : Int]

Alive(r) == r.state \notin {"UNUSED", "ZOMBIE"}

\* What a process that lives has in the fields that schedule.
Sane(r) == Alive(r) => /\ r.qlev \in Level /\ r.seq \in Nat
                       /\ r.tick \in Nat /\ r.priority \in 0 .. 10

Calls == [op : {"fork"}, slot : Slot] \cup [op : {"wait"}]
         \cup [op : {"setpriority"}, slot : Slot, pid : 0 .. MaxPid, priority : Prio]

Forks(p) == call[p] # None /\ call[p].op = "fork"

Table ==
    /\ proc \in [Slot -> Row]
    /\ \A p \in Slot : Sane(proc[p])

Counters ==
    /\ cnt \in [Level -> Nat] /\ \A l \in Level : cnt[l] =< Bound(l)
    /\ nextpid \in Nat /\ active \in BOOLEAN

\* The CPU runs the process that is RUNNING.
OneRuns ==
    /\ cur \in Slot \cup {None}
    /\ \A p \in Slot : Is(p, "RUNNING") <=> cur = p

\* Every fork under way has an embryo of its own.
CallsInv ==
    /\ call \in [Slot -> Calls \cup {None}]
    /\ \A p \in Slot : Forks(p) => Is(call[p].slot, "EMBRYO")
    /\ \A p, q \in Slot : p # q /\ Forks(p) /\ Forks(q) => call[p].slot # call[q].slot

Layout == Table /\ Counters /\ OneRuns /\ CallsInv

\* Positions in the MoQ, also of those that have no life.
OrderInv ==
    /\ \A p \in Slot : proc[p].qlev = MoQ => proc[p].seq < cnt[MoQ]
    /\ \A p, q \in Slot : p # q /\ proc[p].qlev = MoQ /\ proc[q].qlev = MoQ
                              => proc[p].seq # proc[q].seq

\* An embryo is not in the MoQ.
MoqInv ==
    /\ size = Cardinality(InMoq)
    /\ \A p \in Slot : Is(p, "EMBRYO") => proc[p].qlev # MoQ

InQuantum(r) == Alive(r) /\ r.qlev # MoQ => r.tick < Quantum(r.qlev)

QuantaInv == ~active /\ \A p \in Slot : InQuantum(proc[p])

\* What most steps leave a row: its place in the queues, and whether it lives.
Kept(r, s) ==
    /\ s.qlev = r.qlev /\ s.seq = r.seq /\ s.tick = r.tick
    /\ Alive(s) <=> Alive(r)
    /\ s.state = "EMBRYO" => r.state = "EMBRYO"

\* No process enters or leaves the MoQ, or is charged.
Still ==
    /\ size' = size /\ cnt'[MoQ] = cnt[MoQ]
    /\ \A q \in Slot : Kept(proc[q], proc'[q])

-----------------------------------------------------------------------------
(* Records *)

\* A level's quantum is positive.
LEMMA Quanta == \A l \in Level : Quantum(l) \in Nat /\ Quantum(l) > 0
<1>1. Step \in Nat /\ Step > 0 BY MlfqConstants DEF MlfqConstants
<1>2. ASSUME NEW l \in Level PROVE Quantum(l) \in Nat /\ Quantum(l) > 0
  <2>1. l \in Nat BY DEF Level
  <2>2. Step * l \in Nat /\ Step * l >= 0 BY <1>1, <2>1
  <2> QED BY <1>1, <2>2 DEF Quantum
<1> QED BY <1>2

\* Rows of which some fields are set.
WithState(r, s) == [r EXCEPT !.state = s]
WithStatePid(r, s, i) == [r EXCEPT !.state = s, !.pid = i]
WithParent(r, a) == [r EXCEPT !.parent = a]
WithStateParent(r, s, a) == [r EXCEPT !.state = s, !.parent = a]
Reaped(r, s, i, a) == [r EXCEPT !.state = s, !.pid = i, !.parent = a]
WithStateChan(r, s, c) == [r EXCEPT !.state = s, !.chan = c]
WithPriority(r, x) == [r EXCEPT !.priority = x]
WithTick(r, t) == [r EXCEPT !.tick = t]
WithPriorityTick(r, x, t) == [r EXCEPT !.priority = x, !.tick = t]
WithLevelSeq(r, l, u) == [r EXCEPT !.qlev = l, !.seq = u]
WithLevelTick(r, l, t) == [r EXCEPT !.qlev = l, !.tick = t]
WithLevelSeqTick(r, l, u, t) == [r EXCEPT !.qlev = l, !.seq = u, !.tick = t]
WithSchedule(r, s, l, u, t, x) ==
    [r EXCEPT !.state = s, !.qlev = l, !.seq = u, !.tick = t, !.priority = x]
Allocated(r, s, i, l, u, t, x) ==
    [r EXCEPT !.state = s, !.pid = i, !.qlev = l, !.seq = u, !.tick = t, !.priority = x]

\* A row of which some fields are set is a row, and keeps the other fields.
LEMMA WithStateRow ==
    ASSUME NEW r \in Row, NEW s \in States
    PROVE  LET n == WithState(r, s)
           IN  /\ n \in Row /\ n.state = s
               /\ n.qlev = r.qlev /\ n.seq = r.seq /\ n.tick = r.tick
               /\ n.priority = r.priority
BY DEF Row, WithState

\* The state and the pid.
LEMMA WithStatePidRow ==
    ASSUME NEW r \in Row, NEW s \in States, NEW i, i \in 0 .. MaxPid
    PROVE  LET n == WithStatePid(r, s, i)
           IN  /\ n \in Row /\ n.state = s /\ n.pid = i
               /\ n.qlev = r.qlev /\ n.seq = r.seq /\ n.tick = r.tick
               /\ n.priority = r.priority
BY DEF Row, WithStatePid

\* The parent.
LEMMA WithParentRow ==
    ASSUME NEW r \in Row, NEW a \in Slot \cup {None}
    PROVE  LET n == WithParent(r, a)
           IN  /\ n \in Row /\ n.parent = a
               /\ n.state = r.state /\ n.qlev = r.qlev /\ n.seq = r.seq /\ n.tick = r.tick
               /\ n.priority = r.priority
BY DEF Row, WithParent

\* The state and the parent.
LEMMA WithStateParentRow ==
    ASSUME NEW r \in Row, NEW s \in States, NEW a \in Slot \cup {None}
    PROVE  LET n == WithStateParent(r, s, a)
           IN  /\ n \in Row /\ n.state = s /\ n.parent = a
               /\ n.qlev = r.qlev /\ n.seq = r.seq /\ n.tick = r.tick
               /\ n.priority = r.priority
BY DEF Row, WithStateParent

\* What wait clears.
LEMMA ReapedRow ==
    ASSUME NEW r \in Row, NEW s \in States, NEW i, NEW a \in Slot \cup {None},
           i \in 0 .. MaxPid
    PROVE  LET n == Reaped(r, s, i, a)
           IN  /\ n \in Row /\ n.state = s /\ n.pid = i /\ n.parent = a
               /\ n.qlev = r.qlev /\ n.seq = r.seq /\ n.tick = r.tick
               /\ n.priority = r.priority
BY DEF Row, Reaped

\* The state and the channel.
LEMMA WithStateChanRow ==
    ASSUME NEW r \in Row, NEW s \in States, NEW c \in Slot \cup {None, Event}
    PROVE  LET n == WithStateChan(r, s, c)
           IN  /\ n \in Row /\ n.state = s /\ n.chan = c
               /\ n.qlev = r.qlev /\ n.seq = r.seq /\ n.tick = r.tick
               /\ n.priority = r.priority
BY DEF Row, WithStateChan

\* The priority.
LEMMA WithPriorityRow ==
    ASSUME NEW r \in Row, NEW x, x \in Int
    PROVE  LET n == WithPriority(r, x)
           IN  /\ n \in Row /\ n.priority = x
               /\ n.state = r.state /\ n.qlev = r.qlev /\ n.seq = r.seq /\ n.tick = r.tick
BY DEF Row, WithPriority

\* The ticks.
LEMMA WithTickRow ==
    ASSUME NEW r \in Row, NEW t, t \in Int
    PROVE  LET n == WithTick(r, t)
           IN  /\ n \in Row /\ n.tick = t
               /\ n.state = r.state /\ n.qlev = r.qlev /\ n.seq = r.seq /\ n.priority = r.priority
BY DEF Row, WithTick

\* The priority and the ticks.
LEMMA WithPriorityTickRow ==
    ASSUME NEW r \in Row, NEW x, NEW t, x \in Int, t \in Int
    PROVE  LET n == WithPriorityTick(r, x, t)
           IN  /\ n \in Row /\ n.priority = x /\ n.tick = t
               /\ n.state = r.state /\ n.qlev = r.qlev /\ n.seq = r.seq
BY DEF Row, WithPriorityTick

\* The level and the position.
LEMMA WithLevelSeqRow ==
    ASSUME NEW r \in Row, NEW l, NEW u, l \in -1 .. 4, u \in Int
    PROVE  LET n == WithLevelSeq(r, l, u)
           IN  /\ n \in Row /\ n.qlev = l /\ n.seq = u
               /\ n.state = r.state /\ n.tick = r.tick /\ n.priority = r.priority
BY DEF Row, WithLevelSeq

\* The level and the ticks.
LEMMA WithLevelTickRow ==
    ASSUME NEW r \in Row, NEW l, NEW t, l \in -1 .. 4, t \in Int
    PROVE  LET n == WithLevelTick(r, l, t)
           IN  /\ n \in Row /\ n.qlev = l /\ n.tick = t
               /\ n.state = r.state /\ n.seq = r.seq /\ n.priority = r.priority
BY DEF Row, WithLevelTick

\* The level, the position and the ticks.
LEMMA WithLevelSeqTickRow ==
    ASSUME NEW r \in Row, NEW l, NEW u, NEW t, l \in -1 .. 4, u \in Int, t \in Int
    PROVE  LET n == WithLevelSeqTick(r, l, u, t)
           IN  /\ n \in Row /\ n.qlev = l /\ n.seq = u /\ n.tick = t
               /\ n.state = r.state /\ n.priority = r.priority
BY DEF Row, WithLevelSeqTick

\* All that schedules.
LEMMA WithScheduleRow ==
    ASSUME NEW r \in Row, NEW s \in States, NEW l, NEW u, NEW t, NEW x, l \in -1 .. 4,
           u \in Int, t \in Int, x \in Int
    PROVE  LET n == WithSchedule(r, s, l, u, t, x)
           IN  /\ n \in Row /\ n.state = s /\ n.qlev = l /\ n.seq = u
               /\ n.tick = t /\ n.priority = x
BY DEF Row, WithSchedule

\* What allocproc sets.
LEMMA AllocatedRow ==
    ASSUME NEW r \in Row, NEW s \in States, NEW i, NEW l, NEW u, NEW t, NEW x,
           i \in 0 .. MaxPid, l \in -1 .. 4, u \in Int, t \in Int, x \in Int
    PROVE  LET n == Allocated(r, s, i, l, u, t, x)
           IN  /\ n \in Row /\ n.state = s /\ n.pid = i /\ n.qlev = l /\ n.seq = u
               /\ n.tick = t /\ n.priority = x
BY DEF Row, Allocated

\* What a tick charges.
LEMMA ChargedRow ==
    ASSUME NEW r \in Row, Sane(r)
    PROVE  /\ Charged(r) \in Row /\ Sane(Charged(r))
           /\ Charged(r).state = r.state /\ Charged(r).qlev = r.qlev
           /\ Charged(r).seq = r.seq
<1> DEFINE t == Upto(r.tick, Quantum(r.qlev))
<1>1. Quantum(r.qlev) \in Int /\ r.tick \in Int
  <2>1. r.qlev \in Int /\ Step \in Int BY MlfqConstants DEF MlfqConstants, Row
  <2>2. Step * r.qlev \in Int BY <2>1
  <2> QED BY <2>1, <2>2 DEF Quantum, Row
<1>2. t \in Int /\ (Alive(r) => t \in Nat) BY <1>1, Quanta DEF Upto, Sane
<1>3. Charged(r) = IF r.qlev = MoQ THEN r ELSE WithTick(r, t) BY DEF Charged, WithTick
<1> HIDE DEF t
<1>4. CASE r.qlev = MoQ BY <1>3, <1>4
<1>5. CASE r.qlev # MoQ
  <2>1. /\ Charged(r) \in Row /\ Charged(r).tick = t /\ Charged(r).state = r.state
        /\ Charged(r).qlev = r.qlev /\ Charged(r).seq = r.seq
        /\ Charged(r).priority = r.priority
    BY <1>2, <1>3, <1>5, WithTickRow
  <2> QED BY <1>2, <2>1 DEF Sane, Alive
<1> QED BY <1>4, <1>5

\* What a boost lifts.
LEMMA BoostedRow ==
    ASSUME NEW r \in Row, Sane(r)
    PROVE  /\ Boosted(r) \in Row /\ Sane(Boosted(r)) /\ Boosted(r).state = r.state
           /\ Boosted(r).seq = r.seq
           /\ r.qlev = MoQ => Boosted(r) = r
           /\ r.qlev # MoQ => Boosted(r).qlev = L0 /\ Boosted(r).tick = 0
<1>1. CASE r.qlev = MoQ BY <1>1 DEF Boosted
<1>2. CASE r.qlev # MoQ
  <2> DEFINE b == WithLevelTick(r, L0, 0)
  <2>1. Boosted(r) = b BY <1>2 DEF Boosted, WithLevelTick
  <2>2. L0 \in -1 .. 4 /\ L0 \in Level /\ 0 \in Int BY DEF L0, Level
  <2>3. /\ b \in Row /\ b.qlev = L0 /\ b.tick = 0 /\ b.seq = r.seq /\ b.state = r.state
        /\ b.priority = r.priority
    BY <2>2, WithLevelTickRow
  <2> HIDE DEF b
  <2>4. Sane(b) BY <2>2, <2>3 DEF Sane, Alive
  <2> QED BY <1>2, <2>1, <2>3, <2>4
<1> QED BY <1>1, <1>2

\* What the end of a quantum does.
LEMMA DemotedRow ==
    ASSUME NEW r \in Row, Sane(r), Alive(r), r.qlev # MoQ,
           NEW positions, positions \in [Level -> Nat]
    PROVE  LET d == Demoted(r, positions)
           IN  /\ d \in Row /\ Sane(d) /\ d.state = r.state
               /\ d.qlev \in {1, 2, 3} /\ d.tick = 0
<1>1. CASE r.qlev = L3
  <2> DEFINE x == IF r.priority > 0 THEN r.priority - 1 ELSE 0
             d == WithPriorityTick(r, x, 0)
  <2>1. Demoted(r, positions) = d BY <1>1 DEF Demoted, WithPriorityTick
  <2>2. x \in 0 .. 10 /\ x \in Int /\ 0 \in Int BY DEF Sane
  <2> HIDE DEF x
  <2>3. /\ d \in Row /\ d.qlev = r.qlev /\ d.tick = 0 /\ d.seq = r.seq /\ d.state = r.state
        /\ d.priority = x
    BY <2>2, WithPriorityTickRow
  <2> HIDE DEF d
  <2>4. Sane(d) BY <2>2, <2>3 DEF Sane, Alive
  <2> QED BY <1>1, <2>1, <2>3, <2>4 DEF L3
<1>2. CASE r.qlev # L3
  <2> DEFINE l == IF r.qlev # L0 THEN L3 ELSE IF r.pid % 2 # 0 THEN 1 ELSE 2
             u == positions[l]
             d == WithLevelSeqTick(r, l, u, 0)
  <2>1. Demoted(r, positions) = d BY <1>2 DEF Demoted, Lower, WithLevelSeqTick
  <2>2. l \in {1, 2, 3} /\ l \in Level /\ l \in -1 .. 4 BY DEF L3, Level
  <2> HIDE DEF l
  <2>3. u \in Nat /\ u \in Int /\ 0 \in Int BY <2>2
  <2> HIDE DEF u
  <2>4. /\ d \in Row /\ d.qlev = l /\ d.tick = 0 /\ d.seq = u /\ d.state = r.state
        /\ d.priority = r.priority
    BY <2>2, <2>3, WithLevelSeqTickRow
  <2> HIDE DEF d
  <2>5. Sane(d) BY <2>2, <2>3, <2>4 DEF Sane, Alive
  <2> QED BY <2>1, <2>2, <2>4, <2>5
<1> QED BY <1>1, <1>2

\* A process that is woken.
LEMMA WokenRow ==
    ASSUME NEW q \in Slot, proc[q] \in Row, NEW c
    PROVE  LET w == WokenBy(q, c)
           IN  /\ w \in Row /\ Kept(proc[q], w) /\ w.priority = proc[q].priority
               /\ proc[q].state # "SLEEPING" => w = proc[q]
               /\ w.state = "RUNNING" => proc[q].state = "RUNNING"
<1>1. "RUNNABLE" \in States /\ None \in Slot \cup {None, Event} BY DEF States
<1>2. CASE Is(q, "SLEEPING") /\ proc[q].chan = c
  <2> DEFINE w == WithStateChan(proc[q], "RUNNABLE", None)
  <2>1. WokenBy(q, c) = w BY <1>2 DEF WokenBy, WithStateChan
  <2>2. /\ w \in Row /\ w.state = "RUNNABLE" /\ w.qlev = proc[q].qlev /\ w.seq = proc[q].seq
        /\ w.tick = proc[q].tick /\ w.priority = proc[q].priority
    BY <1>1, WithStateChanRow
  <2> HIDE DEF w
  <2> QED BY <1>2, <2>1, <2>2 DEF Kept, Alive, Is
<1>3. CASE ~(Is(q, "SLEEPING") /\ proc[q].chan = c)
  <2>1. WokenBy(q, c) = proc[q] BY <1>3 DEF WokenBy
  <2> QED BY <2>1 DEF Kept
<1> QED BY <1>2, <1>3

-----------------------------------------------------------------------------
(* Steps that leave the queues *)

\* A step that changes one row.
LEMMA OneRow ==
    ASSUME Layout, NEW c \in Slot, NEW r \in Row, Sane(r), proc' = [proc EXCEPT ![c] = r]
    PROVE  /\ Table' /\ proc'[c] = r
           /\ \A q \in Slot : q # c => proc'[q] = proc[q]
<1>1. proc \in [Slot -> Row] BY DEF Layout, Table
<1>2. proc' \in [Slot -> Row] BY <1>1
<1>3. proc'[c] = r /\ \A q \in Slot : q # c => proc'[q] = proc[q] BY <1>1
<1>4. \A q \in Slot : Sane(proc'[q]) BY <1>3 DEF Layout, Table
<1> QED BY <1>2, <1>3, <1>4 DEF Table

\* And leaves its place in the queues.
LEMMA StillRow ==
    ASSUME Layout, NEW c \in Slot, NEW r \in Row, Kept(proc[c], r),
           r.priority = proc[c].priority \/ r.priority \in 0 .. 10,
           proc' = [proc EXCEPT ![c] = r], UNCHANGED <<cnt, size>>
    PROVE  /\ Table' /\ Still /\ proc'[c] = r
           /\ \A q \in Slot : q # c => proc'[q] = proc[q]
<1>1. Sane(r) BY DEF Layout, Table, Sane, Kept
<1>2. /\ Table' /\ proc'[c] = r
      /\ \A q \in Slot : q # c => proc'[q] = proc[q]
  BY <1>1, OneRow
<1>3. \A q \in Slot : Kept(proc[q], proc'[q]) BY <1>2 DEF Kept
<1> QED BY <1>2, <1>3 DEF Still

\* A step that leaves the table.
LEMMA SameTable ==
    ASSUME Layout, UNCHANGED <<proc, cnt, size>>
    PROVE  Table' /\ Still
BY DEF Layout, Table, Still, Kept, Sane, Alive

\* Forks go on with their embryos.
LEMMA CallsStay ==
    ASSUME CallsInv, \A q \in Slot : Is(q, "EMBRYO") => proc'[q].state = "EMBRYO",
           NEW p \in Slot, NEW k \in Calls \cup {None}, k = None \/ k.op # "fork",
           call' = call \/ call' = [call EXCEPT ![p] = k]
    PROVE  CallsInv'
<1>1. call' \in [Slot -> Calls \cup {None}] BY DEF CallsInv
<1>2. \A q \in Slot : Forks(q)' => Forks(q) /\ call'[q] = call[q] BY DEF CallsInv, Forks
<1>3. \A q \in Slot : Forks(q) => call[q].slot \in Slot BY DEF CallsInv, Forks, Calls
<1>4. \A q \in Slot : Forks(q)' => Is(call[q].slot, "EMBRYO")'
  BY <1>2, <1>3 DEF CallsInv, Is
<1> QED BY <1>1, <1>2, <1>4 DEF CallsInv

\* A process that makes a call is the one that is RUNNING, in a row of its own.
LEMMA Running ==
    ASSUME Layout, NEW p \in Slot, Runs(p)
    PROVE  /\ cur = p /\ Is(p, "RUNNING") /\ Alive(proc[p]) /\ proc[p] \in Row /\ Sane(proc[p])
           /\ \A q \in Slot : q # p => ~Is(q, "RUNNING")
BY DEF Layout, Table, OneRuns, Runs, Is, Alive

\* What is written in the table.
LEMMA Words ==
    /\ States = {"UNUSED", "EMBRYO", "SLEEPING", "RUNNABLE", "RUNNING", "ZOMBIE"}
    /\ None \in Calls \cup {None} /\ None \notin Slot
    /\ [op |-> "wait"] \in Calls \cup {None} /\ [op |-> "wait"].op # "fork"
    /\ None \in Slot \cup {None} /\ None \in Slot \cup {None, Event}
    /\ Event \in Slot \cup {None, Event}
    /\ \A q \in Slot : q \in Slot \cup {None} /\ q \in Slot \cup {None, Event}
    /\ 0 \in 0 .. MaxPid
<1>1. MaxPid \in Nat BY MlfqConstants DEF MlfqConstants
<1>2. None \notin Slot BY MlfqConstants DEF MlfqConstants
<1> QED BY <1>1, <1>2 DEF States, Calls

\* The scheduler runs a process.
LEMMA DispatchStep ==
    ASSUME Layout, NEW p \in Slot, Dispatch(p)
    PROVE  Layout' /\ Still
<1> DEFINE r == WithState(proc[p], "RUNNING")
<1>1. cur = None /\ cur' = p /\ Is(p, "RUNNABLE") BY DEF Dispatch, Eligible, Ready
<1>2. proc' = [proc EXCEPT ![p] = r] BY DEF Dispatch, WithState
<1>3. proc[p] \in Row BY DEF Layout, Table
<1>4. /\ r \in Row /\ r.state = "RUNNING" /\ r.qlev = proc[p].qlev /\ r.seq = proc[p].seq
      /\ r.tick = proc[p].tick /\ r.priority = proc[p].priority
  BY <1>3, Words, WithStateRow
<1> HIDE DEF r
<1>5. Kept(proc[p], r) BY <1>1, <1>4 DEF Kept, Alive, Is
<1>6. /\ Table' /\ Still /\ proc'[p] = r
      /\ \A q \in Slot : q # p => proc'[q] = proc[q]
  BY <1>2, <1>4, <1>5, StillRow DEF Dispatch
<1>7. Counters' BY DEF Layout, Counters, Dispatch
<1>8. OneRuns' BY <1>1, <1>4, <1>6, Words DEF Layout, OneRuns, Is
<1>9. CallsInv'
  <2>1. \A q \in Slot : Is(q, "EMBRYO") => proc'[q].state = "EMBRYO" BY <1>1, <1>6 DEF Is
  <2> QED BY <2>1, Words, CallsStay DEF Layout, Dispatch
<1> QED BY <1>6, <1>7, <1>8, <1>9 DEF Layout

\* A process gives up the CPU: it sleeps, or waits for its turn.
LEMMA GiveUp ==
    ASSUME Layout, NEW p \in Slot, Runs(p), NEW r \in Row, r.state \in {"RUNNABLE", "SLEEPING"},
           r.qlev = proc[p].qlev, r.seq = proc[p].seq, r.tick = proc[p].tick,
           r.priority = proc[p].priority,
           proc' = [proc EXCEPT ![p] = r], cur' = None,
           NEW k \in Calls \cup {None}, k = None \/ k.op # "fork",
           call' = call \/ call' = [call EXCEPT ![p] = k],
           UNCHANGED <<cnt, active, size, nextpid>>
    PROVE  Layout' /\ Still
<1>1. Kept(proc[p], r) BY Running DEF Kept, Alive
<1>2. /\ Table' /\ Still /\ proc'[p] = r
      /\ \A q \in Slot : q # p => proc'[q] = proc[q]
  BY <1>1, StillRow
<1>3. Counters' BY DEF Layout, Counters
<1>4. OneRuns' BY <1>2, Running, Words DEF OneRuns, Is
<1>5. \A q \in Slot : Is(q, "EMBRYO") => proc'[q].state = "EMBRYO" BY <1>2, Running DEF Is
<1>6. CallsInv' BY <1>5, CallsStay DEF Layout
<1> QED BY <1>2, <1>3, <1>4, <1>6 DEF Layout

\* A process gives up the CPU for a turn.
LEMMA YieldStep ==
    ASSUME Layout, NEW p \in Slot, Yield(p)
    PROVE  Layout' /\ Still
<1> DEFINE r == WithState(proc[p], "RUNNABLE")
<1>1. Runs(p) BY DEF Yield, InUser
<1>2. proc' = [proc EXCEPT ![p] = r] BY DEF Yield, WithState
<1>3. /\ r \in Row /\ r.state = "RUNNABLE" /\ r.qlev = proc[p].qlev /\ r.seq = proc[p].seq
      /\ r.tick = proc[p].tick /\ r.priority = proc[p].priority
  BY <1>1, Running, Words, WithStateRow
<1> HIDE DEF r
<1>4. cur' = None /\ UNCHANGED <<cnt, active, size, nextpid, call>> BY DEF Yield
<1> QED BY <1>1, <1>2, <1>3, <1>4, Words, GiveUp

\* A process sleeps.
LEMMA SleepStep ==
    ASSUME Layout, NEW p \in Slot, Sleep(p)
    PROVE  Layout' /\ Still
<1> DEFINE r == WithStateChan(proc[p], "SLEEPING", Event)
<1>1. Runs(p) BY DEF Sleep, InUser
<1>2. proc' = [proc EXCEPT ![p] = r] BY DEF Sleep, WithStateChan, Layout, Table
<1>3. /\ r \in Row /\ r.state = "SLEEPING" /\ r.qlev = proc[p].qlev /\ r.seq = proc[p].seq
      /\ r.tick = proc[p].tick /\ r.priority = proc[p].priority
  <2>1. proc[p] \in Row BY <1>1, Running
  <2>2. "SLEEPING" \in States /\ Event \in Slot \cup {None, Event} BY DEF States
  <2> QED BY <2>1, <2>2, WithStateChanRow
<1> HIDE DEF r
<1>4. cur' = None /\ UNCHANGED <<cnt, active, size, nextpid, call>> BY DEF Sleep
<1> QED BY <1>1, <1>2, <1>3, <1>4, Words, GiveUp

\* A step that changes neither who runs nor what is called.
LEMMA Bystander ==
    ASSUME Layout, NEW c \in Slot, NEW r \in Row, Kept(proc[c], r),
           r.priority = proc[c].priority \/ r.priority \in 0 .. 10,
           r.state = "RUNNING" <=> Is(c, "RUNNING"),
           Is(c, "EMBRYO") => r.state = "EMBRYO",
           proc' = [proc EXCEPT ![c] = r], UNCHANGED <<cnt, size, active, nextpid, cur>>,
           NEW p \in Slot, NEW k \in Calls \cup {None}, k = None \/ k.op # "fork",
           call' = call \/ call' = [call EXCEPT ![p] = k]
    PROVE  Layout' /\ Still
<1>1. /\ Table' /\ Still /\ proc'[c] = r
      /\ \A q \in Slot : q # c => proc'[q] = proc[q]
  BY StillRow
<1>2. Counters' BY DEF Layout, Counters
<1>3. OneRuns' BY <1>1 DEF Layout, OneRuns, Is
<1>4. \A q \in Slot : Is(q, "EMBRYO") => proc'[q].state = "EMBRYO" BY <1>1 DEF Is
<1>5. CallsInv' BY <1>4, CallsStay DEF Layout
<1> QED BY <1>1, <1>2, <1>3, <1>5 DEF Layout

\* A process that sleeps is woken.
LEMMA WakeStep ==
    ASSUME Layout, NEW q \in Slot, Wake(q)
    PROVE  Layout' /\ Still
<1> DEFINE r == WokenBy(q, Event)
<1>1. proc' = [proc EXCEPT ![q] = r] /\ Is(q, "SLEEPING")
      /\ UNCHANGED <<cnt, size, active, nextpid, cur, call>>
  BY DEF Wake
<1>2. proc[q] \in Row BY DEF Layout, Table
<1>3. /\ r \in Row /\ Kept(proc[q], r) /\ r.priority = proc[q].priority
      /\ r.state = "RUNNING" => proc[q].state = "RUNNING"
  BY <1>2, WokenRow
<1> HIDE DEF r
<1>4. r.state = "RUNNING" <=> Is(q, "RUNNING") BY <1>1, <1>3 DEF Is
<1>5. Is(q, "EMBRYO") => r.state = "EMBRYO" BY <1>1 DEF Is
<1> QED BY <1>1, <1>3, <1>4, <1>5, Words, Bystander

\* The priority may go to a slot that has another process by now.
LEMMA PriorityWrittenStep ==
    ASSUME Layout, NEW p \in Slot, NEW x \in Prio, PriorityWritten(p, x)
    PROVE  Layout' /\ Still
<1> DEFINE c == call[p].slot
           r == WithPriority(proc[c], x)
<1>1. /\ call[p] # None /\ call[p].op = "setpriority" /\ call' = [call EXCEPT ![p] = None]
      /\ UNCHANGED <<cnt, size, active, nextpid, cur>>
  BY DEF PriorityWritten, InCall
<1>2. c \in Slot BY <1>1 DEF Layout, CallsInv, Calls
<1>3. proc' = [proc EXCEPT ![c] = r] BY DEF PriorityWritten, WithPriority
<1> HIDE DEF c
<1>4. x \in 0 .. 10 /\ x \in Int BY MlfqConstants DEF MlfqConstants
<1>5. proc[c] \in Row BY <1>2 DEF Layout, Table
<1>6. /\ r \in Row /\ r.state = proc[c].state /\ r.qlev = proc[c].qlev
      /\ r.seq = proc[c].seq /\ r.tick = proc[c].tick /\ r.priority = x
  BY <1>4, <1>5, WithPriorityRow
<1> HIDE DEF r
<1>7. Kept(proc[c], r) BY <1>6 DEF Kept, Alive
<1>8. /\ r.state = "RUNNING" <=> Is(c, "RUNNING")
      /\ Is(c, "EMBRYO") => r.state = "EMBRYO"
  BY <1>6 DEF Is
<1> QED BY <1>1, <1>2, <1>3, <1>4, <1>6, <1>7, <1>8, Words, Bystander

\* A step that leaves the table and the CPU.
LEMMA Aside ==
    ASSUME Layout, UNCHANGED <<proc, cnt, size, nextpid, cur>>, active' \in BOOLEAN,
           NEW p \in Slot, NEW k \in Calls \cup {None}, k = None \/ k.op # "fork",
           call' = call \/ call' = [call EXCEPT ![p] = k]
    PROVE  Layout' /\ Still
<1>1. Table' /\ Still BY SameTable
<1>2. Counters' BY DEF Layout, Counters
<1>3. OneRuns' BY DEF Layout, OneRuns, Is
<1>4. \A q \in Slot : Is(q, "EMBRYO") => proc'[q].state = "EMBRYO" BY DEF Is
<1>5. CallsInv' BY <1>4, CallsStay DEF Layout
<1> QED BY <1>1, <1>2, <1>3, <1>5 DEF Layout

\* What setpriority remembers.
LEMMA SetPriorityStep ==
    ASSUME Layout, NEW p \in Slot, NEW q \in Slot, NEW x \in Prio, SetPriority(p, q, x)
    PROVE  Layout' /\ Still
<1> DEFINE k == [op |-> "setpriority", slot |-> q, pid |-> proc[q].pid, priority |-> x]
<1>1. proc[q].pid \in 0 .. MaxPid BY DEF Layout, Table, Row
<1>2. k \in Calls \cup {None} /\ k.op # "fork" BY <1>1 DEF Calls
<1>3. call' = [call EXCEPT ![p] = k] /\ UNCHANGED <<proc, cnt, size, nextpid, cur, active>>
  BY DEF SetPriority
<1> HIDE DEF k
<1>4. active' \in BOOLEAN BY <1>3 DEF Layout, Counters
<1> QED BY <1>2, <1>3, <1>4, Aside

\* monopolize, unmonopolize, the end of a monopoly, and the panic.
LEMMA SwitchStep ==
    ASSUME Layout,
           LeaveMonopoly \/ AcquirePanics \/ \E p \in Slot : Monopolize(p) \/ Unmonopolize(p)
    PROVE  Layout' /\ Still
<1>1. UNCHANGED <<proc, cnt, size, nextpid, cur, call>> /\ active' \in {active, TRUE, FALSE}
  BY DEF LeaveMonopoly, AcquirePanics, Monopolize, Unmonopolize
<1>2. active' \in BOOLEAN BY <1>1 DEF Layout, Counters
<1>3. PICK p \in Slot : TRUE BY MlfqConstants DEF MlfqConstants, Slot
<1> QED BY <1>1, <1>2, <1>3, Words, Aside

-----------------------------------------------------------------------------
(* fork, wait and exit *)

\* A wait that reaps, or that sleeps.
LEMMA WaitStep ==
    ASSUME Layout, NEW p \in Slot, Wait(p)
    PROVE  Layout' /\ Still
<1>1. Runs(p) /\ UNCHANGED <<cnt, active, size, nextpid>>
  BY DEF Wait, InUser, InCall
<1>2. CASE \E q \in Slot : /\ Is(q, "ZOMBIE")
                           /\ proc' = [proc EXCEPT ![q].state = "UNUSED", ![q].pid = 0,
                                                   ![q].parent = None]
                           /\ call' = [call EXCEPT ![p] = None] /\ cur' = cur
  <2>1. PICK q \in Slot : /\ Is(q, "ZOMBIE")
                          /\ proc' = [proc EXCEPT ![q].state = "UNUSED", ![q].pid = 0,
                                                  ![q].parent = None]
                          /\ call' = [call EXCEPT ![p] = None] /\ cur' = cur
    BY <1>2
  <2> DEFINE r == Reaped(proc[q], "UNUSED", 0, None)
  <2>2. proc[q] \in Row BY DEF Layout, Table
  <2>3. proc' = [proc EXCEPT ![q] = r]
    <3>1. proc \in [Slot -> Row] BY DEF Layout, Table
    <3> QED BY <2>1, <2>2, <3>1 DEF Reaped, Row
  <2>4. /\ r \in Row /\ r.state = "UNUSED" /\ r.qlev = proc[q].qlev /\ r.seq = proc[q].seq
        /\ r.tick = proc[q].tick /\ r.priority = proc[q].priority
    <3>1. "UNUSED" \in States /\ 0 \in 0 .. MaxPid /\ None \in Slot \cup {None} BY Words
    <3> QED BY <2>2, <3>1, ReapedRow
  <2> HIDE DEF r
  <2>5. Kept(proc[q], r) BY <2>1, <2>4 DEF Kept, Alive, Is
  <2>6. (r.state = "RUNNING" <=> Is(q, "RUNNING")) /\ ~Is(q, "EMBRYO") BY <2>1, <2>4 DEF Is
  <2> QED BY <1>1, <2>1, <2>3, <2>4, <2>5, <2>6, Words, Bystander
<1>3. CASE /\ proc' = [proc EXCEPT ![p].state = "SLEEPING", ![p].chan = p]
           /\ call' = [call EXCEPT ![p] = [op |-> "wait"]] /\ cur' = None
  <2> DEFINE r == WithStateChan(proc[p], "SLEEPING", p)
  <2>1. proc[p] \in Row BY DEF Layout, Table
  <2>2. "SLEEPING" \in States /\ p \in Slot \cup {None, Event} BY DEF States
  <2>3. proc' = [proc EXCEPT ![p] = r]
    <3>1. proc \in [Slot -> Row] BY DEF Layout, Table
    <3> QED BY <1>3, <2>1, <3>1 DEF WithStateChan, Row
  <2>4. /\ r \in Row /\ r.state = "SLEEPING" /\ r.qlev = proc[p].qlev /\ r.seq = proc[p].seq
        /\ r.tick = proc[p].tick /\ r.priority = proc[p].priority
    BY <2>1, <2>2, WithStateChanRow
  <2> HIDE DEF r
  <2> QED BY <1>1, <1>3, <2>3, <2>4, Words, GiveUp
<1> QED BY <1>2, <1>3 DEF Wait, Children

\* A new slot comes to the end of L0.
LEMMA ForkStep ==
    ASSUME Layout, NEW p \in Slot, Fork(p)
    PROVE  /\ Layout' /\ size' = size /\ cnt'[MoQ] = cnt[MoQ]
           /\ \E c \in Slot :
                 /\ Is(c, "UNUSED") /\ Is(c, "EMBRYO")'
                 /\ proc'[c].qlev = L0 /\ proc'[c].tick = 0
                 /\ \A q \in Slot : q # c => proc'[q] = proc[q]
<1>1. PICK c \in Slot :
          /\ Is(c, "UNUSED")
          /\ proc' = [proc EXCEPT ![c] = [@ EXCEPT !.state = "EMBRYO",
                         !.pid = nextpid, !.qlev = L0, !.seq = cnt[L0],
                         !.tick = 0, !.priority = 0]]
          /\ call' = [call EXCEPT ![p] = [op |-> "fork", slot |-> c]]
  BY DEF Fork
<1>2. /\ call[p] = None /\ nextpid =< MaxPid /\ cnt[L0] < Bound(L0)
      /\ cnt' = [cnt EXCEPT ![L0] = @ + 1] /\ nextpid' = nextpid + 1
      /\ UNCHANGED <<active, size, cur>>
  BY DEF Fork, InUser
<1> DEFINE r == Allocated(proc[c], "EMBRYO", nextpid, L0, cnt[L0], 0, 0)
<1>3. proc' = [proc EXCEPT ![c] = r] BY <1>1 DEF Allocated
<1>4. proc[c] \in Row BY DEF Layout, Table
<1>5. /\ "EMBRYO" \in States /\ nextpid \in 0 .. MaxPid /\ L0 \in -1 .. 4 /\ L0 \in Level
      /\ cnt[L0] \in Nat /\ cnt[L0] \in Int /\ 0 \in Int
  <2>1. L0 \in Level /\ L0 \in -1 .. 4 BY DEF L0, Level
  <2>2. MaxPid \in Nat BY MlfqConstants DEF MlfqConstants
  <2> QED BY <1>2, <2>1, <2>2 DEF Layout, Counters, States
<1>6. /\ r \in Row /\ r.state = "EMBRYO" /\ r.qlev = L0 /\ r.seq = cnt[L0] /\ r.tick = 0
      /\ r.priority = 0
  BY <1>4, <1>5, AllocatedRow
<1> HIDE DEF r
<1>7. Sane(r) BY <1>5, <1>6 DEF Sane
<1>8. /\ Table' /\ proc'[c] = r
      /\ \A q \in Slot : q # c => proc'[q] = proc[q]
  BY <1>3, <1>6, <1>7, OneRow
<1>9. cnt'[MoQ] = cnt[MoQ] /\ Counters'
  <2>1. cnt \in [Level -> Nat] BY DEF Layout, Counters
  <2>2. \A l \in Level : cnt'[l] = IF l = L0 THEN cnt[L0] + 1 ELSE cnt[l] BY <1>2, <2>1
  <2>3. cnt' \in [Level -> Nat] BY <1>2, <1>5, <2>1
  <2>4. Bound(L0) \in Int
    <3>1. MaxPid \in Nat /\ NProc \in Nat /\ MaxBoost \in Nat BY MlfqConstants DEF MlfqConstants
    <3>2. NProc * MaxBoost \in Nat BY <3>1
    <3> QED BY <3>1, <3>2 DEF Bound
  <2>5. cnt'[L0] =< Bound(L0) BY <1>2, <1>5, <2>2, <2>4
  <2>6. \A l \in Level : cnt'[l] =< Bound(l) BY <2>2, <2>5 DEF Layout, Counters
  <2>7. MoQ \in Level /\ MoQ # L0 BY DEF MoQ, Level, L0
  <2> QED BY <1>2, <2>2, <2>3, <2>6, <2>7 DEF Layout, Counters
<1>10. OneRuns' BY <1>1, <1>2, <1>6, <1>8 DEF Layout, OneRuns, Is
<1>11. CallsInv'
  <2> DEFINE k == [op |-> "fork", slot |-> c]
  <2>1. k \in Calls /\ k.op = "fork" /\ k.slot = c BY DEF Calls
  <2>2. call \in [Slot -> Calls \cup {None}] BY DEF Layout, CallsInv
  <2>3. call' = [call EXCEPT ![p] = k] BY <1>1
  <2> HIDE DEF k
  <2>4. /\ call' \in [Slot -> Calls \cup {None}] /\ call'[p] = k
        /\ \A q \in Slot : q # p => call'[q] = call[q]
    BY <2>1, <2>2, <2>3
  <2>5. \A q \in Slot : Forks(q)' /\ q # p
                        => /\ Forks(q) /\ Is(call[q].slot, "EMBRYO") /\ call[q].slot \in Slot
                           /\ call'[q] = call[q]
    BY <2>4 DEF Layout, CallsInv, Forks, Calls
  <2>6. \A q \in Slot : Forks(q)' /\ q # p => call[q].slot # c BY <1>1, <2>5 DEF Is
  <2>7. \A q \in Slot : Forks(q)' => Is(call[q].slot, "EMBRYO")'
    BY <1>6, <1>8, <2>1, <2>4, <2>5, <2>6 DEF Is
  <2>8. \A q, s \in Slot : q # s /\ Forks(q)' /\ Forks(s)' => call'[q].slot # call'[s].slot
    BY <2>1, <2>4, <2>5, <2>6 DEF Layout, CallsInv
  <2> QED BY <2>4, <2>7, <2>8 DEF CallsInv
<1> QED BY <1>1, <1>2, <1>6, <1>8, <1>9, <1>10, <1>11 DEF Layout, Is

\* Its fork returns, with a child or without.
LEMMA ForkReturnsStep ==
    ASSUME Layout, NEW p \in Slot, ForkReturns(p)
    PROVE  /\ Layout' /\ size' = size /\ cnt'[MoQ] = cnt[MoQ]
           /\ \E c \in Slot :
                 /\ Is(c, "EMBRYO") /\ proc'[c].state \in {"RUNNABLE", "UNUSED"}
                 /\ proc'[c].qlev = proc[c].qlev /\ proc'[c].seq = proc[c].seq
                 /\ proc'[c].tick = proc[c].tick
                 /\ \A q \in Slot : q # c => proc'[q] = proc[q]
<1> DEFINE c == call[p].slot
<1>1. /\ Forks(p) /\ call' = [call EXCEPT ![p] = None]
      /\ UNCHANGED <<cnt, active, size, nextpid, cur>>
  BY DEF ForkReturns, InCall, Forks
<1>2. c \in Slot /\ Is(c, "EMBRYO") BY <1>1 DEF Layout, CallsInv, Forks, Calls
<1>3. \A q \in Slot : q # p /\ Forks(q) => call[q].slot # c
  BY <1>1 DEF Layout, CallsInv
<1>4. \/ proc' = [proc EXCEPT ![c].state = "RUNNABLE", ![c].parent = p]
      \/ proc' = [proc EXCEPT ![c].state = "UNUSED"]
  BY DEF ForkReturns
<1> DEFINE a == WithStateParent(proc[c], "RUNNABLE", p)
           b == WithState(proc[c], "UNUSED")
<1> HIDE DEF c
<1>5. proc \in [Slot -> Row] /\ proc[c] \in Row BY <1>2 DEF Layout, Table
<1>6. proc' = [proc EXCEPT ![c] = a] \/ proc' = [proc EXCEPT ![c] = b]
  BY <1>2, <1>4, <1>5 DEF WithStateParent, WithState, Row
<1>7. /\ a \in Row /\ a.state = "RUNNABLE" /\ a.qlev = proc[c].qlev /\ a.seq = proc[c].seq
      /\ a.tick = proc[c].tick /\ a.priority = proc[c].priority
  <2>1. "RUNNABLE" \in States /\ p \in Slot \cup {None} BY DEF States
  <2> QED BY <1>5, <2>1, WithStateParentRow
<1>8. /\ b \in Row /\ b.state = "UNUSED" /\ b.qlev = proc[c].qlev /\ b.seq = proc[c].seq
      /\ b.tick = proc[c].tick /\ b.priority = proc[c].priority
  BY <1>5, Words, WithStateRow
<1> HIDE DEF a, b
<1>9. PICK r \in {a, b} : proc' = [proc EXCEPT ![c] = r] BY <1>6
<1>10. /\ r \in Row /\ r.state \in {"RUNNABLE", "UNUSED"} /\ r.qlev = proc[c].qlev
       /\ r.seq = proc[c].seq /\ r.tick = proc[c].tick /\ r.priority = proc[c].priority
  BY <1>7, <1>8
<1>11. Sane(r) BY <1>2, <1>10 DEF Layout, Table, Sane, Alive, Is
<1>12. /\ Table' /\ proc'[c] = r
       /\ \A q \in Slot : q # c => proc'[q] = proc[q]
  BY <1>2, <1>9, <1>10, <1>11, OneRow
<1>13. Counters' BY <1>1 DEF Layout, Counters
<1>14. OneRuns' BY <1>1, <1>2, <1>10, <1>12 DEF Layout, OneRuns, Is
<1>15. CallsInv'
  <2>1. call \in [Slot -> Calls \cup {None}] BY DEF Layout, CallsInv
  <2>2. /\ call' \in [Slot -> Calls \cup {None}] /\ ~Forks(p)'
        /\ \A q \in Slot : q # p => call'[q] = call[q]
    BY <1>1, <2>1 DEF Forks
  <2>3. \A q \in Slot : Forks(q)' => /\ q # p /\ Forks(q) /\ call'[q] = call[q]
                                     /\ call[q].slot \in Slot /\ call[q].slot # c
    BY <1>3, <2>1, <2>2 DEF Forks, Calls
  <2> QED BY <1>12, <2>2, <2>3 DEF Layout, CallsInv, Is
<1> QED BY <1>1, <1>2, <1>10, <1>12, <1>13, <1>14, <1>15 DEF Layout

\* The process leaves the scheduler; its relatives may wake.
LEMMA ExitStep ==
    ASSUME Layout, NEW p \in Slot, Exit(p)
    PROVE  /\ Layout' /\ size' = LeftMoq(p) /\ cnt' = cnt
           /\ Is(p, "RUNNING") /\ proc'[p].state = "ZOMBIE" /\ proc'[p].qlev = -1
           /\ \A q \in Slot : q # p => Kept(proc[q], proc'[q])
<1>1. /\ Runs(p) /\ call[p] = None /\ size' = LeftMoq(p) /\ cur' = None
      /\ UNCHANGED <<cnt, active, nextpid, call>>
  BY DEF Exit, InUser
<1> DEFINE x == WithSchedule(proc[p], "ZOMBIE", -1, -1, -1, -1)
           w(q) == IF q \in Roused(p) THEN WokenBy(q, q) ELSE proc[q]
           y(q) == IF q \in Children(p) THEN WithParent(w(q), InitProc) ELSE w(q)
<1>2. proc' = [q \in Slot |-> IF q = p THEN x ELSE y(q)]
  BY DEF Exit, WithSchedule, WithParent
<1>3. /\ x \in Row /\ x.state = "ZOMBIE" /\ x.qlev = -1
  <2>1. proc[p] \in Row BY <1>1, Running
  <2>2. "ZOMBIE" \in States /\ -1 \in -1 .. 4 /\ -1 \in Int BY DEF States
  <2> QED BY <2>1, <2>2, WithScheduleRow
<1>4. ASSUME NEW q \in Slot
      PROVE  /\ w(q) \in Row /\ Kept(proc[q], w(q)) /\ w(q).priority = proc[q].priority
             /\ Is(q, "EMBRYO") => w(q).state = "EMBRYO"
             /\ w(q).state = "RUNNING" => Is(q, "RUNNING")
  <2>1. proc[q] \in Row BY DEF Layout, Table
  <2>2. CASE q \in Roused(p) BY <2>1, <2>2, WokenRow DEF Is
  <2>3. CASE q \notin Roused(p) BY <2>1, <2>3 DEF Kept, Is
  <2> QED BY <2>2, <2>3
<1> HIDE DEF x, w
<1>5. ASSUME NEW q \in Slot
      PROVE  /\ y(q) \in Row /\ Kept(proc[q], y(q)) /\ y(q).priority = proc[q].priority
             /\ Is(q, "EMBRYO") => y(q).state = "EMBRYO"
             /\ y(q).state = "RUNNING" => Is(q, "RUNNING")
  <2>1. InitProc \in Slot \cup {None} BY MlfqConstants DEF MlfqConstants, InitProc, Slot
  <2> DEFINE v == WithParent(w(q), InitProc)
  <2>2. /\ v \in Row /\ v.state = w(q).state /\ v.qlev = w(q).qlev /\ v.seq = w(q).seq
        /\ v.tick = w(q).tick /\ v.priority = w(q).priority
    BY <1>4, <2>1, WithParentRow
  <2>3. y(q) = IF q \in Children(p) THEN v ELSE w(q) OBVIOUS
  <2> HIDE DEF v, y
  <2> QED BY <1>4, <2>2, <2>3 DEF Kept, Alive
<1> HIDE DEF y
<1>6. proc'[p] = x /\ \A q \in Slot : q # p => proc'[q] = y(q) BY <1>2
<1>7. Table'
  <2>1. proc' \in [Slot -> Row] BY <1>2, <1>3, <1>5
  <2>2. Sane(x) BY <1>3 DEF Sane, Alive
  <2>3. \A q \in Slot : Sane(y(q)) BY <1>5 DEF Layout, Table, Sane, Kept
  <2> QED BY <1>6, <2>1, <2>2, <2>3 DEF Table
<1>8. Counters' BY <1>1 DEF Layout, Counters
<1>9. Is(p, "RUNNING") /\ \A q \in Slot : q # p => ~Is(q, "RUNNING") BY <1>1, Running
<1>10. OneRuns' BY <1>1, <1>3, <1>5, <1>6, <1>9, Words DEF OneRuns, Is
<1>11. CallsInv'
  <2>1. \A q \in Slot : Is(q, "EMBRYO") => proc'[q].state = "EMBRYO"
    BY <1>5, <1>6, <1>9 DEF Is
  <2> QED BY <1>1, <2>1, Words, CallsStay DEF Layout
<1> QED BY <1>1, <1>3, <1>5, <1>6, <1>7, <1>8, <1>9, <1>10, <1>11 DEF Layout

-----------------------------------------------------------------------------
(* The timer *)

\* The table after the tick is charged, and after a boost.
Used(p) == [proc EXCEPT ![p] = Charged(@)]
AllBoosted(t) == [q \in Slot |-> Boosted(t[q])]

\* A tick, with or without a boost, before the quantum is looked at.
LEMMA TickTable ==
    ASSUME Layout, NEW p \in Slot, NEW boost \in BOOLEAN, NEW table,
           table = IF boost THEN AllBoosted(Used(p)) ELSE Used(p)
    PROVE  /\ table \in [Slot -> Row]
           /\ \A q \in Slot :
                 /\ Sane(table[q]) /\ table[q].state = proc[q].state
                 /\ table[q].qlev = MoQ <=> proc[q].qlev = MoQ
                 /\ table[q].seq = proc[q].seq
                 /\ q # p /\ InQuantum(proc[q]) => InQuantum(table[q])
<1> DEFINE used == Used(p)
<1>1. proc \in [Slot -> Row] /\ \A q \in Slot : Sane(proc[q]) BY DEF Layout, Table
<1>2. ASSUME NEW q \in Slot
      PROVE  /\ used[q] \in Row /\ Sane(used[q]) /\ used[q].state = proc[q].state
             /\ used[q].qlev = proc[q].qlev /\ used[q].seq = proc[q].seq
             /\ q # p => used[q] = proc[q]
  <2>1. used[q] = IF q = p THEN Charged(proc[q]) ELSE proc[q] BY <1>1 DEF Used
  <2> QED BY <1>1, <2>1, ChargedRow
<1>3. used \in [Slot -> Row] BY <1>1, <1>2 DEF Used
<1> HIDE DEF used
<1>4. CASE ~boost
  <2>1. table = used BY <1>4 DEF used
  <2> QED BY <1>2, <1>3, <2>1
<1>5. CASE boost
  <2>1. table = [q \in Slot |-> Boosted(used[q])] BY <1>5 DEF AllBoosted, used
  <2>2. \A q \in Slot : table[q] = Boosted(used[q]) BY <2>1
  <2>3. ASSUME NEW q \in Slot
        PROVE  /\ table[q] \in Row /\ Sane(table[q]) /\ table[q].state = used[q].state
               /\ table[q].seq = used[q].seq
               /\ used[q].qlev = MoQ => table[q] = used[q]
               /\ used[q].qlev # MoQ => table[q].qlev = L0 /\ table[q].tick = 0
    BY <1>2, <2>2, BoostedRow
  <2>4. Quantum(L0) > 0 /\ L0 # MoQ BY Quanta DEF L0, MoQ, Level
  <2>5. ASSUME NEW q \in Slot PROVE InQuantum(table[q])
    <3>1. CASE used[q].qlev = MoQ BY <2>3, <3>1 DEF InQuantum
    <3>2. CASE used[q].qlev # MoQ BY <2>3, <2>4, <3>2 DEF InQuantum
    <3> QED BY <3>1, <3>2
  <2>6. table \in [Slot -> Row] BY <2>1, <2>2, <2>3
  <2>7. \A q \in Slot : table[q].qlev = MoQ <=> proc[q].qlev = MoQ BY <1>2, <2>3, <2>4
  <2> QED BY <1>2, <2>3, <2>5, <2>6, <2>7
<1> QED BY <1>4, <1>5

\* The timer changes who runs, the levels outside the MoQ, and what is used
\* of the quanta.
LEMMA TickStep ==
    ASSUME Layout, NEW p \in Slot, Tick(p)
    PROVE  /\ Layout' /\ size' = size /\ cnt'[MoQ] = cnt[MoQ]
           /\ \A q \in Slot :
                 /\ proc'[q].qlev = MoQ <=> proc[q].qlev = MoQ
                 /\ proc[q].qlev = MoQ => proc'[q].seq = proc[q].seq
                 /\ Alive(proc'[q]) <=> Alive(proc[q])
                 /\ proc'[q].state = "EMBRYO" <=> proc[q].state = "EMBRYO"
                 /\ ~active /\ InQuantum(proc[q]) => InQuantum(proc'[q])
<1> DEFINE boost == ~active /\ gtick + 1 >= BoostTicks
           used == [proc EXCEPT ![p] = Charged(@)]
           table == IF boost THEN [q \in Slot |-> Boosted(used[q])] ELSE used
           lifted == Cardinality({q \in Slot : proc[q].qlev # MoQ})
           counts == IF boost THEN [cnt EXCEPT ![L0] = @ + lifted] ELSE cnt
           r == table[p]
           expired == ~active /\ r.qlev # MoQ /\ r.tick >= Quantum(r.qlev)
           next == Demoted(r, counts)
           out == WithState(next, "RUNNABLE")
<1>1. /\ Runs(p) /\ UNCHANGED <<active, size, nextpid, call>>
      /\ \A l \in Level : cnt'[l] =< Bound(l)
  BY DEF Tick
<1>2. IF expired
        THEN /\ proc' = [table EXCEPT ![p] = out] /\ cur' = None
             /\ cnt' = IF r.qlev = L3 THEN counts ELSE [counts EXCEPT ![next.qlev] = @ + 1]
        ELSE proc' = table /\ cnt' = counts /\ cur' = cur
  BY DEF Tick, WithState
<1>3. boost \in BOOLEAN /\ table = IF boost THEN AllBoosted(Used(p)) ELSE Used(p)
  BY DEF Used, AllBoosted
<1> HIDE DEF boost, used
<1>4. counts \in [Level -> Nat] /\ counts[MoQ] = cnt[MoQ]
  <2>1. lifted \in Nat
    <3>1. IsFiniteSet(Slot) BY FS_Interval, MlfqConstants DEF MlfqConstants, Slot
    <3> QED BY <3>1, FS_Subset, FS_CardinalityType
  <2>2. cnt \in [Level -> Nat] /\ L0 \in Level /\ MoQ \in Level /\ MoQ # L0
    BY DEF Layout, Counters, L0, MoQ, Level
  <2> HIDE DEF lifted
  <2> QED BY <2>1, <2>2
<1> HIDE DEF table, counts
<1>5. /\ table \in [Slot -> Row]
      /\ \A q \in Slot :
            /\ Sane(table[q]) /\ table[q].state = proc[q].state
            /\ table[q].qlev = MoQ <=> proc[q].qlev = MoQ
            /\ table[q].seq = proc[q].seq
            /\ q # p /\ InQuantum(proc[q]) => InQuantum(table[q])
  BY <1>3, TickTable
<1>6. r \in Row /\ Sane(r) /\ Alive(r) /\ r.state = "RUNNING" BY <1>1, <1>5, Running DEF Alive, Is
<1>7. expired => r.qlev # MoQ OBVIOUS
<1>8. ~active /\ ~expired => InQuantum(r)
  <2>1. r.qlev \in Level /\ r.tick \in Nat BY <1>6 DEF Sane
  <2>2. Quantum(r.qlev) \in Nat BY <2>1, Quanta
  <2> QED BY <2>1, <2>2 DEF InQuantum
<1> HIDE DEF r, expired
<1>9. expired => /\ out \in Row /\ Sane(out) /\ out.state = "RUNNABLE"
                 /\ out.qlev \in {1, 2, 3} /\ out.tick = 0 /\ next.qlev = out.qlev
  <2>1. SUFFICES ASSUME expired
                 PROVE  /\ out \in Row /\ Sane(out) /\ out.state = "RUNNABLE"
                        /\ out.qlev \in {1, 2, 3} /\ out.tick = 0 /\ next.qlev = out.qlev
    OBVIOUS
  <2>2. /\ next \in Row /\ Sane(next) /\ next.state = "RUNNING"
        /\ next.qlev \in {1, 2, 3} /\ next.tick = 0
    BY <1>4, <1>6, <1>7, <2>1, DemotedRow
  <2> HIDE DEF next
  <2>3. "RUNNABLE" \in States BY DEF States
  <2>4. /\ out \in Row /\ out.state = "RUNNABLE" /\ out.qlev = next.qlev /\ out.seq = next.seq
        /\ out.tick = next.tick /\ out.priority = next.priority
    BY <2>2, <2>3, WithStateRow
  <2> HIDE DEF out
  <2> QED BY <2>2, <2>4 DEF Sane, Alive
<1>10. expired => InQuantum(out)
  <2>1. \A l \in {1, 2, 3} : Quantum(l) > 0 BY Quanta DEF Level
  <2> HIDE DEF out
  <2> QED BY <1>9, <2>1 DEF InQuantum
<1> HIDE DEF out, next
<1>11. cnt' \in [Level -> Nat] /\ cnt'[MoQ] = cnt[MoQ]
  <2>1. CASE ~expired \/ r.qlev = L3 BY <1>2, <1>4, <2>1
  <2>2. CASE expired /\ r.qlev # L3
    <3> DEFINE l == next.qlev
    <3>1. l \in Level /\ l # MoQ BY <1>9, <2>2 DEF Level, MoQ
    <3>2. cnt' = [counts EXCEPT ![l] = @ + 1] BY <1>2, <2>2
    <3> HIDE DEF l
    <3> QED BY <1>4, <3>1, <3>2 DEF MoQ, Level
  <2> QED BY <2>1, <2>2
<1>12. Counters' BY <1>1, <1>11 DEF Layout, Counters
<1>13. /\ proc' \in [Slot -> Row]
       /\ \A q \in Slot : proc'[q] = IF expired /\ q = p THEN out ELSE table[q]
  BY <1>2, <1>5, <1>9
<1>14. Table' BY <1>5, <1>9, <1>13 DEF Table
<1>15. cur = p /\ Is(p, "RUNNING") /\ \A q \in Slot : q # p => ~Is(q, "RUNNING")
  BY <1>1, Running
<1>16. OneRuns' BY <1>2, <1>5, <1>9, <1>13, <1>15, Words DEF OneRuns, Is
<1>17. \A q \in Slot : proc'[q].state = "EMBRYO" <=> proc[q].state = "EMBRYO"
  BY <1>5, <1>9, <1>13, <1>15 DEF Is
<1>18. CallsInv' BY <1>1, <1>17, Words, CallsStay DEF Layout, Is
<1>19. \A q \in Slot : ~active /\ InQuantum(proc[q]) => InQuantum(proc'[q])
  BY <1>5, <1>8, <1>10, <1>13 DEF r
<1>20. \A q \in Slot : /\ proc'[q].qlev = MoQ <=> proc[q].qlev = MoQ
                       /\ proc[q].qlev = MoQ => proc'[q].seq = proc[q].seq
  BY <1>5, <1>7, <1>9, <1>13 DEF r, MoQ
<1>21. \A q \in Slot : Alive(proc'[q]) <=> Alive(proc[q])
  BY <1>5, <1>9, <1>13, <1>15 DEF Is, Alive
<1> QED BY <1>1, <1>11, <1>12, <1>14, <1>16, <1>17, <1>18, <1>19, <1>20, <1>21 DEF Layout

-----------------------------------------------------------------------------
(* The monopoly queue *)

\* The processes below q in a set; they count what was added before q.
Below(S, q) == {d \in S : d < q}

\* What is added to the MoQ gets positions of its own, below the next one.
LEMMA Positions ==
    ASSUME NEW S \in SUBSET Slot
    PROVE  /\ IsFiniteSet(S) /\ Cardinality(S) \in Nat
           /\ \A q \in S : /\ Cardinality(Below(S, q)) \in Nat
                           /\ Cardinality(Below(S, q)) < Cardinality(S)
           /\ \A p, q \in S : p # q => Cardinality(Below(S, p)) # Cardinality(Below(S, q))
<1>1. IsFiniteSet(Slot) BY FS_Interval, MlfqConstants DEF MlfqConstants, Slot
<1>2. IsFiniteSet(S) /\ Cardinality(S) \in Nat BY <1>1, FS_Subset, FS_CardinalityType
<1>3. ASSUME NEW q \in S
      PROVE  /\ IsFiniteSet(Below(S, q)) /\ Cardinality(Below(S, q)) \in Nat
             /\ Cardinality(Below(S, q)) < Cardinality(S)
  <2>1. Below(S, q) \in SUBSET S BY DEF Below
  <2>2. /\ IsFiniteSet(Below(S, q)) /\ Cardinality(Below(S, q)) =< Cardinality(S)
        /\ Cardinality(Below(S, q)) = Cardinality(S) => Below(S, q) = S
    BY <1>2, <2>1, FS_Subset
  <2>3. q \in Int BY DEF Slot
  <2>4. q \notin Below(S, q) BY <2>3 DEF Below
  <2>5. Cardinality(Below(S, q)) \in Nat BY <2>2, FS_CardinalityType
  <2> QED BY <1>2, <2>2, <2>4, <2>5
<1>4. ASSUME NEW p \in S, NEW q \in S, p < q
      PROVE  Cardinality(Below(S, p)) # Cardinality(Below(S, q))
  <2>1. p \in Int /\ q \in Int /\ \A d \in S : d \in Int BY DEF Slot
  <2>2. Below(S, p) \in SUBSET Below(S, q)
    <3>1. \A d \in S : d < p => d < q BY <1>4, <2>1
    <3> QED BY <3>1 DEF Below
  <2>3. p \in Below(S, q) /\ p \notin Below(S, p) BY <1>4, <2>1 DEF Below
  <2>4. Cardinality(Below(S, p)) = Cardinality(Below(S, q)) => Below(S, p) = Below(S, q)
    BY <1>3, <2>2, FS_Subset
  <2> QED BY <2>3, <2>4
<1>5. \A p, q \in S : p # q => p < q \/ q < p BY DEF Slot
<1> QED BY <1>2, <1>3, <1>4, <1>5

\* setmonopoly adds a set of processes that are not in the MoQ, at its end.
LEMMA SetMonopolyStep ==
    ASSUME Layout, NEW p \in Slot, NEW n \in 0 .. MaxPid, SetMonopoly(p, n)
    PROVE  /\ Layout'
           /\ \E new \in SUBSET Slot :
                 /\ size' = size + Cardinality(new) /\ cnt'[MoQ] = cnt[MoQ] + Cardinality(new)
                 /\ \A q \in new :
                       /\ proc[q].qlev # MoQ /\ proc'[q].qlev = MoQ
                       /\ proc'[q].seq = cnt[MoQ] + Cardinality(Below(new, q))
                       /\ proc'[q].state = proc[q].state
                       /\ "dead" \notin Misuse
                            => proc[q].state \in {"RUNNABLE", "RUNNING", "SLEEPING"}
                 /\ \A q \in Slot : q \notin new => proc'[q] = proc[q]
<1> DEFINE found == {q \in Slot : proc[q].pid = n}
           stop  == {q \in found : proc[q].qlev = MoQ \/ q = p}
           new   == {q \in found : \A s \in stop : q < s}
           y(q)  == WithLevelSeq(proc[q], MoQ, cnt[MoQ] + Cardinality(Below(new, q)))
<1>1. /\ \A q \in found : Callee(p, q)
      /\ cnt[MoQ] + Cardinality(new) =< MaxMoq
      /\ proc' = [q \in Slot |-> IF q \in new THEN y(q) ELSE proc[q]]
      /\ cnt' = [cnt EXCEPT ![MoQ] = @ + Cardinality(new)]
      /\ size' = size + Cardinality(new)
      /\ UNCHANGED <<active, nextpid, cur, call>>
  BY DEF SetMonopoly, MoqPosition, WithLevelSeq, Below
<1>2. /\ new \in SUBSET Slot
      /\ \A q \in new : proc[q].qlev # MoQ /\ Callee(p, q)
  <2>1. \A q \in Slot : ~(q < q) BY DEF Slot
  <2> QED BY <1>1, <2>1
<1> HIDE DEF new
<1>3. Cardinality(new) \in Nat /\ \A q \in new : Cardinality(Below(new, q)) \in Nat
  BY <1>2, Positions
<1>4. /\ cnt \in [Level -> Nat] /\ MoQ \in Level /\ MoQ # L0 /\ MoQ \in -1 .. 4
      /\ proc \in [Slot -> Row] /\ \A q \in Slot : Sane(proc[q])
  BY DEF Layout, Counters, Table, MoQ, Level, L0
<1>5. ASSUME NEW q \in new
      PROVE  /\ y(q) \in Row /\ Sane(y(q)) /\ y(q).qlev = MoQ /\ y(q).state = proc[q].state
             /\ y(q).seq = cnt[MoQ] + Cardinality(Below(new, q))
  <2> DEFINE u == cnt[MoQ] + Cardinality(Below(new, q))
  <2>1. u \in Nat /\ u \in Int /\ proc[q] \in Row /\ Sane(proc[q]) BY <1>2, <1>3, <1>4
  <2> HIDE DEF u
  <2> DEFINE z == WithLevelSeq(proc[q], MoQ, u)
  <2>2. /\ z \in Row /\ z.qlev = MoQ /\ z.seq = u /\ z.state = proc[q].state
        /\ z.tick = proc[q].tick /\ z.priority = proc[q].priority
    <3>1. proc[q] \in Row /\ MoQ \in -1 .. 4 /\ u \in Int BY <1>4, <2>1
    <3> QED BY <3>1, WithLevelSeqRow
  <2> HIDE DEF z
  <2>3. Sane(z) BY <1>4, <2>1, <2>2 DEF Sane, Alive
  <2> QED BY <2>2, <2>3 DEF u, z
<1> HIDE DEF y
<1>6. \A q \in Slot : proc'[q] = IF q \in new THEN y(q) ELSE proc[q] BY <1>1
<1>7. Table'
  <2>1. proc' \in [Slot -> Row] BY <1>1, <1>4, <1>5
  <2> QED BY <1>4, <1>5, <1>6, <2>1 DEF Table
<1>8. cnt'[MoQ] = cnt[MoQ] + Cardinality(new) /\ Counters'
  <2>1. \A l \in Level : cnt'[l] = IF l = MoQ THEN cnt[MoQ] + Cardinality(new) ELSE cnt[l]
    BY <1>1, <1>4
  <2>2. cnt' \in [Level -> Nat] BY <1>1, <1>3, <1>4
  <2>3. cnt'[MoQ] =< Bound(MoQ) BY <1>1, <1>4, <2>1 DEF Bound
  <2>4. \A l \in Level : cnt'[l] =< Bound(l) BY <2>1, <2>3 DEF Layout, Counters
  <2> QED BY <1>1, <1>4, <2>1, <2>2, <2>4 DEF Layout, Counters
<1>9. \A q \in Slot : proc'[q].state = proc[q].state BY <1>5, <1>6
<1>10. OneRuns' BY <1>1, <1>9 DEF Layout, OneRuns, Is
<1>11. CallsInv' BY <1>1, <1>9, Words, CallsStay DEF Layout, Is
<1>12. "dead" \notin Misuse => \A q \in new : proc[q].state \in {"RUNNABLE", "RUNNING", "SLEEPING"}
  BY <1>2 DEF Callee
<1>13. \A q \in new : q \in Slot /\ proc'[q] = y(q) BY <1>2, <1>6
<1> QED BY <1>1, <1>2, <1>5, <1>6, <1>7, <1>8, <1>10, <1>11, <1>12, <1>13 DEF Layout

-----------------------------------------------------------------------------
(* The invariants *)

\* A step other than Tick, Fork, ForkReturns, Exit and SetMonopoly.
Others ==
    \/ LeaveMonopoly \/ AcquirePanics
    \/ \E p \in Slot :
          \/ Dispatch(p) \/ Wake(p) \/ Wait(p) \/ Sleep(p) \/ Yield(p)
          \/ \E q \in Slot, x \in Prio : SetPriority(p, q, x)
          \/ \E x \in Prio : PriorityWritten(p, x)
          \/ Monopolize(p) \/ Unmonopolize(p)

\* The steps, by what they do to the MoQ.
LEMMA Steps ==
    ASSUME Next
    PROVE  \/ Others
           \/ \E p \in Slot : Tick(p) \/ Fork(p) \/ ForkReturns(p) \/ Exit(p)
           \/ Monopoly /\ \E p \in Slot, n \in 0 .. MaxPid : SetMonopoly(p, n)
BY DEF Next, Others, Monopolies

\* The steps that leave the MoQ.
LEMMA OthersStep ==
    ASSUME Layout, Others
    PROVE  Layout' /\ Still
<1>1. CASE \E p \in Slot : Dispatch(p) \/ Wake(p) BY <1>1, DispatchStep, WakeStep
<1>2. CASE \E p \in Slot : Wait(p) \/ Sleep(p) BY <1>2, WaitStep, SleepStep
<1>3. CASE \E p \in Slot : Yield(p) BY <1>3, YieldStep
<1>4. CASE \E p, q \in Slot, x \in Prio : SetPriority(p, q, x) BY <1>4, SetPriorityStep
<1>5. CASE \E p \in Slot, x \in Prio : PriorityWritten(p, x) BY <1>5, PriorityWrittenStep
<1>6. CASE LeaveMonopoly \/ AcquirePanics \/ \E p \in Slot : Monopolize(p) \/ Unmonopolize(p)
  BY <1>6, SwitchStep
<1> QED BY <1>1, <1>2, <1>3, <1>4, <1>5, <1>6 DEF Others

\* Every step keeps the layout.
LEMMA LayoutStep ==
    ASSUME Layout, [Next]_vars
    PROVE  Layout'
<1>1. CASE Others BY <1>1, OthersStep
<1>2. CASE \E p \in Slot : Tick(p) BY <1>2, TickStep
<1>3. CASE \E p \in Slot : Fork(p) BY <1>3, ForkStep
<1>4. CASE \E p \in Slot : ForkReturns(p) BY <1>4, ForkReturnsStep
<1>5. CASE \E p \in Slot : Exit(p) BY <1>5, ExitStep
<1>6. CASE \E p \in Slot, n \in 0 .. MaxPid : SetMonopoly(p, n) BY <1>6, SetMonopolyStep
<1>7. CASE UNCHANGED vars
  <2>1. UNCHANGED <<proc, cnt, size, nextpid, cur, call, active>> BY <1>7 DEF vars
  <2>2. PICK p \in Slot : TRUE BY MlfqConstants DEF MlfqConstants, Slot
  <2>3. active' \in BOOLEAN BY <2>1 DEF Layout, Counters
  <2> QED BY <2>1, <2>2, <2>3, Words, Aside
<1> QED BY <1>1, <1>2, <1>3, <1>4, <1>5, <1>6, <1>7, Steps

\* The rows at the start: one process, on L0.
LEMMA InitRows ==
    ASSUME Init
    PROVE  /\ proc \in [Slot -> Row]
           /\ \A p \in Slot : /\ proc[p].state \in {"UNUSED", "RUNNABLE"}
                              /\ proc[p].qlev = L0 /\ proc[p].seq = 0
                              /\ proc[p].tick = 0 /\ proc[p].priority = 0
<1>1. MaxPid \in Nat /\ MaxPid # 0 BY MlfqConstants DEF MlfqConstants
<1>2. Fresh \in Row BY <1>1 DEF Fresh, Row, States, L0
<1>3. /\ Fresh.state = "UNUSED" /\ Fresh.qlev = L0 /\ Fresh.seq = 0 /\ Fresh.tick = 0
      /\ Fresh.priority = 0
  BY DEF Fresh
<1> DEFINE first == WithStatePid(Fresh, "RUNNABLE", 1)
<1>4. proc = [p \in Slot |-> IF p = InitProc THEN first ELSE Fresh]
  BY DEF Init, WithStatePid
<1> HIDE DEF Fresh
<1>5. "RUNNABLE" \in States /\ 1 \in 0 .. MaxPid BY <1>1 DEF States
<1>6. /\ first \in Row /\ first.state = "RUNNABLE" /\ first.qlev = L0 /\ first.seq = 0
      /\ first.tick = 0 /\ first.priority = 0
  BY <1>2, <1>3, <1>5, WithStatePidRow
<1> HIDE DEF first
<1>7. proc \in [Slot -> Row] BY <1>2, <1>4, <1>6
<1>8. \A p \in Slot : proc[p] = first \/ proc[p] = Fresh BY <1>4
<1> QED BY <1>3, <1>6, <1>7, <1>8

\* The layout at the start.
LEMMA LayoutInit ==
    ASSUME Init
    PROVE  Layout
<1>1. /\ MaxPid \in Nat /\ MaxPid # 0 /\ NProc \in Nat
      /\ MaxBoost \in Nat /\ MaxMoq \in Nat /\ MaxSeq \in Nat
  BY MlfqConstants DEF MlfqConstants
<1>2. Table BY InitRows DEF Table, Sane, L0, Level
<1>3. Counters
  <2>1. NProc * MaxBoost \in Nat BY <1>1
  <2>2. \A l \in Level : Bound(l) \in Nat /\ (l = L0 => Bound(l) >= 1)
    BY <1>1, <2>1 DEF Bound, L0, MoQ
  <2>3. /\ cnt = [l \in Level |-> IF l = L0 THEN 1 ELSE 0]
        /\ nextpid = 2 /\ active = FALSE
    BY DEF Init
  <2>4. cnt \in [Level -> Nat] BY <2>3
  <2>5. \A l \in Level : cnt[l] =< Bound(l) BY <2>2, <2>3
  <2> QED BY <2>3, <2>4, <2>5 DEF Counters
<1>4. OneRuns
  <2>1. cur = None BY DEF Init
  <2> QED BY <2>1, InitRows, Words DEF OneRuns, Is
<1>5. CallsInv BY Words DEF CallsInv, Forks, Init
<1> QED BY <1>2, <1>3, <1>4, <1>5 DEF Layout

\* The fields of the process table and the calls under way, at all times
\* (proc.h:51, proc.c).
THEOREM LayoutHolds == Spec => []Layout
<1>1. Init => Layout BY LayoutInit
<1>2. Layout /\ [Next]_vars => Layout' BY LayoutStep
<1> QED BY <1>1, <1>2, PTL DEF Spec

-----------------------------------------------------------------------------
(* Order in the MoQ *)

\* A step in which the MoQ gets no process, and hands out no position.
LEMMA OrderKept ==
    ASSUME OrderInv, cnt'[MoQ] = cnt[MoQ],
           \A q \in Slot : proc'[q].qlev = MoQ
                           => proc[q].qlev = MoQ /\ proc'[q].seq = proc[q].seq
    PROVE  OrderInv'
BY DEF OrderInv

\* Every step keeps the order of the MoQ.
LEMMA OrderStep ==
    ASSUME Layout, OrderInv, [Next]_vars
    PROVE  OrderInv'
<1>1. CASE Others
  <2>1. Still BY <1>1, OthersStep
  <2> QED BY <2>1, OrderKept DEF Still, Kept
<1>2. CASE \E p \in Slot : Tick(p)
  <2>1. /\ cnt'[MoQ] = cnt[MoQ]
        /\ \A q \in Slot : proc'[q].qlev = MoQ
                           => proc[q].qlev = MoQ /\ proc'[q].seq = proc[q].seq
    BY <1>2, TickStep
  <2> QED BY <2>1, OrderKept
<1>3. CASE \E p \in Slot : Fork(p)
  <2>1. PICK c \in Slot : /\ cnt'[MoQ] = cnt[MoQ] /\ proc'[c].qlev = L0
                          /\ \A q \in Slot : q # c => proc'[q] = proc[q]
    BY <1>3, ForkStep
  <2> QED BY <2>1, OrderKept DEF L0, MoQ
<1>4. CASE \E p \in Slot : ForkReturns(p)
  <2>1. /\ cnt'[MoQ] = cnt[MoQ]
        /\ \E c \in Slot : /\ proc'[c].qlev = proc[c].qlev /\ proc'[c].seq = proc[c].seq
                           /\ \A q \in Slot : q # c => proc'[q] = proc[q]
    BY <1>4, ForkReturnsStep
  <2> QED BY <2>1, OrderKept
<1>5. CASE \E p \in Slot : Exit(p)
  <2>1. PICK p \in Slot : /\ cnt' = cnt /\ proc'[p].qlev = -1
                          /\ \A q \in Slot : q # p => Kept(proc[q], proc'[q])
    BY <1>5, ExitStep
  <2>2. -1 # MoQ BY DEF MoQ
  <2> QED BY <2>1, <2>2, OrderKept DEF Kept
<1>6. CASE \E p \in Slot, n \in 0 .. MaxPid : SetMonopoly(p, n)
  <2>1. PICK new \in SUBSET Slot :
           /\ cnt'[MoQ] = cnt[MoQ] + Cardinality(new)
           /\ \A q \in new : /\ proc'[q].qlev = MoQ
                             /\ proc'[q].seq = cnt[MoQ] + Cardinality(Below(new, q))
           /\ \A q \in Slot : q \notin new => proc'[q] = proc[q]
    BY <1>6, SetMonopolyStep
  <2>2. /\ Cardinality(new) \in Nat
        /\ \A q \in new : /\ Cardinality(Below(new, q)) \in Nat
                          /\ Cardinality(Below(new, q)) < Cardinality(new)
        /\ \A p, q \in new : p # q => Cardinality(Below(new, p)) # Cardinality(Below(new, q))
    BY Positions
  <2>3. cnt[MoQ] \in Nat BY DEF Layout, Counters, MoQ, Level
  <2>4. \A q \in Slot : proc[q].seq \in Int BY DEF Layout, Table, Row
  <2>5. ASSUME NEW q \in Slot, q \notin new, proc'[q].qlev = MoQ
        PROVE  proc'[q].seq \in Int /\ proc'[q].seq < cnt[MoQ]
    BY <2>1, <2>4, <2>5 DEF OrderInv
  <2>6. ASSUME NEW q \in new
        PROVE  /\ proc'[q].seq \in Int /\ proc'[q].seq >= cnt[MoQ]
               /\ proc'[q].seq < cnt'[MoQ]
    BY <2>1, <2>2, <2>3
  <2>7. \A q \in Slot : proc'[q].qlev = MoQ => proc'[q].seq < cnt'[MoQ]
    BY <2>1, <2>2, <2>3, <2>5, <2>6
  <2>8. \A p, q \in new : p # q => proc'[p].seq # proc'[q].seq BY <2>1, <2>2, <2>3
  <2>9. ASSUME NEW p \in Slot, NEW q \in Slot, p # q, proc'[p].qlev = MoQ, proc'[q].qlev = MoQ
        PROVE  proc'[p].seq # proc'[q].seq
    <3>1. CASE p \in new /\ q \in new BY <2>8, <2>9, <3>1
    <3>2. CASE p \in new /\ q \notin new BY <2>3, <2>5, <2>6, <2>9, <3>2
    <3>3. CASE p \notin new /\ q \in new BY <2>3, <2>5, <2>6, <2>9, <3>3
    <3>4. CASE p \notin new /\ q \notin new BY <2>1, <2>9, <3>4 DEF OrderInv
    <3> QED BY <3>1, <3>2, <3>3, <3>4
  <2> QED BY <2>7, <2>9 DEF OrderInv
<1>7. CASE UNCHANGED vars
  <2>1. UNCHANGED <<proc, cnt>> BY <1>7 DEF vars
  <2> QED BY <2>1, OrderKept
<1> QED BY <1>1, <1>2, <1>3, <1>4, <1>5, <1>6, <1>7, Steps

\* Whatever programs do with the monopoly queue, no two processes in it have
\* the same position, and who enters it later comes later (proc.c:714).
THEOREM QueueInOrder == Spec => []MoqInOrder
<1>1. Init => OrderInv
  <2>1. L0 # MoQ BY DEF L0, MoQ
  <2> QED BY <2>1, InitRows DEF OrderInv
<1>2. Layout /\ OrderInv /\ [Next]_vars => OrderInv' BY OrderStep
<1>3. OrderInv => MoqInOrder BY DEF OrderInv, MoqInOrder, InMoq
<1> QED BY <1>1, <1>2, <1>3, LayoutHolds, PTL DEF Spec

-----------------------------------------------------------------------------
(* The size of the MoQ *)

\* A step in which the processes of the MoQ remain the same.
LEMMA SizeKept ==
    ASSUME MoqInv, size' = size,
           \A q \in Slot :
              /\ Alive(proc'[q]) /\ proc'[q].qlev = MoQ <=> Alive(proc[q]) /\ proc[q].qlev = MoQ
              /\ proc'[q].state = "EMBRYO" => proc'[q].qlev # MoQ
    PROVE  MoqInv'
<1>1. \A q \in Slot : q \in InMoq <=> Alive(proc[q]) /\ proc[q].qlev = MoQ
  BY DEF InMoq, Alive
<1>2. \A q \in Slot : (q \in InMoq)' <=> Alive(proc'[q]) /\ proc'[q].qlev = MoQ
  BY DEF InMoq, Alive
<1>3. InMoq' = InMoq
  <2>1. InMoq \in SUBSET Slot /\ InMoq' \in SUBSET Slot BY DEF InMoq
  <2> QED BY <1>1, <1>2, <2>1
<1> QED BY <1>3 DEF MoqInv, Is

\* Programs name only processes that live, or leave the MoQ alone.
Tame == Monopoly => "dead" \notin Misuse

\* Every step keeps the size of the MoQ exact.
LEMMA SizeStep ==
    ASSUME Tame, Layout, MoqInv, [Next]_vars
    PROVE  MoqInv'
<1>1. CASE Others
  <2>1. Still BY <1>1, OthersStep
  <2> QED BY <2>1, SizeKept DEF Still, Kept, MoqInv, Is
<1>2. CASE \E p \in Slot : Tick(p)
  <2>1. /\ size' = size
        /\ \A q \in Slot : /\ proc'[q].qlev = MoQ <=> proc[q].qlev = MoQ
                           /\ Alive(proc'[q]) <=> Alive(proc[q])
                           /\ proc'[q].state = "EMBRYO" <=> proc[q].state = "EMBRYO"
    BY <1>2, TickStep
  <2> QED BY <2>1, SizeKept DEF MoqInv, Is
<1>3. CASE \E p \in Slot : Fork(p)
  <2>1. PICK c \in Slot : /\ size' = size /\ Is(c, "UNUSED") /\ proc'[c].qlev = L0
                          /\ \A q \in Slot : q # c => proc'[q] = proc[q]
    BY <1>3, ForkStep
  <2>2. L0 # MoQ /\ ~Alive(proc[c]) BY <2>1 DEF L0, MoQ, Alive, Is
  <2> QED BY <2>1, <2>2, SizeKept DEF MoqInv, Is
<1>4. CASE \E p \in Slot : ForkReturns(p)
  <2>1. PICK c \in Slot : /\ size' = size /\ Is(c, "EMBRYO")
                          /\ proc'[c].state \in {"RUNNABLE", "UNUSED"}
                          /\ proc'[c].qlev = proc[c].qlev
                          /\ \A q \in Slot : q # c => proc'[q] = proc[q]
    BY <1>4, ForkReturnsStep
  <2> QED BY <2>1, SizeKept DEF MoqInv, Is
<1>5. CASE \E p \in Slot : Exit(p)
  <2>1. PICK p \in Slot : /\ size' = LeftMoq(p) /\ Is(p, "RUNNING")
                          /\ proc'[p].state = "ZOMBIE"
                          /\ \A q \in Slot : q # p => Kept(proc[q], proc'[q])
    BY <1>5, ExitStep
  <2>2. \A q \in Slot : (q \in InMoq)' <=> q \in InMoq /\ q # p
    BY <2>1 DEF InMoq, Kept, Alive
  <2>3. InMoq' = InMoq \ {p}
    <3>1. InMoq \in SUBSET Slot /\ InMoq' \in SUBSET Slot BY DEF InMoq
    <3> QED BY <2>2, <3>1
  <2>4. p \in InMoq <=> proc[p].qlev = MoQ BY <2>1 DEF InMoq, Is
  <2>5. IsFiniteSet(InMoq)
    <3>1. InMoq \in SUBSET Slot BY DEF InMoq
    <3> QED BY <3>1, Positions
  <2>6. size' = Cardinality(InMoq') BY <2>1, <2>3, <2>4, <2>5, FS_RemoveElement DEF MoqInv, LeftMoq
  <2>7. \A q \in Slot : Is(q, "EMBRYO")' => proc'[q].qlev # MoQ
    BY <2>1 DEF MoqInv, Is, Kept
  <2> QED BY <2>6, <2>7 DEF MoqInv
<1>6. CASE Monopoly /\ \E p \in Slot, n \in 0 .. MaxPid : SetMonopoly(p, n)
  <2>1. PICK new \in SUBSET Slot :
           /\ size' = size + Cardinality(new)
           /\ \A q \in new :
                 /\ proc[q].qlev # MoQ /\ proc'[q].qlev = MoQ
                 /\ proc'[q].state = proc[q].state
                 /\ proc[q].state \in {"RUNNABLE", "RUNNING", "SLEEPING"}
           /\ \A q \in Slot : q \notin new => proc'[q] = proc[q]
    <3>1. "dead" \notin Misuse BY <1>6 DEF Tame
    <3> QED BY <1>6, <3>1, SetMonopolyStep
  <2>2. InMoq \in SUBSET Slot /\ InMoq' \in SUBSET Slot BY DEF InMoq
  <2>3. \A q \in Slot : (q \in InMoq)' <=> q \in InMoq \/ q \in new BY <2>1 DEF InMoq
  <2>4. InMoq' = InMoq \cup new BY <2>2, <2>3
  <2>5. InMoq \cap new = {} BY <2>1 DEF InMoq
  <2>6. /\ IsFiniteSet(InMoq) /\ Cardinality(InMoq) \in Nat
        /\ IsFiniteSet(new) /\ Cardinality(new) \in Nat
    BY <2>2, Positions
  <2>7. Cardinality(InMoq') = Cardinality(InMoq) + Cardinality(new)
    <3>1. Cardinality(InMoq \cup new)
             = Cardinality(InMoq) + Cardinality(new) - Cardinality(InMoq \cap new)
      BY <2>6, FS_Union
    <3>2. Cardinality(InMoq \cap new) = 0 BY <2>5, FS_EmptySet
    <3> QED BY <2>4, <2>6, <3>1, <3>2
  <2>8. \A q \in Slot : Is(q, "EMBRYO")' => proc'[q].qlev # MoQ BY <2>1 DEF MoqInv, Is
  <2> QED BY <2>1, <2>7, <2>8 DEF MoqInv
<1>7. CASE UNCHANGED vars
  <2>1. UNCHANGED <<proc, size>> BY <1>7 DEF vars
  <2> QED BY <2>1, SizeKept DEF MoqInv, Is
<1> QED BY <1>1, <1>2, <1>3, <1>4, <1>5, <1>6, <1>7, Steps

\* The MoQ is empty at the start.
LEMMA MoqInit ==
    ASSUME Init
    PROVE  MoqInv
<1>1. size = 0 BY DEF Init
<1>2. L0 # MoQ BY DEF L0, MoQ
<1>3. \A p \in Slot : proc[p].qlev # MoQ BY <1>2, InitRows
<1>4. InMoq = {} BY <1>3 DEF InMoq
<1> QED BY <1>1, <1>3, <1>4, FS_EmptySet DEF MoqInv

\* If programs put only processes that live in the monopoly queue, MoQ_sz is
\* the number of processes in it (proc.c:23).
THEOREM SizeIsExact ==
    ASSUME Tame
    PROVE  Spec => []MoqSizeExact
<1>1. Init => MoqInv BY MoqInit
<1>2. Tame /\ Layout /\ MoqInv /\ [Next]_vars => MoqInv' BY SizeStep
<1>3. MoqInv => MoqSizeExact BY DEF MoqInv, MoqSizeExact
<1> QED BY <1>1, <1>2, <1>3, LayoutHolds, PTL DEF Spec

-----------------------------------------------------------------------------
(* Types and quanta *)

\* The types follow; size is at most NProc because it counts.
LEMMA TypesFollow ==
    ASSUME Layout, MoqInv
    PROVE  TypeOK
<1>1. \A p \in Slot :
          /\ proc[p].state \in {"UNUSED", "EMBRYO", "SLEEPING", "RUNNABLE",
                                "RUNNING", "ZOMBIE"}
          /\ proc[p].pid \in 0 .. MaxPid
          /\ proc[p].parent \in Slot \cup {None}
          /\ proc[p].chan \in Slot \cup {None, Event}
          /\ proc[p].state \notin {"UNUSED", "ZOMBIE"} =>
                /\ proc[p].qlev \in Level /\ proc[p].seq \in Nat
                /\ proc[p].tick \in Nat /\ proc[p].priority \in 0 .. 10
  <2>1. \A p \in Slot : /\ proc[p].state \in States /\ proc[p].pid \in 0 .. MaxPid
                        /\ proc[p].parent \in Slot \cup {None}
                        /\ proc[p].chan \in Slot \cup {None, Event}
    BY DEF Layout, Table, Row
  <2>2. \A p \in Slot : proc[p].state \notin {"UNUSED", "ZOMBIE"} =>
                          /\ proc[p].qlev \in Level /\ proc[p].seq \in Nat
                          /\ proc[p].tick \in Nat /\ proc[p].priority \in 0 .. 10
    BY DEF Layout, Table, Sane, Alive
  <2> QED BY <2>1, <2>2 DEF States
<1>2. DOMAIN cnt = Level /\ \A l \in Level : cnt[l] \in 0 .. Bound(l)
  <2>1. \A l \in Level : Bound(l) \in Int
    <3>1. /\ MaxPid \in Nat /\ NProc \in Nat /\ MaxBoost \in Nat /\ MaxMoq \in Nat
          /\ MaxSeq \in Nat
      BY MlfqConstants DEF MlfqConstants
    <3>2. NProc * MaxBoost \in Nat BY <3>1
    <3> QED BY <3>1, <3>2 DEF Bound
  <2>2. cnt \in [Level -> Nat] /\ \A l \in Level : cnt[l] =< Bound(l) BY DEF Layout, Counters
  <2> QED BY <2>1, <2>2
<1>3. size \in 0 .. NProc
  <2>1. NProc \in Nat BY MlfqConstants DEF MlfqConstants
  <2>2. IsFiniteSet(1 .. NProc) /\ Cardinality(1 .. NProc) = NProc BY <2>1, FS_Interval
  <2>3. InMoq \in SUBSET (1 .. NProc) BY DEF InMoq, Slot
  <2>4. Cardinality(InMoq) =< NProc /\ Cardinality(InMoq) \in Nat
    BY <2>2, <2>3, FS_Subset, FS_CardinalityType
  <2> QED BY <2>1, <2>4 DEF MoqInv
<1>4. \A p \in Slot : Is(p, "RUNNING") <=> cur = p BY DEF Layout, OneRuns
<1> QED BY <1>1, <1>2, <1>3, <1>4 DEF TypeOK

\* If programs put only processes that live in the monopoly queue, every
\* process that lives is on a level, at a position, the counters do not go
\* back below zero, and the CPU runs the one process that is RUNNING
\* (proc.h:51, proc.c:426).
THEOREM TypesHold ==
    ASSUME Tame
    PROVE  Spec => []TypeOK
<1>1. Init => MoqInv BY MoqInit
<1>2. Tame /\ Layout /\ MoqInv /\ [Next]_vars => MoqInv' BY SizeStep
<1>3. Layout /\ MoqInv => TypeOK BY TypesFollow
<1> QED BY <1>1, <1>2, <1>3, LayoutHolds, PTL DEF Spec

\* Without a monopoly every step keeps the quanta.
LEMMA QuantaStep ==
    ASSUME ~Monopoly, Layout, QuantaInv, [Next]_vars
    PROVE  QuantaInv'
<1>1. ~active /\ \A q \in Slot : InQuantum(proc[q]) BY DEF QuantaInv
<1>2. ~active'
  <2>1. UNCHANGED active \/ ~active'
    BY DEF Next, vars, LeaveMonopoly, AcquirePanics, Dispatch, Tick, Wake, Fork, ForkReturns,
           Exit, Wait, Sleep, Yield, SetPriority, PriorityWritten, Monopolies
  <2> QED BY <1>1, <2>1
<1>3. \A q \in Slot : InQuantum(proc'[q])
  <2>1. CASE Others
    <3>1. Still BY <2>1, OthersStep
    <3> QED BY <1>1, <3>1 DEF Still, Kept, InQuantum
  <2>2. CASE \E p \in Slot : Tick(p) BY <1>1, <2>2, TickStep
  <2>3. CASE \E p \in Slot : Fork(p)
    <3>1. PICK c \in Slot : /\ proc'[c].qlev = L0 /\ proc'[c].tick = 0
                            /\ \A q \in Slot : q # c => proc'[q] = proc[q]
      BY <2>3, ForkStep
    <3>2. Quantum(L0) > 0 BY Quanta DEF L0, Level
    <3>3. InQuantum(proc'[c]) BY <3>1, <3>2 DEF InQuantum
    <3> QED BY <1>1, <3>1, <3>3
  <2>4. CASE \E p \in Slot : ForkReturns(p)
    <3>1. PICK c \in Slot :
             /\ Is(c, "EMBRYO") /\ proc'[c].qlev = proc[c].qlev /\ proc'[c].tick = proc[c].tick
             /\ \A q \in Slot : q # c => proc'[q] = proc[q]
      BY <2>4, ForkReturnsStep
    <3>2. InQuantum(proc'[c]) BY <1>1, <3>1 DEF InQuantum, Is, Alive
    <3> QED BY <1>1, <3>1, <3>2
  <2>5. CASE \E p \in Slot : Exit(p)
    <3>1. PICK p \in Slot : /\ proc'[p].state = "ZOMBIE"
                            /\ \A q \in Slot : q # p => Kept(proc[q], proc'[q])
      BY <2>5, ExitStep
    <3> QED BY <1>1, <3>1 DEF Kept, InQuantum, Alive
  <2>6. CASE UNCHANGED vars BY <1>1, <2>6 DEF vars
  <2> QED BY <2>1, <2>2, <2>3, <2>4, <2>5, <2>6, Steps
<1> QED BY <1>2, <1>3 DEF QuantaInv

\* Where programs leave the monopoly queue alone, the table is well typed and
\* no process that waits for its turn has used up the quantum of its level:
\* the timer has moved it before (trap.c:113-137).
THEOREM QuantaAreKept ==
    ASSUME ~Monopoly
    PROVE  Spec => []MlfqInv
<1>1. Init => QuantaInv
  <2>1. SUFFICES ASSUME Init PROVE QuantaInv OBVIOUS
  <2>2. active = FALSE BY <2>1 DEF Init
  <2>3. Quantum(L0) > 0 BY Quanta DEF L0, Level
  <2>4. \A p \in Slot : proc[p].qlev = L0 /\ proc[p].tick = 0 BY <2>1, InitRows
  <2> QED BY <2>2, <2>3, <2>4 DEF QuantaInv, InQuantum
<1>2. ~Monopoly /\ Layout /\ QuantaInv /\ [Next]_vars => QuantaInv' BY QuantaStep
<1>3. TypeOK /\ QuantaInv => MlfqInv
  <2>1. SUFFICES ASSUME TypeOK, QuantaInv PROVE WithinQuantum BY DEF MlfqInv
  <2> QED BY <2>1 DEF WithinQuantum, QuantaInv, InQuantum, Alive, Is
<1>4. Spec => []TypeOK BY TypesHold DEF Tame
<1> QED BY <1>1, <1>2, <1>3, <1>4, LayoutHolds, PTL DEF Spec

-----------------------------------------------------------------------------
(* The clock of a boost *)

\* The quantum of L0, and its ticks.
Share == Quantum(L0)
Turns == 0 .. Share - 1

\* What a table leaves of the quanta of L0: whose tick may still come.
Rest(t) == {s \in Slot \X Turns : t[s[1]].qlev = L0 /\ t[s[1]].tick =< s[2]}

\* While somebody waits since the last boost: those in L0 are within its
\* quantum, those that wait have used nothing of it, the CPU runs a process of
\* L0, and the ticks that have come and those that L0 has left are what L0 had
\* at the boost and what was created since.
WaitInv ==
    /\ waiters \in SUBSET Slot
    /\ ticks \in Nat /\ boostpid \in Nat /\ boostpid =< nextpid
    /\ waiters # {} =>
          /\ ~Monopolized
          /\ \A q \in Slot : proc[q].qlev = L0 => proc[q].tick \in Turns
          /\ \A p \in waiters : /\ Is(p, "RUNNABLE")
                                /\ proc[p].qlev = L0 /\ proc[p].tick = 0
          /\ cur # None => proc[cur].qlev = L0
          /\ ticks + Cardinality(Rest(proc)) =< Share * (NProc + (nextpid - boostpid))

\* The quantum of L0 is positive.
LEMMA ShareType == Share \in Nat /\ Share > 0 /\ NProc \in Nat /\ 0 \in Turns
<1>1. Share \in Nat /\ Share > 0 BY Quanta DEF Share, L0, Level
<1> QED BY <1>1, MlfqConstants DEF MlfqConstants, Turns

\* Products of integers.
LEMMA Product ==
    ASSUME NEW a \in Int, NEW b \in Int, NEW c \in Int
    PROVE  /\ a * b \in Int /\ a * b = b * a /\ a * (b + c) = a * b + a * c
           /\ a * (b - c) = a * b - a * c /\ a * (b + 1) = a * b + a
OBVIOUS

\* How much of the quanta some processes have.
LEMMA ShareOf ==
    ASSUME NEW S \in SUBSET Slot
    PROVE  /\ IsFiniteSet(S \X Turns) /\ Cardinality(S) \in Nat
           /\ Cardinality(S \X Turns) = Share * Cardinality(S)
<1>1. IsFiniteSet(S) /\ Cardinality(S) \in Nat BY Positions
<1>2. IsFiniteSet(Turns) /\ Cardinality(Turns) = Share
  <2>1. Share - 1 \in Int /\ ~(0 > Share - 1) BY ShareType
  <2>2. IsFiniteSet(0 .. Share - 1)
        /\ Cardinality(0 .. Share - 1) = IF 0 > Share - 1 THEN 0 ELSE (Share - 1) - 0 + 1
    BY <2>1, FS_Interval
  <2> QED BY <2>1, <2>2, ShareType DEF Turns
<1>3. IsFiniteSet(S \X Turns) /\ Cardinality(S \X Turns) = Cardinality(S) * Share
  BY <1>1, <1>2, FS_Product
<1> QED BY <1>1, <1>3, Product, ShareType

\* There are NProc slots.
LEMMA AllSlots ==
    /\ IsFiniteSet(Slot \X Turns) /\ Cardinality(Slot \X Turns) = Share * NProc
<1>1. Cardinality(Slot) = NProc BY FS_Interval, ShareType DEF Slot
<1> QED BY <1>1, ShareOf

\* What is left is finite, and no more than the quanta of all slots.
LEMMA RestType ==
    ASSUME NEW t
    PROVE  /\ IsFiniteSet(Rest(t)) /\ Cardinality(Rest(t)) \in Nat
           /\ Cardinality(Rest(t)) =< Share * NProc
<1>1. Rest(t) \in SUBSET (Slot \X Turns) BY DEF Rest
<1>2. IsFiniteSet(Rest(t)) /\ Cardinality(Rest(t)) =< Cardinality(Slot \X Turns)
  BY <1>1, AllSlots, FS_Subset
<1> QED BY <1>2, AllSlots, FS_CardinalityType

\* If no process enters L0 or gets back what it used, no more is left.
LEMMA RestShrinks ==
    ASSUME NEW t, NEW u,
           \A q \in Slot : u[q].qlev = L0 => t[q].qlev = L0 /\ u[q].tick = t[q].tick
    PROVE  Cardinality(Rest(u)) =< Cardinality(Rest(t))
<1>1. Rest(u) \in SUBSET Rest(t) BY DEF Rest
<1> QED BY <1>1, RestType, FS_Subset

\* A new process adds one quantum.
LEMMA RestGrows ==
    ASSUME NEW t, NEW u, NEW c \in Slot, \A q \in Slot : q # c => u[q] = t[q]
    PROVE  Cardinality(Rest(u)) =< Cardinality(Rest(t)) + Share
<1> DEFINE new == {c} \X Turns
<1>1. /\ IsFiniteSet(new) /\ Cardinality(new) = Share
  <2>1. {c} \in SUBSET Slot /\ Cardinality({c}) = 1 BY FS_Singleton
  <2>2. Share * 1 = Share BY ShareType
  <2> QED BY <2>1, <2>2, ShareOf
<1>2. Rest(u) \in SUBSET (Rest(t) \cup new)
  <2>1. \A s \in Rest(u) : s \in Rest(t) \cup new
    <3>1. TAKE s \in Rest(u)
    <3>2. /\ s \in Slot \X Turns /\ s[1] \in Slot /\ s[2] \in Turns /\ s = <<s[1], s[2]>>
          /\ u[s[1]].qlev = L0 /\ u[s[1]].tick =< s[2]
      BY DEF Rest
    <3>3. CASE s[1] = c BY <3>2, <3>3
    <3>4. CASE s[1] # c BY <3>2, <3>4 DEF Rest
    <3> QED BY <3>3, <3>4
  <2> QED BY <2>1
<1> HIDE DEF new
<1>3. /\ IsFiniteSet(Rest(t)) /\ Cardinality(Rest(t)) \in Nat
      /\ IsFiniteSet(Rest(u)) /\ Cardinality(Rest(u)) \in Nat
  BY RestType
<1>4. /\ IsFiniteSet(Rest(t) \cup new)
      /\ Cardinality(Rest(t) \cup new)
            = Cardinality(Rest(t)) + Cardinality(new) - Cardinality(Rest(t) \cap new)
  BY <1>1, <1>3, FS_Union
<1>5. Cardinality(Rest(t) \cap new) \in Nat
  BY <1>1, <1>3, FS_Intersection, FS_CardinalityType
<1>6. Cardinality(Rest(u)) =< Cardinality(Rest(t) \cup new) BY <1>2, <1>4, FS_Subset
<1> QED BY <1>1, <1>3, <1>4, <1>5, <1>6, ShareType

\* A tick of a process in L0 uses up one.
LEMMA RestUsed ==
    ASSUME NEW t, NEW u, NEW p \in Slot, t[p].qlev = L0, t[p].tick \in Turns,
           u[p].qlev = L0 => u[p].tick = t[p].tick + 1,
           \A q \in Slot : q # p => u[q] = t[q]
    PROVE  Cardinality(Rest(u)) + 1 =< Cardinality(Rest(t))
<1> DEFINE x == <<p, t[p].tick>>
<1>1. \A k \in Turns : k \in Int /\ k =< k BY DEF Turns
<1>2. x \in Rest(t)
  <2>1. t[p].tick =< t[p].tick BY <1>1
  <2> QED BY <2>1 DEF Rest
<1>3. Rest(u) \in SUBSET (Rest(t) \ {x})
  <2>1. \A s \in Rest(u) : s \in Rest(t) /\ s # x
    <3>1. TAKE s \in Rest(u)
    <3>2. /\ s \in Slot \X Turns /\ s[1] \in Slot /\ s[2] \in Turns
          /\ u[s[1]].qlev = L0 /\ u[s[1]].tick =< s[2]
      BY DEF Rest
    <3>3. CASE s[1] = p
      <4>1. s[2] \in Int /\ t[p].tick \in Int BY <1>1, <3>2
      <4>2. t[p].tick + 1 =< s[2] BY <3>2, <3>3
      <4>3. t[p].tick =< s[2] /\ t[p].tick # s[2] BY <4>1, <4>2
      <4> QED BY <3>2, <3>3, <4>3 DEF Rest
    <3>4. CASE s[1] # p
      <4>1. s # x BY <3>4
      <4> QED BY <3>2, <3>4, <4>1 DEF Rest
    <3> QED BY <3>3, <3>4
  <2> QED BY <2>1
<1> HIDE DEF x
<1>4. /\ IsFiniteSet(Rest(t)) /\ Cardinality(Rest(t)) \in Nat
      /\ IsFiniteSet(Rest(u)) /\ Cardinality(Rest(u)) \in Nat
  BY RestType
<1>5. IsFiniteSet(Rest(t) \ {x}) /\ Cardinality(Rest(t) \ {x}) = Cardinality(Rest(t)) - 1
  BY <1>2, <1>4, FS_RemoveElement
<1>6. Cardinality(Rest(u)) =< Cardinality(Rest(t) \ {x}) BY <1>3, <1>5, FS_Subset
<1> QED BY <1>4, <1>5, <1>6

-----------------------------------------------------------------------------
(* What the steps do to the quanta of L0 *)

\* A boost lifts everybody outside of the MoQ; another tick is used by the
\* process that runs, and takes it from L0 if it was the last of its quantum.
LEMMA TickPlaces ==
    ASSUME Layout, NEW p \in Slot, Tick(p)
    PROVE  /\ cur = p /\ UNCHANGED <<active, nextpid>>
           /\ ~active /\ gtick + 1 >= BoostTicks
                => \A q \in Slot : proc'[q].qlev # MoQ
                                      => proc'[q].qlev = L0 /\ proc'[q].tick = 0
           /\ ~(~active /\ gtick + 1 >= BoostTicks)
                => /\ \A q \in Slot : q # p => proc'[q] = proc[q]
                   /\ ~active /\ proc[p].qlev = L0 /\ proc[p].tick \in Turns
                        => \/ /\ proc'[p].qlev = L0 /\ proc'[p].tick = proc[p].tick + 1
                              /\ proc'[p].tick \in Turns /\ cur' = cur
                           \/ proc'[p].qlev # L0 /\ cur' = None
<1> DEFINE boost == ~active /\ gtick + 1 >= BoostTicks
           used == [proc EXCEPT ![p] = Charged(@)]
           table == IF boost THEN [q \in Slot |-> Boosted(used[q])] ELSE used
           outside == Cardinality({q \in Slot : proc[q].qlev # MoQ})
           counts == IF boost THEN [cnt EXCEPT ![L0] = @ + outside] ELSE cnt
           r == table[p]
           expired == ~active /\ r.qlev # MoQ /\ r.tick >= Quantum(r.qlev)
           next == Demoted(r, counts)
           out == WithState(next, "RUNNABLE")
<1>1. /\ Runs(p) /\ cur = p /\ UNCHANGED <<active, nextpid>>
  BY DEF Tick, Runs
<1>2. IF expired
        THEN proc' = [table EXCEPT ![p] = out] /\ cur' = None
        ELSE proc' = table /\ cur' = cur
  BY DEF Tick, WithState
<1> HIDE DEF boost, counts, expired, out
<1>3. /\ proc \in [Slot -> Row] /\ proc[p] \in Row /\ Sane(proc[p]) /\ Alive(proc[p])
      /\ \A q \in Slot : proc[q] \in Row /\ Sane(proc[q])
  BY <1>1, Running DEF Layout, Table
<1>4. \A q \in Slot : used[q] = IF q = p THEN Charged(proc[p]) ELSE proc[q] BY <1>3
<1>5. \A q \in Slot : used[q] \in Row /\ Sane(used[q]) BY <1>3, <1>4, ChargedRow
<1> HIDE DEF used
<1>6. CASE boost
  <2>1. table = [q \in Slot |-> Boosted(used[q])] BY <1>6
  <2> HIDE DEF table
  <2>2. \A q \in Slot : table[q] = Boosted(used[q]) BY <2>1
  <2>3. \A q \in Slot : table[q].qlev = MoQ \/ (table[q].qlev = L0 /\ table[q].tick = 0)
    <3>1. TAKE q \in Slot
    <3>2. used[q] \in Row /\ Sane(used[q]) BY <1>5
    <3> QED BY <2>2, <3>2, BoostedRow
  <2>4. ~expired
    <3>1. Share > 0 /\ Share \in Nat BY ShareType
    <3> QED BY <2>3, <3>1 DEF expired, Share
  <2>5. proc' = table BY <1>2, <2>4
  <2> QED BY <1>1, <1>6, <2>3, <2>5 DEF boost
<1>7. CASE ~boost
  <2>1. table = used BY <1>7
  <2>2. DOMAIN used = Slot BY <1>3 DEF used
  <2> HIDE DEF table
  <2>3. /\ \A q \in Slot : q # p => proc'[q] = proc[q]
        /\ proc'[p] = IF expired THEN out ELSE Charged(proc[p])
    BY <1>2, <1>4, <2>1, <2>2
  <2>4. ASSUME ~active, proc[p].qlev = L0, proc[p].tick \in Turns
        PROVE  \/ /\ proc'[p].qlev = L0 /\ proc'[p].tick = proc[p].tick + 1
                  /\ proc'[p].tick \in Turns /\ cur' = cur
               \/ proc'[p].qlev # L0 /\ cur' = None
    <3> DEFINE n == Upto(proc[p].tick, Share)
               c == WithTick(proc[p], n)
    <3>1. /\ Share \in Nat /\ proc[p].tick \in Nat /\ proc[p].tick < Share
      BY <2>4, ShareType DEF Turns
    <3>2. n = proc[p].tick + 1 /\ n \in Int BY <3>1 DEF Upto
    <3>3. L0 # MoQ BY DEF L0, MoQ
    <3>4. r = c BY <1>4, <2>1, <2>4, <3>3 DEF Charged, WithTick, Share
    <3> HIDE DEF n
    <3>5. c \in Row /\ c.qlev = L0 /\ c.tick = n /\ c.state = proc[p].state
          /\ c.seq = proc[p].seq /\ c.priority = proc[p].priority
      BY <1>3, <2>4, <3>2, WithTickRow
    <3> HIDE DEF c, r
    <3>6. Charged(proc[p]) = r BY <1>4, <2>1 DEF r
    <3>7. CASE expired
      <4>1. Sane(r) /\ Alive(r) /\ r.qlev # MoQ
        BY <1>3, <3>1, <3>2, <3>3, <3>4, <3>5, <2>4 DEF Sane, Alive
      <4>2. counts \in [Level -> Nat]
        <5>1. cnt \in [Level -> Nat] BY DEF Layout, Counters
        <5> QED BY <1>7, <5>1 DEF counts
      <4>3. next \in Row /\ next.qlev \in {1, 2, 3}
        <5>1. r \in Row BY <3>4, <3>5
        <5> QED BY <4>1, <4>2, <5>1, DemotedRow
      <4> HIDE DEF next
      <4>4. "RUNNABLE" \in States BY DEF States
      <4>5. out.qlev = next.qlev BY <4>3, <4>4, WithStateRow DEF out
      <4> QED BY <1>2, <2>3, <3>7, <4>3, <4>5 DEF L0
    <3>8. CASE ~expired
      <4>1. ~(n >= Share) BY <2>4, <3>3, <3>4, <3>5, <3>8 DEF expired, Share
      <4>2. n \in Turns BY <3>1, <3>2, <4>1 DEF Turns
      <4> QED BY <1>2, <2>3, <3>2, <3>4, <3>5, <3>6, <3>8, <4>2
    <3> QED BY <3>7, <3>8
  <2> QED BY <1>1, <1>7, <2>3, <2>4 DEF boost
<1> QED BY <1>6, <1>7

\* What the other steps leave of the places.
Places ==
    \A q \in Slot :
        \/ (proc'[q].qlev = proc[q].qlev /\ proc'[q].tick = proc[q].tick)
        \/ proc'[q].qlev = MoQ
        \/ (Is(q, "RUNNING") /\ proc'[q].qlev = -1)

\* setmonopoly does not move its caller.
LEMMA CallerStays ==
    ASSUME Layout, NEW p \in Slot, NEW n \in 0 .. MaxPid, SetMonopoly(p, n)
    PROVE  proc'[p] = proc[p]
<1> DEFINE found == {q \in Slot : proc[q].pid = n}
           stop  == {q \in found : proc[q].qlev = MoQ \/ q = p}
           new   == {q \in found : \A s \in stop : q < s}
           y(q)  == [proc[q] EXCEPT !.qlev = MoQ,
                        !.seq = MoqPosition(Cardinality({d \in new : d < q}))]
<1>1. p \notin new BY DEF Slot
<1>2. proc' = [q \in Slot |-> IF q \in new THEN y(q) ELSE proc[q]] BY DEF SetMonopoly
<1> HIDE DEF new, y
<1> QED BY <1>1, <1>2

\* Every step but a tick and a fork leaves the places, and the scheduler takes
\* the process it runs from what is ready.
LEMMA PlacesStep ==
    ASSUME Layout, Next, ~Ticks, ~(\E p \in Slot : Fork(p))
    PROVE  /\ Places /\ nextpid' = nextpid
           /\ \/ cur' = None
              \/ /\ cur' = cur
                 /\ cur \in Slot => /\ proc'[cur].qlev = proc[cur].qlev
                                   /\ proc'[cur].tick = proc[cur].tick
              \/ cur' \in Slot /\ Dispatch(cur')
<1>1. nextpid' = nextpid
  BY DEF Ticks, Next, LeaveMonopoly, AcquirePanics, Dispatch, Wake, ForkReturns, Exit, Wait,
         Sleep, Yield, SetPriority, PriorityWritten, Monopolies, SetMonopoly, Monopolize,
         Unmonopolize
<1>2. CASE Others
  <2>1. Still BY <1>2, OthersStep
  <2>2. cur' = None \/ cur' = cur \/ \E p \in Slot : cur' = p /\ Dispatch(p)
    BY <1>2 DEF Others, LeaveMonopoly, AcquirePanics, Dispatch, Wake, Wait, Sleep, Yield,
                SetPriority, PriorityWritten, Monopolize, Unmonopolize
  <2> QED BY <1>1, <2>1, <2>2 DEF Still, Kept, Places
<1>3. CASE \E p \in Slot : ForkReturns(p)
  <2>1. PICK c \in Slot : /\ proc'[c].qlev = proc[c].qlev /\ proc'[c].tick = proc[c].tick
                          /\ \A q \in Slot : q # c => proc'[q] = proc[q]
    BY <1>3, ForkReturnsStep
  <2>2. cur' = cur BY <1>3 DEF ForkReturns
  <2> QED BY <1>1, <2>1, <2>2 DEF Places
<1>4. CASE \E p \in Slot : Exit(p)
  <2>1. PICK p \in Slot : Exit(p) BY <1>4
  <2>2. /\ Is(p, "RUNNING") /\ proc'[p].qlev = -1
        /\ \A q \in Slot : q # p => Kept(proc[q], proc'[q])
    BY <2>1, ExitStep
  <2>3. cur' = None BY <2>1 DEF Exit
  <2> QED BY <1>1, <2>2, <2>3 DEF Places, Kept
<1>5. CASE \E p \in Slot, n \in 0 .. MaxPid : SetMonopoly(p, n)
  <2>1. PICK p \in Slot : \E n \in 0 .. MaxPid : SetMonopoly(p, n) BY <1>5
  <2>2. PICK new \in SUBSET Slot :
           /\ \A q \in new : proc'[q].qlev = MoQ
           /\ \A q \in Slot : q \notin new => proc'[q] = proc[q]
    BY <2>1, SetMonopolyStep
  <2>3. proc'[p] = proc[p] BY <2>1, CallerStays
  <2>4. cur = p /\ cur' = cur BY <2>1 DEF SetMonopoly, InUser, Runs
  <2> QED BY <1>1, <2>2, <2>3, <2>4 DEF Places
<1> QED BY <1>2, <1>3, <1>4, <1>5, Steps DEF Ticks

\* While somebody in L0 waits, the scheduler runs nobody from below.
LEMMA FromL0 ==
    ASSUME Layout, ~active, NEW w \in Slot, Is(w, "RUNNABLE"), proc[w].qlev = L0,
           NEW p \in Slot, Dispatch(p)
    PROVE  proc[p].qlev = L0
<1>1. w \in Eligible /\ p \in Eligible BY DEF Eligible, Ready, Dispatch
<1>2. Is(p, "RUNNABLE") BY <1>1 DEF Eligible, Ready
<1>3. proc[p].qlev \in Level BY <1>2 DEF Layout, Table, Sane, Alive, Is
<1>4. p = w \/ Before(p, w) BY <1>1 DEF Dispatch
<1> QED BY <1>3, <1>4 DEF Before, L0, Level

\* What the clock does in a step.
LEMMA ClockTypes ==
    ASSUME Layout, Layout', WaitInv, WaitNext
    PROVE  /\ waiters' \in SUBSET Slot
           /\ ticks' \in Nat /\ boostpid' \in Nat /\ boostpid' =< nextpid'
<1>1. nextpid \in Nat /\ nextpid' \in Nat BY DEF Layout, Counters
<1>2. nextpid' >= nextpid
  <2>1. CASE Ticks
    <3>1. nextpid' = nextpid BY <2>1 DEF Ticks, Tick
    <3> QED BY <1>1, <3>1
  <2>2. CASE \E p \in Slot : Fork(p)
    <3>1. nextpid' = nextpid + 1 BY <2>2 DEF Fork
    <3> QED BY <1>1, <3>1
  <2>3. CASE ~Ticks /\ ~(\E p \in Slot : Fork(p))
    <3>1. nextpid' = nextpid BY <2>3, PlacesStep DEF WaitNext
    <3> QED BY <1>1, <3>1
  <2> QED BY <2>1, <2>2, <2>3
<1>3. waiters' \in SUBSET Slot BY DEF WaitNext, Waiting
<1>4. ticks' \in Nat BY DEF WaitNext, WaitInv
<1>5. boostpid' \in Nat /\ boostpid' =< nextpid'
  <2>1. boostpid' = nextpid \/ boostpid' = boostpid BY DEF WaitNext
  <2>2. boostpid \in Nat /\ boostpid =< nextpid BY DEF WaitInv
  <2> QED BY <1>1, <1>2, <2>1, <2>2
<1> QED BY <1>3, <1>4, <1>5

\* After a boost everybody who is not in the MoQ has the whole quantum of L0.
LEMMA BoostKeeps ==
    ASSUME Layout, Layout', WaitInv, WaitNext, Boosts
    PROVE  WaitInv'
<1>1. PICK p \in Slot : Tick(p) BY DEF Boosts, Ticks
<1>2. /\ nextpid' = nextpid
      /\ \A q \in Slot : proc'[q].qlev # MoQ => proc'[q].qlev = L0 /\ proc'[q].tick = 0
  BY <1>1, TickPlaces DEF Boosts
<1>3. /\ waiters' = IF Monopolized' THEN {} ELSE Waiting(proc') \cap Slot
      /\ ticks' = 0 /\ boostpid' = nextpid
  BY DEF WaitNext
<1>4. L0 # MoQ BY DEF L0, MoQ
<1>5. \A q \in Slot : proc'[q].qlev = L0 => proc'[q].tick \in Turns
  BY <1>2, <1>4, ShareType
<1>6. \A w \in waiters' : /\ w \in Slot /\ proc'[w].state = "RUNNABLE"
                          /\ proc'[w].qlev = L0 /\ proc'[w].tick = 0
  BY <1>2, <1>3 DEF Waiting
<1>7. cur' \in Slot \cup {None} BY DEF Layout, OneRuns
<1>8. ~Monopolized' /\ cur' # None => proc'[cur'].qlev = L0
  BY <1>2, <1>7 DEF Monopolized
<1>9. ticks' + Cardinality(Rest(proc')) =< Share * (NProc + (nextpid' - boostpid'))
  <2>1. nextpid \in Nat BY DEF Layout, Counters
  <2>2. NProc + (nextpid' - boostpid') = NProc BY <1>2, <1>3, <2>1, ShareType
  <2>3. /\ Cardinality(Rest(proc')) \in Nat
        /\ Cardinality(Rest(proc')) =< Share * NProc
    BY RestType
  <2>4. ticks' + Cardinality(Rest(proc')) = Cardinality(Rest(proc')) BY <1>3, <2>3
  <2> QED BY <2>2, <2>3, <2>4
<1>10. waiters' # {} => ~Monopolized' BY <1>3
<1> QED BY <1>5, <1>6, <1>8, <1>9, <1>10, ClockTypes DEF WaitInv, Is

\* Another tick is one less that L0 has left.
LEMMA TickKeeps ==
    ASSUME Layout, Layout', WaitInv, WaitNext, Ticks, ~Boosts
    PROVE  WaitInv'
<1>1. SUFFICES ASSUME waiters' # {}
               PROVE  /\ ~Monopolized'
                      /\ \A q \in Slot : proc'[q].qlev = L0 => proc'[q].tick \in Turns
                      /\ \A w \in waiters' : /\ proc'[w].state = "RUNNABLE"
                                             /\ proc'[w].qlev = L0 /\ proc'[w].tick = 0
                      /\ cur' # None => proc'[cur'].qlev = L0
                      /\ ticks' + Cardinality(Rest(proc'))
                            =< Share * (NProc + (nextpid' - boostpid'))
  BY ClockTypes DEF WaitInv, Is
<1>2. /\ ~Monopolized' /\ waiters' \in SUBSET waiters /\ waiters # {}
      /\ ticks' = ticks + 1 /\ boostpid' = boostpid
  BY <1>1 DEF WaitNext
<1>3. /\ ~Monopolized /\ waiters \in SUBSET Slot
      /\ \A q \in Slot : proc[q].qlev = L0 => proc[q].tick \in Turns
      /\ \A w \in waiters : proc[w].state = "RUNNABLE" /\ proc[w].qlev = L0 /\ proc[w].tick = 0
      /\ cur # None => proc[cur].qlev = L0
      /\ ticks + Cardinality(Rest(proc)) =< Share * (NProc + (nextpid - boostpid))
      /\ ticks \in Nat /\ boostpid \in Nat
  BY <1>2 DEF WaitInv, Is
<1>4. PICK p \in Slot : Tick(p) BY DEF Ticks
<1>5. ~(~active /\ gtick + 1 >= BoostTicks) /\ ~active BY <1>3 DEF Boosts, Monopolized
<1>6. /\ cur = p /\ nextpid' = nextpid
      /\ \A q \in Slot : q # p => proc'[q] = proc[q]
  BY <1>4, <1>5, TickPlaces
<1>7. /\ proc[p].state = "RUNNING" /\ proc[p].qlev = L0 /\ proc[p].tick \in Turns
  <2>1. Runs(p) /\ p # None BY <1>4, Words DEF Tick
  <2>2. Is(p, "RUNNING") BY <2>1, Running
  <2> QED BY <1>3, <1>6, <2>1, <2>2 DEF Is
<1>8. \/ /\ proc'[p].qlev = L0 /\ proc'[p].tick = proc[p].tick + 1
         /\ proc'[p].tick \in Turns /\ cur' = cur
      \/ proc'[p].qlev # L0 /\ cur' = None
  BY <1>4, <1>5, <1>7, TickPlaces
<1>9. \A q \in Slot : proc'[q].qlev = L0 => proc'[q].tick \in Turns
  BY <1>3, <1>6, <1>8
<1>10. \A w \in waiters' : w # p /\ proc'[w] = proc[w]
  BY <1>2, <1>3, <1>6, <1>7
<1>11. ticks' + Cardinality(Rest(proc')) =< Share * (NProc + (nextpid' - boostpid'))
  <2>1. Cardinality(Rest(proc')) + 1 =< Cardinality(Rest(proc))
    BY <1>6, <1>7, <1>8, RestUsed
  <2>2. Cardinality(Rest(proc)) \in Nat /\ Cardinality(Rest(proc')) \in Nat BY RestType
  <2>3. Share * (NProc + (nextpid' - boostpid')) = Share * (NProc + (nextpid - boostpid))
    BY <1>2, <1>6
  <2>4. ticks' + Cardinality(Rest(proc')) =< ticks + Cardinality(Rest(proc))
    BY <1>2, <1>3, <2>1, <2>2
  <2>5. Share * (NProc + (nextpid - boostpid)) \in Int
    <3>1. nextpid \in Nat BY DEF Layout, Counters
    <3>2. NProc + (nextpid - boostpid) \in Int BY <1>3, <3>1, ShareType
    <3> QED BY <3>2, ShareType, Product
  <2> QED BY <1>2, <1>3, <2>2, <2>3, <2>4, <2>5
<1> QED BY <1>2, <1>3, <1>6, <1>8, <1>9, <1>10, <1>11

\* A fork adds a quantum.
LEMMA ForkKeeps ==
    ASSUME Layout, Layout', WaitInv, WaitNext, ~Ticks, NEW p \in Slot, Fork(p)
    PROVE  WaitInv'
<1>1. SUFFICES ASSUME waiters' # {}
               PROVE  /\ ~Monopolized'
                      /\ \A q \in Slot : proc'[q].qlev = L0 => proc'[q].tick \in Turns
                      /\ \A w \in waiters' : /\ proc'[w].state = "RUNNABLE"
                                             /\ proc'[w].qlev = L0 /\ proc'[w].tick = 0
                      /\ cur' # None => proc'[cur'].qlev = L0
                      /\ ticks' + Cardinality(Rest(proc'))
                            =< Share * (NProc + (nextpid' - boostpid'))
  BY ClockTypes DEF WaitInv, Is
<1>2. /\ ~Monopolized' /\ waiters' \in SUBSET waiters /\ waiters # {}
      /\ ticks' = ticks /\ boostpid' = boostpid
  BY <1>1 DEF WaitNext, Boosts
<1>3. /\ ~Monopolized /\ waiters \in SUBSET Slot
      /\ \A q \in Slot : proc[q].qlev = L0 => proc[q].tick \in Turns
      /\ \A w \in waiters : proc[w].state = "RUNNABLE" /\ proc[w].qlev = L0 /\ proc[w].tick = 0
      /\ cur # None => proc[cur].qlev = L0
      /\ ticks + Cardinality(Rest(proc)) =< Share * (NProc + (nextpid - boostpid))
      /\ ticks \in Nat /\ boostpid \in Nat
  BY <1>2 DEF WaitInv, Is
<1>4. PICK c \in Slot : /\ proc[c].state = "UNUSED"
                        /\ proc'[c].qlev = L0 /\ proc'[c].tick = 0
                        /\ \A q \in Slot : q # c => proc'[q] = proc[q]
  BY ForkStep DEF Is
<1>5. Runs(p) /\ cur' = cur /\ nextpid' = nextpid + 1 BY DEF Fork, InUser
<1>6. cur = p /\ proc[p].state = "RUNNING" BY <1>5, Running DEF Is
<1>7. \A q \in Slot : proc'[q].qlev = L0 => proc'[q].tick \in Turns
  BY <1>3, <1>4, ShareType
<1>8. \A w \in waiters' : proc'[w] = proc[w] BY <1>2, <1>3, <1>4
<1>9. ticks' + Cardinality(Rest(proc')) =< Share * (NProc + (nextpid' - boostpid'))
  <2>1. Cardinality(Rest(proc')) =< Cardinality(Rest(proc)) + Share BY <1>4, RestGrows
  <2>2. Cardinality(Rest(proc)) \in Nat /\ Cardinality(Rest(proc')) \in Nat BY RestType
  <2> DEFINE b == NProc + (nextpid - boostpid)
  <2>3. nextpid \in Nat BY DEF Layout, Counters
  <2>4. b \in Int /\ NProc + (nextpid' - boostpid') = b + 1
    BY <1>2, <1>3, <1>5, <2>3, ShareType
  <2>5. ticks + Cardinality(Rest(proc)) =< Share * b BY <1>3
  <2> HIDE DEF b
  <2>6. Share * b \in Int /\ Share * (b + 1) = Share * b + Share BY <2>4, ShareType, Product
  <2> DEFINE m == Share * b
             r == Cardinality(Rest(proc))
             s == Cardinality(Rest(proc'))
  <2>7. /\ m \in Int /\ r \in Nat /\ s \in Nat /\ ticks + r =< m /\ s =< r + Share
    BY <2>1, <2>2, <2>5, <2>6
  <2>8. Share * (NProc + (nextpid' - boostpid')) = m + Share BY <2>4, <2>6
  <2> HIDE DEF m, r, s
  <2>9. ticks' + s =< m + Share BY <1>2, <1>3, <2>7, ShareType
  <2> QED BY <2>8, <2>9 DEF s
<1> QED BY <1>2, <1>3, <1>4, <1>5, <1>6, <1>7, <1>8, <1>9

\* What else happens leaves what L0 has left, or takes from it.
LEMMA PlacesKeep ==
    ASSUME Layout, Layout', WaitInv, WaitNext, ~Ticks, ~(\E p \in Slot : Fork(p))
    PROVE  WaitInv'
<1>1. SUFFICES ASSUME waiters' # {}
               PROVE  /\ ~Monopolized'
                      /\ \A q \in Slot : proc'[q].qlev = L0 => proc'[q].tick \in Turns
                      /\ \A w \in waiters' : /\ proc'[w].state = "RUNNABLE"
                                             /\ proc'[w].qlev = L0 /\ proc'[w].tick = 0
                      /\ cur' # None => proc'[cur'].qlev = L0
                      /\ ticks' + Cardinality(Rest(proc'))
                            =< Share * (NProc + (nextpid' - boostpid'))
  BY ClockTypes DEF WaitInv, Is
<1>2. /\ ~Monopolized' /\ waiters' \in SUBSET waiters /\ waiters # {}
      /\ ticks' = ticks /\ boostpid' = boostpid
      /\ \A w \in waiters' : proc'[w].state = "RUNNABLE" /\ proc'[w].qlev # MoQ
  BY <1>1 DEF WaitNext, Boosts, Waiting
<1>3. /\ ~Monopolized /\ waiters \in SUBSET Slot
      /\ \A q \in Slot : proc[q].qlev = L0 => proc[q].tick \in Turns
      /\ \A w \in waiters : proc[w].state = "RUNNABLE" /\ proc[w].qlev = L0 /\ proc[w].tick = 0
      /\ cur # None => proc[cur].qlev = L0
      /\ ticks + Cardinality(Rest(proc)) =< Share * (NProc + (nextpid - boostpid))
      /\ ticks \in Nat /\ boostpid \in Nat
  BY <1>2 DEF WaitInv, Is
<1>4. /\ Places /\ nextpid' = nextpid
      /\ \/ cur' = None
         \/ /\ cur' = cur
            /\ cur \in Slot => /\ proc'[cur].qlev = proc[cur].qlev
                              /\ proc'[cur].tick = proc[cur].tick
         \/ cur' \in Slot /\ Dispatch(cur')
  BY PlacesStep DEF WaitNext
<1>5. \A q \in Slot : proc'[q].qlev = L0 => proc[q].qlev = L0 /\ proc'[q].tick = proc[q].tick
  BY <1>4 DEF Places, L0, MoQ
<1>6. \A w \in waiters' : proc'[w].qlev = L0 /\ proc'[w].tick = 0
  <2>1. TAKE w \in waiters'
  <2>2. w \in Slot /\ ~Is(w, "RUNNING") BY <1>2, <1>3 DEF Is
  <2> QED BY <1>2, <1>3, <1>4, <2>2 DEF Places
<1>7. cur' # None => proc'[cur'].qlev = L0
  <2>1. cur \in Slot \cup {None} BY DEF Layout, OneRuns
  <2>2. CASE /\ cur' = cur
             /\ cur \in Slot => /\ proc'[cur].qlev = proc[cur].qlev
                               /\ proc'[cur].tick = proc[cur].tick
    BY <1>3, <2>1, <2>2
  <2>3. CASE cur' \in Slot /\ Dispatch(cur')
    <3>1. PICK w \in waiters : TRUE BY <1>2
    <3>2. ~active /\ w \in Slot /\ Is(w, "RUNNABLE") /\ proc[w].qlev = L0
      BY <1>3, <3>1 DEF Monopolized, Is
    <3>3. PICK d \in Slot : d = cur' /\ Dispatch(d) BY <2>3
    <3>4. proc[d].qlev = L0 BY <3>2, <3>3, FromL0
    <3>5. Still BY <3>3, DispatchStep
    <3> QED BY <3>3, <3>4, <3>5 DEF Still, Kept
  <2> QED BY <1>4, <2>2, <2>3
<1>8. ticks' + Cardinality(Rest(proc')) =< Share * (NProc + (nextpid' - boostpid'))
  <2>1. Cardinality(Rest(proc')) =< Cardinality(Rest(proc)) BY <1>5, RestShrinks
  <2>2. Cardinality(Rest(proc)) \in Nat /\ Cardinality(Rest(proc')) \in Nat BY RestType
  <2>3. Share * (NProc + (nextpid' - boostpid')) = Share * (NProc + (nextpid - boostpid))
    BY <1>2, <1>4
  <2>4. ticks' + Cardinality(Rest(proc')) =< ticks + Cardinality(Rest(proc))
    BY <1>2, <1>3, <2>1, <2>2
  <2>5. Share * (NProc + (nextpid - boostpid)) \in Int
    <3>1. nextpid \in Nat BY DEF Layout, Counters
    <3>2. NProc + (nextpid - boostpid) \in Int BY <1>3, <3>1, ShareType
    <3> QED BY <3>2, ShareType, Product
  <2> QED BY <1>2, <1>3, <2>2, <2>3, <2>4, <2>5
<1> QED BY <1>2, <1>3, <1>5, <1>6, <1>7, <1>8

\* Every step keeps the clock.
LEMMA WaitStays ==
    ASSUME Layout, WaitInv, [WaitNext]_<<vars, clock>>
    PROVE  WaitInv'
<1>1. CASE WaitNext
  <2>1. Layout' BY <1>1, LayoutStep DEF WaitNext
  <2>2. CASE Boosts BY <1>1, <2>1, <2>2, BoostKeeps
  <2>3. CASE Ticks /\ ~Boosts BY <1>1, <2>1, <2>3, TickKeeps
  <2>4. CASE ~Ticks /\ \E p \in Slot : Fork(p) BY <1>1, <2>1, <2>4, ForkKeeps
  <2>5. CASE ~Ticks /\ ~(\E p \in Slot : Fork(p)) BY <1>1, <2>1, <2>5, PlacesKeep
  <2> QED BY <2>2, <2>3, <2>4, <2>5
<1>2. CASE UNCHANGED <<vars, clock>>
  <2>1. UNCHANGED <<proc, cur, active, nextpid, waiters, ticks, boostpid>>
    BY <1>2 DEF vars, clock
  <2> QED BY <2>1 DEF WaitInv, Monopolized, Is
<1> QED BY <1>1, <1>2

\* Who waits has the whole quantum left: the others can have had only the rest.
LEMMA WaitersHave ==
    ASSUME Layout, WaitInv
    PROVE  NoStarvation
<1>1. SUFFICES ASSUME waiters # {}
               PROVE  ticks =< Share * (NProc - Cardinality(waiters) + (nextpid - boostpid))
  BY DEF NoStarvation, Share
<1>2. /\ waiters \in SUBSET Slot /\ ticks \in Nat /\ boostpid \in Nat /\ nextpid \in Nat
      /\ \A w \in waiters : w \in Slot /\ proc[w].qlev = L0 /\ proc[w].tick = 0
      /\ ticks + Cardinality(Rest(proc)) =< Share * (NProc + (nextpid - boostpid))
  BY <1>1 DEF WaitInv, Layout, Counters
<1> DEFINE n == Cardinality(waiters)
           r == Cardinality(Rest(proc))
           b == NProc + (nextpid - boostpid)
<1>3. n \in Nat /\ Cardinality(waiters \X Turns) = Share * n BY <1>2, ShareOf
<1>4. Share * n =< r /\ r \in Nat
  <2>1. \A k \in Turns : 0 =< k BY DEF Turns
  <2>2. waiters \X Turns \in SUBSET Rest(proc) BY <1>2, <2>1 DEF Rest
  <2>3. Cardinality(waiters \X Turns) =< Cardinality(Rest(proc)) BY <2>2, RestType, FS_Subset
  <2> QED BY <1>3, <2>3, RestType
<1>5. b \in Int /\ NProc - n + (nextpid - boostpid) = b - n BY <1>2, <1>3, ShareType
<1>6. ticks + r =< Share * b BY <1>2
<1> HIDE DEF n, r, b
<1>7. /\ Share * n \in Int /\ Share * b \in Int /\ Share * (b - n) = Share * b - Share * n
  BY <1>3, <1>5, ShareType, Product
<1> DEFINE x == Share * n
           y == Share * b
<1>8. x \in Int /\ y \in Int /\ x =< r /\ ticks + r =< y /\ Share * (b - n) = y - x
  BY <1>4, <1>6, <1>7
<1> HIDE DEF x, y
<1>9. ticks =< Share * (b - n) BY <1>2, <1>4, <1>8
<1> QED BY <1>5, <1>9 DEF n

\* From a boost on, a process that can run waits at most until every other one
\* that does not wait as long, and every one that was created since, has had
\* its quantum of L0, however many there are and whatever they do
\* (trap.c:116).
THEOREM NobodyStarves == WaitSpec => []NoStarvation
<1>1. WaitInit => Layout /\ WaitInv
  <2>1. SUFFICES ASSUME WaitInit PROVE Layout /\ WaitInv OBVIOUS
  <2>2. Init /\ waiters = {} /\ ticks = 0 /\ boostpid = nextpid BY <2>1 DEF WaitInit
  <2>3. Layout BY <2>2, LayoutInit
  <2>4. nextpid \in Nat BY <2>3 DEF Layout, Counters
  <2> QED BY <2>2, <2>3, <2>4 DEF WaitInv
<1>2. Layout /\ WaitInv /\ [WaitNext]_<<vars, clock>> => (Layout /\ WaitInv)'
  <2>1. SUFFICES ASSUME Layout, WaitInv, [WaitNext]_<<vars, clock>> PROVE Layout' /\ WaitInv'
    OBVIOUS
  <2>2. [Next]_vars BY <2>1 DEF WaitNext, vars, clock
  <2> QED BY <2>1, <2>2, LayoutStep, WaitStays
<1>3. Layout /\ WaitInv => NoStarvation BY WaitersHave
<1> QED BY <1>1, <1>2, <1>3, PTL DEF WaitSpec

====
