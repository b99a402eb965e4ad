-------------------------- MODULE FilterLockProofs --------------------------
(***************************************************************************)
(* The filter lock excludes on one processor, for every number of threads.  *)
(*                                                                         *)
(* The argument: a thread that was the last to come to a level and is no    *)
(* longer waiting there had found everybody else below the level (LastIn);  *)
(* so whenever two threads are beyond a level, a third one waits at it      *)
(* (Guarded).  The waiters of the levels up to l are l + 1 different        *)
(* threads, none of them beyond l, which leaves N - 1 - l.                  *)
(***************************************************************************)
EXTENDS FilterLock, FiniteSetTheorems, TLAPS

Trying == {"flag", "turn", "scan", "check"}

\* t waits at level l: it has written turn[l] and has not got past l.
Waits(t, l) == level[t] = l /\ pc[t] \in {"scan", "check"}

\* t is below level l: not there yet, or there without having written turn[l].
Below(t, l) ==
    \/ pc[t] = "done"
    \/ level[t] < l
    \/ level[t] = l /\ pc[t] \in {"flag", "turn"}

FlagOf(t) ==
    IF pc[t] = "done" THEN 0
    ELSE IF pc[t] \in {"turn", "scan", "check"} THEN level[t] + 1
    ELSE level[t]

Typed ==
    /\ flag \in [Thread -> Int]
    /\ turn \in [Level -> Thread]
    /\ pc \in [Thread -> Trying \cup {"load", "store", "unlock", "done"}]
    /\ level \in [Thread -> 0..(N - 1)]
    /\ other \in [Thread -> Thread]

Direct == buf = [t \in Thread |-> << >>]

\* Where a thread is and what its flag says.
Place ==
    \A t \in Thread :
        /\ other[t] # t
        /\ pc[t] \in {"flag", "turn"} => other[t] = Skip(t, 0)
        /\ pc[t] \in Trying => level[t] \in Level
        /\ pc[t] \notin Trying => level[t] = N - 1
        /\ flag[t] = FlagOf(t)

\* What a waiting thread knows of the threads its scan has passed.
Scanned ==
    \A t, q \in Thread :
        pc[t] \in {"scan", "check"} /\ q < other[t] /\ q # t
            => turn[level[t]] # t \/ Below(q, level[t])

\* Whoever came to a level last waits there, or found everybody else below.
LastIn ==
    \A l \in Level :
        \/ Waits(turn[l], l)
        \/ \A q \in Thread \ {turn[l]} : Below(q, l)

\* If two threads are beyond a level, somebody waits at it.
Guarded ==
    \A l \in Level : \A p, q \in Thread :
        p # q /\ Beyond(p, l) /\ Beyond(q, l) => \E r \in Thread : Waits(r, l)

Inv == Typed /\ Direct /\ Place /\ Scanned /\ LastIn /\ Guarded

-----------------------------------------------------------------------------
(* Memory on one processor *)

LEMMA StoreIsWrite ==
    ASSUME ncpu = 1, NEW t \in Thread, NEW var, NEW i, NEW v, Store(t, var, i, v)
    PROVE  Write(var, i, v) /\ UNCHANGED buf
BY DEF Store

LEMMA LoadIsRead ==
    ASSUME Direct, NEW t \in Thread, NEW var, NEW i, NEW mem
    PROVE  Load(t, var, i, mem) = mem
<1>1. buf[t] = << >>
  BY DEF Direct
<1>2. Len(buf[t]) = 0
  BY <1>1
<1>3. 1..Len(buf[t]) = {}
  BY <1>2
<1> QED
  BY <1>3 DEF Load

LEMMA NothingToDrain ==
    ASSUME Direct, NEW t \in Thread
    PROVE  ~Drain(t)
BY DEF Direct, Drain

-----------------------------------------------------------------------------
(* What a step of thread t does, told apart by where it leads *)

\* t stores its flag, or 0 when it unlocks.
Marks(t) ==
    /\ \/ pc[t] = "flag" /\ pc' = [pc EXCEPT ![t] = "turn"]
          /\ flag' = [flag EXCEPT ![t] = level[t] + 1]
       \/ pc[t] = "unlock" /\ pc' = [pc EXCEPT ![t] = "done"]
          /\ flag' = [flag EXCEPT ![t] = 0]
    /\ UNCHANGED <<turn, level, other>>

\* t writes turn and begins to wait.
Arrives(t) ==
    /\ pc[t] = "turn" /\ pc' = [pc EXCEPT ![t] = "scan"]
    /\ turn' = [turn EXCEPT ![level[t]] = t]
    /\ UNCHANGED <<flag, level, other>>

\* t need not wait for other[t].
Cleared(t) ==
    /\ pc[t] \in {"scan", "check"}
    /\ flag[other[t]] < level[t] + 1 \/ turn[level[t]] # t

\* t goes on waiting, at the same thread or the next.
Scans(t) ==
    /\ pc[t] \in {"scan", "check"}
    /\ pc' = [pc EXCEPT ![t] = IF pc'[t] = "check" THEN "check" ELSE "scan"]
    /\ \/ UNCHANGED other
       \/ /\ Cleared(t)
          /\ Skip(t, other[t] + 1) < N
          /\ other' = [other EXCEPT ![t] = Skip(t, other[t] + 1)]
    /\ UNCHANGED <<flag, turn, level>>

\* t gets past its level.
Crosses(t) ==
    /\ Cleared(t)
    /\ ~(Skip(t, other[t] + 1) < N)
    /\ other' = [other EXCEPT ![t] = Skip(t, 0)]
    /\ level' = [level EXCEPT ![t] = @ + 1]
    /\ pc' = [pc EXCEPT ![t] = IF level[t] + 1 < N - 1 THEN "flag" ELSE "load"]
    /\ UNCHANGED <<flag, turn>>

\* t is in its critical section.
Works(t) ==
    /\ pc[t] \in {"load", "store"}
    /\ \E w \in {"load", "store", "unlock"} : pc' = [pc EXCEPT ![t] = w]
    /\ UNCHANGED <<flag, turn, level, other>>

Does(t) == Marks(t) \/ Arrives(t) \/ Scans(t) \/ Crosses(t) \/ Works(t)

LEMMA PassDoes ==
    ASSUME NEW t \in Thread, Typed, Cleared(t), Pass(t), UNCHANGED <<flag, turn>>
    PROVE  Scans(t) \/ Crosses(t)
<1>1. CASE Skip(t, other[t] + 1) < N
  BY <1>1 DEF Pass, Scans, Cleared, Typed
<1>2. CASE ~(Skip(t, other[t] + 1) < N)
  BY <1>2 DEF Pass, Crosses
<1> QED
  BY <1>1, <1>2

LEMMA StepDoes ==
    ASSUME Inv, ncpu = 1, NEW t \in Thread, Step(t)
    PROVE  Does(t) /\ UNCHANGED buf
<1>1. Typed /\ Direct
  BY DEF Inv
<1>2. CASE SetFlag(t)
  BY <1>2, StoreIsWrite DEF SetFlag, Write, Does, Marks, locals
<1>3. CASE SetTurn(t)
  BY <1>3, StoreIsWrite DEF SetTurn, Write, Does, Arrives, locals
<1>4. CASE ReadFlag(t)
  <2>1. Load(t, "flag", other[t], flag[other[t]]) = flag[other[t]]
    BY <1>1, LoadIsRead
  <2>2. CASE flag[other[t]] < level[t] + 1
    <3>1. Cleared(t) /\ Pass(t) /\ UNCHANGED <<flag, turn, buf>>
      BY <1>4, <2>1, <2>2 DEF ReadFlag, Cleared, memory
    <3> QED
      BY <3>1, <1>1, PassDoes DEF Does
  <2>3. CASE ~(flag[other[t]] < level[t] + 1)
    BY <1>1, <1>4, <2>1, <2>3 DEF ReadFlag, Scans, Does, memory, Typed
  <2> QED
    BY <2>2, <2>3
<1>5. CASE ReadTurn(t)
  <2>1. Load(t, "turn", level[t], turn[level[t]]) = turn[level[t]]
    BY <1>1, LoadIsRead
  <2>2. CASE turn[level[t]] # t
    <3>1. Cleared(t) /\ Pass(t) /\ UNCHANGED <<flag, turn, buf>>
      BY <1>5, <2>1, <2>2 DEF ReadTurn, Cleared, memory
    <3> QED
      BY <3>1, <1>1, PassDoes DEF Does
  <2>3. CASE turn[level[t]] = t
    BY <1>1, <1>5, <2>1, <2>3 DEF ReadTurn, Scans, Does, memory, Typed
  <2> QED
    BY <2>2, <2>3
<1>6. CASE ReadShared(t)
  BY <1>6 DEF ReadShared, Works, Does, memory
<1>7. CASE WriteShared(t)
  BY <1>7, StoreIsWrite DEF WriteShared, Write, Works, Does
<1>8. CASE Unlock(t)
  BY <1>8, StoreIsWrite DEF Unlock, Write, Does, Marks, locals
<1> QED
  BY <1>2, <1>3, <1>4, <1>5, <1>6, <1>7, <1>8 DEF Step

-----------------------------------------------------------------------------
(* Every part of the invariant is kept *)

LEMMA SkipIsOther ==
    ASSUME NEW t \in Thread, NEW o \in Thread \cup {N}
    PROVE  /\ Skip(t, o) \in 0..(N + 1)
           /\ Skip(t, o) # t
           /\ Skip(t, 0) \in Thread
BY FilterAssumption DEF Skip, Thread

LEMMA OtherAfter ==
    ASSUME Typed, NEW t \in Thread
    PROVE  other[t] + 1 \in Thread \cup {N}
<1>1. other[t] \in Thread
  BY DEF Typed
<1> QED
  BY <1>1, FilterAssumption DEF Thread

LEMMA TypedStep ==
    ASSUME Typed, Place, NEW t \in Thread, Does(t)
    PROVE  Typed'
<1>1. CASE Marks(t)
  <2>1. level[t] \in 0..(N - 1)
    BY DEF Typed
  <2>2. level[t] + 1 \in Int
    BY <2>1
  <2> QED
    BY <1>1, <2>2 DEF Marks, Typed, Trying
<1>2. CASE Arrives(t)
  BY <1>2 DEF Arrives, Typed, Place, Trying
<1>3. CASE Scans(t)
  <2>1. other[t] + 1 \in Thread \cup {N}
    BY OtherAfter
  <2>2. Skip(t, other[t] + 1) \in 0..(N + 1)
    BY <2>1, SkipIsOther
  <2>3. Skip(t, other[t] + 1) < N => Skip(t, other[t] + 1) \in Thread
    BY <2>2, FilterAssumption DEF Thread
  <2>4. other' \in [Thread -> Thread]
    BY <1>3, <2>3 DEF Scans, Typed
  <2>5. pc' \in [Thread -> Trying \cup {"load", "store", "unlock", "done"}]
    BY <1>3 DEF Scans, Typed, Trying
  <2> QED
    BY <1>3, <2>4, <2>5 DEF Scans, Typed
<1>4. CASE Crosses(t)
  <2>1. other' \in [Thread -> Thread]
    BY <1>4, SkipIsOther, FilterAssumption DEF Crosses, Typed, Thread
  <2>2. level' \in [Thread -> 0..(N - 1)]
    <3>1. level[t] \in Level
      BY <1>4 DEF Crosses, Cleared, Place, Trying
    <3>2. level[t] + 1 \in 0..(N - 1)
      BY <3>1, FilterAssumption DEF Level
    <3> QED
      BY <1>4, <3>2 DEF Crosses, Typed
  <2>3. pc' \in [Thread -> Trying \cup {"load", "store", "unlock", "done"}]
    BY <1>4 DEF Crosses, Typed, Trying
  <2> QED
    BY <1>4, <2>1, <2>2, <2>3 DEF Crosses, Typed
<1>5. CASE Works(t)
  BY <1>5 DEF Works, Typed, Trying
<1> QED
  BY <1>1, <1>2, <1>3, <1>4, <1>5 DEF Does

LEMMA PlaceStep ==
    ASSUME Typed, Place, NEW t \in Thread, Does(t)
    PROVE  Place'
<1> SUFFICES ASSUME NEW s \in Thread
             PROVE  /\ other'[s] # s
                    /\ pc'[s] \in {"flag", "turn"} => other'[s] = Skip(s, 0)
                    /\ pc'[s] \in Trying => level'[s] \in Level
                    /\ pc'[s] \notin Trying => level'[s] = N - 1
                    /\ flag'[s] = FlagOf(s)'
  BY DEF Place
<1>0. /\ other[s] # s
      /\ pc[s] \in {"flag", "turn"} => other[s] = Skip(s, 0)
      /\ pc[s] \in Trying => level[s] \in Level
      /\ pc[s] \notin Trying => level[s] = N - 1
      /\ flag[s] = FlagOf(s)
  BY DEF Place
<1>1. CASE Marks(t)
  BY <1>0, <1>1, FilterAssumption DEF Marks, Typed, FlagOf, Trying, Level, Thread
<1>2. CASE Arrives(t)
  BY <1>0, <1>2 DEF Arrives, Typed, FlagOf, Trying
<1>3. CASE Scans(t)
  <2>1. other[t] + 1 \in Thread \cup {N}
    BY OtherAfter
  <2>2. Skip(t, other[t] + 1) # t
    BY <2>1, SkipIsOther
  <2>3. other'[s] # s
    BY <1>0, <1>3, <2>2 DEF Scans, Typed
  <2>4. s = t => pc[s] \in {"scan", "check"} /\ pc'[s] \in {"scan", "check"}
    BY <1>3 DEF Scans, Typed
  <2>5. s # t => pc'[s] = pc[s]
    BY <1>3 DEF Scans, Typed
  <2>6. UNCHANGED <<flag, level>>
    BY <1>3 DEF Scans
  <2>7. CASE s = t
    BY <1>0, <2>3, <2>4, <2>6, <2>7 DEF FlagOf, Trying
  <2>8. CASE s # t
    <3>1. other'[s] = other[s]
      BY <1>3, <2>8 DEF Scans, Typed
    <3> QED
      BY <1>0, <2>5, <2>6, <2>8, <3>1 DEF FlagOf
  <2> QED
    BY <2>7, <2>8
<1>4. CASE Crosses(t)
  <2>1. Skip(t, 0) # t
    BY SkipIsOther, FilterAssumption DEF Thread
  <2>2. other'[s] # s /\ (s = t => other'[s] = Skip(s, 0))
    BY <1>0, <1>4, <2>1 DEF Crosses, Typed
  <2>3. CASE s = t
    <3>1. /\ pc[t] \in {"scan", "check"}
          /\ level[t] \in Level
          /\ flag[t] = level[t] + 1
      BY <1>0, <1>4, <2>3 DEF Crosses, Cleared, FlagOf, Trying
    <3>2. /\ level'[t] = level[t] + 1
          /\ pc'[t] = IF level[t] + 1 < N - 1 THEN "flag" ELSE "load"
          /\ flag'[t] = flag[t]
      BY <1>4 DEF Crosses, Typed
    <3>3. /\ level[t] + 1 < N - 1 => level[t] + 1 \in Level
          /\ ~(level[t] + 1 < N - 1) => level[t] + 1 = N - 1
      BY <3>1, FilterAssumption DEF Level
    <3> QED
      BY <2>2, <2>3, <3>1, <3>2, <3>3 DEF FlagOf, Trying
  <2>4. CASE s # t
    BY <1>0, <1>4, <2>2, <2>4 DEF Crosses, Typed, FlagOf
  <2> QED
    BY <2>3, <2>4
<1>5. CASE Works(t)
  BY <1>0, <1>5 DEF Works, Typed, FlagOf, Trying
<1> QED
  BY <1>1, <1>2, <1>3, <1>4, <1>5 DEF Does

\* A thread that is below a level is so until it writes the level's turn.
LEMMA BelowStays ==
    ASSUME Typed, Place, NEW t \in Thread, Does(t),
           NEW q \in Thread, NEW l \in Level, Below(q, l),
           ~(q = t /\ Arrives(t) /\ level[t] = l)
    PROVE  Below(q, l)'
<1>1. CASE Marks(t)
  BY <1>1 DEF Marks, Typed, Below
<1>2. CASE Arrives(t)
  BY <1>2 DEF Arrives, Typed, Below
<1>3. CASE Scans(t)
  BY <1>3 DEF Scans, Typed, Below
<1>4. CASE Crosses(t)
  <2>1. CASE q = t
    <3>1. level[t] < l /\ level'[t] = level[t] + 1
      BY <1>4, <2>1 DEF Crosses, Cleared, Typed, Below
    <3>2. level'[t] = l => pc'[t] = "flag"
      BY <1>4, <3>1, FilterAssumption DEF Crosses, Typed, Level
    <3> QED
      BY <2>1, <3>1, <3>2, FilterAssumption, SMTT(30) DEF Below, Typed, Level
  <2>2. CASE q # t
    BY <1>4, <2>2 DEF Crosses, Typed, Below
  <2> QED
    BY <2>1, <2>2
<1>5. CASE Works(t)
  BY <1>5 DEF Works, Typed, Below
<1> QED
  BY <1>1, <1>2, <1>3, <1>4, <1>5 DEF Does

\* What a thread learns of other[t] when it need not wait for it.
LEMMA ClearedMeans ==
    ASSUME Typed, Place, NEW t \in Thread, Cleared(t)
    PROVE  turn[level[t]] # t \/ Below(other[t], level[t])
<1>1. level[t] \in Level /\ other[t] \in Thread
  BY DEF Cleared, Place, Trying, Typed
<1>2. CASE flag[other[t]] < level[t] + 1
  <2>1. FlagOf(other[t]) < level[t] + 1
    BY <1>1, <1>2 DEF Place
  <2>2. pc[other[t]] \notin Trying => level[other[t]] = N - 1
    BY <1>1 DEF Place
  <2> QED
    BY <1>1, <2>1, <2>2, FilterAssumption DEF FlagOf, Below, Typed, Trying, Level
<1> QED
  BY <1>2 DEF Cleared

LEMMA ScannedStep ==
    ASSUME Typed, Place, Scanned, NEW t \in Thread, Does(t)
    PROVE  Scanned'
<1> SUFFICES ASSUME NEW s \in Thread, NEW q \in Thread,
                    pc'[s] \in {"scan", "check"}, q < other'[s], q # s
             PROVE  (turn[level[s]] # s \/ Below(q, level[s]))'
  BY DEF Scanned
<1>1. CASE s # t
  <2>1. pc'[s] = pc[s] /\ other'[s] = other[s] /\ level'[s] = level[s]
    BY <1>1 DEF Does, Marks, Arrives, Scans, Crosses, Works, Typed
  <2>2. PICK l \in Level : l = level[s]
    BY <2>1 DEF Place, Trying
  <2>3. turn[l] # s \/ Below(q, l)
    BY <2>1, <2>2 DEF Scanned
  <2>4. CASE Arrives(t) /\ level[t] = l
    <3>1. turn'[l] = t
      BY <2>4 DEF Arrives, Typed
    <3> QED
      BY <1>1, <2>1, <2>2, <3>1
  <2>5. CASE ~(Arrives(t) /\ level[t] = l)
    <3>1. turn'[l] = turn[l]
      BY <2>5 DEF Does, Marks, Arrives, Scans, Crosses, Works, Typed
    <3>2. Below(q, l) => Below(q, l)'
      BY <2>5, BelowStays
    <3> QED
      BY <2>1, <2>2, <2>3, <3>1, <3>2 DEF Below
  <2> QED
    BY <2>4, <2>5
<1>2. CASE s = t
  <2>1. Arrives(t) \/ Scans(t)
    BY <1>2 DEF Does, Marks, Crosses, Works, Typed
  \* t has not looked at anybody yet: other[t] is the first of the others.
  <2>2. CASE Arrives(t)
    <3>1. q < Skip(t, 0)
      BY <1>2, <2>2 DEF Arrives, Place
    <3> QED
      BY <1>2, <3>1 DEF Skip, Thread
  <2>3. CASE Scans(t)
    <3>1. level'[t] = level[t] /\ turn' = turn /\ ~Arrives(t)
      BY <2>3 DEF Scans, Arrives
    <3>2. PICK l \in Level : l = level[t]
      BY <2>3 DEF Scans, Place, Trying
    <3>3. Below(q, l) => Below(q, l)'
      BY <3>1, BelowStays
    <3>4. turn[l] # t \/ Below(q, l)
      <4>1. CASE q < other[t]
        BY <1>2, <2>3, <3>2, <4>1 DEF Scans, Scanned
      <4>2. CASE ~(q < other[t])
        <5>1. Cleared(t) /\ other'[t] = Skip(t, other[t] + 1)
          BY <1>2, <2>3, <4>2 DEF Scans, Typed
        <5>2. q < Skip(t, other[t] + 1)
          BY <1>2, <5>1
        <5>3. other[t] \in Thread
          BY DEF Typed
        <5>4. q = other[t]
          BY <1>2, <4>2, <5>2, <5>3, FilterAssumption DEF Skip, Thread
        <5> QED
          BY <3>2, <5>1, <5>4, ClearedMeans
      <4> QED
        BY <4>1, <4>2
    <3> QED
      BY <1>2, <3>1, <3>2, <3>3, <3>4 DEF Below
  <2> QED
    BY <2>1, <2>2, <2>3
<1> QED
  BY <1>1, <1>2

\* A thread that gets past the level at which it was the last leaves
\* everybody else below that level.
LEMMA CrossingAlone ==
    ASSUME Typed, Place, Scanned, NEW t \in Thread, Crosses(t),
           turn[level[t]] = t, NEW q \in Thread, q # t
    PROVE  Below(q, level[t])
<1>1. Cleared(t) /\ pc[t] \in {"scan", "check"}
  BY DEF Crosses, Cleared
<1>2. other[t] \in Thread
  BY DEF Typed
<1>3. q =< other[t]
  BY <1>2, FilterAssumption DEF Crosses, Skip, Thread
<1>4. CASE q < other[t]
  BY <1>1, <1>4 DEF Scanned
<1>5. CASE q = other[t]
  BY <1>1, <1>5, ClearedMeans
<1> QED
  BY <1>2, <1>3, <1>4, <1>5 DEF Thread

LEMMA LastInStep ==
    ASSUME Typed, Place, Scanned, LastIn, NEW t \in Thread, Does(t)
    PROVE  LastIn'
<1> SUFFICES ASSUME NEW l \in Level
             PROVE  (\/ Waits(turn[l], l)
                     \/ \A q \in Thread \ {turn[l]} : Below(q, l))'
  BY DEF LastIn
<1>1. CASE Arrives(t) /\ level[t] = l
  <2>1. turn'[l] = t /\ level'[t] = l /\ pc'[t] = "scan"
    BY <1>1 DEF Arrives, Typed
  <2> QED
    BY <2>1 DEF Waits
<1>2. CASE ~(Arrives(t) /\ level[t] = l)
  <2>1. PICK r \in Thread : turn[l] = r /\ turn'[l] = r
    BY <1>2 DEF Does, Marks, Arrives, Scans, Crosses, Works, Typed
  <2>2. CASE \A q \in Thread \ {r} : Below(q, l)
    <3>1. \A q \in Thread \ {r} : Below(q, l)'
      BY <1>2, <2>2, BelowStays
    <3> QED
      BY <2>1, <3>1
  <2>3. CASE Waits(r, l)
    <3>1. CASE Crosses(t) /\ r = t
      <4>1. \A q \in Thread \ {r} : Below(q, l)
        BY <2>1, <2>3, <3>1, CrossingAlone DEF Waits
      <4>2. \A q \in Thread \ {r} : Below(q, l)'
        BY <1>2, <4>1, BelowStays
      <4> QED
        BY <2>1, <4>2
    <3>2. CASE ~(Crosses(t) /\ r = t)
      <4>1. level'[r] = l /\ pc'[r] \in {"scan", "check"}
        BY <2>3, <3>2 DEF Waits, Does, Marks, Arrives, Scans, Crosses, Works, Typed
      <4> QED
        BY <2>1, <4>1 DEF Waits
    <3> QED
      BY <3>1, <3>2
  <2> QED
    BY <2>1, <2>2, <2>3 DEF LastIn
<1> QED
  BY <1>1, <1>2

LEMMA GuardedStep ==
    ASSUME Typed, Place, Scanned, LastIn, Guarded, NEW t \in Thread, Does(t)
    PROVE  Guarded'
<1> SUFFICES ASSUME NEW l \in Level, NEW p \in Thread, NEW q \in Thread,
                    p # q, Beyond(p, l)', Beyond(q, l)'
             PROVE  \E r \in Thread : Waits(r, l)'
  BY DEF Guarded, Waits, Beyond
<1>1. CASE Crosses(t) /\ level[t] = l
  <2>1. PICK r \in Thread : turn[l] = r
    BY DEF Typed
  \* Of p and q one has not moved and is beyond l: t was not the last in.
  <2>2. \A s \in Thread \ {t} : Beyond(s, l)' => ~Below(s, l)
    <3>1. \A s \in Thread \ {t} : level'[s] = level[s] /\ pc'[s] = pc[s]
      BY <1>1 DEF Crosses, Typed
    <3>2. \A s \in Thread : level[s] \in Int
      BY DEF Typed
    <3> QED
      BY <3>1, <3>2 DEF Beyond, Below, Level
  <2>3. r # t
    BY <1>1, <2>1, <2>2, CrossingAlone
  <2>4. ~Below(t, l)
    BY <1>1, SMTT(30) DEF Crosses, Cleared, Typed, Below, Level
  <2>5. Waits(r, l)
    BY <2>1, <2>3, <2>4 DEF LastIn
  <2>6. level'[r] = level[r] /\ pc'[r] = pc[r]
    BY <1>1, <2>3 DEF Crosses, Typed
  <2>7. Waits(r, l)'
    BY <2>5, <2>6 DEF Waits
  <2> QED
    BY <2>7
<1>2. CASE ~(Crosses(t) /\ level[t] = l)
  <2>1. \A s \in Thread : Beyond(s, l)' => Beyond(s, l)
    <3>1. CASE Crosses(t)
      <4>1. level[t] \in Level /\ pc[t] \in {"scan", "check"}
        BY <3>1 DEF Crosses, Cleared, Place, Trying
      <4>2. level'[t] = level[t] + 1 /\ \A s \in Thread \ {t} : level'[s] = level[s] /\ pc'[s] = pc[s]
        BY <3>1 DEF Crosses, Typed
      <4> QED
        BY <1>2, <3>1, <4>1, <4>2 DEF Beyond, Level
    <3>2. CASE ~Crosses(t)
      BY <3>2 DEF Beyond, Does, Marks, Arrives, Scans, Works, Typed
    <3> QED
      BY <3>1, <3>2
  <2>2. PICK r \in Thread : Waits(r, l)
    BY <2>1 DEF Guarded
  <2>3. Waits(r, l)'
    BY <1>2, <2>2 DEF Waits, Does, Marks, Arrives, Scans, Crosses, Works, Typed
  <2> QED
    BY <2>3
<1> QED
  BY <1>1, <1>2

-----------------------------------------------------------------------------
(* The invariant *)

LEMMA InitInv == Init /\ ncpu = 1 => Inv
<1> SUFFICES ASSUME Init
             PROVE  Inv
  OBVIOUS
<1>1. \A t \in Thread : Skip(t, 0) \in Thread /\ Skip(t, 0) # t
  BY FilterAssumption, SkipIsOther DEF Thread
<1>2. 0 \in Level /\ 0 \in Thread
  BY FilterAssumption DEF Level, Thread
<1>3. Typed
  BY <1>1, <1>2, FilterAssumption DEF Init, Typed, Trying
<1>4. Direct
  BY DEF Init, Direct
<1>5. Place
  BY <1>1, <1>2 DEF Init, Place, FlagOf, Trying
<1>6. Scanned
  BY DEF Init, Scanned
<1>7. LastIn
  BY <1>2 DEF Init, LastIn, Below, Level
<1>8. Guarded
  BY DEF Init, Guarded, Beyond, Level
<1> QED
  BY <1>3, <1>4, <1>5, <1>6, <1>7, <1>8 DEF Inv

LEMMA StepInv == (ncpu = 1 => Inv) /\ [Next]_vars => (ncpu = 1 => Inv)'
<1> SUFFICES ASSUME ncpu = 1 => Inv, [Next]_vars, ncpu' = 1
             PROVE  Inv'
  OBVIOUS
<1>1. ncpu' = ncpu
  BY DEF Next, Step, SetFlag, SetTurn, ReadFlag, ReadTurn, ReadShared,
         WriteShared, Unlock, Drain, vars
<1>2. Inv /\ ncpu = 1
  BY <1>1
<1>3. Typed /\ Direct /\ Place /\ Scanned /\ LastIn /\ Guarded
  BY <1>2 DEF Inv
<1>4. ASSUME NEW t \in Thread, Step(t)
      PROVE  Inv'
  <2>1. Does(t) /\ Direct'
    BY <1>2, <1>3, <1>4, StepDoes DEF Direct
  <2>2. Typed' /\ Place' /\ Scanned' /\ LastIn' /\ Guarded'
    BY <1>3, <2>1, TypedStep, PlaceStep, ScannedStep, LastInStep, GuardedStep
  <2> QED
    BY <2>1, <2>2 DEF Inv
<1>5. CASE UNCHANGED vars
  BY <1>3, <1>5
     DEF vars, memory, locals, Inv, Typed, Direct, Place, Scanned, LastIn, Guarded,
         FlagOf, Below, Waits, Beyond
<1> QED
  BY <1>3, <1>4, <1>5, NothingToDrain DEF Next

-----------------------------------------------------------------------------
(* From the invariant to the properties *)

\* While two threads are beyond level l, all lower levels have a waiter.
LEMMA WaiterOfEachLevel ==
    ASSUME Inv, NEW l \in Level, NEW p \in Thread, NEW q \in Thread,
           p # q, Beyond(p, l), Beyond(q, l), NEW k \in 0..l
    PROVE  \E r \in Thread : Waits(r, k)
<1>1. k \in Level /\ k =< l
  BY FilterAssumption DEF Level
<1>2. level[p] \in Int /\ level[q] \in Int
  BY DEF Inv, Typed
<1>3. Beyond(p, k) /\ Beyond(q, k)
  BY <1>1, <1>2 DEF Beyond, Level
<1> QED
  BY <1>1, <1>3 DEF Inv, Guarded

LEMMA FewBeyond ==
    ASSUME Inv, NEW l \in Level
    PROVE  Cardinality({t \in Thread : Beyond(t, l)}) =< N - 1 - l
<1> DEFINE B == {t \in Thread : Beyond(t, l)}
<1>1. IsFiniteSet(Thread) /\ Cardinality(Thread) = N
  BY FS_Interval, FilterAssumption DEF Thread
<1>2. IsFiniteSet(B) /\ Cardinality(B) \in Nat
  BY <1>1, FS_Subset, FS_CardinalityType
<1>3. l \in Int /\ 0 =< l /\ l =< N - 2
  BY FilterAssumption DEF Level
<1>4. CASE \E p, q \in B : p # q
  <2>1. \A k \in 0..l : \E r \in Thread : Waits(r, k)
    BY <1>4, WaiterOfEachLevel
  <2> DEFINE w == [k \in 0..l |-> CHOOSE r \in Thread : Waits(r, k)]
  <2>2. \A k \in 0..l : w[k] \in Thread /\ Waits(w[k], k)
    BY <2>1
  <2>3. \A k \in 0..l : w[k] \in Thread \ B
    BY <1>3, <2>2 DEF Waits, Beyond
  <2>4. w \in Injection(0..l, Thread \ B)
    BY <2>2, <2>3 DEF Waits, Injection, IsInjective
  <2>5. IsFiniteSet(Thread \ B) /\ Cardinality(Thread \ B) = N - Cardinality(B)
    <3>1. Thread \cap B = B
      OBVIOUS
    <3> QED
      BY <1>1, <3>1, FS_Difference
  <2>6. Cardinality(0..l) =< Cardinality(Thread \ B)
    BY <2>4, <2>5, FS_Injection
  <2>7. Cardinality(0..l) = l + 1
    BY <1>3, FS_Interval
  <2> QED
    BY <1>2, <1>3, <2>5, <2>6, <2>7, FilterAssumption
<1>5. CASE ~\E p, q \in B : p # q
  <2>1. CASE B = {}
    BY <1>3, <2>1, FS_EmptySet, FilterAssumption
  <2>2. CASE B # {}
    <3>1. PICK p \in B : B = {p}
      BY <1>5, <2>2
    <3>2. Cardinality(B) = 1
      BY <3>1, FS_Singleton
    <3> QED
      BY <1>3, <3>2, FilterAssumption
  <2> QED
    BY <2>1, <2>2
<1> QED
  BY <1>4, <1>5

LEMMA AloneInCS ==
    ASSUME Inv, NEW s \in Thread, NEW t \in Thread, InCS(s), InCS(t)
    PROVE  s = t
<1> SUFFICES ASSUME s # t
             PROVE  FALSE
  OBVIOUS
<1> DEFINE B == {r \in Thread : Beyond(r, N - 2)}
<1>1. N - 2 \in Level
  BY FilterAssumption DEF Level
<1>2. level[s] = N - 1 /\ level[t] = N - 1
  BY DEF Inv, Place, Trying, InCS
<1>3. s \in B /\ t \in B
  BY <1>2, FilterAssumption DEF Beyond, InCS
<1>4. IsFiniteSet(B) /\ Cardinality(B) \in Nat
  <2>1. IsFiniteSet(Thread)
    BY FS_Interval, FilterAssumption DEF Thread
  <2> QED
    BY <2>1, FS_Subset, FS_CardinalityType
<1>5. Cardinality({s, t}) = 2
  <2>1. {s, t} = {s} \cup {t} /\ t \notin {s}
    OBVIOUS
  <2>2. IsFiniteSet({s}) /\ Cardinality({s}) = 1
    BY FS_Singleton
  <2> QED
    BY <2>1, <2>2, FS_AddElement
<1>6. Cardinality({s, t}) =< Cardinality(B)
  BY <1>3, <1>4, FS_Subset
<1>7. Cardinality(B) =< 1
  BY <1>1, <1>4, FewBeyond, FilterAssumption
<1> QED
  BY <1>4, <1>5, <1>6, <1>7

-----------------------------------------------------------------------------
(* The count *)

\* The increments done so far: the k-th of thread t for k up to n[t].
Done == {x \in Thread \X (1..NumIters) : x[2] =< n[x[1]]}

\* shared has one for each of them, and a thread about to store has read it.
Counted ==
    /\ shared = Cardinality(Done)
    /\ n \in [Thread -> 0..NumIters]
    /\ tmp \in [Thread -> Int]
    /\ \A t \in Thread :
          /\ pc[t] \notin {"unlock", "done"} => n[t] < NumIters
          /\ pc[t] \in {"unlock", "done"} => n[t] = NumIters
          /\ pc[t] = "store" => tmp[t] = shared

LEMMA DoneFinite == IsFiniteSet(Done) /\ Cardinality(Done) \in Nat
<1>1. IsFiniteSet(Thread) /\ IsFiniteSet(1..NumIters)
  BY FS_Interval, FilterAssumption DEF Thread
<1>2. IsFiniteSet(Thread \X (1..NumIters))
  BY <1>1, FS_Product
<1>3. IsFiniteSet(Done)
  BY <1>2, FS_Subset DEF Done
<1> QED
  BY <1>3, FS_CardinalityType

LEMMA InitCounted == Init => Counted
<1> SUFFICES ASSUME Init
             PROVE  Counted
  OBVIOUS
<1>1. \A t \in Thread : n[t] = 0
  BY DEF Init
<1>2. Done = {}
  BY <1>1 DEF Done
<1>3. shared = Cardinality(Done)
  BY <1>2, FS_EmptySet DEF Init
<1>4. n \in [Thread -> 0..NumIters] /\ tmp \in [Thread -> Int]
  BY FilterAssumption DEF Init
<1> QED
  BY <1>1, <1>3, <1>4, FilterAssumption DEF Init, Counted

\* A step that neither counts nor reads the counter.
LEMMA OtherCounted ==
    ASSUME Counted, NEW t \in Thread, Inv, NEW w, pc' = [pc EXCEPT ![t] = w],
           pc[t] \notin {"done", "store"}, w \notin {"store", "unlock"},
           w = "done" <=> pc[t] = "unlock",
           UNCHANGED <<shared, tmp, n>>
    PROVE  Counted'
<1>1. Done' = Done
  BY DEF Done
<1>2. pc \in [Thread -> Trying \cup {"load", "store", "unlock", "done"}]
  BY DEF Inv, Typed
<1>3. \A s \in Thread : pc'[s] = IF s = t THEN w ELSE pc[s]
  BY <1>2
<1>4. ASSUME NEW s \in Thread
      PROVE  /\ pc'[s] \notin {"unlock", "done"} => n[s] < NumIters
             /\ pc'[s] \in {"unlock", "done"} => n[s] = NumIters
             /\ pc'[s] = "store" => tmp[s] = shared
  BY <1>3 DEF Counted
<1> QED
  BY <1>1, <1>4 DEF Counted

\* The load of shared_resource++.
LEMMA ReadCounted ==
    ASSUME Counted, Inv, NEW t \in Thread, ReadShared(t)
    PROVE  Counted'
<1>1. Load(t, "shared", 0, shared) = shared
  BY LoadIsRead DEF Inv
<1>2. /\ tmp' = [tmp EXCEPT ![t] = shared] /\ pc' = [pc EXCEPT ![t] = "store"]
      /\ pc[t] = "load" /\ UNCHANGED <<shared, n>>
  BY <1>1 DEF ReadShared, memory
<1>3. Done' = Done
  BY <1>2 DEF Done
<1>4. pc \in [Thread -> Trying \cup {"load", "store", "unlock", "done"}]
  BY DEF Inv, Typed
<1>5. shared \in Int /\ tmp' \in [Thread -> Int]
  BY <1>2, DoneFinite DEF Counted
<1>6. ASSUME NEW s \in Thread
      PROVE  /\ pc'[s] \notin {"unlock", "done"} => n[s] < NumIters
             /\ pc'[s] \in {"unlock", "done"} => n[s] = NumIters
             /\ pc'[s] = "store" => tmp'[s] = shared
  BY <1>2, <1>4 DEF Counted
<1> QED
  BY <1>2, <1>3, <1>5, <1>6 DEF Counted

\* The store, which adds one pair to Done; no other thread has read before it.
LEMMA WriteCounted ==
    ASSUME Counted, Inv, ncpu = 1, NEW t \in Thread, WriteShared(t)
    PROVE  Counted'
<1>1. /\ pc[t] = "store" /\ shared' = tmp[t] + 1 /\ UNCHANGED tmp
      /\ n' = [n EXCEPT ![t] = n[t] + 1]
      /\ pc' = [pc EXCEPT ![t] = IF n[t] + 1 < NumIters THEN "load" ELSE "unlock"]
  BY StoreIsWrite DEF WriteShared, Write
<1>2. tmp[t] = shared /\ n[t] \in 0..NumIters /\ n[t] < NumIters
  BY <1>1 DEF Counted
<1>3. pc \in [Thread -> Trying \cup {"load", "store", "unlock", "done"}]
  BY DEF Inv, Typed
<1>4. n' \in [Thread -> 0..NumIters]
  BY <1>1, <1>2, FilterAssumption DEF Counted
<1> DEFINE x == <<t, n[t] + 1>>
<1>5. Done' = Done \cup {x} /\ x \notin Done
  <2>1. x \in Thread \X (1..NumIters)
    BY <1>2, FilterAssumption
  <2>2. \A y \in Thread \X (1..NumIters) : y[2] =< n'[y[1]] <=> y[2] =< n[y[1]] \/ y = x
    <3> SUFFICES ASSUME NEW s \in Thread, NEW k \in 1..NumIters
                 PROVE  k =< n'[s] <=> k =< n[s] \/ <<s, k>> = x
      OBVIOUS
    <3>1. n[s] \in 0..NumIters
      BY DEF Counted
    <3>2. CASE s = t
      BY <1>1, <1>2, <3>1, <3>2 DEF Counted
    <3>3. CASE s # t
      BY <1>1, <3>1, <3>3 DEF Counted
    <3> QED
      BY <3>2, <3>3
  <2>3. ~(x[2] =< n[x[1]])
    BY <1>2
  <2> QED
    BY <2>1, <2>2, <2>3 DEF Done
<1>6. shared' = Cardinality(Done')
  BY <1>1, <1>2, <1>5, DoneFinite, FS_AddElement DEF Counted
<1>7. \A s \in Thread : pc[s] = "store" => s = t
  BY <1>1, AloneInCS DEF InCS
<1>8. ASSUME NEW s \in Thread
      PROVE  /\ pc'[s] \notin {"unlock", "done"} => n'[s] < NumIters
             /\ pc'[s] \in {"unlock", "done"} => n'[s] = NumIters
             /\ pc'[s] # "store"
  <2>1. CASE s = t
    BY <1>1, <1>2, <1>3, <2>1, FilterAssumption DEF Counted
  <2>2. CASE s # t
    BY <1>1, <1>3, <1>7, <2>2 DEF Counted
  <2> QED
    BY <2>1, <2>2
<1> QED
  BY <1>1, <1>4, <1>6, <1>8 DEF Counted

\* Every access that lock and unlock make.
LEMMA LockCounted ==
    ASSUME Counted, Inv, ncpu = 1, NEW t \in Thread,
           SetFlag(t) \/ SetTurn(t) \/ ReadFlag(t) \/ ReadTurn(t) \/ Unlock(t)
    PROVE  Counted'
<1>1. UNCHANGED <<shared, tmp, n>>
  BY StoreIsWrite DEF SetFlag, SetTurn, ReadFlag, ReadTurn, Unlock, Write, memory, locals
<1>2. pc[t] \in Trying \cup {"unlock"}
  BY DEF SetFlag, SetTurn, ReadFlag, ReadTurn, Unlock, Trying
<1>3. \E w \in Trying \cup {"load", "done"} :
          pc' = [pc EXCEPT ![t] = w] /\ (w = "done" <=> pc[t] = "unlock")
  <2>1. CASE SetFlag(t) \/ SetTurn(t) \/ Unlock(t)
    BY <2>1 DEF SetFlag, SetTurn, Unlock, Trying
  <2>2. CASE ReadFlag(t) \/ ReadTurn(t)
    <3>1. pc[t] \in {"scan", "check"}
      BY <2>2 DEF ReadFlag, ReadTurn
    <3>2. Pass(t) \/ pc' = [pc EXCEPT ![t] = "check"] \/ pc' = [pc EXCEPT ![t] = "scan"]
      BY <2>2 DEF ReadFlag, ReadTurn
    <3>3. \E w \in {"scan", "check", "flag", "load"} : pc' = [pc EXCEPT ![t] = w]
      BY <3>2 DEF Pass
    <3> QED
      BY <3>1, <3>3 DEF Trying
  <2> QED
    BY <2>1, <2>2
<1>4. PICK w \in Trying \cup {"load", "done"} :
          pc' = [pc EXCEPT ![t] = w] /\ (w = "done" <=> pc[t] = "unlock")
  BY <1>3
<1>5. pc[t] \notin {"done", "store"} /\ w \notin {"store", "unlock"}
  BY <1>2 DEF Trying
<1> QED
  BY <1>1, <1>4, <1>5, OtherCounted

LEMMA CountedStep ==
    (ncpu = 1 => Inv /\ Counted) /\ [Next]_vars => (ncpu = 1 => Counted)'
<1> SUFFICES ASSUME ncpu = 1 => Inv /\ Counted, [Next]_vars, ncpu' = 1
             PROVE  Counted'
  OBVIOUS
<1>1. ncpu' = ncpu
  BY DEF Next, Step, SetFlag, SetTurn, ReadFlag, ReadTurn, ReadShared,
         WriteShared, Unlock, Drain, vars
<1>2. Inv /\ Counted /\ ncpu = 1 /\ Direct
  BY <1>1 DEF Inv
<1>3. ASSUME NEW t \in Thread, Step(t)
      PROVE  Counted'
  BY <1>2, <1>3, LockCounted, ReadCounted, WriteCounted DEF Step
<1>4. CASE UNCHANGED vars
  BY <1>2, <1>4 DEF vars, memory, locals, Counted, Done
<1> QED
  BY <1>2, <1>3, <1>4, NothingToDrain DEF Next

\* When every thread is done, Done has all pairs.
LEMMA AllCounted ==
    ASSUME Counted, \A t \in Thread : pc[t] = "done"
    PROVE  shared = N * NumIters
<1>1. \A t \in Thread : n[t] = NumIters
  BY DEF Counted
<1>2. Done = Thread \X (1..NumIters)
  BY <1>1, FilterAssumption DEF Done
<1>3. IsFiniteSet(Thread) /\ Cardinality(Thread) = N
  BY FS_Interval, FilterAssumption DEF Thread
<1>4. IsFiniteSet(1..NumIters) /\ Cardinality(1..NumIters) = NumIters
  BY FS_Interval, FilterAssumption
<1>5. Cardinality(Done) = Cardinality(Thread) * Cardinality(1..NumIters)
  BY <1>2, <1>3, <1>4, FS_Product, Zenon
<1> QED
  BY <1>3, <1>4, <1>5, Zenon DEF Counted

-----------------------------------------------------------------------------
\* The invariant behind the theorems holds on one processor.
THEOREM FilterInvariant == Spec => [](ncpu = 1 => Inv)
<1>1. Init => (ncpu = 1 => Inv)
  BY InitInv
<1> QED
  BY <1>1, StepInv, PTL DEF Spec

\* On one processor at most N - 1 - l threads are beyond level l of lock.
THEOREM FilterLevels == Spec => []LevelsFilter
<1>1. (ncpu = 1 => Inv) => LevelsFilter
  BY FewBeyond DEF LevelsFilter
<1> QED
  BY <1>1, FilterInvariant, PTL

\* On one processor lock excludes: two threads are never between lock and
\* unlock together, for any number of threads.
THEOREM FilterExcludes == Spec => []MutualExclusion
<1>1. (ncpu = 1 => Inv) => MutualExclusion
  BY AloneInCS DEF MutualExclusion
<1> QED
  BY <1>1, FilterInvariant, PTL

\* On one processor no increment is lost: when every thread has ended, the
\* counter that main prints is the number of all increments.
THEOREM FilterCounts == Spec => []EveryIncrementCounts
<1>1. Init => (ncpu = 1 => Counted)
  BY InitCounted
<1>2. (ncpu = 1 => Inv) /\ (ncpu = 1 => Counted) /\ [Next]_vars => (ncpu = 1 => Counted)'
  BY CountedStep
<1>3. (ncpu = 1 => Counted) => EveryIncrementCounts
  BY AllCounted DEF EveryIncrementCounts
<1> QED
  BY <1>1, <1>2, <1>3, FilterInvariant, PTL DEF Spec
=============================================================================
