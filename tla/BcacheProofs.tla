---------------------------- MODULE BcacheProofs ----------------------------
(***************************************************************************)
(* Proof that the buffer cache implements BlockStore, and never panics if   *)
(* there are enough buffers (Enough), for every number of processes, blocks *)
(* and buffers.  Inv relates what processes have (hold), what is locked and *)
(* counted, what is queued for the disk, and where the contents of a block  *)
(* are.                                                                     *)
(***************************************************************************)
EXTENDS Bcache, FiniteSetTheorems, TLAPS

\* There is a buffer for every use and every block that the log may pin.
Enough == Cardinality(Buf) >= Cardinality(Proc) * MaxHold + MaxPinned

\* The buffers in a sequence of the form of hold[p], and all but the last one.
Of(s) == {s[k].i : k \in 1..Len(s)}

Below(s) == {s[k].i : k \in 1..(Len(s) - 1)}

\* The places of bget and brelse at which the last buffer is not yet, or no
\* longer, locked.
Between == {"acquiresleep", "asleep", "brelse"}

\* The buffers of which p is counted as a user, and those that it has locked.
Mine(p) == Of(hold[p])

Has(p) == IF pc[p] \in Between THEN Below(hold[p]) ELSE Of(hold[p])

\* p has asked the disk for buffer i, or is about to.
Asks(p, i) == pc[p] \in {"iderw", "wait"} /\ Top(p) = i

\* The blocks are asked for once each, and are in these buffers.
Distinct(s) == \A j, k \in 1..Len(s) : s[j].b = s[k].b => j = k

Right(s, blocks) == \A k \in 1..Len(s) : blocks[s[k].i] = s[k].b

\* A process has one buffer for each of the blocks it has asked for.
HoldInv ==
    \A p \in Proc : /\ hold[p] = << >> <=> pc[p] = "idle"
                    /\ Distinct(hold[p]) /\ Right(hold[p], blockno)

\* A block is in one buffer at most, and a buffer has its sleep-lock taken by
\* the one process that uses it.
LockInv ==
    /\ \A i, j \in Buf : blockno[i] = blockno[j] /\ blockno[i] # None => i = j
    /\ \A p \in Proc, i \in Buf : locked[i] = p <=> i \in Has(p)

CountInv == \A i \in Buf : refcnt[i] = Cardinality({p \in Proc : i \in Mine(p)})

\* A valid buffer that need not be written is as on disk, what is used is
\* valid, and the disk has got what it is asked to write.
DataInv ==
    /\ \A i \in Buf : /\ dirty[i] => valid[i]
                      /\ valid[i] => blockno[i] # None /\ data[i] # None
                      /\ valid[i] /\ ~dirty[i] => data[i] = disk[blockno[i]]
    /\ \A p \in Proc : \A i \in Has(p) : valid[i] \/ Asks(p, i)
    /\ \A p \in Proc, i \in Buf : Asks(p, i) => ~valid[i] \/ dirty[i]
    /\ busy # None /\ dirty[busy] => disk[blockno[busy]] = data[busy]

\* The queue has the requests of those who wait.
QueueInv ==
    /\ QueueIsSound
    /\ \A p \in Proc : pc[p] = "wait" => \E k \in 1..Len(idequeue) : idequeue[k] = Top(p)

\* The buffers that the log has pinned.
LogPins == {i \in Buf : dirty[i] /\ \A p \in Proc : ~Asks(p, i)}

PinInv == Cardinality(LogPins) =< MaxPinned

\* If anything stops the kernel, it is a cache without an unused buffer.
OnlyFull == panic \in {None, "bget: no buffers"}

\* The inductive invariant.
Inv == TypeOK /\ OnlyFull /\ HoldInv /\ LockInv /\ CountInv /\ DataInv /\ QueueInv /\ PinInv

-----------------------------------------------------------------------------
(* Sequences and sets *)

\* What hold[p] is made of.
Item == [b : Block, i : Buf]

\* The values of pc.
Place == {"idle", "acquiresleep", "asleep", "iderw", "wait", "use", "brelse"}

\* What is known of the constants.
LEMMA Known ==
    /\ None \notin Proc /\ None \notin Int /\ None \notin Buf /\ None \notin Block
    /\ \A b \in Block : b \in Nat /\ b # 0 /\ -b \in Int
    /\ IsFiniteSet(Proc) /\ IsFiniteSet(Buf) /\ MaxHold \in Nat \ {0} /\ MaxPinned \in Nat
<1>1. \A b \in Block : b \in Nat /\ b # 0 BY BcacheAssumption
<1>2. \A b \in Block : -b \in Int BY <1>1
<1>3. None \notin Proc /\ None \notin Int /\ None \notin Buf BY BcacheAssumption
<1>4. None \notin Block
  <2>1. \A b \in Block : b \in Int BY <1>1
  <2> QED BY <2>1, <1>3
<1> QED BY <1>1, <1>2, <1>3, <1>4, BcacheAssumption

\* Append.
LEMMA Pushed ==
    ASSUME NEW S, NEW s \in Seq(S), NEW e \in S
    PROVE  /\ Append(s, e) \in Seq(S) /\ Len(Append(s, e)) = Len(s) + 1 /\ Append(s, e) # << >>
           /\ \A k \in 1..Len(s) : Append(s, e)[k] = s[k]
           /\ Append(s, e)[Len(s) + 1] = e /\ Last(Append(s, e)) = e
BY DEF Last

\* Front.
LEMMA FrontIs ==
    ASSUME NEW S, NEW s \in Seq(S), s # << >>
    PROVE  /\ Len(s) \in Nat \ {0}
           /\ Front(s) \in Seq(S) /\ Len(Front(s)) = Len(s) - 1
           /\ \A k \in 1..(Len(s) - 1) : Front(s)[k] = s[k]
           /\ Front(s) = << >> <=> Len(s) = 1
           /\ Last(s) = s[Len(s)] /\ Last(s) \in S
<1>1. Len(s) \in Nat \ {0} OBVIOUS
<1> DEFINE n == Len(s) - 1
<1>2. n \in Nat /\ n =< Len(s) BY <1>1
<1> HIDE DEF n
<1>3. SubSeq(s, 1, n) \in Seq(S) /\ Len(SubSeq(s, 1, n)) = n /\ \A k \in 1..n : SubSeq(s, 1, n)[k] = s[k]
  BY <1>1, <1>2
<1>4. SubSeq(s, 1, n) = << >> <=> n = 0 BY <1>3
<1>5. s[Len(s)] \in S BY <1>1
<1>6. n = Len(s) - 1 BY DEF n
<1>7. Front(s) = SubSeq(s, 1, n) BY <1>6 DEF Front
<1> QED BY <1>1, <1>3, <1>4, <1>5, <1>6, <1>7 DEF Last

\* One element of a sequence is moved to the end.
MovedToEnd(s, k, r) == r = Append(RemoveAt(s, k), s[k])

\* What that makes of it.
LEMMA Turned ==
    ASSUME NEW S, NEW s \in Seq(S), NEW k \in 1..Len(s), NEW r, MovedToEnd(s, k, r)
    PROVE  /\ r \in Seq(S) /\ Len(r) = Len(s) /\ Len(s) \in Nat \ {0} /\ r # << >>
           /\ \A j \in 1..Len(s) : r[j] = IF j < k THEN s[j] ELSE IF j < Len(s) THEN s[j + 1] ELSE s[k]
<1> DEFINE f == SubSeq(s, 1, k - 1)  g == SubSeq(s, k + 1, Len(s))
<1>0. Len(s) \in Nat /\ k \in Nat /\ 1 =< k /\ k =< Len(s) /\ s[k] \in S OBVIOUS
<1>1. f \in Seq(S) /\ Len(f) = k - 1 /\ \A j \in 1..(k - 1) : f[j] = s[j] BY <1>0
<1>2. g \in Seq(S) /\ Len(g) = Len(s) - k /\ \A j \in 1..(Len(s) - k) : g[j] = s[k + j] BY <1>0
<1> DEFINE h == f \o g
<1> HIDE DEF f, g
<1>3. h \in Seq(S) /\ Len(h) = Len(s) - 1
  <2>0. \A u, v \in Seq(S) : u \o v \in Seq(S) /\ Len(u \o v) = Len(u) + Len(v) OBVIOUS
  <2>1. h \in Seq(S) /\ Len(h) = Len(f) + Len(g) BY <2>0, <1>1, <1>2
  <2> HIDE DEF h
  <2> QED BY <2>1, <1>0, <1>1, <1>2
<1>4. \A j \in 1..(Len(s) - 1) : h[j] = IF j < k THEN s[j] ELSE s[j + 1]
  <2> SUFFICES ASSUME NEW j \in 1..(Len(s) - 1) PROVE h[j] = IF j < k THEN s[j] ELSE s[j + 1] OBVIOUS
  <2>1. CASE j < k
    <3>1. j \in 1..(k - 1) /\ j \in 1..Len(f) BY <2>1, <1>0, <1>1
    <3>2. h[j] = f[j] BY <3>1, <1>1, <1>2
    <3> QED BY <3>1, <3>2, <1>1, <2>1
  <2>2. CASE ~(j < k)
    <3> DEFINE m == j - (k - 1)
    <3>1. m \in 1..(Len(s) - k) /\ j = (k - 1) + m /\ k + m = j + 1 BY <2>2, <1>0
    <3> HIDE DEF m
    <3>2. h[Len(f) + m] = g[m] BY <3>1, <1>1, <1>2
    <3>3. g[m] = s[k + m] BY <3>1, <1>2
    <3> QED BY <3>1, <3>2, <3>3, <1>1, <2>2
  <2> QED BY <2>1, <2>2
<1>5. r = Append(h, s[k]) BY DEF MovedToEnd, RemoveAt, h, f, g
<1> HIDE DEF h
<1>6. r \in Seq(S) /\ Len(r) = Len(s) BY <1>0, <1>3, <1>5, Pushed
<1>7. \A j \in 1..(Len(s) - 1) : r[j] = h[j] BY <1>0, <1>3, <1>5, Pushed
<1>8. r[Len(s)] = s[k]
  <2>1. r[Len(h) + 1] = s[k] BY <1>0, <1>3, <1>5, Pushed
  <2>2. Len(h) + 1 = Len(s) BY <1>0, <1>3
  <2> QED BY ONLY <2>1, <2>2
<1>9. ASSUME NEW j \in 1..Len(s)
      PROVE  r[j] = IF j < k THEN s[j] ELSE IF j < Len(s) THEN s[j + 1] ELSE s[k]
  <2>1. CASE j < Len(s)
    <3>1. j \in 1..(Len(s) - 1) BY <2>1, <1>0
    <3> QED BY <3>1, <2>1, <1>0, <1>4, <1>7
  <2>2. CASE j = Len(s) BY <2>2, <1>0, <1>8
  <2>3. j < Len(s) \/ j = Len(s) BY <1>0
  <2> QED BY ONLY <2>1, <2>2, <2>3
<1> QED BY <1>0, <1>6, <1>9

\* bget adds a buffer that the process does not have.
Fresh(s, e) == \A k \in 1..Len(s) : s[k].b # e.b

LEMMA OfPushed ==
    ASSUME NEW s \in Seq(Item), NEW e \in Item, NEW blocks, Distinct(s), Right(s, blocks),
           blocks[e.i] = e.b, Fresh(s, e),
           NEW r, r = Append(s, e)
    PROVE  /\ r \in Seq(Item) /\ Len(r) = Len(s) + 1 /\ r # << >> /\ Last(r).i = e.i
           /\ Of(r) = Of(s) \cup {e.i} /\ Below(r) = Of(s) /\ e.i \notin Of(s)
           /\ Distinct(r) /\ Right(r, blocks)
<1>1. /\ r \in Seq(Item) /\ Len(r) = Len(s) + 1 /\ r # << >> /\ Len(s) \in Nat
      /\ \A k \in 1..Len(s) : r[k] = s[k]
      /\ r[Len(s) + 1] = e /\ Last(r) = e
  BY Pushed
<1>2. Of(r) = Of(s) \cup {e.i} /\ Below(r) = Of(s) BY <1>1 DEF Of, Below
<1>3. e.i \notin Of(s) BY DEF Of, Right, Fresh
<1>4. Distinct(r) BY <1>1 DEF Distinct, Fresh
<1>5. Right(r, blocks) BY <1>1 DEF Right
<1> QED BY <1>1, <1>2, <1>3, <1>4, <1>5

\* All buffers are those below the last one and the last one.
LEMMA OfLast ==
    ASSUME NEW s \in Seq(Item), s # << >>, NEW blocks, Distinct(s), Right(s, blocks)
    PROVE  /\ Last(s).i \in Buf /\ Of(s) = Below(s) \cup {Last(s).i} /\ Last(s).i \notin Below(s)
           /\ Of(s) \subseteq Buf /\ blocks[Last(s).i] = Last(s).b /\ Last(s).b \in Block
           /\ \A i \in Of(s) : blocks[i] \in Block
           /\ Last(s).i \in Of(s)
<1>1. /\ Len(s) \in Nat \ {0} /\ Last(s) = s[Len(s)] /\ Last(s) \in Item
      /\ \A k \in 1..Len(s) : s[k] \in Item
  BY FrontIs
<1>2. Last(s).i \in Buf /\ Last(s).b \in Block /\ blocks[Last(s).i] = Last(s).b BY <1>1 DEF Item, Right
<1>3. Of(s) = Below(s) \cup {Last(s).i} BY <1>1 DEF Of, Below
<1>4. Last(s).i \notin Below(s) BY <1>1 DEF Below, Distinct, Right
<1>5. Of(s) \subseteq Buf /\ \A i \in Of(s) : blocks[i] \in Block BY <1>1 DEF Of, Item, Right
<1> QED BY <1>2, <1>3, <1>4, <1>5

\* brelse drops the last one.
LEMMA OfFront ==
    ASSUME NEW s \in Seq(Item), s # << >>, NEW blocks, Distinct(s), Right(s, blocks), NEW r, r = Front(s)
    PROVE  /\ r \in Seq(Item) /\ Len(r) = Len(s) - 1 /\ (r = << >> <=> Len(s) = 1)
           /\ Of(r) = Below(s) /\ Distinct(r) /\ Right(r, blocks)
<1>1. /\ r \in Seq(Item) /\ Len(s) \in Nat \ {0} /\ Len(r) = Len(s) - 1 /\ (r = << >> <=> Len(s) = 1)
      /\ \A k \in 1..(Len(s) - 1) : r[k] = s[k]
  BY FrontIs
<1>2. Of(r) = Below(s) BY <1>1 DEF Of, Below
<1>3. Distinct(r) BY <1>1 DEF Distinct
<1>4. Right(r, blocks) BY <1>1 DEF Right
<1> QED BY <1>1, <1>2, <1>3, <1>4

\* bwrite and brelse of the k-th one make it the last one.
LEMMA OfTurned ==
    ASSUME NEW s \in Seq(Item), NEW k \in 1..Len(s), NEW blocks, Distinct(s), Right(s, blocks),
           NEW r, MovedToEnd(s, k, r)
    PROVE  /\ r \in Seq(Item) /\ Len(r) = Len(s) /\ r # << >> /\ Last(r).i = s[k].i
           /\ Of(r) = Of(s) /\ Below(r) = Of(s) \ {s[k].i}
           /\ Distinct(r) /\ Right(r, blocks)
<1>0. Len(s) \in Nat /\ k \in Nat /\ 1 =< k /\ k =< Len(s) OBVIOUS
<1>1. /\ r \in Seq(Item) /\ Len(r) = Len(s) /\ r # << >>
      /\ \A j \in 1..Len(s) : r[j] = IF j < k THEN s[j] ELSE IF j < Len(s) THEN s[j + 1] ELSE s[k]
  BY Turned
<1> DEFINE n == Len(s)  t == [x \in 1..n |-> IF x < k THEN x ELSE IF x < n THEN x + 1 ELSE k]
<1>2. \A x \in 1..n : t[x] \in 1..n /\ r[x] = s[t[x]] BY <1>0, <1>1
<1>3. \A x, y \in 1..n : t[x] = t[y] => x = y BY <1>0
<1>4. t[n] = k /\ n \in 1..n /\ \A x \in 1..(n - 1) : t[x] # k /\ x \in 1..n BY <1>0
<1>5. ASSUME NEW m \in 1..n, m # k PROVE \E x \in 1..(n - 1) : t[x] = m
  <2>1. CASE m < k
    <3>1. m \in 1..(n - 1) /\ t[m] = m BY <2>1, <1>0
    <3> QED BY <3>1
  <2>2. CASE m > k
    <3> DEFINE x == m - 1
    <3>1. x \in 1..(n - 1) /\ t[x] = m BY <2>2, <1>0
    <3> HIDE DEF x
    <3> QED BY <3>1
  <2> QED BY <2>1, <2>2, <1>0, <1>5
<1> HIDE DEF t
<1>6. Last(r) = s[k] BY <1>1, <1>2, <1>4, FrontIs
<1>7. \A m \in 1..n : \E x \in 1..n : t[x] = m BY <1>4, <1>5
<1>a. Len(r) = n /\ \A x \in 1..n : r[x] = s[t[x]] BY <1>1, <1>2
<1>8. Of(r) = Of(s)
  <2>1. \A i : i \in Of(r) <=> \E x \in 1..n : s[t[x]].i = i BY <1>a DEF Of
  <2>2. \A i : i \in Of(s) <=> \E m \in 1..n : s[m].i = i BY DEF Of
  <2>3. \A i : (\E x \in 1..n : s[t[x]].i = i) <=> (\E m \in 1..n : s[m].i = i) BY <1>2, <1>7
  <2> QED BY <2>1, <2>2, <2>3
<1>9. Below(r) = Of(s) \ {s[k].i}
  <2>1. \A m \in 1..n : m # k => s[m].i # s[k].i BY DEF Distinct, Right
  <2>2. \A i : i \in Below(r) <=> \E x \in 1..(n - 1) : s[t[x]].i = i
    <3>1. Below(r) = {r[x].i : x \in 1..(n - 1)} BY <1>a DEF Below
    <3>2. \A x \in 1..(n - 1) : r[x] = s[t[x]] BY <1>a, <1>4
    <3> QED BY <3>1, <3>2
  <2>3. \A i : i \in Of(s) \ {s[k].i} <=> \E m \in 1..n : m # k /\ s[m].i = i
    BY <2>1 DEF Of
  <2>4. \A i : (\E x \in 1..(n - 1) : s[t[x]].i = i) <=> (\E m \in 1..n : m # k /\ s[m].i = i)
    BY <1>2, <1>4, <1>5
  <2> QED BY <2>2, <2>3, <2>4
<1>10. Distinct(r)
  <2> SUFFICES ASSUME NEW x \in 1..n, NEW y \in 1..n, r[x].b = r[y].b PROVE x = y
    BY <1>a DEF Distinct
  <2>1. s[t[x]].b = s[t[y]].b BY <1>2
  <2>2. t[x] = t[y] BY <1>2, <2>1 DEF Distinct
  <2> QED BY <2>2, <1>3
<1>11. Right(r, blocks) BY <1>a, <1>2 DEF Right
<1> QED BY <1>1, <1>6, <1>8, <1>9, <1>10, <1>11

-----------------------------------------------------------------------------
(* What the invariant says of one process *)

\* Types.
LEMMA Types ==
    ASSUME Inv
    PROVE  /\ disk \in [Block -> Int] /\ \A b \in Block : disk[b] \in {b, -b}
           /\ idequeue \in Seq(Buf) /\ busy \in Buf \cup {None}
           /\ blockno \in [Buf -> Block \cup {None}] /\ refcnt \in [Buf -> 0..Cardinality(Proc)]
           /\ valid \in [Buf -> BOOLEAN] /\ dirty \in [Buf -> BOOLEAN]
           /\ data \in [Buf -> Int \cup {None}]
           /\ \A i \in Buf : data[i] # None => data[i] \in {blockno[i], -blockno[i]}
           /\ locked \in [Buf -> Proc \cup {None}]
           /\ pc \in [Proc -> Place] /\ hold \in [Proc -> Seq(Item)]
           /\ \A p \in Proc : Len(hold[p]) =< MaxHold
           /\ panic \in {None, "bget: no buffers"}
BY DEF Inv, TypeOK, OnlyFull, Place, Item

\* What a process has.
LEMMA Holds ==
    ASSUME Inv, NEW p \in Proc
    PROVE  /\ hold[p] \in Seq(Item) /\ Distinct(hold[p]) /\ Right(hold[p], blockno)
           /\ hold[p] # << >> <=> pc[p] # "idle"
           /\ Has(p) \subseteq Mine(p) /\ Mine(p) \subseteq Buf
           /\ \A i \in Mine(p) : blockno[i] \in Block
           /\ \A i \in Buf : locked[i] = p <=> i \in Has(p)
           /\ pc[p] # "idle" =>
                 /\ Top(p) \in Buf /\ blockno[Top(p)] \in Block
                 /\ Mine(p) = Below(hold[p]) \cup {Top(p)} /\ Top(p) \notin Below(hold[p])
                 /\ Top(p) \in Mine(p)
<1>1. /\ hold[p] \in Seq(Item) /\ Distinct(hold[p]) /\ Right(hold[p], blockno)
      /\ hold[p] # << >> <=> pc[p] # "idle"
  BY Types DEF Inv, HoldInv
<1>2. \A i \in Buf : locked[i] = p <=> i \in Has(p) BY DEF Inv, LockInv
<1>3. CASE hold[p] = << >>
  <2>1. Of(hold[p]) = {} BY <1>3 DEF Of
  <2>2. pc[p] = "idle" BY <1>1, <1>3
  <2> QED BY <1>1, <1>2, <2>1, <2>2 DEF Mine, Has, Between
<1>4. CASE hold[p] # << >>
  <2>1. /\ Last(hold[p]).i \in Buf /\ Of(hold[p]) = Below(hold[p]) \cup {Last(hold[p]).i}
        /\ Last(hold[p]).i \notin Below(hold[p]) /\ Of(hold[p]) \subseteq Buf
        /\ blockno[Last(hold[p]).i] = Last(hold[p]).b /\ Last(hold[p]).b \in Block
        /\ \A i \in Of(hold[p]) : blockno[i] \in Block
        /\ Last(hold[p]).i \in Of(hold[p])
    BY <1>1, <1>4, OfLast
  <2> QED BY <1>1, <1>2, <2>1 DEF Mine, Has, Top
<1> QED BY <1>3, <1>4

\* What a process has locked, outside bget and brelse.
LEMMA Locks ==
    ASSUME Inv, NEW p \in Proc, pc[p] \notin Between, pc[p] # "idle"
    PROVE  /\ Top(p) \in Buf /\ blockno[Top(p)] \in Block
           /\ Has(p) = Mine(p) /\ Top(p) \in Has(p) /\ locked[Top(p)] = p
<1>1. Top(p) \in Buf /\ blockno[Top(p)] \in Block /\ Top(p) \in Mine(p) BY Holds
<1>2. Has(p) = Mine(p) BY DEF Has, Mine
<1> QED BY <1>1, <1>2, Holds

\* ... and asks the disk for.
LEMMA AsksFor ==
    ASSUME Inv, NEW p \in Proc, NEW i, Asks(p, i)
    PROVE  i \in Buf /\ i \in Has(p) /\ locked[i] = p /\ Has(p) = Mine(p)
<1>1. pc[p] \notin Between /\ pc[p] # "idle" /\ Top(p) = i BY DEF Asks, Between
<1> QED BY <1>1, Locks

\* Two processes never have the same buffer locked.
LEMMA Alone ==
    ASSUME Inv, NEW p \in Proc, NEW q \in Proc, NEW i, i \in Has(p), i \in Has(q)
    PROVE  p = q
<1>1. i \in Buf BY Holds
<1> QED BY <1>1, Holds

\* A process that the step leaves where it is.
LEMMA Unmoved ==
    ASSUME NEW q, hold'[q] = hold[q], pc'[q] \in Between <=> pc[q] \in Between
    PROVE  Mine(q)' = Mine(q) /\ Has(q)' = Has(q) /\ Top(q)' = Top(q)
BY DEF Mine, Has, Top

\* The users of a buffer.
Users(i) == {p \in Proc : i \in Mine(p)}

\* There are finitely many.
LEMMA UsersFinite ==
    ASSUME NEW i
    PROVE  /\ IsFiniteSet(Users(i)) /\ IsFiniteSet(Users(i)')
           /\ Cardinality(Users(i)') \in 0..Cardinality(Proc)
<1>1. Users(i) \subseteq Proc /\ Users(i)' \subseteq Proc BY DEF Users
<1>2. /\ IsFiniteSet(Users(i)) /\ IsFiniteSet(Users(i)')
      /\ Cardinality(Users(i)') =< Cardinality(Proc)
  BY <1>1, Known, FS_Subset
<1>3. Cardinality(Users(i)') \in Nat /\ Cardinality(Proc) \in Nat BY <1>2, Known, FS_CardinalityType
<1> QED BY <1>2, <1>3

\* Counts that are right stay within their type.
LEMMA CountType ==
    ASSUME CountInv', DOMAIN refcnt' = Buf, refcnt' = [i \in Buf |-> refcnt'[i]]
    PROVE  refcnt' \in [Buf -> 0..Cardinality(Proc)]
<1>1. ASSUME NEW i \in Buf PROVE refcnt'[i] \in 0..Cardinality(Proc)
  BY UsersFinite DEF CountInv, Users
<1> QED BY <1>1

\* Nobody comes or goes.
LEMMA SameCount ==
    ASSUME CountInv, UNCHANGED refcnt, \A q \in Proc : Mine(q)' = Mine(q)
    PROVE  CountInv'
BY DEF CountInv

\* One process comes.
LEMMA OneMore ==
    ASSUME Inv, NEW p \in Proc, NEW i \in Buf, i \notin Mine(p), Mine(p)' = Mine(p) \cup {i},
           \A q \in Proc : q # p => Mine(q)' = Mine(q),
           refcnt' = [refcnt EXCEPT ![i] = refcnt[i] + 1]
    PROVE  CountInv' /\ refcnt' \in [Buf -> 0..Cardinality(Proc)]
<1>0. refcnt \in [Buf -> 0..Cardinality(Proc)] BY Types
<1>1. ASSUME NEW j \in Buf PROVE refcnt'[j] = Cardinality(Users(j)')
  <2>0. refcnt[j] = Cardinality(Users(j)) BY DEF Inv, CountInv, Users
  <2>1. CASE j = i
    <3>1. Users(j)' = Users(j) \cup {p} /\ p \notin Users(j) BY <2>1 DEF Users
    <3>2. Cardinality(Users(j) \cup {p}) = Cardinality(Users(j)) + 1
      BY <3>1, UsersFinite, FS_AddElement
    <3> QED BY <2>0, <2>1, <3>1, <3>2, <1>0
  <2>2. CASE j # i
    <3>1. Users(j)' = Users(j) BY <2>2 DEF Users
    <3> QED BY <2>0, <2>2, <3>1, <1>0
  <2> QED BY <2>1, <2>2
<1>2. CountInv' BY <1>1 DEF CountInv, Users
<1>3. DOMAIN refcnt' = Buf /\ refcnt' = [j \in Buf |-> refcnt'[j]] BY <1>0
<1> QED BY <1>2, <1>3, CountType

\* One process goes.
LEMMA OneFewer ==
    ASSUME Inv, NEW p \in Proc, NEW i \in Buf, i \in Mine(p), Mine(p)' = Mine(p) \ {i},
           \A q \in Proc : q # p => Mine(q)' = Mine(q),
           refcnt' = [refcnt EXCEPT ![i] = refcnt[i] - 1]
    PROVE  CountInv' /\ refcnt' \in [Buf -> 0..Cardinality(Proc)]
<1>0. refcnt \in [Buf -> 0..Cardinality(Proc)] BY Types
<1>1. ASSUME NEW j \in Buf PROVE refcnt'[j] = Cardinality(Users(j)')
  <2>0. refcnt[j] = Cardinality(Users(j)) BY DEF Inv, CountInv, Users
  <2>1. CASE j = i
    <3>1. Users(j)' = Users(j) \ {p} /\ p \in Users(j) BY <2>1 DEF Users
    <3>2. Cardinality(Users(j) \ {p}) = Cardinality(Users(j)) - 1
      BY <3>1, UsersFinite, FS_RemoveElement
    <3> QED BY <2>0, <2>1, <3>1, <3>2, <1>0
  <2>2. CASE j # i
    <3>1. Users(j)' = Users(j) BY <2>2 DEF Users
    <3> QED BY <2>0, <2>2, <3>1, <1>0
  <2> QED BY <2>1, <2>2
<1>2. CountInv' BY <1>1 DEF CountInv, Users
<1>3. DOMAIN refcnt' = Buf /\ refcnt' = [j \in Buf |-> refcnt'[j]] BY <1>0
<1> QED BY <1>2, <1>3, CountType

\* The queue stays, and those who wait go on waiting.
LEMMA SameQueue ==
    ASSUME QueueInv, UNCHANGED <<idequeue, busy>>,
           \A q \in Proc : pc'[q] = "wait" <=> pc[q] = "wait",
           \A q \in Proc : pc[q] = "wait" =>
                Top(q)' = Top(q) /\ (locked[Top(q)] = q => locked'[Top(q)] = q)
    PROVE  QueueInv'
<1>1. \A q \in Proc : pc'[q] = "wait" => \E k \in 1..Len(idequeue') : idequeue'[k] = Top(q)'
  BY DEF QueueInv
<1>2. QueueIsSound' BY DEF QueueInv, QueueIsSound
<1> QED BY <1>1, <1>2 DEF QueueInv

\* The log pins no more than before.
LEMMA SamePins ==
    ASSUME Inv, LogPins' \subseteq LogPins
    PROVE  PinInv'
<1> DEFINE m == Cardinality(LogPins)  n == Cardinality(LogPins')
<1>1. IsFiniteSet(LogPins) BY Known, FS_Subset DEF LogPins
<1>2. n =< m /\ IsFiniteSet(LogPins') BY <1>1, FS_Subset
<1>3. m \in Nat /\ n \in Nat /\ m =< MaxPinned BY <1>1, <1>2, FS_CardinalityType DEF Inv, PinInv
<1> HIDE DEF m, n
<1>4. n =< MaxPinned BY <1>2, <1>3, Known
<1> QED BY <1>4 DEF PinInv, n

\* A step in which at most the kernel stops keeps it.
LEMMA StopInv ==
    ASSUME Inv, OnlyFull',
           UNCHANGED <<disk, idequeue, busy, blockno, refcnt, valid, dirty, data, locked, pc, hold>>
    PROVE  Inv'
<1>1. UNCHANGED <<disk, idequeue, busy, blockno, refcnt, valid, dirty, data, locked, pc, hold>>
  OBVIOUS
<1>2. \A q \in Proc : Mine(q)' = Mine(q) /\ Has(q)' = Has(q) /\ Top(q)' = Top(q) BY <1>1, Unmoved
<1>3. \A q \in Proc : \A j : Asks(q, j)' <=> Asks(q, j) BY <1>1, <1>2 DEF Asks
<1>4. TypeOK' BY <1>1, Types DEF TypeOK, Item, Place
<1>5. HoldInv' BY <1>1 DEF Inv, HoldInv
<1>6. LockInv' BY <1>1, <1>2 DEF Inv, LockInv
<1>7. CountInv' BY <1>1, <1>2, SameCount DEF Inv
<1>8. DataInv' BY <1>1, <1>2, <1>3 DEF Inv, DataInv
<1>9. QueueInv' BY <1>1, <1>2, SameQueue DEF Inv
<1>10. PinInv'
  <2>1. LogPins' = LogPins BY <1>1, <1>3 DEF LogPins
  <2> QED BY <2>1, SamePins
<1> QED BY <1>1, <1>4, <1>5, <1>6, <1>7, <1>8, <1>9, <1>10 DEF Inv

-----------------------------------------------------------------------------
(* The steps of bget *)

\* Buffer i is added to what p has.
LEMMA Asked ==
    ASSUME Inv, NEW p \in Proc, NEW b \in Block, MayAsk(p, b), NEW i \in Buf,
           blockno'[i] = b, \A q \in Proc : Right(hold[q], blockno'),
           hold' = [hold EXCEPT ![p] = Append(hold[p], [b |-> b, i |-> i])],
           pc' = [pc EXCEPT ![p] = "acquiresleep"]
    PROVE  /\ hold' \in [Proc -> Seq(Item)] /\ pc' \in [Proc -> Place]
           /\ \A q \in Proc : Len(hold'[q]) =< MaxHold
           /\ HoldInv'
           /\ i \notin Mine(p) /\ Mine(p)' = Mine(p) \cup {i}
           /\ \A q \in Proc : q # p => Mine(q)' = Mine(q)
           /\ \A q \in Proc : Has(q)' = Has(q)
           /\ \A q \in Proc : pc'[q] = "wait" <=> pc[q] = "wait"
           /\ \A q \in Proc : pc[q] = "wait" => Top(q)' = Top(q)
           /\ \A q \in Proc : \A j : Asks(q, j)' <=> Asks(q, j)
<1> DEFINE e == [b |-> b, i |-> i]
<1>0. /\ pc \in [Proc -> Place] /\ hold \in [Proc -> Seq(Item)] /\ pc[p] \in {"idle", "use"}
      /\ \A q \in Proc : Len(hold[q]) =< MaxHold
      /\ \A k \in 1..Len(hold[p]) : <<hold[p][k].b, b>> \in Nested
      /\ Len(hold[p]) < MaxHold
  BY Types DEF MayAsk
<1>1. hold[p] \in Seq(Item) /\ Distinct(hold[p]) /\ e \in Item BY Holds DEF Item
<1>2. \A k \in 1..Len(hold[p]) : hold[p][k].b # e.b BY <1>0, BcacheAssumption
<1>3. blockno'[e.i] = e.b /\ e.i = i OBVIOUS
<1> HIDE DEF e
<1>4. hold'[p] = Append(hold[p], e) BY <1>0 DEF e
<1>5. /\ hold'[p] \in Seq(Item) /\ Len(hold'[p]) = Len(hold[p]) + 1 /\ hold'[p] # << >>
      /\ Of(hold'[p]) = Of(hold[p]) \cup {i} /\ Below(hold'[p]) = Of(hold[p]) /\ i \notin Of(hold[p])
      /\ Distinct(hold'[p]) /\ Right(hold'[p], blockno')
  <2> DEFINE s == hold[p]  r == hold'[p]  blocks == blockno'
  <2>1. Right(s, blocks) /\ blocks[e.i] = e.b /\ r = Append(s, e) BY <1>3, <1>4
  <2>2. s \in Seq(Item) /\ Distinct(s) /\ e \in Item BY <1>1
  <2>3. Fresh(s, e) BY <1>2 DEF Fresh
  <2> HIDE DEF s, r, blocks
  <2>4. /\ r \in Seq(Item) /\ Len(r) = Len(s) + 1 /\ r # << >>
        /\ Of(r) = Of(s) \cup {e.i} /\ Below(r) = Of(s) /\ e.i \notin Of(s)
        /\ Distinct(r) /\ Right(r, blocks)
    BY <2>1, <2>2, <2>3, OfPushed, ZenonT(60)
  <2> QED BY <2>4, <1>3 DEF s, r, blocks
<1>6. \A q \in Proc : q # p => hold'[q] = hold[q] /\ pc'[q] = pc[q] BY <1>0
<1>7. pc'[p] = "acquiresleep" /\ pc' \in [Proc -> Place] BY <1>0 DEF Place
<1>8. hold' \in [Proc -> Seq(Item)]
  <2>1. \A q \in Proc : hold'[q] \in Seq(Item) BY <1>0, <1>5, <1>6
  <2>2. hold' = [q \in Proc |-> hold'[q]] BY <1>0
  <2> QED BY <2>1, <2>2
<1>9. \A q \in Proc : Len(hold'[q]) =< MaxHold
  <2>1. Len(hold'[p]) =< MaxHold BY <1>0, <1>1, <1>5, Known
  <2> QED BY <2>1, <1>0, <1>6
<1>10. HoldInv'
  <2> SUFFICES ASSUME NEW q \in Proc
               PROVE  /\ hold'[q] = << >> <=> pc'[q] = "idle"
                      /\ Distinct(hold'[q]) /\ Right(hold'[q], blockno')
    BY DEF HoldInv
  <2>1. CASE q = p BY <2>1, <1>5, <1>7
  <2>2. CASE q # p BY <2>2, <1>6, Holds
  <2> QED BY <2>1, <2>2
<1>11. Mine(p)' = Mine(p) \cup {i} /\ i \notin Mine(p) /\ Has(p)' = Has(p)
  BY <1>0, <1>5, <1>7 DEF Mine, Has, Between
<1>12. \A q \in Proc : q # p => Mine(q)' = Mine(q) /\ Has(q)' = Has(q) /\ Top(q)' = Top(q)
  BY <1>6, Unmoved
<1>13. \A q \in Proc : pc'[q] = "wait" <=> pc[q] = "wait" BY <1>0, <1>6, <1>7
<1>14. \A q \in Proc : pc[q] = "wait" => Top(q)' = Top(q) BY <1>0, <1>12
<1>15. \A q \in Proc : \A j : Asks(q, j)' <=> Asks(q, j)
  BY <1>0, <1>6, <1>7, <1>12 DEF Asks
<1> QED BY <1>7, <1>8, <1>9, <1>10, <1>11, <1>12, <1>13, <1>14, <1>15

\* bget finds the block in the cache.
LEMMA BgetHitInv ==
    ASSUME Inv, NEW p \in Proc, NEW b \in Block, BgetHit(p, b)
    PROVE  Inv'
<1>1. PICK i \in Cached(b) :
          /\ refcnt' = [refcnt EXCEPT ![i] = refcnt[i] + 1]
          /\ hold' = [hold EXCEPT ![p] = Append(hold[p], [b |-> b, i |-> i])]
  BY DEF BgetHit
<1>2. MayAsk(p, b) /\ pc' = [pc EXCEPT ![p] = "acquiresleep"] BY DEF BgetHit
<1>3. UNCHANGED <<disk, idequeue, busy, blockno, valid, dirty, data, locked, panic>>
  BY DEF BgetHit, ide, flags
<1>4. i \in Buf /\ blockno[i] = b BY DEF Cached
<1>5. blockno'[i] = b /\ \A q \in Proc : Right(hold[q], blockno') BY <1>3, <1>4, Holds
<1>6. /\ hold' \in [Proc -> Seq(Item)] /\ pc' \in [Proc -> Place]
      /\ \A q \in Proc : Len(hold'[q]) =< MaxHold
      /\ HoldInv'
      /\ i \notin Mine(p) /\ Mine(p)' = Mine(p) \cup {i}
      /\ \A q \in Proc : q # p => Mine(q)' = Mine(q)
      /\ \A q \in Proc : Has(q)' = Has(q)
      /\ \A q \in Proc : pc'[q] = "wait" <=> pc[q] = "wait"
      /\ \A q \in Proc : pc[q] = "wait" => Top(q)' = Top(q)
      /\ \A q \in Proc : \A j : Asks(q, j)' <=> Asks(q, j)
  BY <1>1, <1>2, <1>4, <1>5, Asked
<1>7. CountInv' /\ refcnt' \in [Buf -> 0..Cardinality(Proc)] BY <1>1, <1>4, <1>6, OneMore
<1>8. LockInv' BY <1>3, <1>6 DEF Inv, LockInv
<1>9. DataInv' BY <1>3, <1>6 DEF Inv, DataInv
<1>10. QueueInv' BY <1>3, <1>6, SameQueue DEF Inv
<1>11. PinInv'
  <2>1. LogPins' = LogPins BY <1>3, <1>6 DEF LogPins
  <2> QED BY <2>1, SamePins
<1>12. TypeOK' BY <1>3, <1>6, <1>7, Types DEF TypeOK, Item, Place
<1> QED BY <1>3, <1>6, <1>7, <1>8, <1>9, <1>10, <1>11, <1>12 DEF Inv, OnlyFull

\* The uses that processes have room for.
Uses == {t \in Proc \X (1..MaxHold) : t[2] =< Len(hold[t[1]])}

\* A buffer that is counted as used is used.
LEMMA CountedIsUsed ==
    ASSUME Inv, NEW i \in Buf
    PROVE  refcnt[i] = 0 <=> \A q \in Proc : i \notin Mine(q)
<1>1. refcnt[i] = Cardinality(Users(i)) BY DEF Inv, CountInv, Users
<1>2. IsFiniteSet(Users(i)) BY UsersFinite
<1>3. refcnt[i] = 0 <=> Users(i) = {} BY <1>1, <1>2, FS_EmptySet
<1> QED BY <1>3 DEF Users

\* A process that may ask for a buffer finds one that is not used.
LEMMA SomeUnused ==
    ASSUME Inv, Enough, NEW p \in Proc, NEW b \in Block, MayAsk(p, b)
    PROVE  Unused # {}
<1> SUFFICES ASSUME Unused = {} PROVE FALSE OBVIOUS
<1> DEFINE U == {i \in Buf : refcnt[i] # 0}  All == Proc \X (1..MaxHold)  x == <<p, MaxHold>>
           u == Cardinality(U)  n == Cardinality(LogPins)  a == Cardinality(All)
           h == Cardinality(Proc) * MaxHold  v == Cardinality(Uses)
<1>1. IsFiniteSet(All) /\ a = h /\ a \in Nat
  <2>1. IsFiniteSet(1..MaxHold) /\ Cardinality(1..MaxHold) = MaxHold
    <3> DEFINE c == Cardinality(1..MaxHold)
    <3>1. MaxHold \in Int /\ 1 \in Int /\ ~(1 > MaxHold) BY Known
    <3>2. IsFiniteSet(1..MaxHold) /\ c = MaxHold - 1 + 1 BY <3>1, FS_Interval
    <3> HIDE DEF c
    <3>3. c = MaxHold BY <3>1, <3>2
    <3> QED BY <3>2, <3>3 DEF c
  <2>2. IsFiniteSet(All) /\ a = h BY <2>1, Known, FS_Product
  <2> QED BY <2>2, FS_CardinalityType
<1>2. v =< a - 1 /\ IsFiniteSet(Uses) /\ v \in Nat
  <2>1. x \in All /\ x \notin Uses
    <3>1. Len(hold[p]) < MaxHold /\ hold[p] \in Seq(Item) BY Types DEF MayAsk
    <3>2. Len(hold[p]) \in Nat BY <3>1
    <3> QED BY <3>1, <3>2, Known DEF Uses
  <2>2. Uses \subseteq All \ {x} BY <2>1 DEF Uses
  <2>3. IsFiniteSet(All \ {x}) /\ Cardinality(All \ {x}) = a - 1 BY <1>1, <2>1, FS_RemoveElement
  <2> HIDE DEF All, x
  <2>4. IsFiniteSet(Uses) /\ v =< Cardinality(All \ {x}) BY <2>2, <2>3, FS_Subset
  <2>5. v \in Nat BY <2>4, FS_CardinalityType
  <2> QED BY <2>3, <2>4, <2>5
<1>3. u =< v /\ IsFiniteSet(U) /\ u \in Nat
  <2> DEFINE f == [t \in Uses |-> hold[t[1]][t[2]].i]
  <2>1. ASSUME NEW t \in Uses PROVE f[t] \in U
    <3>1. PICK q \in Proc, k \in 1..MaxHold : t = <<q, k>> /\ k =< Len(hold[q]) BY DEF Uses
    <3>2. hold[q] \in Seq(Item) BY Types
    <3>3. k \in 1..Len(hold[q]) BY <3>1, <3>2, Known
    <3>4. f[t] = hold[q][k].i BY <3>1
    <3>5. f[t] \in Mine(q) BY <3>3, <3>4 DEF Mine, Of
    <3>6. f[t] \in Buf BY <3>5, Holds
    <3> HIDE DEF f
    <3>7. refcnt[f[t]] # 0 BY <3>5, <3>6, CountedIsUsed
    <3> QED BY <3>6, <3>7
  <2>2. ASSUME NEW i \in U PROVE \E t \in Uses : f[t] = i
    <3>1. PICK q \in Proc : i \in Mine(q) BY CountedIsUsed
    <3>2. hold[q] \in Seq(Item) /\ Len(hold[q]) =< MaxHold BY Types
    <3>3. PICK k \in 1..Len(hold[q]) : hold[q][k].i = i BY <3>1 DEF Mine, Of
    <3>4. k \in 1..MaxHold /\ k =< Len(hold[q]) BY <3>2, Known
    <3>5. <<q, k>> \in Uses BY <3>4 DEF Uses
    <3>6. f[<<q, k>>] = i BY <3>3, <3>5
    <3> QED BY <3>5, <3>6
  <2> HIDE DEF U
  <2>3. f \in [Uses -> U] BY <2>1
  <2> HIDE DEF f
  <2>4. f \in Surjection(Uses, U) BY <2>2, <2>3 DEF Surjection
  <2>5. IsFiniteSet(U) /\ u =< v BY <2>4, <1>2, FS_Surjection
  <2> QED BY <2>5, FS_CardinalityType
<1>4. Buf = U \cup LogPins
  <2>1. ASSUME NEW i \in Buf, i \notin U PROVE i \in LogPins
    <3>1. dirty[i] BY <2>1 DEF Unused
    <3>2. \A q \in Proc : i \notin Mine(q) BY <2>1, CountedIsUsed
    <3>3. \A q \in Proc : ~Asks(q, i) BY <3>2, Holds DEF Asks
    <3> QED BY <3>1, <3>3 DEF LogPins
  <2> QED BY <2>1 DEF LogPins
<1>5. n =< MaxPinned /\ n \in Nat /\ IsFiniteSet(LogPins)
  <2>1. IsFiniteSet(LogPins) BY Known, FS_Subset DEF LogPins
  <2> QED BY <2>1, FS_CardinalityType DEF Inv, PinInv
<1>6. Cardinality(Buf) =< u + n
  <2> DEFINE m == Cardinality(U \cap LogPins)  c == Cardinality(U \cup LogPins)
  <2> HIDE DEF U
  <2>1. c = u + (n - m) BY <1>3, <1>5, FS_Union
  <2>2. IsFiniteSet(U \cap LogPins) BY <1>3, FS_Subset
  <2>3. m \in Nat BY <2>2, FS_CardinalityType
  <2> HIDE DEF u, n, m, c
  <2>4. c =< u + n BY <1>3, <1>5, <2>1, <2>3
  <2>5. c = Cardinality(Buf) BY <1>4 DEF c
  <2> QED BY <2>4, <2>5
<1>7. Cardinality(Buf) >= h + MaxPinned BY DEF Enough
<1> DEFINE c == Cardinality(Buf)
<1>8. c \in Nat BY Known, FS_CardinalityType
<1> HIDE DEF u, n, a, h, v, c
<1>9. c >= h + MaxPinned /\ c =< u + n BY <1>6, <1>7 DEF c
<1> QED BY <1>1, <1>2, <1>3, <1>5, <1>8, <1>9, Known

\* bget finds no buffer to recycle and stops the kernel.
LEMMA BgetFullInv ==
    ASSUME Inv, NEW p \in Proc, NEW b \in Block, BgetRecycle(p, b), Unused = {}
    PROVE  Inv'
<1>1. /\ panic' = "bget: no buffers"
      /\ UNCHANGED <<disk, idequeue, busy, blockno, refcnt, valid, dirty, data, locked, pc, hold>>
  BY DEF BgetRecycle, ide, flags
<1>2. OnlyFull' BY <1>1 DEF OnlyFull
<1> QED BY <1>1, <1>2, StopInv

\* It recycles one.
LEMMA BgetRecycleInv ==
    ASSUME Inv, NEW p \in Proc, NEW b \in Block, BgetRecycle(p, b), Unused # {}
    PROVE  Inv'
<1>m. MayAsk(p, b) /\ Cached(b) = {} BY DEF BgetRecycle
<1>u. Unused # {} OBVIOUS
<1>1. PICK i \in Unused :
          /\ blockno' = [blockno EXCEPT ![i] = b]
          /\ valid' = [valid EXCEPT ![i] = FALSE]
          /\ dirty' = [dirty EXCEPT ![i] = FALSE]
          /\ data' = [data EXCEPT ![i] = None]
          /\ refcnt' = [refcnt EXCEPT ![i] = 1]
          /\ hold' = [hold EXCEPT ![p] = Append(hold[p], [b |-> b, i |-> i])]
  BY <1>u DEF BgetRecycle
<1>2. /\ pc' = [pc EXCEPT ![p] = "acquiresleep"]
      /\ UNCHANGED <<disk, idequeue, busy, locked, panic>>
  BY <1>u DEF BgetRecycle, ide
<1>3. i \in Buf /\ refcnt[i] = 0 /\ ~dirty[i] BY DEF Unused
<1>4. \A q \in Proc : i \notin Mine(q) /\ i \notin Has(q) /\ ~Asks(q, i)
  BY <1>3, CountedIsUsed, Holds DEF Asks
<1>t. /\ blockno \in [Buf -> Block \cup {None}] /\ refcnt \in [Buf -> 0..Cardinality(Proc)]
      /\ valid \in [Buf -> BOOLEAN] /\ dirty \in [Buf -> BOOLEAN]
      /\ data \in [Buf -> Int \cup {None}]
      /\ \A j \in Buf : data[j] # None => data[j] \in {blockno[j], -blockno[j]}
  BY Types
<1>5. /\ blockno'[i] = b /\ ~valid'[i] /\ ~dirty'[i] /\ data'[i] = None
      /\ \A j \in Buf : j # i => /\ blockno'[j] = blockno[j] /\ valid'[j] = valid[j]
                                 /\ dirty'[j] = dirty[j] /\ data'[j] = data[j]
  BY <1>1, <1>3, <1>t
<1>6. \A q \in Proc : Right(hold[q], blockno')
  <2> SUFFICES ASSUME NEW q \in Proc, NEW k \in 1..Len(hold[q])
               PROVE  blockno'[hold[q][k].i] = hold[q][k].b
    BY DEF Right
  <2>1. hold[q][k].i \in Mine(q) BY DEF Mine, Of
  <2>2. hold[q][k].i \in Buf /\ hold[q][k].i # i BY <2>1, <1>4, Holds
  <2> QED BY <2>2, <1>5, Holds DEF Right
<1>7. /\ hold' \in [Proc -> Seq(Item)] /\ pc' \in [Proc -> Place]
      /\ \A q \in Proc : Len(hold'[q]) =< MaxHold
      /\ HoldInv'
      /\ i \notin Mine(p) /\ Mine(p)' = Mine(p) \cup {i}
      /\ \A q \in Proc : q # p => Mine(q)' = Mine(q)
      /\ \A q \in Proc : Has(q)' = Has(q)
      /\ \A q \in Proc : pc'[q] = "wait" <=> pc[q] = "wait"
      /\ \A q \in Proc : pc[q] = "wait" => Top(q)' = Top(q)
      /\ \A q \in Proc : \A j : Asks(q, j)' <=> Asks(q, j)
  BY <1>1, <1>2, <1>3, <1>5, <1>6, <1>m, Asked
<1>8. CountInv' /\ refcnt' \in [Buf -> 0..Cardinality(Proc)]
  <2>1. refcnt' = [refcnt EXCEPT ![i] = refcnt[i] + 1] BY <1>1, <1>3
  <2> QED BY <2>1, <1>3, <1>7, OneMore
<1>9. LockInv'
  <2>1. \A j \in Buf : blockno[j] # b BY <1>m DEF Cached
  <2>2. \A j, k \in Buf : blockno'[j] = blockno'[k] /\ blockno'[j] # None => j = k
    BY <2>1, <1>5 DEF Inv, LockInv
  <2>3. \A q \in Proc, j \in Buf : locked'[j] = q <=> j \in Has(q)'
    BY <1>2, <1>7, Holds
  <2> QED BY <2>2, <2>3 DEF LockInv
<1>10. DataInv'
  <2>1. \A j \in Buf : /\ dirty'[j] => valid'[j]
                       /\ valid'[j] => blockno'[j] # None /\ data'[j] # None
                       /\ valid'[j] /\ ~dirty'[j] => data'[j] = disk'[blockno'[j]]
    BY <1>2, <1>5 DEF Inv, DataInv
  <2>2. \A q \in Proc : \A j \in Has(q)' : valid'[j] \/ Asks(q, j)'
    <3> SUFFICES ASSUME NEW q \in Proc, NEW j \in Has(q) PROVE valid'[j] \/ Asks(q, j)'
      BY <1>7
    <3>1. j # i /\ j \in Buf BY <1>4, Holds
    <3> QED BY <3>1, <1>5, <1>7 DEF Inv, DataInv
  <2>3. \A q \in Proc, j \in Buf : Asks(q, j)' => ~valid'[j] \/ dirty'[j]
    BY <1>4, <1>5, <1>7 DEF Inv, DataInv
  <2>4. busy' # None /\ dirty'[busy'] => disk'[blockno'[busy']] = data'[busy']
    <3>1. busy \in Buf \cup {None} BY Types
    <3> QED BY <3>1, <1>2, <1>5 DEF Inv, DataInv
  <2> QED BY <2>1, <2>2, <2>3, <2>4 DEF DataInv
<1>11. QueueInv' BY <1>2, <1>7, SameQueue DEF Inv
<1>12. PinInv'
  <2>1. LogPins' \subseteq LogPins BY <1>5, <1>7 DEF LogPins
  <2> QED BY <2>1, SamePins
<1>13. TypeOK'
  <2>1. blockno' \in [Buf -> Block \cup {None}] BY <1>1, <1>3, <1>t
  <2>2. valid' \in [Buf -> BOOLEAN] /\ dirty' \in [Buf -> BOOLEAN] BY <1>1, <1>3, <1>t
  <2>3. data' \in [Buf -> Int \cup {None}] BY <1>1, <1>3, <1>t
  <2>4. \A j \in Buf : data'[j] # None => data'[j] \in {blockno'[j], -blockno'[j]}
    BY <1>5, <1>t
  <2> QED BY <2>1, <2>2, <2>3, <2>4, <1>2, <1>7, <1>8, Types DEF TypeOK, Item, Place
<1> QED BY <1>2, <1>7, <1>8, <1>9, <1>10, <1>11, <1>12, <1>13 DEF Inv, OnlyFull

-----------------------------------------------------------------------------
(* The steps of sleep-locks and the disk *)

\* p goes on to another place with the buffers that it has.
LEMMA Moves ==
    ASSUME Inv, NEW p \in Proc, NEW v \in Place, pc[p] # "idle", v # "idle",
           pc' = [pc EXCEPT ![p] = v], UNCHANGED <<hold, blockno>>
    PROVE  /\ pc' \in [Proc -> Place] /\ pc'[p] = v
           /\ HoldInv'
           /\ \A q \in Proc : Mine(q)' = Mine(q) /\ Top(q)' = Top(q)
           /\ \A q \in Proc : q # p => /\ pc'[q] = pc[q] /\ Has(q)' = Has(q)
                                       /\ \A j : Asks(q, j)' <=> Asks(q, j)
           /\ Has(p)' = IF v \in Between THEN Below(hold[p]) ELSE Mine(p)
           /\ \A j : Asks(p, j)' <=> v \in {"iderw", "wait"} /\ Top(p) = j
<1>1. pc \in [Proc -> Place] BY Types
<1>2. pc' \in [Proc -> Place] /\ pc'[p] = v /\ \A q \in Proc : q # p => pc'[q] = pc[q] BY <1>1
<1>3. \A q \in Proc : Mine(q)' = Mine(q) /\ Top(q)' = Top(q) BY DEF Mine, Top
<1>4. \A q \in Proc : q # p => Has(q)' = Has(q) /\ \A j : Asks(q, j)' <=> Asks(q, j)
  BY <1>2, <1>3, Unmoved DEF Asks
<1>5. Has(p)' = IF v \in Between THEN Below(hold[p]) ELSE Mine(p) BY <1>2 DEF Has, Mine
<1>6. \A j : Asks(p, j)' <=> v \in {"iderw", "wait"} /\ Top(p) = j BY <1>2, <1>3 DEF Asks
<1>7. HoldInv' BY <1>2 DEF Inv, HoldInv
<1> QED BY <1>2, <1>3, <1>4, <1>5, <1>6, <1>7

\* acquiresleep gets the lock, or falls asleep.
LEMMA AcquireSleepInv ==
    ASSUME Inv, NEW p \in Proc, AcquireSleep(p)
    PROVE  Inv'
<1> DEFINE i == Top(p)
<1>1. /\ pc[p] = "acquiresleep"
      /\ UNCHANGED <<disk, idequeue, busy, blockno, refcnt, valid, dirty, data, hold, panic>>
  BY DEF AcquireSleep, ide, flags
<1>2. /\ i \in Buf /\ blockno[i] \in Block /\ Mine(p) = Below(hold[p]) \cup {i}
      /\ Has(p) = Below(hold[p]) /\ i \notin Has(p)
  BY <1>1, Holds DEF Has, Between
<1>3. PICK v \in {"asleep", "use", "iderw"} :
         /\ pc' = [pc EXCEPT ![p] = v]
         /\ v = "asleep" => UNCHANGED locked
         /\ v # "asleep" => locked[i] = None /\ locked' = [locked EXCEPT ![i] = p]
         /\ v = "use" => valid[i]
         /\ v = "iderw" => ~valid[i]
  BY DEF AcquireSleep
<1> HIDE DEF i
<1>4. v \in Place /\ v # "idle" /\ v \notin {"wait", "acquiresleep", "brelse"} BY DEF Place
<1>5. /\ pc' \in [Proc -> Place] /\ pc'[p] = v
      /\ HoldInv'
      /\ \A q \in Proc : Mine(q)' = Mine(q) /\ Top(q)' = Top(q)
      /\ \A q \in Proc : q # p => /\ pc'[q] = pc[q] /\ Has(q)' = Has(q)
                                  /\ \A j : Asks(q, j)' <=> Asks(q, j)
      /\ Has(p)' = IF v \in Between THEN Below(hold[p]) ELSE Mine(p)
      /\ \A j : Asks(p, j)' <=> v \in {"iderw", "wait"} /\ i = j
  BY <1>1, <1>3, <1>4, Moves DEF i
<1>6. Has(p)' = IF v = "asleep" THEN Has(p) ELSE Has(p) \cup {i}
  BY <1>2, <1>4, <1>5 DEF Between
<1>7. \A j : ~Asks(p, j) BY <1>1 DEF Asks
<1>8. locked \in [Buf -> Proc \cup {None}] BY Types
<1>9. LockInv'
  <2>1. ASSUME NEW q \in Proc, NEW j \in Buf PROVE locked'[j] = q <=> j \in Has(q)'
    <3>1. locked[j] = q <=> j \in Has(q) BY Holds
    <3>2. CASE v = "asleep" BY <3>1, <3>2, <1>3, <1>5, <1>6
    <3>3. CASE v # "asleep" /\ j = i
      <4>1. locked'[j] = p /\ q # locked[j] BY <3>3, <1>2, <1>3, <1>8, Known
      <4> QED BY <3>1, <3>3, <4>1, <1>5, <1>6
    <3>4. CASE v # "asleep" /\ j # i
      <4>1. locked'[j] = locked[j] BY <3>4, <1>2, <1>3, <1>8
      <4> QED BY <3>1, <3>4, <4>1, <1>5, <1>6
    <3> QED BY <3>2, <3>3, <3>4
  <2> QED BY <2>1, <1>1 DEF Inv, LockInv
<1>10. CountInv' BY <1>1, <1>5, SameCount DEF Inv
<1>11. DataInv'
  <2>1. \A q \in Proc : \A j \in Has(q)' : valid[j] \/ Asks(q, j)'
    <3>1. \A j \in Has(p) : valid[j] BY <1>7 DEF Inv, DataInv
    <3>2. \A j \in Has(p)' : valid[j] \/ Asks(p, j)' BY <3>1, <1>3, <1>5, <1>6
    <3>3. \A q \in Proc : q # p => \A j \in Has(q)' : valid[j] \/ Asks(q, j)'
      BY <1>5 DEF Inv, DataInv
    <3> QED BY <3>2, <3>3
  <2>2. \A q \in Proc, j \in Buf : Asks(q, j)' => ~valid[j] \/ dirty[j]
    <3>1. \A j \in Buf : Asks(p, j)' => ~valid[j] BY <1>3, <1>4, <1>5
    <3>2. \A q \in Proc, j \in Buf : q # p /\ Asks(q, j)' => ~valid[j] \/ dirty[j]
      BY <1>5 DEF Inv, DataInv
    <3> QED BY <3>1, <3>2
  <2> QED BY <2>1, <2>2, <1>1 DEF Inv, DataInv
<1>12. QueueInv'
  <2>1. \A q \in Proc : pc'[q] = "wait" <=> pc[q] = "wait" BY <1>1, <1>4, <1>5
  <2>2. \A q \in Proc : pc[q] = "wait" =>
             Top(q)' = Top(q) /\ (locked[Top(q)] = q => locked'[Top(q)] = q)
    <3> SUFFICES ASSUME NEW q \in Proc, pc[q] = "wait", locked[Top(q)] = q
                 PROVE  locked'[Top(q)] = q
      BY <1>5
    <3>1. v # "asleep" => Top(q) # i BY <1>3, Known
    <3>2. Top(q) \in Buf BY Holds
    <3> QED BY <3>1, <3>2, <1>3, <1>8
  <2> QED BY <2>1, <2>2, <1>1, SameQueue DEF Inv
<1>13. PinInv'
  <2>1. LogPins' \subseteq LogPins
    <3> SUFFICES ASSUME NEW j \in LogPins', NEW q \in Proc PROVE ~Asks(q, j)
      BY <1>1 DEF LogPins
    <3> QED BY <1>5, <1>7 DEF LogPins
  <2> QED BY <2>1, SamePins
<1>14. locked' \in [Buf -> Proc \cup {None}] BY <1>3, <1>8
<1>15. TypeOK' BY <1>1, <1>5, <1>14, Types DEF TypeOK, Item, Place
<1> QED BY <1>1, <1>5, <1>9, <1>10, <1>11, <1>12, <1>13, <1>15 DEF Inv, OnlyFull

\* The first request goes to the disk.
LEMMA Started ==
    ASSUME Inv, NEW i \in Buf, blockno[i] \in Block, Idestart(i)
    PROVE  /\ disk' \in [Block -> Int] /\ \A b \in Block : disk'[b] \in {b, -b}
           /\ \A j \in Buf : j # i /\ blockno[j] \in Block => disk'[blockno[j]] = disk[blockno[j]]
           /\ dirty[i] => disk'[blockno[i]] = data[i]
           /\ ~dirty[i] => disk' = disk
           /\ busy' = i
<1>1. /\ disk \in [Block -> Int] /\ \A b \in Block : disk[b] \in {b, -b}
      /\ data \in [Buf -> Int \cup {None}]
      /\ \A j \in Buf : data[j] # None => data[j] \in {blockno[j], -blockno[j]}
  BY Types
<1>2. busy' = i /\ (~dirty[i] => disk' = disk) BY DEF Idestart
<1>3. CASE dirty[i]
  <2>1. disk' = [disk EXCEPT ![blockno[i]] = data[i]] BY <1>3 DEF Idestart
  <2>2. data[i] # None BY <1>3 DEF Inv, DataInv
  <2>3. data[i] \in Int /\ data[i] \in {blockno[i], -blockno[i]} BY <1>1, <2>2
  <2>4. \A j \in Buf : j # i /\ blockno[j] \in Block => blockno[j] # blockno[i]
    BY Known DEF Inv, LockInv
  <2>5. disk' \in [Block -> Int] BY <2>1, <2>3, <1>1
  <2>6. disk'[blockno[i]] = data[i] /\ \A b \in Block : b # blockno[i] => disk'[b] = disk[b]
    BY <2>1, <1>1
  <2> QED BY <2>3, <2>4, <2>5, <2>6, <1>1, <1>2
<1>4. CASE ~dirty[i] BY <1>4, <1>1, <1>2
<1> QED BY <1>3, <1>4

\* A sequence, seen by its indexes.
LEMMA Indexed ==
    ASSUME NEW s \in Seq(Buf)
    PROVE  /\ IsInjective(s) <=> \A j, k \in 1..Len(s) : s[j] = s[k] => j = k
           /\ \A i : i \in Range(s) <=> \E k \in 1..Len(s) : s[k] = i
           /\ s # << >> => Head(s) = s[1] /\ 1 \in 1..Len(s)
BY DEF IsInjective, Range

\* The queue, seen by its indexes.
LEMMA Queued ==
    ASSUME Inv
    PROVE  /\ \A j, k \in 1..Len(idequeue) : idequeue[j] = idequeue[k] => j = k
           /\ busy = IF idequeue = << >> THEN None ELSE idequeue[1]
           /\ \A k \in 1..Len(idequeue) : \E q \in Proc :
                  pc[q] = "wait" /\ Top(q) = idequeue[k] /\ locked[idequeue[k]] = q
           /\ \A q \in Proc : pc[q] = "wait" => \E k \in 1..Len(idequeue) : idequeue[k] = Top(q)
<1>1. idequeue \in Seq(Buf) BY Types
<1> QED BY <1>1, Indexed DEF Inv, QueueInv, QueueIsSound

\* The same in the next state.
LEMMA QueuedNext ==
    ASSUME idequeue' \in Seq(Buf),
           \A j, k \in 1..Len(idequeue') : idequeue'[j] = idequeue'[k] => j = k,
           busy' = IF idequeue' = << >> THEN None ELSE idequeue'[1],
           \A k \in 1..Len(idequeue') : \E q \in Proc :
                  pc'[q] = "wait" /\ Top(q)' = idequeue'[k] /\ locked'[idequeue'[k]] = q,
           \A q \in Proc : pc'[q] = "wait" => \E k \in 1..Len(idequeue') : idequeue'[k] = Top(q)'
    PROVE  QueueInv'
<1>1. /\ IsInjective(idequeue')
      /\ \A i : i \in Range(idequeue') <=> \E k \in 1..Len(idequeue') : idequeue'[k] = i
      /\ idequeue' # << >> => Head(idequeue') = idequeue'[1]
  BY Indexed
<1>2. QueueIsSound' BY <1>1 DEF QueueIsSound
<1> QED BY <1>2 DEF QueueInv

\* iderw queues a request, and starts it if it is the only one.
LEMMA IderwInv ==
    ASSUME Inv, NEW p \in Proc, Iderw(p)
    PROVE  Inv'
<1> DEFINE i == Top(p)  n == Len(idequeue)
<1>1. /\ pc[p] = "iderw" /\ idequeue' = Append(idequeue, i)
      /\ pc' = [pc EXCEPT ![p] = "wait"]
      /\ UNCHANGED <<blockno, refcnt, valid, dirty, data, locked, hold>>
  BY DEF Iderw, flags
<1>2. idequeue = << >> => Idestart(i) BY DEF Iderw
<1>3. idequeue # << >> => UNCHANGED <<disk, busy>> BY DEF Iderw
<1>4. /\ i \in Buf /\ blockno[i] \in Block
      /\ i \in Has(p) /\ Has(p) = Mine(p) /\ locked[i] = p
  BY <1>1, Locks DEF Between
<1>5. panic' \in {None, "bget: no buffers"}
  <2>1. Asks(p, i) BY <1>1 DEF Asks
  <2>2. ~valid[i] \/ dirty[i] BY <2>1, <1>4 DEF Inv, DataInv
  <2>3. panic \in {None, "bget: no buffers"} BY Types
  <2>4. panic' = IF locked[i] # p THEN "iderw: buf not locked"
                 ELSE IF valid[i] /\ ~dirty[i] THEN "iderw: nothing to do"
                 ELSE panic
    BY DEF Iderw
  <2> HIDE DEF i
  <2>5. locked[i] = p /\ ~(valid[i] /\ ~dirty[i]) BY <2>2, <1>4
  <2>6. panic' = panic BY <2>4, <2>5, Zenon
  <2> QED BY <2>3, <2>6
<1>6. idequeue \in Seq(Buf) /\ n \in Nat
  <2>1. idequeue \in Seq(Buf) BY Types
  <2> QED BY <2>1
<1> HIDE DEF i
<1>7. /\ idequeue' \in Seq(Buf) /\ Len(idequeue') = n + 1 /\ idequeue' # << >>
      /\ \A k \in 1..n : idequeue'[k] = idequeue[k]
      /\ idequeue'[n + 1] = i
  BY <1>1, <1>4, <1>6, Pushed
<1>8. "wait" \in Place /\ "wait" \notin Between BY DEF Place, Between
<1>9. /\ pc' \in [Proc -> Place] /\ pc'[p] = "wait"
      /\ HoldInv'
      /\ \A q \in Proc : Mine(q)' = Mine(q) /\ Top(q)' = Top(q)
      /\ \A q \in Proc : q # p => /\ pc'[q] = pc[q] /\ Has(q)' = Has(q)
                                  /\ \A j : Asks(q, j)' <=> Asks(q, j)
      /\ Has(p)' = Has(p)
      /\ \A j : Asks(p, j)' <=> i = j
  BY <1>1, <1>4, <1>8, Moves DEF i
<1>10. \A q \in Proc : \A j : Asks(q, j)' <=> Asks(q, j) BY <1>1, <1>9 DEF Asks, i
<1>11. \A q \in Proc : Has(q)' = Has(q) BY <1>9
<1>12. /\ disk' \in [Block -> Int] /\ \A b \in Block : disk'[b] \in {b, -b}
       /\ \A j \in Buf : valid[j] /\ ~dirty[j] => disk'[blockno[j]] = disk[blockno[j]]
       /\ idequeue = << >> => busy' = i /\ (dirty[i] => disk'[blockno[i]] = data[i])
  <2>1. CASE idequeue = << >>
    <3>1. /\ disk' \in [Block -> Int] /\ \A b \in Block : disk'[b] \in {b, -b}
          /\ \A j \in Buf : j # i /\ blockno[j] \in Block => disk'[blockno[j]] = disk[blockno[j]]
          /\ dirty[i] => disk'[blockno[i]] = data[i]
          /\ ~dirty[i] => disk' = disk
          /\ busy' = i
      BY <2>1, <1>2, <1>4, Started
    <3>2. ASSUME NEW j \in Buf, valid[j], ~dirty[j] PROVE disk'[blockno[j]] = disk[blockno[j]]
      <4>1. blockno[j] # None BY <3>2 DEF Inv, DataInv
      <4>2. blockno[j] \in Block BY <4>1, Types
      <4> QED BY <4>2, <3>1, <3>2
    <3> QED BY <3>1, <3>2
  <2>2. CASE idequeue # << >> BY <2>2, <1>3, Types
  <2> QED BY <2>1, <2>2
<1>13. LockInv' BY <1>1, <1>11 DEF Inv, LockInv
<1>14. CountInv' BY <1>1, <1>9, SameCount DEF Inv
<1>15. DataInv'
  <2>1. \A j \in Buf : valid'[j] /\ ~dirty'[j] => data'[j] = disk'[blockno'[j]]
    BY <1>1, <1>12 DEF Inv, DataInv
  <2>2. busy' # None /\ dirty'[busy'] => disk'[blockno'[busy']] = data'[busy']
    BY <1>1, <1>3, <1>12 DEF Inv, DataInv
  <2> QED BY <2>1, <2>2, <1>1, <1>10, <1>11 DEF Inv, DataInv
<1>16. QueueInv'
  <2>0. \A k \in 1..Len(idequeue') : k \in 1..n \/ k = n + 1 BY <1>6, <1>7
  <2>1. ASSUME NEW k \in 1..n PROVE idequeue[k] # i
    <3>1. PICK q \in Proc : pc[q] = "wait" /\ locked[idequeue[k]] = q BY Queued
    <3> QED BY <3>1, <1>1, <1>4
  <2>2. \A j, k \in 1..Len(idequeue') : idequeue'[j] = idequeue'[k] => j = k
    <3>1. \A j, k \in 1..n : idequeue[j] = idequeue[k] => j = k BY Queued
    <3> QED BY <3>1, <2>0, <2>1, <1>7
  <2>3. busy' = IF idequeue' = << >> THEN None ELSE idequeue'[1]
    <3>1. CASE idequeue = << >>
      <4>1. n = 0 BY <3>1
      <4> QED BY <4>1, <3>1, <1>7, <1>12
    <3>2. CASE idequeue # << >>
      <4>1. 1 \in 1..n BY <3>2, <1>6
      <4>2. busy = idequeue[1] BY <3>2, Queued
      <4> QED BY <4>1, <4>2, <3>2, <1>3, <1>7
    <3> QED BY <3>1, <3>2
  <2>4. ASSUME NEW k \in 1..Len(idequeue')
        PROVE  \E q \in Proc : pc'[q] = "wait" /\ Top(q)' = idequeue'[k] /\ locked'[idequeue'[k]] = q
    <3>1. CASE k = n + 1
      <4>1. pc'[p] = "wait" /\ Top(p)' = idequeue'[k] /\ locked'[idequeue'[k]] = p
        BY <3>1, <1>1, <1>4, <1>7, <1>9 DEF i
      <4> QED BY <4>1
    <3>2. CASE k \in 1..n
      <4>1. PICK q \in Proc : pc[q] = "wait" /\ Top(q) = idequeue[k] /\ locked[idequeue[k]] = q
        BY <3>2, Queued
      <4>2. q # p BY <4>1, <1>1
      <4> QED BY <3>2, <4>1, <4>2, <1>1, <1>7, <1>9
    <3> QED BY <3>1, <3>2, <2>0
  <2>5. ASSUME NEW q \in Proc, pc'[q] = "wait"
        PROVE  \E k \in 1..Len(idequeue') : idequeue'[k] = Top(q)'
    <3>1. CASE q = p
      <4>1. n + 1 \in 1..Len(idequeue') /\ idequeue'[n + 1] = Top(q)'
        BY <3>1, <1>6, <1>7, <1>9 DEF i
      <4> QED BY <4>1
    <3>2. CASE q # p
      <4>1. pc[q] = "wait" BY <2>5, <3>2, <1>9
      <4>2. PICK k \in 1..n : idequeue[k] = Top(q) BY <4>1, Queued
      <4>3. k \in 1..Len(idequeue') BY <1>6, <1>7
      <4> QED BY <4>2, <4>3, <1>7, <1>9
    <3> QED BY <3>1, <3>2
  <2> QED BY <2>2, <2>3, <2>4, <2>5, <1>7, QueuedNext
<1>17. PinInv'
  <2>1. LogPins' = LogPins BY <1>1, <1>10 DEF LogPins
  <2> QED BY <2>1, SamePins
<1>18. TypeOK'
  <2>1. busy' \in Buf \cup {None} BY <1>3, <1>4, <1>12, Types
  <2> QED BY <2>1, <1>1, <1>7, <1>9, <1>12, Types DEF TypeOK, Item, Place
<1> QED BY <1>5, <1>9, <1>13, <1>14, <1>15, <1>16, <1>17, <1>18 DEF Inv, OnlyFull

\* Tail.
LEMMA TailIs ==
    ASSUME NEW S, NEW s \in Seq(S), s # << >>
    PROVE  /\ Len(s) \in Nat \ {0} /\ Tail(s) \in Seq(S) /\ Len(Tail(s)) = Len(s) - 1
           /\ \A k \in 1..(Len(s) - 1) : Tail(s)[k] = s[k + 1]
           /\ Head(s) = s[1] /\ Head(s) \in S
           /\ Tail(s) = << >> <=> Len(s) = 1
<1>1. Len(s) \in Nat \ {0} OBVIOUS
<1>2. /\ Tail(s) \in Seq(S) /\ Len(Tail(s)) = Len(s) - 1
      /\ \A k \in 1..(Len(s) - 1) : Tail(s)[k] = s[k + 1]
  BY <1>1
<1>3. Head(s) = s[1] /\ Head(s) \in S BY <1>1
<1> DEFINE r == Tail(s)  n == Len(s)
<1>a. r \in Seq(S) /\ Len(r) = n - 1 /\ n \in Nat BY <1>1, <1>2
<1> HIDE DEF r, n
<1>b. r = << >> <=> Len(r) = 0 BY <1>a
<1>c. r = << >> <=> n = 1 BY ONLY <1>a, <1>b
<1>4. Tail(s) = << >> <=> Len(s) = 1 BY <1>c DEF r, n
<1> QED BY <1>1, <1>2, <1>3, <1>4

\* The disk has answered: w, who waits for it, goes on.
LEMMA IdeintrInv ==
    ASSUME Inv, Ideintr
    PROVE  Inv'
<1> DEFINE i == Head(idequeue)  m == Head(idequeue')  n == Len(idequeue) - 1
<1>1. /\ busy # None /\ idequeue' = Tail(idequeue)
      /\ UNCHANGED <<blockno, refcnt, locked, hold, panic>>
  BY DEF Ideintr
<1>2. /\ data' = IF dirty[i] THEN data ELSE [data EXCEPT ![i] = disk[blockno[i]]]
      /\ valid' = [valid EXCEPT ![i] = TRUE]
      /\ dirty' = [dirty EXCEPT ![i] = FALSE]
      /\ pc' = Woken(i)
  BY DEF Ideintr
<1>3. /\ idequeue' # << >> => Idestart(m)
      /\ idequeue' = << >> => busy' = None /\ UNCHANGED disk
  BY DEF Ideintr
<1>4. idequeue # << >> /\ busy = i
  <2>1. busy = IF idequeue = << >> THEN None ELSE Head(idequeue) BY DEF Inv, QueueInv, QueueIsSound
  <2> QED BY <2>1, <1>1
<1>5. /\ n \in Nat /\ Len(idequeue) = n + 1 /\ idequeue' \in Seq(Buf) /\ Len(idequeue') = n
      /\ \A k \in 1..n : idequeue'[k] = idequeue[k + 1] /\ k + 1 \in 1..Len(idequeue) /\ k + 1 # 1
      /\ i = idequeue[1] /\ 1 \in 1..Len(idequeue) /\ i \in Buf
      /\ idequeue' = << >> <=> n = 0
  <2>1. idequeue \in Seq(Buf) BY Types
  <2>2. /\ Len(idequeue) \in Nat \ {0} /\ idequeue' \in Seq(Buf) /\ Len(idequeue') = Len(idequeue) - 1
        /\ \A k \in 1..(Len(idequeue) - 1) : idequeue'[k] = idequeue[k + 1]
        /\ i = idequeue[1] /\ i \in Buf
        /\ idequeue' = << >> <=> Len(idequeue) = 1
    BY <2>1, <1>1, <1>4, TailIs
  <2> QED BY <2>2
<1>6. PICK w \in Proc : pc[w] = "wait" /\ Top(w) = i /\ locked[i] = w BY <1>5, Queued
<1>7. blockno[i] \in Block BY <1>6, Holds
<1>8. \A q \in Proc : pc[q] = "wait" /\ Top(q) = i => q = w
  <2> SUFFICES ASSUME NEW q \in Proc, pc[q] = "wait", Top(q) = i PROVE q = w OBVIOUS
  <2>1. i \in Has(q) /\ i \in Has(w) BY <1>6, Locks DEF Between
  <2> QED BY <2>1, Alone
<1>9. \A k \in 1..n : idequeue'[k] # i /\ idequeue'[k] \in Buf
  <2>1. \A j, k \in 1..Len(idequeue) : idequeue[j] = idequeue[k] => j = k BY Queued
  <2> QED BY <2>1, <1>5
<1> HIDE DEF i, n
<1>t. /\ pc \in [Proc -> Place] /\ valid \in [Buf -> BOOLEAN] /\ dirty \in [Buf -> BOOLEAN]
      /\ data \in [Buf -> Int \cup {None}] /\ disk \in [Block -> Int]
      /\ \A b \in Block : disk[b] \in {b, -b}
      /\ \A j \in Buf : data[j] # None => data[j] \in {blockno[j], -blockno[j]}
  BY Types
<1>10. /\ pc'[w] = "use" /\ \A q \in Proc : q # w => pc'[q] = pc[q]
       /\ pc' \in [Proc -> Place]
  <2>1. pc' = [q \in Proc |-> IF pc[q] = "wait" /\ Top(q) = i THEN "use" ELSE pc[q]]
    BY <1>2 DEF Woken
  <2>2. pc' \in [Proc -> Place] BY <2>1, <1>t DEF Place
  <2> QED BY <2>1, <2>2, <1>6, <1>8
<1>11. \A q \in Proc : Mine(q)' = Mine(q) /\ Has(q)' = Has(q) /\ Top(q)' = Top(q)
  <2>1. \A q \in Proc : pc'[q] \in Between <=> pc[q] \in Between BY <1>6, <1>10 DEF Between
  <2> QED BY <2>1, <1>1, Unmoved
<1>12. \A q \in Proc : \A j : Asks(q, j)' <=> Asks(q, j) /\ q # w
  BY <1>10, <1>11 DEF Asks
<1>13. \A j : Asks(w, j) <=> j = i BY <1>6 DEF Asks
<1>14. \A q \in Proc : Asks(q, i) => q = w
  <2> SUFFICES ASSUME NEW q \in Proc, Asks(q, i) PROVE q = w OBVIOUS
  <2>1. i \in Has(q) /\ i \in Has(w) BY <1>6, Locks, AsksFor DEF Between
  <2> QED BY <2>1, Alone
<1>15. /\ valid'[i] /\ ~dirty'[i] /\ data'[i] # None
       /\ data'[i] \in {blockno[i], -blockno[i]}
       /\ \A j \in Buf : j # i => valid'[j] = valid[j] /\ dirty'[j] = dirty[j] /\ data'[j] = data[j]
       /\ data' \in [Buf -> Int \cup {None}]
       /\ valid' \in [Buf -> BOOLEAN] /\ dirty' \in [Buf -> BOOLEAN]
       /\ data'[i] = disk[blockno[i]]
  <2>1. /\ valid'[i] /\ ~dirty'[i] /\ valid' \in [Buf -> BOOLEAN] /\ dirty' \in [Buf -> BOOLEAN]
        /\ \A j \in Buf : j # i => valid'[j] = valid[j] /\ dirty'[j] = dirty[j]
    BY <1>2, <1>5, <1>t
  <2>2. CASE dirty[i]
    <3>1. valid[i] /\ data[i] # None BY <2>2, <1>5 DEF Inv, DataInv
    <3>2. data[i] = disk[blockno[i]] BY <2>2, <1>1, <1>4 DEF Inv, DataInv
    <3> QED BY <2>1, <2>2, <3>1, <3>2, <1>2, <1>5, <1>t
  <2>3. CASE ~dirty[i]
    <3>1. data' = [data EXCEPT ![i] = disk[blockno[i]]] BY <2>3, <1>2
    <3>2. disk[blockno[i]] \in Int /\ disk[blockno[i]] \in {blockno[i], -blockno[i]} BY <1>7, <1>t
    <3>3. disk[blockno[i]] # None BY <3>2, Known
    <3> QED BY <2>1, <3>1, <3>2, <3>3, <1>5, <1>t
  <2> QED BY <2>2, <2>3
<1>16. idequeue' # << >> => m \in Buf /\ m # i /\ blockno[m] \in Block /\ m = idequeue'[1]
  <2> SUFFICES ASSUME idequeue' # << >>
               PROVE  m \in Buf /\ m # i /\ blockno[m] \in Block /\ m = idequeue'[1]
    OBVIOUS
  <2>1. m = idequeue'[1] /\ 1 \in 1..n BY <1>5, Indexed
  <2>2. PICK q \in Proc : pc[q] = "wait" /\ Top(q) = m BY <2>1, <1>5, Queued
  <2> QED BY <2>1, <2>2, <1>9, Holds
<1> HIDE DEF m
<1>17. /\ disk' \in [Block -> Int] /\ \A b \in Block : disk'[b] \in {b, -b}
       /\ \A j \in Buf : valid'[j] /\ ~dirty'[j] => disk'[blockno[j]] = disk[blockno[j]]
       /\ busy' # None => busy' = m /\ (dirty'[m] => disk'[blockno[m]] = data'[m])
       /\ busy' = IF idequeue' = << >> THEN None ELSE m
       /\ busy' \in Buf \cup {None}
  <2>1. CASE idequeue' = << >> BY <2>1, <1>3, <1>t
  <2>2. CASE idequeue' # << >>
    <3>1. /\ disk' \in [Block -> Int] /\ \A b \in Block : disk'[b] \in {b, -b}
          /\ \A j \in Buf : j # m /\ blockno[j] \in Block => disk'[blockno[j]] = disk[blockno[j]]
          /\ dirty[m] => disk'[blockno[m]] = data[m]
          /\ ~dirty[m] => disk' = disk
          /\ busy' = m
      BY <2>2, <1>3, <1>16, Started
    <3>2. dirty'[m] = dirty[m] /\ data'[m] = data[m] BY <2>2, <1>15, <1>16
    <3>3. ASSUME NEW j \in Buf, valid'[j], ~dirty'[j] PROVE disk'[blockno[j]] = disk[blockno[j]]
      <4>1. CASE dirty[m]
        <5>1. j # m BY <4>1, <3>2, <3>3
        <5>2. blockno[j] # None BY <3>3, <1>7, <1>15, Known DEF Inv, DataInv
        <5>3. blockno[j] \in Block BY <5>2, Types
        <5> QED BY <5>1, <5>3, <3>1
      <4>2. CASE ~dirty[m] BY <4>2, <3>1
      <4> QED BY <4>1, <4>2
    <3> QED BY <2>2, <3>1, <3>2, <3>3, <1>16
  <2> QED BY <2>1, <2>2
<1>18. HoldInv' BY <1>1, <1>6, <1>10 DEF Inv, HoldInv
<1>19. LockInv' BY <1>1, <1>11 DEF Inv, LockInv
<1>20. CountInv' BY <1>1, <1>11, SameCount DEF Inv
<1>21. DataInv'
  <2>1. ASSUME NEW j \in Buf
        PROVE  /\ dirty'[j] => valid'[j]
               /\ valid'[j] => blockno'[j] # None /\ data'[j] # None
               /\ valid'[j] /\ ~dirty'[j] => data'[j] = disk'[blockno'[j]]
    <3>1. CASE j = i BY <3>1, <1>1, <1>7, <1>15, <1>17, Known
    <3>2. CASE j # i BY <3>2, <1>1, <1>15, <1>17 DEF Inv, DataInv
    <3> QED BY <3>1, <3>2
  <2>2. ASSUME NEW q \in Proc, NEW j \in Has(q) PROVE valid'[j] \/ Asks(q, j)'
    <3>1. j \in Buf /\ (valid[j] \/ Asks(q, j)) BY Holds DEF Inv, DataInv
    <3> QED BY <3>1, <1>12, <1>13, <1>15
  <2>3. ASSUME NEW q \in Proc, NEW j \in Buf, Asks(q, j)' PROVE ~valid'[j] \/ dirty'[j]
    <3>1. Asks(q, j) /\ j # i BY <2>3, <1>12, <1>14
    <3> QED BY <3>1, <1>15 DEF Inv, DataInv
  <2>4. busy' # None /\ dirty'[busy'] => disk'[blockno'[busy']] = data'[busy']
    BY <1>1, <1>17
  <2> QED BY <2>1, <2>2, <2>3, <2>4, <1>11 DEF DataInv
<1>22. QueueInv'
  <2>1. \A j, k \in 1..Len(idequeue') : idequeue'[j] = idequeue'[k] => j = k
    <3>1. \A j, k \in 1..Len(idequeue) : idequeue[j] = idequeue[k] => j = k BY Queued
    <3> QED BY <3>1, <1>5
  <2>2. busy' = IF idequeue' = << >> THEN None ELSE idequeue'[1] BY <1>16, <1>17
  <2>3. ASSUME NEW k \in 1..Len(idequeue')
        PROVE  \E q \in Proc : pc'[q] = "wait" /\ Top(q)' = idequeue'[k] /\ locked'[idequeue'[k]] = q
    <3>0. k \in 1..n /\ idequeue'[k] = idequeue[k + 1] /\ k + 1 \in 1..Len(idequeue) BY <1>5
    <3>1. PICK q \in Proc : pc[q] = "wait" /\ Top(q) = idequeue'[k] /\ locked[idequeue'[k]] = q
      BY <3>0, Queued
    <3>2. q # w BY <3>0, <3>1, <1>6, <1>9
    <3> QED BY <3>1, <3>2, <1>1, <1>10, <1>11
  <2>4. ASSUME NEW q \in Proc, pc'[q] = "wait"
        PROVE  \E k \in 1..Len(idequeue') : idequeue'[k] = Top(q)'
    <3>1. q # w /\ pc[q] = "wait" BY <2>4, <1>10
    <3>2. PICK k \in 1..Len(idequeue) : idequeue[k] = Top(q) BY <3>1, Queued
    <3>3. k # 1 BY <3>1, <3>2, <1>5, <1>8
    <3> DEFINE j == k - 1
    <3>4. j \in 1..n /\ j + 1 = k BY <3>3, <1>5
    <3> HIDE DEF j
    <3> QED BY <3>2, <3>4, <1>5, <1>11
  <2> QED BY <2>1, <2>2, <2>3, <2>4, <1>5, QueuedNext
<1>23. PinInv'
  <2>1. LogPins' \subseteq LogPins BY <1>12, <1>13, <1>15 DEF LogPins
  <2> QED BY <2>1, SamePins
<1>24. TypeOK'
  <2>1. \A j \in Buf : data'[j] # None => data'[j] \in {blockno'[j], -blockno'[j]}
    BY <1>1, <1>15, <1>t
  <2> QED BY <2>1, <1>1, <1>5, <1>10, <1>15, <1>17, Types DEF TypeOK, Item, Place
<1> QED BY <1>1, <1>18, <1>19, <1>20, <1>21, <1>22, <1>23, <1>24 DEF Inv, OnlyFull

-----------------------------------------------------------------------------
(* The steps of a process with a buffer that it has *)

\* It changes the buffer.
LEMMA Changed ==
    ASSUME Inv, NEW p \in Proc, pc[p] = "use", NEW i \in Has(p), NEW v \in Values(data[i]),
           data' = [data EXCEPT ![i] = v], dirty' = [dirty EXCEPT ![i] = TRUE],
           UNCHANGED <<disk, busy, blockno, valid>>
    PROVE  /\ i \in Buf /\ locked[i] = p /\ blockno[i] \in Block /\ \A q \in Proc : ~Asks(q, i)
           /\ data' \in [Buf -> Int \cup {None}] /\ dirty' \in [Buf -> BOOLEAN]
           /\ \A j \in Buf : data'[j] # None => data'[j] \in {blockno[j], -blockno[j]}
           /\ dirty'[i] /\ valid[i]
           /\ \A j \in Buf : j # i => data'[j] = data[j] /\ dirty'[j] = dirty[j]
           /\ \A j \in Buf : /\ dirty'[j] => valid'[j]
                             /\ valid'[j] => blockno'[j] # None /\ data'[j] # None
                             /\ valid'[j] /\ ~dirty'[j] => data'[j] = disk'[blockno'[j]]
           /\ busy' # None /\ dirty'[busy'] => disk'[blockno'[busy']] = data'[busy']
<1>1. i \in Buf /\ i \in Mine(p) /\ locked[i] = p /\ blockno[i] \in Block BY Holds
<1>2. \A q \in Proc : ~Asks(q, i)
  <2>1. \A q \in Proc : Asks(q, i) => q = p BY <1>1, AsksFor
  <2> QED BY <2>1 DEF Asks
<1>3. valid[i] /\ data[i] # None BY <1>1, <1>2 DEF Inv, DataInv
<1>t. /\ data \in [Buf -> Int \cup {None}] /\ dirty \in [Buf -> BOOLEAN]
      /\ \A j \in Buf : data[j] # None => data[j] \in {blockno[j], -blockno[j]}
      /\ busy \in Buf \cup {None}
  BY Types
<1>4. v \in Int /\ v # None /\ v \in {blockno[i], -blockno[i]}
  <2>1. data[i] \in Int /\ data[i] \in {blockno[i], -blockno[i]} BY <1>1, <1>3, <1>t
  <2>2. v \in {data[i], -data[i]} BY DEF Values
  <2>3. blockno[i] \in Int BY <1>1, Known
  <2>4. v \in Int /\ v \in {blockno[i], -blockno[i]} BY <2>1, <2>2, <2>3
  <2> QED BY <2>4, Known
<1>5. /\ data'[i] = v /\ dirty'[i]
      /\ \A j \in Buf : j # i => data'[j] = data[j] /\ dirty'[j] = dirty[j]
      /\ data' \in [Buf -> Int \cup {None}] /\ dirty' \in [Buf -> BOOLEAN]
  BY <1>1, <1>4, <1>t
<1>6. busy # i
  <2> SUFFICES ASSUME busy = i PROVE FALSE OBVIOUS
  <2>1. idequeue # << >> /\ idequeue[1] = i BY <1>1, Known, Queued
  <2>2. 1 \in 1..Len(idequeue) BY <2>1, Types, Indexed
  <2>3. PICK q \in Proc : pc[q] = "wait" /\ Top(q) = i BY <2>1, <2>2, Queued
  <2> QED BY <2>3, <1>2 DEF Asks
<1>7. \A j \in Buf : data'[j] # None => data'[j] \in {blockno[j], -blockno[j]} BY <1>4, <1>5, <1>t
<1>8. ASSUME NEW j \in Buf
      PROVE  /\ dirty'[j] => valid'[j]
             /\ valid'[j] => blockno'[j] # None /\ data'[j] # None
             /\ valid'[j] /\ ~dirty'[j] => data'[j] = disk'[blockno'[j]]
  <2>1. CASE j = i BY <2>1, <1>1, <1>3, <1>4, <1>5, Known
  <2>2. CASE j # i BY <2>2, <1>5 DEF Inv, DataInv
  <2> QED BY <2>1, <2>2
<1>9. busy' # None /\ dirty'[busy'] => disk'[blockno'[busy']] = data'[busy']
  BY <1>5, <1>6, <1>t DEF Inv, DataInv
<1> QED BY <1>1, <1>2, <1>3, <1>5, <1>7, <1>8, <1>9

\* The k-th buffer that p has.
LEMMA KthIs ==
    ASSUME Inv, NEW p \in Proc, pc[p] = "use", NEW k \in 1..Len(hold[p])
    PROVE  hold[p][k].i \in Has(p)
BY DEF Has, Of, Between

\* When it becomes the last one, p has the same buffers.
LEMMA TurnedNow ==
    ASSUME Inv, NEW p \in Proc, pc[p] = "use", NEW k \in 1..Len(hold[p]),
           hold' = [hold EXCEPT ![p] = Append(RemoveAt(hold[p], k), hold[p][k])]
    PROVE  /\ hold' \in [Proc -> Seq(Item)] /\ \A q \in Proc : Len(hold'[q]) =< MaxHold
           /\ \A q \in Proc : q # p => hold'[q] = hold[q]
           /\ hold'[p] # << >> /\ Last(hold'[p]).i = hold[p][k].i
           /\ Of(hold'[p]) = Of(hold[p]) /\ Below(hold'[p]) = Of(hold[p]) \ {hold[p][k].i}
           /\ Distinct(hold'[p]) /\ Right(hold'[p], blockno)
<1> DEFINE s == hold[p]  r == hold'[p]
<1>t. hold \in [Proc -> Seq(Item)] /\ \A q \in Proc : Len(hold[q]) =< MaxHold BY Types
<1>1. MovedToEnd(s, k, r) /\ \A q \in Proc : q # p => hold'[q] = hold[q]
  BY <1>t DEF MovedToEnd
<1>2. s \in Seq(Item) /\ Distinct(s) /\ Right(s, blockno) /\ k \in 1..Len(s) BY Holds
<1> HIDE DEF s, r
<1>3. /\ r \in Seq(Item) /\ Len(r) = Len(s) /\ r # << >> /\ Last(r).i = s[k].i
      /\ Of(r) = Of(s) /\ Below(r) = Of(s) \ {s[k].i}
      /\ Distinct(r) /\ Right(r, blockno)
  BY <1>1, <1>2, OfTurned
<1>4. hold' \in [Proc -> Seq(Item)]
  <2>1. \A q \in Proc : hold'[q] \in Seq(Item) BY <1>1, <1>3, <1>t DEF r
  <2>2. hold' = [q \in Proc |-> hold'[q]] BY <1>t
  <2> QED BY <2>1, <2>2
<1>5. \A q \in Proc : Len(hold'[q]) =< MaxHold BY <1>1, <1>3, <1>t DEF r, s
<1> QED BY <1>1, <1>3, <1>4, <1>5 DEF r, s

\* log_write pins it, if there is room in the log.
LEMMA LogWriteInv ==
    ASSUME Inv, NEW p \in Proc, NEW k \in 1..Len(hold[p]), LogWrite(p, k)
    PROVE  Inv'
<1> DEFINE i == hold[p][k].i
<1>1. /\ pc[p] = "use"
      /\ dirty[i] \/ Cardinality(Pinned) < MaxPinned
      /\ dirty' = [dirty EXCEPT ![i] = TRUE]
      /\ UNCHANGED <<disk, idequeue, busy, blockno, refcnt, valid, locked, pc, hold, panic>>
  BY DEF LogWrite, ide
<1>2. PICK v \in Values(data[i]) : data' = [data EXCEPT ![i] = v] BY DEF LogWrite
<1>3. i \in Has(p) BY <1>1, KthIs
<1> HIDE DEF i
<1>4. /\ i \in Buf /\ locked[i] = p /\ blockno[i] \in Block /\ \A q \in Proc : ~Asks(q, i)
      /\ data' \in [Buf -> Int \cup {None}] /\ dirty' \in [Buf -> BOOLEAN]
      /\ \A j \in Buf : data'[j] # None => data'[j] \in {blockno[j], -blockno[j]}
      /\ dirty'[i] /\ valid[i]
      /\ \A j \in Buf : j # i => data'[j] = data[j] /\ dirty'[j] = dirty[j]
      /\ \A j \in Buf : /\ dirty'[j] => valid'[j]
                        /\ valid'[j] => blockno'[j] # None /\ data'[j] # None
                        /\ valid'[j] /\ ~dirty'[j] => data'[j] = disk'[blockno'[j]]
      /\ busy' # None /\ dirty'[busy'] => disk'[blockno'[busy']] = data'[busy']
  BY <1>1, <1>2, <1>3, Changed
<1>5. \A q \in Proc : Mine(q)' = Mine(q) /\ Has(q)' = Has(q) /\ Top(q)' = Top(q) BY <1>1, Unmoved
<1>6. \A q \in Proc : \A j : Asks(q, j)' <=> Asks(q, j) BY <1>1, <1>5 DEF Asks
<1>7. HoldInv' BY <1>1 DEF Inv, HoldInv
<1>8. LockInv' BY <1>1, <1>5 DEF Inv, LockInv
<1>9. CountInv' BY <1>1, <1>5, SameCount DEF Inv
<1>10. DataInv'
  <2>1. \A q \in Proc : \A j \in Has(q)' : valid'[j] \/ Asks(q, j)'
    BY <1>1, <1>5, <1>6 DEF Inv, DataInv
  <2>2. \A q \in Proc, j \in Buf : Asks(q, j)' => ~valid'[j] \/ dirty'[j]
    BY <1>1, <1>4, <1>6 DEF Inv, DataInv
  <2> QED BY <2>1, <2>2, <1>4 DEF DataInv
<1>11. QueueInv' BY <1>1, <1>5, SameQueue DEF Inv
<1>12. PinInv'
  <2>1. CASE dirty[i]
    <3>1. LogPins' \subseteq LogPins BY <2>1, <1>4, <1>6 DEF LogPins
    <3> QED BY <3>1, SamePins
  <2>2. CASE ~dirty[i]
    <3> DEFINE m == Cardinality(LogPins)  n == Cardinality(LogPins')  c == Cardinality(Pinned)
    <3>1. LogPins \subseteq Pinned
      <4> SUFFICES ASSUME NEW j \in LogPins, j \in Range(idequeue) PROVE FALSE
        BY DEF Pinned, LogPins
      <4>1. PICK q \in Proc : pc[q] = "wait" /\ Top(q) = j
        BY DEF Inv, QueueInv, QueueIsSound
      <4> QED BY <4>1 DEF LogPins, Asks
    <3>2. IsFiniteSet(Pinned) /\ IsFiniteSet(LogPins) BY Known, FS_Subset DEF Pinned, LogPins
    <3>3. m =< c /\ m \in Nat /\ c \in Nat BY <3>1, <3>2, FS_Subset, FS_CardinalityType
    <3>4. LogPins' = LogPins \cup {i} BY <1>4, <1>6 DEF LogPins
    <3>5. i \notin LogPins BY <2>2 DEF LogPins
    <3>6. n = m + 1 BY <3>2, <3>4, <3>5, FS_AddElement
    <3>7. c < MaxPinned BY <2>2, <1>1
    <3> HIDE DEF m, n, c
    <3>8. n =< MaxPinned BY <3>3, <3>6, <3>7, Known
    <3> QED BY <3>8 DEF PinInv, n
  <2> QED BY <2>1, <2>2
<1>13. TypeOK' BY <1>1, <1>4, Types DEF TypeOK, Item, Place
<1> QED BY <1>1, <1>7, <1>8, <1>9, <1>10, <1>11, <1>12, <1>13 DEF Inv, OnlyFull

\* bwrite changes the buffer and goes to iderw.
LEMMA BwriteInv ==
    ASSUME Inv, NEW p \in Proc, NEW k \in 1..Len(hold[p]), Bwrite(p, k)
    PROVE  Inv'
<1> DEFINE i == hold[p][k].i
<1>1. /\ pc[p] = "use"
      /\ dirty' = [dirty EXCEPT ![i] = TRUE]
      /\ pc' = [pc EXCEPT ![p] = "iderw"]
      /\ hold' = [hold EXCEPT ![p] = Append(RemoveAt(hold[p], k), hold[p][k])]
      /\ UNCHANGED <<disk, idequeue, busy, blockno, refcnt, valid, locked, panic>>
  BY DEF Bwrite, ide
<1>2. PICK v \in Values(data[i]) : data' = [data EXCEPT ![i] = v] BY DEF Bwrite
<1>3. i \in Has(p) /\ Has(p) = Mine(p) BY <1>1, KthIs, Locks DEF Between
<1>t. /\ hold' \in [Proc -> Seq(Item)] /\ \A q \in Proc : Len(hold'[q]) =< MaxHold
      /\ \A q \in Proc : q # p => hold'[q] = hold[q]
      /\ hold'[p] # << >> /\ Last(hold'[p]).i = i
      /\ Of(hold'[p]) = Of(hold[p]) /\ Distinct(hold'[p]) /\ Right(hold'[p], blockno)
  BY <1>1, TurnedNow
<1> HIDE DEF i
<1>4. /\ i \in Buf /\ locked[i] = p /\ blockno[i] \in Block /\ \A q \in Proc : ~Asks(q, i)
      /\ data' \in [Buf -> Int \cup {None}] /\ dirty' \in [Buf -> BOOLEAN]
      /\ \A j \in Buf : data'[j] # None => data'[j] \in {blockno[j], -blockno[j]}
      /\ dirty'[i] /\ valid[i]
      /\ \A j \in Buf : j # i => data'[j] = data[j] /\ dirty'[j] = dirty[j]
      /\ \A j \in Buf : /\ dirty'[j] => valid'[j]
                        /\ valid'[j] => blockno'[j] # None /\ data'[j] # None
                        /\ valid'[j] /\ ~dirty'[j] => data'[j] = disk'[blockno'[j]]
      /\ busy' # None /\ dirty'[busy'] => disk'[blockno'[busy']] = data'[busy']
  BY <1>1, <1>2, <1>3, Changed
<1>5. "iderw" \in Place /\ "iderw" \notin Between /\ "iderw" # "idle" BY DEF Place, Between
<1>6. /\ pc' \in [Proc -> Place] /\ pc'[p] = "iderw"
      /\ \A q \in Proc : q # p => pc'[q] = pc[q]
  <2>1. pc \in [Proc -> Place] BY Types
  <2> QED BY <2>1, <1>1, <1>5
<1>a. /\ Mine(p)' = Mine(p) /\ Has(p)' = Mine(p) /\ Top(p)' = i
      /\ \A q \in Proc : q # p => Mine(q)' = Mine(q) /\ Has(q)' = Has(q) /\ Top(q)' = Top(q)
  <2>1. Mine(p)' = Mine(p) /\ Has(p)' = Mine(p) /\ Top(p)' = i
    BY <1>t, <1>5, <1>6 DEF Mine, Has, Top
  <2>2. \A q \in Proc : q # p => Mine(q)' = Mine(q) /\ Has(q)' = Has(q) /\ Top(q)' = Top(q)
    BY <1>t, <1>6, Unmoved
  <2> QED BY <2>1, <2>2
<1>b. /\ \A q \in Proc : q # p => \A j : Asks(q, j)' <=> Asks(q, j)
      /\ \A j : Asks(p, j)' <=> i = j
  BY <1>6, <1>a DEF Asks
<1>c. HoldInv'
  <2> SUFFICES ASSUME NEW q \in Proc
               PROVE  /\ hold'[q] = << >> <=> pc'[q] = "idle"
                      /\ Distinct(hold'[q]) /\ Right(hold'[q], blockno')
    BY DEF HoldInv
  <2>1. CASE q = p BY <2>1, <1>1, <1>t, <1>5, <1>6
  <2>2. CASE q # p BY <2>2, <1>1, <1>t, <1>6, Holds
  <2> QED BY <2>1, <2>2
<1>7. \A q \in Proc : Has(q)' = Has(q) /\ Mine(q)' = Mine(q) BY <1>3, <1>a
<1>8. \A j : ~Asks(p, j) BY <1>1 DEF Asks
<1>9. LockInv' BY <1>1, <1>7 DEF Inv, LockInv
<1>10. CountInv' BY <1>1, <1>7, SameCount DEF Inv
<1>11. DataInv'
  <2>1. \A q \in Proc : \A j \in Has(q)' : valid'[j] \/ Asks(q, j)'
    BY <1>1, <1>b, <1>7, <1>8 DEF Inv, DataInv
  <2>2. \A q \in Proc, j \in Buf : Asks(q, j)' => ~valid'[j] \/ dirty'[j]
    BY <1>1, <1>4, <1>b DEF Inv, DataInv
  <2> QED BY <2>1, <2>2, <1>4 DEF DataInv
<1>12. QueueInv'
  <2>1. \A q \in Proc : pc'[q] = "wait" <=> pc[q] = "wait" BY <1>1, <1>6
  <2>2. \A q \in Proc : pc[q] = "wait" => Top(q)' = Top(q) BY <1>1, <1>a
  <2> QED BY <2>1, <2>2, <1>1, SameQueue DEF Inv
<1>13. PinInv'
  <2>1. LogPins' \subseteq LogPins
    <3> SUFFICES ASSUME NEW j \in LogPins' PROVE j \in LogPins OBVIOUS
    <3>1. j \in Buf /\ dirty'[j] /\ \A q \in Proc : ~Asks(q, j)' BY DEF LogPins
    <3>2. j # i BY <3>1, <1>b
    <3> QED BY <3>1, <3>2, <1>4, <1>b, <1>8 DEF LogPins
  <2> QED BY <2>1, SamePins
<1>14. TypeOK' BY <1>1, <1>4, <1>6, <1>t, Types DEF TypeOK, Item, Place
<1> QED BY <1>1, <1>c, <1>9, <1>10, <1>11, <1>12, <1>13, <1>14 DEF Inv, OnlyFull

\* brelse gives up the sleep-lock and wakes who waits for it.
LEMMA BrelseInv ==
    ASSUME Inv, NEW p \in Proc, NEW k \in 1..Len(hold[p]), Brelse(p, k)
    PROVE  Inv'
<1> DEFINE i == hold[p][k].i  r == hold'[p]
<1>1. /\ pc[p] = "use"
      /\ panic' = IF locked[i] # p THEN "brelse" ELSE panic
      /\ locked' = [locked EXCEPT ![i] = None]
      /\ pc' = [q \in Proc |-> IF q = p THEN "brelse"
                               ELSE IF pc[q] = "asleep" /\ Top(q) = i THEN "acquiresleep"
                               ELSE pc[q]]
      /\ hold' = [hold EXCEPT ![p] = Append(RemoveAt(hold[p], k), hold[p][k])]
      /\ UNCHANGED <<disk, idequeue, busy, blockno, refcnt, valid, dirty, data>>
  BY DEF Brelse, ide, flags
<1>2. i \in Has(p) /\ i \in Buf /\ locked[i] = p BY <1>1, KthIs, Holds
<1>3. panic' \in {None, "bget: no buffers"} BY <1>1, <1>2, Types
<1>t. locked \in [Buf -> Proc \cup {None}] /\ pc \in [Proc -> Place] BY Types
<1>4. \A q \in Proc : q # p => hold'[q] = hold[q] BY <1>1, TurnedNow
<1>5. /\ hold' \in [Proc -> Seq(Item)] /\ \A q \in Proc : Len(hold'[q]) =< MaxHold
      /\ r # << >> /\ Of(r) = Of(hold[p]) /\ Below(r) = Of(hold[p]) \ {i}
      /\ Distinct(r) /\ Right(r, blockno)
  BY <1>1, TurnedNow
<1> HIDE DEF i
<1>6. /\ pc'[p] = "brelse"
      /\ \A q \in Proc : q # p => \/ pc'[q] = pc[q]
                                  \/ pc[q] = "asleep" /\ pc'[q] = "acquiresleep"
      /\ pc' \in [Proc -> Place]
  BY <1>1, <1>t DEF Place
<1>7. Mine(p)' = Mine(p) /\ Has(p)' = Has(p) \ {i}
  <2>1. Mine(p)' = Mine(p) BY <1>5 DEF Mine
  <2>2. Has(p)' = Below(r) BY <1>6 DEF Has, Between
  <2>3. Has(p) = Of(hold[p]) BY <1>1 DEF Has, Between
  <2> QED BY <2>1, <2>2, <2>3, <1>5
<1> HIDE DEF r
<1>8. \A q \in Proc : q # p => Mine(q)' = Mine(q) /\ Has(q)' = Has(q) /\ Top(q)' = Top(q)
  <2>1. \A q \in Proc : q # p => (pc'[q] \in Between <=> pc[q] \in Between) BY <1>6 DEF Between
  <2> QED BY <2>1, <1>4, Unmoved
<1>9. \A q \in Proc : \A j : Asks(q, j)' <=> Asks(q, j)
  <2>1. \A j : ~Asks(p, j) /\ ~Asks(p, j)' BY <1>1, <1>6 DEF Asks
  <2>2. \A q \in Proc : q # p => (pc'[q] \in {"iderw", "wait"} <=> pc[q] \in {"iderw", "wait"})
    BY <1>6
  <2>3. \A q \in Proc : \A j : q # p => (Asks(q, j)' <=> Asks(q, j)) BY <2>2, <1>8 DEF Asks
  <2> QED BY <2>1, <2>3
<1>10. \A q \in Proc : Has(q)' \subseteq Has(q) BY <1>7, <1>8
<1>11. HoldInv'
  <2> SUFFICES ASSUME NEW q \in Proc
               PROVE  /\ hold'[q] = << >> <=> pc'[q] = "idle"
                      /\ Distinct(hold'[q]) /\ Right(hold'[q], blockno')
    BY DEF HoldInv
  <2>1. CASE q = p BY <2>1, <1>1, <1>5, <1>6 DEF r
  <2>2. CASE q # p
    <3>1. pc'[q] = "idle" <=> pc[q] = "idle" BY <2>2, <1>6
    <3> QED BY <3>1, <2>2, <1>1, <1>4, Holds
  <2> QED BY <2>1, <2>2
<1>12. LockInv'
  <2>1. ASSUME NEW q \in Proc, NEW j \in Buf PROVE locked'[j] = q <=> j \in Has(q)'
    <3>1. locked[j] = q <=> j \in Has(q) BY Holds
    <3>2. CASE j = i
      <4>1. locked'[j] = None /\ locked[j] = p BY <3>2, <1>1, <1>2, <1>t
      <4> QED BY <4>1, <3>1, <3>2, <1>7, <1>8, Known
    <3>3. CASE j # i
      <4>1. locked'[j] = locked[j] BY <3>3, <1>1, <1>2, <1>t
      <4> QED BY <4>1, <3>1, <3>3, <1>7, <1>8
    <3> QED BY <3>2, <3>3
  <2> QED BY <2>1, <1>1 DEF Inv, LockInv
<1>13. CountInv' BY <1>1, <1>7, <1>8, SameCount DEF Inv
<1>14. DataInv' BY <1>1, <1>9, <1>10 DEF Inv, DataInv
<1>15. QueueInv'
  <2>1. \A q \in Proc : pc'[q] = "wait" <=> pc[q] = "wait" BY <1>1, <1>6
  <2>2. \A q \in Proc : pc[q] = "wait" =>
             Top(q)' = Top(q) /\ (locked[Top(q)] = q => locked'[Top(q)] = q)
    <3> SUFFICES ASSUME NEW q \in Proc, pc[q] = "wait"
                 PROVE  Top(q)' = Top(q) /\ (locked[Top(q)] = q => locked'[Top(q)] = q)
      OBVIOUS
    <3>1. q # p /\ Top(q)' = Top(q) BY <1>1, <1>8
    <3>2. Top(q) \in Buf BY Holds
    <3>3. locked[Top(q)] = q => Top(q) # i BY <3>1, <1>2
    <3> QED BY <3>1, <3>2, <3>3, <1>1, <1>t
  <2> QED BY <2>1, <2>2, <1>1, SameQueue DEF Inv
<1>16. PinInv'
  <2>1. LogPins' = LogPins BY <1>1, <1>9 DEF LogPins
  <2> QED BY <2>1, SamePins
<1>17. TypeOK'
  <2>1. locked' \in [Buf -> Proc \cup {None}] BY <1>1, <1>t
  <2> QED BY <2>1, <1>1, <1>5, <1>6, Types DEF TypeOK, Item, Place
<1> QED BY <1>3, <1>11, <1>12, <1>13, <1>14, <1>15, <1>16, <1>17 DEF Inv, OnlyFull

\* The rest of brelse: one user fewer.
LEMMA DropInv ==
    ASSUME Inv, NEW p \in Proc, Drop(p)
    PROVE  Inv'
<1> DEFINE i == Top(p)  r == hold'[p]
<1>1. /\ pc[p] = "brelse"
      /\ refcnt' = [refcnt EXCEPT ![i] = refcnt[i] - 1]
      /\ hold' = [hold EXCEPT ![p] = Front(hold[p])]
      /\ pc' = [pc EXCEPT ![p] = IF Len(hold[p]) = 1 THEN "idle" ELSE "use"]
      /\ UNCHANGED <<disk, idequeue, busy, blockno, valid, dirty, data, locked, panic>>
  BY DEF Drop, ide, flags
<1>t. /\ pc \in [Proc -> Place] /\ hold \in [Proc -> Seq(Item)]
      /\ \A q \in Proc : Len(hold[q]) =< MaxHold
  BY Types
<1>2. /\ i \in Buf /\ i \in Mine(p) /\ Mine(p) = Below(hold[p]) \cup {i} /\ i \notin Below(hold[p])
      /\ hold[p] # << >> /\ Has(p) = Below(hold[p])
  BY <1>1, Holds DEF Has, Between
<1>3. r = Front(hold[p]) /\ \A q \in Proc : q # p => hold'[q] = hold[q] BY <1>1, <1>t
<1>4. /\ r \in Seq(Item) /\ Len(r) = Len(hold[p]) - 1 /\ (r = << >> <=> Len(hold[p]) = 1)
      /\ Of(r) = Below(hold[p]) /\ Distinct(r) /\ Right(r, blockno)
  <2> DEFINE s == hold[p]
  <2>1. s \in Seq(Item) /\ s # << >> /\ Distinct(s) /\ Right(s, blockno) BY <1>2, Holds
  <2>2. r = Front(s) BY <1>3
  <2> HIDE DEF s, r
  <2>3. /\ r \in Seq(Item) /\ Len(r) = Len(s) - 1 /\ (r = << >> <=> Len(s) = 1)
        /\ Of(r) = Below(s) /\ Distinct(r) /\ Right(r, blockno)
    BY <2>1, <2>2, OfFront
  <2> QED BY <2>3 DEF s
<1> HIDE DEF i
<1>5. /\ pc' \in [Proc -> Place] /\ pc'[p] \in {"idle", "use"} /\ (pc'[p] = "idle" <=> r = << >>)
      /\ \A q \in Proc : q # p => pc'[q] = pc[q]
  BY <1>1, <1>4, <1>t DEF Place
<1>6. Mine(p)' = Mine(p) \ {i} /\ Has(p)' = Has(p)
  BY <1>2, <1>4, <1>5 DEF Mine, Has, Between
<1> HIDE DEF r
<1>7. \A q \in Proc : q # p => Mine(q)' = Mine(q) /\ Has(q)' = Has(q) /\ Top(q)' = Top(q)
  BY <1>3, <1>5, Unmoved
<1>8. \A q \in Proc : \A j : Asks(q, j)' <=> Asks(q, j) BY <1>1, <1>5, <1>7 DEF Asks
<1>9. \A q \in Proc : Has(q)' = Has(q) BY <1>6, <1>7
<1>10. HoldInv'
  <2> SUFFICES ASSUME NEW q \in Proc
               PROVE  /\ hold'[q] = << >> <=> pc'[q] = "idle"
                      /\ Distinct(hold'[q]) /\ Right(hold'[q], blockno')
    BY DEF HoldInv
  <2>1. CASE q = p BY <2>1, <1>1, <1>4, <1>5 DEF r
  <2>2. CASE q # p BY <2>2, <1>1, <1>3, <1>5, Holds
  <2> QED BY <2>1, <2>2
<1>11. LockInv' BY <1>1, <1>9 DEF Inv, LockInv
<1>12. CountInv' /\ refcnt' \in [Buf -> 0..Cardinality(Proc)] BY <1>1, <1>2, <1>6, <1>7, OneFewer
<1>13. DataInv' BY <1>1, <1>8, <1>9 DEF Inv, DataInv
<1>14. QueueInv'
  <2>1. \A q \in Proc : pc'[q] = "wait" <=> pc[q] = "wait" BY <1>1, <1>5
  <2>2. \A q \in Proc : pc[q] = "wait" => Top(q)' = Top(q) BY <1>1, <1>7
  <2> QED BY <2>1, <2>2, <1>1, SameQueue DEF Inv
<1>15. PinInv'
  <2>1. LogPins' = LogPins BY <1>1, <1>8 DEF LogPins
  <2> QED BY <2>1, SamePins
<1>16. TypeOK'
  <2>1. hold' \in [Proc -> Seq(Item)]
    <3>1. \A q \in Proc : hold'[q] \in Seq(Item) BY <1>3, <1>4, <1>t DEF r
    <3>2. hold' = [q \in Proc |-> hold'[q]] BY <1>1, <1>t
    <3> QED BY <3>1, <3>2
  <2>2. \A q \in Proc : Len(hold'[q]) =< MaxHold
    <3>1. Len(hold[p]) \in Nat /\ Len(hold[p]) =< MaxHold BY <1>t
    <3>2. Len(hold'[p]) =< MaxHold BY <3>1, <1>4, Known DEF r
    <3> QED BY <3>2, <1>3, <1>t
  <2> QED BY <2>1, <2>2, <1>1, <1>5, <1>12, Types DEF TypeOK, Item, Place
<1> QED BY <1>1, <1>10, <1>11, <1>12, <1>13, <1>14, <1>15, <1>16, Types DEF Inv, OnlyFull

-----------------------------------------------------------------------------
(* The invariant *)

\* Init establishes it.
LEMMA InitInv == Init => Inv
<1> SUFFICES ASSUME Init PROVE Inv OBVIOUS
<1>1. /\ disk = [b \in Block |-> b] /\ idequeue = << >> /\ busy = None
      /\ blockno = [i \in Buf |-> None] /\ refcnt = [i \in Buf |-> 0]
      /\ valid = [i \in Buf |-> FALSE] /\ dirty = [i \in Buf |-> FALSE]
      /\ data = [i \in Buf |-> None] /\ locked = [i \in Buf |-> None]
      /\ pc = [p \in Proc |-> "idle"] /\ hold = [p \in Proc |-> << >>] /\ panic = None
  BY DEF Init
<1>2. \A p \in Proc : Mine(p) = {} /\ Has(p) = {} BY <1>1 DEF Mine, Has, Of, Between
<1>3. \A p \in Proc : \A i : ~Asks(p, i) BY <1>1 DEF Asks
<1>4. TypeOK
  <2>1. disk \in [Block -> Int] /\ \A b \in Block : disk[b] \in {b, -b} BY <1>1, Known
  <2>2. 0 \in 0..Cardinality(Proc) BY Known, FS_CardinalityType
  <2>3. refcnt \in [Buf -> 0..Cardinality(Proc)] BY <2>2, <1>1
  <2>4. hold \in [Proc -> Seq(Item)] /\ \A p \in Proc : Len(hold[p]) =< MaxHold BY <1>1, Known
  <2>5. idequeue \in Seq(Buf) BY <1>1
  <2> QED BY <2>1, <2>3, <2>4, <2>5, <1>1 DEF TypeOK, Item
<1>5. HoldInv BY <1>1 DEF HoldInv, Distinct, Right
<1>6. LockInv BY <1>1, <1>2, Known DEF LockInv
<1>7. CountInv
  <2>1. ASSUME NEW i \in Buf PROVE refcnt[i] = Cardinality(Users(i))
    <3>1. Users(i) = {} BY <1>2 DEF Users
    <3> QED BY <3>1, <1>1, FS_EmptySet
  <2> QED BY <2>1 DEF CountInv, Users
<1>8. DataInv BY <1>1, <1>2, <1>3 DEF DataInv
<1>9. QueueInv
  <2>1. idequeue \in Seq(Buf) /\ Len(idequeue) = 0 BY <1>1
  <2>2. 1..Len(idequeue) = {} BY <2>1
  <2>3. IsInjective(idequeue) /\ \A i : i \notin Range(idequeue)
    BY <2>1, <2>2 DEF IsInjective, Range
  <2> QED BY <2>3, <1>1 DEF QueueInv, QueueIsSound
<1>10. PinInv
  <2>1. LogPins = {} BY <1>1 DEF LogPins
  <2> QED BY <2>1, Known, FS_EmptySet DEF PinInv
<1> QED BY <1>1, <1>4, <1>5, <1>6, <1>7, <1>8, <1>9, <1>10 DEF Inv, OnlyFull

\* Every step keeps it.
LEMMA NextInv == ASSUME Inv, [Next]_vars PROVE Inv'
<1>1. CASE Ideintr BY <1>1, IdeintrInv
<1>2. ASSUME NEW p \in Proc, Bget(p) PROVE Inv'
  BY <1>2, BgetHitInv, BgetFullInv, BgetRecycleInv DEF Bget
<1>3. ASSUME NEW p \in Proc, AcquireSleep(p) PROVE Inv' BY <1>3, AcquireSleepInv
<1>4. ASSUME NEW p \in Proc, Iderw(p) PROVE Inv' BY <1>4, IderwInv
<1>5. ASSUME NEW p \in Proc, Use(p) PROVE Inv' BY <1>5, BwriteInv, LogWriteInv DEF Use
<1>6. ASSUME NEW p \in Proc, Release(p) PROVE Inv' BY <1>6, BrelseInv DEF Release
<1>7. ASSUME NEW p \in Proc, Drop(p) PROVE Inv' BY <1>7, DropInv
<1>8. CASE UNCHANGED vars
  <2>1. UNCHANGED <<disk, idequeue, busy, blockno, refcnt, valid, dirty, data, locked, pc, hold, panic>>
    BY <1>8 DEF vars, ide, flags
  <2>2. OnlyFull' BY <2>1 DEF Inv, OnlyFull
  <2> QED BY <2>1, <2>2, StopInv
<1> QED BY <1>1, <1>2, <1>3, <1>4, <1>5, <1>6, <1>7, <1>8 DEF Next

\* No step stops the kernel, if there are enough buffers.
LEMMA NextGoesOn == ASSUME Enough, Inv, NeverPanics, [Next]_vars PROVE NeverPanics'
<1>0. panic = None BY DEF NeverPanics
<1>1. CASE Ideintr BY <1>0, <1>1 DEF Ideintr, NeverPanics
<1>2. ASSUME NEW p \in Proc, NEW b \in Block, BgetHit(p, b) \/ BgetRecycle(p, b) PROVE NeverPanics'
  <2>1. CASE BgetHit(p, b) BY <2>1, <1>0 DEF BgetHit, NeverPanics
  <2>2. CASE BgetRecycle(p, b)
    <3>1. MayAsk(p, b) BY <2>2 DEF BgetRecycle
    <3>2. Unused # {} BY <3>1, SomeUnused
    <3>3. UNCHANGED panic BY <2>2, <3>2 DEF BgetRecycle
    <3> QED BY <3>3, <1>0 DEF NeverPanics
  <2> QED BY <1>2, <2>1, <2>2
<1>3. ASSUME NEW p \in Proc, AcquireSleep(p) PROVE NeverPanics'
  BY <1>0, <1>3 DEF AcquireSleep, NeverPanics
<1>4. ASSUME NEW p \in Proc, Iderw(p) PROVE NeverPanics'
  <2>1. panic' \in {"iderw: buf not locked", "iderw: nothing to do", None}
    BY <1>0, <1>4 DEF Iderw
  <2>2. OnlyFull' BY <1>4, IderwInv DEF Inv
  <2> QED BY <2>1, <2>2 DEF OnlyFull, NeverPanics
<1>5. ASSUME NEW p \in Proc, Use(p) PROVE NeverPanics'
  BY <1>0, <1>5 DEF Use, Bwrite, LogWrite, NeverPanics
<1>6. ASSUME NEW p \in Proc, Release(p) PROVE NeverPanics'
  <2>1. PICK k \in 1..Len(hold[p]) : Brelse(p, k) BY <1>6 DEF Release
  <2>2. panic' \in {"brelse", None} BY <1>0, <2>1 DEF Brelse
  <2>3. OnlyFull' BY <2>1, BrelseInv DEF Inv
  <2> QED BY <2>2, <2>3 DEF OnlyFull, NeverPanics
<1>7. ASSUME NEW p \in Proc, Drop(p) PROVE NeverPanics' BY <1>0, <1>7 DEF Drop, NeverPanics
<1>8. CASE UNCHANGED vars BY <1>0, <1>8 DEF vars, NeverPanics
<1> QED BY <1>1, <1>2, <1>3, <1>4, <1>5, <1>6, <1>7, <1>8 DEF Next, Bget

\* What processes have, what is locked, counted and queued, and where the
\* contents of a block are agree at all times; the checks of iderw (ide.c:143,
\* 145) and brelse (bio.c:124) hold.
THEOREM BcacheInvariant == Spec => []Inv
<1>1. Init => Inv BY InitInv
<1>2. Inv /\ [Next]_vars => Inv' BY NextInv
<1> QED BY <1>1, <1>2, PTL DEF Spec

\* Nor does a process find all buffers in use (bio.c:92), if there are enough.
THEOREM BcacheNeverPanics == Enough => (Spec => []NeverPanics)
<1> SUFFICES ASSUME Enough PROVE Spec => []NeverPanics OBVIOUS
<1>1. Init => NeverPanics BY DEF Init, NeverPanics
<1>2. Inv /\ NeverPanics /\ [Next]_vars => NeverPanics' BY NextGoesOn
<1> QED BY <1>1, <1>2, BcacheInvariant, PTL DEF Spec

\* A buffer stays the buffer of its block while somebody uses it, its count
\* is the number of its users, and the queue of the disk is sound.
THEOREM BcacheIsSound == Spec => []BcacheInv
<1>1. Spec => []Inv BY BcacheInvariant
<1>2. Inv => BcacheInv
  <2> SUFFICES ASSUME Inv PROVE BcacheInv OBVIOUS
  <2>1. \A p \in Proc : \A k \in 1..Len(hold[p]) : blockno[hold[p][k].i] = hold[p][k].b
    BY Holds DEF Right
  <2>2. ASSUME NEW i \in Buf
        PROVE  refcnt[i] = Cardinality({p \in Proc : \E k \in 1..Len(hold[p]) : hold[p][k].i = i})
    <3>1. \A p \in Proc : i \in Mine(p) <=> \E k \in 1..Len(hold[p]) : hold[p][k].i = i
      BY DEF Mine, Of
    <3>2. {p \in Proc : i \in Mine(p)} = {p \in Proc : \E k \in 1..Len(hold[p]) : hold[p][k].i = i}
      BY <3>1
    <3> QED BY <3>2 DEF Inv, CountInv
  <2> QED BY <2>1, <2>2 DEF BcacheInv, KeptWhileInUse, Inv, QueueInv
<1> QED BY <1>1, <1>2, PTL

-----------------------------------------------------------------------------
(* The refinement of BlockStore *)

\* Whose a block is and what is in it: as its buffer says, if it has one.
Mapped ==
    /\ \A b \in Block, i \in Buf : blockno[i] = b =>
          Owner(b) = locked[i] /\ Content(b) = IF valid[i] THEN data[i] ELSE disk[b]
    /\ \A b \in Block : (\A i \in Buf : blockno[i] # b) => Owner(b) = None /\ Content(b) = disk[b]

\* That follows from the invariant.
LEMMA MappedNow == Inv => Mapped
<1> SUFFICES ASSUME Inv PROVE Mapped OBVIOUS
<1>1. ASSUME NEW b \in Block, NEW i \in Buf, blockno[i] = b
      PROVE  Owner(b) = locked[i] /\ Content(b) = IF valid[i] THEN data[i] ELSE disk[b]
  <2>1. \A j \in Buf : blockno[j] = b => j = i BY <1>1, Known DEF Inv, LockInv
  <2>2. Cached(b) = {i} BY <2>1, <1>1 DEF Cached
  <2>3. Owner(b) = locked[i]
    <3>1. CASE locked[i] = None BY <3>1, <2>2 DEF Owner
    <3>2. CASE locked[i] # None
      <4> DEFINE j == CHOOSE j \in Cached(b) : locked[j] # None
      <4>1. j \in Cached(b) BY <3>2, <2>2
      <4>2. j = i BY <4>1, <2>2
      <4> QED BY <4>2, <3>2, <2>2 DEF Owner
    <3> QED BY <3>1, <3>2
  <2>4. Content(b) = IF valid[i] THEN data[i] ELSE disk[b]
    <3>1. CASE ~valid[i] BY <3>1, <2>2 DEF Content
    <3>2. CASE valid[i]
      <4> DEFINE j == CHOOSE j \in Cached(b) : valid[j]
      <4>1. j \in Cached(b) BY <3>2, <2>2
      <4>2. j = i BY <4>1, <2>2
      <4> QED BY <4>2, <3>2, <2>2 DEF Content
    <3> QED BY <3>1, <3>2
  <2> QED BY <2>3, <2>4
<1>2. ASSUME NEW b \in Block, \A i \in Buf : blockno[i] # b
      PROVE  Owner(b) = None /\ Content(b) = disk[b]
  <2>1. Cached(b) = {} BY <1>2 DEF Cached
  <2> QED BY <2>1 DEF Owner, Content
<1> QED BY <1>1, <1>2 DEF Mapped

\* And in the next state.
LEMMA MappedNext == Inv' => Mapped'
BY MappedNow, PTL

\* A step that shows neither to users.
LEMMA Unseen ==
    ASSUME \A b \in Block : Owner(b)' = Owner(b) /\ Content(b)' = Content(b)
    PROVE  [Store!Next]_(Store!vars)
BY DEF Store!vars

\* The two in terms of BlockStore.
LEMMA OneOwner ==
    ASSUME NEW b \in Block, NEW v, Owner(b)' = v,
           \A c \in Block : (c # b => Owner(c)' = Owner(c)) /\ Content(c)' = Content(c)
    PROVE  /\ [c \in Block |-> Owner(c)]' = [[c \in Block |-> Owner(c)] EXCEPT ![b] = v]
           /\ [c \in Block |-> Content(c)]' = [c \in Block |-> Content(c)]
OBVIOUS

\* A process gets a block.
LEMMA Taken ==
    ASSUME NEW p \in Proc, NEW b \in Block, Owner(b) = None, Owner(b)' = p,
           \A c \in Block : (c # b => Owner(c)' = Owner(c)) /\ Content(c)' = Content(c)
    PROVE  [Store!Next]_(Store!vars)
<1>1. Store!Take(p, b) BY OneOwner DEF Store!Take
<1> QED BY <1>1 DEF Store!Next

\* It gives it back.
LEMMA Given ==
    ASSUME NEW p \in Proc, NEW b \in Block, Owner(b) = p, Owner(b)' = None,
           \A c \in Block : (c # b => Owner(c)' = Owner(c)) /\ Content(c)' = Content(c)
    PROVE  [Store!Next]_(Store!vars)
<1>1. Store!Give(p, b) BY OneOwner DEF Store!Give
<1> QED BY <1>1 DEF Store!Next

\* It changes it.
LEMMA Changes ==
    ASSUME NEW p \in Proc, NEW b \in Block, Owner(b) = p, Content(b)' \in {b, -b},
           \A c \in Block : Owner(c)' = Owner(c) /\ (c # b => Content(c)' = Content(c))
    PROVE  [Store!Next]_(Store!vars)
<1> DEFINE v == Content(b)'
<1>1. v \in Block \cup {-c : c \in Block} OBVIOUS
<1>2. v = Content(b)' OBVIOUS
<1> HIDE DEF v
<1>3. /\ [c \in Block |-> Content(c)]' = [[c \in Block |-> Content(c)] EXCEPT ![b] = v]
      /\ [c \in Block |-> Owner(c)]' = [c \in Block |-> Owner(c)]
  BY <1>2
<1>4. Store!Put(p, b, v) BY <1>3 DEF Store!Put
<1> QED BY <1>1, <1>4 DEF Store!Next

\* bget of a cached block shows nothing.
LEMMA BgetHitStep ==
    ASSUME NEW p \in Proc, NEW b \in Block, BgetHit(p, b)
    PROVE  [Store!Next]_(Store!vars)
<1>1. UNCHANGED <<disk, blockno, valid, data, locked>> BY DEF BgetHit, ide, flags
<1>2. \A c : Owner(c)' = Owner(c) /\ Content(c)' = Content(c) BY <1>1 DEF Owner, Content, Cached
<1> QED BY <1>2, Unseen

\* Nor does recycling a buffer: nobody has it, and it is as on disk.
LEMMA BgetRecycleStep ==
    ASSUME Inv, Inv', NEW p \in Proc, NEW b \in Block, BgetRecycle(p, b), Unused # {}
    PROVE  [Store!Next]_(Store!vars)
<1>m. Cached(b) = {} BY DEF BgetRecycle
<1>u. Unused # {} OBVIOUS
<1>1. PICK i \in Unused :
          /\ blockno' = [blockno EXCEPT ![i] = b]
          /\ valid' = [valid EXCEPT ![i] = FALSE]
          /\ data' = [data EXCEPT ![i] = None]
  BY <1>u DEF BgetRecycle
<1>2. UNCHANGED <<disk, locked>> BY DEF BgetRecycle, ide
<1>3. i \in Buf /\ refcnt[i] = 0 /\ ~dirty[i] BY DEF Unused
<1>4. locked[i] = None
  <2>1. \A q \in Proc : locked[i] # q BY <1>3, CountedIsUsed, Holds
  <2> QED BY <2>1, <1>3, Types
<1>t. /\ blockno \in [Buf -> Block \cup {None}] /\ valid \in [Buf -> BOOLEAN]
      /\ data \in [Buf -> Int \cup {None}]
  BY Types
<1>5. /\ blockno'[i] = b /\ ~valid'[i]
      /\ \A j \in Buf : j # i => blockno'[j] = blockno[j] /\ valid'[j] = valid[j] /\ data'[j] = data[j]
  BY <1>1, <1>3, <1>t
<1>6. Mapped /\ Mapped' BY MappedNow, MappedNext
<1>7. \A j \in Buf : blockno[j] # b BY <1>m DEF Cached
<1>8. ASSUME NEW c \in Block PROVE Owner(c)' = Owner(c) /\ Content(c)' = Content(c)
  <2>1. CASE c = b
    <3>1. Owner(c) = None /\ Content(c) = disk[c] BY <2>1, <1>6, <1>7 DEF Mapped
    <3>2. Owner(c)' = locked'[i] /\ Content(c)' = disk'[c] BY <2>1, <1>3, <1>5, <1>6 DEF Mapped
    <3> QED BY <3>1, <3>2, <1>2, <1>4
  <2>2. CASE c = blockno[i]
    <3>1. Owner(c) = None /\ Content(c) = IF valid[i] THEN data[i] ELSE disk[c]
      BY <2>2, <1>3, <1>4, <1>6 DEF Mapped
    <3>2. Content(c) = disk[c] BY <3>1, <2>2, <1>3 DEF Inv, DataInv
    <3>3. \A j \in Buf : blockno'[j] # c
      <4>1. \A j \in Buf : blockno[j] = c => j = i BY <2>2, <1>3, Known DEF Inv, LockInv
      <4>2. c # b BY <2>2, <1>3, <1>7
      <4> QED BY <4>1, <4>2, <1>5
    <3>4. Owner(c)' = None /\ Content(c)' = disk'[c] BY <3>3, <1>6 DEF Mapped
    <3> QED BY <3>1, <3>2, <3>4, <1>2
  <2>3. CASE c # b /\ c # blockno[i] /\ \E j \in Buf : blockno[j] = c
    <3>1. PICK j \in Buf : blockno[j] = c BY <2>3
    <3>2. j # i BY <3>1, <2>3
    <3>3. blockno'[j] = c /\ valid'[j] = valid[j] /\ data'[j] = data[j] BY <3>1, <3>2, <1>5
    <3>4. Owner(c) = locked[j] /\ Content(c) = IF valid[j] THEN data[j] ELSE disk[c]
      BY <3>1, <1>6 DEF Mapped
    <3>5. Owner(c)' = locked'[j] /\ Content(c)' = IF valid'[j] THEN data'[j] ELSE disk'[c]
      BY <3>3, <1>6 DEF Mapped
    <3> QED BY <3>3, <3>4, <3>5, <1>2
  <2>4. CASE c # b /\ \A j \in Buf : blockno[j] # c
    <3>1. \A j \in Buf : blockno'[j] # c BY <2>4, <1>5
    <3> QED BY <3>1, <2>4, <1>2, <1>6 DEF Mapped
  <2> QED BY <2>1, <2>2, <2>3, <2>4
<1> QED BY <1>8, Unseen

\* The users stay.
LEMMA SameOwners ==
    ASSUME UNCHANGED <<blockno, locked>>
    PROVE  \A c : Owner(c)' = Owner(c)
BY DEF Owner, Cached

\* The contents stay, in the buffers or on the disk.
LEMMA SameContents ==
    ASSUME UNCHANGED <<disk, blockno, valid, data>>
    PROVE  \A c : Content(c)' = Content(c)
BY DEF Content, Cached

\* The contents may move between the buffers and the disk.
LEMMA Moved ==
    ASSUME Inv, Inv', UNCHANGED blockno,
           \A j \in Buf : valid[j] => valid'[j] /\ data'[j] = data[j],
           \A j \in Buf : valid'[j] /\ ~valid[j] => data'[j] = disk[blockno[j]],
           \A b \in Block : (\A j \in Buf : valid[j] => blockno[j] # b) => disk'[b] = disk[b]
    PROVE  \A c \in Block : Content(c)' = Content(c)
<1>1. Mapped /\ Mapped' BY MappedNow, MappedNext
<1>2. ASSUME NEW c \in Block PROVE Content(c)' = Content(c)
  <2>1. CASE \E j \in Buf : blockno[j] = c
    <3>1. PICK j \in Buf : blockno[j] = c BY <2>1
    <3>2. Content(c) = (IF valid[j] THEN data[j] ELSE disk[c]) BY <3>1, <1>1 DEF Mapped
    <3>3. Content(c)' = (IF valid'[j] THEN data'[j] ELSE disk'[c]) BY <3>1, <1>1 DEF Mapped
    <3>4. CASE valid[j] BY <3>2, <3>3, <3>4
    <3>5. CASE ~valid[j]
      <4>1. \A k \in Buf : blockno[k] = c => k = j BY <3>1, Known DEF Inv, LockInv
      <4>2. disk'[c] = disk[c] BY <4>1, <3>5
      <4> QED BY <4>2, <3>1, <3>2, <3>3, <3>5
    <3> QED BY <3>4, <3>5
  <2>2. CASE \A j \in Buf : blockno[j] # c
    <3>1. Content(c) = disk[c] /\ Content(c)' = disk'[c] BY <2>2, <1>1 DEF Mapped
    <3> QED BY <3>1, <2>2
  <2> QED BY <2>1, <2>2
<1> QED BY <1>2

\* One buffer is locked or given up.
LEMMA OwnerChanges ==
    ASSUME Inv, Inv', UNCHANGED blockno, NEW i \in Buf, NEW b \in Block, blockno[i] = b,
           \A j \in Buf : j # i => locked'[j] = locked[j]
    PROVE  /\ Owner(b) = locked[i] /\ Owner(b)' = locked'[i]
           /\ \A c \in Block : c # b => Owner(c)' = Owner(c)
<1>1. Mapped /\ Mapped' BY MappedNow, MappedNext
<1>2. ASSUME NEW c \in Block, c # b PROVE Owner(c)' = Owner(c)
  <2>1. CASE \E j \in Buf : blockno[j] = c
    <3>1. PICK j \in Buf : blockno[j] = c BY <2>1
    <3>2. Owner(c) = locked[j] /\ Owner(c)' = locked'[j] BY <3>1, <1>1 DEF Mapped
    <3> QED BY <3>1, <3>2, <1>2
  <2>2. CASE \A j \in Buf : blockno[j] # c BY <2>2, <1>1 DEF Mapped
  <2> QED BY <2>1, <2>2
<1>3. Owner(b) = locked[i] /\ Owner(b)' = locked'[i] BY <1>1 DEF Mapped
<1> QED BY <1>2, <1>3

\* Who gets the sleep-lock of a buffer has the block.
LEMMA AcquireSleepStep ==
    ASSUME Inv, Inv', NEW p \in Proc, AcquireSleep(p)
    PROVE  [Store!Next]_(Store!vars)
<1> DEFINE i == Top(p)
<1>1. pc[p] = "acquiresleep" /\ UNCHANGED <<disk, blockno, valid, data>>
  BY DEF AcquireSleep, ide, flags
<1>2. i \in Buf /\ blockno[i] \in Block /\ locked \in [Buf -> Proc \cup {None}] BY <1>1, Holds, Types
<1>3. \A c : Content(c)' = Content(c) BY <1>1, SameContents
<1>4. CASE locked[i] # None
  <2>1. UNCHANGED locked BY <1>4 DEF AcquireSleep
  <2> QED BY <2>1, <1>1, <1>3, SameOwners, Unseen
<1>5. CASE locked[i] = None
  <2>1. locked' = [locked EXCEPT ![i] = p] BY <1>5 DEF AcquireSleep
  <2> HIDE DEF i
  <2>2. locked'[i] = p /\ \A j \in Buf : j # i => locked'[j] = locked[j] BY <2>1, <1>2
  <2>3. PICK b \in Block : blockno[i] = b BY <1>2
  <2>4. /\ Owner(b) = None /\ Owner(b)' = p
        /\ \A c \in Block : c # b => Owner(c)' = Owner(c)
    BY <2>2, <2>3, <1>1, <1>2, <1>5, OwnerChanges
  <2> QED BY <2>4, <1>3, Taken
<1> QED BY <1>4, <1>5

\* What is written to the disk is in a buffer.
LEMMA IderwStep ==
    ASSUME Inv, Inv', NEW p \in Proc, Iderw(p)
    PROVE  [Store!Next]_(Store!vars)
<1> DEFINE i == Top(p)
<1>1. pc[p] = "iderw" /\ UNCHANGED <<blockno, valid, data, locked>> BY DEF Iderw, flags
<1>2. idequeue = << >> => Idestart(i) BY DEF Iderw
<1>3. idequeue # << >> => UNCHANGED disk BY DEF Iderw
<1>4. i \in Buf /\ blockno[i] \in Block BY <1>1, Locks DEF Between
<1> HIDE DEF i
<1>5. ASSUME NEW b \in Block, \A j \in Buf : valid[j] => blockno[j] # b PROVE disk'[b] = disk[b]
  <2>1. CASE idequeue # << >> BY <2>1, <1>3
  <2>2. CASE idequeue = << >> /\ ~dirty[i] BY <2>2, <1>2 DEF Idestart
  <2>3. CASE idequeue = << >> /\ dirty[i]
    <3>1. blockno[i] # b BY <2>3, <1>4, <1>5 DEF Inv, DataInv
    <3>2. disk' = [disk EXCEPT ![blockno[i]] = data[i]] BY <2>3, <1>2 DEF Idestart
    <3> QED BY <3>1, <3>2, Types
  <2> QED BY <2>1, <2>2, <2>3
<1>6. \A c \in Block : Content(c)' = Content(c) BY <1>1, <1>5, Moved
<1> QED BY <1>1, <1>6, SameOwners, Unseen

\* What is read from the disk was on it before.
LEMMA IdeintrStep ==
    ASSUME Inv, Inv', Ideintr
    PROVE  [Store!Next]_(Store!vars)
<1> DEFINE i == Head(idequeue)  m == Head(idequeue')
<1>1. busy # None /\ idequeue' = Tail(idequeue) /\ UNCHANGED <<blockno, locked>>
  BY DEF Ideintr
<1>2. /\ data' = IF dirty[i] THEN data ELSE [data EXCEPT ![i] = disk[blockno[i]]]
      /\ valid' = [valid EXCEPT ![i] = TRUE]
  BY DEF Ideintr
<1>3. /\ idequeue' # << >> => Idestart(m)
      /\ idequeue' = << >> => UNCHANGED disk
  BY DEF Ideintr
<1>4. idequeue # << >> /\ idequeue \in Seq(Buf) BY <1>1, Types DEF Inv, QueueInv, QueueIsSound
<1>5. i \in Buf /\ i = idequeue[1] /\ 1 \in 1..Len(idequeue) BY <1>4, Indexed
<1>6. PICK w \in Proc : pc[w] = "wait" /\ Top(w) = i BY <1>5, Queued
<1>7. ~valid[i] \/ dirty[i]
  <2>1. Asks(w, i) BY <1>6 DEF Asks
  <2> QED BY <2>1, <1>5 DEF Inv, DataInv
<1> HIDE DEF i
<1>t. valid \in [Buf -> BOOLEAN] /\ data \in [Buf -> Int \cup {None}] /\ disk \in [Block -> Int]
  BY Types
<1>8. \A j \in Buf : valid[j] => valid'[j] /\ data'[j] = data[j]
  <2>1. ASSUME NEW j \in Buf, valid[j] PROVE valid'[j] /\ data'[j] = data[j]
    <3>1. valid'[j] BY <2>1, <1>2, <1>t
    <3>2. CASE dirty[i] BY <3>1, <3>2, <1>2
    <3>3. CASE ~dirty[i]
      <4>1. j # i BY <3>3, <2>1, <1>7
      <4>2. data' = [data EXCEPT ![i] = disk[blockno[i]]] BY <3>3, <1>2
      <4> QED BY <4>1, <4>2, <3>1, <1>t
    <3> QED BY <3>2, <3>3
  <2> QED BY <2>1
<1>9. \A j \in Buf : valid'[j] /\ ~valid[j] => data'[j] = disk[blockno[j]]
  <2>1. ASSUME NEW j \in Buf, valid'[j], ~valid[j] PROVE data'[j] = disk[blockno[j]]
    <3>1. j = i BY <2>1, <1>2, <1>t
    <3>2. ~dirty[i] BY <2>1, <3>1 DEF Inv, DataInv
    <3>3. data' = [data EXCEPT ![i] = disk[blockno[i]]] BY <3>2, <1>2
    <3> QED BY <3>1, <3>3, <1>5, <1>t
  <2> QED BY <2>1
<1>10. ASSUME NEW b \in Block, \A j \in Buf : valid[j] => blockno[j] # b PROVE disk'[b] = disk[b]
  <2>1. CASE idequeue' = << >> BY <2>1, <1>3
  <2>2. CASE idequeue' # << >> /\ ~dirty[m] BY <2>2, <1>3 DEF Idestart
  <2>3. CASE idequeue' # << >> /\ dirty[m]
    <3>1. m \in Buf
      <4>1. idequeue' \in Seq(Buf) BY <1>1, <1>4, TailIs
      <4> QED BY <4>1, <2>3, TailIs
    <3>2. disk' = [disk EXCEPT ![blockno[m]] = data[m]] BY <2>3, <1>3 DEF Idestart
    <3> HIDE DEF m
    <3>3. blockno[m] # b BY <2>3, <3>1, <1>10 DEF Inv, DataInv
    <3> QED BY <3>2, <3>3, <1>t
  <2> QED BY <2>1, <2>2, <2>3
<1>11. \A c \in Block : Content(c)' = Content(c) BY <1>1, <1>8, <1>9, <1>10, Moved
<1> QED BY <1>1, <1>11, SameOwners, Unseen

\* A process that has a block changes it.
LEMMA ChangeStep ==
    ASSUME Inv, Inv', NEW p \in Proc, pc[p] = "use", NEW i \in Has(p), NEW v \in Values(data[i]),
           data' = [data EXCEPT ![i] = v], dirty' = [dirty EXCEPT ![i] = TRUE],
           UNCHANGED <<disk, busy, blockno, valid, locked>>
    PROVE  [Store!Next]_(Store!vars)
<1>1. /\ i \in Buf /\ locked[i] = p /\ blockno[i] \in Block
      /\ data' \in [Buf -> Int \cup {None}]
      /\ \A j \in Buf : data'[j] # None => data'[j] \in {blockno[j], -blockno[j]}
      /\ valid[i]
      /\ \A j \in Buf : j # i => data'[j] = data[j] /\ dirty'[j] = dirty[j]
      /\ \A j \in Buf : /\ dirty'[j] => valid'[j]
                        /\ valid'[j] => blockno'[j] # None /\ data'[j] # None
                        /\ valid'[j] /\ ~dirty'[j] => data'[j] = disk'[blockno'[j]]
  BY Changed
<1>2. PICK b \in Block : blockno[i] = b BY <1>1
<1>3. Mapped /\ Mapped' BY MappedNow, MappedNext
<1>4. Owner(b) = p BY <1>1, <1>2, <1>3 DEF Mapped
<1>5. Content(b)' = data'[i] BY <1>1, <1>2, <1>3 DEF Mapped
<1>6. Content(b)' \in {b, -b} BY <1>1, <1>2, <1>5
<1>7. ASSUME NEW c \in Block, c # b PROVE Content(c)' = Content(c)
  <2>1. CASE \E j \in Buf : blockno[j] = c
    <3>1. PICK j \in Buf : blockno[j] = c BY <2>1
    <3>2. data'[j] = data[j] BY <3>1, <1>1, <1>2, <1>7
    <3>3. Content(c) = (IF valid[j] THEN data[j] ELSE disk[c]) BY <3>1, <1>3 DEF Mapped
    <3>4. Content(c)' = (IF valid'[j] THEN data'[j] ELSE disk'[c]) BY <3>1, <1>3 DEF Mapped
    <3> QED BY <3>2, <3>3, <3>4
  <2>2. CASE \A j \in Buf : blockno[j] # c BY <2>2, <1>3 DEF Mapped
  <2> QED BY <2>1, <2>2
<1>8. \A c : Owner(c)' = Owner(c) BY SameOwners
<1> QED BY <1>4, <1>6, <1>7, <1>8, Changes

\* log_write.
LEMMA LogWriteStep ==
    ASSUME Inv, Inv', NEW p \in Proc, NEW k \in 1..Len(hold[p]), LogWrite(p, k)
    PROVE  [Store!Next]_(Store!vars)
<1> DEFINE i == hold[p][k].i
<1>1. /\ pc[p] = "use" /\ dirty' = [dirty EXCEPT ![i] = TRUE]
      /\ UNCHANGED <<disk, busy, blockno, valid, locked>>
  BY DEF LogWrite, ide
<1>2. PICK v \in Values(data[i]) : data' = [data EXCEPT ![i] = v] BY DEF LogWrite
<1>3. i \in Has(p) BY <1>1, KthIs
<1> HIDE DEF i
<1> QED BY <1>1, <1>2, <1>3, ChangeStep

\* bwrite.
LEMMA BwriteStep ==
    ASSUME Inv, Inv', NEW p \in Proc, NEW k \in 1..Len(hold[p]), Bwrite(p, k)
    PROVE  [Store!Next]_(Store!vars)
<1> DEFINE i == hold[p][k].i
<1>1. /\ pc[p] = "use" /\ dirty' = [dirty EXCEPT ![i] = TRUE]
      /\ UNCHANGED <<disk, busy, blockno, valid, locked>>
  BY DEF Bwrite, ide
<1>2. PICK v \in Values(data[i]) : data' = [data EXCEPT ![i] = v] BY DEF Bwrite
<1>3. i \in Has(p) BY <1>1, KthIs
<1> HIDE DEF i
<1> QED BY <1>1, <1>2, <1>3, ChangeStep

\* brelse gives the block back.
LEMMA BrelseStep ==
    ASSUME Inv, Inv', NEW p \in Proc, NEW k \in 1..Len(hold[p]), Brelse(p, k)
    PROVE  [Store!Next]_(Store!vars)
<1> DEFINE i == hold[p][k].i
<1>1. /\ pc[p] = "use" /\ locked' = [locked EXCEPT ![i] = None]
      /\ UNCHANGED <<disk, blockno, valid, data>>
  BY DEF Brelse, ide, flags
<1>2. i \in Has(p) BY <1>1, KthIs
<1>3. i \in Buf /\ blockno[i] \in Block /\ locked[i] = p BY <1>2, Holds
<1> HIDE DEF i
<1>4. locked'[i] = None /\ \A j \in Buf : j # i => locked'[j] = locked[j] BY <1>1, <1>3, Types
<1>5. PICK b \in Block : blockno[i] = b BY <1>3
<1>6. /\ Owner(b) = p /\ Owner(b)' = None
      /\ \A c \in Block : c # b => Owner(c)' = Owner(c)
  BY <1>1, <1>3, <1>4, <1>5, OwnerChanges
<1>7. \A c : Content(c)' = Content(c) BY <1>1, SameContents
<1> QED BY <1>6, <1>7, Given

\* The first states correspond.
LEMMA StoreInit == Init => Store!Init
<1> SUFFICES ASSUME Init PROVE Store!Init OBVIOUS
<1>1. disk = [b \in Block |-> b] /\ \A i \in Buf : blockno[i] = None BY DEF Init
<1>2. \A b \in Block : Cached(b) = {} BY <1>1, Known DEF Cached
<1>3. \A b \in Block : Owner(b) = None /\ Content(b) = b BY <1>1, <1>2 DEF Owner, Content
<1> QED BY <1>3 DEF Store!Init

\* Every step is one of BlockStore or none.
LEMMA StoreNext ==
    ASSUME Inv, Inv', [Next]_vars
    PROVE  [Store!Next]_(Store!vars)
<1>1. CASE Ideintr BY <1>1, IdeintrStep
<1>2. ASSUME NEW p \in Proc, NEW b \in Block, BgetHit(p, b) \/ BgetRecycle(p, b)
      PROVE  [Store!Next]_(Store!vars)
  <2>1. CASE BgetHit(p, b) BY <2>1, BgetHitStep
  <2>2. CASE BgetRecycle(p, b) /\ Unused # {} BY <2>2, BgetRecycleStep
  <2>3. CASE BgetRecycle(p, b) /\ Unused = {}
    <3>1. UNCHANGED <<disk, blockno, valid, data, locked>> BY <2>3 DEF BgetRecycle, ide, flags
    <3> QED BY <3>1, SameOwners, SameContents, Unseen
  <2> QED BY <1>2, <2>1, <2>2, <2>3
<1>3. ASSUME NEW p \in Proc, AcquireSleep(p) PROVE [Store!Next]_(Store!vars)
  BY <1>3, AcquireSleepStep
<1>4. ASSUME NEW p \in Proc, Iderw(p) PROVE [Store!Next]_(Store!vars) BY <1>4, IderwStep
<1>5. ASSUME NEW p \in Proc, Use(p) PROVE [Store!Next]_(Store!vars)
  BY <1>5, BwriteStep, LogWriteStep DEF Use
<1>6. ASSUME NEW p \in Proc, Release(p) PROVE [Store!Next]_(Store!vars)
  BY <1>6, BrelseStep DEF Release
<1>7. ASSUME NEW p \in Proc, Drop(p) PROVE [Store!Next]_(Store!vars)
  <2>1. UNCHANGED <<disk, blockno, valid, data, locked>> BY <1>7 DEF Drop, ide, flags
  <2> QED BY <2>1, SameOwners, SameContents, Unseen
<1>8. CASE UNCHANGED vars
  <2>1. UNCHANGED <<disk, blockno, valid, data, locked>> BY <1>8 DEF vars, ide, flags
  <2> QED BY <2>1, SameOwners, SameContents, Unseen
<1> QED BY <1>1, <1>2, <1>3, <1>4, <1>5, <1>6, <1>7, <1>8 DEF Next, Bget

\* Processes cannot tell the cache, with its buffers recycled, read and
\* written, from blocks with a lock each.
THEOREM BcacheIsStore == Spec => ImplementsBlockStore
<1>1. Init => Store!Init BY StoreInit
<1>2. Inv /\ Inv' /\ [Next]_vars => [Store!Next]_(Store!vars) BY StoreNext
<1>3. Spec => []Inv BY BcacheInvariant
<1> QED BY <1>1, <1>2, <1>3, PTL DEF Spec, ImplementsBlockStore, Store!Spec

=============================================================================
