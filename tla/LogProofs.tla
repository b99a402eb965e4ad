----------------------------- MODULE LogProofs -----------------------------
(***************************************************************************)
(* Proof that the log never panics and implements AtomicDisk, for every     *)
(* number of processes, blocks and operations and every size of the log     *)
(* that has room for what begin_op admits (Fits).  Operations may write a   *)
(* block as often as they like.  Inv says what is where at each moment of   *)
(* an operation, of a commit and of recovery: on disk, in the log, in the   *)
(* header and in the buffer cache.                                          *)
(***************************************************************************)
EXTENDS Log, FiniteSetTheorems, TLAPS

\* As many different blocks as the log ever has: one operation begins with it
\* empty, and of two or more that begin_op admits each leaves at least
\* MaxOp - OpBlocks of what is reserved for it.
Most ==
    LET two == LogSize - 2 * (MaxOp - OpBlocks)
    IN  IF OpBlocks =< two THEN two ELSE OpBlocks

\* log_write, which tests for a full log before it looks for the block, has
\* room for one more even then, on disk and in the header.
Fits == Most < LogSize /\ Most < NLog - 1

\* The operations under way.
Active == {p \in Proc : pc[p] \in {"op", "log_write"}}

\* The further blocks that they may still write.
Reserved == {t \in Active \X (1..OpBlocks) : Cardinality(wrote[t[1]]) < t[2]}

\* There is room in the log for all of them.
RoomInv ==
    /\ outstanding = Cardinality(Active)
    /\ Len(lh) + Cardinality(Reserved) =< Most
    /\ Len(head) =< Most

\* What an operation has written is in the log until it ends, and between two
\* operations nothing is.
Written ==
    /\ \A p \in Proc : /\ IsFiniteSet(wrote[p])
                       /\ wrote[p] \subseteq IF p \in Active THEN Range(lh) ELSE {}
    /\ up /\ ~committing /\ outstanding = 0 => lh = << >>

\* Where processes are: who is in log_write has a block and room for it, one
\* process commits, nobody is in an operation then, and nobody is in the
\* kernel's file system before recovery has ended.
Control ==
    /\ \A p \in Proc : /\ held[p] # None <=> pc[p] = "log_write"
                       /\ pc[p] = "log_write" => Cardinality(wrote[p] \cup {held[p]}) =< OpBlocks
                       /\ pc[p] = "commit" => committing /\ \A q \in Proc : pc[q] = "commit" => q = p
                       /\ committing => p \notin Active
                       /\ ~up => pc[p] = "idle"
    /\ \A p, q \in Proc : held[p] = held[q] /\ held[p] # None => p = q
    /\ committing => up
    /\ at \in CASE ~up -> {"read_head", "install_trans", "erase"}
                [] up /\ committing -> {"write_log", "write_head", "install_trans", "erase", "end"}
                [] up /\ ~committing -> {"none"}

\* A block is in the header once.
Once(s) == \A j, k \in 1..Len(s) : s[j] = s[k] => j = k

\* Block b is in the log and not yet in its place.
ToInstall(b) ==
    /\ up
    /\ \E k \in 1..Len(lh) : lh[k] = b /\ (at = "install_trans" => k > tail)

\* Pinned buffers are those of the log; of the others, those that nobody is
\* changing are as on disk.
Buffers ==
    /\ Once(lh) /\ Once(head)
    /\ \A b \in Block : /\ b \in dirty <=> ToInstall(b)
                        /\ b \in dirty => cache[b] # None
                        /\ b \notin dirty /\ (\A p \in Proc : held[p] # b) /\ cache[b] # None
                              => cache[b] = data[b]
    /\ \A p \in Proc : held[p] # None => cache[held[p]] # None

\* How far commit and recovery have come.
Progress ==
    /\ at \notin {"write_log", "install_trans"} => tail = 0
    /\ at \in {"none", "write_log", "write_head", "end"} => head = << >>
    /\ at \in {"erase", "end", "read_head"} => lh = << >>
    /\ at = "write_log" => /\ tail < Len(lh)
                           /\ \A k \in 1..tail : logged[k] = cache[lh[k]]
    /\ at = "write_head" => \A k \in 1..Len(lh) : logged[k] = cache[lh[k]]
    /\ at = "install_trans" =>
          /\ tail =< Len(lh) /\ lh = head
          /\ \A k \in 1..tail : data[lh[k]] = logged[k]
          /\ up => \A k \in 1..Len(lh) : k > tail => logged[k] = cache[lh[k]]
    /\ at = "erase" => \A k \in 1..Len(head) : data[head[k]] = logged[k]

\* The inductive invariant.
Inv == LogInv /\ RoomInv /\ Written /\ Control /\ Buffers /\ Progress
-----------------------------------------------------------------------------
(* Facts about sequences and sets *)

\* What is known of the constants.
LEMMA Sizes ==
    /\ MaxOp \in Nat \ {0} /\ LogSize \in Nat /\ NLog \in Nat /\ OpBlocks \in Nat
    /\ MaxOp =< LogSize /\ OpBlocks =< MaxOp
    /\ Zero \in Val /\ None \notin Val /\ None \notin Block /\ IsFiniteSet(Proc)
BY LogAssumption

\* Append leaves what is there.
LEMMA Appended ==
    ASSUME NEW S, NEW s \in Seq(S), NEW e \in S
    PROVE  /\ Append(s, e) \in Seq(S) /\ Len(Append(s, e)) = Len(s) + 1
           /\ \A k \in 1..Len(s) : Append(s, e)[k] = s[k]
           /\ Append(s, e)[Len(s) + 1] = e
OBVIOUS

\* The elements of a sequence.
LEMMA RangeOf ==
    ASSUME NEW S, NEW s \in Seq(S), NEW e
    PROVE  e \in Range(s) <=> \E k \in 1..Len(s) : s[k] = e
BY DEF Range

\* The sets that RoomInv counts are finite.
LEMMA RoomFinite ==
    /\ IsFiniteSet(Active) /\ IsFiniteSet(Reserved)
    /\ Cardinality(Active) \in Nat /\ Cardinality(Reserved) \in Nat
    /\ Cardinality(Active) =< Cardinality(Proc) /\ Cardinality(Proc) \in Nat
<1>1. IsFiniteSet(Active) /\ Cardinality(Active) =< Cardinality(Proc)
  BY Sizes, FS_Subset DEF Active
<1>2. IsFiniteSet(1..OpBlocks) BY FS_Interval, Sizes
<1>3. IsFiniteSet(Active \X (1..OpBlocks)) BY <1>1, <1>2, FS_Product
<1>4. IsFiniteSet(Reserved) BY <1>3, FS_Subset DEF Reserved
<1> QED BY <1>1, <1>4, Sizes, FS_CardinalityType

\* The same in the next state.
LEMMA RoomFiniteNext ==
    /\ IsFiniteSet(Active') /\ IsFiniteSet(Reserved')
    /\ Cardinality(Active') \in Nat /\ Cardinality(Reserved') \in Nat
    /\ Cardinality(Active') =< Cardinality(Proc)
<1>1. IsFiniteSet(Active') /\ Cardinality(Active') =< Cardinality(Proc)
  BY Sizes, FS_Subset DEF Active
<1>2. IsFiniteSet(1..OpBlocks) BY FS_Interval, Sizes
<1>3. IsFiniteSet(Active' \X (1..OpBlocks)) BY <1>1, <1>2, FS_Product
<1>4. IsFiniteSet(Reserved') BY <1>3, FS_Subset DEF Reserved
<1> QED BY <1>1, <1>4, FS_CardinalityType

\* What Most bounds.
LEMMA MostBounds ==
    /\ Most \in Nat /\ OpBlocks =< Most /\ LogSize - 2 * (MaxOp - OpBlocks) =< Most
BY Sizes DEF Most

\* The log has room for one more block, whatever is reserved.
LEMMA RoomLeft ==
    ASSUME Fits, TypeOK, RoomInv
    PROVE  Len(lh) < NLog - 1 /\ Len(lh) < LogSize /\ Len(lh) =< Most
<1> DEFINE c == Cardinality(Reserved)
<1>1. c \in Nat /\ Len(lh) + c =< Most BY RoomFinite DEF RoomInv
<1>2. Len(lh) \in Nat BY DEF TypeOK
<1> HIDE DEF c
<1> QED BY <1>1, <1>2, MostBounds, Sizes DEF Fits

\* Of n operations that are admitted each leaves a - b blocks.
LEMMA EachLeaves ==
    ASSUME NEW n \in Nat, n >= 2, NEW a \in Nat, NEW b \in Nat, b =< a
    PROVE  n * b + 2 * (a - b) =< n * a
<1> DEFINE d == a - b
<1>1. d \in Nat /\ a = b + d OBVIOUS
<1> HIDE DEF d
<1>2. n * a = n * b + n * d BY <1>1
<1>3. 2 * d =< n * d
  <2>1. PICK m \in Nat : n = m + 2 OBVIOUS
  <2>2. n * d = m * d + 2 * d BY <1>1, <2>1
  <2>3. m * d \in Nat BY <1>1, <2>1
  <2> QED BY <1>1, <2>2, <2>3
<1>4. n * a \in Nat /\ n * b \in Nat /\ n * d \in Nat BY <1>1
<1> QED BY <1>1, <1>2, <1>3, <1>4 DEF d

-----------------------------------------------------------------------------
(* The steps of processes *)

\* Nothing that RoomInv counts changes.
LEMMA SameRoom ==
    ASSUME RoomInv, Active' = Active, UNCHANGED <<wrote, outstanding, lh, head>>
    PROVE  RoomInv'
BY DEF RoomInv, Reserved

\* Nor anything that Written says.
LEMMA SameWritten ==
    ASSUME Written, Active' = Active, UNCHANGED <<wrote, outstanding, lh, up, committing>>
    PROVE  Written'
BY DEF Written

\* Pinned are the same buffers.
LEMMA SameInstalls ==
    ASSUME UNCHANGED <<lh, tail, at, up>>, NEW b
    PROVE  ToInstall(b)' <=> ToInstall(b)
BY DEF ToInstall

\* A system call comes to begin_op.
LEMMA EnterOK == ASSUME Inv, NEW p \in Proc, Enter(p) PROVE Inv'
<1> USE DEF Enter, Inv, disk
<1>1. Active' = Active BY DEF Active, LogInv, TypeOK
<1>2. LogInv' BY DEF LogInv, TypeOK, NeverPanics
<1>3. RoomInv' BY <1>1, SameRoom
<1>4. Control' BY <1>1 DEF Control, LogInv, TypeOK
<1>5. Buffers' BY SameInstalls DEF Buffers
<1>6. Progress' BY DEF Progress
<1>7. Written' BY <1>1, SameWritten
<1> QED BY <1>2, <1>3, <1>4, <1>5, <1>6, <1>7

\* begin_op admits: the first operation finds the log empty, and a further one
\* finds room for MaxOp blocks of each.
LEMMA BeginOpOK == ASSUME Inv, NEW p \in Proc, BeginOp(p) PROVE Inv'
<1> USE DEF BeginOp, Inv, disk
<1>0. pc \in [Proc -> {"idle", "begin", "asleep", "op", "log_write", "commit"}] /\ Len(lh) \in Nat
      /\ outstanding \in Nat
  BY RoomFinite DEF LogInv, TypeOK
<1>a. CASE ~Admits
  <2>1. Active' = Active BY <1>0, <1>a DEF Active
  <2>2. LogInv' BY <1>a DEF LogInv, TypeOK, NeverPanics
  <2>3. RoomInv' BY <1>a, <2>1, SameRoom
  <2>4. Control' BY <1>a, <2>1, <1>0 DEF Control
  <2>5. Buffers' BY <1>a, SameInstalls DEF Buffers
  <2>6. Progress' BY <1>a DEF Progress
  <2>7. Written' BY <1>a, <2>1, SameWritten
  <2> QED BY <2>2, <2>3, <2>4, <2>5, <2>6, <2>7
<1>b. CASE Admits
  <2>1. Active' = Active \cup {p} /\ p \notin Active BY <1>0, <1>b DEF Active
  <2>2. outstanding' = Cardinality(Active')
    BY <1>b, <2>1, FS_AddElement, RoomFinite DEF RoomInv
  <2>3. LogInv'
    <3>1. outstanding' \in 0..Cardinality(Proc) BY <2>2, RoomFinite, RoomFiniteNext
    <3>2. pc' \in [Proc -> {"idle", "begin", "asleep", "op", "log_write", "commit"}] BY <1>0, <1>b
    <3> QED BY <3>1, <3>2 DEF LogInv, TypeOK, NeverPanics
  <2>4. RoomInv'
    <3> DEFINE n == Cardinality(Active')  r == Cardinality(Reserved')  w == LogSize - 2 * (MaxOp - OpBlocks)
    <3>1. IsFiniteSet(1..OpBlocks) /\ Cardinality(1..OpBlocks) = OpBlocks BY Sizes, FS_Interval
    <3>2. /\ IsFiniteSet(Active' \X (1..OpBlocks))
          /\ Cardinality(Active' \X (1..OpBlocks)) = n * OpBlocks
      BY <3>1, RoomFiniteNext, FS_Product
    <3>3. r =< n * OpBlocks BY <3>2, FS_Subset DEF Reserved
    <3>4. n = outstanding + 1 BY <1>b, <2>2
    <3>5. Len(lh) + n * MaxOp =< LogSize BY <1>b, <3>4 DEF Admits
    <3>6. n \in Nat /\ r \in Nat BY RoomFiniteNext
    <3>7. Most \in Nat /\ OpBlocks =< Most /\ w =< Most /\ w \in Int BY MostBounds, Sizes
    <3> HIDE DEF n, r, w
    <3>8. Len(lh) + r =< Most
      <4>1. CASE outstanding = 0
        <5>1. up /\ ~committing BY <1>b DEF Admits, Control
        <5>2. lh = << >> BY <4>1, <5>1 DEF Written
        <5>3. Len(lh) = 0 BY <5>2
        <5>4. r =< OpBlocks BY <3>3, <3>4, <3>6, <4>1, Sizes
        <5> QED BY <5>3, <5>4, <3>6, <3>7, Sizes
      <4>2. CASE outstanding # 0
        <5>1. n >= 2 BY <3>4, <4>2, <1>0
        <5>2. n * OpBlocks + 2 * (MaxOp - OpBlocks) =< n * MaxOp BY <5>1, <3>6, EachLeaves, Sizes
        <5> DEFINE x == n * OpBlocks  y == n * MaxOp
        <5>3. x \in Nat /\ y \in Nat BY <3>6, Sizes
        <5>4. r =< x /\ Len(lh) + y =< LogSize /\ x + 2 * (MaxOp - OpBlocks) =< y BY <3>3, <3>5, <5>2
        <5> HIDE DEF x, y
        <5>5. Len(lh) + r =< w BY <5>3, <5>4, <3>6, <1>0, Sizes DEF w
        <5> QED BY <5>5, <3>6, <3>7, <1>0
      <4> QED BY <4>1, <4>2
    <3> QED BY <2>2, <3>8 DEF RoomInv, r
  <2>5. Control'
    <3>1. ~committing BY <1>b DEF Admits
    <3>2. up BY DEF Control
    <3>3. ~committing' /\ up' /\ UNCHANGED <<held, at, wrote>> /\ pc' = [pc EXCEPT ![p] = "op"] BY <1>b, <3>1, <3>2
    <3> QED BY <3>1, <3>2, <3>3, <1>0, <1>b DEF Control
  <2>6. Buffers' BY SameInstalls DEF Buffers
  <2>7. Progress' BY DEF Progress
  <2>8. Written'
    <3>1. wrote[p] = {} BY <2>1 DEF Written
    <3>2. outstanding' # 0 BY <1>b, <1>0
    <3> QED BY <2>1, <3>1, <3>2 DEF Written
  <2> QED BY <2>3, <2>4, <2>5, <2>6, <2>7, <2>8
<1> QED BY <1>a, <1>b

\* log_write's tests: there is room, and an operation is under way.
LEMMA ModifyOK ==
    ASSUME Fits, Inv, NEW p \in Proc, NEW b \in Block, NEW v \in Val, Modify(p, b, v)
    PROVE  Inv'
<1> USE DEF Inv
<1>m. /\ pc[p] = "op" /\ Cardinality(wrote[p] \cup {b}) =< OpBlocks /\ \A q \in Proc : held[q] # b
      /\ cache' = [cache EXCEPT ![b] = v] /\ held' = [held EXCEPT ![p] = b]
      /\ pc' = [pc EXCEPT ![p] = "log_write"]
      /\ UNCHANGED <<data, logged, head, dirty, lh, outstanding, committing, up, at, tail, wrote>>
  BY DEF Modify, disk
<1>0. pc \in [Proc -> {"idle", "begin", "asleep", "op", "log_write", "commit"}]
      /\ held \in [Proc -> Block \cup {None}] /\ cache \in [Block -> Val \cup {None}]
  BY <1>m DEF LogInv, TypeOK
<1>1. Active' = Active /\ p \in Active BY <1>m, <1>0 DEF Active
<1>2. panic' = None
  <2>0. TypeOK /\ Len(lh) \in Nat BY <1>m DEF LogInv, TypeOK
  <2>1. ~TooBig BY <2>0, RoomLeft, Sizes DEF TooBig
  <2>2. Cardinality(Active) # 0 BY <1>m, <1>1, RoomFinite, FS_EmptySet
  <2>3. ~(outstanding < 1)
    <3> DEFINE n == Cardinality(Active)
    <3>1. n \in Nat /\ n # 0 /\ outstanding = n BY <1>m, <2>2, RoomFinite DEF RoomInv
    <3> HIDE DEF n
    <3> QED BY <1>m, <3>1
  <2> QED BY <2>1, <2>3 DEF LogInv, NeverPanics, Modify
<1>3. LogInv' BY <1>m, <1>2 DEF LogInv, TypeOK, NeverPanics
<1>4. RoomInv' BY <1>m, <1>1, SameRoom
<1>5. Control' BY <1>m, <1>0, <1>1, Sizes DEF Control
<1>6. Buffers'
  <2>1. ASSUME NEW c \in Block
        PROVE  /\ c \in dirty' <=> ToInstall(c)'
               /\ c \in dirty' => cache'[c] # None
               /\ c \notin dirty' /\ (\A q \in Proc : held'[q] # c) /\ cache'[c] # None
                     => cache'[c] = data'[c]
    <3>1. CASE c = b BY <1>m, <3>1, <1>0, SameInstalls, Sizes DEF Buffers
    <3>2. CASE c # b
      <4>1. cache'[c] = cache[c] BY <1>m, <3>2, <1>0
      <4>2. (\A q \in Proc : held'[q] # c) => (\A q \in Proc : held[q] # c)
        <5>1. held[p] = None BY <1>m DEF Control
        <5> QED BY <1>m, <1>0, <3>2, <5>1, Sizes
      <4> QED BY <1>m, <4>1, <4>2, SameInstalls DEF Buffers
    <3> QED BY <1>m, <3>1, <3>2
  <2>2. \A q \in Proc : held'[q] # None => cache'[held'[q]] # None
    BY <1>m, <1>0, Sizes DEF Buffers
  <2> QED BY <1>m, <2>1, <2>2 DEF Buffers
<1>7. Progress'
  <2>1. at = "none" BY <1>m, <1>1 DEF Control
  <2> QED BY <1>m, <2>1 DEF Progress
<1>8. Written' BY <1>m, <1>1, SameWritten
<1> QED BY <1>3, <1>4, <1>5, <1>6, <1>7, <1>8

\* A buffer that is recycled is as the block on disk.
LEMMA EvictOK == ASSUME Inv, NEW b \in Block, Evict(b) PROVE Inv'
<1> USE DEF Evict, Inv, disk, locals
<1>0. cache \in [Block -> Val \cup {None}] /\ lh \in Seq(Block) /\ head \in Seq(Block)
      /\ held \in [Proc -> Block \cup {None}]
  BY DEF LogInv, TypeOK
<1>1. Active' = Active BY DEF Active
<1>2. LogInv' BY DEF LogInv, TypeOK, NeverPanics
<1>3. RoomInv' BY <1>1, SameRoom
<1>4. Control' BY <1>1 DEF Control
<1>5. Buffers' BY <1>0, SameInstalls DEF Buffers
<1>6. Progress'
  <2>1. ASSUME at \in {"write_log", "write_head", "install_trans"}, up, NEW k \in 1..Len(lh),
               at = "install_trans" => k > tail
        PROVE  cache'[lh[k]] = cache[lh[k]]
    <3>1. lh[k] \in Block BY <1>0
    <3>2. lh[k] \in dirty BY <2>1, <3>1 DEF ToInstall, Buffers
    <3> QED BY <1>0, <3>1, <3>2
  <2>2. at \in {"write_log", "write_head"} => up BY DEF Control
  <2>3. tail \in Nat /\ Len(lh) \in Nat BY DEF LogInv, TypeOK
  <2> QED BY <2>1, <2>2, <2>3 DEF Progress
<1>7. Written' BY <1>1, SameWritten
<1> QED BY <1>2, <1>3, <1>4, <1>5, <1>6, <1>7

\* One element less.
LEMMA OneOut ==
    ASSUME NEW S, IsFiniteSet(S), NEW x \in S, NEW T, T \subseteq S \ {x}
    PROVE  Cardinality(T) \in Nat /\ Cardinality(S) \in Nat /\ Cardinality(T) + 1 =< Cardinality(S)
<1> DEFINE R == S \ {x}  r == Cardinality(R)  s == Cardinality(S)  t == Cardinality(T)
<1>1. IsFiniteSet(R) /\ r = s - 1 BY FS_RemoveElement
<1>2. IsFiniteSet(T) /\ t =< r BY <1>1, FS_Subset
<1>3. s \in Nat /\ t \in Nat /\ r \in Nat BY <1>1, <1>2, FS_CardinalityType
<1> HIDE DEF r, s, t, R
<1>4. t + 1 =< s BY <1>1, <1>2, <1>3
<1> QED BY <1>3, <1>4 DEF s, t

\* log_write takes one of the blocks reserved, or none if it absorbs.
LEMMA RecordOK == ASSUME Fits, Inv, NEW p \in Proc, Record(p) PROVE Inv'
<1> USE DEF Inv
<1>r. /\ pc[p] = "log_write"
      /\ lh' = IF held[p] \in Range(lh) THEN lh ELSE Append(lh, held[p])
      /\ dirty' = dirty \cup {held[p]} /\ held' = [held EXCEPT ![p] = None]
      /\ wrote' = [wrote EXCEPT ![p] = @ \cup {held[p]}] /\ pc' = [pc EXCEPT ![p] = "op"]
      /\ UNCHANGED <<data, logged, head, cache, outstanding, committing, up, at, tail, panic>>
  BY DEF Record, disk
<1>0. /\ pc \in [Proc -> {"idle", "begin", "asleep", "op", "log_write", "commit"}]
      /\ held \in [Proc -> Block \cup {None}] /\ wrote \in [Proc -> SUBSET Block]
      /\ lh \in Seq(Block) /\ Len(lh) \in Nat /\ TypeOK
  BY DEF LogInv, TypeOK
<1> DEFINE b == held[p]
<1>1. Active' = Active /\ p \in Active BY <1>0, <1>r DEF Active
<1>2. b \in Block /\ b # None /\ Cardinality(wrote[p] \cup {b}) =< OpBlocks BY <1>0, <1>r DEF Control
<1>3. up /\ ~committing /\ at = "none" BY <1>r, <1>1 DEF Control
<1>4. Len(lh) < NLog - 1 BY <1>0, RoomLeft
<1>5. lh' \in Seq(Block) /\ Len(lh') =< Len(lh) + 1 /\ Len(lh') \in Nat
  BY <1>0, <1>2, <1>r, Appended
<1>6. wrote' \in [Proc -> SUBSET Block] /\ \A q \in Proc : Cardinality(wrote'[q]) \in 0..OpBlocks
  <2>1. wrote'[p] = wrote[p] \cup {b} /\ \A q \in Proc \ {p} : wrote'[q] = wrote[q] BY <1>0, <1>r
  <2>2. IsFiniteSet(wrote[p] \cup {b}) BY FS_AddElement DEF Written
  <2>3. Cardinality(wrote[p] \cup {b}) \in 0..OpBlocks BY <1>2, <2>2, FS_CardinalityType, Sizes
  <2>4. \A q \in Proc : Cardinality(wrote[q]) \in 0..OpBlocks BY <1>0 DEF TypeOK
  <2>5. wrote' \in [Proc -> SUBSET Block] BY <1>0, <1>2, <1>r
  <2> QED BY <2>1, <2>3, <2>4, <2>5
<1>7. LogInv'
  <2>1. Len(lh') =< NLog - 1 BY <1>4, <1>5, <1>0, Sizes
  <2>2. pc' \in [Proc -> {"idle", "begin", "asleep", "op", "log_write", "commit"}] BY <1>0, <1>r
  <2>3. held' \in [Proc -> Block \cup {None}] /\ dirty' \subseteq Block
    BY <1>0, <1>r, <1>2 DEF TypeOK
  <2> QED BY <1>r, <1>5, <1>6, <2>1, <2>2, <2>3 DEF LogInv, TypeOK, NeverPanics
<1>8. RoomInv'
  <2> DEFINE w == wrote[p]  c == Cardinality(Reserved)  d == Cardinality(Reserved')
  <2>0. /\ IsFiniteSet(w) /\ w \subseteq Range(lh) BY <1>1 DEF Written
  <2>1. /\ Cardinality(w) \in Nat /\ c \in Nat /\ d \in Nat /\ Len(lh) + c =< Most
        /\ Most \in Nat
    BY <2>0, FS_CardinalityType, RoomFinite, RoomFiniteNext, MostBounds DEF RoomInv
  <2>2. wrote'[p] = w \cup {b} /\ \A q \in Proc \ {p} : wrote'[q] = wrote[q] BY <1>0, <1>r
  <2>3. IsFiniteSet(w \cup {b}) /\ Cardinality(w) =< Cardinality(w \cup {b})
        /\ Cardinality(w \cup {b}) \in Nat
    BY <2>0, FS_AddElement, FS_Subset, FS_CardinalityType
  <2>4. Reserved' \subseteq Reserved
    <3>1. ASSUME NEW t \in Reserved' PROVE t \in Reserved
      <4>1. /\ t[1] \in Active /\ t[2] \in 1..OpBlocks /\ t \in Active \X (1..OpBlocks)
            /\ Cardinality(wrote'[t[1]]) < t[2]
        BY <1>1 DEF Reserved
      <4>2. t[1] \in Proc BY <4>1 DEF Active
      <4>3. CASE t[1] = p
        <5> DEFINE m == Cardinality(w)  n == Cardinality(w \cup {b})
        <5>1. m \in Nat /\ n \in Nat /\ m =< n BY <2>1, <2>3
        <5>2. n < t[2] BY <2>2, <4>1, <4>3
        <5>3. t[2] \in Nat BY <4>1, Sizes
        <5> HIDE DEF m, n
        <5>4. m < t[2] BY <5>1, <5>2, <5>3
        <5> QED BY <5>4, <4>1, <4>3 DEF Reserved, m
      <4>4. CASE t[1] # p BY <2>2, <4>1, <4>2, <4>4 DEF Reserved
      <4> QED BY <4>3, <4>4
    <3> QED BY <3>1
  <2>5. CASE b \in Range(lh)
    <3>1. lh' = lh BY <2>5, <1>r
    <3>2. d =< c BY <2>4, RoomFinite, FS_Subset
    <3> HIDE DEF c, d
    <3>3. Len(lh') + d =< Most BY <3>1, <3>2, <2>1, <1>0
    <3> QED BY <1>1, <1>r, <3>3 DEF RoomInv, d
  <2>6. CASE b \notin Range(lh)
    <3> DEFINE n == Cardinality(w) + 1  t == <<p, n>>
    <3>1. Cardinality(w \cup {b}) = n BY <2>0, <2>6, FS_AddElement
    <3>2. n \in 1..OpBlocks /\ Cardinality(w) < n BY <3>1, <1>2, <2>1, Sizes
    <3>3. t \in Reserved BY <3>2, <1>1 DEF Reserved
    <3>4. t \notin Reserved'
      <4>1. ~(n < n) BY <3>2
      <4> QED BY <4>1, <3>1, <2>2 DEF Reserved
    <3>5. Reserved' \subseteq Reserved \ {t} BY <2>4, <3>4
    <3>6. d + 1 =< c BY <3>3, <3>5, RoomFinite, OneOut
    <3> HIDE DEF c, d
    <3>7. Len(lh') + d =< Most BY <1>0, <1>5, <2>1, <3>6
    <3> QED BY <1>1, <1>r, <3>7 DEF RoomInv, d
  <2> QED BY <2>5, <2>6
<1>9. Control'
  <2>1. \A q \in Proc \ {p} : wrote'[q] = wrote[q] /\ held'[q] = held[q] /\ pc'[q] = pc[q]
    BY <1>0, <1>r
  <2>2. held'[p] = None /\ pc'[p] = "op" BY <1>0, <1>r
  <2> QED BY <2>1, <2>2, <1>1, <1>3, <1>r DEF Control
<1>10. Buffers'
  <2>1. Once(lh')
    <3>1. CASE b \in Range(lh) BY <3>1, <1>r DEF Buffers, Once
    <3>2. CASE b \notin Range(lh)
      <4>1. \A k \in 1..Len(lh) : lh[k] # b BY <3>2, <1>0, RangeOf
      <4>2. lh' = Append(lh, b) BY <3>2, <1>r
      <4>3. /\ Len(lh') = Len(lh) + 1 /\ lh'[Len(lh) + 1] = b
            /\ \A k \in 1..Len(lh) : lh'[k] = lh[k]
        BY <4>2, <1>0, <1>2, Appended
      <4> QED BY <4>1, <4>3, <1>0 DEF Buffers, Once
    <3> QED BY <3>1, <3>2
  <2>2. \A c \in Block : ToInstall(c)' <=> ToInstall(c) \/ c = b
    <3>1. CASE b \in Range(lh)
      <4>1. PICK k \in 1..Len(lh) : lh[k] = b BY <3>1, <1>0, RangeOf
      <4>2. lh' = lh BY <3>1, <1>r
      <4> QED BY <4>1, <4>2, <1>r, <1>3 DEF ToInstall
    <3>2. CASE b \notin Range(lh)
      <4>2. lh' = Append(lh, b) BY <3>2, <1>r
      <4>3. /\ Len(lh') = Len(lh) + 1 /\ lh'[Len(lh) + 1] = b
            /\ \A k \in 1..Len(lh) : lh'[k] = lh[k]
        BY <4>2, <1>0, <1>2, Appended
      <4>4. \A c \in Block :
               (\E k \in 1..Len(lh') : lh'[k] = c) <=> (\E k \in 1..Len(lh) : lh[k] = c) \/ c = b
        <5>0. Len(lh) \in Nat BY <1>0
        <5> DEFINE n == Len(lh)
        <5>1. n \in Nat /\ Len(lh') = n + 1 /\ lh'[n + 1] = b /\ \A k \in 1..n : lh'[k] = lh[k]
          BY <5>0, <4>3
        <5> HIDE DEF n
        <5>2. \A k \in 1..(n + 1) : k \in 1..n \/ k = n + 1 BY <5>1
        <5>3. n + 1 \in 1..(n + 1) /\ \A k \in 1..n : k \in 1..(n + 1) BY <5>1
        <5>4. \A c : (\E k \in 1..(n + 1) : lh'[k] = c) <=> (\E k \in 1..n : lh[k] = c) \/ c = b
          BY <5>1, <5>2, <5>3
        <5> QED BY <5>1, <5>4 DEF n
      <4> QED BY <4>4, <1>r, <1>3 DEF ToInstall
    <3> QED BY <3>1, <3>2
  <2>3. ASSUME NEW c \in Block
        PROVE  /\ c \in dirty' <=> ToInstall(c)'
               /\ c \in dirty' => cache'[c] # None
               /\ c \notin dirty' /\ (\A q \in Proc : held'[q] # c) /\ cache'[c] # None
                     => cache'[c] = data'[c]
    <3>1. c \in dirty' <=> ToInstall(c)' BY <2>2, <1>r DEF Buffers
    <3>2. cache[b] # None BY <1>2 DEF Buffers
    <3>3. c \notin dirty' /\ (\A q \in Proc : held'[q] # c) => c \notin dirty /\ \A q \in Proc : held[q] # c
      BY <1>0, <1>r
    <3> QED BY <3>1, <3>2, <3>3, <1>r DEF Buffers
  <2>4. \A q \in Proc : held'[q] # None => cache'[held'[q]] # None BY <1>0, <1>r DEF Buffers
  <2> QED BY <2>1, <2>3, <2>4, <1>r DEF Buffers
<1>11. Progress' BY <1>3, <1>r DEF Progress
<1>12. Written'
  <2>1. Range(lh) \subseteq Range(lh') /\ b \in Range(lh')
    <3>1. CASE b \in Range(lh) BY <3>1, <1>r
    <3>2. CASE b \notin Range(lh)
      <4>1. lh' = Append(lh, b) BY <3>2, <1>r
      <4>2. /\ Len(lh') = Len(lh) + 1 /\ lh'[Len(lh) + 1] = b
            /\ \A k \in 1..Len(lh) : lh'[k] = lh[k]
        BY <4>1, <1>0, <1>2, Appended
      <4>3. b \in Range(lh') BY <4>2, <1>0, <1>5, RangeOf
      <4>4. ASSUME NEW c \in Range(lh) PROVE c \in Range(lh')
        <5>1. PICK k \in 1..Len(lh) : lh[k] = c BY <4>4, <1>0, RangeOf
        <5>2. k \in 1..Len(lh') /\ lh'[k] = c BY <5>1, <4>2, <1>0
        <5> QED BY <5>2, <1>5, RangeOf
      <4> QED BY <4>3, <4>4
    <3> QED BY <3>1, <3>2
  <2>2. ASSUME NEW q \in Proc
        PROVE  /\ IsFiniteSet(wrote'[q])
               /\ wrote'[q] \subseteq IF q \in Active' THEN Range(lh') ELSE {}
    <3>1. CASE q = p
      <4>1. wrote'[q] = wrote[p] \cup {b} BY <3>1, <1>0, <1>r
      <4>2. IsFiniteSet(wrote[p]) BY DEF Written
      <4>3. IsFiniteSet(wrote'[q]) BY <4>1, <4>2, FS_AddElement
      <4> QED BY <4>1, <4>3, <3>1, <2>1, <1>1 DEF Written
    <3>2. CASE q # p
      <4>1. wrote'[q] = wrote[q] BY <3>2, <1>0, <1>r
      <4> QED BY <4>1, <2>1, <1>1 DEF Written
    <3> QED BY <3>1, <3>2
  <2>3. outstanding' # 0
    <3>1. Cardinality(Active) # 0 BY <1>1, RoomFinite, FS_EmptySet
    <3> QED BY <3>1, <1>r DEF RoomInv
  <2> QED BY <2>2, <2>3 DEF Written
<1> QED BY <1>7, <1>8, <1>9, <1>10, <1>11, <1>12

\* end_op gives up what it has left; the last one starts the commit with the
\* header on disk empty.
LEMMA EndOpOK == ASSUME Inv, NEW p \in Proc, EndOp(p) PROVE Inv'
<1> USE DEF Inv
<1>e. /\ pc[p] = "op" /\ outstanding' = outstanding - 1
      /\ UNCHANGED <<data, logged, head, cache, dirty, lh, up, tail, held>>
      /\ wrote' = [wrote EXCEPT ![p] = {}]
  BY DEF EndOp, disk
<1>0. /\ pc \in [Proc -> {"idle", "begin", "asleep", "op", "log_write", "commit"}]
      /\ wrote \in [Proc -> SUBSET Block] /\ Len(lh) \in Nat
  BY DEF LogInv, TypeOK
<1>1. p \in Active BY <1>0, <1>e DEF Active
<1>2. up /\ ~committing /\ at = "none" BY <1>e, <1>1 DEF Control
<1>3. pc' \in [Proc -> {"idle", "begin", "asleep", "op", "log_write", "commit"}]
  BY <1>0 DEF EndOp, Wakeup
<1>4. Active' = Active \ {p} BY <1>0, <1>e DEF EndOp, Wakeup, Active
<1> DEFINE n == Cardinality(Active)
<1>5. Cardinality(Active') = n - 1 BY <1>1, <1>4, FS_RemoveElement, RoomFinite
<1>6. outstanding' = Cardinality(Active') BY <1>5, <1>e DEF RoomInv
<1>7. panic' = None BY <1>2 DEF EndOp, LogInv, NeverPanics
<1>w. wrote'[p] = {} /\ \A q \in Proc \ {p} : wrote'[q] = wrote[q] BY <1>0, <1>e
<1>8. LogInv'
  <2>1. outstanding' \in 0..Cardinality(Proc) BY <1>6, RoomFinite, RoomFiniteNext
  <2>2. committing \in BOOLEAN BY DEF LogInv, TypeOK
  <2>3. at' \in {"none", "end", "write_log"} /\ committing' \in BOOLEAN BY <2>2, <1>2 DEF EndOp
  <2>4. Cardinality({}) = 0 /\ 0 \in 0..OpBlocks BY FS_EmptySet, Sizes
  <2>5. wrote' \in [Proc -> SUBSET Block] BY <1>0, <1>e
  <2>6. \A q \in Proc : Cardinality(wrote'[q]) \in 0..OpBlocks BY <1>w, <2>4 DEF LogInv, TypeOK
  <2> QED BY <1>e, <1>3, <1>7, <2>1, <2>3, <2>5, <2>6 DEF LogInv, TypeOK, NeverPanics
<1>9. RoomInv'
  <2>1. Reserved' \subseteq Reserved
    <3>1. ASSUME NEW t \in Reserved' PROVE t \in Reserved
      <4>1. /\ t[1] \in Active /\ t[1] # p /\ t \in Active \X (1..OpBlocks)
            /\ Cardinality(wrote'[t[1]]) < t[2]
        BY <1>4 DEF Reserved
      <4>2. t[1] \in Proc BY <4>1 DEF Active
      <4> QED BY <4>1, <4>2, <1>w DEF Reserved
    <3> QED BY <3>1
  <2>2. Cardinality(Reserved') =< Cardinality(Reserved) BY <2>1, RoomFinite, FS_Subset
  <2>3. Len(lh) + Cardinality(Reserved) =< Most BY DEF RoomInv
  <2>4. Len(lh) + Cardinality(Reserved') =< Most
    <3> DEFINE c == Cardinality(Reserved)  d == Cardinality(Reserved')
    <3>1. c \in Nat /\ d \in Nat /\ d =< c /\ Len(lh) + c =< Most /\ Most \in Nat
      BY <2>2, <2>3, RoomFinite, RoomFiniteNext, MostBounds
    <3> HIDE DEF c, d
    <3>2. Len(lh) + d =< Most BY <3>1, <1>0
    <3> QED BY <3>2 DEF d
  <2> QED BY <1>6, <1>e, <2>4 DEF RoomInv
<1>12. Written'
  <2>1. \A q \in Proc : q \in Active' <=> q \in Active /\ q # p BY <1>4
  <2>2. up' /\ ~committing' => outstanding' # 0 BY DEF EndOp
  <2>3. \A q \in Proc : /\ IsFiniteSet(wrote'[q])
                        /\ wrote'[q] \subseteq IF q \in Active' THEN Range(lh) ELSE {}
    BY <1>w, <2>1, FS_EmptySet DEF Written
  <2> QED BY <2>2, <2>3, <1>e DEF Written
<1>10. CASE outstanding' = 0
  <2>1. /\ committing' = TRUE /\ pc' = [pc EXCEPT ![p] = "commit"]
        /\ at' = IF lh = << >> THEN "end" ELSE "write_log"
    BY <1>10 DEF EndOp
  <2>2. Active' = {} BY <1>6, <1>10, RoomFiniteNext, FS_EmptySet
  <2>3. Control' BY <2>1, <2>2, <1>0, <1>2, <1>e DEF Control
  <2>4. \A b \in Block : ToInstall(b)' <=> ToInstall(b) BY <2>1, <1>2, <1>e DEF ToInstall
  <2>5. Buffers' BY <2>4, <1>e DEF Buffers
  <2>6. tail = 0 /\ head = << >> BY <1>2 DEF Progress
  <2>7. lh # << >> => Len(lh) > 0 BY <1>0 DEF LogInv, TypeOK
  <2>8. Progress' BY <2>1, <2>6, <2>7, <1>e DEF Progress
  <2> QED BY <1>8, <1>9, <1>12, <2>3, <2>5, <2>8
<1>11. CASE outstanding' # 0
  <2>1. pc' = Wakeup([pc EXCEPT ![p] = "idle"]) /\ UNCHANGED <<committing, at>>
    BY <1>11 DEF EndOp
  <2>2. \A q \in Proc : /\ pc'[q] = "commit" <=> pc[q] = "commit"
                        /\ pc'[q] = "log_write" <=> pc[q] = "log_write"
    <3> DEFINE f == [pc EXCEPT ![p] = "idle"]
    <3>1. \A q \in Proc : pc'[q] = IF f[q] = "asleep" THEN "begin" ELSE f[q]
      BY <2>1 DEF Wakeup
    <3>2. \A q \in Proc : f[q] = IF q = p THEN "idle" ELSE pc[q] BY <1>0
    <3> HIDE DEF f
    <3>3. pc[p] = "op" BY <1>e
    <3> QED BY <3>1, <3>2, <3>3, <1>0, <1>3
  <2>3. Control'
    <3>1. up' /\ ~committing' /\ at' = "none" /\ committing' = committing BY <2>1, <1>2, <1>e
    <3>2. UNCHANGED held BY <1>e
    <3>3. \A q \in Proc : pc[q] # "commit" BY <1>2 DEF Control
    <3>4. \A q \in Proc : /\ held'[q] # None <=> pc'[q] = "log_write"
                          /\ pc'[q] = "log_write"
                                => Cardinality(wrote'[q] \cup {held'[q]}) =< OpBlocks
      BY <2>2, <3>2, <1>w, <1>e DEF Control
    <3>5. \A q, r \in Proc : held'[q] = held'[r] /\ held'[q] # None => q = r BY <3>2 DEF Control
    <3> QED BY <2>2, <3>1, <3>3, <3>4, <3>5 DEF Control
  <2>4. Buffers' BY <2>1, <1>e, SameInstalls DEF Buffers
  <2>5. Progress' BY <2>1, <1>e DEF Progress
  <2> QED BY <1>8, <1>9, <1>12, <2>3, <2>4, <2>5
<1> QED BY <1>10, <1>11

-----------------------------------------------------------------------------
(* The steps of the disk *)

\* What Inv says of types.
LEMMA Types ==
    ASSUME Inv
    PROVE  /\ data \in [Block -> Val] /\ logged \in [Slot -> Val]
           /\ head \in Seq(Block) /\ lh \in Seq(Block) /\ Len(head) \in Nat /\ Len(lh) \in Nat
           /\ Len(head) =< NLog - 1 /\ Len(lh) =< NLog - 1
           /\ cache \in [Block -> Val \cup {None}] /\ dirty \subseteq Block
           /\ held \in [Proc -> Block \cup {None}] /\ tail \in Nat
           /\ pc \in [Proc -> {"idle", "begin", "asleep", "op", "log_write", "commit"}]
           /\ \A k \in 1..Len(lh) : lh[k] \in Block
           /\ \A k \in 1..Len(head) : head[k] \in Block
BY DEF Inv, LogInv, TypeOK

\* Before a block is installed its buffer is pinned.
LEMMA PinnedNow ==
    ASSUME Inv, up, NEW k \in 1..Len(lh), at = "install_trans" => k > tail
    PROVE  lh[k] \in Block /\ lh[k] \in dirty /\ cache[lh[k]] # None /\ Bread(lh[k]) = cache[lh[k]]
                                                               /\ cache[lh[k]] \in Val
<1>1. lh[k] \in Block /\ cache \in [Block -> Val \cup {None}] BY Types
<1>2. lh[k] \in dirty BY <1>1 DEF ToInstall, Buffers, Inv
<1>3. cache[lh[k]] # None BY <1>1, <1>2 DEF Buffers, Inv
<1> QED BY <1>1, <1>2, <1>3 DEF Bread

\* The next block is copied to the log.
LEMMA WriteLogOK == ASSUME Inv, WriteLog PROVE Inv'
<1> DEFINE k == tail + 1
<1>w. /\ at = "write_log" /\ logged' = [logged EXCEPT ![k] = Bread(lh[k])]
      /\ IF k < Len(lh) THEN tail' = k /\ at' = at ELSE tail' = 0 /\ at' = "write_head"
      /\ UNCHANGED <<data, head, cache, dirty, lh, outstanding, committing, up, pc, held, wrote, panic>>
  BY DEF WriteLog, locals
<1>1. up /\ committing BY <1>w DEF Inv, Control
<1>2. tail < Len(lh) /\ \A j \in 1..tail : logged[j] = cache[lh[j]] BY <1>w DEF Inv, Progress
<1>3. k \in 1..Len(lh) /\ k \in Slot /\ tail \in Nat /\ Len(lh) \in Nat BY <1>2, Types, Sizes DEF Slot
<1>4. Bread(lh[k]) = cache[lh[k]] /\ cache[lh[k]] \in Val BY <1>1, <1>3, <1>w, PinnedNow
<1>5. logged' \in [Slot -> Val] BY <1>4, <1>w, Types
<1>6. at' \in {"write_log", "write_head"} BY <1>w
<1>7. LogInv'
  <2>1. tail' \in 0..(NLog - 1) BY <1>w, <1>3, Types, Sizes
  <2> QED BY <1>5, <1>6, <1>w, <2>1 DEF Inv, LogInv, TypeOK, NeverPanics
<1>8. RoomInv' BY <1>w, SameRoom DEF Active, Inv
<1>9. Control' BY <1>1, <1>6, <1>w DEF Control, Active, Inv
<1>10. Buffers'
  <2>1. \A b \in Block : ToInstall(b)' <=> ToInstall(b) BY <1>1, <1>6, <1>w DEF ToInstall
  <2> QED BY <2>1, <1>w DEF Buffers, Inv
<1>11. Progress'
  <2>1. \A j \in 1..k : logged'[j] = cache'[lh'[j]]
    <3>1. logged'[k] = cache[lh[k]] BY <1>3, <1>4, <1>w, Types
    <3>2. \A j \in 1..tail : logged'[j] = logged[j] BY <1>3, <1>w, Types
    <3> QED BY <1>2, <1>3, <1>w, <3>1, <3>2
  <2>2. head = << >> BY <1>w DEF Progress, Inv
  <2>3. CASE k < Len(lh)
    <3>1. tail' = k /\ at' = "write_log" BY <1>w, <2>3
    <3> QED BY <2>1, <2>2, <2>3, <3>1, <1>w DEF Progress
  <2>4. CASE ~(k < Len(lh))
    <3>1. tail' = 0 /\ at' = "write_head" BY <1>w, <2>4
    <3>2. k = Len(lh) BY <2>4, <1>3
    <3> QED BY <2>1, <2>2, <3>1, <3>2, <1>w DEF Progress
  <2> QED BY <2>3, <2>4
<1>12. Written' BY <1>w, SameWritten DEF Active, Inv
<1> QED BY <1>7, <1>8, <1>9, <1>10, <1>11, <1>12 DEF Inv

\* All blocks are in the log: the header names them.
LEMMA WriteHeadOK == ASSUME Inv, WriteHead PROVE Inv'
<1>w. /\ at = "write_head" /\ head' = lh /\ at' = "install_trans"
      /\ UNCHANGED <<data, logged, cache, dirty, lh, outstanding, committing, up, tail, pc, held, wrote, panic>>
  BY DEF WriteHead, locals
<1>1. up /\ committing BY <1>w DEF Inv, Control
<1>2. tail = 0 BY <1>w DEF Progress, Inv
<1>3. LogInv' BY <1>w, Types DEF Inv, LogInv, TypeOK, NeverPanics
<1>4. RoomInv'
  <2>1. Active' = Active /\ Reserved' = Reserved BY <1>w DEF Active, Reserved
  <2>2. Len(lh) =< Most
    <3> DEFINE c == Cardinality(Reserved)
    <3>1. c \in Nat /\ Len(lh) + c =< Most BY RoomFinite DEF Inv, RoomInv
    <3> HIDE DEF c
    <3> QED BY <3>1, Types, MostBounds
  <2> QED BY <2>1, <2>2, <1>w DEF RoomInv, Inv
<1>5. Control' BY <1>1, <1>w DEF Control, Active, Inv
<1>6. Buffers'
  <2>1. \A b \in Block : ToInstall(b)' <=> ToInstall(b) BY <1>1, <1>2, <1>w DEF ToInstall
  <2> QED BY <2>1, <1>w DEF Buffers, Inv
<1>7. Progress' BY <1>w, <1>2, Types DEF Progress, Inv
<1>8. Written' BY <1>w, SameWritten DEF Active, Inv
<1> QED BY <1>3, <1>4, <1>5, <1>6, <1>7, <1>8 DEF Inv

\* The next block goes from the log to its place, and its buffer is unpinned.
LEMMA InstallOK == ASSUME Inv, InstallTrans, tail < Len(lh) PROVE Inv'
<1> DEFINE k == tail + 1  b == lh[k]
<1>i. /\ at = "install_trans"
      /\ data' = [data EXCEPT ![b] = logged[k]] /\ cache' = [cache EXCEPT ![b] = logged[k]]
      /\ dirty' = dirty \ {b} /\ tail' = k
      /\ UNCHANGED <<lh, at, logged, head, outstanding, committing, up, pc, held, wrote, panic>>
  BY DEF InstallTrans, locals
<1>1. k \in 1..Len(lh) /\ k \in Slot /\ b \in Block /\ logged[k] \in Val /\ tail \in Nat
  BY Types, Sizes DEF Slot
<1>2. at = "install_trans" /\ lh = head BY <1>i DEF Progress, Inv
<1>3. LogInv'
  <2>1. tail' \in 0..(NLog - 1) BY <1>i, <1>1, Types, Sizes
  <2>2. data' \in [Block -> Val] /\ cache' \in [Block -> Val \cup {None}] /\ dirty' \subseteq Block
    BY <1>i, <1>1, Types
  <2> QED BY <1>i, <2>1, <2>2 DEF Inv, LogInv, TypeOK, NeverPanics
<1>4. RoomInv' BY <1>i, SameRoom DEF Active, Inv
<1>5. Control' BY <1>i DEF Control, Active, Inv
<1>6. \A p \in Proc : held[p] = None
  <2>1. up => committing BY <1>i DEF Control, Inv
  <2> QED BY <2>1 DEF Control, Active, Inv
<1>7. Once(lh) BY DEF Inv, Buffers
<1>8. Buffers'
  <2>1. ASSUME NEW c \in Block
        PROVE  /\ c \in dirty' <=> ToInstall(c)'
               /\ c \in dirty' => cache'[c] # None
               /\ c \notin dirty' /\ cache'[c] # None => cache'[c] = data'[c]
    <3>1. c \in dirty <=> ToInstall(c) BY DEF Inv, Buffers
    <3>2. CASE c = b
      <4>1. ~ToInstall(c)' BY <3>2, <1>1, <1>7, <1>i, Types DEF ToInstall, Once
      <4> QED BY <4>1, <3>2, <1>1, <1>i, Types
    <3>3. CASE c # b
      <4>1. ToInstall(c)' <=> ToInstall(c) BY <3>3, <1>1, <1>i, Types DEF ToInstall
      <4>2. cache'[c] = cache[c] /\ data'[c] = data[c] BY <3>3, <1>1, <1>i, Types
      <4> QED BY <4>1, <4>2, <3>1, <3>3, <1>6, <1>i, Sizes DEF Buffers, Inv
    <3> QED BY <3>2, <3>3
  <2> QED BY <2>1, <1>6, <1>i DEF Buffers, Inv
<1>9. Progress'
  <2>1. \A j \in 1..k : data'[lh[j]] = logged[j]
    <3>1. ASSUME NEW j \in 1..k PROVE data'[lh[j]] = logged[j]
      <4>1. lh[j] \in Block BY <1>1, Types
      <4>2. CASE j = k BY <4>1, <4>2, <1>i, Types
      <4>3. CASE j # k
        <5>1. j \in 1..tail BY <4>3, <1>1
        <5>2. lh[j] # b BY <4>3, <1>1, <1>7, Types DEF Once
        <5>3. data[lh[j]] = logged[j] BY <5>1, <1>i DEF Progress, Inv
        <5> QED BY <5>2, <5>3, <4>1, <1>i, Types
      <4> QED BY <4>2, <4>3
    <3> QED BY <3>1
  <2>2. ASSUME up, NEW j \in 1..Len(lh), j > k PROVE logged[j] = cache'[lh[j]]
    <3>1. lh[j] # b BY <2>2, <1>1, <1>7, Types DEF Once
    <3>2. logged[j] = cache[lh[j]] BY <2>2, <1>1, <1>i DEF Progress, Inv
    <3> QED BY <3>1, <3>2, <1>i, Types
  <2> QED BY <2>1, <2>2, <1>1, <1>2, <1>i, Types DEF Progress
<1>10. Written' BY <1>i, SameWritten DEF Active, Inv
<1> QED BY <1>3, <1>4, <1>5, <1>8, <1>9, <1>10 DEF Inv

\* All of them are in their places, and nothing is pinned.
LEMMA InstalledOK == ASSUME Inv, InstallTrans, ~(tail < Len(lh)) PROVE Inv'
<1>i. /\ at = "install_trans" /\ lh' = << >> /\ tail' = 0 /\ at' = "erase"
      /\ UNCHANGED <<data, cache, dirty, logged, head, outstanding, committing, up, pc, held, wrote, panic>>
  BY DEF InstallTrans, locals
<1>1. lh = head /\ tail = Len(lh) /\ \A k \in 1..tail : data[lh[k]] = logged[k]
  BY <1>i, Types DEF Progress, Inv
<1>2. Len(lh') = 0 /\ lh' \in Seq(Block) BY <1>i
<1>3. LogInv' BY <1>i, <1>2, Sizes DEF Inv, LogInv, TypeOK, NeverPanics
<1>4. RoomInv'
  <2>1. Active' = Active /\ Reserved' = Reserved BY <1>i DEF Active, Reserved
  <2>2. 0 + Cardinality(Reserved) =< Most
    <3> DEFINE c == Cardinality(Reserved)
    <3>1. c \in Nat /\ Len(lh) + c =< Most BY RoomFinite DEF Inv, RoomInv
    <3> HIDE DEF c
    <3>2. 0 + c =< Most BY <3>1, Types, MostBounds
    <3> QED BY <3>2 DEF c
  <2> QED BY <2>1, <2>2, <1>2, <1>i DEF RoomInv, Inv
<1>5. Control' BY <1>i DEF Control, Active, Inv
<1>6. Buffers'
  <2>1. \A b \in Block : ~ToInstall(b) /\ ~ToInstall(b)'
    BY <1>1, <1>2, <1>i, Types DEF ToInstall
  <2>2. Once(lh') BY <1>2 DEF Once
  <2> QED BY <2>1, <2>2, <1>i DEF Buffers, Inv
<1>7. Progress' BY <1>1, <1>i DEF Progress
<1>8. Written'
  <2>1. Active' = Active /\ Active = {}
    <3>1. up => committing BY <1>i DEF Control, Inv
    <3> QED BY <3>1, <1>i DEF Control, Active, Inv
  <2> QED BY <2>1, <1>i DEF Written, Inv
<1> QED BY <1>3, <1>4, <1>5, <1>6, <1>7, <1>8 DEF Inv

\* The header is cleared; recovery, or all of the commit on disk, is done.
LEMMA EraseOK == ASSUME Inv, Erase PROVE Inv'
<1>e. /\ at = "erase" /\ head' = lh /\ at' = (IF up THEN "end" ELSE "none") /\ up' = TRUE
      /\ UNCHANGED <<data, logged, cache, dirty, lh, outstanding, committing, tail, pc, held, wrote, panic>>
  BY DEF Erase, locals
<1>1. lh = << >> /\ tail = 0 BY <1>e DEF Progress, Inv
<1>2. Len(head') = 0 /\ head' \in Seq(Block) BY <1>1, <1>e
<1>3. up <=> committing BY <1>e DEF Control, Inv
<1>4. LogInv' BY <1>e, <1>2, Sizes DEF Inv, LogInv, TypeOK, NeverPanics
<1>5. RoomInv'
  <2>1. Active' = Active /\ Reserved' = Reserved BY <1>e DEF Active, Reserved
  <2>2. Len(head') =< Most BY <1>2, MostBounds
  <2> QED BY <2>1, <2>2, <1>e DEF RoomInv, Inv
<1>6. Control' BY <1>e, <1>3 DEF Control, Active, Inv
<1>7. Buffers'
  <2>1. \A b \in Block : ~ToInstall(b) /\ ~ToInstall(b)' BY <1>1, <1>e DEF ToInstall
  <2>2. Once(head') BY <1>2 DEF Once
  <2> QED BY <2>1, <2>2, <1>e DEF Buffers, Inv
<1>8. Progress' BY <1>1, <1>e DEF Progress
<1>9. Written' BY <1>1, <1>e DEF Written, Active, Inv
<1> QED BY <1>4, <1>5, <1>6, <1>7, <1>8, <1>9 DEF Inv

\* Processes that are woken are in no operation.
LEMMA Woken ==
    ASSUME Inv, NEW p \in Proc, pc[p] = "commit", pc' = Wakeup([pc EXCEPT ![p] = "idle"])
    PROVE  /\ Active' = Active
           /\ pc' \in [Proc -> {"idle", "begin", "asleep", "op", "log_write", "commit"}]
           /\ \A q \in Proc : /\ pc'[q] = "log_write" <=> pc[q] = "log_write"
                              /\ pc'[q] # "commit"
<1> DEFINE f == [pc EXCEPT ![p] = "idle"]
<1>1. pc \in [Proc -> {"idle", "begin", "asleep", "op", "log_write", "commit"}] BY Types
<1>2. pc' = [q \in Proc |-> IF f[q] = "asleep" THEN "begin" ELSE f[q]] BY DEF Wakeup
<1>3. \A q \in Proc : f[q] = IF q = p THEN "idle" ELSE pc[q] BY <1>1
<1>4. \A q \in Proc : pc[q] = "commit" => q = p BY DEF Inv, Control
<1> HIDE DEF f
<1>5. \A q \in Proc : pc'[q] = IF q = p THEN "idle" ELSE IF pc[q] = "asleep" THEN "begin" ELSE pc[q]
  BY <1>2, <1>3
<1>6. Active' = Active BY <1>5 DEF Active
<1>7. pc' \in [Proc -> {"idle", "begin", "asleep", "op", "log_write", "commit"}]
  BY <1>1, <1>2, <1>5
<1>8. \A q \in Proc : /\ pc'[q] = "log_write" <=> pc[q] = "log_write"
                      /\ pc'[q] # "commit"
  BY <1>4, <1>5
<1> QED BY <1>6, <1>7, <1>8

\* end_op wakes who waits for the commit.
LEMMA CommitDoneOK == ASSUME Inv, NEW p \in Proc, CommitDone(p) PROVE Inv'
<1>c. /\ pc[p] = "commit" /\ at = "end" /\ committing' = FALSE /\ at' = "none"
      /\ pc' = Wakeup([pc EXCEPT ![p] = "idle"])
      /\ UNCHANGED <<data, logged, head, cache, dirty, lh, outstanding, up, tail, held, wrote, panic>>
  BY DEF CommitDone, disk
<1>1. up /\ committing BY <1>c DEF Control, Inv
<1>2. /\ Active' = Active
      /\ pc' \in [Proc -> {"idle", "begin", "asleep", "op", "log_write", "commit"}]
      /\ \A q \in Proc : pc'[q] = "log_write" <=> pc[q] = "log_write"
      /\ \A q \in Proc : pc'[q] # "commit"
  BY <1>c, Woken
<1>3. LogInv' BY <1>c, <1>2 DEF Inv, LogInv, TypeOK, NeverPanics
<1>4. RoomInv' BY <1>c, <1>2, SameRoom DEF Inv
<1>5. Control' BY <1>1, <1>2, <1>c DEF Control, Inv
<1>6. Buffers'
  <2>1. \A b \in Block : ToInstall(b)' <=> ToInstall(b) BY <1>c DEF ToInstall
  <2> QED BY <2>1, <1>c DEF Buffers, Inv
<1>7. Progress' BY <1>c DEF Progress, Inv
<1>8. lh = << >> BY <1>c DEF Progress, Inv
<1>9. Written' BY <1>2, <1>8, <1>c DEF Written, Inv
<1> QED BY <1>3, <1>4, <1>5, <1>6, <1>7, <1>9 DEF Inv

\* What is left after a crash is the disk.
LEMMA CrashOK == ASSUME Inv, Crash PROVE Inv'
<1>c. /\ cache' = [b \in Block |-> None] /\ dirty' = {} /\ lh' = << >> /\ outstanding' = 0
      /\ committing' = FALSE /\ up' = FALSE /\ at' = "read_head" /\ tail' = 0
      /\ pc' = [p \in Proc |-> "idle"] /\ held' = [p \in Proc |-> None] /\ wrote' = [p \in Proc |-> {}]
      /\ UNCHANGED <<data, logged, head, panic>>
  BY DEF Crash, disk
<1>1. Active' = {} /\ Reserved' = {} BY <1>c DEF Active, Reserved
<1>2. Cardinality(Active') = 0 /\ Cardinality(Reserved') = 0 BY <1>1, FS_EmptySet
<1>3. Len(lh') = 0 /\ lh' \in Seq(Block) BY <1>c
<1>4. LogInv'
  <2>1. 0 \in 0..Cardinality(Proc) /\ 0 \in 0..(NLog - 1) /\ 0 \in 0..OpBlocks
    BY RoomFinite, Sizes, Types
  <2>2. wrote' \in [Proc -> SUBSET Block] /\ \A q \in Proc : Cardinality(wrote'[q]) \in 0..OpBlocks
    BY <2>1, <1>c, FS_EmptySet
  <2>3. Len(lh') =< NLog - 1 BY <2>1, <1>3, Sizes
  <2>4. /\ cache' \in [Block -> Val \cup {None}] /\ held' \in [Proc -> Block \cup {None}]
        /\ pc' \in [Proc -> {"idle", "begin", "asleep", "op", "log_write", "commit"}] /\ dirty' \subseteq Block
    BY <1>c
  <2>5. outstanding' \in 0..Cardinality(Proc) /\ tail' \in 0..(NLog - 1) BY <2>1, <1>c
  <2>6. committing' \in BOOLEAN /\ up' \in BOOLEAN
        /\ at' \in {"none", "write_log", "write_head", "install_trans", "erase", "end", "read_head"}
    BY <1>c
  <2>7. UNCHANGED <<data, logged, head, panic>> BY <1>c
  <2> QED BY <1>3, <2>2, <2>3, <2>4, <2>5, <2>6, <2>7 DEF Inv, LogInv, TypeOK, NeverPanics
<1>5. RoomInv' BY <1>2, <1>3, <1>c, MostBounds DEF RoomInv, Inv
<1>6. Control' BY <1>1, <1>c DEF Control
<1>7. Buffers' BY <1>3, <1>c DEF Buffers, ToInstall, Once, Inv
<1>8. Progress' BY <1>c DEF Progress
<1>9. Written' BY <1>c, FS_EmptySet DEF Written
<1> QED BY <1>4, <1>5, <1>6, <1>7, <1>8, <1>9 DEF Inv

\* Recovery has read the header, which names every block once.
LEMMA ReadHeadOK == ASSUME Inv, ReadHead PROVE Inv'
<1>r. /\ at = "read_head" /\ lh' = head /\ at' = "install_trans"
      /\ UNCHANGED <<data, logged, head, cache, dirty, outstanding, committing, up, tail, pc, held, wrote, panic>>
  BY DEF ReadHead, disk, locals
<1>1. ~up /\ tail = 0 BY <1>r DEF Control, Progress, Inv
<1>2. Active = {} /\ Active' = Active /\ Reserved = {} /\ Reserved' = Reserved
  BY <1>1, <1>r DEF Control, Inv, Active, Reserved
<1>3. LogInv' BY <1>r, Types DEF Inv, LogInv, TypeOK, NeverPanics
<1>4. RoomInv'
  <2>1. Cardinality(Reserved') = 0 BY <1>2, FS_EmptySet
  <2>2. Len(lh') =< Most /\ Len(lh') \in Nat BY <1>r, Types DEF RoomInv, Inv
  <2>3. Len(lh') + Cardinality(Reserved') =< Most BY <2>1, <2>2, MostBounds
  <2> QED BY <2>3, <1>2, <1>r DEF RoomInv, Inv
<1>5. Control' BY <1>1, <1>2, <1>r DEF Control, Inv
<1>6. Buffers' BY <1>1, <1>r DEF Buffers, ToInstall, Inv
<1>7. Progress' BY <1>1, <1>r, Types DEF Progress, Inv
<1>8. Written' BY <1>1, <1>2, <1>r DEF Written, Inv
<1> QED BY <1>3, <1>4, <1>5, <1>6, <1>7, <1>8 DEF Inv

-----------------------------------------------------------------------------
(* The invariant *)

\* The first start finds an empty header.
LEMMA InitInv == Fits /\ Init => Inv
<1> SUFFICES ASSUME Fits, Init PROVE Inv OBVIOUS
<1>1. Active = {} /\ Reserved = {} BY DEF Init, Active, Reserved
<1>2. Cardinality(Active) = 0 /\ Cardinality(Reserved) = 0 BY <1>1, FS_EmptySet
<1>3. head = << >> /\ lh = << >> /\ Len(lh) = 0 /\ head \in Seq(Block) BY DEF Init
<1>4. 0 \in 0..Cardinality(Proc) /\ 0 \in 0..OpBlocks /\ 0 \in 0..(NLog - 1)
  BY RoomFinite, MostBounds, Sizes DEF Fits
<1>5. LogInv
  <2>1. Len(lh) =< NLog - 1 BY <1>3, <1>4
  <2>2. wrote \in [Proc -> SUBSET Block] /\ \A q \in Proc : Cardinality(wrote[q]) \in 0..OpBlocks
    BY <1>4, FS_EmptySet DEF Init
  <2>3. /\ cache \in [Block -> Val \cup {None}] /\ held \in [Proc -> Block \cup {None}]
        /\ pc \in [Proc -> {"idle", "begin", "asleep", "op", "log_write", "commit"}] /\ dirty \subseteq Block
        /\ data \in [Block -> Val] /\ logged \in [Slot -> Val]
    BY Sizes DEF Init
  <2>4. outstanding \in 0..Cardinality(Proc) /\ tail \in 0..(NLog - 1) BY <1>4 DEF Init
  <2>5. committing \in BOOLEAN /\ up \in BOOLEAN /\ panic = None
        /\ at \in {"none", "write_log", "write_head", "install_trans", "erase", "end", "read_head"}
    BY DEF Init
  <2> QED BY <1>3, <2>1, <2>2, <2>3, <2>4, <2>5 DEF LogInv, TypeOK, NeverPanics
<1>6. RoomInv BY <1>2, <1>3, MostBounds DEF Init, RoomInv
<1>7. Control BY <1>1 DEF Init, Control
<1>8. Buffers BY <1>3 DEF Init, Buffers, ToInstall, Once
<1>9. Progress BY <1>3 DEF Init, Progress
<1>10. Written BY FS_EmptySet DEF Init, Written
<1> QED BY <1>5, <1>6, <1>7, <1>8, <1>9, <1>10 DEF Inv

\* Every step keeps the invariant.
LEMMA NextInv == ASSUME Fits, Inv, [Next]_vars PROVE Inv'
<1>1. CASE Next
  <2>1. CASE Commits
    <3>1. CASE InstallTrans BY <3>1, InstallOK, InstalledOK
    <3> QED BY <2>1, <3>1, WriteLogOK, WriteHeadOK, EraseOK, ReadHeadOK DEF Commits
  <2>2. CASE Crash BY <2>2, CrashOK
  <2>3. CASE \E b \in Block : Evict(b) BY <2>3, EvictOK
  <2>4. ASSUME NEW p \in Proc,
               Enter(p) \/ Goes(p) \/ EndOp(p) \/ \E b \in Block, v \in Val : Modify(p, b, v)
        PROVE  Inv'
    BY <2>4, EnterOK, BeginOpOK, RecordOK, EndOpOK, CommitDoneOK, ModifyOK DEF Goes
  <2> QED BY <1>1, <2>1, <2>2, <2>3, <2>4 DEF Next
<1>2. CASE UNCHANGED vars
  BY <1>2 DEF vars, disk, locals, Inv, LogInv, TypeOK, NeverPanics, RoomInv, Written, Reserved, Active, Control,
              Buffers, ToInstall, Once, Progress
<1> QED BY <1>1, <1>2

-----------------------------------------------------------------------------
(* Every step is one of AtomicDisk or none *)

\* What recovery makes of header h, log l and blocks d.
Installed(h, l, d) ==
    [b \in Block |-> IF b \in Range(h) THEN l[CHOOSE k \in 1..Len(h) : h[k] = b] ELSE d[b]]

\* Blocks that the header names come from the log, the others from their place.
LEMMA InstalledAt ==
    ASSUME NEW h \in Seq(Block), Once(h), NEW l, NEW d
    PROVE  /\ \A k \in 1..Len(h) : Installed(h, l, d)[h[k]] = l[k]
           /\ \A b \in Block : (\A k \in 1..Len(h) : h[k] # b) => Installed(h, l, d)[b] = d[b]
<1>1. ASSUME NEW k \in 1..Len(h) PROVE Installed(h, l, d)[h[k]] = l[k]
  <2>1. h[k] \in Block /\ h[k] \in Range(h) BY RangeOf
  <2>2. (CHOOSE j \in 1..Len(h) : h[j] = h[k]) = k BY DEF Once
  <2> QED BY <2>1, <2>2 DEF Installed
<1>2. ASSUME NEW b \in Block, \A k \in 1..Len(h) : h[k] # b PROVE Installed(h, l, d)[b] = d[b]
  <2>1. b \notin Range(h) BY <1>2, RangeOf
  <2> QED BY <2>1 DEF Installed
<1> QED BY <1>1, <1>2

\* Recovered in these terms, in this state and the next.
LEMMA RecoveredIs ==
    /\ Recovered = Installed(head, logged, data)
    /\ Recovered' = Installed(head', logged', data')
BY DEF Recovered, Installed

\* With an empty header recovery leaves the blocks as they are.
LEMMA NothingToInstall ==
    ASSUME NEW h, h = << >>, NEW l, NEW d \in [Block -> Val]
    PROVE  Installed(h, l, d) = d
BY DEF Installed, Range

\* Steps that nobody can see.
LEMMA Unseen ==
    ASSUME View' = View, Recovered' = Recovered, Active' = Active
    PROVE  [Disk!Next]_(Disk!vars)
BY DEF Disk!vars, Active

\* The buffers and the disk stay.
LEMMA SameDisk ==
    ASSUME UNCHANGED <<data, logged, head, cache, up>>
    PROVE  View' = View /\ Recovered' = Recovered
BY DEF View, Recovered, Bread

\* An operation begins where it is admitted.
LEMMA BeginOpStep == ASSUME Inv, NEW p \in Proc, BeginOp(p) PROVE [Disk!Next]_(Disk!vars)
<1>0. pc \in [Proc -> {"idle", "begin", "asleep", "op", "log_write", "commit"}] BY Types
<1>1. View' = View /\ Recovered' = Recovered BY SameDisk DEF BeginOp, disk
<1>2. CASE Admits
  <2>1. Active' = Active \cup {p} /\ p \notin Active BY <1>0, <1>2 DEF BeginOp, Active
  <2>2. Disk!Begin(p) BY <1>1, <2>1 DEF Disk!Begin, Active
  <2> QED BY <2>2 DEF Disk!Next
<1>3. CASE ~Admits
  <2>1. Active' = Active BY <1>0, <1>3 DEF BeginOp, Active
  <2> QED BY <1>1, <2>1, Unseen
<1> QED BY <1>2, <1>3

\* It writes where it changes the buffer.
LEMMA ModifyStep ==
    ASSUME Inv, NEW p \in Proc, NEW b \in Block, NEW v \in Val, Modify(p, b, v)
    PROVE  [Disk!Next]_(Disk!vars)
<1>m. /\ pc[p] = "op" /\ cache' = [cache EXCEPT ![b] = v] /\ pc' = [pc EXCEPT ![p] = "log_write"]
      /\ UNCHANGED <<data, logged, head, up>>
  BY DEF Modify, disk
<1>1. Active' = Active /\ p \in Active BY <1>m, Types DEF Active
<1>2. up BY <1>m DEF Control, Inv
<1>3. Recovered' = Recovered BY <1>m DEF Recovered
<1>4. \A c \in Block : Bread(c)' = IF c = b THEN v ELSE Bread(c)
  BY <1>m, Types, Sizes DEF Bread
<1>5. View' = [View EXCEPT ![b] = v] BY <1>2, <1>4, <1>m DEF View
<1>6. Disk!Write(p, b, v) BY <1>1, <1>3, <1>5 DEF Disk!Write, Active
<1> QED BY <1>6 DEF Disk!Next

\* It ends in end_op.
LEMMA EndOpStep == ASSUME Inv, NEW p \in Proc, EndOp(p) PROVE [Disk!Next]_(Disk!vars)
<1>0. pc \in [Proc -> {"idle", "begin", "asleep", "op", "log_write", "commit"}] BY Types
<1>1. View' = View /\ Recovered' = Recovered BY SameDisk DEF EndOp, disk
<1>2. pc[p] = "op" BY DEF EndOp
<1>3. Active' = Active \ {p} /\ p \in Active BY <1>0, <1>2 DEF EndOp, Wakeup, Active
<1>4. Disk!End(p) BY <1>1, <1>3 DEF Disk!End, Active
<1> QED BY <1>4 DEF Disk!Next

\* Recycling a buffer cannot be seen.
LEMMA EvictStep == ASSUME Inv, NEW b \in Block, Evict(b) PROVE [Disk!Next]_(Disk!vars)
<1>e. /\ cache[b] # None /\ b \notin dirty /\ \A p \in Proc : held[p] # b
      /\ cache' = [cache EXCEPT ![b] = None]
      /\ UNCHANGED <<data, logged, head, up, pc>>
  BY DEF Evict, disk, locals
<1>1. Recovered' = Recovered /\ Active' = Active BY <1>e DEF Recovered, Active
<1>2. cache[b] = data[b] BY <1>e DEF Buffers, Inv
<1>3. \A c \in Block : Bread(c)' = Bread(c) BY <1>2, <1>e, Types DEF Bread
<1>4. View' = View BY <1>1, <1>3, <1>e DEF View
<1> QED BY <1>1, <1>4, Unseen

\* Nor can a copy to the log, which no header names yet.
LEMMA WriteLogStep == ASSUME Inv, WriteLog PROVE [Disk!Next]_(Disk!vars)
<1>w. at = "write_log" /\ UNCHANGED <<data, head, cache, up, pc>> BY DEF WriteLog, locals
<1>1. up /\ head = << >> BY <1>w DEF Control, Progress, Inv
<1>2. Recovered = data /\ Recovered' = data
  BY <1>1, <1>w, Types, RecoveredIs, NothingToInstall
<1>3. View' = View BY <1>1, <1>w DEF View, Bread
<1>4. Active' = Active BY <1>w DEF Active
<1> QED BY <1>2, <1>3, <1>4, Unseen

\* The header is the commit: what the log has becomes what recovery makes.
LEMMA WriteHeadStep == ASSUME Inv, WriteHead PROVE [Disk!Next]_(Disk!vars)
<1>w. at = "write_head" /\ head' = lh /\ UNCHANGED <<data, logged, cache, up, pc>>
  BY DEF WriteHead, locals
<1>1. up /\ committing BY <1>w DEF Control, Inv
<1>2. Active = {} /\ Active' = {} BY <1>1, <1>w DEF Control, Inv, Active
<1>3. View' = View BY <1>w, <1>1 DEF View, Bread
<1>4. Recovered' = View
  <2> DEFINE I == Installed(lh, logged, data)
  <2>0. Once(lh) /\ lh \in Seq(Block) BY Types DEF Inv, Buffers
  <2>1. /\ \A k \in 1..Len(lh) : I[lh[k]] = logged[k]
        /\ \A b \in Block : (\A k \in 1..Len(lh) : lh[k] # b) => I[b] = data[b]
    BY <2>0, InstalledAt
  <2>2. ASSUME NEW b \in Block PROVE I[b] = Bread(b)
    <3>1. CASE \E k \in 1..Len(lh) : lh[k] = b
      <4>1. PICK k \in 1..Len(lh) : lh[k] = b BY <3>1
      <4>2. Bread(b) = cache[b] BY <4>1, <1>1, <1>w, PinnedNow
      <4>3. logged[k] = cache[lh[k]] BY <1>w DEF Progress, Inv
      <4> QED BY <2>1, <4>1, <4>2, <4>3
    <3>2. CASE \A k \in 1..Len(lh) : lh[k] # b
      <4>1. I[b] = data[b] BY <3>2, <2>1
      <4>2. b \notin dirty BY <3>2 DEF Buffers, ToInstall, Inv
      <4>3. \A p \in Proc : held[p] = None BY <1>2 DEF Control, Active, Inv
      <4>4. cache[b] # None => cache[b] = data[b] BY <4>2, <4>3, Sizes DEF Buffers, Inv
      <4> QED BY <4>1, <4>4 DEF Bread
    <3> QED BY <3>1, <3>2
  <2>3. Recovered' = I BY <1>w, RecoveredIs
  <2>4. I = [b \in Block |-> I[b]] BY DEF Installed
  <2> HIDE DEF I
  <2>5. I = [b \in Block |-> Bread(b)] BY <2>2, <2>4
  <2> QED BY <2>3, <2>5, <1>1 DEF View
<1>5. Disk!Commit BY <1>2, <1>3, <1>4 DEF Disk!Commit, Active
<1> QED BY <1>5 DEF Disk!Next

\* A block that the header names is read from the log: its place does not
\* matter.
LEMMA InstallStep == ASSUME Inv, InstallTrans PROVE [Disk!Next]_(Disk!vars)
<1>i. at = "install_trans" /\ UNCHANGED <<logged, head, up, pc>> BY DEF InstallTrans, locals
<1>1. Active' = Active BY <1>i DEF Active
<1>2. CASE ~(tail < Len(lh))
  <2>1. UNCHANGED <<data, cache>> BY <1>2 DEF InstallTrans
  <2> QED BY <1>1, <1>i, <2>1, SameDisk, Unseen
<1>3. CASE tail < Len(lh)
  <2> DEFINE k == tail + 1  b == lh[k]
  <2>1. data' = [data EXCEPT ![b] = logged[k]] /\ cache' = [cache EXCEPT ![b] = logged[k]]
    BY <1>3 DEF InstallTrans
  <2>2. k \in 1..Len(lh) /\ k > tail /\ b \in Block /\ k \in Slot /\ logged[k] \in Val
    BY <1>3, Types, Sizes DEF Slot
  <2>3. lh = head BY <1>i DEF Progress, Inv
  <2>4. b \in Range(head) BY <2>2, <2>3, Types, RangeOf
  <2>5. Recovered' = Recovered
    <3>1. \A c \in Block : c \notin Range(head) => data'[c] = data[c] BY <2>1, <2>4, Types
    <3> QED BY <3>1, <1>i DEF Recovered
  <2>6. View' = View
    <3>1. CASE up
      <4>1. Bread(b) = cache[b] BY <1>i, <2>2, <3>1, PinnedNow
      <4>2. logged[k] = cache[b] BY <1>i, <2>2, <3>1 DEF Progress, Inv
      <4>3. \A c \in Block : Bread(c)' = Bread(c) BY <2>1, <2>2, <4>1, <4>2, Types DEF Bread
      <4> QED BY <4>3, <3>1, <1>i DEF View
    <3>2. CASE ~up BY <3>2, <2>5, <1>i DEF View
    <3> QED BY <3>1, <3>2
  <2> QED BY <1>1, <2>5, <2>6, Unseen
<1> QED BY <1>2, <1>3

\* The header is cleared when what it names is in its place.
LEMMA EraseStep == ASSUME Inv, Erase PROVE [Disk!Next]_(Disk!vars)
<1>e. at = "erase" /\ head' = lh /\ up' = TRUE /\ UNCHANGED <<data, logged, cache, pc>>
  BY DEF Erase, locals
<1>1. lh = << >> /\ \A k \in 1..Len(head) : data[head[k]] = logged[k] BY <1>e DEF Progress, Inv
<1>2. Recovered' = data BY <1>1, <1>e, Types, RecoveredIs, NothingToInstall
<1>3. Recovered = data
  <2> DEFINE I == Installed(head, logged, data)
  <2>1. Once(head) /\ head \in Seq(Block) BY Types DEF Inv, Buffers
  <2>2. \A b \in Block : I[b] = data[b]
    <3>1. /\ \A k \in 1..Len(head) : I[head[k]] = logged[k]
          /\ \A b \in Block : (\A k \in 1..Len(head) : head[k] # b) => I[b] = data[b]
      BY <2>1, InstalledAt
    <3> HIDE DEF I
    <3> QED BY <3>1, <1>1
  <2>3. I = [b \in Block |-> I[b]] BY DEF Installed
  <2> HIDE DEF I
  <2>4. I = data BY <2>2, <2>3, Types
  <2> QED BY <2>4, RecoveredIs DEF I
<1>4. \A b \in Block : Bread(b) = data[b]
  <2>1. \A p \in Proc : held[p] = None
    <3>1. up => committing BY <1>e DEF Control, Inv
    <3> QED BY <3>1 DEF Control, Active, Inv
  <2>2. \A b \in Block : b \notin dirty BY <1>1 DEF Buffers, ToInstall, Inv
  <2>3. \A b \in Block : cache[b] # None => cache[b] = data[b]
    BY <2>1, <2>2, Sizes DEF Buffers, Inv
  <2> QED BY <2>3 DEF Bread
<1>5. data = [b \in Block |-> Bread(b)] BY <1>4, Types
<1>6. View = data BY <1>3, <1>5 DEF View
<1>7. \A b \in Block : Bread(b)' = Bread(b) BY <1>e DEF Bread
<1>8. View' = data BY <1>5, <1>7, <1>e DEF View
<1>9. Active' = Active BY <1>e DEF Active
<1> QED BY <1>2, <1>3, <1>6, <1>8, <1>9, Unseen

\* A crash takes operations back to what recovery makes of the disk.
LEMMA CrashStep == ASSUME Inv, Crash PROVE [Disk!Next]_(Disk!vars)
<1>1. Active' = {} BY DEF Crash, Active
<1>2. Recovered' = Recovered BY DEF Crash, disk, Recovered
<1>3. View' = Recovered BY <1>2 DEF View, Crash
<1>4. Disk!Crash BY <1>1, <1>2, <1>3 DEF Disk!Crash, Active
<1> QED BY <1>4 DEF Disk!Next

\* The log's own list cannot be seen.
LEMMA RecordStep == ASSUME Inv, NEW p \in Proc, Record(p) PROVE [Disk!Next]_(Disk!vars)
<1>1. Active' = Active BY Types DEF Record, Active
<1>2. View' = View /\ Recovered' = Recovered BY SameDisk DEF Record, disk
<1> QED BY <1>1, <1>2, Unseen

\* Nor a process that has yet to be admitted.
LEMMA EnterStep == ASSUME Inv, NEW p \in Proc, Enter(p) PROVE [Disk!Next]_(Disk!vars)
<1>1. Active' = Active BY Types DEF Enter, Active
<1>2. View' = View /\ Recovered' = Recovered BY SameDisk DEF Enter, disk
<1> QED BY <1>1, <1>2, Unseen

\* Nor the end of a commit.
LEMMA CommitDoneStep == ASSUME Inv, NEW p \in Proc, CommitDone(p) PROVE [Disk!Next]_(Disk!vars)
<1>1. Active' = Active BY Woken DEF CommitDone
<1>2. View' = View /\ Recovered' = Recovered BY SameDisk DEF CommitDone, disk
<1> QED BY <1>1, <1>2, Unseen

\* Nor what recovery reads.
LEMMA ReadHeadStep == ASSUME Inv, ReadHead PROVE [Disk!Next]_(Disk!vars)
<1>1. Active' = Active BY DEF ReadHead, locals, Active
<1>2. View' = View /\ Recovered' = Recovered BY SameDisk DEF ReadHead, disk
<1> QED BY <1>1, <1>2, Unseen

\* The first states correspond.
LEMMA DiskInit == Init => Disk!Init
<1> SUFFICES ASSUME Init PROVE Disk!Init OBVIOUS
<1>1. {p \in Proc : pc[p] \in {"op", "log_write"}} = {} BY DEF Init
<1>2. data \in [Block -> Val] /\ head = << >> BY Sizes DEF Init
<1>3. Recovered = data BY <1>2, RecoveredIs, NothingToInstall
<1>4. View = data BY <1>3 DEF View, Init
<1> QED BY <1>1, <1>3, <1>4 DEF Disk!Init, Init

\* Every step is one of AtomicDisk or none.
LEMMA DiskNext == ASSUME Inv, [Next]_vars PROVE [Disk!Next]_(Disk!vars)
<1>1. CASE Next
  <2>1. CASE Commits
    BY <2>1, WriteLogStep, WriteHeadStep, InstallStep, EraseStep, ReadHeadStep DEF Commits
  <2>2. CASE Crash BY <2>2, CrashStep
  <2>3. CASE \E b \in Block : Evict(b) BY <2>3, EvictStep
  <2>4. ASSUME NEW p \in Proc,
               Enter(p) \/ Goes(p) \/ EndOp(p) \/ \E b \in Block, v \in Val : Modify(p, b, v)
        PROVE  [Disk!Next]_(Disk!vars)
    BY <2>4, EnterStep, BeginOpStep, RecordStep, EndOpStep, CommitDoneStep, ModifyStep DEF Goes
  <2> QED BY <1>1, <2>1, <2>2, <2>3, <2>4 DEF Next
<1>2. CASE UNCHANGED vars
  <2>1. Active' = Active BY <1>2 DEF vars, locals, Active
  <2>2. View' = View /\ Recovered' = Recovered BY <1>2, SameDisk DEF vars, disk
  <2> QED BY <2>1, <2>2, Unseen
<1> QED BY <1>1, <1>2

-----------------------------------------------------------------------------
(* Theorems *)

\* At every moment of an operation, a commit, a crash and a recovery, what is
\* in the log, in the header and in the buffer cache is what Inv says (log.c).
THEOREM LogInvariant == Fits => (Spec => []Inv)
<1> SUFFICES ASSUME Fits PROVE Spec => []Inv OBVIOUS
<1>1. Init => Inv BY InitInv
<1>2. Inv /\ [Next]_vars => Inv' BY NextInv
<1> QED BY <1>1, <1>2, PTL DEF Spec

\* log_write never finds the log full, though it tests before it absorbs, and no
\* operation ends in a commit: what begin_op admits fits, however often the
\* operations write their blocks, as long as none writes more than OpBlocks
\* different ones.
THEOREM LogNeverPanics == Fits => (Spec => []LogInv)
<1>1. Inv => LogInv BY DEF Inv
<1> QED BY <1>1, LogInvariant, PTL

\* The log, the buffer cache and the disk implement a disk on which the writes
\* of finished operations become stable at once, in spite of crashes.
THEOREM LogIsAtomic == Fits => (Spec => ImplementsAtomicDisk)
<1>1. Init => Disk!Init BY DiskInit
<1>2. Inv /\ [Next]_vars => [Disk!Next]_(Disk!vars) BY DiskNext
<1> QED BY <1>1, <1>2, LogInvariant, PTL DEF Spec, ImplementsAtomicDisk, Disk!Spec

=============================================================================
