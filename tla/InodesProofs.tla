---------------------------- MODULE InodesProofs ----------------------------
(***************************************************************************)
(* Proofs for every number of processes, inodes and files: InodesInv first *)
(* and then, over it, TreeSound and FreedOnlyWhenForgotten, and over these *)
(* LockedInOrder.                                                          *)
(*                                                                         *)
(* The inductive invariant adds to InodesInv where a process has which     *)
(* inode (CallOK), what it keeps locked (LocksHeld) and what the dead have *)
(* left (DeadHaveNone).  RefsExact is proved by comparing, for the process *)
(* that takes the step, what its variables refer to before and after.      *)
(*                                                                         *)
(* TreeInv is about links.  Whatever counts as one, a name, a directory or *)
(* a call under way, is a claim (Claims), and no inode has more claims than *)
(* its nlink; nobody who is to change a directory has an inode that is free *)
(* or that create has yet to fill (Odd).                                   *)
(*                                                                         *)
(* OrderInv is about who waits: what is locked is locked as the place of   *)
(* its holder says (Kept), what is put away with a directory locked has    *)
(* been found in it (Looked), and directories have ranks that go up from   *)
(* each to those it names (Ranked), so that a circle would go up for ever. *)
(***************************************************************************)
EXTENDS Inodes, FiniteSetTheorems, SequenceTheorems, TLAPS

\* The fields of the record of a process.
Fields(r) == DOMAIN r = {"pc", "op", "rest", "new", "back", "at", "ip", "dp", "put"}

\* A process that is in iput.
Putting(r) == r.pc \in {"put", "drop"}

\* Where a process is in its call, iput apart.
Place(r) == IF Putting(r) THEN r.back ELSE r.pc

\* The calls that create.
Makes == {"create", "mkdir", "mknod"}

\* The places at which dp holds an inode.
DpPlace == Makes \cup {"link to", "unlink", "fill", "entry", "found", "refused"}

\* The places at which ip holds an inode.
IpPlace == {"fill", "exists", "made", "open", "chdir", "link", "entry", "erased",
            "link to", "linked", "found", "bad"}

\* The places that belong to one call.
OpAt(op) ==
    {"user", "dead", "walk", op} \cup
    CASE op \in Makes     -> {"exists", "fill", "made"}
      [] op = "unlink"    -> {"entry", "erased", "refused"}
      [] op = "link to"   -> {"linked", "found", "bad"}
      [] OTHER            -> {}

\* Which variables of a call hold an inode where.
CallOK(r) ==
    /\ Fields(r)
    /\ \/ Place(r) \in {"user", "dead"}
       \/ r.op \in Op \cup {"link to"} /\ Place(r) \in OpAt(r.op)
    /\ r.put \in IF Putting(r) THEN Inum ELSE {None}
    /\ r.at \in IF Place(r) = "walk" THEN Inum ELSE {None}
    /\ r.dp \in IF Place(r) \in DpPlace THEN Inum ELSE {None}
    /\ r.ip \in IF \/ Place(r) \in IpPlace
                   \/ Place(r) = "walk" /\ r.op = "link to"
                  THEN Inum ELSE {None}

\* Directories contain inodes, under some names.
EntryOK ==
    /\ entry = [i \in Inum |-> entry[i]]
    /\ \A i \in Inum : \A n \in DOMAIN entry[i] : entry[i][n] \in Inum

\* The types of all variables but the records of processes.
Shaped ==
    /\ dinode \in [Inum -> Dinode]
    /\ EntryOK
    /\ ref \in [Inum -> Nat]
    /\ cached \in [Inum -> Dinode \cup {None}]
    /\ lock \in [Inum -> Proc \cup {None}]
    /\ file \in [File -> [ref : Nat, ip : Inum \cup {None}]]
    /\ ofile \in [Proc -> File \cup {None}]
    /\ cwd \in [Proc -> Inum \cup {None}]
    /\ proc = [p \in Proc |-> proc[p]]

\* Every process is at a place of its call, with the inodes it has there.
Calling == \A p \in Proc : CallOK(proc[p])

\* The inode that a process in place x has locked.
Keeps(r, i) ==
    \/ Place(r) \in {"fill", "entry", "found", "refused"} /\ r.dp = i
    \/ Place(r) \in {"made", "erased"} /\ r.ip = i

\* What a process keeps is locked by it and valid.
LocksHeld ==
    \A p \in Proc, i \in Inum : Keeps(proc[p], i) => lock[i] = p /\ cached[i] # None

\* The dead, and nobody else, have no current directory; the dead have no file.
DeadHaveNone ==
    \A p \in Proc : /\ cwd[p] = None <=> Place(proc[p]) = "dead"
                    /\ Place(proc[p]) = "dead" => ofile[p] = None

\* A valid copy is of an inode that is in use.
CachedUsed == \A i \in Inum : ref[i] > 0 /\ cached[i] # None => dinode[i].type # "none"

\* Types, with what each place of a call implies.
TypeInv == Shaped /\ Calling

\* The inductive invariant.
Inv == TypeInv /\ LocksHeld /\ DeadHaveNone /\ CachedUsed /\ CacheFresh /\ FilesExact /\ RefsExact

-----------------------------------------------------------------------------
(* Records of processes *)

\* s is r but for iput of i, from which it goes to b.
PutsAs(s, r, i, b) ==
    Fields(s) /\ s.pc = "put" /\ s.put = i /\ s.back = b /\ s.op = r.op

\* What iput is called with, field by field.
LEMMA PutsFields ==
    ASSUME NEW r, Fields(r), NEW i, NEW b
    PROVE  /\ PutsAs(Puts(r, i, b), r, i, b)
           /\ Puts(r, i, b).at = r.at /\ Puts(r, i, b).ip = r.ip /\ Puts(r, i, b).dp = r.dp
BY DEF Fields, Puts, PutsAs

\* A process that is in no iput puts away the inode of one of its variables.
LEMMA PutsIpFields ==
    ASSUME NEW r, Fields(r), NEW b, NEW s, s = [Puts(r, r.ip, b) EXCEPT !.ip = None]
    PROVE  PutsAs(s, r, r.ip, b) /\ s.at = r.at /\ s.ip = None /\ s.dp = r.dp
BY DEF Puts, Fields, PutsAs

\* The same for the directory.
LEMMA PutsDpFields ==
    ASSUME NEW r, Fields(r), NEW b, NEW s, s = [Puts(r, r.dp, b) EXCEPT !.dp = None]
    PROVE  PutsAs(s, r, r.dp, b) /\ s.at = r.at /\ s.ip = r.ip /\ s.dp = None
BY DEF Puts, Fields, PutsAs

\* The same for the inode that namex has reached.
LEMMA PutsAtFields ==
    ASSUME NEW r, Fields(r), NEW b, NEW s, s = [Puts(r, r.at, b) EXCEPT !.at = None]
    PROVE  PutsAs(s, r, r.at, b) /\ s.at = None /\ s.ip = r.ip /\ s.dp = r.dp
BY DEF Puts, Fields, PutsAs

\* 1 if a variable x refers to i.
N(x, i) == IF x = i THEN 1 ELSE 0

\* None is no inode.
LEMMA NFacts == (\A i \in Inum : N(None, i) = 0) /\ \A x, i : N(x, i) \in Int
BY InodesAssumption DEF N

\* How often the variables of a call refer to i.
Mine(r, i) == N(r.at, i) + N(r.ip, i) + N(r.dp, i) + N(r.put, i)

\* A number of references is a number.
LEMMA MineInt == \A r, i : Mine(r, i) \in Int
BY NFacts DEF Mine

\* Ways to change a call that leave it its inodes and give it n, if n is one.
Rearranged(r, s, n) ==
    \/ s.put = r.at /\ s.at = n /\ r.put = None /\ s.ip = r.ip /\ s.dp = r.dp
    \/ s.put = r.ip /\ s.ip = n /\ r.put = None /\ s.at = r.at /\ s.dp = r.dp
    \/ s.put = r.dp /\ s.dp = n /\ r.put = None /\ s.at = r.at /\ s.ip = r.ip
    \/ s.put = r.dp /\ s.dp = None /\ r.put = None /\ s.at = r.at /\ s.ip = n /\ r.ip = None
    \/ s.ip = r.at /\ s.at = n /\ r.ip = None /\ s.dp = r.dp /\ s.put = r.put
    \/ s.dp = r.at /\ s.at = n /\ r.dp = None /\ s.ip = r.ip /\ s.put = r.put
    \/ s.at = n /\ r.at = None /\ s.ip = r.ip /\ s.dp = r.dp /\ s.put = r.put
    \/ s.ip = n /\ r.ip = None /\ s.at = r.at /\ s.dp = r.dp /\ s.put = r.put
    \/ s.put = n /\ r.put = None /\ s.at = r.at /\ s.ip = r.ip /\ s.dp = r.dp

\* What Rearranged says about the number of references.
LEMMA Balance ==
    ASSUME NEW r, NEW s, NEW n, Rearranged(r, s, n), NEW i \in Inum
    PROVE  Mine(s, i) = Mine(r, i) + N(n, i)
<1> DEFINE a == N(r.at, i)  b == N(r.ip, i)  c == N(r.dp, i)  d == N(r.put, i)
           a1 == N(s.at, i)  b1 == N(s.ip, i)  c1 == N(s.dp, i)  d1 == N(s.put, i)
           z == N(None, i)  e == N(n, i)
<1>1. z = 0 /\ e \in Int /\ a \in Int /\ b \in Int /\ c \in Int /\ d \in Int
      /\ a1 \in Int /\ b1 \in Int /\ c1 \in Int /\ d1 \in Int
  BY NFacts
<1>2. Mine(r, i) = a + b + c + d /\ Mine(s, i) = a1 + b1 + c1 + d1 BY DEF Mine
<1>3. \/ d1 = a /\ a1 = e /\ d = z /\ b1 = b /\ c1 = c
      \/ d1 = b /\ b1 = e /\ d = z /\ a1 = a /\ c1 = c
      \/ d1 = c /\ c1 = e /\ d = z /\ a1 = a /\ b1 = b
      \/ d1 = c /\ c1 = z /\ d = z /\ a1 = a /\ b1 = e /\ b = z
      \/ b1 = a /\ a1 = e /\ b = z /\ c1 = c /\ d1 = d
      \/ c1 = a /\ a1 = e /\ c = z /\ b1 = b /\ d1 = d
      \/ a1 = e /\ a = z /\ b1 = b /\ c1 = c /\ d1 = d
      \/ b1 = e /\ b = z /\ a1 = a /\ c1 = c /\ d1 = d
      \/ d1 = e /\ d = z /\ a1 = a /\ b1 = b /\ c1 = c
  BY Zenon DEF Rearranged
<1> HIDE DEF a, b, c, d, a1, b1, c1, d1, z, e
<1>4. a1 + b1 + c1 + d1 = a + b + c + d + e BY <1>1, <1>3
<1> QED BY <1>2, <1>4 DEF e

\* Nothing is given.
LEMMA Moved ==
    ASSUME NEW r, NEW s, Rearranged(r, s, None)
    PROVE  \A i \in Inum : Mine(s, i) = Mine(r, i)
<1> SUFFICES ASSUME NEW i \in Inum PROVE Mine(s, i) = Mine(r, i)
  OBVIOUS
<1> DEFINE x == Mine(r, i)  y == Mine(s, i)  z == N(None, i)
<1>1. y = x + z /\ z = 0 /\ x \in Int BY Balance, NFacts, MineInt
<1> HIDE DEF x, y, z
<1>2. y = x BY <1>1
<1> QED BY <1>2 DEF x, y

\* namex goes on or ends with what it has reached.
LEMMA OnwardOK ==
    ASSUME NEW r, Fields(r), r.op \in Op \cup {"link to"}, r.at \in Inum,
           r.put = None, r.dp = None,
           r.ip \in IF r.op = "link to" THEN Inum ELSE {None}
    PROVE  /\ CallOK(Onward(r))
           /\ \A i \in Inum : Mine(Onward(r), i) = Mine(r, i)
           /\ \A i \in Inum : ~Keeps(Onward(r), i)
           /\ Place(Onward(r)) # "dead"
<1> DEFINE s == Onward(r)
<1>1. CASE r.rest # <<>>
  <2>1. s = [r EXCEPT !.pc = "walk"] BY <1>1 DEF Onward
  <2>2. Fields(s) /\ s.pc = "walk" /\ s.op = r.op /\ s.at = r.at /\ s.ip = r.ip /\ s.dp = r.dp /\ s.put = r.put
    BY <2>1 DEF Fields
  <2> HIDE DEF s
  <2>3. CallOK(s) /\ (\A i \in Inum : ~Keeps(s, i)) /\ Place(s) # "dead"
    BY <2>2 DEF CallOK, Place, Putting, OpAt, Op, Makes, DpPlace, IpPlace, Keeps
  <2>4. \A i \in Inum : Mine(s, i) = Mine(r, i) BY <2>2 DEF Mine
  <2> QED BY <2>3, <2>4 DEF s
<1>2. CASE r.rest = <<>> /\ Parent(r.op)
  <2>1. s = [Puts(r, r.at, Failed(r.op)) EXCEPT !.at = None] BY <1>2 DEF Onward
  <2>2. PutsAs(s, r, r.at, Failed(r.op)) /\ s.at = None /\ s.ip = r.ip /\ s.dp = r.dp
    BY <2>1, PutsAtFields
  <2> HIDE DEF s
  <2>3. CallOK(s) /\ (\A i \in Inum : ~Keeps(s, i)) /\ Place(s) # "dead"
    BY <2>2 DEF PutsAs, CallOK, Place, Putting, OpAt, Op, Makes, DpPlace, IpPlace, Failed, Keeps
  <2>4. \A i \in Inum : Mine(s, i) = Mine(r, i)
    <3>1. Rearranged(r, s, None) BY <2>2 DEF PutsAs, Rearranged
    <3> QED BY <3>1, Moved
  <2> QED BY <2>3, <2>4 DEF s
<1>3. CASE r.rest = <<>> /\ ~Parent(r.op)
  <2>1. s = [r EXCEPT !.pc = r.op, !.ip = r.at, !.at = None] BY <1>3 DEF Onward
  <2>2. Fields(s) /\ s.pc = r.op /\ s.op = r.op /\ s.at = None /\ s.ip = r.at /\ s.dp = r.dp /\ s.put = r.put
    BY <2>1 DEF Fields
  <2>3. r.op \in {"open", "chdir", "link"} /\ r.ip = None
    BY <1>3 DEF Op, Parent
  <2> HIDE DEF s
  <2>4. CallOK(s) /\ (\A i \in Inum : ~Keeps(s, i)) /\ Place(s) # "dead"
    BY <2>2, <2>3 DEF CallOK, Place, Putting, OpAt, Op, Makes, DpPlace, IpPlace, Keeps
  <2>5. \A i \in Inum : Mine(s, i) = Mine(r, i)
    <3>1. Rearranged(r, s, None) BY <2>2, <2>3 DEF Rearranged
    <3> QED BY <3>1, Moved
  <2> QED BY <2>4, <2>5 DEF s
<1> QED BY <1>1, <1>2, <1>3

-----------------------------------------------------------------------------
(* References *)

\* 1 if x is one of S.
In(x, S) == IF x \in S THEN 1 ELSE 0

\* One element counts 1 in the size of a set.
LEMMA OneLess ==
    ASSUME NEW S, IsFiniteSet(S), NEW x
    PROVE  /\ IsFiniteSet(S \ {x}) /\ Cardinality(S \ {x}) \in Nat
           /\ Cardinality(S) = Cardinality(S \ {x}) + In(x, S)
<1>1. IsFiniteSet(S \ {x}) BY FS_Subset
<1>2. Cardinality(S \ {x}) \in Nat /\ Cardinality(S) \in Nat BY <1>1, FS_CardinalityType
<1>3. CASE x \in S BY <1>3, <1>1, <1>2, FS_RemoveElement DEF In
<1>4. CASE x \notin S
  <2>1. S \ {x} = S BY <1>4
  <2>2. In(x, S) = 0 BY <1>4 DEF In
  <2>3. Cardinality(S \ {x}) = Cardinality(S) BY <2>1
  <2> QED BY <2>2, <2>3, <1>1, <1>2
<1> QED BY <1>3, <1>4

\* Five elements count as many as there are of them.
LEMMA FiveLess ==
    ASSUME NEW S, IsFiniteSet(S), NEW a, NEW b, NEW c, NEW d, NEW e,
           a \notin {b, c, d, e}, b \notin {c, d, e}, c \notin {d, e}, d # e
    PROVE  /\ Cardinality(S \ {a, b, c, d, e}) \in Nat
           /\ Cardinality(S) = Cardinality(S \ {a, b, c, d, e})
                 + (In(a, S) + In(b, S) + In(c, S) + In(d, S) + In(e, S))
<1> DEFINE S1 == S \ {a}  S2 == S1 \ {b}  S3 == S2 \ {c}  S4 == S3 \ {d}  S5 == S4 \ {e}
<1>1. In(b, S1) = In(b, S) /\ In(c, S2) = In(c, S) /\ In(d, S3) = In(d, S) /\ In(e, S4) = In(e, S)
  BY DEF In
<1>2. S5 = S \ {a, b, c, d, e} OBVIOUS
<1>3. In(a, S) \in Nat /\ In(b, S) \in Nat /\ In(c, S) \in Nat /\ In(d, S) \in Nat /\ In(e, S) \in Nat
  BY DEF In
<1> HIDE DEF S1, S2, S3, S4, S5
<1>4. IsFiniteSet(S1) /\ Cardinality(S) = Cardinality(S1) + In(a, S) BY OneLess DEF S1
<1>5. IsFiniteSet(S2) /\ Cardinality(S1) = Cardinality(S2) + In(b, S) BY <1>1, <1>4, OneLess DEF S2
<1>6. IsFiniteSet(S3) /\ Cardinality(S2) = Cardinality(S3) + In(c, S) BY <1>1, <1>5, OneLess DEF S3
<1>7. IsFiniteSet(S4) /\ Cardinality(S3) = Cardinality(S4) + In(d, S) BY <1>1, <1>6, OneLess DEF S4
<1>8. Cardinality(S5) \in Nat /\ Cardinality(S4) = Cardinality(S5) + In(e, S)
  BY <1>1, <1>7, OneLess DEF S5
<1> QED BY <1>2, <1>3, <1>4, <1>5, <1>6, <1>7, <1>8

\* Two sets that agree elsewhere differ in number by those five.
LEMMA FiveChange ==
    ASSUME NEW S, NEW T, IsFiniteSet(S), IsFiniteSet(T), NEW a, NEW b, NEW c, NEW d, NEW e,
           a \notin {b, c, d, e}, b \notin {c, d, e}, c \notin {d, e}, d # e,
           S \ {a, b, c, d, e} = T \ {a, b, c, d, e}
    PROVE  Cardinality(T) =
               (Cardinality(S) - (In(a, S) + In(b, S) + In(c, S) + In(d, S) + In(e, S)))
                   + (In(a, T) + In(b, T) + In(c, T) + In(d, T) + In(e, T))
<1> DEFINE x == In(a, S) + In(b, S) + In(c, S) + In(d, S) + In(e, S)
           y == In(a, T) + In(b, T) + In(c, T) + In(d, T) + In(e, T)
           u == Cardinality(S \ {a, b, c, d, e})
<1>1. x \in Int /\ y \in Int BY DEF In
<1>2. u \in Nat /\ Cardinality(S) = u + x BY FiveLess
<1>3. Cardinality(T) = u + y BY FiveLess
<1> HIDE DEF x, y, u
<1>4. Cardinality(T) = (Cardinality(S) - x) + y BY <1>1, <1>2, <1>3
<1> QED BY <1>4 DEF x, y

\* The names of the variables of a process that hold an inode.
Variable == {"cwd", "at", "ip", "dp", "put"}

\* All variables and files that may hold one.
Token == (Variable \X Proc) \cup ({"file"} \X File)

\* Two sets of references that agree outside of X.
LEMMA SameElsewhere ==
    ASSUME NEW S \in SUBSET Token, NEW T \in SUBSET Token, NEW X,
           \A k \in Variable, q \in Proc : <<k, q>> \notin X => (<<k, q>> \in S <=> <<k, q>> \in T),
           \A f \in File : <<"file", f>> \notin X => (<<"file", f>> \in S <=> <<"file", f>> \in T)
    PROVE  S \ X = T \ X
<1> SUFFICES ASSUME NEW t \in Token, t \notin X PROVE t \in S <=> t \in T
  OBVIOUS
<1>1. CASE t \in Variable \X Proc
  <2>1. PICK k \in Variable, q \in Proc : t = <<k, q>> BY <1>1
  <2> QED BY <2>1
<1>2. CASE t \in {"file"} \X File
  <2>1. PICK f \in File : t = <<"file", f>> BY <1>2
  <2> QED BY <2>1
<1> QED BY <1>1, <1>2 DEF Token

\* What a reference is.
LEMMA HeldIs ==
    ASSUME NEW i
    PROVE  /\ \A q \in Proc : /\ <<"cwd", q>> \in Held(i) <=> cwd[q] = i
                              /\ <<"at", q>> \in Held(i) <=> proc[q].at = i
                              /\ <<"ip", q>> \in Held(i) <=> proc[q].ip = i
                              /\ <<"dp", q>> \in Held(i) <=> proc[q].dp = i
                              /\ <<"put", q>> \in Held(i) <=> proc[q].put = i
           /\ \A f \in File : <<"file", f>> \in Held(i) <=> file[f].ip = i
           /\ Held(i) \in SUBSET Token
BY DEF Held, Token, Variable

\* There are finitely many.
LEMMA HeldFinite == ASSUME NEW i PROVE IsFiniteSet(Held(i))
<1>1. IsFiniteSet(Variable) /\ IsFiniteSet({"file"})
  <2> DEFINE A == {"cwd"}  B == A \cup {"at"}  C == B \cup {"ip"}  D == C \cup {"dp"}
  <2>1. IsFiniteSet(A) /\ IsFiniteSet({"file"}) BY FS_Singleton
  <2>2. IsFiniteSet(B) BY <2>1, FS_AddElement
  <2>3. IsFiniteSet(C) BY <2>2, FS_AddElement
  <2>4. IsFiniteSet(D) BY <2>3, FS_AddElement
  <2>5. IsFiniteSet(D \cup {"put"}) BY <2>4, FS_AddElement
  <2>6. D \cup {"put"} = Variable BY DEF Variable
  <2> QED BY <2>1, <2>5, <2>6
<1>2. IsFiniteSet(Token) BY <1>1, InodesAssumption, FS_Product, FS_Union DEF InodesAssumption, Token
<1> QED BY <1>2, HeldIs, FS_Subset

\* The same after a step.
LEMMA HeldIsNext ==
    ASSUME NEW i
    PROVE  /\ \A q \in Proc : /\ <<"cwd", q>> \in Held(i)' <=> cwd'[q] = i
                              /\ <<"at", q>> \in Held(i)' <=> proc'[q].at = i
                              /\ <<"ip", q>> \in Held(i)' <=> proc'[q].ip = i
                              /\ <<"dp", q>> \in Held(i)' <=> proc'[q].dp = i
                              /\ <<"put", q>> \in Held(i)' <=> proc'[q].put = i
           /\ \A f \in File : <<"file", f>> \in Held(i)' <=> file'[f].ip = i
           /\ Held(i)' \in SUBSET Token
BY DEF Held, Token, Variable

\* The references to an inode stay a finite set.
LEMMA HeldFiniteNext == ASSUME NEW i PROVE IsFiniteSet(Held(i)')
<1>1. IsFiniteSet(Variable) /\ IsFiniteSet({"file"})
  <2> DEFINE A == {"cwd"}  B == A \cup {"at"}  C == B \cup {"ip"}  D == C \cup {"dp"}
  <2>1. IsFiniteSet(A) /\ IsFiniteSet({"file"}) BY FS_Singleton
  <2>2. IsFiniteSet(B) BY <2>1, FS_AddElement
  <2>3. IsFiniteSet(C) BY <2>2, FS_AddElement
  <2>4. IsFiniteSet(D) BY <2>3, FS_AddElement
  <2>5. IsFiniteSet(D \cup {"put"}) BY <2>4, FS_AddElement
  <2>6. D \cup {"put"} = Variable BY DEF Variable
  <2> QED BY <2>1, <2>5, <2>6
<1>2. IsFiniteSet(Token) BY <1>1, InodesAssumption, FS_Product, FS_Union DEF InodesAssumption, Token
<1> QED BY <1>2, HeldIsNext, FS_Subset

\* What process p refers to.
Has(p, i) == Mine(proc[p], i) + N(cwd[p], i)

\* A step that changes what p refers to and nothing else.
LEMMA HeldStep ==
    ASSUME NEW p \in Proc, NEW i \in Inum,
           \A q \in Proc \ {p} : cwd'[q] = cwd[q] /\ proc'[q] = proc[q],
           \A f \in File : file'[f].ip = file[f].ip
    PROVE  Cardinality(Held(i)') = (Cardinality(Held(i)) - Has(p, i)) + Has(p, i)'
<1> DEFINE S == Held(i)  T == Held(i)'  X == {<<"at", p>>, <<"ip", p>>, <<"dp", p>>, <<"put", p>>, <<"cwd", p>>}
<1>1. S \ X = T \ X
  <2>1. S \in SUBSET Token /\ T \in SUBSET Token BY HeldIs, HeldIsNext
  <2>2. \A f \in File : <<"file", f>> \in S <=> <<"file", f>> \in T
    <3> TAKE f \in File
    <3>1. <<"file", f>> \in S <=> file[f].ip = i BY HeldIs
    <3>2. <<"file", f>> \in T <=> file'[f].ip = i BY HeldIsNext
    <3> QED BY <3>1, <3>2
  <2>3. \A k \in Variable, q \in Proc : <<k, q>> \notin X => (<<k, q>> \in S <=> <<k, q>> \in T)
    <3> SUFFICES ASSUME NEW q \in Proc \ {p} PROVE \A k \in Variable : <<k, q>> \in S <=> <<k, q>> \in T
      BY DEF Variable
    <3>1. proc'[q] = proc[q] /\ cwd'[q] = cwd[q] OBVIOUS
    <3>2. /\ <<"cwd", q>> \in S <=> cwd[q] = i
          /\ <<"at", q>> \in S <=> proc[q].at = i
          /\ <<"ip", q>> \in S <=> proc[q].ip = i
          /\ <<"dp", q>> \in S <=> proc[q].dp = i
          /\ <<"put", q>> \in S <=> proc[q].put = i BY HeldIs
    <3>3. /\ <<"cwd", q>> \in T <=> cwd'[q] = i
          /\ <<"at", q>> \in T <=> proc'[q].at = i
          /\ <<"ip", q>> \in T <=> proc'[q].ip = i
          /\ <<"dp", q>> \in T <=> proc'[q].dp = i
          /\ <<"put", q>> \in T <=> proc'[q].put = i BY HeldIsNext
    <3> HIDE DEF S, T
    <3> QED BY <3>1, <3>2, <3>3 DEF Variable
  <2> HIDE DEF S, T, X
  <2> QED BY <2>1, <2>2, <2>3, SameElsewhere
<1>2. In(<<"at", p>>, S) = N(proc[p].at, i) /\ In(<<"ip", p>>, S) = N(proc[p].ip, i)
      /\ In(<<"dp", p>>, S) = N(proc[p].dp, i) /\ In(<<"put", p>>, S) = N(proc[p].put, i)
      /\ In(<<"cwd", p>>, S) = N(cwd[p], i)
  BY HeldIs DEF In, N
<1>3. In(<<"at", p>>, T) = N(proc'[p].at, i) /\ In(<<"ip", p>>, T) = N(proc'[p].ip, i)
      /\ In(<<"dp", p>>, T) = N(proc'[p].dp, i) /\ In(<<"put", p>>, T) = N(proc'[p].put, i)
      /\ In(<<"cwd", p>>, T) = N(cwd'[p], i)
  BY HeldIsNext DEF In, N
<1>4. IsFiniteSet(S) /\ IsFiniteSet(T) BY HeldFinite, HeldFiniteNext
<1> HIDE DEF S, T
<1>5. Cardinality(T) =
          (Cardinality(S) - (In(<<"at", p>>, S) + In(<<"ip", p>>, S) + In(<<"dp", p>>, S)
                                + In(<<"put", p>>, S) + In(<<"cwd", p>>, S)))
              + (In(<<"at", p>>, T) + In(<<"ip", p>>, T) + In(<<"dp", p>>, T)
                                + In(<<"put", p>>, T) + In(<<"cwd", p>>, T))
  BY <1>1, <1>4, FiveChange, SMTT(30)
<1> QED BY <1>2, <1>3, <1>5 DEF S, T, Has, Mine

\* A step that changes what the calls of p and file f refer to.
LEMMA HeldFileStep ==
    ASSUME NEW p \in Proc, NEW f \in File, NEW i \in Inum,
           \A q \in Proc : cwd'[q] = cwd[q],
           \A q \in Proc \ {p} : proc'[q] = proc[q],
           \A g \in File \ {f} : file'[g].ip = file[g].ip
    PROVE  Cardinality(Held(i)') =
               (Cardinality(Held(i)) - (Mine(proc[p], i) + N(file[f].ip, i)))
                   + (Mine(proc'[p], i) + N(file'[f].ip, i))
<1> DEFINE S == Held(i)  T == Held(i)'  X == {<<"at", p>>, <<"ip", p>>, <<"dp", p>>, <<"put", p>>, <<"file", f>>}
<1>1. S \ X = T \ X
  <2>1. S \in SUBSET Token /\ T \in SUBSET Token BY HeldIs, HeldIsNext
  <2>2. \A g \in File : <<"file", g>> \notin X => (<<"file", g>> \in S <=> <<"file", g>> \in T)
    <3> SUFFICES ASSUME NEW g \in File \ {f} PROVE <<"file", g>> \in S <=> <<"file", g>> \in T
      OBVIOUS
    <3>1. <<"file", g>> \in S <=> file[g].ip = i BY HeldIs
    <3>2. <<"file", g>> \in T <=> file'[g].ip = i BY HeldIsNext
    <3> QED BY <3>1, <3>2
  <2>3. \A k \in Variable, q \in Proc : <<k, q>> \notin X => (<<k, q>> \in S <=> <<k, q>> \in T)
    <3> SUFFICES ASSUME NEW q \in Proc
                 PROVE  \A k \in Variable : <<k, q>> \notin X => (<<k, q>> \in S <=> <<k, q>> \in T)
      OBVIOUS
    <3>1. cwd'[q] = cwd[q] /\ (q # p => proc'[q] = proc[q]) OBVIOUS
    <3>2. /\ <<"cwd", q>> \in S <=> cwd[q] = i
          /\ <<"at", q>> \in S <=> proc[q].at = i
          /\ <<"ip", q>> \in S <=> proc[q].ip = i
          /\ <<"dp", q>> \in S <=> proc[q].dp = i
          /\ <<"put", q>> \in S <=> proc[q].put = i BY HeldIs
    <3>3. /\ <<"cwd", q>> \in T <=> cwd'[q] = i
          /\ <<"at", q>> \in T <=> proc'[q].at = i
          /\ <<"ip", q>> \in T <=> proc'[q].ip = i
          /\ <<"dp", q>> \in T <=> proc'[q].dp = i
          /\ <<"put", q>> \in T <=> proc'[q].put = i BY HeldIsNext
    <3> HIDE DEF S, T
    <3> QED BY <3>1, <3>2, <3>3 DEF Variable
  <2> HIDE DEF S, T, X
  <2> QED BY <2>1, <2>2, <2>3, SameElsewhere
<1>2. In(<<"at", p>>, S) = N(proc[p].at, i) /\ In(<<"ip", p>>, S) = N(proc[p].ip, i)
      /\ In(<<"dp", p>>, S) = N(proc[p].dp, i) /\ In(<<"put", p>>, S) = N(proc[p].put, i)
      /\ In(<<"file", f>>, S) = N(file[f].ip, i)
  BY HeldIs DEF In, N
<1>3. In(<<"at", p>>, T) = N(proc'[p].at, i) /\ In(<<"ip", p>>, T) = N(proc'[p].ip, i)
      /\ In(<<"dp", p>>, T) = N(proc'[p].dp, i) /\ In(<<"put", p>>, T) = N(proc'[p].put, i)
      /\ In(<<"file", f>>, T) = N(file'[f].ip, i)
  BY HeldIsNext, ZenonT(60) DEF In, N
<1>4. IsFiniteSet(S) /\ IsFiniteSet(T) BY HeldFinite, HeldFiniteNext
<1> HIDE DEF S, T
<1>5. Cardinality(T) =
          (Cardinality(S) - (In(<<"at", p>>, S) + In(<<"ip", p>>, S) + In(<<"dp", p>>, S)
                                + In(<<"put", p>>, S) + In(<<"file", f>>, S)))
              + (In(<<"at", p>>, T) + In(<<"ip", p>>, T) + In(<<"dp", p>>, T)
                                + In(<<"put", p>>, T) + In(<<"file", f>>, T))
  BY <1>1, <1>4, FiveChange
<1> QED BY <1>2, <1>3, <1>5 DEF S, T, Mine

\* Whatever a process or an open file refers to has a reference.
LEMMA RefPositive ==
    ASSUME Shaped, RefsExact
    PROVE  /\ \A p \in Proc, i \in Inum :
                 i \in {cwd[p], proc[p].at, proc[p].ip, proc[p].dp, proc[p].put} => ref[i] > 0
           /\ \A f \in File, i \in Inum : file[f].ip = i => ref[i] > 0
<1>1. \A i \in Inum : Held(i) # {} => ref[i] > 0
  <2> SUFFICES ASSUME NEW i \in Inum, Held(i) # {} PROVE ref[i] > 0
    OBVIOUS
  <2>1. IsFiniteSet(Held(i)) BY HeldFinite
  <2>2. Cardinality(Held(i)) \in Nat /\ Cardinality(Held(i)) # 0
    BY <2>1, FS_CardinalityType, FS_EmptySet
  <2>3. ref[i] = Cardinality(Held(i)) BY DEF RefsExact
  <2> QED BY <2>2, <2>3
<1>2. \A p \in Proc, i \in Inum :
          i \in {cwd[p], proc[p].at, proc[p].ip, proc[p].dp, proc[p].put} => Held(i) # {}
  BY HeldIs
<1>3. \A f \in File, i \in Inum : file[f].ip = i => Held(i) # {} BY HeldIs
<1> QED BY <1>1, <1>2, <1>3

-----------------------------------------------------------------------------
(* The cache *)

\* A cache c and a disk d fit together where inodes are referred to.
Good(c, d, n) ==
    /\ c \in [Inum -> Dinode \cup {None}] /\ d \in [Inum -> Dinode]
    /\ \A i \in Inum : n[i] > 0 /\ c[i] # None => c[i] = d[i] /\ d[i].type # "none"

\* What is locked, in use and valid in the cache is valid in c as well.
Keeping(c) ==
    \A i \in Inum : lock[i] # None /\ ref[i] > 0 /\ cached[i] # None => c[i] # None

\* No inode is None.
LEMMA NoneIsNot == /\ None \notin Inum /\ None \notin Dinode
                   /\ None \notin File /\ None \notin Proc
BY InodesAssumption DEF InodesAssumption

\* What the invariant says of the inode cache.
LEMMA InvGood == Inv => Good(cached, dinode, ref)
BY DEF Inv, TypeInv, Shaped, CachedUsed, CacheFresh, Good

\* ilock reads what is on disk.
LEMMA GoodLook ==
    ASSUME Good(cached, dinode, ref), NEW i \in Inum, Ilock(i), ref[i] > 0
    PROVE  /\ Good(Look(i), dinode, ref) /\ Keeping(Look(i))
           /\ Look(i)[i] = Node(i) /\ Node(i) = dinode[i] /\ Node(i) # None
           /\ Node(i).type # "none" /\ Node(i) \in Dinode
<1>1. Node(i) = dinode[i] BY DEF Good, Node
<1>2. Node(i) \in Dinode /\ Node(i) # None BY <1>1, NoneIsNot DEF Good
<1>3. Node(i).type # "none" BY DEF Ilock
<1>4. Look(i) = [cached EXCEPT ![i] = Node(i)] BY DEF Look
<1> QED BY <1>1, <1>2, <1>3, <1>4 DEF Good, Keeping

\* iupdate writes through.
LEMMA GoodUpdate ==
    ASSUME NEW c, NEW d, Good(c, d, ref), NEW i \in Inum, NEW n \in Dinode, n.type # "none"
    PROVE  Good([c EXCEPT ![i] = n], [d EXCEPT ![i] = n], ref)
BY DEF Good

\* Only the valid flag of an inode that nobody referred to is lost in iget.
LEMMA GoodGot ==
    ASSUME NEW c, NEW d, Good(c, d, ref), ref \in [Inum -> Nat], NEW n \in Inum
    PROVE  /\ Good(Got(c, n), d, More(n))
           /\ \A i \in Inum : c[i] # None /\ ref[i] > 0 => Got(c, n)[i] = c[i]
<1>1. CASE ref[n] = 0
  <2>1. Got(c, n) = [c EXCEPT ![n] = None] BY <1>1 DEF Got
  <2>2. \A i \in Inum : More(n)[i] > 0 => i = n \/ ref[i] > 0 BY DEF More
  <2> QED BY <1>1, <2>1, <2>2 DEF Good
<1>2. CASE ref[n] # 0
  <2>1. Got(c, n) = c BY <1>2 DEF Got
  <2>2. \A i \in Inum : More(n)[i] > 0 => ref[i] > 0 BY <1>2 DEF More
  <2> QED BY <2>1, <2>2 DEF Good
<1> QED BY <1>1, <1>2

-----------------------------------------------------------------------------
(* Steps in a call *)

\* A step of p leaves the locks of others, and what they have read.
Tame(p) ==
    /\ \A i \in Inum : lock[i] \notin {None, p} => lock'[i] = lock[i]
    /\ Keeping(cached')

\* p has locked what it should.
Locking(p, s) == \A i \in Inum : Keeps(s, i) => lock'[i] = p /\ cached'[i] # None

\* The types of what a step of a call may change.
Typed ==
    /\ EntryOK
    /\ lock \in [Inum -> Proc \cup {None}]
    /\ ref = [i \in Inum |-> ref[i]]
    /\ cwd \in [Proc -> Inum \cup {None}]
    /\ Good(cached, dinode, ref)

\* A step of p, in which its call becomes s, preserves the invariant if what it
\* makes of references and of open files is counted.
LEMMA Preserved ==
    ASSUME Inv, NEW p \in Proc, NEW s, Becomes(p, s), CallOK(s), Typed', Tame(p), Locking(p, s),
           \A q \in Proc \ {p} : cwd'[q] = cwd[q] /\ ofile'[q] = ofile[q],
           file' \in [File -> [ref : Nat, ip : Inum \cup {None}]],
           ofile' \in [Proc -> File \cup {None}], FilesExact',
           cwd'[p] = None <=> Place(s) = "dead", Place(s) = "dead" => ofile'[p] = None,
           \A i \in Inum : ref'[i] = Cardinality(Held(i)')
    PROVE  Inv'
<1>1. Shaped /\ Calling BY DEF Inv, TypeInv
<1>2. proc' = [q \in Proc |-> proc'[q]] /\ proc'[p] = s /\ \A q \in Proc \ {p} : proc'[q] = proc[q]
  BY <1>1 DEF Becomes, Shaped
<1>3. Calling' BY <1>1, <1>2 DEF Calling
<1>4. LocksHeld'
  <2> SUFFICES ASSUME NEW q \in Proc, NEW i \in Inum, Keeps(proc'[q], i)
               PROVE  lock'[i] = q /\ cached'[i] # None
    BY DEF LocksHeld
  <2>1. CASE q = p BY <2>1, <1>2 DEF Locking
  <2>2. CASE q # p
    <3>1. Keeps(proc[q], i) BY <2>2, <1>2
    <3>2. lock[i] = q /\ cached[i] # None BY <3>1 DEF Inv, LocksHeld
    <3>3. ref[i] > 0
      <4>1. i \in {proc[q].dp, proc[q].ip} BY <3>1 DEF Keeps
      <4> QED BY <4>1, <1>1, RefPositive DEF Inv
    <3> QED BY <3>2, <3>3, <2>2, NoneIsNot DEF Tame, Keeping
  <2> QED BY <2>1, <2>2
<1>5. DeadHaveNone'
  <2>1. \A q \in Proc \ {p} : (cwd'[q] = None <=> Place(proc'[q]) = "dead")
            /\ (Place(proc'[q]) = "dead" => ofile'[q] = None)
    BY <1>2 DEF Inv, DeadHaveNone
  <2>2. (cwd'[p] = None <=> Place(proc'[p]) = "dead") /\ (Place(proc'[p]) = "dead" => ofile'[p] = None)
    BY <1>2
  <2> QED BY <2>1, <2>2 DEF DeadHaveNone
<1>6. RefsExact' BY DEF RefsExact
<1>7. ref' \in [Inum -> Nat]
  <2>1. \A i \in Inum : ref'[i] \in Nat BY HeldFiniteNext, FS_CardinalityType
  <2> QED BY <2>1 DEF Typed
<1>8. Shaped' BY <1>1, <1>2, <1>7 DEF Shaped, Typed, Good
<1>9. CacheFresh' /\ CachedUsed' BY DEF Typed, Good, CacheFresh, CachedUsed
<1> QED BY <1>3, <1>4, <1>5, <1>6, <1>8, <1>9 DEF Inv, TypeInv

\* The references after a step that changes what p refers to and nothing else.
LEMMA RefsCounted ==
    ASSUME Inv, NEW p \in Proc, NEW s, Becomes(p, s), \A q \in Proc \ {p} : cwd'[q] = cwd[q],
           \A f \in File : file'[f].ip = file[f].ip,
           \A i \in Inum : ref'[i] = (ref[i] - Has(p, i)) + (Mine(s, i) + N(cwd'[p], i))
    PROVE  \A i \in Inum : ref'[i] = Cardinality(Held(i)')
<1> SUFFICES ASSUME NEW i \in Inum PROVE ref'[i] = Cardinality(Held(i)')
  OBVIOUS
<1>1. proc'[p] = s /\ \A q \in Proc \ {p} : proc'[q] = proc[q]
  BY DEF Becomes, Inv, TypeInv, Shaped
<1>2. Cardinality(Held(i)') = (Cardinality(Held(i)) - Has(p, i)) + Has(p, i)' BY <1>1, HeldStep
<1>3. Has(p, i)' = Mine(s, i) + N(cwd'[p], i) BY <1>1 DEF Has, Mine
<1>4. ref[i] = Cardinality(Held(i)) BY DEF Inv, RefsExact
<1> QED BY <1>2, <1>3, <1>4

\* A step of p that leaves the open files.
LEMMA CallStep ==
    ASSUME Inv, NEW p \in Proc, NEW s, Becomes(p, s), CallOK(s), Typed', Tame(p), Locking(p, s),
           UNCHANGED <<file, ofile>>, \A q \in Proc \ {p} : cwd'[q] = cwd[q],
           cwd'[p] = None <=> Place(s) = "dead", Place(s) = "dead" => ofile[p] = None,
           \A i \in Inum : ref'[i] = (ref[i] - Has(p, i)) + (Mine(s, i) + N(cwd'[p], i))
    PROVE  Inv'
<1>1. FilesExact' BY DEF Inv, FilesExact
<1>2. \A i \in Inum : ref'[i] = Cardinality(Held(i)') BY RefsCounted
<1>3. file' \in [File -> [ref : Nat, ip : Inum \cup {None}]] /\ ofile' \in [Proc -> File \cup {None}]
  BY DEF Inv, TypeInv, Shaped
<1> QED BY <1>1, <1>2, <1>3, Preserved

\* The same for a step with the files and directories of p as they were, from
\* record r, where p has n more than before.
LEMMA GainStep ==
    ASSUME Inv, NEW p \in Proc, NEW s, NEW n, Becomes(p, s), CallOK(s), Tame(p), Locking(p, s),
           UNCHANGED files, EntryOK', lock' \in [Inum -> Proc \cup {None}],
           ref' = [i \in Inum |-> ref'[i]], Good(cached', dinode', ref'),
           Place(proc[p]) # "dead", Place(s) # "dead",
           \A i \in Inum : Mine(s, i) = Mine(proc[p], i) + N(n, i) /\ ref'[i] = ref[i] + N(n, i)
    PROVE  Inv'
<1>1. Shaped BY DEF Inv, TypeInv
<1>2. Typed' BY <1>1 DEF Typed, Shaped, files
<1>3. cwd'[p] = cwd[p] /\ cwd[p] # None BY DEF Inv, DeadHaveNone, files
<1>4. \A i \in Inum : ref'[i] = (ref[i] - Has(p, i)) + (Mine(s, i) + N(cwd'[p], i))
  <2> SUFFICES ASSUME NEW i \in Inum
               PROVE  ref'[i] = (ref[i] - Has(p, i)) + (Mine(s, i) + N(cwd'[p], i))
    OBVIOUS
  <2> DEFINE a == ref[i]  b == Mine(proc[p], i)  c == N(cwd[p], i)  e == N(n, i)  m == Mine(s, i)
             a1 == ref'[i]
  <2>1. a \in Int /\ b \in Int /\ c \in Int /\ e \in Int BY <1>1, NFacts, MineInt DEF Shaped
  <2>2. Has(p, i) = b + c /\ m = b + e /\ a1 = a + e BY DEF Has
  <2> HIDE DEF a, b, c, e, m, a1
  <2>3. a1 = (a - (b + c)) + (m + c) BY <2>1, <2>2
  <2> QED BY <2>3, <2>2, <1>3 DEF a, c, m, a1
<1> QED BY <1>2, <1>3, <1>4, CallStep DEF files

\* What the variables of a call hold where, outside of iput.
LEMMA Where ==
    ASSUME NEW r, CallOK(r), ~Putting(r)
    PROVE  /\ Fields(r) /\ r.put = None
           /\ r.pc = "walk" <=> r.at # None
           /\ r.pc = "walk" => r.op \in Op \cup {"link to"} /\ r.at \in Inum /\ r.dp = None
                                /\ r.ip \in IF r.op = "link to" THEN Inum ELSE {None}
           /\ r.pc \in Makes => r.op = r.pc /\ r.dp \in Inum /\ r.ip = None
           /\ r.pc \in {"exists", "made"} => r.op \in Makes /\ r.ip \in Inum /\ r.dp = None
           /\ r.pc = "fill" => r.op \in Makes /\ r.ip \in Inum /\ r.dp \in Inum
           /\ r.pc \in {"open", "chdir", "link"} => r.op = r.pc /\ r.ip \in Inum /\ r.dp = None
           /\ r.pc \in {"link to", "found"} => r.op = "link to" /\ r.ip \in Inum /\ r.dp \in Inum
           /\ r.pc \in {"linked", "bad"} => r.op = "link to" /\ r.ip \in Inum /\ r.dp = None
           /\ r.pc = "unlink" => r.op = "unlink" /\ r.dp \in Inum /\ r.ip = None
           /\ r.pc = "entry" => r.op = "unlink" /\ r.dp \in Inum /\ r.ip \in Inum
           /\ r.pc = "erased" => r.op = "unlink" /\ r.dp = None /\ r.ip \in Inum
           /\ r.pc = "refused" => r.op = "unlink" /\ r.dp \in Inum /\ r.ip = None
           /\ r.pc \in {"user", "dead"} => r.dp = None /\ r.ip = None
<1>1. Place(r) = r.pc /\ Fields(r) /\ r.put = None BY DEF CallOK, Place
<1>2. r.at \in (IF r.pc = "walk" THEN Inum ELSE {None}) BY <1>1 DEF CallOK
<1>3. r.dp \in (IF r.pc \in DpPlace THEN Inum ELSE {None}) BY <1>1 DEF CallOK
<1>4. r.ip \in (IF r.pc \in IpPlace \/ (r.pc = "walk" /\ r.op = "link to") THEN Inum ELSE {None})
  BY <1>1 DEF CallOK
<1>5. r.pc \in {"user", "dead"} \/ (r.op \in Op \cup {"link to"} /\ r.pc \in OpAt(r.op))
  BY <1>1 DEF CallOK
<1>6. \/ r.pc \in {"user", "dead"}
      \/ r.pc = "walk" /\ r.op \in Op \cup {"link to"}
      \/ r.op \in Makes /\ r.pc \in {r.op, "exists", "fill", "made"}
      \/ r.op = "unlink" /\ r.pc \in {"unlink", "entry", "erased", "refused"}
      \/ r.op = "link to" /\ r.pc \in {"link to", "linked", "found", "bad"}
      \/ r.op \in {"open", "chdir", "link"} /\ r.pc = r.op
  BY <1>5 DEF OpAt, Op, Makes
<1>7. r.pc = "walk" <=> r.at # None BY <1>2, NoneIsNot
<1>8. CASE r.pc \in {"user", "dead", "walk"}
  BY <1>1, <1>2, <1>3, <1>4, <1>6, <1>7, <1>8 DEF DpPlace, IpPlace, Makes
<1>9. CASE r.op \in Makes /\ r.pc \in {r.op, "exists", "fill", "made"}
  BY <1>1, <1>3, <1>4, <1>7, <1>9 DEF DpPlace, IpPlace, Makes
<1>10. CASE r.op = "unlink" /\ r.pc \in {"unlink", "entry", "erased", "refused"}
  BY <1>1, <1>3, <1>4, <1>7, <1>10 DEF DpPlace, IpPlace, Makes
<1>11. CASE r.op = "link to" /\ r.pc \in {"link to", "linked", "found", "bad"}
  BY <1>1, <1>3, <1>4, <1>7, <1>11 DEF DpPlace, IpPlace, Makes
<1>12. CASE r.op \in {"open", "chdir", "link"} /\ r.pc = r.op
  BY <1>1, <1>3, <1>4, <1>7, <1>12 DEF DpPlace, IpPlace, Makes
<1> QED BY <1>6, <1>8, <1>9, <1>10, <1>11, <1>12

\* iput of the inode of a call.
LEMMA PutsIpCall ==
    ASSUME NEW p, NEW b, PutsIp(p, b), CallOK(proc[p]), ~Putting(proc[p]), proc[p].pc # "walk",
           proc[p].ip \in Inum,
           \/ b = "user" /\ proc[p].dp = None
           \/ b = "refused" /\ proc[p].op = "unlink" /\ proc[p].dp \in Inum
    PROVE  \E s : /\ Becomes(p, s) /\ CallOK(s) /\ Rearranged(proc[p], s, None) /\ Place(s) = b
                  /\ s.dp = proc[p].dp
<1> DEFINE r == proc[p]  s == [Puts(r, r.ip, b) EXCEPT !.ip = None]
<1>1. r.at = None /\ r.put = None /\ Fields(r) BY Where
<1>2. PutsAs(s, r, r.ip, b) /\ s.at = r.at /\ s.ip = None /\ s.dp = r.dp
  BY <1>1 DEF Puts, Fields, PutsAs
<1>3. Becomes(p, s) BY DEF PutsIp
<1> HIDE DEF s
<1>4. CallOK(s) /\ Place(s) = b
  BY <1>1, <1>2 DEF PutsAs, CallOK, Place, Putting, OpAt, Op, Makes, DpPlace, IpPlace
<1>5. Rearranged(r, s, None) BY <1>1, <1>2 DEF PutsAs, Rearranged
<1> QED BY <1>2, <1>3, <1>4, <1>5

\* iput of the directory of a call.
LEMMA PutsDpCall ==
    ASSUME NEW p, NEW b, PutsDp(p, b), CallOK(proc[p]), ~Putting(proc[p]), proc[p].pc # "walk",
           proc[p].dp \in Inum,
           \/ b = "user" /\ proc[p].ip = None
           \/ b = "made" /\ proc[p].op \in Makes /\ proc[p].ip \in Inum
           \/ b = "erased" /\ proc[p].op = "unlink" /\ proc[p].ip \in Inum
           \/ b \in {"linked", "bad"} /\ proc[p].op = "link to" /\ proc[p].ip \in Inum
    PROVE  \E s : /\ Becomes(p, s) /\ CallOK(s) /\ Rearranged(proc[p], s, None) /\ Place(s) = b
                  /\ s.ip = proc[p].ip
<1> DEFINE r == proc[p]  s == [Puts(r, r.dp, b) EXCEPT !.dp = None]
<1>1. r.at = None /\ r.put = None /\ Fields(r) BY Where
<1>2. PutsAs(s, r, r.dp, b) /\ s.at = r.at /\ s.ip = r.ip /\ s.dp = None BY <1>1, PutsDpFields, ZenonT(60)
<1>3. Becomes(p, s) BY DEF PutsDp
<1> HIDE DEF s
<1>4. CallOK(s) /\ Place(s) = b
  BY <1>1, <1>2 DEF PutsAs, CallOK, Place, Putting, OpAt, Op, Makes, DpPlace, IpPlace
<1>5. Rearranged(r, s, None) BY <1>1, <1>2 DEF PutsAs, Rearranged
<1> QED BY <1>2, <1>3, <1>4, <1>5

\* What every step starts from.
LEMMA Start ==
    ASSUME Inv, NEW p \in Proc
    PROVE  /\ CallOK(proc[p]) /\ Shaped /\ EntryOK /\ Good(cached, dinode, ref)
           /\ ref \in [Inum -> Nat] /\ lock \in [Inum -> Proc \cup {None}]
           /\ \A i \in Inum :
                 i \in {cwd[p], proc[p].at, proc[p].ip, proc[p].dp, proc[p].put} => ref[i] > 0
           /\ \A i \in Inum : Keeps(proc[p], i) => lock[i] = p /\ cached[i] # None
BY InvGood, RefPositive DEF Inv, TypeInv, Shaped, Calling, LocksHeld

\* p only passes its references around, having read inode i.
LEMMA LookStep ==
    ASSUME Inv, NEW p \in Proc, NEW s, Becomes(p, s), CallOK(s), Rearranged(proc[p], s, None),
           NEW i \in Inum, Ilock(i), ref[i] > 0, cached' = Look(i),
           UNCHANGED <<dinode, ref, lock, files>>, EntryOK',
           \A j \in Inum : Keeps(s, j) => Keeps(proc[p], j),
           Place(proc[p]) # "dead", Place(s) # "dead"
    PROVE  Inv'
<1>1. Good(cached', dinode', ref') /\ Keeping(cached') BY Start, GoodLook
<1>2. Tame(p) BY <1>1 DEF Tame
<1>6. Locking(p, s)
  <2> SUFFICES ASSUME NEW j \in Inum, Keeps(proc[p], j) PROVE lock'[j] = p /\ cached'[j] # None
    BY DEF Locking
  <2>1. lock[j] = p /\ cached[j] # None /\ ref[j] > 0 BY Start DEF Keeps
  <2> QED BY <2>1, <1>1, NoneIsNot DEF Keeping
<1>3. \A j \in Inum : Mine(s, j) = Mine(proc[p], j) + N(None, j) BY Balance
<1>4. \A j \in Inum : ref'[j] = ref[j] + N(None, j) BY NFacts, Start
<1>5. ref' = [j \in Inum |-> ref'[j]] /\ lock' \in [Inum -> Proc \cup {None}] BY Start
<1> QED BY <1>1, <1>2, <1>3, <1>4, <1>5, <1>6, GainStep

\* namex reaches the parent: the place changes, the inode moves to another variable.
LEMMA WalkStopsOK == ASSUME Inv, NEW p \in Proc, WalkStops(p) PROVE Inv'
<1> DEFINE r == proc[p]  s == [r EXCEPT !.pc = r.op, !.dp = r.at, !.at = None]
<1>1. CallOK(r) /\ r.pc = "walk" /\ ~Putting(r) BY Start DEF WalkStops, At, Putting
<1>2. Fields(r) /\ r.op \in Op \cup {"link to"} /\ r.at \in Inum /\ r.put = None /\ r.dp = None
      /\ r.ip \in (IF r.op = "link to" THEN Inum ELSE {None})
  BY <1>1, Where
<1>3. r.op \in {"create", "mkdir", "mknod", "unlink", "link to"} BY DEF WalkStops, AtLast, Parent
<1>4. Fields(s) /\ s.pc = r.op /\ s.op = r.op /\ s.dp = r.at /\ s.at = None /\ s.ip = r.ip
      /\ s.put = r.put
  BY <1>2 DEF Fields
<1>5. Becomes(p, s) /\ Ilock(r.at) /\ cached' = Look(r.at) /\ UNCHANGED <<disk, ref, lock, files>>
  BY DEF WalkStops
<1> HIDE DEF s
<1>6. CallOK(s) /\ (\A j \in Inum : ~Keeps(s, j)) /\ Place(s) # "dead" /\ Place(r) # "dead"
  BY <1>1, <1>2, <1>3, <1>4 DEF CallOK, Place, Putting, OpAt, Op, Makes, DpPlace, IpPlace, Keeps
<1>7. Rearranged(r, s, None) BY <1>2, <1>4 DEF Rearranged
<1>8. ref[r.at] > 0 /\ EntryOK' BY <1>2, <1>5, Start DEF disk, EntryOK
<1>9. UNCHANGED <<dinode, ref, lock, files>> BY <1>5 DEF disk
<1> QED BY <1>2, <1>5, <1>6, <1>7, <1>8, <1>9, LookStep

\* namex finds no entry, or no directory: it puts away what it has reached.
LEMMA WalkFailsOK == ASSUME Inv, NEW p \in Proc, WalkFails(p) PROVE Inv'
<1> DEFINE r == proc[p]  s == [Puts(r, r.at, Failed(r.op)) EXCEPT !.at = None]
<1>1. CallOK(r) /\ r.pc = "walk" /\ ~Putting(r) BY Start DEF WalkFails, At, Putting
<1>2. Fields(r) /\ r.op \in Op \cup {"link to"} /\ r.at \in Inum /\ r.put = None /\ r.dp = None
      /\ r.ip \in (IF r.op = "link to" THEN Inum ELSE {None})
  BY <1>1, Where
<1>4. PutsAs(s, r, r.at, Failed(r.op)) /\ s.at = None /\ s.ip = r.ip /\ s.dp = r.dp
  BY <1>2 DEF Puts, Fields, PutsAs
<1>5. Becomes(p, s) /\ Ilock(r.at) /\ cached' = Look(r.at) /\ UNCHANGED <<disk, ref, lock, files>>
  BY DEF WalkFails
<1> HIDE DEF s
<1>6. CallOK(s) /\ (\A j \in Inum : ~Keeps(s, j)) /\ Place(s) # "dead" /\ Place(r) # "dead"
  BY <1>1, <1>2, <1>4 DEF PutsAs, Failed, CallOK, Place, Putting, OpAt, Op, Makes, DpPlace, IpPlace, Keeps
<1>7. Rearranged(r, s, None) BY <1>2, <1>4 DEF Rearranged, PutsAs
<1>8. ref[r.at] > 0 /\ EntryOK' BY <1>2, <1>5, Start DEF disk, EntryOK
<1>9. UNCHANGED <<dinode, ref, lock, files>> BY <1>5 DEF disk
<1> QED BY <1>2, <1>5, <1>6, <1>7, <1>8, <1>9, LookStep

\* create meets a file of that name of another type.
LEMMA ExistsNotOK == ASSUME Inv, NEW p \in Proc, ExistsNot(p) PROVE Inv'
<1> DEFINE r == proc[p]
<1>1. CallOK(r) /\ r.pc = "exists" /\ ~Putting(r) BY Start DEF ExistsNot, At, Putting
<1>2. r.ip \in Inum /\ r.dp = None BY <1>1, Where
<1>3. PutsIp(p, "user") /\ Ilock(r.ip) /\ cached' = Look(r.ip) /\ UNCHANGED <<disk, ref, lock, files>>
  BY DEF ExistsNot
<1>4. PICK s : Becomes(p, s) /\ CallOK(s) /\ Rearranged(r, s, None) /\ Place(s) = "user"
  BY <1>1, <1>2, <1>3, PutsIpCall
<1>5. (\A j \in Inum : ~Keeps(s, j)) /\ Place(r) # "dead" BY <1>1, <1>4 DEF Keeps, Place, Putting
<1>6. ref[r.ip] > 0 /\ EntryOK' BY <1>2, <1>3, Start DEF disk, EntryOK
<1>7. UNCHANGED <<dinode, ref, lock, files>> BY <1>3 DEF disk
<1> QED BY <1>2, <1>3, <1>4, <1>5, <1>6, <1>7, LookStep

\* link of a directory.
LEMMA LinkRefusesOK == ASSUME Inv, NEW p \in Proc, LinkRefuses(p) PROVE Inv'
<1> DEFINE r == proc[p]
<1>1. CallOK(r) /\ r.pc = "link" /\ ~Putting(r) BY Start DEF LinkRefuses, At, Putting
<1>2. r.ip \in Inum /\ r.dp = None BY <1>1, Where
<1>3. PutsIp(p, "user") /\ Ilock(r.ip) /\ cached' = Look(r.ip) /\ UNCHANGED <<disk, ref, lock, files>>
  BY DEF LinkRefuses
<1>4. PICK s : Becomes(p, s) /\ CallOK(s) /\ Rearranged(r, s, None) /\ Place(s) = "user"
  BY <1>1, <1>2, <1>3, PutsIpCall
<1>5. (\A j \in Inum : ~Keeps(s, j)) /\ Place(r) # "dead" BY <1>1, <1>4 DEF Keeps, Place, Putting
<1>6. ref[r.ip] > 0 /\ EntryOK' BY <1>2, <1>3, Start DEF disk, EntryOK
<1>7. UNCHANGED <<dinode, ref, lock, files>> BY <1>3 DEF disk
<1> QED BY <1>2, <1>3, <1>4, <1>5, <1>6, <1>7, LookStep

\* unlink finds no entry.
LEMMA UnlinkFailsOK == ASSUME Inv, NEW p \in Proc, UnlinkFails(p) PROVE Inv'
<1> DEFINE r == proc[p]
<1>1. CallOK(r) /\ r.pc = "unlink" /\ ~Putting(r) BY Start DEF UnlinkFails, At, Putting
<1>2. r.dp \in Inum /\ r.ip = None BY <1>1, Where
<1>3. PutsDp(p, "user") /\ Ilock(r.dp) /\ cached' = Look(r.dp) /\ UNCHANGED <<disk, ref, lock, files>>
  BY DEF UnlinkFails
<1>4. PICK s : Becomes(p, s) /\ CallOK(s) /\ Rearranged(r, s, None) /\ Place(s) = "user"
  BY <1>1, <1>2, <1>3, PutsDpCall
<1>5. (\A j \in Inum : ~Keeps(s, j)) /\ Place(r) # "dead" BY <1>1, <1>4 DEF Keeps, Place, Putting
<1>6. ref[r.dp] > 0 /\ EntryOK' BY <1>2, <1>3, Start DEF disk, EntryOK
<1>7. UNCHANGED <<dinode, ref, lock, files>> BY <1>3 DEF disk
<1> QED BY <1>2, <1>3, <1>4, <1>5, <1>6, <1>7, LookStep

\* A directory that has another name names inodes.
LEMMA OneName ==
    ASSUME NEW dir, NEW name, NEW i \in Inum, \A n \in DOMAIN dir : dir[n] \in Inum
    PROVE  \A n \in DOMAIN Named(dir, name, i) : Named(dir, name, i)[n] \in Inum
BY DEF Named

\* link writes the entry: what is on disk is no reference, the directory is put away.
LEMMA LinkWritesOK == ASSUME Inv, NEW p \in Proc, LinkWrites(p) PROVE Inv'
<1> DEFINE r == proc[p]
<1>1. CallOK(r) /\ r.pc = "link to" /\ ~Putting(r) BY Start DEF LinkWrites, At, Putting
<1>2. r.dp \in Inum /\ r.ip \in Inum /\ r.op = "link to" BY <1>1, Where
<1>3. PutsDp(p, "linked") /\ Ilock(r.dp) /\ cached' = Look(r.dp) /\ UNCHANGED <<dinode, ref, lock, files>>
      /\ entry' = [entry EXCEPT ![r.dp] = Named(@, Head(r.rest), r.ip)]
  BY DEF LinkWrites
<1>4. PICK s : Becomes(p, s) /\ CallOK(s) /\ Rearranged(r, s, None) /\ Place(s) = "linked"
  BY <1>1, <1>2, <1>3, PutsDpCall
<1>5. (\A j \in Inum : ~Keeps(s, j)) /\ Place(r) # "dead" BY <1>1, <1>4 DEF Keeps, Place, Putting
<1>6. ref[r.dp] > 0 /\ EntryOK BY <1>2, Start
<1>7. EntryOK'
  <2> DEFINE g == Named(entry[r.dp], Head(r.rest), r.ip)
  <2>1. \A n \in DOMAIN g : g[n] \in Inum BY <1>2, <1>6, OneName DEF EntryOK
  <2>2. entry' = [entry EXCEPT ![r.dp] = g] BY <1>3
  <2> HIDE DEF g
  <2> QED BY <1>2, <1>6, <2>1, <2>2 DEF EntryOK
<1> QED BY <1>2, <1>3, <1>4, <1>5, <1>6, <1>7, LookStep

\* unlink of a directory that is not empty.
LEMMA UnlinkRefusesOK == ASSUME Inv, NEW p \in Proc, UnlinkRefuses(p) PROVE Inv'
<1> DEFINE r == proc[p]
<1>1. CallOK(r) /\ r.pc = "entry" /\ ~Putting(r) BY Start DEF UnlinkRefuses, At, Putting
<1>2. r.ip \in Inum /\ r.dp \in Inum /\ r.op = "unlink" BY <1>1, Where
<1>3. PutsIp(p, "refused") /\ Ilock(r.ip) /\ cached' = Look(r.ip) /\ UNCHANGED <<disk, ref, lock, files>>
  BY DEF UnlinkRefuses
<1>4. PICK s : Becomes(p, s) /\ CallOK(s) /\ Rearranged(r, s, None) /\ Place(s) = "refused" /\ s.dp = r.dp
  BY <1>1, <1>2, <1>3, PutsIpCall
<1>5. (\A j \in Inum : Keeps(s, j) => Keeps(r, j)) /\ Place(r) # "dead"
  BY <1>1, <1>4 DEF Keeps, Place, Putting
<1>6. ref[r.ip] > 0 /\ EntryOK' BY <1>2, <1>3, Start DEF disk, EntryOK
<1>7. UNCHANGED <<dinode, ref, lock, files>> BY <1>3 DEF disk
<1> QED BY <1>2, <1>3, <1>4, <1>5, <1>6, <1>7, LookStep

\* p has read inode i, may have locked it, and gets a reference to n.
LEMMA GotStep ==
    ASSUME Inv, NEW p \in Proc, NEW s, NEW n \in Inum, NEW i \in Inum,
           Becomes(p, s), CallOK(s), Rearranged(proc[p], s, n), Ilock(i), ref[i] > 0,
           cached' = Got(Look(i), n), ref' = More(n), UNCHANGED <<dinode, entry, files>>,
           lock' = lock \/ lock' = [lock EXCEPT ![i] = p],
           \A j \in Inum : Keeps(s, j) => j = i /\ lock' = [lock EXCEPT ![i] = p],
           Place(proc[p]) # "dead", Place(s) # "dead"
    PROVE  Inv'
<1>1. Good(Look(i), dinode, ref) /\ Keeping(Look(i)) /\ Look(i)[i] # None BY Start, GoodLook
<1>2. Good(cached', dinode', ref') BY <1>1, GoodGot, Start
<1>3. \A j \in Inum : Look(i)[j] # None /\ ref[j] > 0 => cached'[j] # None
  BY <1>1, GoodGot, Start
<1>4. Keeping(cached') /\ cached'[i] # None BY <1>1, <1>3 DEF Keeping
<1>5. lock[i] = None /\ lock \in [Inum -> Proc \cup {None}] BY Start DEF Ilock, Unlocked
<1>6. Tame(p) BY <1>4, <1>5 DEF Tame
<1>7. Locking(p, s) BY <1>4, <1>5 DEF Locking
<1>8. \A j \in Inum : Mine(s, j) = Mine(proc[p], j) + N(n, j) BY Balance
<1>9. \A j \in Inum : ref'[j] = ref[j] + N(n, j) BY Start DEF More, N
<1>10. ref' = [j \in Inum |-> ref'[j]] BY Start DEF More
<1>11. lock' \in [Inum -> Proc \cup {None}] /\ EntryOK' BY <1>5, Start DEF EntryOK
<1> QED BY <1>2, <1>6, <1>7, <1>8, <1>9, <1>10, <1>11, GainStep

\* namex goes down one directory: iget counts the child, iput the parent.
LEMMA WalkOnOK == ASSUME Inv, NEW p \in Proc, WalkOn(p) PROVE Inv'
<1> DEFINE r == proc[p]  n == entry[r.at][Head(r.rest)]
           s == [Puts(r, r.at, "walk") EXCEPT !.at = n, !.rest = Tail(@)]
<1>1. CallOK(r) /\ r.pc = "walk" /\ ~Putting(r) BY Start DEF WalkOn, At, Putting
<1>2. Fields(r) /\ r.op \in Op \cup {"link to"} /\ r.at \in Inum /\ r.put = None /\ r.dp = None
      /\ r.ip \in (IF r.op = "link to" THEN Inum ELSE {None})
  BY <1>1, Where
<1>3. n \in Inum BY <1>2, Start DEF WalkOn, EntryOK
<1>4. Becomes(p, s) /\ Ilock(r.at) /\ cached' = Got(Look(r.at), n) /\ ref' = More(n)
      /\ UNCHANGED <<disk, lock, files>>
  BY DEF WalkOn
<1>5. PutsAs(s, r, r.at, "walk") /\ s.at = n /\ s.ip = r.ip /\ s.dp = r.dp
  BY <1>2 DEF Puts, Fields, PutsAs
<1> HIDE DEF s, n
<1>6. CallOK(s) /\ (\A j \in Inum : ~Keeps(s, j)) /\ Place(s) # "dead" /\ Place(r) # "dead"
  BY <1>1, <1>2, <1>3, <1>5 DEF PutsAs, CallOK, Place, Putting, OpAt, Op, Makes, DpPlace, IpPlace, Keeps
<1>7. Rearranged(r, s, n) BY <1>2, <1>5 DEF Rearranged, PutsAs
<1>8. ref[r.at] > 0 BY <1>2, Start
<1>9. UNCHANGED <<dinode, entry, files, lock>> BY <1>4 DEF disk
<1> QED BY <1>2, <1>3, <1>4, <1>6, <1>7, <1>8, <1>9, GotStep

\* create finds the name: iget counts the inode.
LEMMA CreateFindsOK == ASSUME Inv, NEW p \in Proc, CreateFinds(p) PROVE Inv'
<1> DEFINE r == proc[p]  n == entry[r.dp][Head(r.rest)]
           s == [Puts(r, r.dp, "exists") EXCEPT !.ip = n, !.dp = None]
<1>1. CallOK(r) /\ r.pc \in Makes /\ ~Putting(r) BY Start DEF CreateFinds, At, Putting, Type, Makes
<1>2. Fields(r) /\ r.op \in Makes /\ r.at = None /\ r.put = None /\ r.dp \in Inum /\ r.ip = None
  BY <1>1, Where DEF Makes
<1>3. n \in Inum BY <1>2, Start DEF CreateFinds, EntryOK
<1>4. Becomes(p, s) /\ Ilock(r.dp) /\ cached' = Got(Look(r.dp), n) /\ ref' = More(n)
      /\ UNCHANGED <<disk, lock, files>>
  BY DEF CreateFinds
<1>5. PutsAs(s, r, r.dp, "exists") /\ s.at = r.at /\ s.ip = n /\ s.dp = None
  BY <1>2 DEF Puts, Fields, PutsAs
<1> HIDE DEF s, n
<1>6. CallOK(s) /\ (\A j \in Inum : ~Keeps(s, j)) /\ Place(s) # "dead" /\ Place(r) # "dead"
  BY <1>1, <1>2, <1>3, <1>5 DEF PutsAs, CallOK, Place, Putting, OpAt, Op, Makes, DpPlace, IpPlace, Keeps
<1>7. Rearranged(r, s, n) BY <1>2, <1>5 DEF Rearranged, PutsAs
<1>8. ref[r.dp] > 0 BY <1>2, Start
<1>9. UNCHANGED <<dinode, entry, files, lock>> BY <1>4 DEF disk
<1> QED BY <1>2, <1>3, <1>4, <1>6, <1>7, <1>8, <1>9, GotStep

\* unlink finds the name: iget counts the inode.
LEMMA UnlinkFindsOK == ASSUME Inv, NEW p \in Proc, UnlinkFinds(p) PROVE Inv'
<1> DEFINE r == proc[p]  n == entry[r.dp][Head(r.rest)]
           s == [r EXCEPT !.pc = "entry", !.ip = n]
<1>1. CallOK(r) /\ r.pc = "unlink" /\ ~Putting(r) BY Start DEF UnlinkFinds, At, Putting
<1>2. Fields(r) /\ r.op = "unlink" /\ r.at = None /\ r.put = None /\ r.dp \in Inum /\ r.ip = None
  BY <1>1, Where
<1>3. n \in Inum BY <1>2, Start DEF UnlinkFinds, EntryOK
<1>4. Becomes(p, s) /\ Ilock(r.dp) /\ cached' = Got(Look(r.dp), n) /\ ref' = More(n)
      /\ UNCHANGED <<disk, files>> /\ lock' = [lock EXCEPT ![r.dp] = p]
  BY DEF UnlinkFinds, Lock
<1>5. Fields(s) /\ s.pc = "entry" /\ s.op = r.op /\ s.at = r.at /\ s.ip = n /\ s.dp = r.dp
      /\ s.put = r.put
  BY <1>2 DEF Fields
<1> HIDE DEF s, n
<1>6. CallOK(s) /\ (\A j \in Inum : Keeps(s, j) => j = r.dp) /\ Place(s) # "dead" /\ Place(r) # "dead"
  BY <1>1, <1>2, <1>3, <1>5 DEF CallOK, Place, Putting, OpAt, Op, Makes, DpPlace, IpPlace, Keeps
<1>7. Rearranged(r, s, n) BY <1>2, <1>5 DEF Rearranged
<1>8. ref[r.dp] > 0 BY <1>2, Start
<1>9. UNCHANGED <<dinode, entry, files>> BY <1>4 DEF disk
<1> QED BY <1>2, <1>3, <1>4, <1>6, <1>7, <1>8, <1>9, GotStep

\* dirlink finds the name taken: iget counts the inode that is in the way.
LEMMA LinkFindsOK == ASSUME Inv, NEW p \in Proc, LinkFinds(p) PROVE Inv'
<1> DEFINE r == proc[p]  n == entry[r.dp][Head(r.rest)]  s == Puts(r, n, "found")
<1>1. CallOK(r) /\ r.pc = "link to" /\ ~Putting(r) BY Start DEF LinkFinds, At, Putting
<1>2. Fields(r) /\ r.op = "link to" /\ r.at = None /\ r.put = None /\ r.dp \in Inum /\ r.ip \in Inum
  BY <1>1, Where
<1>3. n \in Inum BY <1>2, Start DEF LinkFinds, EntryOK
<1>4. Becomes(p, s) /\ Ilock(r.dp) /\ cached' = Got(Look(r.dp), n) /\ ref' = More(n)
      /\ UNCHANGED <<disk, files>> /\ lock' = [lock EXCEPT ![r.dp] = p]
  BY DEF LinkFinds, Lock
<1>5. PutsAs(s, r, n, "found") /\ s.at = r.at /\ s.ip = r.ip /\ s.dp = r.dp
  BY <1>2 DEF Puts, Fields, PutsAs
<1> HIDE DEF s, n
<1>6. CallOK(s) /\ (\A j \in Inum : Keeps(s, j) => j = r.dp) /\ Place(s) # "dead" /\ Place(r) # "dead"
  BY <1>1, <1>2, <1>3, <1>5 DEF PutsAs, CallOK, Place, Putting, OpAt, Op, Makes, DpPlace, IpPlace, Keeps
<1>7. Rearranged(r, s, n) BY <1>2, <1>5 DEF Rearranged, PutsAs
<1>8. ref[r.dp] > 0 BY <1>2, Start
<1>9. UNCHANGED <<dinode, entry, files>> BY <1>4 DEF disk
<1> QED BY <1>2, <1>3, <1>4, <1>6, <1>7, <1>8, <1>9, GotStep

\* p only passes its references around, and may unlock an inode.
LEMMA ReleaseStep ==
    ASSUME Inv, NEW p \in Proc, NEW s, NEW i \in Inum,
           Becomes(p, s), CallOK(s), Rearranged(proc[p], s, None),
           UNCHANGED <<dinode, entry, ref, files>>,
           \/ cached' = cached
           \/ cached' = Look(i) /\ Ilock(i) /\ ref[i] > 0,
           \/ lock' = lock
           \/ lock[i] \in {None, p} /\ lock' = [lock EXCEPT ![i] = None],
           \A j \in Inum : ~Keeps(s, j), Place(proc[p]) # "dead", Place(s) # "dead"
    PROVE  Inv'
<1>1. Good(cached', dinode', ref') /\ Keeping(cached') BY Start, GoodLook DEF Keeping
<1>2. Tame(p) /\ Locking(p, s) BY <1>1, Start DEF Tame, Locking
<1>3. \A j \in Inum : Mine(s, j) = Mine(proc[p], j) + N(None, j) BY Balance
<1>4. \A j \in Inum : ref'[j] = ref[j] + N(None, j) BY NFacts, Start
<1>5. ref' = [j \in Inum |-> ref'[j]] /\ lock' \in [Inum -> Proc \cup {None}] BY Start
<1>6. EntryOK' BY Start DEF EntryOK
<1> QED BY <1>1, <1>2, <1>3, <1>4, <1>5, <1>6, GainStep

\* mkdir and mknod are done: the new inode is unlocked and put away.
LEMMA MadeNodeOK == ASSUME Inv, NEW p \in Proc, MadeNode(p) PROVE Inv'
<1> DEFINE r == proc[p]
<1>1. CallOK(r) /\ r.pc = "made" /\ ~Putting(r) BY Start DEF MadeNode, At, Putting
<1>2. r.ip \in Inum /\ r.dp = None BY <1>1, Where
<1>3. PutsIp(p, "user") /\ lock' = [lock EXCEPT ![r.ip] = None] /\ UNCHANGED <<disk, ref, cached, files>>
  BY DEF MadeNode, Lock
<1>4. PICK s : Becomes(p, s) /\ CallOK(s) /\ Rearranged(r, s, None) /\ Place(s) = "user"
  BY <1>1, <1>2, <1>3, PutsIpCall
<1>5. (\A j \in Inum : ~Keeps(s, j)) /\ Place(r) # "dead" BY <1>1, <1>4 DEF Keeps, Place, Putting
<1>6. lock[r.ip] = p
  <2>1. Keeps(r, r.ip) BY <1>1 DEF Keeps, Place, Putting
  <2> QED BY <2>1, <1>2, Start
<1>7. UNCHANGED <<dinode, entry, ref, files>> /\ cached' = cached BY <1>3 DEF disk
<1> QED BY <1>2, <1>3, <1>4, <1>5, <1>6, <1>7, ReleaseStep

\* dirlink has failed: the directory is unlocked and put away.
LEMMA LinkFailsOK == ASSUME Inv, NEW p \in Proc, LinkFails(p) PROVE Inv'
<1> DEFINE r == proc[p]
<1>1. CallOK(r) /\ r.pc = "found" /\ ~Putting(r) BY Start DEF LinkFails, At, Putting
<1>2. r.ip \in Inum /\ r.dp \in Inum /\ r.op = "link to" BY <1>1, Where
<1>3. PutsDp(p, "bad") /\ lock' = [lock EXCEPT ![r.dp] = None] /\ UNCHANGED <<disk, ref, cached, files>>
  BY DEF LinkFails, Lock
<1>4. PICK s : Becomes(p, s) /\ CallOK(s) /\ Rearranged(r, s, None) /\ Place(s) = "bad"
  BY <1>1, <1>2, <1>3, PutsDpCall
<1>5. (\A j \in Inum : ~Keeps(s, j)) /\ Place(r) # "dead" BY <1>1, <1>4 DEF Keeps, Place, Putting
<1>6. lock[r.dp] = p
  <2>1. Keeps(r, r.dp) BY <1>1 DEF Keeps, Place, Putting
  <2> QED BY <2>1, <1>2, Start
<1>7. UNCHANGED <<dinode, entry, ref, files>> /\ cached' = cached BY <1>3 DEF disk
<1> QED BY <1>2, <1>3, <1>4, <1>5, <1>6, <1>7, ReleaseStep

\* unlink gives up: the directory is unlocked and put away.
LEMMA UnlinkBadOK == ASSUME Inv, NEW p \in Proc, UnlinkBad(p) PROVE Inv'
<1> DEFINE r == proc[p]
<1>1. CallOK(r) /\ r.pc = "refused" /\ ~Putting(r) BY Start DEF UnlinkBad, At, Putting
<1>2. r.ip = None /\ r.dp \in Inum BY <1>1, Where
<1>3. PutsDp(p, "user") /\ lock' = [lock EXCEPT ![r.dp] = None] /\ UNCHANGED <<disk, ref, cached, files>>
  BY DEF UnlinkBad, Lock
<1>4. PICK s : Becomes(p, s) /\ CallOK(s) /\ Rearranged(r, s, None) /\ Place(s) = "user"
  BY <1>1, <1>2, <1>3, PutsDpCall
<1>5. (\A j \in Inum : ~Keeps(s, j)) /\ Place(r) # "dead" BY <1>1, <1>4 DEF Keeps, Place, Putting
<1>6. lock[r.dp] = p
  <2>1. Keeps(r, r.dp) BY <1>1 DEF Keeps, Place, Putting
  <2> QED BY <2>1, <1>2, Start
<1>7. UNCHANGED <<dinode, entry, ref, files>> /\ cached' = cached BY <1>3 DEF disk
<1> QED BY <1>2, <1>3, <1>4, <1>5, <1>6, <1>7, ReleaseStep

\* link is done: the inode is put away.
LEMMA LinkedOK == ASSUME Inv, NEW p \in Proc, Linked(p) PROVE Inv'
<1> DEFINE r == proc[p]
<1>1. CallOK(r) /\ r.pc = "linked" /\ ~Putting(r) BY Start DEF Linked, At, Putting
<1>2. r.ip \in Inum /\ r.dp = None BY <1>1, Where
<1>3. PutsIp(p, "user") /\ UNCHANGED <<disk, ref, cached, lock, files>>
  BY DEF Linked
<1>4. PICK s : Becomes(p, s) /\ CallOK(s) /\ Rearranged(r, s, None) /\ Place(s) = "user"
  BY <1>1, <1>2, <1>3, PutsIpCall
<1>5. (\A j \in Inum : ~Keeps(s, j)) /\ Place(r) # "dead" BY <1>1, <1>4 DEF Keeps, Place, Putting
<1>6. UNCHANGED <<dinode, entry, ref, files>> /\ cached' = cached /\ lock' = lock BY <1>3 DEF disk
<1> QED BY <1>2, <1>4, <1>5, <1>6, ReleaseStep

\* iput frees the inode or leaves it, and goes on.
LEMMA IputLockedOK == ASSUME Inv, NEW p \in Proc, IputLocked(p) PROVE Inv'
<1> DEFINE r == proc[p]  s == [r EXCEPT !.pc = "drop"]  i == r.put
<1>1. CallOK(r) /\ r.pc = "put" BY Start DEF IputLocked, At
<1>2. Fields(r) /\ i \in Inum BY <1>1 DEF CallOK, Putting
<1>3. Becomes(p, s) /\ Unlocked(i) /\ UNCHANGED <<ref, lock, files>> BY DEF IputLocked
<1>4. \/ UNCHANGED <<dinode, entry, cached>>
      \/ /\ dinode' = [dinode EXCEPT ![i] = Free] /\ entry' = [entry EXCEPT ![i] = <<>>]
         /\ cached' = [cached EXCEPT ![i] = None]
  BY DEF IputLocked, disk
<1>5. Fields(s) /\ s.pc = "drop" /\ s.op = r.op /\ s.back = r.back /\ s.at = r.at /\ s.ip = r.ip
      /\ s.dp = r.dp /\ s.put = r.put
  BY <1>2 DEF Fields
<1> HIDE DEF s
<1>6. Place(s) = Place(r) /\ CallOK(s) /\ \A j \in Inum : Keeps(s, j) <=> Keeps(r, j)
  BY <1>1, <1>5 DEF CallOK, Place, Putting, Keeps
<1>7. Free \in Dinode BY DEF Free, Dinode
<1>8. Good(cached', dinode', ref') /\ Keeping(cached')
  <2> HIDE DEF i
  <2>1. Good(cached, dinode, ref) /\ lock[i] = None /\ ref' = ref BY <1>3, Start DEF Unlocked
  <2>2. CASE UNCHANGED <<dinode, entry, cached>> BY <2>1, <2>2 DEF Good, Keeping
  <2>3. CASE dinode' = [dinode EXCEPT ![i] = Free] /\ cached' = [cached EXCEPT ![i] = None]
    <3>1. \A j \in Inum : j # i => cached'[j] = cached[j] /\ dinode'[j] = dinode[j]
      BY <1>2, <2>1, <2>3 DEF Good
    <3>2. cached'[i] = None /\ cached' \in [Inum -> Dinode \cup {None}] /\ dinode' \in [Inum -> Dinode]
      BY <1>2, <2>1, <2>3, <1>7 DEF Good
    <3> QED BY <2>1, <3>1, <3>2 DEF Good, Keeping
  <2> QED BY <1>4, <2>2, <2>3
<1>9. EntryOK' BY <1>2, <1>4, Start DEF EntryOK
<1>11. Tame(p) BY <1>3, <1>8 DEF Tame
<1>12. Locking(p, s)
  <2> SUFFICES ASSUME NEW j \in Inum, Keeps(r, j) PROVE lock'[j] = p /\ cached'[j] # None
    BY <1>6 DEF Locking
  <2>1. lock[j] = p /\ cached[j] # None /\ ref[j] > 0 BY Start DEF Keeps
  <2> QED BY <2>1, <1>3, <1>8, NoneIsNot DEF Keeping
<1>13. cwd'[p] = None <=> Place(s) = "dead" BY <1>3, <1>6 DEF Inv, DeadHaveNone, files
<1>14. Place(s) = "dead" => ofile[p] = None BY <1>6 DEF Inv, DeadHaveNone
<1>15. \A j \in Inum : ref'[j] = (ref[j] - Has(p, j)) + (Mine(s, j) + N(cwd'[p], j))
  <2> SUFFICES ASSUME NEW j \in Inum
               PROVE  ref[j] = (ref[j] - (Mine(r, j) + N(cwd[p], j))) + (Mine(r, j) + N(cwd[p], j))
    <3>1. \A k \in Inum : Mine(s, k) = Mine(r, k) BY <1>5 DEF Mine
    <3> QED BY <3>1, <1>3 DEF Has, files
  <2>1. ref[j] \in Int /\ Mine(r, j) \in Int /\ N(cwd[p], j) \in Int BY Start, MineInt, NFacts
  <2> QED BY <2>1
<1>16. Typed' BY <1>3, <1>8, <1>9, Start DEF Typed, Shaped, files
<1> QED BY <1>3, <1>6, <1>11, <1>12, <1>13, <1>14, <1>15, <1>16, CallStep DEF files

\* The record of a process that returns from iput.
Popped(r) == [r EXCEPT !.pc = r.back, !.put = None, !.back = None]

\* A process after iput: back in the system call, out of it, or on in namex.
After(r) ==
    IF r.back \in {"user", "dead"} THEN [Idle EXCEPT !.pc = r.back]
      ELSE IF r.back = "walk" THEN Onward(Popped(r)) ELSE Popped(r)

\* It has given back put.
LEMMA Dropped ==
    ASSUME NEW r, CallOK(r), r.pc = "drop"
    PROVE  /\ CallOK(After(r)) /\ (Place(After(r)) = "dead" <=> Place(r) = "dead")
           /\ \A j \in Inum : Mine(r, j) = Mine(After(r), j) + N(r.put, j)
           /\ \A j \in Inum : Keeps(After(r), j) => Keeps(r, j)
<1> DEFINE d == Popped(r)  s == After(r)
<1>1. Fields(r) /\ Place(r) = r.back /\ r.put \in Inum BY DEF CallOK, Place, Putting
<1>2. Fields(d) /\ d.pc = r.back /\ d.put = None /\ d.op = r.op /\ d.at = r.at /\ d.ip = r.ip
      /\ d.dp = r.dp
  BY <1>1 DEF Fields, Popped
<1> HIDE DEF d
<1>3. \A j \in Inum : Mine(r, j) = Mine(d, j) + N(r.put, j)
  <2>1. Rearranged(d, r, r.put) BY <1>2 DEF Rearranged
  <2> QED BY <2>1, Balance
<1>4. CASE r.back \in {"user", "dead"}
  <2>1. s = [Idle EXCEPT !.pc = r.back] BY <1>4 DEF After
  <2> HIDE DEF s
  <2>2. Fields(s) /\ s.pc = r.back /\ s.at = None /\ s.ip = None /\ s.dp = None /\ s.put = None
    BY <2>1 DEF Idle, Fields
  <2>3. r.at = None /\ r.ip = None /\ r.dp = None
    BY <1>1, <1>4 DEF CallOK, DpPlace, IpPlace, Makes
  <2>4. CallOK(s) /\ (Place(s) = "dead" <=> Place(r) = "dead") /\ \A j \in Inum : ~Keeps(s, j)
    BY <1>1, <1>4, <2>2 DEF CallOK, Place, Putting, DpPlace, IpPlace, Makes, Keeps
  <2>5. \A j \in Inum : Mine(s, j) = Mine(d, j) BY <1>2, <2>2, <2>3 DEF Mine
  <2> QED BY <1>3, <2>4, <2>5 DEF s
<1>5. CASE r.back = "walk"
  <2>1. s = Onward(d) BY <1>5 DEF After, d
  <2> HIDE DEF s
  <2>2. r.op \in Op \cup {"link to"} /\ r.at \in Inum /\ r.dp = None
        /\ r.ip \in (IF r.op = "link to" THEN Inum ELSE {None})
    BY <1>1, <1>5 DEF CallOK, DpPlace, IpPlace, Makes
  <2>3. /\ CallOK(s) /\ Place(s) # "dead"
        /\ \A j \in Inum : Mine(s, j) = Mine(d, j)
        /\ \A j \in Inum : ~Keeps(s, j)
    <3>1. Fields(d) /\ d.op \in Op \cup {"link to"} /\ d.at \in Inum /\ d.put = None /\ d.dp = None
          /\ d.ip \in (IF d.op = "link to" THEN Inum ELSE {None})
      BY <1>2, <2>2
    <3> QED BY <2>1, <3>1, OnwardOK
  <2> QED BY <1>1, <1>3, <1>5, <2>3 DEF s
<1>6. CASE r.back \notin {"user", "dead", "walk"}
  <2>1. s = d BY <1>6 DEF After, d
  <2> HIDE DEF s
  <2>2. ~Putting(s) /\ Place(s) = r.back
    BY <1>1, <1>2, <1>6, <2>1 DEF CallOK, Putting, Place, OpAt, Op, Makes
  <2>3. CallOK(s) BY <1>1, <1>2, <2>1, <2>2 DEF CallOK
  <2>4. \A j \in Inum : Keeps(s, j) => Keeps(r, j) BY <1>1, <1>2, <2>1, <2>2 DEF Keeps
  <2> QED BY <1>1, <1>3, <2>1, <2>2, <2>3, <2>4 DEF s
<1> QED BY <1>4, <1>5, <1>6

\* The end of iput: one reference less, of the variable put.
LEMMA IputDropOK == ASSUME Inv, NEW p \in Proc, IputDrop(p) PROVE Inv'
<1> DEFINE r == proc[p]  s == After(r)
<1>1. CallOK(r) /\ r.pc = "drop" BY Start DEF IputDrop, At
<1>2. r.put \in Inum BY <1>1 DEF CallOK, Putting
<1>3. Becomes(p, s) /\ ref' = [ref EXCEPT ![r.put] = @ - 1]
      /\ UNCHANGED <<disk, cached, lock, files>>
  BY DEF IputDrop, After, Popped
<1>4. /\ CallOK(s) /\ (Place(s) = "dead" <=> Place(r) = "dead")
      /\ \A j \in Inum : Mine(r, j) = Mine(s, j) + N(r.put, j)
      /\ \A j \in Inum : Keeps(s, j) => Keeps(r, j)
  BY <1>1, Dropped
<1> HIDE DEF s
<1>5. \A j \in Inum : ref'[j] = ref[j] - N(r.put, j) BY <1>2, <1>3, Start DEF N
<1>6. Good(cached', dinode', ref')
  <2>1. \A j \in Inum : ref'[j] > 0 => ref[j] > 0 BY <1>2, <1>3, Start
  <2> QED BY <2>1, <1>3, Start DEF Good, disk
<1>7. Tame(p) BY <1>3 DEF Tame, Keeping
<1>8. Locking(p, s) BY <1>3, <1>4, Start DEF Locking
<1>9. cwd'[p] = None <=> Place(s) = "dead" BY <1>3, <1>4 DEF Inv, DeadHaveNone, files
<1>10. Place(s) = "dead" => ofile[p] = None BY <1>4 DEF Inv, DeadHaveNone
<1>11. \A j \in Inum : ref'[j] = (ref[j] - Has(p, j)) + (Mine(s, j) + N(cwd'[p], j))
  <2> SUFFICES ASSUME NEW j \in Inum
               PROVE  ref[j] - N(r.put, j) = (ref[j] - (Mine(r, j) + N(cwd[p], j))) + (Mine(s, j) + N(cwd[p], j))
    BY <1>3, <1>5 DEF Has, files
  <2> DEFINE a == ref[j]  b == N(r.put, j)  c == Mine(r, j)  e == N(cwd[p], j)  f == Mine(s, j)
  <2>1. a \in Int /\ b \in Int /\ e \in Int /\ f \in Int /\ c = f + b BY <1>4, Start, MineInt, NFacts
  <2> HIDE DEF a, b, c, e, f
  <2>2. a - b = (a - (c + e)) + (f + e) BY <2>1
  <2> QED BY <2>2 DEF a, b, c, e, f
<1>12. Typed' BY <1>3, <1>6, Start DEF Typed, Shaped, files, disk, EntryOK
<1> QED BY <1>3, <1>4, <1>7, <1>8, <1>9, <1>10, <1>11, <1>12, CallStep DEF files

\* The copy of an inode that p has locked.
LEMMA LockedNode ==
    ASSUME Inv, NEW p \in Proc, NEW i \in Inum, Keeps(proc[p], i)
    PROVE  /\ Node(i) = cached[i] /\ Node(i) = dinode[i]
           /\ Node(i) \in Dinode /\ Node(i).type # "none" /\ ref[i] > 0
<1>1. cached[i] # None /\ ref[i] > 0 BY Start DEF Keeps
<1> QED BY <1>1, Start DEF Node, Good

\* A link more or less leaves an inode its type.
LEMMA AddOK ==
    ASSUME NEW n \in Dinode, NEW k \in Int
    PROVE  Add(n, k) \in Dinode /\ Add(n, k).type = n.type
BY DEF Add, Dinode

\* p writes inode i, which it has locked before or in this step, and unlocks it.
LEMMA UpdateStep ==
    ASSUME Inv, NEW p \in Proc, NEW s, NEW i \in Inum, NEW node \in Dinode,
           Becomes(p, s), CallOK(s), Rearranged(proc[p], s, None), node.type # "none",
           UNCHANGED <<entry, ref, files>>, Update(i, node),
           lock[i] \in {None, p}, lock' = lock \/ lock' = [lock EXCEPT ![i] = None],
           \A j \in Inum : ~Keeps(s, j), Place(proc[p]) # "dead", Place(s) # "dead"
    PROVE  Inv'
<1>1. Good(cached', dinode', ref') BY Start, GoodUpdate DEF Update
<1>2. Keeping(cached') BY Start, NoneIsNot DEF Keeping, Update, Good
<1>3. Tame(p) /\ Locking(p, s) BY <1>2, Start DEF Tame, Locking
<1>4. \A j \in Inum : Mine(s, j) = Mine(proc[p], j) + N(None, j) BY Balance
<1>5. \A j \in Inum : ref'[j] = ref[j] + N(None, j) BY NFacts, Start
<1>6. ref' = [j \in Inum |-> ref'[j]] /\ lock' \in [Inum -> Proc \cup {None}] BY Start
<1>7. EntryOK' BY Start DEF EntryOK
<1> QED BY <1>1, <1>3, <1>4, <1>5, <1>6, <1>7, GainStep

\* unlink takes the link off the inode and unlocks it.
LEMMA UnlinkCountsOK == ASSUME Inv, NEW p \in Proc, UnlinkCounts(p) PROVE Inv'
<1> DEFINE r == proc[p]  node == Add(Node(r.ip), -1)
<1>1. CallOK(r) /\ r.pc = "erased" /\ ~Putting(r) BY Start DEF UnlinkCounts, At, Putting
<1>2. r.ip \in Inum /\ r.dp = None BY <1>1, Where
<1>3. PutsIp(p, "user") /\ lock' = [lock EXCEPT ![r.ip] = None] /\ Update(r.ip, node)
      /\ UNCHANGED <<entry, ref, files>>
  BY DEF UnlinkCounts, Lock
<1>4. PICK s : Becomes(p, s) /\ CallOK(s) /\ Rearranged(r, s, None) /\ Place(s) = "user"
  BY <1>1, <1>2, <1>3, PutsIpCall
<1>5. (\A j \in Inum : ~Keeps(s, j)) /\ Place(r) # "dead" BY <1>1, <1>4 DEF Keeps, Place, Putting
<1>6. Keeps(r, r.ip) BY <1>1 DEF Keeps, Place, Putting
<1>7. lock[r.ip] = p BY <1>6, <1>2, Start
<1>8. node \in Dinode /\ node.type # "none" BY <1>2, <1>6, LockedNode, AddOK
<1> HIDE DEF node
<1> QED BY <1>2, <1>3, <1>4, <1>5, <1>7, <1>8, UpdateStep

\* link takes the link off again.
LEMMA LinkBadOK == ASSUME Inv, NEW p \in Proc, LinkBad(p) PROVE Inv'
<1> DEFINE r == proc[p]  node == Add(Node(r.ip), -1)
<1>1. CallOK(r) /\ r.pc = "bad" /\ ~Putting(r) BY Start DEF LinkBad, At, Putting
<1>2. r.ip \in Inum /\ r.dp = None BY <1>1, Where
<1>3. PutsIp(p, "user") /\ Ilock(r.ip) /\ Update(r.ip, node) /\ UNCHANGED <<entry, ref, lock, files>>
  BY DEF LinkBad
<1>4. PICK s : Becomes(p, s) /\ CallOK(s) /\ Rearranged(r, s, None) /\ Place(s) = "user"
  BY <1>1, <1>2, <1>3, PutsIpCall
<1>5. (\A j \in Inum : ~Keeps(s, j)) /\ Place(r) # "dead" BY <1>1, <1>4 DEF Keeps, Place, Putting
<1>6. lock[r.ip] = None /\ ref[r.ip] > 0 BY <1>2, <1>3, Start DEF Ilock, Unlocked
<1>7. node \in Dinode /\ node.type # "none"
  <2>1. Node(r.ip) \in Dinode /\ Node(r.ip).type # "none" BY <1>2, <1>3, <1>6, Start, GoodLook
  <2> QED BY <2>1, AddOK
<1> HIDE DEF node
<1> QED BY <1>2, <1>3, <1>4, <1>5, <1>6, <1>7, UpdateStep

\* A free inode that is given out was not valid in the cache.
LEMMA GoodAlloc ==
    ASSUME NEW c, Good(c, dinode, ref), NEW i \in Inum, dinode[i].type = "none", NEW n \in Dinode
    PROVE  Good(c, [dinode EXCEPT ![i] = n], ref)
BY DEF Good

\* ialloc takes an inode that is free on disk: no valid copy of it is cached.
LEMMA IallocOK == ASSUME Inv, NEW p \in Proc, Ialloc(p) PROVE Inv'
<1> DEFINE r == proc[p]  new == [Free EXCEPT !.type = Type[r.op]]
<1>1. CallOK(r) /\ r.pc \in Makes /\ ~Putting(r) BY Start DEF Ialloc, Putting, Type, Makes
<1>2. Fields(r) /\ r.op \in Makes /\ r.at = None /\ r.put = None /\ r.dp \in Inum /\ r.ip = None
  BY <1>1, Where DEF Makes
<1>3. PICK i \in Inum : /\ dinode[i].type = "none" /\ dinode' = [dinode EXCEPT ![i] = new]
                        /\ ref' = More(i) /\ cached' = Got(Look(r.dp), i)
                        /\ Becomes(p, [r EXCEPT !.pc = "fill", !.ip = i])
  BY DEF Ialloc
<1> DEFINE s == [r EXCEPT !.pc = "fill", !.ip = i]
<1>4. Ilock(r.dp) /\ lock' = [lock EXCEPT ![r.dp] = p] /\ UNCHANGED <<entry, files>>
  BY DEF Ialloc, Lock
<1>5. Fields(s) /\ s.pc = "fill" /\ s.op = r.op /\ s.at = r.at /\ s.ip = i /\ s.dp = r.dp
      /\ s.put = r.put
  BY <1>2 DEF Fields
<1>6. new \in Dinode BY <1>2 DEF Free, Type, Makes, Dinode
<1>7. Becomes(p, s) BY <1>3
<1> HIDE DEF s, new
<1>8. CallOK(s) /\ (\A j \in Inum : Keeps(s, j) => j = r.dp) /\ Place(s) # "dead" /\ Place(r) # "dead"
  BY <1>1, <1>2, <1>3, <1>5 DEF CallOK, Place, Putting, OpAt, Op, Makes, DpPlace, IpPlace, Keeps
<1>9. Rearranged(r, s, i) BY <1>2, <1>5 DEF Rearranged
<1>10. ref[r.dp] > 0 BY <1>2, Start
<1>11. Good(Look(r.dp), dinode, ref) /\ Keeping(Look(r.dp)) /\ Look(r.dp)[r.dp] # None
  BY <1>2, <1>4, <1>10, Start, GoodLook
<1>12. Good(Look(r.dp), dinode', ref) BY <1>3, <1>6, <1>11, GoodAlloc
<1>13. Good(cached', dinode', ref')
       /\ \A j \in Inum : Look(r.dp)[j] # None /\ ref[j] > 0 => cached'[j] # None
  BY <1>3, <1>12, GoodGot, Start
<1>14. Keeping(cached') /\ cached'[r.dp] # None BY <1>2, <1>10, <1>11, <1>13 DEF Keeping
<1>15. lock[r.dp] = None /\ lock \in [Inum -> Proc \cup {None}] BY <1>4, Start DEF Ilock, Unlocked
<1>16. Tame(p) BY <1>4, <1>14, <1>15 DEF Tame
<1>17. Locking(p, s) BY <1>2, <1>4, <1>8, <1>14, <1>15 DEF Locking
<1>18. \A j \in Inum : Mine(s, j) = Mine(proc[p], j) + N(i, j) BY <1>9, Balance
<1>19. \A j \in Inum : ref'[j] = ref[j] + N(i, j) BY <1>3, Start DEF More, N
<1>20. ref' = [j \in Inum |-> ref'[j]] BY <1>3, Start DEF More
<1>21. lock' \in [Inum -> Proc \cup {None}] /\ EntryOK' BY <1>4, <1>15, Start DEF EntryOK
<1> QED BY <1>4, <1>7, <1>8, <1>13, <1>16, <1>17, <1>18, <1>19, <1>20, <1>21, GainStep

\* p writes inodes i and j, has locked j before and locks i instead.
LEMMA TwoUpdates ==
    ASSUME Inv, NEW p \in Proc, NEW s, NEW i \in Inum, NEW j \in Inum, NEW c, NEW d,
           Becomes(p, s), CallOK(s), Rearranged(proc[p], s, None),
           Good(c, d, ref), Keeping(c), c[i] # None, dinode' = d, cached' = c,
           UNCHANGED <<ref, files>>, EntryOK', lock[i] = None, lock[j] = p,
           lock' = [lock EXCEPT ![j] = None, ![i] = p],
           \A k \in Inum : Keeps(s, k) => k = i, Place(proc[p]) # "dead", Place(s) # "dead"
    PROVE  Inv'
<1>1. lock \in [Inum -> Proc \cup {None}] BY Start
<1>2. Tame(p) BY <1>1 DEF Tame
<1>3. Locking(p, s) BY <1>1 DEF Locking
<1>4. \A k \in Inum : Mine(s, k) = Mine(proc[p], k) + N(None, k) BY Balance
<1>5. \A k \in Inum : ref'[k] = ref[k] + N(None, k) BY NFacts, Start
<1>6. ref' = [k \in Inum |-> ref'[k]] /\ lock' \in [Inum -> Proc \cup {None}] BY <1>1, Start
<1>7. Good(cached', dinode', ref') OBVIOUS
<1> QED BY <1>2, <1>3, <1>4, <1>5, <1>6, <1>7, GainStep

\* create fills the new inode and enters it into the directory.
LEMMA CreateFillsOK == ASSUME Inv, NEW p \in Proc, CreateFills(p) PROVE Inv'
<1> DEFINE r == proc[p]  dir == Type[r.op] = "dir"
           node == [Node(r.ip) EXCEPT !.nlink = 1]
           dnode == Add(Node(r.dp), IF dir THEN 1 ELSE 0)
           c1 == [cached EXCEPT ![r.ip] = node]  d1 == [dinode EXCEPT ![r.ip] = node]
           c2 == [c1 EXCEPT ![r.dp] = dnode]  d2 == [d1 EXCEPT ![r.dp] = dnode]
<1>1. CallOK(r) /\ r.pc = "fill" /\ ~Putting(r) BY Start DEF CreateFills, At, Putting
<1>2. r.ip \in Inum /\ r.dp \in Inum /\ r.op \in Makes BY <1>1, Where
<1>3. PutsDp(p, "made") /\ Ilock(r.ip) /\ dinode' = d2 /\ cached' = c2
      /\ lock' = [lock EXCEPT ![r.dp] = None, ![r.ip] = p] /\ UNCHANGED <<ref, files>>
      /\ entry' = [entry EXCEPT ![r.ip] = IF dir THEN Dots(@, r.ip, r.dp) ELSE @,
                                ![r.dp] = Named(@, Head(r.rest), r.ip)]
  BY DEF CreateFills
<1>4. PICK s : Becomes(p, s) /\ CallOK(s) /\ Rearranged(r, s, None) /\ Place(s) = "made" /\ s.ip = r.ip
  BY <1>1, <1>2, <1>3, PutsDpCall
<1>5. (\A k \in Inum : Keeps(s, k) => k = r.ip) /\ Place(r) # "dead"
  BY <1>1, <1>4 DEF Keeps, Place, Putting
<1>6. Keeps(r, r.dp) BY <1>1 DEF Keeps, Place, Putting
<1>7. lock[r.dp] = p /\ lock[r.ip] = None BY <1>2, <1>3, <1>6, Start DEF Ilock, Unlocked
<1>8. r.dp # r.ip /\ ref[r.ip] > 0 BY <1>2, <1>7, NoneIsNot, Start
<1>9. Node(r.ip) \in Dinode /\ Node(r.ip).type # "none" BY <1>2, <1>3, <1>8, Start, GoodLook
<1>10. node \in Dinode /\ node.type # "none" BY <1>9 DEF Dinode
<1>11. Node(r.dp) \in Dinode /\ Node(r.dp).type # "none" BY <1>2, <1>6, LockedNode
<1>12. dnode \in Dinode /\ dnode.type # "none" BY <1>11, AddOK
<1> HIDE DEF node, dnode
<1>13. Good(c1, d1, ref) BY <1>2, <1>10, Start, GoodUpdate
<1> HIDE DEF d1
<1>14. Good(c2, d2, ref)
  <2> HIDE DEF c1
  <2> QED BY <1>2, <1>12, <1>13, GoodUpdate
<1>15. Keeping(c2) /\ c2[r.ip] # None BY <1>2, <1>8, <1>10, <1>12, NoneIsNot, Start DEF Keeping, Good
<1>16. EntryOK'
  <2> DEFINE e == IF dir THEN Dots(entry[r.ip], r.ip, r.dp) ELSE entry[r.ip]
             g == Named(entry[r.dp], Head(r.rest), r.ip)
  <2>1. \A n \in DOMAIN e : e[n] \in Inum BY <1>2, Start, OneName DEF EntryOK, Dots
  <2>2. \A n \in DOMAIN g : g[n] \in Inum BY <1>2, Start, OneName DEF EntryOK
  <2>3. entry' = [[entry EXCEPT ![r.ip] = e] EXCEPT ![r.dp] = g]
    <3>1. [entry EXCEPT ![r.ip] = e][r.dp] = entry[r.dp] BY <1>8
    <3> QED BY <1>3, <3>1
  <2> HIDE DEF e, g
  <2> QED BY <1>2, <2>1, <2>2, <2>3, Start DEF EntryOK
<1> HIDE DEF c2, d2
<1> QED BY <1>2, <1>3, <1>4, <1>5, <1>7, <1>14, <1>15, <1>16, TwoUpdates

\* unlink erases the entry and unlocks the directory.
LEMMA UnlinkErasesOK == ASSUME Inv, NEW p \in Proc, UnlinkErases(p) PROVE Inv'
<1> DEFINE r == proc[p]  name == Head(r.rest)
           dnode == Add(Node(r.dp), IF IsDir(r.ip) THEN -1 ELSE 0)
           c1 == Look(r.ip)  c2 == [c1 EXCEPT ![r.dp] = dnode]  d2 == [dinode EXCEPT ![r.dp] = dnode]
<1>1. CallOK(r) /\ r.pc = "entry" /\ ~Putting(r) BY Start DEF UnlinkErases, At, Putting
<1>2. r.ip \in Inum /\ r.dp \in Inum /\ r.op = "unlink" BY <1>1, Where
<1>3. PutsDp(p, "erased") /\ Ilock(r.ip) /\ dinode' = d2 /\ cached' = c2
      /\ lock' = [lock EXCEPT ![r.dp] = None, ![r.ip] = p] /\ UNCHANGED <<ref, files>>
      /\ entry' = [entry EXCEPT ![r.dp] = Restrict(@, DOMAIN @ \ {name})]
  BY DEF UnlinkErases
<1>4. PICK s : Becomes(p, s) /\ CallOK(s) /\ Rearranged(r, s, None) /\ Place(s) = "erased" /\ s.ip = r.ip
  BY <1>1, <1>2, <1>3, PutsDpCall
<1>5. (\A k \in Inum : Keeps(s, k) => k = r.ip) /\ Place(r) # "dead"
  BY <1>1, <1>4 DEF Keeps, Place, Putting
<1>6. Keeps(r, r.dp) BY <1>1 DEF Keeps, Place, Putting
<1>7. lock[r.dp] = p /\ lock[r.ip] = None BY <1>2, <1>3, <1>6, Start DEF Ilock, Unlocked
<1>8. r.dp # r.ip /\ ref[r.ip] > 0 BY <1>2, <1>7, NoneIsNot, Start
<1>9. Good(c1, dinode, ref) /\ Keeping(c1) /\ c1[r.ip] # None BY <1>2, <1>3, <1>8, Start, GoodLook
<1>10. Node(r.dp) \in Dinode /\ Node(r.dp).type # "none" BY <1>2, <1>6, LockedNode
<1>11. dnode \in Dinode /\ dnode.type # "none" BY <1>10, AddOK
<1> HIDE DEF dnode, c1
<1>12. Good(c2, d2, ref) BY <1>2, <1>9, <1>11, GoodUpdate
<1>13. Keeping(c2) /\ c2[r.ip] # None BY <1>2, <1>8, <1>9, <1>11, NoneIsNot, Start DEF Keeping, Good
<1>14. EntryOK'
  <2> DEFINE g == Restrict(entry[r.dp], DOMAIN entry[r.dp] \ {name})
  <2>1. \A n \in DOMAIN g : g[n] \in Inum BY <1>2, Start DEF EntryOK, Restrict
  <2>2. entry' = [entry EXCEPT ![r.dp] = g] BY <1>3
  <2> HIDE DEF g
  <2> QED BY <1>2, <2>1, <2>2, Start DEF EntryOK
<1> HIDE DEF c2, d2
<1> QED BY <1>2, <1>3, <1>4, <1>5, <1>7, <1>12, <1>13, <1>14, TwoUpdates

-----------------------------------------------------------------------------
(* The beginning of a call, and chdir *)

\* One reference more is counted for i.
LEMMA MoreIs ==
    ASSUME ref \in [Inum -> Nat], NEW i \in Inum, ref' = More(i)
    PROVE  \A j \in Inum : ref'[j] = ref[j] + N(i, j)
BY DEF More, N

\* Calls that refer to the same inodes.
SameInodes(r, s) == \A j \in Inum : Mine(r, j) = Mine(s, j)

\* namex may go on in record q.
Ready(q) ==
    /\ Fields(q) /\ q.op \in Op \cup {"link to"} /\ q.at \in Inum /\ q.put = None /\ q.dp = None
    /\ q.ip \in IF q.op = "link to" THEN Inum ELSE {None}

\* In record q namex has got i.
Starts(q, r, i) ==
    r.at = None /\ q.at = i /\ q.ip = r.ip /\ q.dp = r.dp /\ q.put = r.put

\* It has one inode more.
LEMMA Started ==
    ASSUME NEW r, NEW q, NEW i, Starts(q, r, i)
    PROVE  \A j \in Inum : Mine(q, j) = Mine(r, j) + N(i, j)
<1>1. Rearranged(r, q, i) BY DEF Starts, Rearranged
<1> QED BY <1>1, Balance

\* namex begins at i, with one reference more and with the cache c.
LEMMA BeginAt ==
    ASSUME Inv, NEW p \in Proc, NEW r, NEW c, NEW i \in Inum, NEW q, NEW s,
           SameInodes(r, proc[p]), Place(proc[p]) # "dead", Ready(q), Starts(q, r, i),
           s = Onward(q), Becomes(p, s), ref' = More(i), cached' = Got(c, i),
           Good(c, dinode', ref), Keeping(c), UNCHANGED <<entry, lock, files>>
    PROVE  Inv'
<1>1. /\ CallOK(s) /\ Place(s) # "dead" /\ \A j \in Inum : ~Keeps(s, j)
      /\ \A j \in Inum : Mine(s, j) = Mine(q, j)
  BY OnwardOK DEF Ready
<1>2. \A j \in Inum : Mine(q, j) = Mine(r, j) + N(i, j) BY Started
<1>3. \A j \in Inum : Mine(s, j) = Mine(proc[p], j) + N(i, j)
  BY <1>1, <1>2 DEF SameInodes
<1>4. ref \in [Inum -> Nat] /\ lock \in [Inum -> Proc \cup {None}] /\ EntryOK BY Start
<1>5. \A j \in Inum : ref'[j] = ref[j] + N(i, j) BY <1>4, MoreIs
<1>6. Good(cached', dinode', ref') /\ \A j \in Inum : c[j] # None /\ ref[j] > 0 => cached'[j] # None
  BY <1>4, GoodGot
<1>7. Tame(p) /\ Locking(p, s) BY <1>1, <1>6 DEF Tame, Locking, Keeping
<1>8. ref' = [j \in Inum |-> ref'[j]] /\ lock' \in [Inum -> Proc \cup {None}] /\ EntryOK'
  BY <1>4 DEF More, EntryOK
<1> QED BY <1>1, <1>3, <1>5, <1>6, <1>7, <1>8, GainStep

\* The same for the path that is given, in record r.
LEMMA BeginStep ==
    ASSUME Inv, NEW p \in Proc, NEW r, NEW path, NEW c, Begin(p, r, path, c),
           Fields(r), r.op \in Op \cup {"link to"}, r.at = None, r.put = None, r.dp = None,
           r.ip \in IF r.op = "link to" THEN Inum ELSE {None},
           SameInodes(r, proc[p]), Place(proc[p]) # "dead",
           Good(c, dinode', ref), Keeping(c), UNCHANGED <<entry, lock, files>>
    PROVE  Inv'
<1> DEFINE i == IF path.abs THEN Root ELSE cwd[p]
           q == [r EXCEPT !.rest = path.names, !.at = i]  s == Onward(q)
<1>1. i \in Inum
  <2>1. cwd[p] \in Inum BY DEF Inv, DeadHaveNone, TypeInv, Shaped
  <2> QED BY <2>1, InodesAssumption DEF InodesAssumption
<1>2. ref' = More(i) /\ cached' = Got(c, i) /\ Becomes(p, s) BY DEF Begin
<1> HIDE DEF i
<1>3. Fields(q) /\ q.op = r.op /\ q.at = i /\ q.ip = r.ip /\ q.dp = r.dp /\ q.put = r.put
  BY DEF Fields
<1>4. s = Onward(q) OBVIOUS
<1> HIDE DEF q, s
<1>5. Ready(q) /\ Starts(q, r, i) BY <1>1, <1>3 DEF Ready, Starts
<1> QED BY <1>1, <1>2, <1>4, <1>5, BeginAt

\* A system call begins: idup or iget count where namex starts.
LEMMA CallOKs == ASSUME Inv, NEW p \in Proc, Call(p) PROVE Inv'
<1> DEFINE r == proc[p]
<1>1. CallOK(r) /\ r.pc = "user" /\ ~Putting(r) BY Start DEF Call, At, Putting
<1>2. r.at = None /\ r.ip = None /\ r.dp = None /\ r.put = None BY <1>1, Where
<1>3. PICK c \in Calls[p] : Begin(p, [Idle EXCEPT !.op = c.op, !.new = c.new], c.path, cached)
  BY DEF Call
<1> DEFINE s == [Idle EXCEPT !.op = c.op, !.new = c.new]
<1>4. Fields(s) /\ s.op = c.op /\ s.at = None /\ s.ip = None /\ s.dp = None /\ s.put = None
  BY DEF Idle, Fields
<1>5. c.op \in Op BY InodesAssumption DEF InodesAssumption
<1>6. c.op # "link to" BY <1>5 DEF Op
<1>7. Begin(p, s, c.path, cached) BY <1>3
<1> HIDE DEF s
<1>8. SameInodes(s, r) BY <1>2, <1>4 DEF SameInodes, Mine
<1>9. UNCHANGED <<dinode, entry, lock, files>> BY DEF Call, disk
<1>10. Place(r) # "dead" BY <1>1 DEF Place, Putting
<1>11. Good(cached, dinode', ref) /\ Keeping(cached) BY <1>9, Start DEF Keeping
<1> QED BY <1>4, <1>5, <1>6, <1>7, <1>8, <1>9, <1>10, <1>11, BeginStep

\* link counts the link of an inode it has locked.
LEMMA LinkCountsOK == ASSUME Inv, NEW p \in Proc, LinkCounts(p) PROVE Inv'
<1> DEFINE r == proc[p]  node == Add(Node(r.ip), 1)
           s == [r EXCEPT !.op = "link to", !.new = None]  c == [cached EXCEPT ![r.ip] = node]
<1>1. CallOK(r) /\ r.pc = "link" /\ ~Putting(r) BY Start DEF LinkCounts, At, Putting
<1>2. Fields(r) /\ r.at = None /\ r.ip \in Inum /\ r.dp = None /\ r.put = None BY <1>1, Where
<1>3. Begin(p, s, r.new, c) /\ Ilock(r.ip) /\ dinode' = [dinode EXCEPT ![r.ip] = node]
      /\ UNCHANGED <<entry, lock, files>>
  BY DEF LinkCounts
<1>4. Fields(s) /\ s.op = "link to" /\ s.at = r.at /\ s.ip = r.ip /\ s.dp = r.dp /\ s.put = r.put
  BY <1>2 DEF Fields
<1>5. ref[r.ip] > 0 /\ Good(cached, dinode, ref) BY <1>2, Start
<1>6. node \in Dinode /\ node.type # "none"
  <2>1. Node(r.ip) \in Dinode /\ Node(r.ip).type # "none" BY <1>2, <1>3, <1>5, GoodLook
  <2> QED BY <2>1, AddOK
<1> HIDE DEF s, node
<1>7. Good(c, dinode', ref) BY <1>2, <1>3, <1>5, <1>6, GoodUpdate
<1>8. Keeping(c) BY <1>2, <1>5, <1>6, NoneIsNot DEF Keeping, Good
<1> HIDE DEF c
<1>9. SameInodes(s, r) BY <1>4 DEF SameInodes, Mine
<1>10. Place(r) # "dead" BY <1>1 DEF Place, Putting
<1> QED BY <1>2, <1>3, <1>4, <1>7, <1>8, <1>9, <1>10, BeginStep

\* chdir: cwd and ip change places.
LEMMA ChdirOK == ASSUME Inv, NEW p \in Proc, Chdir(p) PROVE Inv'
<1> DEFINE r == proc[p]
<1>1. CallOK(r) /\ r.pc = "chdir" /\ ~Putting(r) BY Start DEF Chdir, At, Putting
<1>2. Fields(r) /\ r.at = None /\ r.ip \in Inum /\ r.dp = None /\ r.put = None BY <1>1, Where
<1>3. Ilock(r.ip) /\ cached' = Look(r.ip) /\ UNCHANGED <<disk, ref, lock, file, ofile>> BY DEF Chdir
<1>4. Place(r) = "chdir" BY <1>1 DEF Place, Putting
<1>5. ref[r.ip] > 0 /\ EntryOK' BY <1>2, <1>3, Start DEF disk, EntryOK
<1>6. CASE ~IsDir(r.ip)
  <2>1. PutsIp(p, "user") /\ UNCHANGED <<dinode, ref, lock, files>> BY <1>6, <1>3 DEF Chdir, disk, files
  <2>2. PICK s : Becomes(p, s) /\ CallOK(s) /\ Rearranged(r, s, None) /\ Place(s) = "user"
    BY <1>1, <1>2, <2>1, PutsIpCall
  <2>3. \A j \in Inum : ~Keeps(s, j) BY <2>2 DEF Keeps
  <2> QED BY <1>2, <1>3, <1>4, <1>5, <2>1, <2>2, <2>3, LookStep
<1>7. CASE IsDir(r.ip)
  <2> DEFINE s == [Puts(r, cwd[p], "user") EXCEPT !.ip = None]
  <2>1. cwd' = [cwd EXCEPT ![p] = r.ip] /\ Becomes(p, s) BY <1>7 DEF Chdir
  <2>2. PutsAs(s, r, cwd[p], "user") /\ s.at = r.at /\ s.ip = None /\ s.dp = r.dp
    BY <1>2 DEF Puts, Fields, PutsAs
  <2>3. cwd[p] \in Inum /\ cwd \in [Proc -> Inum \cup {None}]
    BY <1>4 DEF Inv, DeadHaveNone, TypeInv, Shaped
  <2> HIDE DEF s
  <2>4. CallOK(s) /\ Place(s) = "user" /\ \A j \in Inum : ~Keeps(s, j)
    BY <1>2, <2>2, <2>3 DEF PutsAs, CallOK, Place, Putting, DpPlace, IpPlace, Makes, Keeps
  <2>5. Good(cached', dinode', ref') /\ Keeping(cached')
    BY <1>2, <1>3, <1>5, Start, GoodLook DEF disk
  <2>6. Tame(p) /\ Locking(p, s) BY <1>3, <2>4, <2>5 DEF Tame, Locking
  <2>7. cwd'[p] = r.ip /\ r.ip # None BY <1>2, <2>1, <2>3, NoneIsNot
  <2>8. Typed' BY <1>2, <1>3, <1>5, <2>1, <2>3, <2>5, Start DEF Typed
  <2>9. \A j \in Inum : ref'[j] = (ref[j] - Has(p, j)) + (Mine(s, j) + N(cwd'[p], j))
    <3> SUFFICES ASSUME NEW j \in Inum
                 PROVE  ref'[j] = (ref[j] - Has(p, j)) + (Mine(s, j) + N(cwd'[p], j))
      OBVIOUS
    <3> DEFINE a == ref[j]  b == N(cwd[p], j)  e == N(r.ip, j)  z == N(None, j)
    <3>1. a \in Int /\ b \in Int /\ e \in Int /\ z = 0 BY Start, NFacts
    <3>2. Has(p, j) = (z + e + z + z) + b BY <1>2 DEF Has, Mine
    <3>3. Mine(s, j) = z + z + z + b BY <1>2, <2>2 DEF Mine, PutsAs
    <3>4. N(cwd'[p], j) = e /\ ref'[j] = a BY <1>3, <2>7
    <3> HIDE DEF a, b, e, z
    <3>5. ref'[j] = (a - Has(p, j)) + (Mine(s, j) + N(cwd'[p], j)) BY <3>1, <3>2, <3>3, <3>4
    <3> QED BY <3>5 DEF a
  <2> QED BY <1>3, <2>1, <2>3, <2>4, <2>6, <2>7, <2>8, <2>9, CallStep
<1> QED BY <1>6, <1>7

-----------------------------------------------------------------------------
(* Open files *)

\* The processes that have file f open.
Users(f) == {q \in Proc : ofile[q] = f}

\* There are finitely many.
LEMMA UsersFinite == ASSUME NEW f PROVE IsFiniteSet(Users(f)) /\ IsFiniteSet(Users(f)')
<1>1. Users(f) \subseteq Proc /\ Users(f)' \subseteq Proc BY DEF Users
<1> QED BY <1>1, InodesAssumption, FS_Subset DEF InodesAssumption

\* What p opens or closes is counted.
LEMMA UsersChange ==
    ASSUME Shaped, NEW p \in Proc, NEW g, ofile' = [ofile EXCEPT ![p] = g], NEW f
    PROVE  Cardinality(Users(f)') = (Cardinality(Users(f)) - N(ofile[p], f)) + N(g, f)
<1> DEFINE S == Users(f)  T == Users(f)'  a == N(ofile[p], f)  b == N(g, f)
           m == Cardinality(S \ {p})
<1>1. ofile \in [Proc -> File \cup {None}] BY DEF Shaped
<1>2. S \ {p} = T \ {p} BY <1>1 DEF Users
<1>3. In(p, S) = a /\ In(p, T) = b BY <1>1 DEF Users, In, N
<1>4. IsFiniteSet(S) /\ IsFiniteSet(T) BY UsersFinite
<1>5. a \in Int /\ b \in Int BY NFacts
<1> HIDE DEF S, T, a, b
<1>6. m \in Nat /\ Cardinality(S) = m + a /\ Cardinality(T) = m + b BY <1>2, <1>3, <1>4, OneLess
<1> HIDE DEF m
<1>7. Cardinality(T) = (Cardinality(S) - a) + b BY <1>5, <1>6
<1> QED BY <1>7 DEF S, T, a, b

\* FilesExact with Users.
LEMMA FilesExactIs ==
    FilesExact <=> \A f \in File : /\ file[f].ref = Cardinality(Users(f))
                                   /\ file[f].ref = 0 <=> file[f].ip = None
BY DEF FilesExact, Users

\* FilesExact in the next state, in terms of Users.
LEMMA FilesExactNext ==
    FilesExact' <=> \A f \in File : /\ file'[f].ref = Cardinality(Users(f)')
                                    /\ file'[f].ref = 0 <=> file'[f].ip = None
BY DEF FilesExact, Users

\* The files after p has g instead of what it had open.
LEMMA FilesCounted ==
    ASSUME Inv, NEW p \in Proc, NEW g, ofile' = [ofile EXCEPT ![p] = g],
           \A f \in File : /\ file'[f].ref = (file[f].ref - N(ofile[p], f)) + N(g, f)
                           /\ file'[f].ref = 0 <=> file'[f].ip = None
    PROVE  FilesExact'
<1>1. \A f \in File : file'[f].ref = Cardinality(Users(f)')
  <2> TAKE f \in File
  <2>1. Cardinality(Users(f)') = (Cardinality(Users(f)) - N(ofile[p], f)) + N(g, f)
    BY UsersChange DEF Inv, TypeInv
  <2>2. file[f].ref = Cardinality(Users(f)) BY FilesExactIs DEF Inv
  <2> QED BY <2>1, <2>2
<1> QED BY <1>1, FilesExactNext

\* A file that is open has an inode and is counted.
LEMMA OpenFile ==
    ASSUME Inv, NEW p \in Proc, NEW f \in File, ofile[p] = f
    PROVE  file[f].ref \in Nat /\ file[f].ref >= 1 /\ file[f].ip \in Inum
<1>1. Users(f) # {} BY DEF Users
<1>2. Cardinality(Users(f)) \in Nat /\ Cardinality(Users(f)) # 0
  BY <1>1, UsersFinite, FS_CardinalityType, FS_EmptySet
<1>3. file[f].ref = Cardinality(Users(f)) /\ file[f].ip # None BY <1>2, FilesExactIs DEF Inv
<1>4. file[f].ip \in Inum \cup {None} BY DEF Inv, TypeInv, Shaped
<1> QED BY <1>2, <1>3, <1>4

\* The references after a step that changes what p and file f refer to.
LEMMA FileCounted ==
    ASSUME Inv, NEW p \in Proc, NEW f \in File, NEW s, Becomes(p, s), UNCHANGED <<ref, cwd>>,
           \A g \in File \ {f} : file'[g].ip = file[g].ip,
           \A i \in Inum : Mine(s, i) + N(file'[f].ip, i) = Mine(proc[p], i) + N(file[f].ip, i)
    PROVE  \A i \in Inum : ref'[i] = Cardinality(Held(i)')
<1> SUFFICES ASSUME NEW i \in Inum PROVE ref'[i] = Cardinality(Held(i)')
  OBVIOUS
<1>1. proc'[p] = s /\ \A q \in Proc \ {p} : proc'[q] = proc[q]
  BY DEF Becomes, Inv, TypeInv, Shaped
<1> DEFINE h == Cardinality(Held(i))  m == Mine(proc[p], i)  n == N(file[f].ip, i)
           m1 == Mine(proc'[p], i)  n1 == N(file'[f].ip, i)
<1>2. Cardinality(Held(i)') = (h - (m + n)) + (m1 + n1) BY <1>1, HeldFileStep
<1>3. ref[i] = h /\ ref[i] \in Nat BY DEF Inv, RefsExact, TypeInv, Shaped
<1>4. m \in Int /\ n \in Int /\ m1 + n1 = m + n BY <1>1, MineInt, NFacts
<1> HIDE DEF h, m, n, m1, n1
<1>5. (h - (m + n)) + (m1 + n1) = h BY <1>3, <1>4
<1> QED BY <1>2, <1>3, <1>5

\* What open starts from.
LEMMA Opening ==
    ASSUME Inv, NEW p \in Proc, Open(p)
    PROVE  /\ CallOK(proc[p]) /\ ~Putting(proc[p]) /\ proc[p].pc # "walk" /\ Place(proc[p]) # "dead"
           /\ proc[p].ip \in Inum /\ proc[p].at = None /\ proc[p].dp = None /\ proc[p].put = None
           /\ ref[proc[p].ip] > 0 /\ lock[proc[p].ip] \in {None, p}
           /\ cached' = cached \/ (cached' = Look(proc[p].ip) /\ Ilock(proc[p].ip))
<1> DEFINE r == proc[p]  i == r.ip
<1>1. CallOK(r) /\ r.pc \in {"open", "exists", "made"} /\ ~Putting(r)
  BY Start DEF Open, Opens, At, Putting
<1>2. i \in Inum /\ r.at = None /\ r.dp = None /\ r.put = None BY <1>1, Where
<1>3. cached' = Look(i) BY DEF Open
<1>4. Place(r) # "dead" BY <1>1 DEF Place
<1>5. ref[i] > 0 BY <1>2, Start
<1>6. CASE r.pc \in {"open", "exists"}
  <2>1. Ilock(i) BY <1>6 DEF Open, Opens, At
  <2>2. lock[i] = None BY <2>1 DEF Ilock, Unlocked
  <2> QED BY <1>1, <1>2, <1>3, <1>4, <1>5, <2>1, <2>2
<1>7. CASE r.pc = "made"
  <2>1. Keeps(r, i) BY <1>7 DEF Keeps, Place, Putting
  <2>2. lock[i] = p BY <1>2, <2>1, Start
  <2>3. Node(i) = cached[i] BY <1>2, <2>1, LockedNode
  <2>4. cached' = cached BY <1>3, <2>3, Start DEF Look, Good
  <2> QED BY <1>1, <1>2, <1>4, <1>5, <2>2, <2>4
<1> QED BY <1>1, <1>6, <1>7

\* A call that is over refers to nothing.
LEMMA IdleFields ==
    /\ CallOK(Idle) /\ Place(Idle) = "user"
    /\ Idle.at = None /\ Idle.ip = None /\ Idle.dp = None /\ Idle.put = None
    /\ \A i \in Inum : ~Keeps(Idle, i)
BY DEF Idle, CallOK, Fields, Place, Putting, DpPlace, IpPlace, Makes, Keeps

\* open: the file takes over the reference of ip.
LEMMA OpenOK == ASSUME Inv, NEW p \in Proc, Open(p) PROVE Inv'
<1> DEFINE r == proc[p]  i == r.ip
<1>1. /\ CallOK(r) /\ ~Putting(r) /\ r.pc # "walk" /\ Place(r) # "dead"
      /\ i \in Inum /\ r.at = None /\ r.dp = None /\ r.put = None
      /\ ref[i] > 0 /\ lock[i] \in {None, p}
      /\ cached' = cached \/ (cached' = Look(i) /\ Ilock(i))
  BY Opening
<1>2. lock' = [lock EXCEPT ![i] = None] /\ UNCHANGED <<dinode, entry, ref, cwd>> BY DEF Open, Lock, disk
<1>3. CASE PutsIp(p, "user") /\ UNCHANGED <<file, ofile>>
  <2>1. PICK s : Becomes(p, s) /\ CallOK(s) /\ Rearranged(r, s, None) /\ Place(s) = "user"
    BY <1>1, <1>3, PutsIpCall
  <2>2. \A j \in Inum : ~Keeps(s, j) BY <2>1 DEF Keeps
  <2>3. UNCHANGED <<dinode, entry, ref, files>> BY <1>2, <1>3 DEF files
  <2> QED BY <1>1, <1>2, <2>1, <2>2, <2>3, ReleaseStep
<1>4. ASSUME NEW f \in File, file[f].ref = 0, file' = [file EXCEPT ![f] = [ref |-> 1, ip |-> i]],
             ofile' = [ofile EXCEPT ![p] = f], ofile[p] = None, Becomes(p, Idle)
      PROVE  Inv'
  <2>1. file \in [File -> [ref : Nat, ip : Inum \cup {None}]] /\ ofile \in [Proc -> File \cup {None}]
        /\ cwd \in [Proc -> Inum \cup {None}]
    BY DEF Inv, TypeInv, Shaped
  <2>2. file[f].ip = None BY <1>4, FilesExactIs DEF Inv
  <2>3. /\ file'[f].ref = 1 /\ file'[f].ip = i
        /\ \A g \in File \ {f} : file'[g] = file[g]
    BY <1>4, <2>1
  <2>4. file' \in [File -> [ref : Nat, ip : Inum \cup {None}]] /\ ofile' \in [Proc -> File \cup {None}]
    <3>1. [ref |-> 1, ip |-> i] \in [ref : Nat, ip : Inum \cup {None}] BY <1>1
    <3> QED BY <1>4, <2>1, <3>1
  <2>5. FilesExact'
    <3>1. \A g \in File : /\ file'[g].ref = (file[g].ref - N(ofile[p], g)) + N(f, g)
                          /\ file'[g].ref = 0 <=> file'[g].ip = None
      <4> TAKE g \in File
      <4>1. N(ofile[p], g) = 0 BY <1>4, NoneIsNot DEF N
      <4>2. file[g].ref \in Nat BY <2>1
      <4>3. CASE g = f BY <4>1, <4>3, <2>3, <1>4, <1>1, NoneIsNot DEF N
      <4>4. CASE g # f
        <5>1. N(f, g) = 0 BY <4>4 DEF N
        <5>2. file[g].ref = 0 <=> file[g].ip = None BY FilesExactIs DEF Inv
        <5> QED BY <4>1, <4>2, <4>4, <5>1, <5>2, <2>3
      <4> QED BY <4>3, <4>4
    <3> QED BY <1>4, <3>1, FilesCounted, ZenonT(60)
  <2>6. \A j \in Inum : ref'[j] = Cardinality(Held(j)')
    <3>1. \A j \in Inum : Mine(Idle, j) + N(file'[f].ip, j) = Mine(r, j) + N(file[f].ip, j)
      <4> TAKE j \in Inum
      <4> DEFINE z == N(None, j)  e == N(i, j)
      <4>1. z = 0 /\ e \in Int BY NFacts
      <4>2. Mine(Idle, j) = z + z + z + z BY IdleFields DEF Mine
      <4>3. Mine(r, j) = z + e + z + z BY <1>1 DEF Mine
      <4>4. N(file'[f].ip, j) = e /\ N(file[f].ip, j) = z BY <2>2, <2>3
      <4> HIDE DEF z, e
      <4> QED BY <4>1, <4>2, <4>3, <4>4
    <3> QED BY <1>2, <1>4, <2>3, <3>1, FileCounted
  <2>7. Good(cached', dinode', ref') /\ Keeping(cached')
    BY <1>1, <1>2, Start, GoodLook DEF Keeping
  <2>8. Typed' BY <1>2, <2>1, <2>7, Start DEF Typed, EntryOK
  <2>9. Tame(p) /\ Locking(p, Idle) BY <1>1, <1>2, <2>7, IdleFields, Start DEF Tame, Locking
  <2>10. cwd'[p] # None BY <1>1, <1>2 DEF Inv, DeadHaveNone
  <2>11. \A q \in Proc \ {p} : cwd'[q] = cwd[q] /\ ofile'[q] = ofile[q] BY <1>2, <1>4, <2>1
  <2> QED BY <1>4, <2>4, <2>5, <2>6, <2>8, <2>9, <2>10, <2>11, IdleFields, Preserved
<1> QED BY <1>3, <1>4 DEF Open

\* Call s and inode k instead of the call of p and the inode of its file.
Gives(p, s, k) ==
    \A j \in Inum : Mine(s, j) + N(k, j) = Mine(proc[p], j) + N(file[ofile[p]].ip, j)

\* p closes its file, which has n references and inode k then.
LEMMA CloseStep ==
    ASSUME Inv, NEW p \in Proc, Close(p), NEW s, Becomes(p, s), CallOK(s), Place(s) = "user",
           NEW n, NEW k \in Inum \cup {None}, n = file[ofile[p]].ref - 1, n = 0 <=> k = None,
           file' = [file EXCEPT ![ofile[p]] = [ref |-> n, ip |-> k]], Gives(p, s, k)
    PROVE  Inv'
<1> DEFINE r == proc[p]  f == ofile[p]
<1>1. CallOK(r) /\ r.pc = "user" /\ ~Putting(r) BY Start DEF Close, At, Putting
<1>2. r.at = None /\ r.ip = None /\ r.dp = None /\ r.put = None BY <1>1, Where
<1>3. file \in [File -> [ref : Nat, ip : Inum \cup {None}]] /\ ofile \in [Proc -> File \cup {None}]
      /\ cwd \in [Proc -> Inum \cup {None}] /\ proc = [q \in Proc |-> proc[q]]
  BY DEF Inv, TypeInv, Shaped
<1>4. f \in File BY <1>3 DEF Close
<1>5. file[f].ref \in Nat /\ file[f].ref >= 1 /\ file[f].ip \in Inum BY <1>4, OpenFile
<1>6. ofile' = [ofile EXCEPT ![p] = None] /\ UNCHANGED <<disk, ref, cached, lock, cwd>> BY DEF Close
<1>7. Place(r) = "user" BY <1>1 DEF Place
<1>8. cwd'[p] # None BY <1>6, <1>7 DEF Inv, DeadHaveNone
<1>9. \A q \in Proc \ {p} : cwd'[q] = cwd[q] /\ ofile'[q] = ofile[q] BY <1>3, <1>6
<1>10. ofile' \in [Proc -> File \cup {None}] BY <1>3, <1>6
<1>11. Typed' BY <1>6, <1>3, Start DEF Typed, disk, EntryOK
<1>12. Tame(p) BY <1>6 DEF Tame, Keeping
<1>14. n \in Nat /\ file'[f].ref = n /\ file'[f].ip = k /\ \A g \in File \ {f} : file'[g] = file[g]
  BY <1>3, <1>4, <1>5
<1>15. file' \in [File -> [ref : Nat, ip : Inum \cup {None}]]
  <2>1. [ref |-> n, ip |-> k] \in [ref : Nat, ip : Inum \cup {None}] BY <1>14
  <2> QED BY <1>3, <2>1
<1>16. FilesExact'
  <2>1. \A g \in File : /\ file'[g].ref = (file[g].ref - N(ofile[p], g)) + N(None, g)
                        /\ file'[g].ref = 0 <=> file'[g].ip = None
    <3> TAKE g \in File
    <3>1. N(None, g) = 0 /\ file[g].ref \in Nat BY <1>3, NoneIsNot DEF N
    <3>2. CASE g = f
      <4>1. N(ofile[p], g) = 1 BY <3>2 DEF N
      <4> QED BY <3>1, <3>2, <4>1, <1>5, <1>14
    <3>3. CASE g # f
      <4>1. N(ofile[p], g) = 0 BY <3>3 DEF N
      <4>2. file[g].ref = 0 <=> file[g].ip = None BY FilesExactIs DEF Inv
      <4> QED BY <3>1, <3>3, <4>1, <4>2, <1>14
    <3> QED BY <3>2, <3>3
  <2> QED BY <1>6, <2>1, FilesCounted
<1>17. \A j \in Inum : ref'[j] = Cardinality(Held(j)') BY <1>4, <1>6, <1>14, FileCounted DEF Gives
<1>18. Locking(p, s) BY DEF Locking, Keeps
<1> QED BY <1>8, <1>9, <1>10, <1>11, <1>12, <1>15, <1>16, <1>17, <1>18, Preserved

\* close: the last descriptor gives the reference of the file to iput.
LEMMA CloseOK == ASSUME Inv, NEW p \in Proc, Close(p) PROVE Inv'
<1> DEFINE r == proc[p]  f == ofile[p]  n == file[f].ref - 1  i == file[f].ip
<1>1. CallOK(r) /\ r.pc = "user" /\ ~Putting(r) BY Start DEF Close, At, Putting
<1>2. r.at = None /\ r.ip = None /\ r.dp = None /\ r.put = None /\ Place(r) = "user"
  BY <1>1, Where DEF Place
<1>3. file \in [File -> [ref : Nat, ip : Inum \cup {None}]] /\ f \in File
      /\ proc = [q \in Proc |-> proc[q]]
  BY DEF Inv, TypeInv, Shaped, Close
<1>4. file[f].ref \in Nat /\ file[f].ref >= 1 /\ i \in Inum BY <1>3, OpenFile
<1>5. CASE file[f].ref > 1
  <2>1. file' = [file EXCEPT ![f].ref = @ - 1] /\ proc' = proc BY <1>5 DEF Close
  <2>2. Becomes(p, r) BY <2>1, <1>3 DEF Becomes
  <2>3. file' = [file EXCEPT ![f] = [ref |-> n, ip |-> i]]
    <3>1. [file[f] EXCEPT !.ref = @ - 1] = [ref |-> n, ip |-> i] BY <1>3
    <3> QED BY <2>1, <3>1
  <2>4. n # 0 /\ i # None BY <1>4, <1>5, NoneIsNot
  <2>5. Gives(p, r, i) BY DEF Gives
  <2> HIDE DEF r, n, i
  <2> QED BY <1>1, <1>2, <1>4, <2>2, <2>3, <2>4, <2>5, CloseStep DEF n
<1>6. CASE ~(file[f].ref > 1)
  <2> DEFINE s == Puts(Idle, i, "user")
  <2>1. file' = [file EXCEPT ![f] = [ref |-> 0, ip |-> None]] /\ Becomes(p, s) BY <1>6 DEF Close
  <2>2. PutsAs(s, Idle, i, "user") /\ s.at = None /\ s.ip = None /\ s.dp = None
    BY DEF Puts, PutsAs, Idle, Fields
  <2> HIDE DEF s
  <2>3. CallOK(s) /\ Place(s) = "user"
    BY <1>4, <2>2 DEF PutsAs, CallOK, Place, Putting, DpPlace, IpPlace, Makes
  <2>4. 0 = n BY <1>6, <1>4
  <2>5. Gives(p, s, None)
    <3> SUFFICES ASSUME NEW j \in Inum
                 PROVE  Mine(s, j) + N(None, j) = Mine(r, j) + N(i, j)
      BY DEF Gives
    <3> DEFINE z == N(None, j)  e == N(i, j)
    <3>1. z = 0 /\ e \in Int BY NFacts
    <3>2. Mine(s, j) = z + z + z + e BY <2>2 DEF Mine, PutsAs
    <3>3. Mine(r, j) = z + z + z + z BY <1>2 DEF Mine
    <3> HIDE DEF z, e
    <3>4. (z + z + z + e) + z = (z + z + z + z) + e BY <3>1
    <3> QED BY <3>2, <3>3, <3>4 DEF z, e
  <2> HIDE DEF r, i
  <2> QED BY <2>1, <2>3, <2>4, <2>5, CloseStep
<1> QED BY <1>5, <1>6

-----------------------------------------------------------------------------
(* Processes that come and go *)

\* exit: the reference of cwd goes to iput, the process ends.
LEMMA ExitOK == ASSUME Inv, NEW p \in Proc, Exit(p) PROVE Inv'
<1> DEFINE r == proc[p]  d == cwd[p]  s == Puts(Idle, d, "dead")
<1>1. CallOK(r) /\ r.pc = "user" /\ ~Putting(r) BY Start DEF Exit, At, Putting
<1>2. r.at = None /\ r.ip = None /\ r.dp = None /\ r.put = None BY <1>1, Where
<1>3. Place(r) = "user" BY <1>1 DEF Place
<1>4. d \in Inum /\ cwd \in [Proc -> Inum \cup {None}] BY <1>3 DEF Inv, DeadHaveNone, TypeInv, Shaped
<1>5. Becomes(p, s) /\ cwd' = [cwd EXCEPT ![p] = None] /\ ofile[p] = None
      /\ UNCHANGED <<disk, ref, cached, lock, file, ofile>>
  BY DEF Exit
<1>6. PutsAs(s, Idle, d, "dead") /\ s.at = None /\ s.ip = None /\ s.dp = None
  BY DEF Puts, PutsAs, Idle, Fields
<1> HIDE DEF s
<1>7. CallOK(s) /\ Place(s) = "dead" /\ \A j \in Inum : ~Keeps(s, j)
  BY <1>4, <1>6 DEF PutsAs, CallOK, Place, Putting, DpPlace, IpPlace, Makes, Keeps
<1>8. Tame(p) /\ Locking(p, s) BY <1>5, <1>7 DEF Tame, Keeping, Locking
<1>9. Typed' BY <1>4, <1>5, Start DEF Typed, disk, EntryOK
<1>10. cwd'[p] = None /\ \A q \in Proc \ {p} : cwd'[q] = cwd[q] BY <1>4, <1>5
<1>11. \A j \in Inum : ref'[j] = (ref[j] - Has(p, j)) + (Mine(s, j) + N(cwd'[p], j))
  <2> SUFFICES ASSUME NEW j \in Inum
               PROVE  ref'[j] = (ref[j] - Has(p, j)) + (Mine(s, j) + N(cwd'[p], j))
    OBVIOUS
  <2> DEFINE a == ref[j]  b == N(d, j)  z == N(None, j)
  <2>1. a \in Int /\ b \in Int /\ z = 0 BY Start, NFacts
  <2>2. Has(p, j) = (z + z + z + z) + b BY <1>2 DEF Has, Mine
  <2>3. Mine(s, j) = z + z + z + b BY <1>6 DEF Mine, PutsAs
  <2>4. N(cwd'[p], j) = z /\ ref'[j] = a BY <1>5, <1>10
  <2> HIDE DEF a, b, z
  <2>5. ref'[j] = (a - Has(p, j)) + (Mine(s, j) + N(cwd'[p], j)) BY <2>1, <2>2, <2>3, <2>4
  <2> QED BY <2>5 DEF a
<1> QED BY <1>5, <1>7, <1>8, <1>9, <1>10, <1>11, CallStep

\* fork: the child counts the file and the current directory.
LEMMA ForkOK == ASSUME Inv, NEW p \in Proc, NEW child \in Proc, Fork(p, child) PROVE Inv'
<1> DEFINE r == proc[child]  d == cwd[p]  g == ofile[p]
<1>1. CallOK(r) /\ r.pc = "dead" /\ ~Putting(r) /\ Place(proc[p]) = "user"
  BY Start DEF Fork, At, Putting, Place
<1>2. r.at = None /\ r.ip = None /\ r.dp = None /\ r.put = None /\ Place(r) = "dead"
  BY <1>1, Where DEF Place
<1>3. /\ cwd \in [Proc -> Inum \cup {None}] /\ ofile \in [Proc -> File \cup {None}]
      /\ file \in [File -> [ref : Nat, ip : Inum \cup {None}]]
  BY DEF Inv, TypeInv, Shaped
<1>4. d \in Inum /\ d # None /\ g \in File \cup {None} /\ cwd[child] = None /\ ofile[child] = None
  BY <1>1, <1>2, <1>3 DEF Inv, DeadHaveNone
<1>5. /\ Becomes(child, Idle) /\ ofile' = [ofile EXCEPT ![child] = g]
      /\ cwd' = [cwd EXCEPT ![child] = d] /\ ref' = More(d) /\ UNCHANGED <<disk, cached, lock>>
      /\ file' = [f \in File |-> IF f = g THEN [file[f] EXCEPT !.ref = @ + 1] ELSE file[f]]
  BY DEF Fork
<1>6. /\ cwd'[child] = d /\ ofile' \in [Proc -> File \cup {None}]
      /\ cwd' \in [Proc -> Inum \cup {None}]
      /\ \A q \in Proc \ {child} : cwd'[q] = cwd[q] /\ ofile'[q] = ofile[q]
  BY <1>3, <1>4, <1>5
<1>7. \A f \in File : /\ file'[f] \in [ref : Nat, ip : Inum \cup {None}]
                      /\ file'[f].ip = file[f].ip
                      /\ file'[f].ref = file[f].ref + N(g, f)
  <2> TAKE f \in File
  <2>1. file[f] \in [ref : Nat, ip : Inum \cup {None}] BY <1>3
  <2>2. CASE f = g
    <3>1. file'[f] = [file[f] EXCEPT !.ref = @ + 1] /\ N(g, f) = 1 BY <1>5, <2>2 DEF N
    <3> QED BY <2>1, <3>1
  <2>3. CASE f # g
    <3>1. file'[f] = file[f] /\ N(g, f) = 0 BY <1>5, <2>3 DEF N
    <3> QED BY <2>1, <3>1
  <2> QED BY <2>2, <2>3
<1>8. file' \in [File -> [ref : Nat, ip : Inum \cup {None}]] BY <1>5, <1>7
<1>9. FilesExact'
  <2>1. \A f \in File : /\ file'[f].ref = (file[f].ref - N(ofile[child], f)) + N(g, f)
                        /\ file'[f].ref = 0 <=> file'[f].ip = None
    <3> TAKE f \in File
    <3>1. N(ofile[child], f) = 0 BY <1>4, NoneIsNot DEF N
    <3>2. file[f].ref \in Nat /\ (file[f].ref = 0 <=> file[f].ip = None)
      BY <1>3, FilesExactIs DEF Inv
    <3>3. CASE g = f
      <4>1. file[f].ref # 0
        <5>1. file[f].ref >= 1 BY <3>3, OpenFile
        <5> QED BY <5>1, <3>2
      <4>2. N(g, f) = 1 BY <3>3 DEF N
      <4>3. file'[f].ref = file[f].ref + 1 /\ file'[f].ip = file[f].ip BY <1>7, <4>2
      <4>4. file'[f].ref = (file[f].ref - 0) + 1 /\ file'[f].ref # 0 BY <3>2, <4>3
      <4> QED BY <3>1, <3>2, <4>1, <4>2, <4>3, <4>4
    <3>4. CASE g # f
      <4>1. N(g, f) = 0 BY <3>4 DEF N
      <4>2. file'[f].ref = file[f].ref + 0 /\ file'[f].ip = file[f].ip BY <1>7, <4>1
      <4>3. file'[f].ref = file[f].ref BY <3>2, <4>2
      <4>4. (file[f].ref - 0) + 0 = file[f].ref BY <3>2
      <4> QED BY <3>1, <3>2, <4>1, <4>2, <4>3, <4>4
    <3> QED BY <3>3, <3>4
  <2>2. ofile' = [ofile EXCEPT ![child] = g] BY <1>5
  <2> HIDE DEF g
  <2> QED BY <2>1, <2>2, FilesCounted
<1>10. \A j \in Inum : ref'[j] = (ref[j] - Has(child, j)) + (Mine(Idle, j) + N(cwd'[child], j))
  <2> SUFFICES ASSUME NEW j \in Inum
               PROVE  ref'[j] = (ref[j] - Has(child, j)) + (Mine(Idle, j) + N(cwd'[child], j))
    OBVIOUS
  <2> DEFINE a == ref[j]  b == N(d, j)  z == N(None, j)
  <2>1. a \in Int /\ b \in Int /\ z = 0 BY Start, NFacts
  <2>2. Has(child, j) = (z + z + z + z) + z BY <1>2, <1>4 DEF Has, Mine
  <2>3. Mine(Idle, j) = z + z + z + z BY IdleFields DEF Mine
  <2>4. N(cwd'[child], j) = b BY <1>6
  <2>5. ref'[j] = a + b BY <1>4, <1>5, Start, MoreIs
  <2> HIDE DEF a, b, z
  <2>6. ref'[j] = (a - Has(child, j)) + (Mine(Idle, j) + N(cwd'[child], j))
    BY <2>1, <2>2, <2>3, <2>4, <2>5
  <2> QED BY <2>6 DEF a
<1>11. \A j \in Inum : ref'[j] = Cardinality(Held(j)') BY <1>5, <1>6, <1>7, <1>10, RefsCounted
<1>12. Good(cached', dinode', ref')
  <2>1. ref \in [Inum -> Nat] /\ ref[d] > 0 BY <1>4, Start
  <2>2. \A j \in Inum : ref'[j] > 0 => ref[j] > 0 BY <1>4, <1>5, <2>1 DEF More
  <2> QED BY <1>5, <2>2, Start DEF Good, disk
<1>13. Typed' BY <1>5, <1>6, <1>12, Start DEF Typed, disk, EntryOK, More
<1>14. Tame(child) /\ Locking(child, Idle) BY <1>5, IdleFields DEF Tame, Keeping, Locking
<1> QED BY <1>4, <1>5, <1>6, <1>8, <1>9, <1>11, <1>13, <1>14, IdleFields, Preserved

-----------------------------------------------------------------------------
(* The invariant *)

\* It holds at first: only the directory of the first process is referred to.
LEMMA InitInv == Init => Inv
<1> SUFFICES ASSUME Init PROVE Inv
  OBVIOUS
<1> DEFINE Dead == [Idle EXCEPT !.pc = "dead"]
<1>1. InitProc \in Proc /\ Root \in Inum BY InodesAssumption DEF InodesAssumption
<1>2. /\ Fields(Dead) /\ Dead.pc = "dead" /\ Dead.at = None /\ Dead.ip = None /\ Dead.dp = None
      /\ Dead.put = None
  BY DEF Idle, Fields
<1> HIDE DEF Dead
<1>3. CallOK(Dead) /\ Place(Dead) = "dead" /\ \A i \in Inum : ~Keeps(Dead, i)
  BY <1>2 DEF CallOK, Place, Putting, DpPlace, IpPlace, Makes, Keeps
<1>4. \A p \in Proc : /\ proc[p] \in {Idle, Dead}
                      /\ p = InitProc => proc[p] = Idle /\ cwd[p] = Root
                      /\ p # InitProc => proc[p] = Dead /\ cwd[p] = None
  BY DEF Init, Dead
<1>5. Shaped
  <2>1. dinode \in [Inum -> Dinode] BY DEF Init, Dinode, Free
  <2>2. EntryOK BY <1>1 DEF Init, EntryOK, Dots, Named
  <2>3. ref \in [Inum -> Nat] /\ cached \in [Inum -> Dinode \cup {None}]
        /\ lock \in [Inum -> Proc \cup {None}]
    BY DEF Init
  <2>4. file \in [File -> [ref : Nat, ip : Inum \cup {None}]] /\ ofile \in [Proc -> File \cup {None}]
        /\ cwd \in [Proc -> Inum \cup {None}]
    BY <1>1 DEF Init
  <2>5. proc = [p \in Proc |-> proc[p]] BY DEF Init
  <2> QED BY <2>1, <2>2, <2>3, <2>4, <2>5 DEF Shaped
<1>6. Calling BY <1>3, <1>4, IdleFields DEF Calling
<1>7. LocksHeld BY <1>3, <1>4, IdleFields DEF LocksHeld
<1>8. DeadHaveNone BY <1>1, <1>3, <1>4, IdleFields, NoneIsNot DEF Init, DeadHaveNone
<1>9. CachedUsed /\ CacheFresh BY DEF Init, CachedUsed, CacheFresh
<1>10. FilesExact
  <2>1. \A f \in File : Users(f) = {} /\ file[f].ref = 0 /\ file[f].ip = None
    BY NoneIsNot DEF Init, Users
  <2> QED BY <2>1, FS_EmptySet, FilesExactIs
<1>11. RefsExact
  <2> SUFFICES ASSUME NEW i \in Inum PROVE ref[i] = Cardinality(Held(i))
    BY DEF RefsExact
  <2>1. \A q \in Proc : /\ <<"at", q>> \notin Held(i) /\ <<"ip", q>> \notin Held(i)
                        /\ <<"dp", q>> \notin Held(i) /\ <<"put", q>> \notin Held(i)
                        /\ <<"cwd", q>> \in Held(i) <=> (q = InitProc /\ i = Root)
    <3> TAKE q \in Proc
    <3>1. proc[q].at = None /\ proc[q].ip = None /\ proc[q].dp = None /\ proc[q].put = None
      BY <1>2, <1>4, IdleFields
    <3>2. cwd[q] = i <=> (q = InitProc /\ i = Root) BY <1>4, NoneIsNot
    <3> QED BY <3>1, <3>2, HeldIs, NoneIsNot
  <2>2. \A f \in File : <<"file", f>> \notin Held(i) BY HeldIs, NoneIsNot DEF Init
  <2>3. Held(i) = IF i = Root THEN {<<"cwd", InitProc>>} ELSE {}
    <3>1. Held(i) \in SUBSET Token BY HeldIs
    <3>2. \A t \in Token : t \in Held(i) <=> (i = Root /\ t = <<"cwd", InitProc>>)
      <4> SUFFICES ASSUME NEW t \in Token
                   PROVE  t \in Held(i) <=> (i = Root /\ t = <<"cwd", InitProc>>)
        OBVIOUS
      <4>1. CASE t \in Variable \X Proc
        <5>1. PICK k \in Variable, q \in Proc : t = <<k, q>> BY <4>1
        <5> QED BY <5>1, <2>1 DEF Variable
      <4>2. CASE t \in {"file"} \X File
        <5>1. PICK f \in File : t = <<"file", f>> BY <4>2
        <5> QED BY <5>1, <2>2
      <4> QED BY <4>1, <4>2 DEF Token
    <3>3. <<"cwd", InitProc>> \in Token BY <1>1 DEF Token, Variable
    <3> QED BY <3>1, <3>2, <3>3
  <2> QED BY <2>3, FS_EmptySet, FS_Singleton DEF Init
<1> QED BY <1>5, <1>6, <1>7, <1>8, <1>9, <1>10, <1>11 DEF Inv, TypeInv

\* Every step keeps it.
LEMMA NextInv == Inv /\ [Next]_vars => Inv'
<1> SUFFICES ASSUME Inv, [Next]_vars PROVE Inv'
  OBVIOUS
<1>1. CASE UNCHANGED vars
  BY <1>1, SMTT(30) DEF vars, disk, files, Inv, TypeInv, Shaped, EntryOK, Calling, LocksHeld, DeadHaveNone, CachedUsed,
              CacheFresh, FilesExact, RefsExact, Held
<1>2. ASSUME NEW p \in Proc, Names(p) PROVE Inv'
  BY <1>2, IputLockedOK, IputDropOK, WalkStopsOK, WalkFailsOK, WalkOnOK DEF Names
<1>3. ASSUME NEW p \in Proc, Create(p) PROVE Inv'
  BY <1>3, CreateFindsOK, IallocOK, CreateFillsOK, ExistsNotOK, MadeNodeOK DEF Create
<1>4. ASSUME NEW p \in Proc, Link(p) PROVE Inv'
  BY <1>4, LinkCountsOK, LinkRefusesOK, LinkWritesOK, LinkedOK, LinkFindsOK, LinkFailsOK, LinkBadOK
     DEF Link
<1>5. ASSUME NEW p \in Proc, Unlink(p) PROVE Inv'
  BY <1>5, UnlinkFailsOK, UnlinkFindsOK, UnlinkErasesOK, UnlinkCountsOK, UnlinkRefusesOK, UnlinkBadOK
     DEF Unlink
<1>6. ASSUME NEW p \in Proc, User(p) PROVE Inv'
  BY <1>6, CallOKs, CloseOK, ExitOK, ForkOK DEF User
<1>7. ASSUME NEW p \in Proc, Kernel(p) PROVE Inv'
  BY <1>2, <1>3, <1>4, <1>5, <1>7, OpenOK, ChdirOK DEF Kernel
<1> QED BY <1>1, <1>6, <1>7 DEF Next

\* At all times references to inodes and to open files are counted exactly,
\* what the cache holds of an inode in use is what is on disk, and a call has
\* the inodes and the locks that its place says (fs.c, file.c, sysfile.c).
THEOREM InodesInvariant == Spec => []Inv
BY InitInv, NextInv, PTL DEF Spec

\* InodesInv, as the run checks it: iget, idup, iput, filedup and fileclose
\* count every pointer, and ilock never takes an old copy for valid.
THEOREM ReferencesAreExact == Spec => []InodesInv
<1>1. Inv => InodesInv
  <2>1. Inv => TypeOK BY DEF Inv, TypeInv, Shaped, EntryOK, TypeOK
  <2> QED BY <2>1 DEF Inv, InodesInv
<1> QED BY <1>1, InodesInvariant, PTL

-----------------------------------------------------------------------------
(* The tree *)

Dot == {".", ".."}

\* The inodes that are free, or new and not yet filled.
Odd ==
    {i \in Inum : \/ dinode[i].type = "none"
                  \/ \E p \in Proc : proc[p].pc = "fill" /\ proc[p].ip = i}

\* A call has a link of i counted that is not in a directory.
Linking(r, i) ==
    /\ r.ip = i
    /\ \/ r.op = "link to" /\ Place(r) # "linked"
       \/ Place(r) = "erased"

\* What a call has yet to look up stays down; it is never in iput on the way to
\* fill an inode or to erase an entry.
PathOK(r) ==
    /\ r.pc = "walk" => r.rest # <<>>
    /\ Putting(r) => r.back \notin {"fill", "entry"}
    /\ Place(r) = "walk" => StaysDown(r.op, r.rest)
    /\ (Place(r) = "link" \/ (Place(r) = "walk" /\ r.op = "link")) =>
          StaysDown("link to", r.new.names)

\* A call has the odd inodes in its way only to open or refuse them.
Apart(r, odd, d) ==
    /\ r.dp # None => r.dp \notin odd /\ d[r.dp].type = "dir"
    /\ r.at # None /\ r.op # "open" => r.at \notin odd
    /\ r.ip # None /\ Place(r) \notin {"open", "exists", "fill"} => r.ip \notin odd

\* What a call has seen in a directory that it keeps locked is still so.
Seen(r, d, e) ==
    /\ r.pc = "fill" => /\ d[r.ip].type = Type[r.op]
                        /\ Head(r.rest) \notin DOMAIN e[r.dp]
    /\ r.pc = "entry" => /\ Head(r.rest) \in DOMAIN e[r.dp] \ Dot
                         /\ e[r.dp][Head(r.rest)] = r.ip
    /\ r.op = "link to" /\ r.ip # None => d[r.ip].type # "dir"

Sound(r, odd, d, e) == PathOK(r) /\ Apart(r, odd, d) /\ Seen(r, d, e)

Doing == \A p \in Proc : Sound(proc[p], Odd, dinode, entry)

\* Everybody fills an inode of his own.
OneFills ==
    \A p, q \in Proc :
        proc[p].pc = "fill" /\ proc[q].pc = "fill" /\ proc[p].ip = proc[q].ip => p = q

CwdThere == \A p \in Proc : cwd[p] # None => cwd[p] \notin Odd

\* What is in an inode: nothing, or at least the dots.
DirOK(i, odd, d, e) ==
    /\ i \in odd => d[i].nlink = 0
    /\ i \in odd \/ d[i].type # "dir" => DOMAIN e[i] = {}
    /\ i \notin odd /\ d[i].type = "dir" => Dot \subseteq DOMAIN e[i] /\ e[i]["."] = i
Dirs == \A i \in Inum : DirOK(i, Odd, dinode, entry)

\* What counts as a link of i: its names, the directories in it, the calls that
\* have counted one or not yet taken one off; and the root has one for itself.
NamesIn(x, i, e) == {<<"name", x, n>> : n \in {n \in DOMAIN e[x] \ Dot : e[x][n] = i}}
NamesOf(i, e) == UNION {NamesIn(x, i, e) : x \in Inum}
Subs(i, d, e) == {<<"sub", i, n>> : n \in {n \in DOMAIN e[i] \ Dot : d[e[i][n]].type = "dir"}}
CallsOf(i, pr) == {<<"call", p, p>> : p \in {p \in Proc : Linking(pr[p], i)}}
Claims(i, d, e, pr) ==
    NamesOf(i, e) \cup Subs(i, d, e) \cup CallsOf(i, pr)
    \cup (IF i = Root THEN {<<"root", i, i>>} ELSE {})

Counts(i, d, e, pr) ==
    /\ IsFiniteSet(Claims(i, d, e, pr))
    /\ Cardinality(Claims(i, d, e, pr)) =< d[i].nlink
Counted == \A i \in Inum : Counts(i, dinode, entry, proc)

\* The ".." of a directory is the one that has its name.
Below(d, e) ==
    \A x \in Inum : \A n \in DOMAIN e[x] \ Dot :
        d[e[x][n]].type = "dir" => e[e[x][n]][".."] = x
Parents == Below(dinode, entry)

TreeInv == Doing /\ OneFills /\ CwdThere /\ Dirs /\ Counted /\ Parents

-----------------------------------------------------------------------------
(* Links *)

\* A name of i.
LEMMA NameIs ==
    ASSUME NEW i, NEW e, NEW t
    PROVE  t \in NamesOf(i, e) <=>
              \E x \in Inum : \E n \in DOMAIN e[x] \ Dot : e[x][n] = i /\ t = <<"name", x, n>>
BY DEF NamesOf, NamesIn

\* A directory in i.
LEMMA SubIs ==
    ASSUME NEW i, NEW d, NEW e, NEW t
    PROVE  t \in Subs(i, d, e) <=>
              \E n \in DOMAIN e[i] \ Dot : d[e[i][n]].type = "dir" /\ t = <<"sub", i, n>>
BY DEF Subs

\* A call that has a link of i counted.
LEMMA CallIs ==
    ASSUME NEW i, NEW pr, NEW t
    PROVE  t \in CallsOf(i, pr) <=> \E p \in Proc : Linking(pr[p], i) /\ t = <<"call", p, p>>
BY DEF CallsOf

\* What a claim is, and which of them there are.
LEMMA ClaimShape ==
    ASSUME NEW i \in Inum, NEW d, NEW e, NEW pr, NEW t
    PROVE  t \in Claims(i, d, e, pr) <=>
              \/ \E x \in Inum : \E n \in DOMAIN e[x] \ Dot : e[x][n] = i /\ t = <<"name", x, n>>
              \/ \E n \in DOMAIN e[i] \ Dot : d[e[i][n]].type = "dir" /\ t = <<"sub", i, n>>
              \/ \E p \in Proc : Linking(pr[p], i) /\ t = <<"call", p, p>>
              \/ i = Root /\ t = <<"root", i, i>>
BY NameIs, SubIs, CallIs DEF Claims

\* Which claims there are, kind by kind.
LEMMA ClaimIs ==
    ASSUME NEW i \in Inum, NEW d, NEW e, NEW pr
    PROVE  /\ \A x \in Inum : \A n : <<"name", x, n>> \in Claims(i, d, e, pr)
                                        <=> n \in DOMAIN e[x] \ Dot /\ e[x][n] = i
           /\ \A n : <<"sub", i, n>> \in Claims(i, d, e, pr)
                        <=> n \in DOMAIN e[i] \ Dot /\ d[e[i][n]].type = "dir"
           /\ \A p \in Proc : <<"call", p, p>> \in Claims(i, d, e, pr) <=> Linking(pr[p], i)
           /\ <<"root", i, i>> \in Claims(i, d, e, pr) <=> i = Root
<1>1. ASSUME NEW x \in Inum, NEW n
      PROVE  <<"name", x, n>> \in Claims(i, d, e, pr) <=> n \in DOMAIN e[x] \ Dot /\ e[x][n] = i
  BY ClaimShape
<1>2. ASSUME NEW n
      PROVE  <<"sub", i, n>> \in Claims(i, d, e, pr) <=>
                n \in DOMAIN e[i] \ Dot /\ d[e[i][n]].type = "dir"
  BY ClaimShape
<1>3. ASSUME NEW p \in Proc
      PROVE  <<"call", p, p>> \in Claims(i, d, e, pr) <=> Linking(pr[p], i)
  BY ClaimShape
<1>4. <<"root", i, i>> \in Claims(i, d, e, pr) <=> i = Root
  BY ClaimShape
<1> QED
  BY <1>1, <1>2, <1>3, <1>4

\* Claims that are new are in X.
LEMMA ClaimsWithin ==
    ASSUME NEW i \in Inum, NEW d, NEW e, NEW pr, NEW d2, NEW e2, NEW pr2, NEW X,
           \A x \in Inum : \A n \in DOMAIN e2[x] \ Dot : e2[x][n] = i =>
               (n \in DOMAIN e[x] /\ e[x][n] = i) \/ <<"name", x, n>> \in X,
           \A n \in DOMAIN e2[i] \ Dot : d2[e2[i][n]].type = "dir" =>
               (n \in DOMAIN e[i] /\ d[e[i][n]].type = "dir") \/ <<"sub", i, n>> \in X,
           \A p \in Proc : Linking(pr2[p], i) => Linking(pr[p], i) \/ <<"call", p, p>> \in X
    PROVE  Claims(i, d2, e2, pr2) \subseteq Claims(i, d, e, pr) \cup X
<1> SUFFICES ASSUME NEW t \in Claims(i, d2, e2, pr2), t \notin X PROVE t \in Claims(i, d, e, pr)
  OBVIOUS
<1>1. CASE \E x \in Inum : \E n \in DOMAIN e2[x] \ Dot : e2[x][n] = i /\ t = <<"name", x, n>>
  <2>1. PICK x \in Inum : \E n \in DOMAIN e2[x] \ Dot : e2[x][n] = i /\ t = <<"name", x, n>>
    BY <1>1
  <2>2. PICK n \in DOMAIN e2[x] \ Dot : e2[x][n] = i /\ t = <<"name", x, n>>
    BY <2>1
  <2>3. n \in DOMAIN e[x] \ Dot /\ e[x][n] = i
    BY <2>2
  <2> QED
    BY <2>2, <2>3, ClaimIs
<1>2. CASE \E n \in DOMAIN e2[i] \ Dot : d2[e2[i][n]].type = "dir" /\ t = <<"sub", i, n>>
  <2>1. PICK n \in DOMAIN e2[i] \ Dot : d2[e2[i][n]].type = "dir" /\ t = <<"sub", i, n>>
    BY <1>2
  <2>2. n \in DOMAIN e[i] \ Dot /\ d[e[i][n]].type = "dir"
    BY <2>1
  <2> QED
    BY <2>1, <2>2, ClaimIs
<1>3. CASE \E p \in Proc : Linking(pr2[p], i) /\ t = <<"call", p, p>>
  <2>1. PICK p \in Proc : Linking(pr2[p], i) /\ t = <<"call", p, p>>
    BY <1>3
  <2>2. Linking(pr[p], i)
    BY <2>1
  <2> QED
    BY <2>1, <2>2, ClaimIs
<1>4. CASE i = Root /\ t = <<"root", i, i>>
  BY <1>4, ClaimIs
<1> QED
  BY <1>1, <1>2, <1>3, <1>4, ClaimShape

\* Nobody has counted more links of i, or as many as nlink has more.
LEMMA CountsFewer ==
    ASSUME NEW A, NEW B, IsFiniteSet(A), B \subseteq A, NEW n \in Int, Cardinality(A) =< n
    PROVE  IsFiniteSet(B) /\ Cardinality(B) =< n
<1>1. IsFiniteSet(B) /\ Cardinality(B) =< Cardinality(A)
  BY FS_Subset
<1>2. Cardinality(A) \in Nat /\ Cardinality(B) \in Nat
  BY <1>1, FS_CardinalityType
<1> QED
  BY <1>1, <1>2

\* One claim more, and one link more.
LEMMA CountsOneMore ==
    ASSUME NEW A, NEW B, NEW t, IsFiniteSet(A), B \subseteq A \cup {t},
           NEW n \in Int, Cardinality(A) =< n
    PROVE  IsFiniteSet(B) /\ Cardinality(B) =< n + 1
<1>1. /\ IsFiniteSet(A \cup {t})
      /\ Cardinality(A \cup {t}) = IF t \in A THEN Cardinality(A) ELSE Cardinality(A) + 1
  BY FS_AddElement
<1>2. Cardinality(A) \in Nat
  BY FS_CardinalityType
<1>3. Cardinality(A \cup {t}) =< n + 1
  BY <1>1, <1>2
<1> QED
  BY <1>1, <1>3, CountsFewer

\* One claim and one link less.
LEMMA CountsOneLess ==
    ASSUME NEW A, NEW B, NEW t \in A, IsFiniteSet(A), B \subseteq A \ {t},
           NEW n \in Int, Cardinality(A) =< n
    PROVE  IsFiniteSet(B) /\ Cardinality(B) =< n - 1
<1>1. /\ IsFiniteSet(A \ {t})
      /\ Cardinality(A \ {t}) = IF t \in A THEN Cardinality(A) - 1 ELSE Cardinality(A)
  BY FS_RemoveElement
<1>2. Cardinality(A) \in Nat
  BY FS_CardinalityType
<1>3. Cardinality(A \ {t}) =< n - 1
  BY <1>1, <1>2
<1> QED
  BY <1>1, <1>3, CountsFewer

\* A claim that takes the place of another one.
LEMMA CountsMoved ==
    ASSUME NEW A, NEW B, NEW t \in A, NEW u, IsFiniteSet(A), B \subseteq (A \ {t}) \cup {u},
           NEW n \in Int, Cardinality(A) =< n
    PROVE  IsFiniteSet(B) /\ Cardinality(B) =< n
<1>1. IsFiniteSet(A \ {t}) /\ Cardinality(A \ {t}) =< n - 1
  BY CountsOneLess
<1> DEFINE A1 == A \ {t}  m == n - 1
<1>2. m \in Int /\ IsFiniteSet(A1) /\ Cardinality(A1) =< m /\ B \subseteq A1 \cup {u}
  BY <1>1
<1>3. m + 1 = n
  OBVIOUS
<1> HIDE DEF A1, m
<1>4. IsFiniteSet(B) /\ Cardinality(B) =< m + 1
  BY <1>2, CountsOneMore
<1> QED
  BY <1>3, <1>4

-----------------------------------------------------------------------------
(* Calls *)

\* A call is as sound as it was if what it has is not odd now, and is of the
\* type that it was.
LEMMA SoundStays ==
    ASSUME NEW r, CallOK(r), NEW odd, NEW d, NEW e, NEW odd2, NEW d2, NEW e2, Sound(r, odd, d, e),
           \A i \in {r.at, r.dp, r.ip} \ {None} : i \notin odd => i \notin odd2 /\ d2[i].type = d[i].type,
           r.pc = "fill" => d2[r.ip].type = d[r.ip].type,
           r.pc \in {"fill", "entry"} => e2[r.dp] = e[r.dp]
    PROVE  Sound(r, odd2, d2, e2)
<1>1. Apart(r, odd2, d2)
  BY DEF Sound, Apart
<1>2. r.op = "link to" => Place(r) \notin {"open", "exists", "fill"}
  BY DEF CallOK, OpAt, Makes
<1>3. r.op = "link to" /\ r.ip # None => d2[r.ip].type # "dir"
  BY <1>2 DEF Sound, Apart, Seen
<1> QED
  BY <1>1, <1>3 DEF Sound, Seen

\* A call that puts away an inode is as sound as it was.
LEMMA PutsSound ==
    ASSUME NEW r, NEW s, NEW i, NEW b, PutsAs(s, r, i, b), b \notin {"walk", "link", "fill", "entry"},
           s.at \in {r.at, None}, s.dp \in {r.dp, None}, s.ip \in {r.ip, None},
           s.ip # None => Place(r) \notin {"open", "exists", "fill"},
           NEW odd, NEW d, NEW e, Sound(r, odd, d, e)
    PROVE  Sound(s, odd, d, e)
<1>1. s.pc = "put" /\ Place(s) = b /\ s.op = r.op
  BY DEF PutsAs, Place, Putting
<1>2. PathOK(s)
  BY <1>1 DEF PathOK, PutsAs
<1>3. Apart(s, odd, d)
  BY <1>1 DEF Sound, Apart
<1>4. Seen(s, d, e)
  BY <1>1 DEF Sound, Seen
<1> QED
  BY <1>2, <1>3, <1>4 DEF Sound

\* It has no link more counted than it had.
LEMMA PutsLinking ==
    ASSUME NEW r, NEW s, NEW i, NEW b, PutsAs(s, r, i, b), s.ip \in {r.ip, None},
           b # "erased", s.ip = None \/ Place(r) # "linked"
    PROVE  \A j \in Inum : Linking(s, j) => Linking(r, j)
<1>1. Place(s) = b /\ s.op = r.op
  BY DEF PutsAs, Place, Putting
<1> QED
  BY <1>1, NoneIsNot DEF Linking

\* A process that has no inode: in its program, at its end or on the way there.
Quiet(s) ==
    /\ s.at = None /\ s.ip = None /\ s.dp = None
    /\ Place(s) \in {"user", "dead"} /\ s.pc \in {"user", "dead", "put"}

\* A process that has nothing left to do but to put away is sound.
LEMMA QuietSound ==
    ASSUME NEW s, Quiet(s), NEW odd, NEW d, NEW e
    PROVE  Sound(s, odd, d, e) /\ \A i \in Inum : ~Linking(s, i)
<1>1. PathOK(s)
  BY DEF Quiet, PathOK, Place, Putting
<1> QED
  BY <1>1, NoneIsNot DEF Quiet, Sound, Apart, Seen, Linking

\* namex begins or goes on.
LEMMA OnwardSound ==
    ASSUME NEW r, Fields(r), NEW odd, NEW d, NEW e,
           r.op \in Op \cup {"link to"}, StaysDown(r.op, r.rest), r.dp = None, r.at # None,
           r.op # "open" => r.at \notin odd,
           r.op = "link" => StaysDown("link to", r.new.names),
           r.ip # None => r.op = "link to" /\ r.ip \notin odd /\ d[r.ip].type # "dir"
    PROVE  /\ Sound(Onward(r), odd, d, e)
           /\ \A i \in Inum : Linking(Onward(r), i) => r.op = "link to" /\ r.ip = i
<1> DEFINE s == Onward(r)
<1>1. CASE r.rest # <<>>
  <2>1. s = [r EXCEPT !.pc = "walk"]
    BY <1>1 DEF Onward
  <2>2. s.pc = "walk" /\ s.op = r.op /\ s.at = r.at /\ s.ip = r.ip /\ s.dp = r.dp
        /\ s.rest = r.rest /\ s.new = r.new
    BY <2>1 DEF Fields
  <2> HIDE DEF s
  <2>3. Place(s) = "walk" /\ ~Putting(s)
    BY <2>2 DEF Place, Putting
  <2>4. Sound(s, odd, d, e)
    BY <1>1, <2>2, <2>3 DEF Sound, PathOK, Apart, Seen
  <2>5. \A i \in Inum : Linking(s, i) => r.op = "link to" /\ r.ip = i
    BY <2>2, <2>3 DEF Linking
  <2> QED
    BY <2>4, <2>5 DEF s
<1>2. CASE r.rest = <<>> /\ Parent(r.op)
  <2>1. s = [Puts(r, r.at, Failed(r.op)) EXCEPT !.at = None]
    BY <1>2 DEF Onward
  <2>2. PutsAs(s, r, r.at, Failed(r.op)) /\ s.at = None /\ s.ip = r.ip /\ s.dp = r.dp
    BY <2>1 DEF Puts, Fields, PutsAs
  <2>3. s.pc = "put" /\ s.op = r.op /\ Place(s) \in {"bad", "user"} /\ s.back = Place(s)
    BY <2>2 DEF PutsAs, Place, Putting, Failed
  <2> HIDE DEF s
  <2>4. Sound(s, odd, d, e)
    BY <2>2, <2>3 DEF Sound, PathOK, Apart, Seen
  <2>5. \A i \in Inum : Linking(s, i) => r.op = "link to" /\ r.ip = i
    BY <2>2, <2>3 DEF Linking
  <2> QED
    BY <2>4, <2>5 DEF s
<1>3. CASE r.rest = <<>> /\ ~Parent(r.op)
  <2>1. s = [r EXCEPT !.pc = r.op, !.ip = r.at, !.at = None]
    BY <1>3 DEF Onward
  <2>2. s.pc = r.op /\ s.op = r.op /\ s.at = None /\ s.ip = r.at /\ s.dp = r.dp /\ s.new = r.new
    BY <2>1 DEF Fields
  <2>3. r.op \in {"open", "chdir", "link"}
    BY <1>3 DEF Op, Parent
  <2> HIDE DEF s
  <2>4. Place(s) = r.op /\ ~Putting(s)
    BY <2>2, <2>3 DEF Place, Putting
  <2>5. PathOK(s) /\ Apart(s, odd, d) /\ Seen(s, d, e)
    BY <2>2, <2>3, <2>4 DEF PathOK, Apart, Seen
  <2>6. \A i \in Inum : ~Linking(s, i)
    BY <2>2, <2>3, <2>4 DEF Linking
  <2> QED
    BY <2>5, <2>6 DEF s, Sound
<1> QED
  BY <1>1, <1>2, <1>3

-----------------------------------------------------------------------------
(* Steps that leave the disk alone *)

\* The others are where they were.
LEMMA OnlyP ==
    ASSUME Inv, NEW p \in Proc, NEW s, Becomes(p, s)
    PROVE  proc'[p] = s /\ \A q \in Proc \ {p} : proc'[q] = proc[q]
BY DEF Becomes, Inv, TypeInv, Shaped

\* The same inodes are odd after a step in which nobody begins or ends to fill.
LEMMA OddStays ==
    ASSUME Inv, NEW p \in Proc, NEW s, Becomes(p, s), proc[p].pc # "fill", s.pc # "fill",
           \A i \in Inum : dinode'[i].type = dinode[i].type
    PROVE  Odd' = Odd
<1>1. \A q \in Proc : \A i \in Inum : proc'[q].pc = "fill" /\ proc'[q].ip = i <=>
                                      proc[q].pc = "fill" /\ proc[q].ip = i
  BY OnlyP
<1> QED
  BY <1>1 DEF Odd

\* A step of p that neither writes to disk nor counts a link.
LEMMA CalmStep ==
    ASSUME Inv, TreeInv, NEW p \in Proc, NEW s, Becomes(p, s), UNCHANGED disk,
           proc[p].pc # "fill", s.pc # "fill", Sound(s, Odd, dinode, entry),
           \A i \in Inum : Linking(s, i) => Linking(proc[p], i),
           \A q \in Proc : cwd'[q] # None => cwd'[q] \notin Odd
    PROVE  TreeInv'
<1>1. proc'[p] = s /\ \A q \in Proc \ {p} : proc'[q] = proc[q]
  BY OnlyP
<1>2. dinode' = dinode /\ entry' = entry
  BY DEF disk
<1>3. Odd' = Odd
  BY <1>2, OddStays
<1>4. Doing'
  BY <1>1, <1>2, <1>3 DEF TreeInv, Doing
<1>5. OneFills'
  BY <1>1 DEF TreeInv, OneFills
<1>6. CwdThere'
  BY <1>3 DEF CwdThere
<1>7. Dirs' /\ Parents'
  BY <1>2, <1>3 DEF TreeInv, Dirs, Parents
<1>8. ASSUME NEW i \in Inum PROVE Counts(i, dinode', entry', proc')
  <2>1. Claims(i, dinode, entry, proc') \subseteq Claims(i, dinode, entry, proc) \cup {}
    <3>1. \A q \in Proc : Linking(proc'[q], i) => Linking(proc[q], i)
      BY <1>1
    <3> QED
      BY <3>1, ClaimsWithin
  <2>2. dinode[i].nlink \in Int
    BY DEF Inv, TypeInv, Shaped, Dinode
  <2>3. Counts(i, dinode, entry, proc)
    BY DEF TreeInv, Counted
  <2> QED
    BY <1>2, <2>1, <2>2, <2>3, CountsFewer DEF Counts
<1>9. Counted'
  BY <1>8 DEF Counted
<1> QED
  BY <1>4, <1>5, <1>6, <1>7, <1>9 DEF TreeInv

-----------------------------------------------------------------------------
(* What a call may rely on *)

\* Each process is sound, and its current directory in use.
LEMMA SoundNow ==
    ASSUME TreeInv, NEW p \in Proc
    PROVE  /\ Sound(proc[p], Odd, dinode, entry)
           /\ cwd[p] # None => cwd[p] \notin Odd
BY DEF TreeInv, Doing, CwdThere

\* ilock finds what is on disk.
LEMMA NodeIs ==
    ASSUME Inv, NEW i \in Inum, ref[i] > 0
    PROVE  Node(i) = dinode[i]
BY DEF Inv, CacheFresh, Node

\* nlink is a number.
LEMMA NlinkInt == ASSUME Inv, NEW i \in Inum PROVE dinode[i].nlink \in Int
BY DEF Inv, TypeInv, Shaped, Dinode

\* An inode that somebody claims has a link, and is in use.
LEMMA ClaimedInUse ==
    ASSUME Inv, TreeInv, NEW i \in Inum, NEW t \in Claims(i, dinode, entry, proc)
    PROVE  dinode[i].nlink >= 1 /\ i \notin Odd
<1> DEFINE A == Claims(i, dinode, entry, proc)
<1>1. IsFiniteSet(A) /\ Cardinality(A) =< dinode[i].nlink
  BY DEF TreeInv, Counted, Counts
<1>2. Cardinality(A) \in Nat /\ Cardinality(A) # 0
  BY <1>1, FS_CardinalityType, FS_EmptySet
<1> HIDE DEF A
<1>3. dinode[i].nlink >= 1
  BY <1>1, <1>2, NlinkInt
<1> QED
  BY <1>3 DEF TreeInv, Dirs, DirOK

\* A name other than the dots leads to an inode in use.
LEMMA NamedInUse ==
    ASSUME Inv, TreeInv, NEW x \in Inum, NEW n \in DOMAIN entry[x] \ Dot
    PROVE  entry[x][n] \in Inum \ Odd /\ dinode[entry[x][n]].nlink >= 1
<1>1. PICK i \in Inum : i = entry[x][n]
  BY DEF Inv, TypeInv, Shaped, EntryOK
<1>2. <<"name", x, n>> \in Claims(i, dinode, entry, proc)
  BY <1>1, ClaimIs
<1> QED
  BY <1>1, <1>2, ClaimedInUse

\* The root is in use, because it claims a link of itself.
LEMMA RootInUse == ASSUME Inv, TreeInv PROVE Root \in Inum \ Odd
<1>1. Root \in Inum
  BY InodesAssumption
<1>2. <<"root", Root, Root>> \in Claims(Root, dinode, entry, proc)
  BY <1>1, ClaimIs
<1> QED
  BY <1>1, <1>2, ClaimedInUse

\* The directory that a call has found.
LEMMA ParentIs ==
    ASSUME Inv, TreeInv, NEW p \in Proc, proc[p].dp \in Inum
    PROVE  /\ proc[p].dp \notin Odd /\ dinode[proc[p].dp].type = "dir"
           /\ Dot \subseteq DOMAIN entry[proc[p].dp] /\ entry[proc[p].dp]["."] = proc[p].dp
<1>1. proc[p].dp \notin Odd /\ dinode[proc[p].dp].type = "dir"
  BY SoundNow, NoneIsNot DEF Sound, Apart
<1> QED
  BY <1>1 DEF TreeInv, Dirs, DirOK

\* p puts an inode away.
LEMMA PutsCalm ==
    ASSUME Inv, TreeInv, NEW p \in Proc, NEW s, NEW i, NEW b, Becomes(p, s),
           PutsAs(s, proc[p], i, b), b \notin {"walk", "link", "fill", "entry", "erased"},
           s.at \in {proc[p].at, None}, s.dp \in {proc[p].dp, None}, s.ip \in {proc[p].ip, None},
           s.ip # None => Place(proc[p]) \notin {"open", "exists", "fill", "linked"},
           proc[p].pc # "fill", UNCHANGED <<disk, cwd>>
    PROVE  TreeInv'
<1>1. Sound(s, Odd, dinode, entry)
  BY SoundNow, PutsSound
<1>2. \A j \in Inum : Linking(s, j) => Linking(proc[p], j)
  BY PutsLinking
<1>3. s.pc # "fill"
  BY DEF PutsAs
<1>4. \A q \in Proc : cwd'[q] # None => cwd'[q] \notin Odd
  BY SoundNow
<1> QED
  BY <1>1, <1>2, <1>3, <1>4, CalmStep

\* p puts away its ip and is done, with nothing written.
LEMMA PutsIpCalm ==
    ASSUME Inv, TreeInv, NEW p \in Proc, NEW b \in {"user", "refused"}, PutsIp(p, b),
           proc[p].pc # "fill", UNCHANGED <<disk, cwd>>
    PROVE  TreeInv'
<1> DEFINE r == proc[p]  s == [Puts(r, r.ip, b) EXCEPT !.ip = None]
<1>1. Fields(r)
  BY Start DEF CallOK
<1>2. PutsAs(s, r, r.ip, b) /\ s.at = r.at /\ s.ip = None /\ s.dp = r.dp
  BY <1>1 DEF Puts, Fields, PutsAs
<1>3. Becomes(p, s)
  BY DEF PutsIp
<1> HIDE DEF s
<1> QED
  BY <1>2, <1>3, PutsCalm

\* p puts away its dp and is done, or goes to bad, with nothing written.
LEMMA PutsDpCalm ==
    ASSUME Inv, TreeInv, NEW p \in Proc, NEW b \in {"user", "bad"}, PutsDp(p, b),
           proc[p].ip # None => Place(proc[p]) \notin {"open", "exists", "fill", "linked"},
           proc[p].pc # "fill", UNCHANGED <<disk, cwd>>
    PROVE  TreeInv'
<1> DEFINE r == proc[p]  s == [Puts(r, r.dp, b) EXCEPT !.dp = None]
<1>1. Fields(r)
  BY Start DEF CallOK
<1>2. PutsAs(s, r, r.dp, b) /\ s.at = r.at /\ s.ip = r.ip /\ s.dp = None
  BY <1>1 DEF Puts, Fields, PutsAs
<1>3. Becomes(p, s)
  BY DEF PutsDp
<1> HIDE DEF s
<1> QED
  BY <1>2, <1>3, PutsCalm

-----------------------------------------------------------------------------
(* One action after the other: those that put something away *)

\* create gives up an inode that exists.
LEMMA ExistsNotTree == ASSUME Inv, TreeInv, NEW p \in Proc, ExistsNot(p) PROVE TreeInv'
<1>1. PutsIp(p, "user") /\ proc[p].pc # "fill" /\ UNCHANGED <<disk, cwd>>
  BY DEF ExistsNot, At, files
<1> QED
  BY <1>1, PutsIpCalm

\* mkdir and mknod let go of the inode they have made.
LEMMA MadeNodeTree == ASSUME Inv, TreeInv, NEW p \in Proc, MadeNode(p) PROVE TreeInv'
<1>1. PutsIp(p, "user") /\ proc[p].pc # "fill" /\ UNCHANGED <<disk, cwd>>
  BY DEF MadeNode, At, files
<1> QED
  BY <1>1, PutsIpCalm

\* link refuses a directory.
LEMMA LinkRefusesTree == ASSUME Inv, TreeInv, NEW p \in Proc, LinkRefuses(p) PROVE TreeInv'
<1>1. PutsIp(p, "user") /\ proc[p].pc # "fill" /\ UNCHANGED <<disk, cwd>>
  BY DEF LinkRefuses, At, files
<1> QED
  BY <1>1, PutsIpCalm

\* link lets go of an inode whose new name is written.
LEMMA LinkedTree == ASSUME Inv, TreeInv, NEW p \in Proc, Linked(p) PROVE TreeInv'
<1>1. PutsIp(p, "user") /\ proc[p].pc # "fill" /\ UNCHANGED <<disk, cwd>>
  BY DEF Linked, At, files
<1> QED
  BY <1>1, PutsIpCalm

\* unlink refuses a directory that is not empty.
LEMMA UnlinkRefusesTree == ASSUME Inv, TreeInv, NEW p \in Proc, UnlinkRefuses(p) PROVE TreeInv'
<1>1. PutsIp(p, "refused") /\ proc[p].pc # "fill" /\ UNCHANGED <<disk, cwd>>
  BY DEF UnlinkRefuses, At, files
<1> QED
  BY <1>1, PutsIpCalm

\* link lets go of the directory in which it found its name.
LEMMA LinkFailsTree == ASSUME Inv, TreeInv, NEW p \in Proc, LinkFails(p) PROVE TreeInv'
<1>1. PutsDp(p, "bad") /\ proc[p].pc = "found" /\ UNCHANGED <<disk, cwd>>
  BY DEF LinkFails, At, files
<1> QED
  BY <1>1, PutsDpCalm DEF Place, Putting

\* unlink does not find its name.
LEMMA UnlinkFailsTree == ASSUME Inv, TreeInv, NEW p \in Proc, UnlinkFails(p) PROVE TreeInv'
<1>1. PutsDp(p, "user") /\ proc[p].pc = "unlink" /\ UNCHANGED <<disk, cwd>>
  BY DEF UnlinkFails, At, files
<1> QED
  BY <1>1, PutsDpCalm DEF Place, Putting

\* unlink lets go of dp after it has refused.
LEMMA UnlinkBadTree == ASSUME Inv, TreeInv, NEW p \in Proc, UnlinkBad(p) PROVE TreeInv'
<1>1. PutsDp(p, "user") /\ proc[p].pc = "refused" /\ UNCHANGED <<disk, cwd>>
  BY DEF UnlinkBad, At, files
<1> QED
  BY <1>1, PutsDpCalm DEF Place, Putting

\* namex finds no directory, or no such name.
LEMMA WalkFailsTree == ASSUME Inv, TreeInv, NEW p \in Proc, WalkFails(p) PROVE TreeInv'
<1> DEFINE r == proc[p]  b == Failed(r.op)  s == [Puts(r, r.at, b) EXCEPT !.at = None]
<1>1. Fields(r) /\ r.pc = "walk"
  BY Start DEF CallOK, WalkFails, At
<1>2. PutsAs(s, r, r.at, b) /\ s.at = None /\ s.ip = r.ip /\ s.dp = r.dp
  BY <1>1 DEF Puts, Fields, PutsAs
<1>3. Becomes(p, s) /\ UNCHANGED <<disk, cwd>>
  BY DEF WalkFails, files
<1>4. b \in {"bad", "user"} /\ Place(r) = "walk"
  BY <1>1 DEF Failed, Place, Putting
<1> HIDE DEF s, b
<1> QED
  BY <1>1, <1>2, <1>3, <1>4, PutsCalm

-----------------------------------------------------------------------------
(* Those that begin or end a call *)

\* A step after which p has nothing left to do, with nothing written.
LEMMA QuietStep ==
    ASSUME Inv, TreeInv, NEW p \in Proc, NEW s, Becomes(p, s), Quiet(s), UNCHANGED disk,
           proc[p].pc # "fill", \A q \in Proc : cwd'[q] # None => cwd'[q] \notin Odd
    PROVE  TreeInv'
<1>1. s.pc # "fill"
  BY DEF Quiet
<1>2. Sound(s, Odd, dinode, entry) /\ \A i \in Inum : ~Linking(s, i)
  BY QuietSound
<1> QED
  BY <1>1, <1>2, CalmStep

\* A process between calls, and one that puts away an inode there.
LEMMA IdleQuiet ==
    Quiet(Idle) /\ \A i, b : b \in {"user", "dead"} => Quiet(Puts(Idle, i, b))
BY DEF Quiet, Idle, Puts, Place, Putting

\* open has its file, or gives up.
LEMMA OpenTree == ASSUME Inv, TreeInv, NEW p \in Proc, Open(p) PROVE TreeInv'
<1>1. proc[p].pc # "fill" /\ UNCHANGED <<disk, cwd>>
  BY DEF Open, Opens, At
<1>2. CASE PutsIp(p, "user")
  BY <1>1, <1>2, PutsIpCalm
<1>3. CASE Becomes(p, Idle)
  <2>1. \A q \in Proc : cwd'[q] # None => cwd'[q] \notin Odd
    BY <1>1, SoundNow
  <2> QED
    BY <1>1, <1>3, <2>1, IdleQuiet, QuietStep
<1> QED
  BY <1>2, <1>3 DEF Open

\* close gives back the inode of a file.
LEMMA CloseTree == ASSUME Inv, TreeInv, NEW p \in Proc, Close(p) PROVE TreeInv'
<1>1. proc[p].pc = "user" /\ UNCHANGED disk
      /\ \A q \in Proc : cwd'[q] # None => cwd'[q] \notin Odd
  BY SoundNow DEF Close, At
<1>2. CASE UNCHANGED proc
  <2>1. Becomes(p, proc[p])
    BY <1>2 DEF Becomes, Inv, TypeInv, Shaped
  <2>2. Sound(proc[p], Odd, dinode, entry)
    BY SoundNow
  <2> QED
    BY <1>1, <2>1, <2>2, CalmStep
<1>3. CASE Becomes(p, Puts(Idle, file[ofile[p]].ip, "user"))
  <2> DEFINE s == Puts(Idle, file[ofile[p]].ip, "user")
  <2>1. Quiet(s) /\ Becomes(p, s)
    BY <1>3, IdleQuiet
  <2> HIDE DEF s
  <2> QED
    BY <1>1, <2>1, QuietStep
<1> QED
  BY <1>2, <1>3 DEF Close

\* exit gives back the current directory.
LEMMA ExitTree == ASSUME Inv, TreeInv, NEW p \in Proc, Exit(p) PROVE TreeInv'
<1> DEFINE s == Puts(Idle, cwd[p], "dead")
<1>1. Quiet(s) /\ Becomes(p, s) /\ proc[p].pc = "user" /\ UNCHANGED disk
  BY IdleQuiet DEF Exit, At
<1>2. cwd' = [cwd EXCEPT ![p] = None] /\ cwd \in [Proc -> Inum \cup {None}]
  BY DEF Exit, Inv, TypeInv, Shaped
<1>3. \A q \in Proc : cwd'[q] # None => cwd'[q] \notin Odd
  BY <1>2, SoundNow
<1> HIDE DEF s
<1> QED
  BY <1>1, <1>3, QuietStep

\* The child of a fork has the directory of its parent.
LEMMA ForkTree ==
    ASSUME Inv, TreeInv, NEW p \in Proc, NEW child \in Proc, Fork(p, child) PROVE TreeInv'
<1>1. Becomes(child, Idle) /\ proc[child].pc = "dead" /\ UNCHANGED disk
  BY DEF Fork, At
<1>2. cwd' = [cwd EXCEPT ![child] = cwd[p]] /\ cwd \in [Proc -> Inum \cup {None}]
  BY DEF Fork, Inv, TypeInv, Shaped
<1>3. \A q \in Proc : cwd'[q] # None => cwd'[q] \notin Odd
  BY <1>2, SoundNow
<1> QED
  BY <1>1, <1>3, IdleQuiet, QuietStep

\* chdir takes a directory that is in use: its path stays down.
LEMMA ChdirTree == ASSUME Inv, TreeInv, NEW p \in Proc, Chdir(p) PROVE TreeInv'
<1> DEFINE r == proc[p]
<1>1. r.pc = "chdir" /\ CallOK(r) /\ ~Putting(r) /\ UNCHANGED disk
  BY Start DEF Chdir, At, Putting
<1>2. CASE PutsIp(p, "user") /\ UNCHANGED cwd
  BY <1>1, <1>2, PutsIpCalm
<1>3. CASE cwd' = [cwd EXCEPT ![p] = r.ip]
           /\ Becomes(p, [Puts(r, cwd[p], "user") EXCEPT !.ip = None])
  <2> DEFINE s == [Puts(r, cwd[p], "user") EXCEPT !.ip = None]
  <2>1. Fields(r) /\ r.at = None /\ r.dp = None /\ r.ip \in Inum
    BY <1>1, Where
  <2>2. s.pc = "put" /\ s.back = "user" /\ s.at = r.at /\ s.ip = None /\ s.dp = r.dp
    BY <2>1 DEF Puts, Fields
  <2>3. Becomes(p, s)
    BY <1>3
  <2> HIDE DEF s
  <2>4. Quiet(s)
    BY <2>1, <2>2 DEF Quiet, Place, Putting
  <2>5. r.ip \notin Odd
    BY <1>1, <2>1, SoundNow, NoneIsNot DEF Sound, Apart, Place
  <2>6. cwd \in [Proc -> Inum \cup {None}]
    BY DEF Inv, TypeInv, Shaped
  <2>7. \A q \in Proc : cwd'[q] # None => cwd'[q] \notin Odd
    BY <1>3, <2>5, <2>6, SoundNow
  <2> QED
    BY <1>1, <2>3, <2>4, <2>7, QuietStep
<1> QED
  BY <1>2, <1>3 DEF Chdir

\* Where namex starts.
LEMMA StartInUse ==
    ASSUME Inv, TreeInv, NEW p \in Proc, Place(proc[p]) # "dead", NEW path, NEW i,
           i = IF path.abs THEN Root ELSE cwd[p]
    PROVE  i \in Inum \ Odd
<1>1. cwd[p] \in Inum \ Odd
  BY SoundNow DEF Inv, DeadHaveNone, TypeInv, Shaped
<1> QED
  BY <1>1, RootInUse

\* A call begins, on a path that stays down if it is to change something.
LEMMA CallTree ==
    ASSUME UpToOpen, Inv, TreeInv, NEW p \in Proc, Call(p) PROVE TreeInv'
<1>1. PICK c \in Calls[p] : Begin(p, [Idle EXCEPT !.op = c.op, !.new = c.new], c.path, cached)
  BY DEF Call
<1> DEFINE i == IF c.path.abs THEN Root ELSE cwd[p]
           r == [Idle EXCEPT !.op = c.op, !.new = c.new]
           q == [r EXCEPT !.rest = c.path.names, !.at = i]  s == Onward(q)
<1>2. proc[p].pc = "user" /\ UNCHANGED <<disk, cwd>> /\ Becomes(p, s)
  BY <1>1 DEF Call, At, files, Begin
<1>3. c.op \in Op /\ StaysDown(c.op, c.path.names)
      /\ (c.op = "link" => StaysDown("link to", c.new.names))
  BY InodesAssumption DEF InodesAssumption, UpToOpen
<1>4. i \in Inum \ Odd
  BY <1>2, StartInUse DEF Place, Putting
<1> HIDE DEF i
<1>5. Fields(q) /\ q.op = c.op /\ q.new = c.new /\ q.rest = c.path.names /\ q.at = i
      /\ q.dp = None /\ q.ip = None
  BY DEF Idle, Fields
<1> HIDE DEF q, r
<1>6. /\ Sound(s, Odd, dinode, entry)
      /\ \A j \in Inum : Linking(s, j) => q.op = "link to" /\ q.ip = j
  BY <1>3, <1>4, <1>5, NoneIsNot, OnwardSound
<1>7. s.pc # "fill"
  BY <1>3, <1>5 DEF Onward, Puts, Fields, Op
<1> HIDE DEF s
<1>8. \A j \in Inum : ~Linking(s, j)
  BY <1>5, <1>6, NoneIsNot
<1>9. \A x \in Proc : cwd'[x] # None => cwd'[x] \notin Odd
  BY <1>2, SoundNow
<1> QED
  BY <1>2, <1>6, <1>7, <1>8, <1>9, CalmStep

-----------------------------------------------------------------------------
(* Those that look up a name *)

\* What is left of a path stays down, and the name that is taken off too.
LEMMA TailStaysDown ==
    ASSUME NEW op, NEW names, StaysDown(op, names), names # <<>>
    PROVE  /\ StaysDown(op, Tail(names))
           /\ op # "open" /\ ~(Parent(op) /\ Len(names) = 1) => Head(names) # ".."
<1> DEFINE t == Tail(names)  k == IF Parent(op) THEN 1 ELSE 0
<1>1. names \in Seq(STRING) /\ Len(names) \in Nat /\ Len(names) # 0
  BY EmptySeq, LenProperties DEF StaysDown
<1>2. t \in Seq(STRING) /\ Len(t) = Len(names) - 1 /\ \A j \in 1 .. Len(t) : t[j] = names[j + 1]
  BY <1>1, HeadTailProperties
<1>3. Head(names) = names[1]
  BY <1>1, HeadTailProperties
<1>4. k \in {0, 1}
  OBVIOUS
<1> HIDE DEF t
<1>5. ASSUME op # "open", NEW j \in 1 .. Len(t) - k PROVE t[j] # ".."
  <2>1. j \in 1 .. Len(t) /\ j + 1 \in 1 .. Len(names) - k
    BY <1>1, <1>2, <1>4
  <2> QED
    BY <1>2, <1>5, <2>1 DEF StaysDown
<1>6. StaysDown(op, t)
  BY <1>2, <1>5 DEF StaysDown
<1>7. op # "open" /\ ~(Parent(op) /\ Len(names) = 1) => 1 \in 1 .. Len(names) - k
  <2> DEFINE n == Len(names)
  <2>1. CASE Parent(op)
    <3>1. k = 1 /\ n \in Nat /\ n # 0
      BY <1>1, <2>1
    <3> HIDE DEF n, k
    <3>2. n # 1 => 1 \in 1 .. n - k
      BY <3>1
    <3> QED
      BY <2>1, <3>2 DEF n
  <2>2. CASE ~Parent(op)
    <3>1. k = 0 /\ n \in Nat /\ n # 0
      BY <1>1, <2>2
    <3> HIDE DEF n, k
    <3>2. 1 \in 1 .. n - k
      BY <3>1
    <3> QED
      BY <3>2 DEF n
  <2> QED
    BY <2>1, <2>2
<1>8. op # "open" /\ ~(Parent(op) /\ Len(names) = 1) => Head(names) # ".."
  BY <1>3, <1>7 DEF StaysDown
<1> QED
  BY <1>6, <1>8 DEF t

\* namex that does not go up finds an inode in use.
LEMMA NextInUse ==
    ASSUME Inv, TreeInv, NEW x \in Inum \ Odd, NEW n \in DOMAIN entry[x], n # ".."
    PROVE  entry[x][n] \in Inum \ Odd
<1>1. CASE n = "."
  BY <1>1 DEF TreeInv, Dirs, DirOK
<1>2. CASE n # "."
  <2>1. n \in DOMAIN entry[x] \ Dot
    BY <1>2 DEF Dot
  <2> QED
    BY <2>1, NamedInUse
<1> QED
  BY <1>1, <1>2

\* nameiparent is in a directory that is in use.
LEMMA WalkStopsTree == ASSUME Inv, TreeInv, NEW p \in Proc, WalkStops(p) PROVE TreeInv'
<1> DEFINE r == proc[p]  s == [r EXCEPT !.pc = r.op, !.dp = r.at, !.at = None]
<1>1. CallOK(r) /\ r.pc = "walk" /\ ~Putting(r)
  BY Start DEF WalkStops, At, Putting
<1>2. Fields(r) /\ r.op \in Op \cup {"link to"} /\ r.at \in Inum /\ r.put = None /\ r.dp = None
      /\ r.ip \in (IF r.op = "link to" THEN Inum ELSE {None})
  BY <1>1, Where
<1>3. r.op \in {"create", "mkdir", "mknod", "unlink", "link to"}
  BY DEF WalkStops, AtLast, Parent
<1>4. s.pc = r.op /\ s.op = r.op /\ s.dp = r.at /\ s.at = None /\ s.ip = r.ip /\ s.rest = r.rest
  BY <1>2 DEF Fields
<1>5. Becomes(p, s) /\ IsDir(r.at) /\ UNCHANGED <<disk, cwd>>
  BY DEF WalkStops, files
<1> HIDE DEF s
<1>6. ~Putting(s) /\ Place(s) = r.op /\ Place(r) = "walk"
  BY <1>1, <1>3, <1>4 DEF Putting, Place
<1>7. r.at \notin Odd /\ dinode[r.at].type = "dir"
  <2>1. r.at \notin Odd
    BY <1>2, <1>3, NoneIsNot, SoundNow DEF Sound, Apart
  <2>2. ref[r.at] > 0
    BY <1>2, Start
  <2> QED
    BY <1>2, <1>5, <2>1, <2>2, NodeIs DEF IsDir
<1>8. Sound(r, Odd, dinode, entry)
  BY SoundNow
<1>9. Sound(s, Odd, dinode, entry)
  BY <1>3, <1>4, <1>6, <1>7, <1>8 DEF Sound, PathOK, Apart, Seen
<1>10. \A i \in Inum : Linking(s, i) => Linking(r, i)
  BY <1>3, <1>4, <1>6 DEF Linking
<1>11. s.pc # "fill" /\ \A q \in Proc : cwd'[q] # None => cwd'[q] \notin Odd
  BY <1>3, <1>4, <1>5, SoundNow
<1> QED
  BY <1>1, <1>5, <1>9, <1>10, <1>11, CalmStep

\* namex goes down to an inode that is named, or anywhere if it is to open.
LEMMA WalkOnTree == ASSUME Inv, TreeInv, NEW p \in Proc, WalkOn(p) PROVE TreeInv'
<1> DEFINE r == proc[p]  n == entry[r.at][Head(r.rest)]
           s == [Puts(r, r.at, "walk") EXCEPT !.at = n, !.rest = Tail(@)]
<1>1. CallOK(r) /\ r.pc = "walk" /\ ~Putting(r)
  BY Start DEF WalkOn, At, Putting
<1>2. Fields(r) /\ r.at \in Inum /\ r.dp = None
  BY <1>1, Where
<1>3. Becomes(p, s) /\ IsDir(r.at) /\ Head(r.rest) \in DOMAIN entry[r.at] /\ ~AtLast(r)
      /\ UNCHANGED <<disk, cwd>>
  BY DEF WalkOn, files
<1>4. s.pc = "put" /\ s.back = "walk" /\ s.op = r.op /\ s.at = n /\ s.ip = r.ip /\ s.dp = r.dp
      /\ s.rest = Tail(r.rest) /\ s.new = r.new
  BY <1>2 DEF Puts, Fields
<1> HIDE DEF s
<1>5. Putting(s) /\ Place(s) = "walk" /\ Place(r) = "walk"
  BY <1>1, <1>4 DEF Putting, Place
<1>6. Sound(r, Odd, dinode, entry)
  BY SoundNow
<1>7. /\ StaysDown(r.op, Tail(r.rest))
      /\ r.op # "open" => Head(r.rest) # ".."
  <2>1. r.rest # <<>> /\ StaysDown(r.op, r.rest)
    BY <1>1, <1>5, <1>6 DEF Sound, PathOK
  <2> QED
    BY <1>3, <2>1, TailStaysDown DEF AtLast
<1>8. r.op # "open" => n \notin Odd
  <2> SUFFICES ASSUME r.op # "open" PROVE n \notin Odd
    OBVIOUS
  <2>1. r.at \in Inum \ Odd
    BY <1>2, <1>6, NoneIsNot DEF Sound, Apart
  <2> QED
    BY <1>3, <1>7, <2>1, NextInUse
<1> HIDE DEF n
<1>9. PathOK(s)
  BY <1>4, <1>5, <1>6, <1>7 DEF Sound, PathOK
<1>10. Sound(s, Odd, dinode, entry)
  BY <1>2, <1>4, <1>5, <1>6, <1>8, <1>9 DEF Sound, Apart, Seen
<1>11. \A i \in Inum : Linking(s, i) => Linking(r, i)
  BY <1>4, <1>5 DEF Linking
<1>12. s.pc # "fill" /\ \A q \in Proc : cwd'[q] # None => cwd'[q] \notin Odd
  BY <1>3, <1>4, SoundNow
<1> QED
  BY <1>1, <1>3, <1>10, <1>11, <1>12, CalmStep

\* create finds its name.
LEMMA CreateFindsTree == ASSUME Inv, TreeInv, NEW p \in Proc, CreateFinds(p) PROVE TreeInv'
<1> DEFINE r == proc[p]  n == entry[r.dp][Head(r.rest)]
           s == [Puts(r, r.dp, "exists") EXCEPT !.ip = n, !.dp = None]
<1>1. CallOK(r) /\ r.pc \in Makes /\ ~Putting(r)
  BY Start DEF CreateFinds, At, Putting, Type, Makes
<1>2. Fields(r) /\ r.op \in Makes /\ r.at = None
  BY <1>1, Where DEF Makes
<1>3. Becomes(p, s) /\ UNCHANGED <<disk, cwd>>
  BY DEF CreateFinds, files
<1>4. s.pc = "put" /\ s.back = "exists" /\ s.op = r.op /\ s.at = r.at /\ s.dp = None
  BY <1>2 DEF Puts, Fields
<1> HIDE DEF s, n
<1>5. Putting(s) /\ Place(s) = "exists"
  BY <1>4 DEF Putting, Place
<1>6. Sound(s, Odd, dinode, entry)
  BY <1>2, <1>4, <1>5 DEF Sound, PathOK, Apart, Seen, Makes
<1>7. \A i \in Inum : ~Linking(s, i)
  BY <1>2, <1>4, <1>5 DEF Linking, Makes
<1>8. r.pc # "fill" /\ s.pc # "fill" /\ \A q \in Proc : cwd'[q] # None => cwd'[q] \notin Odd
  BY <1>1, <1>3, <1>4, SoundNow DEF Makes
<1> QED
  BY <1>3, <1>6, <1>7, <1>8, CalmStep

\* dirlink finds its name.
LEMMA LinkFindsTree == ASSUME Inv, TreeInv, NEW p \in Proc, LinkFinds(p) PROVE TreeInv'
<1> DEFINE r == proc[p]  n == entry[r.dp][Head(r.rest)]  s == Puts(r, n, "found")
<1>1. Fields(r) /\ r.pc = "link to"
  BY Start DEF LinkFinds, At, CallOK
<1>2. PutsAs(s, r, n, "found") /\ s.at = r.at /\ s.ip = r.ip /\ s.dp = r.dp
  BY <1>1 DEF Puts, Fields, PutsAs
<1>3. Becomes(p, s) /\ UNCHANGED <<disk, cwd>>
  BY DEF LinkFinds, files
<1>4. Place(r) = "link to"
  BY <1>1 DEF Place, Putting
<1> HIDE DEF s, n
<1> QED
  BY <1>1, <1>2, <1>3, <1>4, PutsCalm

\* unlink finds its name, and keeps the directory locked.
LEMMA UnlinkFindsTree == ASSUME Inv, TreeInv, NEW p \in Proc, UnlinkFinds(p) PROVE TreeInv'
<1> DEFINE r == proc[p]  n == entry[r.dp][Head(r.rest)]
           s == [r EXCEPT !.pc = "entry", !.ip = n]
<1>1. CallOK(r) /\ r.pc = "unlink" /\ ~Putting(r)
  BY Start DEF UnlinkFinds, At, Putting
<1>2. Fields(r) /\ r.op = "unlink" /\ r.at = None /\ r.dp \in Inum
  BY <1>1, Where
<1>3. Becomes(p, s) /\ Head(r.rest) \in DOMAIN entry[r.dp] \ Dot /\ UNCHANGED <<disk, cwd>>
  BY DEF UnlinkFinds, files, Dot
<1>4. s.pc = "entry" /\ s.op = r.op /\ s.at = r.at /\ s.ip = n /\ s.dp = r.dp /\ s.rest = r.rest
  BY <1>2 DEF Fields
<1>5. n \in Inum \ Odd
  BY <1>2, <1>3, NamedInUse
<1> HIDE DEF s
<1>6. ~Putting(s) /\ Place(s) = "entry"
  BY <1>4 DEF Putting, Place
<1>7. Sound(r, Odd, dinode, entry)
  BY SoundNow
<1>8. Sound(s, Odd, dinode, entry)
  BY <1>2, <1>3, <1>4, <1>5, <1>6, <1>7 DEF Sound, PathOK, Apart, Seen
<1>9. \A i \in Inum : ~Linking(s, i)
  BY <1>2, <1>4, <1>6 DEF Linking
<1>10. s.pc # "fill" /\ \A q \in Proc : cwd'[q] # None => cwd'[q] \notin Odd
  BY <1>3, <1>4, SoundNow
<1> QED
  BY <1>1, <1>3, <1>8, <1>9, <1>10, CalmStep

-----------------------------------------------------------------------------
(* iput *)

\* iput gives back the reference, and the call goes on.
LEMMA IputDropTree == ASSUME Inv, TreeInv, NEW p \in Proc, IputDrop(p) PROVE TreeInv'
<1> DEFINE r == proc[p]  d == Popped(r)  s == After(r)
<1>1. CallOK(r) /\ r.pc = "drop" /\ Fields(r)
  BY Start DEF IputDrop, At, CallOK
<1>2. Becomes(p, s) /\ UNCHANGED <<disk, cwd>>
  BY DEF IputDrop, After, Popped, files
<1>3. Fields(d) /\ d.pc = r.back /\ d.op = r.op /\ d.at = r.at /\ d.ip = r.ip /\ d.dp = r.dp
      /\ d.rest = r.rest /\ d.new = r.new
  BY <1>1 DEF Fields, Popped
<1>4. Place(r) = r.back /\ Putting(r) /\ r.back \notin {"fill", "entry"}
  BY <1>1, SoundNow DEF Place, Putting, Sound, PathOK
<1>5. \A q \in Proc : cwd'[q] # None => cwd'[q] \notin Odd
  BY <1>2, SoundNow
<1>6. Sound(r, Odd, dinode, entry)
  BY SoundNow
<1> HIDE DEF d
<1>7. CASE r.back \in {"user", "dead"}
  <2>1. s = [Idle EXCEPT !.pc = r.back]
    BY <1>7 DEF After
  <2>2. Quiet(s)
    BY <1>7, <2>1 DEF Quiet, Idle, Place, Putting
  <2> HIDE DEF s
  <2> QED
    BY <1>1, <1>2, <1>5, <2>2, QuietStep
<1>8. CASE r.back = "walk"
  <2>1. s = Onward(d)
    BY <1>8 DEF After, d
  <2>2. r.op \in Op \cup {"link to"} /\ r.at \in Inum /\ r.dp = None
        /\ r.ip \in (IF r.op = "link to" THEN Inum ELSE {None})
    BY <1>1, <1>4, <1>8 DEF CallOK, DpPlace, IpPlace, Makes
  <2>3. /\ StaysDown(d.op, d.rest)
        /\ d.op = "link" => StaysDown("link to", d.new.names)
    BY <1>3, <1>4, <1>6, <1>8 DEF Sound, PathOK
  <2>4. /\ d.op # "open" => d.at \notin Odd
        /\ d.ip # None => d.op = "link to" /\ d.ip \notin Odd /\ dinode[d.ip].type # "dir"
        /\ d.at # None /\ d.dp = None /\ d.op \in Op \cup {"link to"}
    BY <1>3, <1>4, <1>6, <1>8, <2>2, NoneIsNot DEF Sound, Apart, Seen
  <2> HIDE DEF s
  <2>5. /\ Sound(s, Odd, dinode, entry)
        /\ \A j \in Inum : Linking(s, j) => d.op = "link to" /\ d.ip = j
    BY <1>3, <2>1, <2>3, <2>4, OnwardSound
  <2>6. \A j \in Inum : Linking(s, j) => Linking(r, j)
    BY <1>3, <1>4, <1>8, <2>5 DEF Linking
  <2>7. s.pc # "fill"
    BY <1>3, <2>1, <2>4 DEF Onward, Puts, Fields, Op
  <2> QED
    BY <1>1, <1>2, <1>5, <2>5, <2>6, <2>7, CalmStep
<1>9. CASE r.back \notin {"user", "dead", "walk"}
  <2>1. s = d
    BY <1>9 DEF After, d
  <2> HIDE DEF s
  <2>2. ~Putting(s) /\ Place(s) = r.back /\ s.pc = r.back
    BY <1>1, <1>3, <1>4, <1>9, <2>1 DEF CallOK, Putting, Place, OpAt, Op, Makes
  <2>3. Sound(s, Odd, dinode, entry)
    BY <1>3, <1>4, <1>6, <1>9, <2>1, <2>2 DEF Sound, PathOK, Apart, Seen
  <2>4. \A j \in Inum : Linking(s, j) => Linking(r, j)
    BY <1>3, <1>4, <2>1, <2>2 DEF Linking
  <2> QED
    BY <1>1, <1>2, <1>4, <1>5, <2>2, <2>3, <2>4, CalmStep
<1> QED
  BY <1>7, <1>8, <1>9

\* A step of iput with the inode locked: the call is as it was.
LEMMA DroppingSound ==
    ASSUME NEW r, CallOK(r), r.pc = "put", NEW s, s = [r EXCEPT !.pc = "drop"],
           NEW odd, NEW d, NEW e, Sound(r, odd, d, e)
    PROVE  /\ Sound(s, odd, d, e) /\ CallOK(s) /\ s.pc = "drop"
           /\ s.at = r.at /\ s.ip = r.ip /\ s.dp = r.dp /\ s.put = r.put
           /\ \A j \in Inum : Linking(s, j) <=> Linking(r, j)
<1>1. Fields(s) /\ s.pc = "drop" /\ s.op = r.op /\ s.back = r.back /\ s.at = r.at /\ s.ip = r.ip
      /\ s.dp = r.dp /\ s.put = r.put /\ s.rest = r.rest /\ s.new = r.new
  BY DEF CallOK, Fields
<1>2. Putting(r) /\ Putting(s) /\ Place(s) = Place(r)
  BY <1>1 DEF Putting, Place
<1>3. Sound(s, odd, d, e)
  BY <1>1, <1>2 DEF Sound, PathOK, Apart, Seen
<1>4. CallOK(s)
  BY <1>1, <1>2 DEF CallOK
<1>5. \A j \in Inum : Linking(s, j) <=> Linking(r, j)
  BY <1>1, <1>2 DEF Linking
<1> QED
  BY <1>1, <1>3, <1>4, <1>5

\* An inode with one reference, which is in iput, is nobody else's.
LEMMA OnlyInPut ==
    ASSUME Inv, NEW p \in Proc, NEW i \in Inum, proc[p].put = i, ref[i] = 1
    PROVE  Held(i) = {<<"put", p>>}
<1>1. IsFiniteSet(Held(i)) /\ Cardinality(Held(i)) = 1 /\ <<"put", p>> \in Held(i)
  BY HeldFinite, HeldIs DEF Inv, RefsExact
<1>2. IsFiniteSet(Held(i) \ {<<"put", p>>}) /\ Cardinality(Held(i) \ {<<"put", p>>}) = 0
  BY <1>1, FS_RemoveElement
<1>3. Held(i) \ {<<"put", p>>} = {}
  BY <1>2, FS_EmptySet
<1> QED
  BY <1>1, <1>3

\* iput frees the inode i that p puts away.
Frees(p, i) ==
    /\ proc[p].put = i /\ dinode[i].nlink = 0 /\ ref[i] = 1 /\ cached[i] # None
    /\ dinode' = [dinode EXCEPT ![i] = Free]
    /\ entry' = [entry EXCEPT ![i] = <<>>]

\* iput frees the inode or writes nothing.
LEMMA IputFreesOrNot ==
    ASSUME Inv, NEW p \in Proc, IputLocked(p)
    PROVE  /\ proc[p].put \in Inum /\ CallOK(proc[p]) /\ proc[p].pc = "put"
           /\ Becomes(p, [proc[p] EXCEPT !.pc = "drop"]) /\ UNCHANGED cwd
           /\ UNCHANGED disk \/ Frees(p, proc[p].put)
<1> DEFINE i == proc[p].put
<1>1. CallOK(proc[p]) /\ proc[p].pc = "put" /\ i \in Inum
  BY Start DEF IputLocked, At, CallOK, Putting
<1>2. ref[i] > 0
  BY <1>1, Start
<1>3. cached[i] # None => cached[i] = dinode[i]
  BY <1>1, <1>2 DEF Inv, CacheFresh
<1>4. UNCHANGED disk \/ Frees(p, i)
  BY <1>3 DEF IputLocked, Frees, disk
<1> QED
  BY <1>1, <1>4 DEF IputLocked, files

\* What is freed is named nowhere and nobody but p has it.
LEMMA FreedIsForgotten ==
    ASSUME Inv, TreeInv, NEW p \in Proc, NEW i \in Inum, Frees(p, i)
    PROVE  /\ Claims(i, dinode, entry, proc) = {} /\ Held(i) = {<<"put", p>>}
           /\ \A q \in Proc : cwd[q] # i /\ proc[q].at # i /\ proc[q].ip # i /\ proc[q].dp # i
<1>1. Claims(i, dinode, entry, proc) = {}
  <2> SUFFICES ASSUME NEW t \in Claims(i, dinode, entry, proc) PROVE FALSE
    OBVIOUS
  <2>1. dinode[i].nlink >= 1
    BY ClaimedInUse
  <2> QED
    BY <2>1 DEF Frees
<1>2. Held(i) = {<<"put", p>>}
  BY OnlyInPut DEF Frees
<1>3. ASSUME NEW q \in Proc
      PROVE  cwd[q] # i /\ proc[q].at # i /\ proc[q].ip # i /\ proc[q].dp # i
  <2>1. <<"cwd", q>> \notin Held(i) /\ <<"at", q>> \notin Held(i) /\ <<"ip", q>> \notin Held(i)
        /\ <<"dp", q>> \notin Held(i)
    BY <1>2
  <2> QED
    BY <2>1, HeldIs
<1> QED
  BY <1>1, <1>2, <1>3


\* A freed inode is odd, and nobody in the middle of a call notices.
LEMMA IputFreesTree ==
    ASSUME Inv, TreeInv, NEW p \in Proc, IputLocked(p), NEW i \in Inum, Frees(p, i)
    PROVE  TreeInv'
<1> DEFINE r == proc[p]  s == [r EXCEPT !.pc = "drop"]
<1>1. CallOK(r) /\ r.pc = "put" /\ Becomes(p, s) /\ UNCHANGED cwd
  BY IputFreesOrNot
<1>2. /\ Claims(i, dinode, entry, proc) = {}
      /\ \A q \in Proc : cwd[q] # i /\ proc[q].at # i /\ proc[q].ip # i /\ proc[q].dp # i
  BY FreedIsForgotten
<1>3. /\ dinode'[i] = Free /\ entry'[i] = <<>>
      /\ \A j \in Inum \ {i} : dinode'[j] = dinode[j] /\ entry'[j] = entry[j]
  BY DEF Frees, Inv, TypeInv, Shaped, EntryOK
<1>4. proc'[p] = s /\ \A q \in Proc \ {p} : proc'[q] = proc[q]
  BY <1>1, OnlyP
<1>5. Sound(r, Odd, dinode, entry)
  BY SoundNow
<1>6. /\ Sound(s, Odd, dinode, entry) /\ CallOK(s) /\ s.pc = "drop"
      /\ s.at = r.at /\ s.ip = r.ip /\ s.dp = r.dp
      /\ \A j \in Inum : Linking(s, j) <=> Linking(r, j)
  BY <1>1, <1>5, DroppingSound
<1> HIDE DEF s
<1>7. /\ dinode'[i].type = "none" /\ dinode'[i].nlink = 0 /\ DOMAIN entry'[i] = {}
  BY <1>3 DEF Free
<1>8. \A j \in Inum : j \in Odd' <=> j \in Odd \/ j = i
  <2>1. \A q \in Proc, j \in Inum : proc'[q].pc = "fill" /\ proc'[q].ip = j <=>
                                    proc[q].pc = "fill" /\ proc[q].ip = j
    BY <1>1, <1>4, <1>6
  <2> QED
    BY <1>3, <1>7, <2>1 DEF Odd
<1>9. ASSUME NEW q \in Proc PROVE Sound(proc'[q], Odd', dinode', entry')
  <2> DEFINE x == proc'[q]
  <2>1. Sound(x, Odd, dinode, entry) /\ CallOK(x)
    BY <1>4, <1>6, Start, SoundNow
  <2>2. x.at # i /\ x.ip # i /\ x.dp # i
    BY <1>2, <1>4, <1>6
  <2>3. x.at \in Inum \cup {None} /\ x.ip \in Inum \cup {None} /\ x.dp \in Inum \cup {None}
    BY <2>1 DEF CallOK
  <2>4. x.pc = "fill" => x.ip \in Inum
    BY <2>1 DEF CallOK, Place, Putting, IpPlace
  <2>5. x.pc \in {"fill", "entry"} => x.dp \in Inum
    BY <2>1 DEF CallOK, Place, Putting, DpPlace
  <2> HIDE DEF x
  <2>6. \A j \in {x.at, x.dp, x.ip} \ {None} :
            j \notin Odd => j \notin Odd' /\ dinode'[j].type = dinode[j].type
    BY <1>3, <1>8, <2>2, <2>3
  <2>7. x.pc = "fill" => dinode'[x.ip].type = dinode[x.ip].type
    BY <1>3, <2>2, <2>4
  <2>8. x.pc \in {"fill", "entry"} => entry'[x.dp] = entry[x.dp]
    BY <1>3, <2>2, <2>5
  <2>9. Sound(x, Odd', dinode', entry')
    BY <2>1, <2>6, <2>7, <2>8, SoundStays
  <2> QED
    BY <2>9 DEF x
<1>10. Doing'
  BY <1>9 DEF Doing
<1>11. OneFills'
  BY <1>1, <1>4, <1>6 DEF TreeInv, OneFills
<1>12. CwdThere'
  <2>1. cwd \in [Proc -> Inum \cup {None}]
    BY DEF Inv, TypeInv, Shaped
  <2> QED
    BY <1>1, <1>2, <1>8, <2>1 DEF TreeInv, CwdThere
<1>13. ASSUME NEW x \in Inum, NEW n \in DOMAIN entry'[x]
       PROVE  x # i /\ entry'[x] = entry[x] /\ n \in DOMAIN entry[x]
  BY <1>3, <1>7, <1>13
<1>14. ASSUME NEW x \in Inum, NEW n \in DOMAIN entry[x] \ Dot
       PROVE  entry[x][n] \in Inum \ {i}
  <2>1. entry[x][n] \in Inum
    BY NamedInUse
  <2>2. entry[x][n] # i
    <3>1. <<"name", x, n>> \notin Claims(i, dinode, entry, proc)
      BY <1>2
    <3> QED
      BY <3>1, ClaimIs
  <2> QED
    BY <2>1, <2>2
<1>15. Dirs'
  <2> SUFFICES ASSUME NEW j \in Inum PROVE DirOK(j, Odd', dinode', entry')
    BY DEF Dirs
  <2>1. DirOK(j, Odd, dinode, entry)
    BY DEF TreeInv, Dirs
  <2> QED
    BY <1>3, <1>7, <1>8, <2>1 DEF DirOK
<1>16. Parents'
  <2> SUFFICES ASSUME NEW x \in Inum, NEW n \in DOMAIN entry'[x] \ Dot,
                      dinode'[entry'[x][n]].type = "dir"
               PROVE  entry'[entry'[x][n]][".."] = x
    BY DEF Parents, Below
  <2>1. entry'[x] = entry[x] /\ n \in DOMAIN entry[x] \ Dot
    BY <1>13
  <2>2. entry[x][n] \in Inum \ {i}
    BY <1>14, <2>1
  <2>3. entry[entry[x][n]][".."] = x
    BY <1>3, <2>1, <2>2 DEF TreeInv, Parents, Below
  <2> QED
    BY <1>3, <2>1, <2>2, <2>3
<1>17. ASSUME NEW j \in Inum PROVE Counts(j, dinode', entry', proc')
  <2> DEFINE A == Claims(j, dinode, entry, proc)  B == Claims(j, dinode', entry', proc')
  <2>1. IsFiniteSet(A) /\ Cardinality(A) =< dinode[j].nlink /\ dinode[j].nlink \in Int
    BY NlinkInt DEF TreeInv, Counted, Counts
  <2>2. B \subseteq A \cup {}
    <3>1. \A x \in Inum : \A n \in DOMAIN entry'[x] \ Dot : entry'[x][n] = j =>
              n \in DOMAIN entry[x] /\ entry[x][n] = j
      BY <1>13
    <3>2. \A n \in DOMAIN entry'[j] \ Dot : dinode'[entry'[j][n]].type = "dir" =>
              n \in DOMAIN entry[j] /\ dinode[entry[j][n]].type = "dir"
      <4> SUFFICES ASSUME NEW n \in DOMAIN entry'[j] \ Dot, dinode'[entry'[j][n]].type = "dir"
                   PROVE  n \in DOMAIN entry[j] /\ dinode[entry[j][n]].type = "dir"
        OBVIOUS
      <4>1. entry'[j] = entry[j] /\ n \in DOMAIN entry[j] \ Dot
        BY <1>13
      <4> QED
        BY <1>3, <1>14, <4>1
    <3>3. \A q \in Proc : Linking(proc'[q], j) => Linking(proc[q], j)
      BY <1>4, <1>6
    <3> QED
      BY <3>1, <3>2, <3>3, ClaimsWithin
  <2>3. dinode'[j].nlink = dinode[j].nlink
    BY <1>3, <1>7 DEF Frees
  <2> HIDE DEF A, B
  <2>4. IsFiniteSet(B) /\ Cardinality(B) =< dinode[j].nlink
    BY <2>1, <2>2, CountsFewer
  <2> QED
    BY <2>3, <2>4 DEF B, Counts
<1>18. Counted'
  BY <1>17 DEF Counted
<1> QED
  BY <1>10, <1>11, <1>12, <1>15, <1>16, <1>18 DEF TreeInv

\* iput with the inode locked.
LEMMA IputLockedTree == ASSUME Inv, TreeInv, NEW p \in Proc, IputLocked(p) PROVE TreeInv'
<1> DEFINE r == proc[p]  s == [r EXCEPT !.pc = "drop"]
<1>1. CallOK(r) /\ r.pc = "put" /\ Becomes(p, s) /\ UNCHANGED cwd /\ r.put \in Inum
      /\ (UNCHANGED disk \/ Frees(p, r.put))
  BY IputFreesOrNot
<1>2. CASE Frees(p, r.put)
  BY <1>1, <1>2, IputFreesTree
<1>3. CASE UNCHANGED disk
  <2>1. /\ Sound(s, Odd, dinode, entry) /\ s.pc = "drop"
        /\ \A j \in Inum : Linking(s, j) <=> Linking(r, j)
    BY <1>1, SoundNow, DroppingSound
  <2>2. \A q \in Proc : cwd'[q] # None => cwd'[q] \notin Odd
    BY <1>1, SoundNow
  <2> HIDE DEF s
  <2> QED
    BY <1>1, <1>3, <2>1, <2>2, CalmStep
<1> QED
  BY <1>1, <1>2, <1>3

-----------------------------------------------------------------------------
(* Those that count a link *)

\* Only the number of links of j changes.
LEMMA NlinkStep ==
    ASSUME Inv, TreeInv, NEW p \in Proc, NEW s, Becomes(p, s), CallOK(s), NEW j \in Inum \ Odd,
           NEW node \in Dinode, node.type = dinode[j].type,
           dinode' = [dinode EXCEPT ![j] = node], UNCHANGED <<entry, cwd>>,
           proc[p].pc # "fill", s.pc # "fill", Sound(s, Odd, dinode, entry),
           \A i \in Inum : Counts(i, dinode', entry', proc')
    PROVE  TreeInv'
<1>1. proc'[p] = s /\ \A q \in Proc \ {p} : proc'[q] = proc[q]
  BY OnlyP
<1>2. dinode'[j] = node /\ \A i \in Inum \ {j} : dinode'[i] = dinode[i]
  BY DEF Inv, TypeInv, Shaped
<1>3. \A i \in Inum : dinode'[i].type = dinode[i].type
  BY <1>2
<1>4. Odd' = Odd
  BY <1>3, OddStays
<1>5. ASSUME NEW q \in Proc PROVE Sound(proc'[q], Odd', dinode', entry')
  <2> DEFINE x == proc'[q]
  <2>1. Sound(x, Odd, dinode, entry)
    BY <1>1, SoundNow
  <2>2. CallOK(x)
    BY <1>1, Start
  <2>3. x.at \in Inum \cup {None} /\ x.ip \in Inum \cup {None} /\ x.dp \in Inum \cup {None}
    BY <2>2 DEF CallOK
  <2>4. x.pc = "fill" => x.ip \in Inum
    BY <2>2 DEF CallOK, Place, Putting, IpPlace
  <2> HIDE DEF x
  <2>5. \A i \in {x.at, x.dp, x.ip} \ {None} :
            i \notin Odd => i \notin Odd' /\ dinode'[i].type = dinode[i].type
    BY <1>3, <1>4, <2>3
  <2>6. x.pc = "fill" => dinode'[x.ip].type = dinode[x.ip].type
    BY <1>3, <2>4
  <2>7. Sound(x, Odd', dinode', entry')
    BY <2>1, <2>2, <2>5, <2>6, SoundStays
  <2> QED
    BY <2>7 DEF x
<1>6. Doing'
  BY <1>5 DEF Doing
<1>7. OneFills'
  BY <1>1 DEF TreeInv, OneFills
<1>8. CwdThere'
  BY <1>4 DEF TreeInv, CwdThere
<1>9. Dirs'
  <2> SUFFICES ASSUME NEW i \in Inum PROVE DirOK(i, Odd', dinode', entry')
    BY DEF Dirs
  <2>1. DirOK(i, Odd, dinode, entry)
    BY DEF TreeInv, Dirs
  <2>2. i = j => i \notin Odd
    OBVIOUS
  <2> QED
    BY <1>2, <1>3, <1>4, <2>1, <2>2 DEF DirOK
<1>10. Parents'
  <2> SUFFICES ASSUME NEW x \in Inum, NEW n \in DOMAIN entry[x] \ Dot,
                      dinode'[entry[x][n]].type = "dir"
               PROVE  entry[entry[x][n]][".."] = x
    BY DEF Parents, Below
  <2>1. entry[x][n] \in Inum
    BY NamedInUse
  <2> QED
    BY <1>3, <2>1 DEF TreeInv, Parents, Below
<1>11. Counted'
  BY DEF Counted
<1> QED
  BY <1>6, <1>7, <1>8, <1>9, <1>10, <1>11 DEF TreeInv

\* What is claimed after a step that changes no directory.
LEMMA ClaimsNext ==
    ASSUME Inv, TreeInv, NEW p \in Proc, NEW s, Becomes(p, s), UNCHANGED entry, NEW i \in Inum,
           \A j \in Inum : dinode'[j].type = dinode[j].type, NEW X,
           Linking(s, i) => Linking(proc[p], i) \/ <<"call", p, p>> \in X
    PROVE  Claims(i, dinode', entry', proc') \subseteq Claims(i, dinode, entry, proc) \cup X
<1>1. proc'[p] = s /\ \A q \in Proc \ {p} : proc'[q] = proc[q]
  BY OnlyP
<1>2. \A n \in DOMAIN entry[i] \ Dot : dinode'[entry[i][n]].type = dinode[entry[i][n]].type
  BY NamedInUse
<1>3. \A q \in Proc : Linking(proc'[q], i) => Linking(proc[q], i) \/ <<"call", q, q>> \in X
  BY <1>1
<1> QED
  BY <1>2, <1>3, ClaimsWithin

\* One link more is counted for j, if anything.
LEMMA OneLinkMore ==
    ASSUME Inv, TreeInv, NEW p \in Proc, NEW s, Becomes(p, s), CallOK(s), NEW j \in Inum \ Odd,
           dinode' = [dinode EXCEPT ![j] = Add(dinode[j], 1)], UNCHANGED <<entry, cwd>>,
           proc[p].pc # "fill", s.pc # "fill", Sound(s, Odd, dinode, entry),
           \A i \in Inum \ {j} : Linking(s, i) => Linking(proc[p], i)
    PROVE  TreeInv'
<1> DEFINE node == Add(dinode[j], 1)
<1>1. dinode[j] \in Dinode /\ dinode[j].nlink \in Int /\ dinode \in [Inum -> Dinode]
  BY DEF Inv, TypeInv, Shaped, Dinode
<1>2. node \in Dinode /\ node.type = dinode[j].type /\ node.nlink = dinode[j].nlink + 1
  BY <1>1 DEF Add, Dinode
<1>3. dinode' = [dinode EXCEPT ![j] = node]
  OBVIOUS
<1> HIDE DEF node
<1>4. dinode'[j] = node /\ \A i \in Inum \ {j} : dinode'[i] = dinode[i]
  BY <1>1, <1>3
<1>5. \A i \in Inum : dinode'[i].type = dinode[i].type
  BY <1>2, <1>4
<1>6. ASSUME NEW i \in Inum PROVE Counts(i, dinode', entry', proc')
  <2> DEFINE A == Claims(i, dinode, entry, proc)  B == Claims(i, dinode', entry', proc')
             t == <<"call", p, p>>
  <2>1. IsFiniteSet(A) /\ Cardinality(A) =< dinode[i].nlink /\ dinode[i].nlink \in Int
    BY NlinkInt DEF TreeInv, Counted, Counts
  <2>2. CASE i = j
    <3>1. B \subseteq A \cup {t}
      <4> DEFINE X == {t}
      <4>1. <<"call", p, p>> \in X
        OBVIOUS
      <4> HIDE DEF X
      <4>2. B \subseteq A \cup X
        BY <1>5, <4>1, ClaimsNext
      <4> QED
        BY <4>2 DEF X
    <3> HIDE DEF A, B, t
    <3>2. IsFiniteSet(B) /\ Cardinality(B) =< dinode[i].nlink + 1
      BY <2>1, <3>1, CountsOneMore
    <3> QED
      BY <1>2, <1>4, <2>2, <3>2 DEF B, Counts
  <2>3. CASE i # j
    <3>1. B \subseteq A \cup {}
      BY <1>5, <2>3, ClaimsNext
    <3> HIDE DEF A, B
    <3>2. IsFiniteSet(B) /\ Cardinality(B) =< dinode[i].nlink
      BY <2>1, <3>1, CountsFewer
    <3> QED
      BY <1>4, <2>3, <3>2 DEF B, Counts
  <2> QED
    BY <2>2, <2>3
<1> QED
  BY <1>2, <1>3, <1>6, NlinkStep

\* The link that p has counted for j is taken off.
LEMMA OneLinkLess ==
    ASSUME Inv, TreeInv, NEW p \in Proc, NEW s, Becomes(p, s), CallOK(s), NEW j \in Inum \ Odd,
           dinode' = [dinode EXCEPT ![j] = Add(dinode[j], -1)], UNCHANGED <<entry, cwd>>,
           proc[p].pc # "fill", s.pc # "fill", Sound(s, Odd, dinode, entry),
           Linking(proc[p], j), \A i \in Inum : ~Linking(s, i)
    PROVE  TreeInv'
<1> DEFINE node == Add(dinode[j], -1)
<1>1. dinode[j] \in Dinode /\ dinode[j].nlink \in Int /\ dinode \in [Inum -> Dinode]
  BY DEF Inv, TypeInv, Shaped, Dinode
<1>2. node \in Dinode /\ node.type = dinode[j].type /\ node.nlink = dinode[j].nlink - 1
  BY <1>1 DEF Add, Dinode
<1>3. dinode' = [dinode EXCEPT ![j] = node]
  OBVIOUS
<1> HIDE DEF node
<1>4. dinode'[j] = node /\ \A i \in Inum \ {j} : dinode'[i] = dinode[i]
  BY <1>1, <1>3
<1>5. \A i \in Inum : dinode'[i].type = dinode[i].type
  BY <1>2, <1>4
<1>6. ASSUME NEW i \in Inum PROVE Counts(i, dinode', entry', proc')
  <2> DEFINE A == Claims(i, dinode, entry, proc)  B == Claims(i, dinode', entry', proc')
             t == <<"call", p, p>>
  <2>1. IsFiniteSet(A) /\ Cardinality(A) =< dinode[i].nlink /\ dinode[i].nlink \in Int
    BY NlinkInt DEF TreeInv, Counted, Counts
  <2>2. B \subseteq A \cup {}
    BY <1>5, ClaimsNext
  <2>3. CASE i = j
    <3>1. t \in A /\ t \notin B
      <4>1. proc'[p] = s
        BY OnlyP
      <4> QED
        BY <2>3, <4>1, ClaimIs
    <3> HIDE DEF A, B, t
    <3>2. B \subseteq A \ {t}
      BY <2>2, <3>1
    <3>3. IsFiniteSet(B) /\ Cardinality(B) =< dinode[i].nlink - 1
      BY <2>1, <3>1, <3>2, CountsOneLess
    <3> QED
      BY <1>2, <1>4, <2>3, <3>3 DEF B, Counts
  <2>4. CASE i # j
    <3> HIDE DEF A, B
    <3>1. IsFiniteSet(B) /\ Cardinality(B) =< dinode[i].nlink
      BY <2>1, <2>2, CountsFewer
    <3> QED
      BY <1>4, <2>4, <3>1 DEF B, Counts
  <2> QED
    BY <2>3, <2>4
<1> QED
  BY <1>2, <1>3, <1>6, NlinkStep

\* The end of a call that takes the link off its inode.
LEMMA TakenOff ==
    ASSUME Inv, TreeInv, NEW p \in Proc, proc[p].pc \in {"bad", "erased"}, PutsIp(p, "user"),
           dinode' = [dinode EXCEPT ![proc[p].ip] = Add(Node(proc[p].ip), -1)],
           UNCHANGED <<entry, cwd>>
    PROVE  TreeInv'
<1> DEFINE r == proc[p]  s == [Puts(r, r.ip, "user") EXCEPT !.ip = None]
<1>1. CallOK(r) /\ Fields(r) /\ ~Putting(r)
  BY Start DEF CallOK, Putting
<1>2. r.ip \in Inum /\ r.dp = None /\ r.at = None /\ (r.pc = "bad" => r.op = "link to")
  BY <1>1, Where
<1>3. PutsAs(s, r, r.ip, "user") /\ s.at = r.at /\ s.ip = None /\ s.dp = r.dp
  BY <1>1 DEF Puts, Fields, PutsAs
<1>4. Becomes(p, s)
  BY DEF PutsIp
<1> HIDE DEF s
<1>5. CallOK(s) /\ Quiet(s) /\ s.pc # "fill"
  BY <1>2, <1>3 DEF PutsAs, CallOK, Quiet, Place, Putting, DpPlace, IpPlace, Makes
<1>6. Sound(s, Odd, dinode, entry) /\ \A i \in Inum : ~Linking(s, i)
  BY <1>5, QuietSound
<1>7. Place(r) = r.pc
  BY <1>1 DEF Place
<1>8. Linking(r, r.ip)
  BY <1>2, <1>7 DEF Linking
<1>9. r.ip \in Inum \ Odd
  BY <1>2, <1>7, SoundNow, NoneIsNot DEF Sound, Apart
<1>10. Node(r.ip) = dinode[r.ip]
  BY <1>2, Start, NodeIs
<1>11. dinode' = [dinode EXCEPT ![r.ip] = Add(dinode[r.ip], -1)]
  BY <1>10
<1>12. r.pc # "fill"
  OBVIOUS
<1> QED
  BY <1>4, <1>5, <1>6, <1>8, <1>9, <1>11, <1>12, OneLinkLess

\* link takes back the link it has counted.
LEMMA LinkBadTree == ASSUME Inv, TreeInv, NEW p \in Proc, LinkBad(p) PROVE TreeInv'
<1>1. proc[p].pc \in {"bad", "erased"} /\ PutsIp(p, "user") /\ UNCHANGED <<entry, cwd>>
      /\ dinode' = [dinode EXCEPT ![proc[p].ip] = Add(Node(proc[p].ip), -1)]
  BY DEF LinkBad, At, Update, files
<1> QED
  BY <1>1, TakenOff

\* unlink takes off the link whose name it has erased.
LEMMA UnlinkCountsTree == ASSUME Inv, TreeInv, NEW p \in Proc, UnlinkCounts(p) PROVE TreeInv'
<1>1. proc[p].pc \in {"bad", "erased"} /\ PutsIp(p, "user") /\ UNCHANGED <<entry, cwd>>
      /\ dinode' = [dinode EXCEPT ![proc[p].ip] = Add(Node(proc[p].ip), -1)]
  BY DEF UnlinkCounts, At, Update, files
<1> QED
  BY <1>1, TakenOff

\* link counts a link, which is its own claim from now on.
LEMMA LinkCountsTree == ASSUME Inv, TreeInv, NEW p \in Proc, LinkCounts(p) PROVE TreeInv'
<1> DEFINE r == proc[p]  i == IF r.new.abs THEN Root ELSE cwd[p]
           l == [r EXCEPT !.op = "link to", !.new = None]
           q == [l EXCEPT !.rest = r.new.names, !.at = i]  s == Onward(q)
<1>1. CallOK(r) /\ r.pc = "link" /\ ~Putting(r)
  BY Start DEF LinkCounts, At, Putting
<1>2. Fields(r) /\ r.ip \in Inum /\ r.dp = None /\ r.at = None /\ r.put = None
  BY <1>1, Where
<1>3. Becomes(p, s) /\ ~IsDir(r.ip) /\ UNCHANGED <<entry, cwd>>
      /\ dinode' = [dinode EXCEPT ![r.ip] = Add(Node(r.ip), 1)]
  BY DEF LinkCounts, Begin, files
<1>4. Place(r) = "link"
  BY <1>1 DEF Place
<1>5. i \in Inum \ Odd
  BY <1>4, StartInUse
<1> HIDE DEF i
<1>6. Fields(q) /\ q.op = "link to" /\ q.rest = r.new.names /\ q.at = i /\ q.ip = r.ip
      /\ q.dp = None /\ q.put = None
  BY <1>2 DEF Fields
<1> HIDE DEF q
<1>7. Node(r.ip) = dinode[r.ip]
  BY <1>2, Start, NodeIs
<1>8. r.ip \in Inum \ Odd /\ dinode[r.ip].type # "dir" /\ StaysDown("link to", r.new.names)
  BY <1>2, <1>3, <1>4, <1>7, SoundNow, NoneIsNot DEF IsDir, Sound, Apart, PathOK
<1>9. /\ Sound(s, Odd, dinode, entry)
      /\ \A j \in Inum : Linking(s, j) => q.op = "link to" /\ q.ip = j
  BY <1>5, <1>6, <1>8, NoneIsNot, OnwardSound
<1>10. CallOK(s)
  BY <1>2, <1>5, <1>6, OnwardOK
<1>11. s.pc # "fill"
  BY <1>6 DEF Onward, Puts, Fields, Parent
<1> HIDE DEF s
<1>12. dinode' = [dinode EXCEPT ![r.ip] = Add(dinode[r.ip], 1)]
  BY <1>3, <1>7
<1>13. \A j \in Inum \ {r.ip} : Linking(s, j) => Linking(r, j)
  BY <1>6, <1>9
<1> QED
  BY <1>1, <1>3, <1>8, <1>9, <1>10, <1>11, <1>12, <1>13, OneLinkMore

-----------------------------------------------------------------------------
(* Those that write directories *)

\* The calls of the others are sound after p has written directory x.
LEMMA OthersSound ==
    ASSUME Inv, TreeInv, NEW p \in Proc, NEW s, Becomes(p, s), NEW x, x # None => lock[x] \in {None, p},
           \A j \in Inum \ Odd : j \notin Odd' /\ dinode'[j].type = dinode[j].type,
           \A j \in Inum \ (Odd \cup {x}) : entry'[j] = entry[j],
           \A q \in Proc \ {p} : proc[q].pc = "fill" =>
               dinode'[proc[q].ip].type = dinode[proc[q].ip].type,
           Sound(s, Odd', dinode', entry')
    PROVE  Doing'
<1> SUFFICES ASSUME NEW q \in Proc PROVE Sound(proc'[q], Odd', dinode', entry')
  BY DEF Doing
<1>1. proc'[p] = s /\ \A o \in Proc \ {p} : proc'[o] = proc[o]
  BY OnlyP
<1>2. CASE q = p
  BY <1>1, <1>2
<1>3. CASE q # p
  <2> DEFINE r == proc[q]
  <2>1. CallOK(r) /\ Sound(r, Odd, dinode, entry) /\ proc'[q] = r
    BY <1>1, <1>3, Start, SoundNow
  <2>2. r.at \in Inum \cup {None} /\ r.ip \in Inum \cup {None} /\ r.dp \in Inum \cup {None}
    BY <2>1 DEF CallOK
  <2>3. r.pc \in {"fill", "entry"} => r.dp \in Inum \ Odd /\ r.dp # x
    <3> SUFFICES ASSUME r.pc \in {"fill", "entry"} PROVE r.dp \in Inum \ Odd /\ r.dp # x
      OBVIOUS
    <3>1. r.dp \in Inum /\ Keeps(r, r.dp)
      BY <2>1 DEF CallOK, Keeps, Place, Putting, DpPlace
    <3>2. r.dp \notin Odd
      BY <2>1, <3>1, NoneIsNot DEF Sound, Apart
    <3>3. lock[r.dp] = q
      BY <3>1, Start
    <3> QED
      BY <1>3, <3>1, <3>2, <3>3, NoneIsNot
  <2>4. r.pc = "fill" => dinode'[r.ip].type = dinode[r.ip].type
    BY <1>3
  <2> HIDE DEF r
  <2>5. \A j \in {r.at, r.dp, r.ip} \ {None} :
            j \notin Odd => j \notin Odd' /\ dinode'[j].type = dinode[j].type
    BY <2>2
  <2>6. r.pc \in {"fill", "entry"} => entry'[r.dp] = entry[r.dp]
    BY <2>3
  <2> QED
    BY <2>1, <2>4, <2>5, <2>6, SoundStays
<1> QED
  BY <1>2, <1>3

\* The ".." of directories that are named.
LEMMA NamedDir ==
    ASSUME Inv, TreeInv, NEW x \in Inum, NEW n \in DOMAIN entry[x] \ Dot,
           dinode[entry[x][n]].type = "dir"
    PROVE  /\ entry[x][n] \in Inum \ Odd /\ ".." \in DOMAIN entry[entry[x][n]]
           /\ entry[entry[x][n]][".."] = x
<1>1. entry[x][n] \in Inum \ Odd
  BY NamedInUse
<1>2. ".." \in DOMAIN entry[entry[x][n]]
  BY <1>1 DEF TreeInv, Dirs, DirOK, Dot
<1> QED
  BY <1>1, <1>2 DEF TreeInv, Parents, Below

\* link writes the name: the claim of the call becomes that of the name.
LEMMA LinkWritesTree == ASSUME Inv, TreeInv, NEW p \in Proc, LinkWrites(p) PROVE TreeInv'
<1> DEFINE r == proc[p]  x == r.dp  i == r.ip  n == Head(r.rest)
           s == [Puts(r, r.dp, "linked") EXCEPT !.dp = None]
<1>1. CallOK(r) /\ r.pc = "link to" /\ ~Putting(r)
  BY Start DEF LinkWrites, At, Putting
<1>2. Fields(r) /\ r.op = "link to" /\ r.at = None /\ x \in Inum /\ i \in Inum
  BY <1>1, Where
<1>3. Becomes(p, s) /\ lock[x] = None /\ n \notin DOMAIN entry[x] /\ UNCHANGED <<dinode, cwd>>
      /\ entry' = [entry EXCEPT ![x] = Named(@, n, i)]
  BY DEF LinkWrites, PutsDp, Ilock, Unlocked, files
<1>4. PutsAs(s, r, x, "linked") /\ s.at = r.at /\ s.ip = i /\ s.dp = None
  BY <1>2 DEF Puts, Fields, PutsAs
<1> HIDE DEF s
<1>5. Place(r) = "link to" /\ Place(s) = "linked" /\ s.pc = "put" /\ s.op = "link to"
  BY <1>1, <1>2, <1>4 DEF Place, Putting, PutsAs
<1>6. Sound(r, Odd, dinode, entry)
  BY SoundNow
<1>7. i \notin Odd /\ dinode[i].type # "dir"
  BY <1>2, <1>5, <1>6, NoneIsNot DEF Sound, Apart, Seen
<1>8. x \notin Odd /\ dinode[x].type = "dir" /\ Dot \subseteq DOMAIN entry[x] /\ entry[x]["."] = x
  BY <1>2, ParentIs
<1>9. n \notin Dot
  BY <1>3, <1>8
<1> DEFINE g == Named(entry[x], n, i)
<1>10. DOMAIN g = DOMAIN entry[x] \cup {n} /\ g[n] = i /\ \A m \in DOMAIN entry[x] : g[m] = entry[x][m]
  <2>1. n \notin DOMAIN entry[x]
    BY <1>3
  <2>2. DOMAIN g = DOMAIN entry[x] \cup {n} /\ g[n] = i
        /\ \A m \in DOMAIN entry[x] \ {n} : g[m] = entry[x][m]
    BY DEF Named
  <2> QED
    BY <2>1, <2>2
<1> HIDE DEF n, g
<1>11. entry'[x] = g /\ \A y \in Inum \ {x} : entry'[y] = entry[y]
  BY <1>2, <1>3 DEF Inv, TypeInv, Shaped, EntryOK, g
<1>12. ASSUME NEW y \in Inum, NEW m \in DOMAIN entry'[y]
       PROVE  \/ m \in DOMAIN entry[y] /\ entry'[y][m] = entry[y][m]
              \/ y = x /\ m = n /\ entry'[y][m] = i
  <2>1. CASE y = x
    BY <1>10, <1>11, <1>12, <2>1
  <2>2. CASE y # x
    BY <1>11, <1>12, <2>2
  <2> QED
    BY <2>1, <2>2
<1>13. \A y \in Inum : \A m \in DOMAIN entry[y] : m \in DOMAIN entry'[y] /\ entry'[y][m] = entry[y][m]
  BY <1>10, <1>11
<1>14. Odd' = Odd
  BY <1>1, <1>3, <1>5, OddStays
<1>15. proc'[p] = s /\ \A q \in Proc \ {p} : proc'[q] = proc[q]
  BY <1>3, OnlyP
<1>16. Sound(s, Odd, dinode, entry)
  BY <1>4, <1>5, <1>6, PutsSound
<1>17. Sound(s, Odd', dinode', entry')
  BY <1>3, <1>5, <1>14, <1>16 DEF Sound, Seen
<1>18. Doing'
  BY <1>3, <1>11, <1>14, <1>17, OthersSound
<1>19. OneFills'
  BY <1>5, <1>15 DEF TreeInv, OneFills
<1>20. CwdThere'
  BY <1>3, <1>14 DEF TreeInv, CwdThere
<1>21. Dirs'
  <2> SUFFICES ASSUME NEW j \in Inum PROVE DirOK(j, Odd', dinode', entry')
    BY DEF Dirs
  <2>1. DirOK(j, Odd, dinode, entry)
    BY DEF TreeInv, Dirs
  <2>2. CASE j = x
    BY <1>3, <1>8, <1>10, <1>11, <1>14, <2>1, <2>2 DEF DirOK, Dot
  <2>3. CASE j # x
    BY <1>3, <1>11, <1>14, <2>1, <2>3 DEF DirOK
  <2> QED
    BY <2>2, <2>3
<1>22. Parents'
  <2> SUFFICES ASSUME NEW y \in Inum, NEW m \in DOMAIN entry'[y] \ Dot,
                      dinode'[entry'[y][m]].type = "dir"
               PROVE  entry'[entry'[y][m]][".."] = y
    BY DEF Parents, Below
  <2>1. m \in DOMAIN entry[y] \ Dot /\ entry'[y][m] = entry[y][m] /\ dinode[entry[y][m]].type = "dir"
    BY <1>3, <1>7, <1>12
  <2>2. entry[y][m] \in Inum /\ ".." \in DOMAIN entry[entry[y][m]] /\ entry[entry[y][m]][".."] = y
    BY <2>1, NamedDir
  <2> QED
    BY <1>13, <2>1, <2>2
<1>23. ASSUME NEW j \in Inum PROVE Counts(j, dinode', entry', proc')
  <2> DEFINE A == Claims(j, dinode, entry, proc)  B == Claims(j, dinode', entry', proc')
             t == <<"call", p, p>>  u == <<"name", x, n>>  X == IF j = i THEN {u} ELSE {}
  <2>1. IsFiniteSet(A) /\ Cardinality(A) =< dinode[j].nlink /\ dinode[j].nlink \in Int
    BY NlinkInt DEF TreeInv, Counted, Counts
  <2>2. B \subseteq A \cup X
    <3>1. \A y \in Inum : \A m \in DOMAIN entry'[y] \ Dot : entry'[y][m] = j =>
              (m \in DOMAIN entry[y] /\ entry[y][m] = j) \/ <<"name", y, m>> \in X
      BY <1>12
    <3>2. \A m \in DOMAIN entry'[j] \ Dot : dinode'[entry'[j][m]].type = "dir" =>
              m \in DOMAIN entry[j] /\ dinode[entry[j][m]].type = "dir"
      BY <1>3, <1>7, <1>12
    <3>3. \A q \in Proc : Linking(proc'[q], j) => Linking(proc[q], j)
      <4>1. ~Linking(s, j)
        BY <1>5 DEF Linking
      <4> QED
        BY <1>15, <4>1
    <3> HIDE DEF X
    <3> QED
      BY <3>1, <3>2, <3>3, ClaimsWithin
  <2>3. CASE j = i
    <3>1. t \in A /\ t \notin B
      <4>1. Linking(r, j) /\ ~Linking(s, j)
        BY <1>2, <1>5, <2>3 DEF Linking
      <4> QED
        BY <1>15, <4>1, ClaimIs
    <3>2. X = {u}
      BY <2>3
    <3> HIDE DEF A, B, X, t, u
    <3>3. B \subseteq (A \ {t}) \cup {u}
      BY <2>2, <3>1, <3>2
    <3>4. IsFiniteSet(B) /\ Cardinality(B) =< dinode[j].nlink
      BY <2>1, <3>1, <3>3, CountsMoved
    <3> QED
      BY <1>3, <3>4 DEF B, Counts
  <2>4. CASE j # i
    <3>1. X = {}
      BY <2>4
    <3> HIDE DEF A, B, X
    <3>2. B \subseteq A
      BY <2>2, <3>1
    <3>3. IsFiniteSet(B) /\ Cardinality(B) =< dinode[j].nlink
      BY <2>1, <3>2, CountsFewer
    <3> QED
      BY <1>3, <3>3 DEF B, Counts
  <2> QED
    BY <2>3, <2>4
<1>24. Counted'
  BY <1>23 DEF Counted
<1> QED
  BY <1>18, <1>19, <1>20, <1>21, <1>22, <1>24 DEF TreeInv


\* unlink erases the name: its claim becomes that of the call.
LEMMA UnlinkErasesTree == ASSUME Inv, TreeInv, NEW p \in Proc, UnlinkErases(p) PROVE TreeInv'
<1> DEFINE r == proc[p]  x == r.dp  i == r.ip  n == Head(r.rest)
           k == IF IsDir(i) THEN -1 ELSE 0  node == Add(Node(x), k)
           s == [Puts(r, r.dp, "erased") EXCEPT !.dp = None]
<1>1. CallOK(r) /\ r.pc = "entry" /\ ~Putting(r)
  BY Start DEF UnlinkErases, At, Putting
<1>2. Fields(r) /\ r.op = "unlink" /\ r.at = None /\ x \in Inum /\ i \in Inum
  BY <1>1, Where
<1>3. Becomes(p, s) /\ lock[i] = None /\ UNCHANGED cwd /\ (IsDir(i) => IsDirEmpty(i))
      /\ dinode' = [dinode EXCEPT ![x] = node]
      /\ entry' = [entry EXCEPT ![x] = Restrict(@, DOMAIN @ \ {n})]
  BY DEF UnlinkErases, PutsDp, Ilock, Unlocked, files
<1>4. PutsAs(s, r, x, "erased") /\ s.at = r.at /\ s.ip = i /\ s.dp = None
  BY <1>2 DEF Puts, Fields, PutsAs
<1> HIDE DEF s
<1>5. Place(r) = "entry" /\ Place(s) = "erased" /\ s.pc = "put" /\ s.op = "unlink"
  BY <1>1, <1>2, <1>4 DEF Place, Putting, PutsAs
<1>6. Sound(r, Odd, dinode, entry)
  BY SoundNow
<1>7. i \notin Odd /\ n \in DOMAIN entry[x] \ Dot /\ entry[x][n] = i
  BY <1>1, <1>2, <1>5, <1>6, NoneIsNot DEF Sound, Apart, Seen
<1>8. x \notin Odd /\ dinode[x].type = "dir" /\ Dot \subseteq DOMAIN entry[x] /\ entry[x]["."] = x
  BY <1>2, ParentIs
<1>9. lock[x] = p /\ Node(x) = dinode[x] /\ x # i
  <2>1. Keeps(r, x)
    BY <1>5 DEF Keeps
  <2> QED
    BY <1>2, <1>3, <2>1, Start, NoneIsNot, LockedNode
<1>10. Node(i) = dinode[i]
  BY <1>2, Start, NodeIs
<1>11. /\ dinode'[x].type = "dir" /\ dinode'[x].nlink = dinode[x].nlink + k
       /\ \A y \in Inum \ {x} : dinode'[y] = dinode[y]
  <2>1. dinode[x] \in Dinode /\ dinode \in [Inum -> Dinode]
    BY <1>2 DEF Inv, TypeInv, Shaped
  <2>2. node.type = "dir" /\ node.nlink = dinode[x].nlink + k
    BY <1>8, <1>9, <2>1 DEF Add, Dinode
  <2> HIDE DEF node
  <2> QED
    BY <1>2, <1>3, <2>1, <2>2
<1>12. k = IF dinode[i].type = "dir" THEN -1 ELSE 0
  BY <1>10 DEF IsDir
<1>13. \A y \in Inum : dinode'[y].type = dinode[y].type
  BY <1>8, <1>11
<1> DEFINE g == Restrict(entry[x], DOMAIN entry[x] \ {n})
<1>14. DOMAIN g = DOMAIN entry[x] \ {n} /\ \A m \in DOMAIN entry[x] \ {n} : g[m] = entry[x][m]
  BY DEF Restrict
<1>15. entry'[x] = g /\ \A y \in Inum \ {x} : entry'[y] = entry[y]
  BY <1>2, <1>3 DEF Inv, TypeInv, Shaped, EntryOK
<1> HIDE DEF n, g, k, node
<1>16. \A y \in Inum : \A m \in DOMAIN entry'[y] :
           m \in DOMAIN entry[y] /\ entry'[y][m] = entry[y][m] /\ (y = x => m # n)
  BY <1>14, <1>15
<1>17. \A y \in Inum : \A m \in DOMAIN entry[y] :
           y # x \/ m # n => m \in DOMAIN entry'[y] /\ entry'[y][m] = entry[y][m]
  BY <1>14, <1>15
<1>18. Odd' = Odd
  BY <1>1, <1>3, <1>5, <1>13, OddStays
<1>19. proc'[p] = s /\ \A q \in Proc \ {p} : proc'[q] = proc[q]
  BY <1>3, OnlyP
<1>20. Sound(s, Odd, dinode, entry)
  BY <1>4, <1>5, <1>6, PutsSound
<1>21. Sound(s, Odd', dinode', entry')
  BY <1>2, <1>4, <1>5, <1>13, <1>18, <1>20 DEF Sound, Apart, Seen
<1>22. Doing'
  <2>1. \A q \in Proc \ {p} : proc[q].pc = "fill" =>
            dinode'[proc[q].ip].type = dinode[proc[q].ip].type
    <3> SUFFICES ASSUME NEW q \in Proc \ {p}, proc[q].pc = "fill"
                 PROVE  dinode'[proc[q].ip].type = dinode[proc[q].ip].type
      OBVIOUS
    <3>1. proc[q].ip \in Inum
      BY Start DEF CallOK, Place, Putting, IpPlace
    <3> QED
      BY <1>13, <3>1
  <2>2. \A j \in Inum \ Odd : j \notin Odd' /\ dinode'[j].type = dinode[j].type
    BY <1>13, <1>18
  <2>3. \A j \in Inum \ (Odd \cup {x}) : entry'[j] = entry[j]
    BY <1>15
  <2>4. x # None => lock[x] \in {None, p}
    BY <1>9
  <2> HIDE DEF x
  <2> QED
    BY <1>3, <1>21, <2>1, <2>2, <2>3, <2>4, OthersSound
<1>23. OneFills'
  BY <1>5, <1>19 DEF TreeInv, OneFills
<1>24. CwdThere'
  BY <1>3, <1>18 DEF TreeInv, CwdThere
<1>25. Dirs'
  <2> SUFFICES ASSUME NEW j \in Inum PROVE DirOK(j, Odd', dinode', entry')
    BY DEF Dirs
  <2>1. DirOK(j, Odd, dinode, entry)
    BY DEF TreeInv, Dirs
  <2>2. CASE j = x
    BY <1>7, <1>8, <1>13, <1>14, <1>15, <1>18, <2>1, <2>2 DEF DirOK, Dot
  <2>3. CASE j # x
    BY <1>11, <1>15, <1>18, <2>1, <2>3 DEF DirOK
  <2> QED
    BY <2>2, <2>3
<1>26. Parents'
  <2> SUFFICES ASSUME NEW y \in Inum, NEW m \in DOMAIN entry'[y] \ Dot,
                      dinode'[entry'[y][m]].type = "dir"
               PROVE  entry'[entry'[y][m]][".."] = y
    BY DEF Parents, Below
  <2>1. m \in DOMAIN entry[y] \ Dot /\ entry'[y][m] = entry[y][m]
    BY <1>16
  <2>2. dinode[entry[y][m]].type = "dir"
    BY <1>13, <2>1, NamedInUse
  <2>3. entry[y][m] \in Inum /\ ".." \in DOMAIN entry[entry[y][m]] /\ entry[entry[y][m]][".."] = y
    BY <2>1, <2>2, NamedDir
  <2>4. n # ".."
    BY <1>7 DEF Dot
  <2> QED
    BY <1>17, <2>1, <2>3, <2>4
<1>27. ASSUME NEW j \in Inum PROVE Counts(j, dinode', entry', proc')
  <2> DEFINE A == Claims(j, dinode, entry, proc)  B == Claims(j, dinode', entry', proc')
             t == <<"call", p, p>>  u == <<"name", x, n>>  v == <<"sub", x, n>>
             X == IF j = i THEN {t} ELSE {}
  <2>1. IsFiniteSet(A) /\ Cardinality(A) =< dinode[j].nlink /\ dinode[j].nlink \in Int
    BY NlinkInt DEF TreeInv, Counted, Counts
  <2>2. B \subseteq A \cup X
    <3>1. \A y \in Inum : \A m \in DOMAIN entry'[y] \ Dot : entry'[y][m] = j =>
              m \in DOMAIN entry[y] /\ entry[y][m] = j
      BY <1>16
    <3>2. \A m \in DOMAIN entry'[j] \ Dot : dinode'[entry'[j][m]].type = "dir" =>
              m \in DOMAIN entry[j] /\ dinode[entry[j][m]].type = "dir"
      BY <1>13, <1>16, NamedInUse
    <3>3. \A q \in Proc : Linking(proc'[q], j) => Linking(proc[q], j) \/ <<"call", q, q>> \in X
      <4>1. Linking(s, j) => j = i
        BY <1>4 DEF Linking
      <4> QED
        BY <1>19, <4>1
    <3> HIDE DEF X
    <3> QED
      BY <3>1, <3>2, <3>3, ClaimsWithin
  <2>3. CASE j = i
    <3>1. u \in A /\ u \notin B
      <4>1. n \notin DOMAIN entry'[x]
        BY <1>2, <1>16
      <4>2. x \in Inum /\ n \in DOMAIN entry[x] \ Dot /\ entry[x][n] = j
        BY <1>2, <1>7, <2>3
      <4> HIDE DEF x, i
      <4> QED
        BY <4>1, <4>2, ClaimIs
    <3>2. X = {t}
      BY <2>3
    <3> HIDE DEF A, B, X, t, u
    <3>3. B \subseteq (A \ {u}) \cup {t}
      BY <2>2, <3>1, <3>2
    <3>4. IsFiniteSet(B) /\ Cardinality(B) =< dinode[j].nlink
      BY <2>1, <3>1, <3>3, CountsMoved
    <3> QED
      BY <1>9, <1>11, <2>3, <3>4 DEF B, Counts
  <2>4. CASE j # i
    <3>1. X = {}
      BY <2>4
    <3>2. j = x /\ dinode[i].type = "dir" => v \in A /\ v \notin B
      <4> SUFFICES ASSUME j = x, dinode[i].type = "dir" PROVE v \in A /\ v \notin B
        OBVIOUS
      <4>1. v = <<"sub", j, n>> /\ n \notin DOMAIN entry'[j]
        BY <1>16
      <4>2. n \in DOMAIN entry[j] \ Dot /\ dinode[entry[j][n]].type = "dir"
        BY <1>7
      <4> HIDE DEF x, i
      <4> QED
        BY <4>1, <4>2, ClaimIs
    <3> HIDE DEF A, B, X, v
    <3>3. B \subseteq A
      BY <2>2, <3>1
    <3>4. CASE j = x /\ dinode[i].type = "dir"
      <4>1. v \in A /\ B \subseteq A \ {v}
        BY <3>2, <3>3, <3>4
      <4>2. IsFiniteSet(B) /\ Cardinality(B) =< dinode[j].nlink - 1
        BY <2>1, <4>1, CountsOneLess
      <4>3. dinode'[j].nlink = dinode[j].nlink - 1
        BY <1>11, <1>12, <2>1, <3>4
      <4> QED
        BY <4>2, <4>3 DEF B, Counts
    <3>5. CASE ~(j = x /\ dinode[i].type = "dir")
      <4>1. IsFiniteSet(B) /\ Cardinality(B) =< dinode[j].nlink
        BY <2>1, <3>3, CountsFewer
      <4>2. dinode'[j].nlink = dinode[j].nlink
        <5>1. CASE j = x
          BY <1>11, <1>12, <2>1, <3>5, <5>1
        <5>2. CASE j # x
          BY <1>11, <5>2
        <5> QED
          BY <5>1, <5>2
      <4> QED
        BY <4>1, <4>2 DEF B, Counts
    <3> QED
      BY <3>4, <3>5
  <2> QED
    BY <2>3, <2>4
<1>28. Counted'
  BY <1>27 DEF Counted
<1> QED
  BY <1>22, <1>23, <1>24, <1>25, <1>26, <1>28 DEF TreeInv


\* ialloc gives an inode a type: it stays odd, as it has yet to be filled.
LEMMA IallocTree == ASSUME Inv, TreeInv, NEW p \in Proc, Ialloc(p) PROVE TreeInv'
<1> DEFINE r == proc[p]  x == r.dp  new == [Free EXCEPT !.type = Type[r.op]]
<1>1. CallOK(r) /\ r.pc \in Makes /\ ~Putting(r)
  BY Start DEF Ialloc, Putting, Type, Makes
<1>2. Fields(r) /\ r.op \in Makes /\ r.at = None /\ x \in Inum
  BY <1>1, Where DEF Makes
<1>3. PICK i \in Inum : /\ dinode[i].type = "none" /\ dinode' = [dinode EXCEPT ![i] = new]
                        /\ Becomes(p, [r EXCEPT !.pc = "fill", !.ip = i])
  BY DEF Ialloc
<1> DEFINE s == [r EXCEPT !.pc = "fill", !.ip = i]
<1>4. Head(r.rest) \notin DOMAIN entry[x] /\ UNCHANGED <<entry, cwd>>
  BY DEF Ialloc, files
<1>5. s.pc = "fill" /\ s.op = r.op /\ s.at = None /\ s.ip = i /\ s.dp = x /\ s.rest = r.rest
  BY <1>2 DEF Fields
<1>6. new.type = Type[r.op] /\ new.nlink = 0 /\ new.type # "none"
  BY <1>2 DEF Free, Type, Makes
<1>7. Becomes(p, s)
  BY <1>3
<1> HIDE DEF s, new
<1>8. dinode'[i] = new /\ \A j \in Inum \ {i} : dinode'[j] = dinode[j]
  BY <1>3 DEF Inv, TypeInv, Shaped
<1>9. proc'[p] = s /\ \A q \in Proc \ {p} : proc'[q] = proc[q]
  BY <1>7, OnlyP
<1>10. ~Putting(s) /\ Place(s) = "fill"
  BY <1>5 DEF Putting, Place
<1>11. \A q \in Proc : ~(proc[q].pc = "fill" /\ proc[q].ip = i)
  <2> SUFFICES ASSUME NEW q \in Proc, proc[q].pc = "fill", proc[q].ip = i PROVE FALSE
    OBVIOUS
  <2>1. proc[q].op \in Makes
    BY Start, Where DEF Putting
  <2>2. dinode[i].type = Type[proc[q].op]
    BY SoundNow DEF Sound, Seen
  <2> QED
    BY <1>3, <2>1, <2>2 DEF Type, Makes
<1>12. i \in Odd /\ dinode[i].nlink = 0 /\ DOMAIN entry[i] = {}
  <2>1. i \in Odd
    BY <1>3 DEF Odd
  <2> QED
    BY <2>1 DEF TreeInv, Dirs, DirOK
<1>13. \A j \in Inum : j \in Odd' <=> j \in Odd
  <2> TAKE j \in Inum
  <2>1. CASE j = i
    <3>1. j \in Odd'
      BY <1>5, <1>9, <2>1 DEF Odd
    <3> QED
      BY <1>12, <2>1, <3>1
  <2>2. CASE j # i
    <3>1. \A q \in Proc : proc'[q].pc = "fill" /\ proc'[q].ip = j <=>
                          proc[q].pc = "fill" /\ proc[q].ip = j
      BY <1>1, <1>5, <1>9, <2>2 DEF Makes
    <3> QED
      BY <1>8, <2>2, <3>1 DEF Odd
  <2> QED
    BY <2>1, <2>2
<1>14. x \in Inum \ Odd /\ dinode[x].type = "dir" /\ x # i
  BY <1>2, <1>12, ParentIs
<1>15. Sound(s, Odd', dinode', entry')
  <2>1. PathOK(s)
    BY <1>5, <1>10 DEF PathOK
  <2>2. Apart(s, Odd', dinode')
    BY <1>5, <1>8, <1>10, <1>13, <1>14 DEF Apart
  <2>3. Seen(s, dinode', entry')
    BY <1>2, <1>4, <1>5, <1>6, <1>8 DEF Seen, Makes
  <2> QED
    BY <2>1, <2>2, <2>3 DEF Sound
<1>16. Doing'
  <2>1. \A q \in Proc \ {p} : proc[q].pc = "fill" =>
            dinode'[proc[q].ip].type = dinode[proc[q].ip].type
    <3> SUFFICES ASSUME NEW q \in Proc \ {p}, proc[q].pc = "fill"
                 PROVE  dinode'[proc[q].ip].type = dinode[proc[q].ip].type
      OBVIOUS
    <3>1. proc[q].ip \in Inum \ {i}
      BY <1>11, Start DEF CallOK, Place, Putting, IpPlace
    <3> QED
      BY <1>8, <3>1
  <2>2. \A j \in Inum \ Odd : j \notin Odd' /\ dinode'[j].type = dinode[j].type
    BY <1>8, <1>12, <1>13
  <2>3. \A j \in Inum \ (Odd \cup {None}) : entry'[j] = entry[j]
    BY <1>4
  <2> QED
    BY <1>7, <1>15, <2>1, <2>2, <2>3, OthersSound
<1>17. OneFills'
  BY <1>5, <1>9, <1>11 DEF TreeInv, OneFills
<1>18. CwdThere'
  <2>1. cwd \in [Proc -> Inum \cup {None}]
    BY DEF Inv, TypeInv, Shaped
  <2> QED
    BY <1>4, <1>13, <2>1 DEF TreeInv, CwdThere
<1>19. Dirs'
  <2> SUFFICES ASSUME NEW j \in Inum PROVE DirOK(j, Odd', dinode', entry')
    BY DEF Dirs
  <2>1. DirOK(j, Odd, dinode, entry)
    BY DEF TreeInv, Dirs
  <2>2. CASE j = i
    BY <1>4, <1>6, <1>8, <1>12, <1>13, <2>2 DEF DirOK
  <2>3. CASE j # i
    BY <1>4, <1>8, <1>13, <2>1, <2>3 DEF DirOK
  <2> QED
    BY <2>2, <2>3
<1>20. \A y \in Inum : \A m \in DOMAIN entry[y] \ Dot :
           entry[y][m] \in Inum /\ dinode'[entry[y][m]] = dinode[entry[y][m]]
  BY <1>8, <1>12, NamedInUse
<1>21. Parents'
  BY <1>4, <1>20 DEF TreeInv, Parents, Below
<1>22. ASSUME NEW j \in Inum PROVE Counts(j, dinode', entry', proc')
  <2> DEFINE A == Claims(j, dinode, entry, proc)  B == Claims(j, dinode', entry', proc')
  <2>1. IsFiniteSet(A) /\ Cardinality(A) =< dinode[j].nlink /\ dinode[j].nlink \in Int
    BY NlinkInt DEF TreeInv, Counted, Counts
  <2>2. B \subseteq A \cup {}
    <3>1. \A q \in Proc : Linking(proc'[q], j) => Linking(proc[q], j)
      <4>1. ~Linking(s, j)
        BY <1>2, <1>5, <1>10 DEF Linking, Makes
      <4> QED
        BY <1>9, <4>1
    <3>2. \A m \in DOMAIN entry'[j] \ Dot : dinode'[entry'[j][m]].type = "dir" =>
              m \in DOMAIN entry[j] /\ dinode[entry[j][m]].type = "dir"
      BY <1>4, <1>20
    <3>3. \A y \in Inum : \A m \in DOMAIN entry'[y] \ Dot : entry'[y][m] = j =>
              m \in DOMAIN entry[y] /\ entry[y][m] = j
      BY <1>4
    <3> QED
      BY <3>1, <3>2, <3>3, ClaimsWithin
  <2>3. dinode'[j].nlink = dinode[j].nlink
    BY <1>6, <1>8, <1>12
  <2> HIDE DEF A, B
  <2>4. IsFiniteSet(B) /\ Cardinality(B) =< dinode[j].nlink
    BY <2>1, <2>2, CountsFewer
  <2> QED
    BY <2>3, <2>4 DEF B, Counts
<1>23. Counted'
  BY <1>22 DEF Counted
<1> QED
  BY <1>16, <1>17, <1>18, <1>19, <1>21, <1>23 DEF TreeInv


\* What create writes: i is in the directory x under the name n.
Fills(x, i, n) ==
    /\ dinode'[i].type = dinode[i].type /\ dinode'[i].nlink = 1
    /\ dinode'[x].type = "dir" /\ dinode'[x].nlink = dinode[x].nlink + (IF dinode[i].type = "dir" THEN 1 ELSE 0)
    /\ \A y \in Inum \ {x, i} : dinode'[y] = dinode[y] /\ entry'[y] = entry[y]
    /\ DOMAIN entry'[i] = IF dinode[i].type = "dir" THEN Dot ELSE {}
    /\ dinode[i].type = "dir" => entry'[i]["."] = i /\ entry'[i][".."] = x
    /\ DOMAIN entry'[x] = DOMAIN entry[x] \cup {n} /\ entry'[x][n] = i
    /\ \A m \in DOMAIN entry[x] : entry'[x][m] = entry[x][m]

\* What create has seen when it fills i, and what p does then.
Filling(p, x, i, n, s) ==
    /\ x \in Inum \ Odd /\ i \in Odd /\ x # i /\ lock[x] = p /\ n \notin Dot
    /\ n \notin DOMAIN entry[x] /\ dinode[i].nlink = 0 /\ dinode[i].type # "none"
    /\ dinode[x].type = "dir" /\ Dot \subseteq DOMAIN entry[x] /\ entry[x]["."] = x
    /\ Becomes(p, s) /\ UNCHANGED cwd
    /\ s.pc = "put" /\ s.back = "made" /\ s.op \in Makes /\ s.at = None /\ s.ip = i
    /\ s.dp = None /\ i \in Inum
    /\ Fills(x, i, n)

\* The two that it writes.
LEMMA Filled ==
    ASSUME Inv, TreeInv, NEW p \in Proc, CreateFills(p),
           NEW x, NEW i, NEW n, NEW s, x = proc[p].dp, i = proc[p].ip,
           n = Head(proc[p].rest),
           s = [Puts(proc[p], x, "made") EXCEPT !.dp = None]
    PROVE  Filling(p, x, i, n, s)
<1> DEFINE r == proc[p]  dir == Type[r.op] = "dir"  node == [Node(i) EXCEPT !.nlink = 1]
           dnode == Add(Node(x), IF dir THEN 1 ELSE 0)
           e == IF dir THEN Dots(entry[i], i, x) ELSE entry[i]  g == Named(entry[x], n, i)
<1>1. CallOK(r) /\ r.pc = "fill" /\ ~Putting(r)
  BY Start DEF CreateFills, At, Putting
<1>2. Fields(r) /\ r.op \in Makes /\ r.at = None /\ x \in Inum /\ i \in Inum
  BY <1>1, Where
<1>3. Becomes(p, s) /\ lock[i] = None /\ Node(i).type # "none" /\ UNCHANGED cwd
      /\ dinode' = [dinode EXCEPT ![i] = node, ![x] = dnode]
      /\ entry' = [entry EXCEPT ![i] = IF dir THEN Dots(@, i, x) ELSE @, ![x] = Named(@, n, i)]
  BY DEF CreateFills, PutsDp, Ilock, Unlocked, files
<1>4. s.pc = "put" /\ s.back = "made" /\ s.op = r.op /\ s.at = None /\ s.ip = i /\ s.dp = None
  BY <1>2 DEF Puts, Fields
<1>5. i \in Odd
  BY <1>1, <1>2 DEF Odd
<1>6. dinode[i].nlink = 0 /\ DOMAIN entry[i] = {}
  BY <1>2, <1>5 DEF TreeInv, Dirs, DirOK
<1>7. x \notin Odd /\ dinode[x].type = "dir" /\ Dot \subseteq DOMAIN entry[x] /\ entry[x]["."] = x
  BY <1>2, ParentIs
<1>8. x # i
  BY <1>5, <1>7
<1>9. dinode[i].type = Type[r.op] /\ n \notin DOMAIN entry[x]
  BY <1>1, SoundNow DEF Sound, Seen
<1>10. n \notin Dot
  BY <1>7, <1>9
<1>11. lock[x] = p /\ Node(x) = dinode[x]
  <2>1. Keeps(r, x)
    BY <1>1 DEF Keeps, Place, Putting
  <2> QED
    BY <1>2, <2>1, Start, LockedNode
<1>12. Node(i) = dinode[i]
  BY <1>2, Start, NodeIs
<1>13. dinode \in [Inum -> Dinode] /\ dinode[x] \in Dinode /\ dinode[i] \in Dinode
       /\ entry = [j \in Inum |-> entry[j]]
  BY <1>2 DEF Inv, TypeInv, Shaped, EntryOK
<1>14. node.type = dinode[i].type /\ node.nlink = 1
  BY <1>12, <1>13 DEF Dinode
<1>15. dnode.type = "dir" /\ dnode.nlink = dinode[x].nlink + (IF dir THEN 1 ELSE 0)
  BY <1>7, <1>11, <1>13 DEF Add, Dinode
<1>16. DOMAIN g = DOMAIN entry[x] \cup {n} /\ g[n] = i /\ \A m \in DOMAIN entry[x] : g[m] = entry[x][m]
  BY <1>9 DEF Named
<1>17. DOMAIN e = (IF dir THEN Dot ELSE {}) /\ (dir => e["."] = i /\ e[".."] = x)
  BY <1>6 DEF Dots, Named, Dot
<1>18. entry' = [entry EXCEPT ![i] = e, ![x] = g]
  BY <1>3, <1>8, <1>13
<1>22. dir <=> dinode[i].type = "dir"
  BY <1>9
<1> HIDE DEF node, dnode, e, g, dir
<1>19. dinode'[i] = node /\ dinode'[x] = dnode /\ \A y \in Inum \ {x, i} : dinode'[y] = dinode[y]
  BY <1>2, <1>3, <1>8, <1>13
<1>20. entry'[i] = e /\ entry'[x] = g /\ \A y \in Inum \ {x, i} : entry'[y] = entry[y]
  BY <1>2, <1>8, <1>13, <1>18
<1>21. Fills(x, i, n)
  BY <1>14, <1>15, <1>16, <1>17, <1>19, <1>20, <1>22 DEF Fills
<1> QED
  BY <1>2, <1>3, <1>4, <1>5, <1>6, <1>7, <1>8, <1>9, <1>10, <1>11, <1>12, <1>21 DEF Filling


\* create fills the inode, and writes its name in a directory that is in use.
LEMMA CreateFillsTree == ASSUME Inv, TreeInv, NEW p \in Proc, CreateFills(p) PROVE TreeInv'
<1>1. PICK x, i, n, s :
          /\ x = proc[p].dp /\ i = proc[p].ip /\ n = Head(proc[p].rest)
          /\ s = [Puts(proc[p], x, "made") EXCEPT !.dp = None]
  OBVIOUS
<1>0. Filling(p, x, i, n, s)
  BY <1>1, Filled
<1>2. /\ x \in Inum \ Odd /\ i \in Odd /\ x # i /\ lock[x] = p /\ n \notin Dot
      /\ n \notin DOMAIN entry[x] /\ dinode[i].nlink = 0 /\ dinode[i].type # "none"
      /\ dinode[x].type = "dir" /\ Dot \subseteq DOMAIN entry[x] /\ entry[x]["."] = x
      /\ Becomes(p, s) /\ UNCHANGED cwd
      /\ s.pc = "put" /\ s.back = "made" /\ s.op \in Makes /\ s.at = None /\ s.ip = i
      /\ s.dp = None /\ i \in Inum
      /\ Fills(x, i, n)
  BY <1>0 DEF Filling
<1>3. CallOK(proc[p]) /\ proc[p].pc = "fill" /\ proc[p].ip = i
  BY <1>1, Start DEF CreateFills, At
<1>4. proc'[p] = s /\ \A q \in Proc \ {p} : proc'[q] = proc[q]
  BY <1>2, OnlyP
<1>5. Place(s) = "made" /\ Putting(s)
  BY <1>2 DEF Place, Putting
<1>6. \A y \in Inum : dinode'[y].type = dinode[y].type
  BY <1>2 DEF Fills
<1>7. \A j \in Inum : j \in Odd' <=> j \in Odd /\ j # i
  <2> TAKE j \in Inum
  <2>1. CASE j = i
    <3>1. \A q \in Proc : ~(proc'[q].pc = "fill" /\ proc'[q].ip = i)
      BY <1>2, <1>3, <1>4 DEF TreeInv, OneFills
    <3>2. j \notin Odd'
      BY <1>2, <1>6, <2>1, <3>1 DEF Odd
    <3> QED
      BY <2>1, <3>2
  <2>2. CASE j # i
    <3>1. \A q \in Proc : proc'[q].pc = "fill" /\ proc'[q].ip = j <=>
                          proc[q].pc = "fill" /\ proc[q].ip = j
      BY <1>2, <1>3, <1>4, <2>2
    <3> QED
      BY <1>6, <2>2, <3>1 DEF Odd
  <2> QED
    BY <2>1, <2>2
<1>8. Sound(s, Odd', dinode', entry')
  <2>1. PathOK(s)
    BY <1>2, <1>5 DEF PathOK
  <2>2. Apart(s, Odd', dinode')
    BY <1>2, <1>7 DEF Apart
  <2>3. Seen(s, dinode', entry')
    BY <1>2 DEF Seen, Makes
  <2> QED
    BY <2>1, <2>2, <2>3 DEF Sound
<1>9. Doing'
  <2>1. \A q \in Proc \ {p} : proc[q].pc = "fill" =>
            dinode'[proc[q].ip].type = dinode[proc[q].ip].type
    <3> SUFFICES ASSUME NEW q \in Proc \ {p}, proc[q].pc = "fill"
                 PROVE  dinode'[proc[q].ip].type = dinode[proc[q].ip].type
      OBVIOUS
    <3>1. proc[q].ip \in Inum
      BY Start DEF CallOK, Place, Putting, IpPlace
    <3> QED
      BY <1>6, <3>1
  <2>2. \A j \in Inum \ Odd : j \notin Odd' /\ dinode'[j].type = dinode[j].type
    BY <1>6, <1>7
  <2>3. \A j \in Inum \ (Odd \cup {x}) : entry'[j] = entry[j]
    BY <1>2 DEF Fills
  <2> QED
    BY <1>2, <1>8, <2>1, <2>2, <2>3, OthersSound
<1>10. OneFills'
  BY <1>2, <1>4 DEF TreeInv, OneFills
<1>11. CwdThere'
  <2>1. cwd \in [Proc -> Inum \cup {None}]
    BY DEF Inv, TypeInv, Shaped
  <2> QED
    BY <1>2, <1>7, <2>1 DEF TreeInv, CwdThere
<1>12. Dirs'
  <2> SUFFICES ASSUME NEW j \in Inum PROVE DirOK(j, Odd', dinode', entry')
    BY DEF Dirs
  <2>1. DirOK(j, Odd, dinode, entry)
    BY DEF TreeInv, Dirs
  <2>2. CASE j = i
    BY <1>2, <1>6, <1>7, <2>2 DEF DirOK, Fills
  <2>3. CASE j = x
    BY <1>2, <1>7, <2>3 DEF DirOK, Fills, Dot
  <2>4. CASE j \notin {x, i}
    BY <1>2, <1>7, <2>1, <2>4 DEF DirOK, Fills
  <2> QED
    BY <2>2, <2>3, <2>4
<1>13. ASSUME NEW y \in Inum, NEW m \in DOMAIN entry'[y] \ Dot
       PROVE  \/ m \in DOMAIN entry[y] /\ entry'[y][m] = entry[y][m]
              \/ y = x /\ m = n /\ entry'[y][m] = i
  <2>1. CASE y = i
    BY <1>2, <1>13, <2>1 DEF Fills
  <2>2. CASE y = x
    BY <1>2, <1>13, <2>2 DEF Fills
  <2>3. CASE y \notin {x, i}
    BY <1>2, <1>13, <2>3 DEF Fills
  <2> QED
    BY <2>1, <2>2, <2>3
<1>14. \A y \in Inum \ {i} : \A m \in DOMAIN entry[y] : m \in DOMAIN entry'[y] /\ entry'[y][m] = entry[y][m]
  BY <1>2 DEF Fills
<1>15. Parents'
  <2> SUFFICES ASSUME NEW y \in Inum, NEW m \in DOMAIN entry'[y] \ Dot,
                      dinode'[entry'[y][m]].type = "dir"
               PROVE  entry'[entry'[y][m]][".."] = y
    BY DEF Parents, Below
  <2>1. CASE m \in DOMAIN entry[y] /\ entry'[y][m] = entry[y][m]
    <3>1. entry[y][m] \in Inum \ Odd /\ dinode[entry[y][m]].type = "dir"
      BY <1>6, <2>1, NamedInUse
    <3>2. ".." \in DOMAIN entry[entry[y][m]] /\ entry[entry[y][m]][".."] = y
      BY <2>1, <3>1, NamedDir
    <3>3. entry[y][m] # i
      BY <1>2, <3>1
    <3> QED
      BY <1>14, <2>1, <3>1, <3>2, <3>3
  <2>2. CASE y = x /\ m = n /\ entry'[y][m] = i
    <3>1. dinode[i].type = "dir"
      BY <1>2, <1>6, <2>2
    <3> QED
      BY <1>2, <2>2, <3>1 DEF Fills
  <2> QED
    BY <1>13, <2>1, <2>2
<1>16. ASSUME NEW j \in Inum PROVE Counts(j, dinode', entry', proc')
  <2> DEFINE A == Claims(j, dinode, entry, proc)  B == Claims(j, dinode', entry', proc')
             u == <<"name", x, n>>  v == <<"sub", x, n>>
             X == IF j = i THEN {u} ELSE IF j = x /\ dinode[i].type = "dir" THEN {v} ELSE {}
  <2>1. IsFiniteSet(A) /\ Cardinality(A) =< dinode[j].nlink /\ dinode[j].nlink \in Int
    BY NlinkInt DEF TreeInv, Counted, Counts
  <2>2. B \subseteq A \cup X
    <3>1. \A y \in Inum : \A m \in DOMAIN entry'[y] \ Dot : entry'[y][m] = j =>
              (m \in DOMAIN entry[y] /\ entry[y][m] = j) \/ <<"name", y, m>> \in X
      BY <1>13
    <3>2. \A m \in DOMAIN entry'[j] \ Dot : dinode'[entry'[j][m]].type = "dir" =>
              (m \in DOMAIN entry[j] /\ dinode[entry[j][m]].type = "dir") \/ <<"sub", j, m>> \in X
      <4> SUFFICES ASSUME NEW m \in DOMAIN entry'[j] \ Dot, dinode'[entry'[j][m]].type = "dir"
                   PROVE  (m \in DOMAIN entry[j] /\ dinode[entry[j][m]].type = "dir")
                             \/ <<"sub", j, m>> \in X
        OBVIOUS
      <4>1. CASE m \in DOMAIN entry[j] /\ entry'[j][m] = entry[j][m]
        BY <1>6, <4>1, NamedInUse
      <4>2. CASE j = x /\ m = n /\ entry'[j][m] = i
        <5>1. dinode[i].type = "dir" /\ j # i
          BY <1>2, <1>6, <4>2
        <5> QED
          BY <4>2, <5>1
      <4> QED
        BY <1>13, <4>1, <4>2
    <3>3. \A q \in Proc : Linking(proc'[q], j) => Linking(proc[q], j)
      <4>1. ~Linking(s, j)
        BY <1>2, <1>5 DEF Linking, Makes
      <4> QED
        BY <1>4, <4>1
    <3> HIDE DEF X
    <3> QED
      BY <3>1, <3>2, <3>3, ClaimsWithin
  <2>3. CASE j = i
    <3>1. X = {u} /\ dinode'[j].nlink = dinode[j].nlink + 1
      BY <1>2, <2>3 DEF Fills
    <3> HIDE DEF A, B, X, u
    <3>2. B \subseteq A \cup {u}
      BY <2>2, <3>1
    <3>3. IsFiniteSet(B) /\ Cardinality(B) =< dinode[j].nlink + 1
      BY <2>1, <3>2, CountsOneMore
    <3> QED
      BY <3>1, <3>3 DEF B, Counts
  <2>4. CASE j = x /\ dinode[i].type = "dir"
    <3>1. X = {v} /\ dinode'[j].nlink = dinode[j].nlink + 1
      BY <1>2, <2>4 DEF Fills
    <3> HIDE DEF A, B, X, v
    <3>2. B \subseteq A \cup {v}
      BY <2>2, <3>1
    <3>3. IsFiniteSet(B) /\ Cardinality(B) =< dinode[j].nlink + 1
      BY <2>1, <3>2, CountsOneMore
    <3> QED
      BY <3>1, <3>3 DEF B, Counts
  <2>5. CASE j # i /\ ~(j = x /\ dinode[i].type = "dir")
    <3>1. X = {}
      BY <2>5
    <3>2. dinode'[j].nlink = dinode[j].nlink
      <4>1. CASE j = x
        BY <1>2, <2>1, <2>5, <4>1 DEF Fills
      <4>2. CASE j # x
        BY <1>2, <2>5, <4>2 DEF Fills
      <4> QED
        BY <4>1, <4>2
    <3> HIDE DEF A, B, X
    <3>3. B \subseteq A
      BY <2>2, <3>1
    <3>4. IsFiniteSet(B) /\ Cardinality(B) =< dinode[j].nlink
      BY <2>1, <3>3, CountsFewer
    <3> QED
      BY <3>2, <3>4 DEF B, Counts
  <2> QED
    BY <2>3, <2>4, <2>5
<1>17. Counted'
  BY <1>16 DEF Counted
<1> QED
  BY <1>9, <1>10, <1>11, <1>12, <1>15, <1>17 DEF TreeInv

-----------------------------------------------------------------------------
(* The tree is sound *)

\* The root alone is there.
LEMMA InitTree == Init => TreeInv
<1> SUFFICES ASSUME Init PROVE TreeInv
  OBVIOUS
<1> DEFINE Dead == [Idle EXCEPT !.pc = "dead"]
<1>1. InitProc \in Proc /\ Root \in Inum
  BY InodesAssumption DEF InodesAssumption
<1>2. \A p \in Proc : proc[p] \in {Idle, Dead}
  BY DEF Init
<1>3. Quiet(Dead) /\ Dead.pc = "dead" /\ Idle.pc = "user"
  BY DEF Quiet, Idle, Place, Putting
<1> HIDE DEF Dead
<1>4. \A p \in Proc : Quiet(proc[p]) /\ proc[p].pc # "fill"
  BY <1>2, <1>3, IdleQuiet
<1>5. /\ dinode[Root].type = "dir" /\ dinode[Root].nlink = 1 /\ DOMAIN entry[Root] = Dot
      /\ entry[Root]["."] = Root
      /\ \A i \in Inum \ {Root} : dinode[i].type = "none" /\ dinode[i].nlink = 0 /\ DOMAIN entry[i] = {}
  BY <1>1 DEF Init, Free, Dots, Named, Dot
<1>6. \A i \in Inum : i \in Odd <=> i # Root
  BY <1>4, <1>5 DEF Odd
<1>7. Doing /\ OneFills
  BY <1>4, QuietSound DEF Doing, OneFills
<1>8. CwdThere
  BY <1>1, <1>6 DEF Init, CwdThere
<1>9. Dirs
  BY <1>5, <1>6 DEF Dirs, DirOK
<1>10. Parents
  BY <1>5 DEF Parents, Below
<1>11. ASSUME NEW i \in Inum PROVE Counts(i, dinode, entry, proc)
  <2> DEFINE A == Claims(i, dinode, entry, proc)
  <2>1. \A t \in A : i = Root /\ t = <<"root", i, i>>
    <3>1. \A y \in Inum : DOMAIN entry[y] \ Dot = {}
      BY <1>5
    <3>2. \A p \in Proc : ~Linking(proc[p], i)
      BY <1>4, QuietSound
    <3> QED
      BY <3>1, <3>2, ClaimShape
  <2>2. CASE i = Root
    <3>1. A \subseteq {<<"root", i, i>>}
      BY <2>1
    <3>2. IsFiniteSet({<<"root", i, i>>}) /\ Cardinality({<<"root", i, i>>}) = 1
      BY FS_Singleton
    <3> HIDE DEF A
    <3>3. IsFiniteSet(A) /\ Cardinality(A) =< 1
      BY <3>1, <3>2, CountsFewer
    <3> QED
      BY <1>5, <2>2, <3>3 DEF A, Counts
  <2>3. CASE i # Root
    <3>1. A = {}
      BY <2>1, <2>3
    <3> QED
      BY <1>5, <2>3, <3>1, FS_EmptySet DEF Counts
  <2> QED
    BY <2>2, <2>3
<1>12. Counted
  BY <1>11 DEF Counted
<1> QED
  BY <1>7, <1>8, <1>9, <1>10, <1>12 DEF TreeInv

\* Nothing happens.
LEMMA StutterTree == ASSUME TreeInv, UNCHANGED vars PROVE TreeInv'
<1>1. dinode' = dinode /\ entry' = entry /\ cwd' = cwd /\ proc' = proc
  BY DEF vars, disk, files
<1>2. Odd' = Odd
  BY <1>1 DEF Odd
<1> QED
  BY <1>1, <1>2 DEF TreeInv, Doing, OneFills, CwdThere, Dirs, Counted, Parents

\* Every step keeps TreeInv.
LEMMA NextTree == ASSUME UpToOpen, Inv, TreeInv, [Next]_vars PROVE TreeInv'
<1>1. CASE UNCHANGED vars
  BY <1>1, StutterTree
<1>2. ASSUME NEW p \in Proc, Names(p) PROVE TreeInv'
  BY <1>2, IputLockedTree, IputDropTree, WalkStopsTree, WalkFailsTree, WalkOnTree DEF Names
<1>3. ASSUME NEW p \in Proc, Create(p) PROVE TreeInv'
  BY <1>3, CreateFindsTree, IallocTree, CreateFillsTree, ExistsNotTree, MadeNodeTree DEF Create
<1>4. ASSUME NEW p \in Proc, Link(p) PROVE TreeInv'
  BY <1>4, LinkCountsTree, LinkRefusesTree, LinkWritesTree, LinkedTree, LinkFindsTree, LinkFailsTree,
     LinkBadTree DEF Link
<1>5. ASSUME NEW p \in Proc, Unlink(p) PROVE TreeInv'
  BY <1>5, UnlinkFailsTree, UnlinkFindsTree, UnlinkErasesTree, UnlinkCountsTree, UnlinkRefusesTree,
     UnlinkBadTree DEF Unlink
<1>6. ASSUME NEW p \in Proc, User(p) PROVE TreeInv'
  BY <1>6, CallTree, CloseTree, ExitTree, ForkTree DEF User
<1>7. ASSUME NEW p \in Proc, Kernel(p) PROVE TreeInv'
  BY <1>2, <1>3, <1>4, <1>5, <1>7, OpenTree, ChdirTree DEF Kernel
<1> QED
  BY <1>1, <1>6, <1>7 DEF Next

\* The names of i are some of its claims.
LEMMA LinkClaims ==
    ASSUME Inv, TreeInv, NEW i \in Inum
    PROVE  /\ IsFiniteSet(Links(i)) /\ Cardinality(Links(i)) =< dinode[i].nlink
           /\ \A l \in Links(i) : l[1] \in Inum /\ l[2] \in DOMAIN entry[l[1]] \ Dot
                                  /\ entry[l[1]][l[2]] = i
<1> DEFINE A == Claims(i, dinode, entry, proc)  L == Links(i)
           f == [l \in L |-> <<"name", l[1], l[2]>>]
<1>1. \A l \in L : l = <<l[1], l[2]>> /\ l[1] \in Inum /\ l[2] \in DOMAIN entry[l[1]] \ Dot
                   /\ entry[l[1]][l[2]] = i
  BY DEF Links, Dot
<1>2. \A l \in L : f[l] \in A
  BY <1>1, ClaimIs
<1>3. IsFiniteSet(A) /\ Cardinality(A) =< dinode[i].nlink
  BY DEF TreeInv, Counted, Counts
<1>4. f \in Injection(L, A)
  <2>1. ASSUME NEW l \in L, NEW m \in L, f[l] = f[m] PROVE l = m
    BY <1>1, <2>1
  <2> HIDE DEF L, A
  <2>2. f \in [L -> A]
    BY <1>2
  <2> HIDE DEF f
  <2> QED
    BY <2>1, <2>2 DEF Injection, IsInjective
<1> HIDE DEF f, L, A
<1>5. IsFiniteSet(L) /\ Cardinality(L) =< Cardinality(A)
  BY <1>3, <1>4, FS_Injection
<1>6. Cardinality(L) \in Nat /\ Cardinality(A) \in Nat
  BY <1>3, <1>5, FS_CardinalityType
<1>7. Cardinality(L) =< dinode[i].nlink
  BY <1>3, <1>5, <1>6, NlinkInt
<1> QED
  BY <1>1, <1>5, <1>7 DEF L

-----------------------------------------------------------------------------
(* What the runs check of the tree *)

\* Names are claims, so that TreeInv implies TreeSound.
LEMMA TreeIsSound == Inv /\ TreeInv => TreeSound
<1> SUFFICES ASSUME Inv, TreeInv, NEW i \in Inum
             PROVE  /\ dinode[i].nlink >= Cardinality(Links(i))
                    /\ Links(i) # {} => dinode[i].type # "none"
                    /\ dinode[i].type = "dir" => \A l \in Links(i) : entry[i][".."] = l[1]
  BY DEF TreeSound
<1>1. dinode[i].nlink >= Cardinality(Links(i))
  <2>1. Cardinality(Links(i)) \in Nat
    BY LinkClaims, FS_CardinalityType
  <2> QED
    BY <2>1, LinkClaims, NlinkInt
<1>2. ASSUME NEW l \in Links(i) PROVE dinode[i].type # "none"
  <2>1. i \notin Odd
    BY LinkClaims, NamedInUse
  <2> QED
    BY <2>1 DEF Odd
<1>3. ASSUME dinode[i].type = "dir", NEW l \in Links(i) PROVE entry[i][".."] = l[1]
  <2> DEFINE x == l[1]  n == l[2]
  <2>1. x \in Inum /\ n \in DOMAIN entry[x] \ Dot /\ entry[x][n] = i
    BY LinkClaims
  <2> HIDE DEF x, n
  <2>2. entry[i][".."] = x
    BY <1>3, <2>1, NamedDir
  <2> QED
    BY <2>2 DEF x
<1> QED
  BY <1>1, <1>2, <1>3

\* Only iput makes an inode free.
TypesStay == \A i \in Inum : dinode[i].type # "none" => dinode'[i].type # "none"

\* A count of links changes, the type does not.
LEMMA AddKeepsType ==
    ASSUME Inv, NEW k \in Inum, ref[k] > 0, NEW n \in Int,
           dinode' = [dinode EXCEPT ![k] = Add(Node(k), n)]
    PROVE  TypesStay
<1>1. dinode \in [Inum -> Dinode] /\ Node(k) = dinode[k]
  BY NodeIs DEF Inv, TypeInv, Shaped
<1>2. Add(Node(k), n).type = dinode[k].type
  BY <1>1 DEF Add, Dinode
<1> QED
  BY <1>1, <1>2 DEF TypesStay

\* No inode changes.
LEMMA SameTypes == ASSUME UNCHANGED dinode PROVE TypesStay
BY DEF TypesStay

\* The steps of the kernel but iput.
LEMMA KernelKeepsTypes ==
    ASSUME Inv, TreeInv, NEW p \in Proc, Kernel(p), ~IputLocked(p)
    PROVE  TypesStay
<1> DEFINE r == proc[p]
<1>1. CASE Ialloc(p)
  <2>1. r.pc \in Makes /\ ~Putting(r)
    BY Start, <1>1 DEF Ialloc, Putting, Type, Makes
  <2>2. r.op \in Makes
    BY <2>1, Start, Where DEF Makes
  <2> DEFINE new == [Free EXCEPT !.type = Type[r.op]]
  <2>3. new.type # "none"
    BY <2>2 DEF Free, Type, Makes
  <2>4. PICK i \in Inum : dinode' = [dinode EXCEPT ![i] = new]
    BY <1>1 DEF Ialloc
  <2> HIDE DEF new
  <2> QED
    BY <2>3, <2>4 DEF Inv, TypeInv, Shaped, TypesStay
<1>2. CASE CreateFills(p)
  <2>1. PICK x, i, n, s : /\ x = proc[p].dp /\ i = proc[p].ip /\ n = Head(proc[p].rest)
                          /\ s = [Puts(proc[p], x, "made") EXCEPT !.dp = None]
    OBVIOUS
  <2>2. Filling(p, x, i, n, s)
    BY <1>2, <2>1, Filled
  <2>3. \A y \in Inum : dinode'[y].type = dinode[y].type
    BY <2>2 DEF Filling, Fills
  <2> QED
    BY <2>3 DEF TypesStay
<1>3. CASE LinkCounts(p) \/ LinkBad(p) \/ UnlinkCounts(p)
  <2>1. PICK n \in Int : dinode' = [dinode EXCEPT ![r.ip] = Add(Node(r.ip), n)]
    BY <1>3 DEF LinkCounts, LinkBad, UnlinkCounts, Update
  <2>2. CallOK(r) /\ r.pc \in {"link", "bad", "erased"} /\ ~Putting(r)
    BY <1>3, Start DEF LinkCounts, LinkBad, UnlinkCounts, At, Putting
  <2>3. r.ip \in Inum
    BY <2>2, Where
  <2>4. ref[r.ip] > 0
    BY <2>3, Start
  <2> QED
    BY <2>1, <2>3, <2>4, AddKeepsType
<1>4. CASE UnlinkErases(p)
  <2>1. PICK n \in Int : dinode' = [dinode EXCEPT ![r.dp] = Add(Node(r.dp), n)]
    <3> DEFINE n == IF IsDir(r.ip) THEN -1 ELSE 0
    <3>1. n \in Int
      OBVIOUS
    <3>2. dinode' = [dinode EXCEPT ![r.dp] = Add(Node(r.dp), n)]
      BY <1>4 DEF UnlinkErases
    <3> HIDE DEF n
    <3> QED
      BY <3>1, <3>2
  <2>2. CallOK(r) /\ r.pc = "entry" /\ ~Putting(r)
    BY <1>4, Start DEF UnlinkErases, At, Putting
  <2>3. r.dp \in Inum
    BY <2>2, Where
  <2>4. ref[r.dp] > 0
    BY <2>3, Start
  <2> QED
    BY <2>1, <2>3, <2>4, AddKeepsType
<1>5. CASE Names(p) \/ Open(p) \/ Chdir(p)
  BY <1>5, SameTypes DEF Names, IputDrop, WalkStops, WalkFails, WalkOn, Open, Chdir, disk
<1>6. CASE CreateFinds(p) \/ ExistsNot(p) \/ MadeNode(p)
  BY <1>6, SameTypes DEF CreateFinds, ExistsNot, MadeNode, disk
<1>7. CASE LinkRefuses(p) \/ LinkWrites(p) \/ Linked(p) \/ LinkFinds(p) \/ LinkFails(p)
  BY <1>7, SameTypes DEF LinkRefuses, LinkWrites, Linked, LinkFinds, LinkFails, disk
<1>8. CASE UnlinkFails(p) \/ UnlinkFinds(p) \/ UnlinkRefuses(p) \/ UnlinkBad(p)
  BY <1>8, SameTypes DEF UnlinkFails, UnlinkFinds, UnlinkRefuses, UnlinkBad, disk
<1> QED
  BY <1>1, <1>2, <1>3, <1>4, <1>5, <1>6, <1>7, <1>8 DEF Kernel, Create, Link, Unlink

\* An inode that becomes free has no names, and only its iput refers to it.
LEMMA FreesTheForgotten ==
    ASSUME Inv, TreeInv, [Next]_vars, NEW i \in Inum,
           dinode[i].type # "none", dinode'[i].type = "none"
    PROVE  Links(i) = {} /\ \E p \in Proc : Held(i) = {<<"put", p>>}
<1>1. ~TypesStay
  BY DEF TypesStay
<1>2. PICK p \in Proc : IputLocked(p)
  <2>1. ASSUME UNCHANGED vars PROVE FALSE
    BY <1>1, <2>1, SameTypes DEF vars, disk
  <2>2. ASSUME NEW q \in Proc, User(q) PROVE FALSE
    BY <1>1, <2>2, SameTypes DEF User, Call, Close, Exit, Fork, disk
  <2>3. PICK q \in Proc : Kernel(q)
    BY <2>1, <2>2 DEF Next
  <2> QED
    BY <1>1, <2>3, KernelKeepsTypes
<1> DEFINE j == proc[p].put
<1>3. Frees(p, j) /\ j \in Inum
  BY <1>1, <1>2, IputFreesOrNot, SameTypes DEF disk
<1>4. i = j
  BY <1>3 DEF Frees, Inv, TypeInv, Shaped
<1> HIDE DEF j
<1>5. Claims(i, dinode, entry, proc) = {} /\ Held(i) = {<<"put", p>>}
  BY <1>3, <1>4, FreedIsForgotten
<1>6. ASSUME NEW l \in Links(i) PROVE FALSE
  <2> DEFINE x == l[1]  n == l[2]
  <2>1. x \in Inum /\ n \in DOMAIN entry[x] \ Dot /\ entry[x][n] = i
    BY LinkClaims
  <2> HIDE DEF x, n
  <2>2. <<"name", x, n>> \in Claims(i, dinode, entry, proc)
    BY <2>1, ClaimIs
  <2> QED
    BY <1>5, <2>2
<1> QED
  BY <1>5, <1>6

\* The invariants hold in every state.
LEMMA TreeInvariant == ASSUME UpToOpen PROVE Spec => [](Inv /\ TreeInv)
<1>1. Inv /\ TreeInv /\ [Next]_vars => Inv' /\ TreeInv'
  BY NextInv, NextTree
<1> QED
  BY <1>1, InitInv, InitTree, PTL DEF Spec

\* TreeSound, as the run checks it: whatever links, unlinks and creations are
\* under way, an inode has no more names than nlink says, what is named is in
\* use, and the ".." of a directory is the one directory that names it.
THEOREM TreeStaysSound == ASSUME UpToOpen PROVE Spec => []TreeSound
BY TreeInvariant, TreeIsSound, PTL

\* FreedOnlyWhenForgotten, as the run checks it: iput frees an inode which no
\* directory names and nobody else refers to.
THEOREM ForgottenBeforeFreed == ASSUME UpToOpen PROVE Spec => FreedOnlyWhenForgotten
<1>1. Inv /\ TreeInv /\ [Next]_vars =>
          [\A i \in Inum : dinode[i].type # "none" /\ dinode'[i].type = "none" =>
              Links(i) = {} /\ \E p \in Proc : Held(i) = {<<"put", p>>}]_vars
  BY FreesTheForgotten
<1> QED
  BY <1>1, TreeInvariant, PTL DEF Spec, FreedOnlyWhenForgotten

-----------------------------------------------------------------------------
(* The order of locks *)

\* Whoever has i locked, by lck, is at a place that keeps it.
KeptBy(i, lck, pr) == lck[i] # None => Keeps(pr[lck[i]], i)
Kept == \A i \in Inum : KeptBy(i, lock, proc)

\* What a call puts away with dp locked is what it has found in dp, and unlink
\* has refused only what has a name.
Found(r, e) ==
    r.pc = "put" /\ r.back \in {"found", "refused"} =>
        /\ Head(r.rest) \in DOMAIN e[r.dp] /\ e[r.dp][Head(r.rest)] = r.put
        /\ r.back = "refused" => Head(r.rest) \notin Dot
Looked == \A p \in Proc : Found(proc[p], entry)

\* Directories have ranks that go up from each to the ones it names.
Descends(rank, d, e) ==
    \A x \in Inum : \A n \in DOMAIN e[x] \ Dot :
        d[e[x][n]].type = "dir" => rank[x] < rank[e[x][n]]
Ranked == \E rank \in [Inum -> Nat] : Descends(rank, dinode, entry)

OrderInv == Kept /\ Looked /\ Ranked

-----------------------------------------------------------------------------
(* Nobody waits in order *)

\* Numbers do not grow for ever among finitely many.
LEMMA SomeHighest ==
    ASSUME NEW S, IsFiniteSet(S), S # {}, NEW f, \A x \in S : f[x] \in Nat
    PROVE  \E x \in S : \A y \in S : ~(f[x] < f[y])
<1> SUFFICES ASSUME \A x \in S : \E y \in S : f[x] < f[y] PROVE FALSE
  OBVIOUS
<1> DEFINE Up(x) == {y \in S : f[x] < f[y]}  T == {Up(x) : x \in S}  R == StrictSubsetOrdering(S)
<1>1. T \subseteq SUBSET S /\ T # {}
  OBVIOUS
<1>2. IsWellFoundedOn(R, SUBSET S)
  BY FS_StrictSubsetOrderingWellFounded, FS_FiniteSubsetsOfFinite
<1> HIDE DEF R
<1>3. PICK t \in T : \A u \in T : ~(<<u, t>> \in R)
  <2> HIDE DEF T
  <2> QED
    BY <1>1, <1>2, WFMin
<1>4. PICK x \in S : t = Up(x)
  OBVIOUS
<1>5. PICK y \in S : f[x] < f[y]
  OBVIOUS
<1>6. Up(y) \subseteq Up(x)
  <2> SUFFICES ASSUME NEW z \in S, f[y] < f[z] PROVE f[x] < f[z]
    OBVIOUS
  <2>1. f[x] \in Nat /\ f[y] \in Nat /\ f[z] \in Nat
    OBVIOUS
  <2> QED
    BY <1>5, <2>1
<1>7. y \in Up(x) /\ y \notin Up(y)
  BY <1>5
<1>8. <<Up(y), Up(x)>> \in R
  <2>1. Up(y) \in SUBSET S /\ Up(x) \in SUBSET S /\ Up(y) # Up(x)
    BY <1>7
  <2> QED
    BY <1>6, <2>1 DEF R, StrictSubsetOrdering
<1>9. Up(y) \in T
  OBVIOUS
<1> QED
  BY <1>3, <1>4, <1>8, <1>9

\* What a process that waits has to lock.
LEMMA WantsWhere ==
    ASSUME Inv, NEW p \in Proc, Wants(p) # None
    PROVE  /\ Wants(p) \in Inum /\ proc[p].pc # "drop"
           /\ proc[p].pc = "put" => Wants(p) = proc[p].put
           /\ proc[p].pc \in {"fill", "entry"} => Wants(p) = proc[p].ip
           /\ proc[p].pc \notin {"found", "refused", "made", "erased"}
<1> DEFINE r == proc[p]
<1>1. CallOK(r)
  BY Start
<1>5. DOMAIN Type = Makes
  BY DEF Type, Makes
<1>2. CASE r.pc = "put"
  <2>1. r.put \in Inum
    BY <1>1, <1>2 DEF CallOK, Putting
  <2> QED
    BY <1>5, <1>2, <2>1 DEF Wants, Makes
<1>3. r.pc # "drop" /\ r.pc \notin {"found", "refused", "made", "erased"}
  BY DEF Wants, Type
<1>4. CASE r.pc # "put"
  <2>1. ~Putting(r)
    BY <1>3, <1>4 DEF Putting
  <2>2. CASE r.pc = "walk"
    <3>1. r.at \in Inum
      BY <1>1, <2>1, <2>2, Where
    <3>2. Wants(p) = r.at
      BY <1>5, <2>2 DEF Wants, Makes
    <3> QED
      BY <2>2, <3>1, <3>2
  <2>3. CASE r.pc \in Makes \cup {"link to", "unlink"}
    <3>1. r.dp \in Inum
      BY <1>1, <2>1, <2>3, Where
    <3>2. Wants(p) = r.dp
      BY <2>3 DEF Wants, Type, Makes
    <3> QED
      BY <2>3, <3>1, <3>2, <1>3 DEF Makes
  <2>4. CASE r.pc \in {"fill", "exists", "open", "chdir", "link", "bad", "entry"}
    <3>1. r.ip \in Inum
      BY <1>1, <2>1, <2>4, Where
    <3>2. Wants(p) = r.ip
      BY <2>4 DEF Wants, Type
    <3> QED
      BY <2>4, <3>1, <3>2
  <2>5. r.pc \in {"walk", "link to", "unlink", "fill", "exists", "open", "chdir", "link", "bad",
                  "entry"} \cup Makes
    BY <1>4 DEF Wants, Type, Makes
  <2> QED
    BY <2>2, <2>3, <2>4, <2>5
<1> QED
  BY <1>2, <1>4

\* A process that keeps i locked and waits, though in order, wants something
\* that is in i, or something that nobody has seen.
LEMMA WantsBelow ==
    ASSUME Inv, TreeInv, Kept, Looked, NEW q \in Proc, NEW i \in Inum, Keeps(proc[q], i),
           Wants(q) # None, ~AgainstOrder(q)
    PROVE  /\ proc[q].dp = i
           /\ \/ proc[q].pc = "fill" /\ Wants(q) = proc[q].ip
              \/ \E n \in DOMAIN entry[i] \ Dot : entry[i][n] = Wants(q)
<1> DEFINE r == proc[q]  n == Head(r.rest)
<1>1. /\ Wants(q) \in Inum /\ r.pc # "drop" /\ (r.pc = "put" => Wants(q) = r.put)
      /\ (r.pc \in {"fill", "entry"} => Wants(q) = r.ip)
      /\ r.pc \notin {"found", "refused", "made", "erased"}
  BY WantsWhere
<1>2. Sound(r, Odd, dinode, entry)
  BY SoundNow
<1>3. CASE r.pc = "put"
  <2>1. Place(r) = r.back /\ Putting(r)
    BY <1>3 DEF Place, Putting
  <2>2. r.back \notin {"fill", "entry"}
    BY <1>2, <2>1 DEF Sound, PathOK
  <2>3. r.back \notin {"made", "erased"} /\ ~(r.back = "found" /\ n \in Dot)
    BY <1>3 DEF AgainstOrder, At, Dot
  <2>4. r.back \in {"found", "refused"} /\ r.dp = i
    BY <2>1, <2>2, <2>3 DEF Keeps
  <2>5. n \in DOMAIN entry[r.dp] /\ entry[r.dp][n] = r.put /\ (r.back = "refused" => n \notin Dot)
    BY <1>3, <2>4 DEF Looked, Found
  <2> QED
    BY <1>1, <1>3, <2>3, <2>4, <2>5
<1>4. CASE r.pc # "put"
  <2>1. Place(r) = r.pc
    BY <1>1, <1>4 DEF Place, Putting
  <2>2. r.pc \in {"fill", "entry"} /\ r.dp = i
    BY <1>1, <2>1 DEF Keeps
  <2>3. CASE r.pc = "fill"
    BY <1>1, <2>2, <2>3
  <2>4. CASE r.pc = "entry"
    <3>1. n \in DOMAIN entry[i] \ Dot /\ entry[i][n] = r.ip
      BY <1>2, <2>2, <2>4 DEF Sound, Seen
    <3> QED
      BY <1>1, <2>2, <2>4, <3>1
  <2> QED
    BY <2>2, <2>3, <2>4
<1> QED
  BY <1>3, <1>4

\* So nobody waits in a circle.
LEMMA InOrder == Inv /\ TreeInv /\ OrderInv => LockedInOrder
<1> SUFFICES ASSUME Inv, TreeInv, OrderInv, NEW S \in (SUBSET Proc) \ {{}}, Deadlocked(S),
                    \A p \in S : ~AgainstOrder(p)
             PROVE  FALSE
  BY DEF LockedInOrder
<1>1. Kept /\ Looked /\ Ranked
  BY DEF OrderInv
<1>2. PICK rank \in [Inum -> Nat] : Descends(rank, dinode, entry)
  BY <1>1 DEF Ranked
<1>3. ASSUME NEW p \in S
      PROVE  Wants(p) \in Inum /\ lock[Wants(p)] \in S /\ Keeps(proc[lock[Wants(p)]], Wants(p))
  <2>1. p \in Proc /\ Wants(p) # None /\ lock[Wants(p)] \in S
    BY DEF Deadlocked
  <2>2. Wants(p) \in Inum
    BY <2>1, WantsWhere
  <2>3. lock[Wants(p)] # None
    BY <2>1, InodesAssumption
  <2> QED
    BY <1>1, <2>1, <2>2, <2>3 DEF Kept, KeptBy
<1>4. ASSUME NEW p \in S
      PROVE  \E q \in S : rank[Wants(p)] < rank[Wants(q)]
  <2>1. PICK q \in S : q = lock[Wants(p)]
    BY <1>3
  <2>2. Wants(p) \in Inum /\ Wants(q) \in Inum /\ Keeps(proc[q], Wants(p)) /\ q \in Proc
        /\ Wants(q) # None
    BY <1>3, <2>1 DEF Deadlocked
  <2>3. /\ proc[q].dp = Wants(p)
        /\ \/ proc[q].pc = "fill" /\ Wants(q) = proc[q].ip
           \/ \E n \in DOMAIN entry[Wants(p)] \ Dot : entry[Wants(p)][n] = Wants(q)
    BY <1>1, <2>2, WantsBelow
  <2>4. PICK w \in S : w = lock[Wants(q)]
    BY <1>3
  <2>5. Keeps(proc[w], Wants(q)) /\ w \in Proc /\ Wants(w) # None
    BY <1>3, <2>4 DEF Deadlocked
  <2>6. proc[w].dp = Wants(q)
    BY <1>1, <2>2, <2>5, WantsBelow
  <2>7. Wants(q) \notin Odd /\ dinode[Wants(q)].type = "dir"
    BY <2>2, <2>5, <2>6, ParentIs
  <2>8. ~(proc[q].pc = "fill" /\ Wants(q) = proc[q].ip)
    BY <2>2, <2>7 DEF Odd
  <2>9. PICK n \in DOMAIN entry[Wants(p)] \ Dot : entry[Wants(p)][n] = Wants(q)
    BY <2>3, <2>8
  <2>10. rank[Wants(p)] < rank[Wants(q)]
    BY <1>2, <2>2, <2>7, <2>9 DEF Descends
  <2> QED
    BY <2>10
<1> DEFINE f == [p \in S |-> rank[Wants(p)]]
<1>5. \A p \in S : f[p] \in Nat
  BY <1>3
<1>6. \A p \in S : \E q \in S : f[p] < f[q]
  BY <1>4
<1>7. IsFiniteSet(S) /\ S # {}
  BY InodesAssumption, FS_Subset
<1> HIDE DEF f
<1> QED
  BY <1>5, <1>6, <1>7, SomeHighest

\* A step of p keeps the invariant if it leaves p the locks of its place, in a
\* directory that it changes nobody else has looked, and ranks can be given.
LEMMA OrderStay ==
    ASSUME Inv, OrderInv, NEW p \in Proc, NEW s, Becomes(p, s), Found(s, entry'), Ranked',
           \A j \in Inum : \/ lock'[j] = None
                           \/ lock'[j] = p /\ Keeps(s, j)
                           \/ lock'[j] = lock[j] /\ lock[j] # p,
           \A j \in Inum : entry'[j] = entry[j] \/ lock[j] \in {None, p}
    PROVE  OrderInv'
<1>1. proc'[p] = s /\ \A q \in Proc \ {p} : proc'[q] = proc[q]
  BY DEF Becomes, Inv, TypeInv, Shaped
<1>2. lock \in [Inum -> Proc \cup {None}]
  BY Start
<1>3. Kept'
  <2> SUFFICES ASSUME NEW j \in Inum, lock'[j] # None PROVE Keeps(proc'[lock'[j]], j)
    BY DEF Kept, KeptBy
  <2>1. CASE lock'[j] = p /\ Keeps(s, j)
    BY <1>1, <2>1
  <2>2. CASE lock'[j] = lock[j] /\ lock[j] # p
    <3>1. lock[j] \in Proc \ {p} /\ Keeps(proc[lock[j]], j)
      BY <1>2, <2>2 DEF OrderInv, Kept, KeptBy
    <3> QED
      BY <1>1, <2>2, <3>1
  <2> QED
    BY <2>1, <2>2
<1>4. Looked'
  <2> SUFFICES ASSUME NEW q \in Proc PROVE Found(proc'[q], entry')
    BY DEF Looked
  <2>1. CASE q = p
    BY <1>1, <2>1
  <2>2. CASE q # p
    <3> DEFINE r == proc[q]
    <3>1. Found(r, entry) /\ proc'[q] = r /\ CallOK(r)
      BY <1>1, <2>2, Start DEF OrderInv, Looked
    <3>2. CASE r.pc = "put" /\ r.back \in {"found", "refused"}
      <4>1. Keeps(r, r.dp) /\ r.dp \in Inum
        BY <3>1, <3>2 DEF Keeps, Place, Putting, CallOK, DpPlace
      <4>2. lock[r.dp] = q
        BY <4>1 DEF Inv, LocksHeld
      <4>3. entry'[r.dp] = entry[r.dp]
        BY <2>2, <4>1, <4>2, InodesAssumption
      <4> QED
        BY <3>1, <4>3 DEF Found
    <3> QED
      BY <3>1, <3>2 DEF Found
  <2> QED
    BY <2>1, <2>2
<1> QED
  BY <1>3, <1>4 DEF OrderInv

\* The ranks are still good if the directories that have names had them before.
LEMMA RanksStay ==
    ASSUME Ranked,
           \A x \in Inum : \A n \in DOMAIN entry'[x] \ Dot :
               dinode'[entry'[x][n]].type = "dir" =>
                   n \in DOMAIN entry[x] /\ entry'[x][n] = entry[x][n] /\ dinode[entry[x][n]].type = "dir"
    PROVE  Ranked'
<1>1. PICK rank \in [Inum -> Nat] : Descends(rank, dinode, entry)
  BY DEF Ranked
<1>2. Descends(rank, dinode', entry')
  BY <1>1 DEF Descends
<1> QED
  BY <1>2 DEF Ranked

\* Nothing is written.
LEMMA RanksSame == ASSUME Ranked, UNCHANGED disk PROVE Ranked'
BY RanksStay DEF disk

\* A count of links is.
LEMMA RanksCount ==
    ASSUME Inv, Ranked, NEW k \in Inum, ref[k] > 0, NEW n \in Int,
           dinode' = [dinode EXCEPT ![k] = Add(Node(k), n)],
           \A x \in Inum : \A m \in DOMAIN entry'[x] : m \in DOMAIN entry[x] /\ entry'[x][m] = entry[x][m]
    PROVE  Ranked'
<1>1. dinode \in [Inum -> Dinode] /\ Node(k) = dinode[k]
  BY NodeIs DEF Inv, TypeInv, Shaped
<1>2. Add(Node(k), n).type = dinode[k].type
  BY <1>1 DEF Add, Dinode
<1>3. \A i \in Inum : dinode'[i].type = dinode[i].type
  BY <1>1, <1>2
<1>4. \A x \in Inum : \A m \in DOMAIN entry[x] : entry[x][m] \in Inum
  BY Start DEF Inv, TypeInv, Shaped, EntryOK
<1> QED
  BY <1>3, <1>4, RanksStay

\* p looks nothing up that it then puts away.
Plain(s) == ~(s.pc = "put" /\ s.back \in {"found", "refused"})

\* A step in which p keeps what it keeps, and no name changes.
LEMMA CalmOrder ==
    ASSUME Inv, OrderInv, NEW p \in Proc, NEW s, Becomes(p, s), Plain(s), Ranked',
           entry' = entry, lock' = lock, \A j \in Inum : Keeps(proc[p], j) => Keeps(s, j)
    PROVE  OrderInv'
<1>1. Found(s, entry')
  BY DEF Plain, Found
<1>2. \A j \in Inum : lock[j] = p => Keeps(proc[p], j)
  BY InodesAssumption DEF OrderInv, Kept, KeptBy
<1> QED
  BY <1>1, <1>2, OrderStay

\* A step in which p unlocks i, the one it keeps.
LEMMA UnlocksOrder ==
    ASSUME Inv, OrderInv, NEW p \in Proc, NEW s, Becomes(p, s), Plain(s), Ranked',
           entry' = entry, NEW i \in Inum, lock' = [lock EXCEPT ![i] = None],
           \A j \in Inum : Keeps(proc[p], j) => j = i
    PROVE  OrderInv'
<1>1. Found(s, entry')
  BY DEF Plain, Found
<1>2. \A j \in Inum : lock[j] = p => Keeps(proc[p], j)
  BY InodesAssumption DEF OrderInv, Kept, KeptBy
<1>3. lock \in [Inum -> Proc \cup {None}]
  BY Start
<1>4. \A j \in Inum : lock'[j] = None \/ (lock'[j] = lock[j] /\ lock[j] # p)
  BY <1>2, <1>3
<1>5. \A j \in Inum : entry'[j] = entry[j]
  OBVIOUS
<1> QED
  BY <1>1, <1>4, <1>5, OrderStay

\* A step in which p locks i, which it has looked in.
LEMMA LocksOrder ==
    ASSUME Inv, OrderInv, NEW p \in Proc, NEW s, Becomes(p, s), Found(s, entry), Ranked',
           entry' = entry, NEW i \in Inum, lock' = [lock EXCEPT ![i] = p],
           Keeps(s, i), \A j \in Inum : ~Keeps(proc[p], j)
    PROVE  OrderInv'
<1>1. \A j \in Inum : lock[j] # p
  BY InodesAssumption DEF OrderInv, Kept, KeptBy
<1>2. lock \in [Inum -> Proc \cup {None}]
  BY Start
<1>3. \A j \in Inum : (lock'[j] = p /\ Keeps(s, j)) \/ (lock'[j] = lock[j] /\ lock[j] # p)
  BY <1>1, <1>2
<1>4. \A j \in Inum : entry'[j] = entry[j]
  OBVIOUS
<1> QED
  BY <1>3, <1>4, OrderStay

\* A process keeps nothing where nothing is kept.
LEMMA KeepsNone ==
    ASSUME NEW r, Place(r) \notin {"fill", "entry", "found", "refused", "made", "erased"}
    PROVE  \A j \in Inum : ~Keeps(r, j)
BY DEF Keeps

\* namex is plain.
LEMMA OnwardPlain ==
    ASSUME NEW r, Fields(r), r.op \in Op \cup {"link to"}
    PROVE  Plain(Onward(r))
<1> DEFINE s == Onward(r)
<1>1. CASE r.rest # <<>>
  BY <1>1 DEF Onward, Plain, Fields
<1>2. CASE r.rest = <<>> /\ Parent(r.op)
  <2>1. s = [Puts(r, r.at, Failed(r.op)) EXCEPT !.at = None]
    BY <1>2 DEF Onward
  <2>2. PutsAs(s, r, r.at, Failed(r.op))
    BY <2>1, PutsAtFields
  <2> HIDE DEF s
  <2> QED
    BY <2>2 DEF PutsAs, Failed, Plain, s
<1>3. CASE r.rest = <<>> /\ ~Parent(r.op)
  BY <1>3 DEF Onward, Plain, Fields, Op
<1> QED
  BY <1>1, <1>2, <1>3

\* p, which keeps nothing, puts its ip away.
LEMMA PutsIpOrder ==
    ASSUME Inv, OrderInv, NEW p \in Proc, PutsIp(p, "user"), entry' = entry, lock' = lock, Ranked',
           \A j \in Inum : ~Keeps(proc[p], j)
    PROVE  OrderInv'
<1> DEFINE r == proc[p]  s == [Puts(r, r.ip, "user") EXCEPT !.ip = None]
<1>1. Fields(r)
  BY Start DEF CallOK
<1>2. PutsAs(s, r, r.ip, "user")
  BY <1>1, PutsIpFields
<1>3. Becomes(p, s)
  BY DEF PutsIp
<1> HIDE DEF s
<1>4. Plain(s)
  BY <1>2 DEF PutsAs, Plain
<1> QED
  BY <1>3, <1>4, CalmOrder

\* The same of its dp.
LEMMA PutsDpOrder ==
    ASSUME Inv, OrderInv, NEW p \in Proc, NEW b \in {"user", "linked"}, PutsDp(p, b),
           entry' = entry, lock' = lock, Ranked', \A j \in Inum : ~Keeps(proc[p], j)
    PROVE  OrderInv'
<1> DEFINE r == proc[p]  s == [Puts(r, r.dp, b) EXCEPT !.dp = None]
<1>1. Fields(r)
  BY Start DEF CallOK
<1>2. PutsAs(s, r, r.dp, b)
  BY <1>1, PutsDpFields, ZenonT(60)
<1>3. Becomes(p, s)
  BY DEF PutsDp
<1> HIDE DEF s
<1>4. Plain(s)
  BY <1>2 DEF PutsAs, Plain
<1> QED
  BY <1>3, <1>4, CalmOrder

\* p unlocks its ip, the only one it keeps, and puts it away.
LEMMA GivesIpOrder ==
    ASSUME Inv, OrderInv, NEW p \in Proc, PutsIp(p, "user"), entry' = entry, Ranked',
           proc[p].ip \in Inum, lock' = [lock EXCEPT ![proc[p].ip] = None],
           \A j \in Inum : Keeps(proc[p], j) => j = proc[p].ip
    PROVE  OrderInv'
<1> DEFINE r == proc[p]  s == [Puts(r, r.ip, "user") EXCEPT !.ip = None]
<1>1. Fields(r)
  BY Start DEF CallOK
<1>2. PutsAs(s, r, r.ip, "user")
  BY <1>1, PutsIpFields
<1>3. Becomes(p, s)
  BY DEF PutsIp
<1> HIDE DEF s
<1>4. Plain(s)
  BY <1>2 DEF PutsAs, Plain
<1> QED
  BY <1>3, <1>4, UnlocksOrder

\* The same of its dp.
LEMMA GivesDpOrder ==
    ASSUME Inv, OrderInv, NEW p \in Proc, NEW b \in {"user", "bad"}, PutsDp(p, b),
           entry' = entry, Ranked',
           proc[p].dp \in Inum, lock' = [lock EXCEPT ![proc[p].dp] = None],
           \A j \in Inum : Keeps(proc[p], j) => j = proc[p].dp
    PROVE  OrderInv'
<1> DEFINE r == proc[p]  s == [Puts(r, r.dp, b) EXCEPT !.dp = None]
<1>1. Fields(r)
  BY Start DEF CallOK
<1>2. PutsAs(s, r, r.dp, b)
  BY <1>1, PutsDpFields, ZenonT(60)
<1>3. Becomes(p, s)
  BY DEF PutsDp
<1> HIDE DEF s
<1>4. Plain(s)
  BY <1>2 DEF PutsAs, Plain
<1> QED
  BY <1>3, <1>4, UnlocksOrder

\* create gives up an inode that exists.
LEMMA ExistsNotOrder == ASSUME Inv, OrderInv, NEW p \in Proc, ExistsNot(p) PROVE OrderInv'
<1>1. PutsIp(p, "user") /\ UNCHANGED <<disk, lock>> /\ proc[p].pc = "exists"
  BY DEF ExistsNot, At
<1>2. Ranked' /\ entry' = entry
  BY <1>1, RanksSame DEF OrderInv, disk
<1>3. \A j \in Inum : ~Keeps(proc[p], j)
  BY <1>1, KeepsNone DEF Place, Putting
<1> QED
  BY <1>1, <1>2, <1>3, PutsIpOrder

\* link gives up a directory.
LEMMA LinkRefusesOrder == ASSUME Inv, OrderInv, NEW p \in Proc, LinkRefuses(p) PROVE OrderInv'
<1>1. PutsIp(p, "user") /\ UNCHANGED <<disk, lock>> /\ proc[p].pc = "link"
  BY DEF LinkRefuses, At
<1>2. Ranked' /\ entry' = entry
  BY <1>1, RanksSame DEF OrderInv, disk
<1>3. \A j \in Inum : ~Keeps(proc[p], j)
  BY <1>1, KeepsNone DEF Place, Putting
<1> QED
  BY <1>1, <1>2, <1>3, PutsIpOrder

\* link is done.
LEMMA LinkedOrder == ASSUME Inv, OrderInv, NEW p \in Proc, Linked(p) PROVE OrderInv'
<1>1. PutsIp(p, "user") /\ UNCHANGED <<disk, lock>> /\ proc[p].pc = "linked"
  BY DEF Linked, At
<1>2. Ranked' /\ entry' = entry
  BY <1>1, RanksSame DEF OrderInv, disk
<1>3. \A j \in Inum : ~Keeps(proc[p], j)
  BY <1>1, KeepsNone DEF Place, Putting
<1> QED
  BY <1>1, <1>2, <1>3, PutsIpOrder

\* link takes its link back.
LEMMA LinkBadOrder == ASSUME Inv, OrderInv, NEW p \in Proc, LinkBad(p) PROVE OrderInv'
<1> DEFINE r == proc[p]
<1>1. PutsIp(p, "user") /\ UNCHANGED <<entry, lock>> /\ r.pc = "bad"
      /\ dinode' = [dinode EXCEPT ![r.ip] = Add(Node(r.ip), -1)]
  BY DEF LinkBad, At, Update
<1>2. r.ip \in Inum
  BY <1>1, Start, Where DEF Putting
<1>3. ref[r.ip] > 0
  BY <1>2, Start
<1>4. Ranked'
  <2>1. -1 \in Int /\ Ranked
    BY DEF OrderInv
  <2>2. \A x \in Inum : \A m \in DOMAIN entry'[x] : m \in DOMAIN entry[x] /\ entry'[x][m] = entry[x][m]
    BY <1>1
  <2> QED
    BY <1>1, <1>2, <1>3, <2>1, <2>2, RanksCount
<1>5. \A j \in Inum : ~Keeps(r, j)
  BY <1>1, KeepsNone DEF Place, Putting
<1> QED
  BY <1>1, <1>4, <1>5, PutsIpOrder

\* unlink gives up.
LEMMA UnlinkFailsOrder == ASSUME Inv, OrderInv, NEW p \in Proc, UnlinkFails(p) PROVE OrderInv'
<1>1. PutsDp(p, "user") /\ UNCHANGED <<disk, lock>> /\ proc[p].pc = "unlink"
  BY DEF UnlinkFails, At
<1>2. Ranked' /\ entry' = entry
  BY <1>1, RanksSame DEF OrderInv, disk
<1>3. \A j \in Inum : ~Keeps(proc[p], j)
  BY <1>1, KeepsNone DEF Place, Putting
<1> QED
  BY <1>1, <1>2, <1>3, PutsDpOrder

\* mkdir and mknod unlock what they have made.
LEMMA MadeNodeOrder == ASSUME Inv, OrderInv, NEW p \in Proc, MadeNode(p) PROVE OrderInv'
<1> DEFINE r == proc[p]
<1>1. PutsIp(p, "user") /\ UNCHANGED disk /\ r.pc = "made" /\ lock' = [lock EXCEPT ![r.ip] = None]
  BY DEF MadeNode, At, Lock
<1>2. Ranked' /\ entry' = entry
  BY <1>1, RanksSame DEF OrderInv, disk
<1>3. r.ip \in Inum
  BY <1>1, Start, Where DEF Putting
<1>4. \A j \in Inum : Keeps(r, j) => j = r.ip
  BY <1>1 DEF Keeps, Place, Putting
<1> QED
  BY <1>1, <1>2, <1>3, <1>4, GivesIpOrder

\* unlink takes the link off, and unlocks the inode.
LEMMA UnlinkCountsOrder == ASSUME Inv, OrderInv, NEW p \in Proc, UnlinkCounts(p) PROVE OrderInv'
<1> DEFINE r == proc[p]
<1>1. PutsIp(p, "user") /\ UNCHANGED entry /\ r.pc = "erased" /\ lock' = [lock EXCEPT ![r.ip] = None]
      /\ dinode' = [dinode EXCEPT ![r.ip] = Add(Node(r.ip), -1)]
  BY DEF UnlinkCounts, At, Lock, Update
<1>2. r.ip \in Inum
  BY <1>1, Start, Where DEF Putting
<1>3. ref[r.ip] > 0
  BY <1>2, Start
<1>4. Ranked'
  <2>1. -1 \in Int /\ Ranked
    BY DEF OrderInv
  <2>2. \A x \in Inum : \A m \in DOMAIN entry'[x] : m \in DOMAIN entry[x] /\ entry'[x][m] = entry[x][m]
    BY <1>1
  <2> QED
    BY <1>1, <1>2, <1>3, <2>1, <2>2, RanksCount
<1>5. \A j \in Inum : Keeps(r, j) => j = r.ip
  BY <1>1 DEF Keeps, Place, Putting
<1> QED
  BY <1>1, <1>2, <1>4, <1>5, GivesIpOrder

\* link unlocks the directory that has the name.
LEMMA LinkFailsOrder == ASSUME Inv, OrderInv, NEW p \in Proc, LinkFails(p) PROVE OrderInv'
<1> DEFINE r == proc[p]
<1>1. PutsDp(p, "bad") /\ UNCHANGED disk /\ r.pc = "found" /\ lock' = [lock EXCEPT ![r.dp] = None]
  BY DEF LinkFails, At, Lock
<1>2. Ranked' /\ entry' = entry
  BY <1>1, RanksSame DEF OrderInv, disk
<1>3. r.dp \in Inum
  BY <1>1, Start, Where DEF Putting
<1>4. \A j \in Inum : Keeps(r, j) => j = r.dp
  BY <1>1 DEF Keeps, Place, Putting
<1> QED
  BY <1>1, <1>2, <1>3, <1>4, GivesDpOrder

\* unlink unlocks the directory.
LEMMA UnlinkBadOrder == ASSUME Inv, OrderInv, NEW p \in Proc, UnlinkBad(p) PROVE OrderInv'
<1> DEFINE r == proc[p]
<1>1. PutsDp(p, "user") /\ UNCHANGED disk /\ r.pc = "refused" /\ lock' = [lock EXCEPT ![r.dp] = None]
  BY DEF UnlinkBad, At, Lock
<1>2. Ranked' /\ entry' = entry
  BY <1>1, RanksSame DEF OrderInv, disk
<1>3. r.dp \in Inum
  BY <1>1, Start, Where DEF Putting
<1>4. \A j \in Inum : Keeps(r, j) => j = r.dp
  BY <1>1 DEF Keeps, Place, Putting
<1> QED
  BY <1>1, <1>2, <1>3, <1>4, GivesDpOrder

\* unlink puts away the directory that is not empty, with its parent locked.
LEMMA UnlinkRefusesOrder ==
    ASSUME Inv, TreeInv, OrderInv, NEW p \in Proc, UnlinkRefuses(p) PROVE OrderInv'
<1> DEFINE r == proc[p]  s == [Puts(r, r.ip, "refused") EXCEPT !.ip = None]
<1>1. Becomes(p, s) /\ UNCHANGED <<disk, lock>> /\ r.pc = "entry"
  BY DEF UnlinkRefuses, At, PutsIp
<1>2. Fields(r)
  BY Start DEF CallOK
<1>3. s.pc = "put" /\ s.put = r.ip /\ s.back = "refused" /\ s.dp = r.dp /\ s.rest = r.rest
  BY <1>2 DEF Puts, Fields
<1> HIDE DEF s
<1>4. Head(r.rest) \in DOMAIN entry[r.dp] \ Dot /\ entry[r.dp][Head(r.rest)] = r.ip
  BY <1>1, SoundNow DEF Sound, Seen
<1>5. Found(s, entry)
  BY <1>3, <1>4 DEF Found
<1>6. \A j \in Inum : Keeps(r, j) => Keeps(s, j)
  BY <1>1, <1>3 DEF Keeps, Place, Putting
<1>7. Ranked' /\ entry' = entry /\ lock' = lock
  BY <1>1, RanksSame DEF OrderInv, disk
<1>8. \A j \in Inum : lock[j] = p => Keeps(s, j)
  BY <1>6, InodesAssumption DEF OrderInv, Kept, KeptBy
<1>9. \A j \in Inum : (lock'[j] = p /\ Keeps(s, j)) \/ (lock'[j] = lock[j] /\ lock[j] # p)
  BY <1>7, <1>8
<1>10. Found(s, entry')
  BY <1>5, <1>7
<1>11. \A j \in Inum : entry'[j] = entry[j]
  BY <1>7
<1> QED
  BY <1>1, <1>7, <1>9, <1>10, <1>11, OrderStay

\* dirlink finds the name, and keeps the directory locked.
LEMMA LinkFindsOrder == ASSUME Inv, OrderInv, NEW p \in Proc, LinkFinds(p) PROVE OrderInv'
<1> DEFINE r == proc[p]  n == entry[r.dp][Head(r.rest)]  s == Puts(r, n, "found")
<1>1. Becomes(p, s) /\ UNCHANGED disk /\ r.pc = "link to" /\ lock' = [lock EXCEPT ![r.dp] = p]
      /\ Head(r.rest) \in DOMAIN entry[r.dp]
  BY DEF LinkFinds, At, Lock
<1>2. Fields(r) /\ r.dp \in Inum
  BY <1>1, Start, Where DEF Putting
<1>3. s.pc = "put" /\ s.put = n /\ s.back = "found" /\ s.dp = r.dp /\ s.rest = r.rest
  BY <1>2 DEF Puts, Fields
<1> HIDE DEF s
<1>4. Found(s, entry)
  BY <1>1, <1>3 DEF Found
<1>5. Keeps(s, r.dp)
  BY <1>3 DEF Keeps, Place, Putting
<1>6. Ranked' /\ entry' = entry
  BY <1>1, RanksSame DEF OrderInv, disk
<1>7. \A j \in Inum : ~Keeps(r, j)
  BY <1>1, KeepsNone DEF Place, Putting
<1> QED
  BY <1>1, <1>2, <1>4, <1>5, <1>6, <1>7, LocksOrder

\* unlink finds the name, and keeps the directory locked.
LEMMA UnlinkFindsOrder == ASSUME Inv, OrderInv, NEW p \in Proc, UnlinkFinds(p) PROVE OrderInv'
<1> DEFINE r == proc[p]  n == entry[r.dp][Head(r.rest)]  s == [r EXCEPT !.pc = "entry", !.ip = n]
<1>1. Becomes(p, s) /\ UNCHANGED disk /\ r.pc = "unlink" /\ lock' = [lock EXCEPT ![r.dp] = p]
  BY DEF UnlinkFinds, At, Lock
<1>2. Fields(r) /\ r.dp \in Inum
  BY <1>1, Start, Where DEF Putting
<1>3. s.pc = "entry" /\ s.dp = r.dp
  BY <1>2 DEF Fields
<1> HIDE DEF s
<1>4. Found(s, entry) /\ Keeps(s, r.dp)
  BY <1>3 DEF Found, Keeps, Place, Putting
<1>5. Ranked' /\ entry' = entry
  BY <1>1, RanksSame DEF OrderInv, disk
<1>6. \A j \in Inum : ~Keeps(r, j)
  BY <1>1, KeepsNone DEF Place, Putting
<1> QED
  BY <1>1, <1>2, <1>4, <1>5, <1>6, LocksOrder

\* namex reaches the parent.
LEMMA WalkStopsOrder == ASSUME Inv, OrderInv, NEW p \in Proc, WalkStops(p) PROVE OrderInv'
<1> DEFINE r == proc[p]  s == [r EXCEPT !.pc = r.op, !.dp = r.at, !.at = None]
<1>1. Becomes(p, s) /\ UNCHANGED <<disk, lock>> /\ r.pc = "walk"
  BY DEF WalkStops, At
<1>2. Fields(r) /\ r.op \in Op \cup {"link to"}
  BY <1>1, Start, Where DEF Putting
<1>3. s.pc = r.op
  BY <1>2 DEF Fields
<1> HIDE DEF s
<1>4. Plain(s)
  BY <1>2, <1>3 DEF Plain, Op
<1>5. Ranked' /\ entry' = entry /\ lock' = lock
  BY <1>1, RanksSame DEF OrderInv, disk
<1>6. \A j \in Inum : ~Keeps(r, j)
  BY <1>1, KeepsNone DEF Place, Putting
<1> QED
  BY <1>1, <1>4, <1>5, <1>6, CalmOrder

\* namex gives up.
LEMMA WalkFailsOrder == ASSUME Inv, OrderInv, NEW p \in Proc, WalkFails(p) PROVE OrderInv'
<1> DEFINE r == proc[p]  s == [Puts(r, r.at, Failed(r.op)) EXCEPT !.at = None]
<1>1. Becomes(p, s) /\ UNCHANGED <<disk, lock>> /\ r.pc = "walk"
  BY DEF WalkFails, At
<1>2. Fields(r)
  BY Start DEF CallOK
<1>3. PutsAs(s, r, r.at, Failed(r.op))
  BY <1>2, PutsAtFields
<1> HIDE DEF s
<1>4. Plain(s)
  BY <1>3 DEF PutsAs, Failed, Plain
<1>5. Ranked' /\ entry' = entry /\ lock' = lock
  BY <1>1, RanksSame DEF OrderInv, disk
<1>6. \A j \in Inum : ~Keeps(r, j)
  BY <1>1, KeepsNone DEF Place, Putting
<1> QED
  BY <1>1, <1>4, <1>5, <1>6, CalmOrder

\* namex goes one name down.
LEMMA WalkOnOrder == ASSUME Inv, OrderInv, NEW p \in Proc, WalkOn(p) PROVE OrderInv'
<1> DEFINE r == proc[p]  n == entry[r.at][Head(r.rest)]
           s == [Puts(r, r.at, "walk") EXCEPT !.at = n, !.rest = Tail(@)]
<1>1. Becomes(p, s) /\ UNCHANGED <<disk, lock>> /\ r.pc = "walk"
  BY DEF WalkOn, At
<1>2. Fields(r)
  BY Start DEF CallOK
<1>3. s.back = "walk"
  BY <1>2 DEF Puts, Fields
<1> HIDE DEF s
<1>4. Plain(s)
  BY <1>3 DEF Plain
<1>5. Ranked' /\ entry' = entry /\ lock' = lock
  BY <1>1, RanksSame DEF OrderInv, disk
<1>6. \A j \in Inum : ~Keeps(r, j)
  BY <1>1, KeepsNone DEF Place, Putting
<1> QED
  BY <1>1, <1>4, <1>5, <1>6, CalmOrder

\* create finds the name.
LEMMA CreateFindsOrder == ASSUME Inv, OrderInv, NEW p \in Proc, CreateFinds(p) PROVE OrderInv'
<1> DEFINE r == proc[p]  n == entry[r.dp][Head(r.rest)]
           s == [Puts(r, r.dp, "exists") EXCEPT !.ip = n, !.dp = None]
<1>1. Becomes(p, s) /\ UNCHANGED <<disk, lock>> /\ r.pc \in Makes
  BY DEF CreateFinds, Type, Makes
<1>2. Fields(r)
  BY Start DEF CallOK
<1>3. s.back = "exists"
  BY <1>2 DEF Puts, Fields
<1> HIDE DEF s
<1>4. Plain(s)
  BY <1>3 DEF Plain
<1>5. Ranked' /\ entry' = entry /\ lock' = lock
  BY <1>1, RanksSame DEF OrderInv, disk
<1>6. \A j \in Inum : ~Keeps(r, j)
  BY <1>1, KeepsNone DEF Place, Putting, Makes
<1> QED
  BY <1>1, <1>4, <1>5, <1>6, CalmOrder

\* create takes an inode that is free, and keeps the directory locked.
LEMMA IallocOrder == ASSUME Inv, TreeInv, OrderInv, NEW p \in Proc, Ialloc(p) PROVE OrderInv'
<1> DEFINE r == proc[p]  new == [Free EXCEPT !.type = Type[r.op]]
<1>1. r.pc \in Makes /\ lock' = [lock EXCEPT ![r.dp] = p] /\ entry' = entry
  BY DEF Ialloc, Lock, Type, Makes
<1>2. PICK i \in Inum : /\ dinode[i].type = "none" /\ dinode' = [dinode EXCEPT ![i] = new]
                        /\ Becomes(p, [r EXCEPT !.pc = "fill", !.ip = i])
  BY DEF Ialloc
<1> DEFINE s == [r EXCEPT !.pc = "fill", !.ip = i]
<1>3. Fields(r) /\ r.dp \in Inum
  BY <1>1, Start, Where DEF Putting, Makes
<1>4. s.pc = "fill" /\ s.dp = r.dp
  BY <1>3 DEF Fields
<1>5. Becomes(p, s)
  BY <1>2
<1> HIDE DEF s, new
<1>6. Found(s, entry) /\ Keeps(s, r.dp)
  BY <1>4 DEF Found, Keeps, Place, Putting
<1>7. Ranked'
  <2>1. \A x \in Inum : \A n \in DOMAIN entry[x] \ Dot : entry[x][n] \in Inum /\ entry[x][n] # i
    BY <1>2, NamedInUse DEF Odd
  <2>2. \A x \in Inum : \A n \in DOMAIN entry'[x] \ Dot :
            dinode'[entry'[x][n]].type = "dir" =>
               n \in DOMAIN entry[x] /\ entry'[x][n] = entry[x][n] /\ dinode[entry[x][n]].type = "dir"
    BY <1>1, <1>2, <2>1, Start DEF Inv, TypeInv, Shaped
  <2> QED
    BY <2>2, RanksStay DEF OrderInv
<1>8. \A j \in Inum : ~Keeps(r, j)
  BY <1>1, KeepsNone DEF Place, Putting, Makes
<1> QED
  BY <1>1, <1>3, <1>5, <1>6, <1>7, <1>8, LocksOrder

\* The new directory has a rank above that of the one it is in: no other
\* names it, and it names nothing but them in its dots.
LEMMA CreateFillsRanks ==
    ASSUME Inv, TreeInv, Ranked, NEW p, NEW x, NEW i, NEW n, NEW s, Filling(p, x, i, n, s)
    PROVE  Ranked'
<1>1. /\ x \in Inum /\ i \in Odd /\ i \in Inum /\ x # i /\ n \notin Dot /\ n \notin DOMAIN entry[x]
      /\ Fills(x, i, n)
  BY DEF Filling
<1>2. PICK rank \in [Inum -> Nat] : Descends(rank, dinode, entry)
  BY DEF Ranked
<1> DEFINE new == [rank EXCEPT ![i] = rank[x] + 1]
<1>3. /\ new \in [Inum -> Nat] /\ new[i] = rank[x] + 1 /\ rank[x] \in Nat
      /\ \A j \in Inum \ {i} : new[j] = rank[j]
  BY <1>1
<1> HIDE DEF new
<1>4. \A y \in Inum : dinode'[y].type = dinode[y].type
  BY DEF Fills, Filling
<1>5. ASSUME NEW y \in Inum, NEW m \in DOMAIN entry'[y] \ Dot, dinode'[entry'[y][m]].type = "dir"
      PROVE  new[y] < new[entry'[y][m]]
  <2>1. y # i
    BY <1>1, <1>5 DEF Fills
  <2>2. CASE y = x /\ m = n
    BY <1>1, <1>3, <2>2 DEF Fills
  <2>3. CASE ~(y = x /\ m = n)
    <3>1. m \in DOMAIN entry[y] \ Dot /\ entry'[y][m] = entry[y][m]
      BY <1>1, <1>5, <2>1, <2>3 DEF Fills
    <3>2. entry[y][m] \in Inum \ Odd
      BY <3>1, NamedInUse
    <3>3. dinode[entry[y][m]].type = "dir"
      BY <1>4, <1>5, <3>1, <3>2
    <3>4. rank[y] < rank[entry[y][m]]
      BY <1>2, <3>1, <3>3 DEF Descends
    <3> QED
      BY <1>1, <1>3, <2>1, <3>1, <3>2, <3>4
  <2> QED
    BY <2>2, <2>3
<1>6. Descends(new, dinode', entry')
  BY <1>5 DEF Descends
<1> QED
  BY <1>3, <1>6 DEF Ranked

\* create fills the new inode, which it locks instead of the directory.
LEMMA CreateFillsOrder == ASSUME Inv, TreeInv, OrderInv, NEW p \in Proc, CreateFills(p) PROVE OrderInv'
<1>1. PICK x, i, n, s :
          /\ x = proc[p].dp /\ i = proc[p].ip /\ n = Head(proc[p].rest)
          /\ s = [Puts(proc[p], x, "made") EXCEPT !.dp = None]
  OBVIOUS
<1>2. Filling(p, x, i, n, s)
  BY <1>1, Filled
<1>3. /\ x \in Inum /\ i \in Inum /\ x # i /\ lock[x] = p /\ Becomes(p, s)
      /\ s.pc = "put" /\ s.back = "made" /\ s.ip = i
      /\ \A y \in Inum \ {x, i} : entry'[y] = entry[y]
  BY <1>2 DEF Filling, Fills
<1>4. Ranked'
  BY <1>2, CreateFillsRanks DEF OrderInv
<1>5. proc[p].pc = "fill" /\ lock[i] = None /\ lock' = [lock EXCEPT ![x] = None, ![i] = p]
  BY <1>1 DEF CreateFills, At, Ilock, Unlocked
<1>6. \A j \in Inum : lock[j] = p => j = x
  <2>1. \A j \in Inum : Keeps(proc[p], j) => j = x
    BY <1>1, <1>5 DEF Keeps, Place, Putting
  <2> QED
    BY <2>1, InodesAssumption DEF OrderInv, Kept, KeptBy
<1>7. Keeps(s, i) /\ Found(s, entry')
  BY <1>3 DEF Keeps, Place, Putting, Found
<1>8. lock \in [Inum -> Proc \cup {None}]
  BY Start
<1>9. \A j \in Inum : \/ lock'[j] = None
                      \/ lock'[j] = p /\ Keeps(s, j)
                      \/ lock'[j] = lock[j] /\ lock[j] # p
  <2> TAKE j \in Inum
  <2>1. CASE j = x
    BY <1>3, <1>5, <1>8, <2>1
  <2>2. CASE j = i
    BY <1>3, <1>5, <1>7, <1>8, <2>2
  <2>3. CASE j \notin {x, i}
    BY <1>3, <1>5, <1>6, <1>8, <2>3
  <2> QED
    BY <2>1, <2>2, <2>3
<1>10. \A j \in Inum : entry'[j] = entry[j] \/ lock[j] \in {None, p}
  BY <1>3, <1>5
<1> QED
  BY <1>3, <1>4, <1>7, <1>9, <1>10, OrderStay

\* open unlocks the inode.
LEMMA OpenOrder == ASSUME Inv, OrderInv, NEW p \in Proc, Open(p) PROVE OrderInv'
<1> DEFINE r == proc[p]
<1>1. CallOK(r) /\ r.ip \in Inum /\ r.pc \in {"open", "exists", "made"}
  BY Opening DEF Open, Opens, At
<1>2. UNCHANGED disk /\ lock' = [lock EXCEPT ![r.ip] = None] /\ (PutsIp(p, "user") \/ Becomes(p, Idle))
  BY DEF Open, Lock
<1>3. Ranked' /\ entry' = entry
  BY <1>2, RanksSame DEF OrderInv, disk
<1>4. \A j \in Inum : Keeps(r, j) => j = r.ip
  BY <1>1 DEF Keeps, Place, Putting
<1>5. CASE PutsIp(p, "user")
  BY <1>1, <1>2, <1>3, <1>4, <1>5, GivesIpOrder
<1>6. CASE Becomes(p, Idle)
  <2>1. Plain(Idle)
    BY DEF Plain, Idle
  <2> QED
    BY <1>1, <1>2, <1>3, <1>4, <1>6, <2>1, UnlocksOrder
<1> QED
  BY <1>2, <1>5, <1>6

\* close.
LEMMA CloseOrder == ASSUME Inv, OrderInv, NEW p \in Proc, Close(p) PROVE OrderInv'
<1> DEFINE r == proc[p]
<1>1. r.pc = "user" /\ UNCHANGED <<disk, lock>>
  BY DEF Close, At
<1>2. Ranked' /\ entry' = entry /\ lock' = lock
  BY <1>1, RanksSame DEF OrderInv, disk
<1>3. \A j \in Inum : ~Keeps(r, j)
  BY <1>1, KeepsNone DEF Place, Putting
<1>4. PICK s : Becomes(p, s) /\ Plain(s)
  <2>1. CASE UNCHANGED proc
    <3>1. Becomes(p, r)
      BY <2>1 DEF Becomes, Inv, TypeInv, Shaped
    <3>2. Plain(r)
      BY <1>1 DEF Plain
    <3> QED
      BY <3>1, <3>2
  <2>2. CASE Becomes(p, Puts(Idle, file[ofile[p]].ip, "user"))
    <3> DEFINE s == Puts(Idle, file[ofile[p]].ip, "user")
    <3>1. s.back = "user"
      BY DEF Puts, Idle
    <3> QED
      BY <2>2, <3>1 DEF Plain
  <2> QED
    BY <2>1, <2>2 DEF Close
<1> QED
  BY <1>2, <1>3, <1>4, CalmOrder

\* exit.
LEMMA ExitOrder == ASSUME Inv, OrderInv, NEW p \in Proc, Exit(p) PROVE OrderInv'
<1> DEFINE s == Puts(Idle, cwd[p], "dead")
<1>1. proc[p].pc = "user" /\ UNCHANGED <<disk, lock>> /\ Becomes(p, s)
  BY DEF Exit, At
<1>2. Ranked' /\ entry' = entry /\ lock' = lock
  BY <1>1, RanksSame DEF OrderInv, disk
<1>3. \A j \in Inum : ~Keeps(proc[p], j)
  BY <1>1, KeepsNone DEF Place, Putting
<1>4. s.back = "dead"
  BY DEF Puts, Idle
<1> HIDE DEF s
<1>5. Plain(s)
  BY <1>4 DEF Plain
<1> QED
  BY <1>1, <1>2, <1>3, <1>5, CalmOrder

\* fork.
LEMMA ForkOrder == ASSUME Inv, OrderInv, NEW p \in Proc, NEW child \in Proc, Fork(p, child) PROVE OrderInv'
<1>1. proc[child].pc = "dead" /\ UNCHANGED <<disk, lock>> /\ Becomes(child, Idle)
  BY DEF Fork, At
<1>2. Ranked' /\ entry' = entry /\ lock' = lock
  BY <1>1, RanksSame DEF OrderInv, disk
<1>3. \A j \in Inum : ~Keeps(proc[child], j)
  BY <1>1, KeepsNone DEF Place, Putting
<1>4. Plain(Idle)
  BY DEF Plain, Idle
<1> QED
  BY <1>1, <1>2, <1>3, <1>4, CalmOrder

\* chdir.
LEMMA ChdirOrder == ASSUME Inv, OrderInv, NEW p \in Proc, Chdir(p) PROVE OrderInv'
<1> DEFINE r == proc[p]  s == [Puts(r, cwd[p], "user") EXCEPT !.ip = None]
<1>1. r.pc = "chdir" /\ UNCHANGED <<disk, lock>> /\ (PutsIp(p, "user") \/ Becomes(p, s))
  BY DEF Chdir, At
<1>2. Ranked' /\ entry' = entry /\ lock' = lock
  BY <1>1, RanksSame DEF OrderInv, disk
<1>3. \A j \in Inum : ~Keeps(r, j)
  BY <1>1, KeepsNone DEF Place, Putting
<1>4. CASE PutsIp(p, "user")
  BY <1>2, <1>3, <1>4, PutsIpOrder
<1>5. CASE Becomes(p, s)
  <2>1. Fields(r)
    BY Start DEF CallOK
  <2>2. s.back = "user"
    BY <2>1 DEF Puts, Fields
  <2> HIDE DEF s
  <2>3. Plain(s)
    BY <2>2 DEF Plain
  <2> QED
    BY <1>2, <1>3, <1>5, <2>3, CalmOrder
<1> QED
  BY <1>1, <1>4, <1>5

\* namex begins.
LEMMA BeginOrder ==
    ASSUME Inv, OrderInv, NEW p \in Proc, NEW r, NEW path, NEW c, Begin(p, r, path, c),
           Fields(r), r.op \in Op \cup {"link to"}, entry' = entry, lock' = lock, Ranked',
           \A j \in Inum : ~Keeps(proc[p], j)
    PROVE  OrderInv'
<1> DEFINE i == IF path.abs THEN Root ELSE cwd[p]
           q == [r EXCEPT !.rest = path.names, !.at = i]  s == Onward(q)
<1>1. Becomes(p, s)
  BY DEF Begin
<1>2. Fields(q) /\ q.op = r.op
  BY DEF Fields
<1> HIDE DEF q
<1>3. Plain(s)
  BY <1>2, OnwardPlain
<1> HIDE DEF s
<1> QED
  BY <1>1, <1>3, CalmOrder

\* A system call begins.
LEMMA CallOrder == ASSUME Inv, OrderInv, NEW p \in Proc, Call(p) PROVE OrderInv'
<1>1. proc[p].pc = "user" /\ UNCHANGED <<disk, lock>>
  BY DEF Call, At
<1>2. Ranked' /\ entry' = entry /\ lock' = lock
  BY <1>1, RanksSame DEF OrderInv, disk
<1>3. \A j \in Inum : ~Keeps(proc[p], j)
  BY <1>1, KeepsNone DEF Place, Putting
<1>4. PICK c \in Calls[p] : Begin(p, [Idle EXCEPT !.op = c.op, !.new = c.new], c.path, cached)
  BY DEF Call
<1> DEFINE s == [Idle EXCEPT !.op = c.op, !.new = c.new]
<1>5. Fields(s) /\ s.op = c.op
  BY DEF Idle, Fields
<1>6. c.op \in Op
  BY InodesAssumption DEF InodesAssumption
<1>7. Begin(p, s, c.path, cached)
  BY <1>4
<1> HIDE DEF s
<1> QED
  BY <1>2, <1>3, <1>5, <1>6, <1>7, BeginOrder

\* link counts its link, and looks for the new name.
LEMMA LinkCountsOrder == ASSUME Inv, OrderInv, NEW p \in Proc, LinkCounts(p) PROVE OrderInv'
<1> DEFINE r == proc[p]  s == [r EXCEPT !.op = "link to", !.new = None]
           c == [cached EXCEPT ![r.ip] = Add(Node(r.ip), 1)]
<1>1. r.pc = "link" /\ UNCHANGED <<entry, lock>> /\ Begin(p, s, r.new, c)
      /\ dinode' = [dinode EXCEPT ![r.ip] = Add(Node(r.ip), 1)]
  BY DEF LinkCounts, At
<1>2. Fields(r) /\ r.ip \in Inum
  BY <1>1, Start, Where DEF Putting
<1>3. Fields(s) /\ s.op = "link to"
  BY <1>2 DEF Fields
<1> HIDE DEF s, c
<1>4. ref[r.ip] > 0
  BY <1>2, Start
<1>5. Ranked'
  <2>1. 1 \in Int /\ Ranked
    BY DEF OrderInv
  <2>2. \A x \in Inum : \A m \in DOMAIN entry'[x] : m \in DOMAIN entry[x] /\ entry'[x][m] = entry[x][m]
    BY <1>1
  <2> QED
    BY <1>1, <1>2, <1>4, <2>1, <2>2, RanksCount
<1>6. \A j \in Inum : ~Keeps(r, j)
  BY <1>1, KeepsNone DEF Place, Putting
<1>7. entry' = entry /\ lock' = lock
  BY <1>1
<1> QED
  BY <1>1, <1>3, <1>5, <1>6, <1>7, BeginOrder

\* link names an inode that is no directory, in one that nobody has locked.
LEMMA LinkWritesOrder == ASSUME Inv, TreeInv, OrderInv, NEW p \in Proc, LinkWrites(p) PROVE OrderInv'
<1> DEFINE r == proc[p]  x == r.dp  i == r.ip  n == Head(r.rest)
           s == [Puts(r, r.dp, "linked") EXCEPT !.dp = None]
<1>1. CallOK(r) /\ r.pc = "link to" /\ ~Putting(r)
  BY Start DEF LinkWrites, At, Putting
<1>2. Fields(r) /\ r.op = "link to" /\ x \in Inum /\ i \in Inum
  BY <1>1, Where
<1>3. Becomes(p, s) /\ lock[x] = None /\ n \notin DOMAIN entry[x] /\ UNCHANGED <<dinode, lock>>
      /\ entry' = [entry EXCEPT ![x] = Named(@, n, i)]
  BY DEF LinkWrites, PutsDp, Ilock, Unlocked
<1>4. PutsAs(s, r, x, "linked")
  BY <1>2, PutsDpFields, ZenonT(60)
<1> HIDE DEF s
<1>5. Found(s, entry')
  BY <1>4 DEF PutsAs, Found
<1>6. dinode[i].type # "dir"
  BY <1>2, SoundNow, NoneIsNot DEF Sound, Seen
<1>7. entry'[x] = Named(entry[x], n, i) /\ \A y \in Inum \ {x} : entry'[y] = entry[y]
  BY <1>2, <1>3 DEF Inv, TypeInv, Shaped, EntryOK
<1> HIDE DEF n
<1>8. Ranked'
  <2>1. \A y \in Inum : \A m \in DOMAIN entry'[y] \ Dot :
            dinode'[entry'[y][m]].type = "dir" =>
               m \in DOMAIN entry[y] /\ entry'[y][m] = entry[y][m] /\ dinode[entry[y][m]].type = "dir"
    <3> TAKE y \in Inum
    <3>1. CASE y = x
      BY <1>3, <1>6, <1>7, <3>1 DEF Named
    <3>2. CASE y # x
      BY <1>3, <1>7, <3>2
    <3> QED
      BY <3>1, <3>2
  <2> QED
    BY <2>1, RanksStay DEF OrderInv
<1>9. \A j \in Inum : lock[j] # p
  <2>1. \A j \in Inum : ~Keeps(r, j)
    BY <1>1, KeepsNone DEF Place
  <2> QED
    BY <2>1, InodesAssumption DEF OrderInv, Kept, KeptBy
<1>10. \A j \in Inum : lock'[j] = lock[j] /\ lock[j] # p
  BY <1>3, <1>9
<1>11. \A j \in Inum : entry'[j] = entry[j] \/ lock[j] \in {None, p}
  BY <1>3, <1>7
<1> QED
  BY <1>3, <1>5, <1>8, <1>10, <1>11, OrderStay

\* unlink erases the name from the directory, and keeps the inode locked instead.
LEMMA UnlinkErasesOrder == ASSUME Inv, OrderInv, NEW p \in Proc, UnlinkErases(p) PROVE OrderInv'
<1> DEFINE r == proc[p]  x == r.dp  i == r.ip  n == Head(r.rest)
           k == IF IsDir(i) THEN -1 ELSE 0
           s == [Puts(r, r.dp, "erased") EXCEPT !.dp = None]
<1>1. CallOK(r) /\ r.pc = "entry" /\ ~Putting(r)
  BY Start DEF UnlinkErases, At, Putting
<1>2. Fields(r) /\ x \in Inum /\ i \in Inum
  BY <1>1, Where
<1>3. Becomes(p, s) /\ lock[i] = None /\ lock' = [lock EXCEPT ![x] = None, ![i] = p]
      /\ dinode' = [dinode EXCEPT ![x] = Add(Node(x), k)]
      /\ entry' = [entry EXCEPT ![x] = Restrict(@, DOMAIN @ \ {n})]
  BY DEF UnlinkErases, PutsDp, Ilock, Unlocked
<1>4. PutsAs(s, r, x, "erased") /\ s.ip = i
  BY <1>2, PutsDpFields, ZenonT(60)
<1> HIDE DEF s
<1>5. Keeps(s, i) /\ Found(s, entry')
  BY <1>4 DEF PutsAs, Keeps, Place, Putting, Found
<1>6. Keeps(r, x) /\ \A j \in Inum : Keeps(r, j) => j = x
  BY <1>1 DEF Keeps, Place
<1>7. lock[x] = p /\ x # i
  BY <1>2, <1>3, <1>6, Start, InodesAssumption
<1>8. \A j \in Inum : lock[j] = p => j = x
  BY <1>6, InodesAssumption DEF OrderInv, Kept, KeptBy
<1>9. entry'[x] = Restrict(entry[x], DOMAIN entry[x] \ {n}) /\ \A y \in Inum \ {x} : entry'[y] = entry[y]
  BY <1>2, <1>3 DEF Inv, TypeInv, Shaped, EntryOK
<1> HIDE DEF n
<1>10. k \in Int
  OBVIOUS
<1> HIDE DEF k
<1>11. Ranked'
  <2>1. \A y \in Inum : \A m \in DOMAIN entry'[y] : m \in DOMAIN entry[y] /\ entry'[y][m] = entry[y][m]
    <3> TAKE y \in Inum
    <3>1. CASE y = x
      BY <1>9, <3>1 DEF Restrict
    <3>2. CASE y # x
      BY <1>9, <3>2
    <3> QED
      BY <3>1, <3>2
  <2>2. ref[x] > 0 /\ Ranked
    BY <1>2, Start DEF OrderInv
  <2> QED
    BY <1>2, <1>3, <1>10, <2>1, <2>2, RanksCount
<1>12. lock \in [Inum -> Proc \cup {None}]
  BY Start
<1>13. \A j \in Inum : \/ lock'[j] = None
                       \/ lock'[j] = p /\ Keeps(s, j)
                       \/ lock'[j] = lock[j] /\ lock[j] # p
  <2> TAKE j \in Inum
  <2>1. CASE j = x
    BY <1>2, <1>3, <1>7, <1>12, <2>1
  <2>2. CASE j = i
    BY <1>2, <1>3, <1>5, <1>12, <2>2
  <2>3. CASE j \notin {x, i}
    BY <1>3, <1>8, <1>12, <2>3
  <2> QED
    BY <2>1, <2>2, <2>3
<1>14. \A j \in Inum : entry'[j] = entry[j] \/ lock[j] \in {None, p}
  BY <1>7, <1>9
<1> QED
  BY <1>3, <1>5, <1>11, <1>13, <1>14, OrderStay

\* iput frees an inode that nobody has locked.
LEMMA IputLockedOrder == ASSUME Inv, OrderInv, NEW p \in Proc, IputLocked(p) PROVE OrderInv'
<1> DEFINE r == proc[p]  i == r.put  s == [r EXCEPT !.pc = "drop"]
<1>1. i \in Inum /\ CallOK(r) /\ r.pc = "put" /\ Becomes(p, s) /\ (UNCHANGED disk \/ Frees(p, i))
  BY IputFreesOrNot
<1>2. lock[i] = None /\ lock' = lock
  BY DEF IputLocked, Unlocked
<1>3. Fields(r)
  BY <1>1 DEF CallOK
<1>4. s.pc = "drop" /\ s.back = r.back /\ s.ip = r.ip /\ s.dp = r.dp
  BY <1>3 DEF Fields
<1> HIDE DEF s
<1>5. Found(s, entry') /\ \A j \in Inum : Keeps(r, j) => Keeps(s, j)
  BY <1>1, <1>4 DEF Found, Keeps, Place, Putting
<1>6. \A j \in Inum : (lock'[j] = p /\ Keeps(s, j)) \/ (lock'[j] = lock[j] /\ lock[j] # p)
  <2>1. \A j \in Inum : lock[j] = p => Keeps(r, j)
    BY InodesAssumption DEF OrderInv, Kept, KeptBy
  <2> QED
    BY <1>2, <1>5, <2>1
<1>7. \A j \in Inum \ {i} : entry'[j] = entry[j]
  BY <1>1 DEF Frees, disk, Inv, TypeInv, Shaped, EntryOK
<1>8. Ranked'
  <2>1. CASE UNCHANGED disk
    BY <2>1, RanksSame DEF OrderInv
  <2>2. CASE Frees(p, i)
    <3>1. dinode' = [dinode EXCEPT ![i] = Free] /\ entry' = [entry EXCEPT ![i] = <<>>]
      BY <2>2 DEF Frees
    <3>2. DOMAIN entry'[i] = {}
      BY <1>1, <3>1 DEF Inv, TypeInv, Shaped, EntryOK
    <3>3. \A j \in Inum : dinode'[j].type = "dir" => dinode[j].type = "dir"
      BY <1>1, <3>1 DEF Free, Inv, TypeInv, Shaped
    <3>4. \A x \in Inum : \A n \in DOMAIN entry[x] : entry[x][n] \in Inum
      BY DEF Inv, TypeInv, Shaped, EntryOK
    <3>5. \A x \in Inum : \A n \in DOMAIN entry'[x] \ Dot :
              dinode'[entry'[x][n]].type = "dir" =>
                 n \in DOMAIN entry[x] /\ entry'[x][n] = entry[x][n] /\ dinode[entry[x][n]].type = "dir"
      BY <1>7, <3>2, <3>3, <3>4
    <3> QED
      BY <3>5, RanksStay DEF OrderInv
  <2> QED
    BY <1>1, <2>1, <2>2
<1>9. \A j \in Inum : entry'[j] = entry[j] \/ lock[j] \in {None, p}
  BY <1>2, <1>7
<1> QED
  BY <1>1, <1>5, <1>6, <1>8, <1>9, OrderStay

\* iput is over: p keeps what it kept.
LEMMA IputDropOrder == ASSUME Inv, OrderInv, NEW p \in Proc, IputDrop(p) PROVE OrderInv'
<1> DEFINE r == proc[p]  d == Popped(r)  s == After(r)
<1>1. CallOK(r) /\ r.pc = "drop"
  BY Start DEF IputDrop, At
<1>2. Becomes(p, s) /\ UNCHANGED <<disk, lock>>
  BY DEF IputDrop, After, Popped
<1>3. Fields(r) /\ Place(r) = r.back
  BY <1>1 DEF CallOK, Place, Putting
<1>4. Fields(d) /\ d.pc = r.back /\ d.op = r.op /\ d.dp = r.dp /\ d.ip = r.ip
  BY <1>3 DEF Fields, Popped
<1> HIDE DEF d
<1>5. Plain(s) /\ \A j \in Inum : Keeps(r, j) => Keeps(s, j)
  <2>1. CASE r.back \in {"user", "dead"}
    <3>1. s = [Idle EXCEPT !.pc = r.back]
      BY <2>1 DEF After
    <3>2. s.pc = r.back
      BY <3>1 DEF Idle
    <3> HIDE DEF s
    <3>3. Plain(s) /\ \A j \in Inum : ~Keeps(r, j)
      BY <1>3, <2>1, <3>2, KeepsNone DEF Plain
    <3> QED
      BY <3>3
  <2>2. CASE r.back = "walk"
    <3>1. s = Onward(d)
      BY <2>2 DEF After, d
    <3>2. r.op \in Op \cup {"link to"}
      BY <1>1, <1>3, <2>2 DEF CallOK
    <3>3. Plain(s)
      BY <1>4, <3>1, <3>2, OnwardPlain
    <3>4. \A j \in Inum : ~Keeps(r, j)
      BY <1>3, <2>2, KeepsNone
    <3> QED
      BY <3>3, <3>4
  <2>3. CASE r.back \notin {"user", "dead", "walk"}
    <3>1. s = d
      BY <2>3 DEF After, d
    <3>2. r.back \notin {"put", "drop"}
      BY <1>1, <1>3, <2>3 DEF CallOK, OpAt, Op, Makes
    <3>3. Place(d) = r.back /\ Plain(d)
      BY <1>4, <3>2 DEF Place, Putting, Plain
    <3>4. \A j \in Inum : Keeps(r, j) => Keeps(d, j)
      BY <1>3, <1>4, <3>3 DEF Keeps
    <3> QED
      BY <3>1, <3>3, <3>4
  <2> QED
    BY <2>1, <2>2, <2>3
<1> HIDE DEF s
<1>6. Ranked' /\ entry' = entry /\ lock' = lock
  BY <1>2, RanksSame DEF OrderInv, disk
<1> QED
  BY <1>2, <1>5, <1>6, CalmOrder

\* At first the root is the only directory, and nothing is locked.
LEMMA InitOrder == Init => OrderInv
<1> SUFFICES ASSUME Init PROVE OrderInv
  OBVIOUS
<1>1. Kept
  BY DEF Init, Kept, KeptBy
<1>2. Looked
  BY DEF Init, Looked, Found, Idle
<1>3. Ranked
  <2>1. \A x \in Inum : DOMAIN entry[x] \ Dot = {}
    BY DEF Init, Dots, Named, Dot
  <2>2. [i \in Inum |-> 0] \in [Inum -> Nat]
    OBVIOUS
  <2>3. Descends([i \in Inum |-> 0], dinode, entry)
    BY <2>1 DEF Descends
  <2> QED
    BY <2>2, <2>3 DEF Ranked
<1> QED
  BY <1>1, <1>2, <1>3 DEF OrderInv

\* Every step keeps OrderInv.
LEMMA NextOrder == ASSUME Inv, TreeInv, OrderInv, [Next]_vars PROVE OrderInv'
<1>1. CASE UNCHANGED vars
  BY <1>1 DEF vars, disk, OrderInv, Kept, KeptBy, Looked, Ranked
<1>2. ASSUME NEW p \in Proc, Names(p) PROVE OrderInv'
  BY <1>2, IputLockedOrder, IputDropOrder, WalkStopsOrder, WalkFailsOrder, WalkOnOrder DEF Names
<1>3. ASSUME NEW p \in Proc, Create(p) PROVE OrderInv'
  BY <1>3, CreateFindsOrder, IallocOrder, CreateFillsOrder, ExistsNotOrder, MadeNodeOrder DEF Create
<1>4. ASSUME NEW p \in Proc, Link(p) PROVE OrderInv'
  BY <1>4, LinkCountsOrder, LinkRefusesOrder, LinkWritesOrder, LinkedOrder, LinkFindsOrder,
     LinkFailsOrder, LinkBadOrder DEF Link
<1>5. ASSUME NEW p \in Proc, Unlink(p) PROVE OrderInv'
  BY <1>5, UnlinkFailsOrder, UnlinkFindsOrder, UnlinkErasesOrder, UnlinkCountsOrder,
     UnlinkRefusesOrder, UnlinkBadOrder DEF Unlink
<1>6. ASSUME NEW p \in Proc, User(p) PROVE OrderInv'
  BY <1>6, CallOrder, CloseOrder, ExitOrder, ForkOrder DEF User
<1>7. ASSUME NEW p \in Proc, Kernel(p) PROVE OrderInv'
  BY <1>2, <1>3, <1>4, <1>5, <1>7, OpenOrder, ChdirOrder DEF Kernel
<1> QED
  BY <1>1, <1>6, <1>7 DEF Next

\* LockedInOrder, as the run checks it: processes that wait for each other's
\* inodes in a circle are only found where create and unlink put away the
\* parent with the child locked, or dirlink a "." or ".." with dp locked.
THEOREM LocksGoDown == ASSUME UpToOpen PROVE Spec => []LockedInOrder
<1>1. Inv /\ TreeInv /\ OrderInv /\ [Next]_vars => Inv' /\ TreeInv' /\ OrderInv'
  BY NextInv, NextTree, NextOrder
<1>2. Init => Inv /\ TreeInv /\ OrderInv
  BY InitInv, InitTree, InitOrder
<1> QED
  BY <1>1, <1>2, InOrder, PTL DEF Spec
=============================================================================
