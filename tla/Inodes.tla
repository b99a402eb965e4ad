------------------------------- MODULE Inodes -------------------------------
(***************************************************************************)
(* Inodes, directories and open files of the base kernel: fs.c, file.c and *)
(* the system calls of sysfile.c.  A step is what a process does with one  *)
(* inode locked, or under icache.lock or ftable.lock, so that the          *)
(* references it has, the inodes it keeps locked and the entries it has    *)
(* looked up meet the steps of the other processes.  What the log makes of *)
(* the writes is in Log; the content of files is left out.                 *)
(***************************************************************************)
EXTENDS Integers, Sequences, FiniteSets, Functions

Path == [abs : BOOLEAN, names : Seq(STRING)]

CONSTANTS
    Proc,      \* the processes
    InitProc,  \* the one that is there from the start
    Inum,      \* the numbers of inodes
    Root,      \* ROOTINO
    File,      \* the entries of ftable
    Calls,     \* the system calls that programs make, with their paths
    None

Dinode == [type : {"none", "dir", "file", "dev"}, nlink : Int]

Op == {"create", "mkdir", "mknod", "open", "chdir", "link", "unlink"}

ASSUME InodesAssumption ==
    /\ IsFiniteSet(Proc) /\ IsFiniteSet(File)
    /\ InitProc \in Proc
    /\ Inum \subseteq Nat /\ Root \in Inum
    /\ \A p \in Proc : \A c \in Calls[p] :
          c.op \in Op /\ c.path \in Path /\ (c.op = "link" => c.new \in Path)
    /\ None \notin Inum \cup File \cup Proc \cup Dinode

VARIABLES
    dinode,  \* dinode[i]: type and nlink of inode i on disk
    entry,   \* entry[i]: the names in directory i, with their inodes
    ref,     \* ref[i]: the references to i in the inode cache
    cached,  \* cached[i]: the copy of dinode[i] in the cache, None if not valid
    lock,    \* lock[i]: the process that has i locked
    file,    \* file[f]: references to an open file, and its inode
    ofile,   \* ofile[p]: the file p has open (NOFILE is 1)
    cwd,     \* cwd[p]: the current directory of p
    proc     \* proc[p]: where p is, with the inodes that its variables hold

disk == <<dinode, entry>>
files == <<file, ofile, cwd>>
vars == <<disk, ref, cached, lock, files, proc>>

-----------------------------------------------------------------------------
(* Inodes *)

Free == [type |-> "none", nlink |-> 0]

\* The type that create is asked for.
Type == [create |-> "file", mkdir |-> "dir", mknod |-> "dev"]

\* What ilock finds: the copy in the cache, or else the inode on disk.
Node(i) == IF cached[i] = None THEN dinode[i] ELSE cached[i]

IsDir(i) == Node(i).type = "dir"

Unlocked(i) == lock[i] = None

\* ilock: the kernel panics if the inode is free.
Ilock(i) == Unlocked(i) /\ Node(i).type # "none"

Look(i) == [cached EXCEPT ![i] = Node(i)]

\* The cache c after iget of i: an entry that nobody referred to is not valid.
Got(c, i) == IF ref[i] = 0 THEN [c EXCEPT ![i] = None] ELSE c

More(i) == [ref EXCEPT ![i] = @ + 1]

\* Directory dir with one name more, and with the two that a new one gets.
Named(dir, name, i) == [n \in DOMAIN dir \cup {name} |-> IF n = name THEN i ELSE dir[n]]

Dots(dir, i, parent) == Named(Named(dir, ".", i), "..", parent)

Add(node, n) == [node EXCEPT !.nlink = @ + n]

\* Changes to one inode, and iupdate.
Update(i, node) ==
    /\ dinode' = [dinode EXCEPT ![i] = node]
    /\ cached' = [cached EXCEPT ![i] = node]

-----------------------------------------------------------------------------
(* Processes *)

Idle == [pc |-> "user", op |-> None, rest |-> <<>>, new |-> None, back |-> None,
         at |-> None, ip |-> None, dp |-> None, put |-> None]

At(p, place) == proc[p].pc = place

Becomes(p, r) == proc' = [proc EXCEPT ![p] = r]

\* Process record r in iput of i, from which it goes to `back`.
Puts(r, i, back) == [r EXCEPT !.pc = "put", !.put = i, !.back = back]

PutsIp(p, back) == Becomes(p, [Puts(proc[p], proc[p].ip, back) EXCEPT !.ip = None])
PutsDp(p, back) == Becomes(p, [Puts(proc[p], proc[p].dp, back) EXCEPT !.dp = None])

\* nameiparent, not namei.
Parent(op) == op \in {"create", "mkdir", "mknod", "unlink", "link to"}

\* Where a call goes when namex finds nothing.
Failed(op) == IF op = "link to" THEN "bad" ELSE "user"

\* namex at r.at: on along the path, or at its end.
Onward(r) ==
    IF r.rest # <<>> THEN [r EXCEPT !.pc = "walk"]
    ELSE IF Parent(r.op) THEN [Puts(r, r.at, Failed(r.op)) EXCEPT !.at = None]
    ELSE [r EXCEPT !.pc = r.op, !.ip = r.at, !.at = None]

-----------------------------------------------------------------------------
(* iput and namex *)

\* Mutant: the copy in the cache stays valid when the inode has been freed.
IputKeepsValid(p) ==
    /\ At(p, "put")
    /\ LET i == proc[p].put IN
       /\ Unlocked(i)
       /\ IF cached[i] # None /\ cached[i].nlink = 0 /\ ref[i] = 1
            THEN /\ dinode' = [dinode EXCEPT ![i] = Free]
                 /\ entry' = [entry EXCEPT ![i] = <<>>]
            ELSE UNCHANGED disk
    /\ Becomes(p, [proc[p] EXCEPT !.pc = "drop"])
    /\ UNCHANGED <<ref, cached, lock, files>>

\* Mutant: an inode without links is freed whoever else has it.
IputFreesAlways(p) ==
    /\ At(p, "put")
    /\ LET i == proc[p].put IN
       /\ Unlocked(i)
       /\ IF cached[i] # None /\ cached[i].nlink = 0
            THEN /\ dinode' = [dinode EXCEPT ![i] = Free]
                 /\ entry' = [entry EXCEPT ![i] = <<>>]
                 /\ cached' = [cached EXCEPT ![i] = None]
            ELSE UNCHANGED <<disk, cached>>
    /\ Becomes(p, [proc[p] EXCEPT !.pc = "drop"])
    /\ UNCHANGED <<ref, lock, files>>

\* iput with the inode locked: it is freed when it has no links and this is
\* the only reference.
IputLocked(p) ==
    /\ At(p, "put")
    /\ LET i == proc[p].put IN
       /\ Unlocked(i)
       /\ IF cached[i] # None /\ cached[i].nlink = 0 /\ ref[i] = 1
            THEN /\ dinode' = [dinode EXCEPT ![i] = Free]
                 /\ entry' = [entry EXCEPT ![i] = <<>>]
                 /\ cached' = [cached EXCEPT ![i] = None]
            ELSE UNCHANGED <<disk, cached>>
    /\ Becomes(p, [proc[p] EXCEPT !.pc = "drop"])
    /\ UNCHANGED <<ref, lock, files>>

\* iput after releasesleep: the reference goes.
IputDrop(p) ==
    /\ At(p, "drop")
    /\ ref' = [ref EXCEPT ![proc[p].put] = @ - 1]
    /\ LET back == proc[p].back
           r == [proc[p] EXCEPT !.pc = back, !.put = None, !.back = None]
       IN Becomes(p, IF back \in {"user", "dead"} THEN [Idle EXCEPT !.pc = back]
                       ELSE IF back = "walk" THEN Onward(r) ELSE r)
    /\ UNCHANGED <<disk, cached, lock, files>>

\* namex along `path` begins, in record r and with the cache c.
Begin(p, r, path, c) ==
    LET i == IF path.abs THEN Root ELSE cwd[p] IN
    /\ ref' = More(i)
    /\ cached' = Got(c, i)
    /\ Becomes(p, Onward([r EXCEPT !.rest = path.names, !.at = i]))

Call(p) ==
    /\ At(p, "user")
    /\ \E c \in Calls[p] : Begin(p, [Idle EXCEPT !.op = c.op, !.new = c.new], c.path, cached)
    /\ UNCHANGED <<disk, lock, files>>

\* nameiparent stops one level early.
AtLast(r) == Parent(r.op) /\ Len(r.rest) = 1

\* One element of the path, with the inode locked for the time being.
WalkStops(p) ==
    /\ At(p, "walk")
    /\ LET r == proc[p] IN
       /\ Ilock(r.at)
       /\ IsDir(r.at) /\ AtLast(r)
       /\ cached' = Look(r.at)
       /\ Becomes(p, [r EXCEPT !.pc = r.op, !.dp = r.at, !.at = None])
    /\ UNCHANGED <<disk, ref, lock, files>>

WalkFails(p) ==
    /\ At(p, "walk")
    /\ LET r == proc[p] IN
       /\ Ilock(r.at)
       /\ \/ ~IsDir(r.at)
          \/ ~AtLast(r) /\ Head(r.rest) \notin DOMAIN entry[r.at]
       /\ cached' = Look(r.at)
       /\ Becomes(p, [Puts(r, r.at, Failed(r.op)) EXCEPT !.at = None])
    /\ UNCHANGED <<disk, ref, lock, files>>

WalkOn(p) ==
    /\ At(p, "walk")
    /\ LET r == proc[p] IN
       /\ Ilock(r.at)
       /\ IsDir(r.at) /\ ~AtLast(r) /\ Head(r.rest) \in DOMAIN entry[r.at]
       /\ LET next == entry[r.at][Head(r.rest)] IN
          /\ ref' = More(next)
          /\ cached' = Got(Look(r.at), next)
          /\ Becomes(p, [Puts(r, r.at, "walk") EXCEPT !.at = next, !.rest = Tail(@)])
    /\ UNCHANGED <<disk, lock, files>>

-----------------------------------------------------------------------------
(* create, for open with O_CREATE, mkdir and mknod *)

Lock(i, p) == lock' = [lock EXCEPT ![i] = p]

\* The name is there: its inode, with dp given back first.
CreateFinds(p) ==
    /\ proc[p].pc \in DOMAIN Type
    /\ LET r == proc[p]
           name == Head(r.rest)
       IN /\ Ilock(r.dp)
          /\ name \in DOMAIN entry[r.dp]
          /\ LET i == entry[r.dp][name] IN
             /\ ref' = More(i)
             /\ cached' = Got(Look(r.dp), i)
             /\ Becomes(p, [Puts(r, r.dp, "exists") EXCEPT !.ip = i, !.dp = None])
    /\ UNCHANGED <<disk, lock, files>>

\* It is not: ialloc with dp locked.  It reads the inodes one after the other and
\* takes one that is free when it comes to it; one behind it may be free by then.
Ialloc(p) ==
    /\ proc[p].pc \in DOMAIN Type
    /\ LET r == proc[p] IN
       /\ Ilock(r.dp)
       /\ Head(r.rest) \notin DOMAIN entry[r.dp]
       /\ Lock(r.dp, p)
       /\ \E i \in Inum :
             /\ dinode[i].type = "none"
             /\ dinode' = [dinode EXCEPT ![i] = [Free EXCEPT !.type = Type[r.op]]]
             /\ ref' = More(i)
             /\ cached' = Got(Look(r.dp), i)
             /\ Becomes(p, [r EXCEPT !.pc = "fill", !.ip = i])
    /\ UNCHANGED <<entry, files>>

\* The new inode has its first link and the directory its entry; dp is
\* unlocked, ip is not.  The kernel panics if a new directory has its dots: the
\* ".." of one that is removed may lead others to it.
CreateFills(p) ==
    /\ At(p, "fill")
    /\ LET r == proc[p]
           dir == Type[r.op] = "dir"
           node == [Node(r.ip) EXCEPT !.nlink = 1]
           dnode == Add(Node(r.dp), IF dir THEN 1 ELSE 0)
       IN /\ Ilock(r.ip)
          /\ dir => DOMAIN entry[r.ip] \cap {".", ".."} = {}
          /\ dinode' = [dinode EXCEPT ![r.ip] = node, ![r.dp] = dnode]
          /\ cached' = [cached EXCEPT ![r.ip] = node, ![r.dp] = dnode]
          /\ entry' = [entry EXCEPT
                ![r.ip] = IF dir THEN Dots(@, r.ip, r.dp) ELSE @,
                ![r.dp] = Named(@, Head(r.rest), r.ip)]
          /\ lock' = [lock EXCEPT ![r.dp] = None, ![r.ip] = p]
    /\ PutsDp(p, "made")
    /\ UNCHANGED <<ref, files>>

\* Where an inode that exists is not what was asked for: iunlockput.
ExistsNot(p) ==
    /\ At(p, "exists")
    /\ LET r == proc[p] IN
       /\ Ilock(r.ip)
       /\ ~(r.op = "create" /\ Node(r.ip).type = "file")
       /\ cached' = Look(r.ip)
    /\ PutsIp(p, "user")
    /\ UNCHANGED <<disk, ref, lock, files>>

\* mkdir and mknod have made their inode: iunlockput.
MadeNode(p) ==
    /\ At(p, "made")
    /\ proc[p].op # "create"
    /\ Lock(proc[p].ip, None)
    /\ PutsIp(p, "user")
    /\ UNCHANGED <<disk, ref, cached, files>>

-----------------------------------------------------------------------------
(* open, close, fork and exit *)

\* filealloc and fdalloc for ip, then iunlock: at "open" and "exists" ip has
\* yet to be locked, at "made" it is.  A directory cannot be opened to write.
Opens(p) ==
    \/ At(p, "open") /\ Ilock(proc[p].ip)
    \/ At(p, "exists") /\ Ilock(proc[p].ip) /\ proc[p].op = "create"
                       /\ Node(proc[p].ip).type = "file"
    \/ At(p, "made") /\ proc[p].op = "create"

Open(p) ==
    /\ Opens(p)
    /\ cached' = Look(proc[p].ip)
    /\ Lock(proc[p].ip, None)
    /\ \/ /\ ofile[p] = None
          /\ \E f \in File : /\ file[f].ref = 0
                             /\ file' = [file EXCEPT ![f] = [ref |-> 1, ip |-> proc[p].ip]]
                             /\ ofile' = [ofile EXCEPT ![p] = f]
          /\ Becomes(p, Idle)
       \/ /\ \/ ofile[p] # None \/ \A f \in File : file[f].ref > 0
             \/ At(p, "open") /\ IsDir(proc[p].ip)
          /\ PutsIp(p, "user")
          /\ UNCHANGED <<file, ofile>>
    /\ UNCHANGED <<disk, ref, cwd>>

\* fileclose: the last reference to the file gives back its inode.
Close(p) ==
    /\ At(p, "user")
    /\ ofile[p] # None
    /\ LET f == ofile[p] IN
       IF file[f].ref > 1
         THEN /\ file' = [file EXCEPT ![f].ref = @ - 1]
              /\ UNCHANGED proc
         ELSE /\ file' = [file EXCEPT ![f] = [ref |-> 0, ip |-> None]]
              /\ Becomes(p, Puts(Idle, file[f].ip, "user"))
    /\ ofile' = [ofile EXCEPT ![p] = None]
    /\ UNCHANGED <<disk, ref, cached, lock, cwd>>

\* fork: the child has the parent's file and directory.
Fork(p, child) ==
    /\ At(p, "user") /\ At(child, "dead")
    /\ Becomes(child, Idle)
    /\ ofile' = [ofile EXCEPT ![child] = ofile[p]]
    /\ file' = [f \in File |-> IF f = ofile[p] THEN [file[f] EXCEPT !.ref = @ + 1] ELSE file[f]]
    /\ cwd' = [cwd EXCEPT ![child] = cwd[p]]
    /\ ref' = More(cwd[p])
    /\ UNCHANGED <<disk, cached, lock>>

\* exit, with no file left.
Exit(p) ==
    /\ At(p, "user")
    /\ p # InitProc /\ ofile[p] = None
    /\ Becomes(p, Puts(Idle, cwd[p], "dead"))
    /\ cwd' = [cwd EXCEPT ![p] = None]
    /\ UNCHANGED <<disk, ref, cached, lock, file, ofile>>

Chdir(p) ==
    /\ At(p, "chdir")
    /\ LET r == proc[p] IN
       /\ Ilock(r.ip)
       /\ cached' = Look(r.ip)
       /\ IF IsDir(r.ip)
            THEN /\ cwd' = [cwd EXCEPT ![p] = r.ip]
                 /\ Becomes(p, [Puts(r, cwd[p], "user") EXCEPT !.ip = None])
            ELSE PutsIp(p, "user") /\ UNCHANGED cwd
    /\ UNCHANGED <<disk, ref, lock, file, ofile>>

-----------------------------------------------------------------------------
(* link *)

\* Mutant: nlink is left for later.
LinkUncounted(p) ==
    /\ At(p, "link")
    /\ LET r == proc[p] IN
       /\ Ilock(r.ip)
       /\ ~IsDir(r.ip)
       /\ Begin(p, [r EXCEPT !.op = "link to", !.new = None], r.new, Look(r.ip))
    /\ UNCHANGED <<disk, lock, files>>

\* Mutant: the inode stays locked while the new name is looked for.
LinkKeepsLock(p) ==
    /\ At(p, "link")
    /\ LET r == proc[p]
           node == Add(Node(r.ip), 1)
       IN /\ Ilock(r.ip)
          /\ ~IsDir(r.ip)
          /\ Lock(r.ip, p)
          /\ dinode' = [dinode EXCEPT ![r.ip] = node]
          /\ Begin(p, [r EXCEPT !.op = "link to", !.new = None], r.new,
                   [cached EXCEPT ![r.ip] = node])
    /\ UNCHANGED <<entry, files>>

\* The inode has one link more, before the new name is looked for.
LinkCounts(p) ==
    /\ At(p, "link")
    /\ LET r == proc[p]
           node == Add(Node(r.ip), 1)
       IN /\ Ilock(r.ip)
          /\ ~IsDir(r.ip)
          /\ dinode' = [dinode EXCEPT ![r.ip] = node]
          /\ Begin(p, [r EXCEPT !.op = "link to", !.new = None], r.new,
                   [cached EXCEPT ![r.ip] = node])
    /\ UNCHANGED <<entry, lock, files>>

LinkRefuses(p) ==
    /\ At(p, "link")
    /\ LET r == proc[p] IN
       /\ Ilock(r.ip)
       /\ IsDir(r.ip)
       /\ cached' = Look(r.ip)
    /\ PutsIp(p, "user")
    /\ UNCHANGED <<disk, ref, lock, files>>

\* dirlink writes the entry.
LinkWrites(p) ==
    /\ At(p, "link to")
    /\ LET r == proc[p] IN
       /\ Ilock(r.dp)
       /\ Head(r.rest) \notin DOMAIN entry[r.dp]
       /\ entry' = [entry EXCEPT ![r.dp] = Named(@, Head(r.rest), r.ip)]
       /\ cached' = Look(r.dp)
    /\ PutsDp(p, "linked")
    /\ UNCHANGED <<dinode, ref, lock, files>>

Linked(p) ==
    /\ At(p, "linked")
    /\ PutsIp(p, "user")
    /\ UNCHANGED <<disk, ref, cached, lock, files>>

\* dirlink finds the name: iput of what it has found, with dp still locked.
LinkFinds(p) ==
    /\ At(p, "link to")
    /\ LET r == proc[p] IN
       /\ Ilock(r.dp)
       /\ Head(r.rest) \in DOMAIN entry[r.dp]
       /\ LET i == entry[r.dp][Head(r.rest)] IN
          /\ ref' = More(i)
          /\ cached' = Got(Look(r.dp), i)
          /\ Lock(r.dp, p)
          /\ Becomes(p, Puts(r, i, "found"))
    /\ UNCHANGED <<disk, files>>

LinkFails(p) ==
    /\ At(p, "found")
    /\ Lock(proc[p].dp, None)
    /\ PutsDp(p, "bad")
    /\ UNCHANGED <<disk, ref, cached, files>>

\* The label bad: the link is taken back.
LinkBad(p) ==
    /\ At(p, "bad")
    /\ Ilock(proc[p].ip)
    /\ Update(proc[p].ip, Add(Node(proc[p].ip), -1))
    /\ PutsIp(p, "user")
    /\ UNCHANGED <<entry, ref, lock, files>>

-----------------------------------------------------------------------------
(* unlink *)

\* The name is "." or "..", or is not there.
UnlinkFails(p) ==
    /\ At(p, "unlink")
    /\ LET r == proc[p] IN
       /\ Ilock(r.dp)
       /\ Head(r.rest) \in {".", ".."} \/ Head(r.rest) \notin DOMAIN entry[r.dp]
       /\ cached' = Look(r.dp)
    /\ PutsDp(p, "user")
    /\ UNCHANGED <<disk, ref, lock, files>>

UnlinkFinds(p) ==
    /\ At(p, "unlink")
    /\ LET r == proc[p] IN
       /\ Ilock(r.dp)
       /\ Head(r.rest) \in DOMAIN entry[r.dp] \ {".", ".."}
       /\ LET i == entry[r.dp][Head(r.rest)] IN
          /\ ref' = More(i)
          /\ cached' = Got(Look(r.dp), i)
          /\ Lock(r.dp, p)
          /\ Becomes(p, [r EXCEPT !.pc = "entry", !.ip = i])
    /\ UNCHANGED <<disk, files>>

IsDirEmpty(i) == DOMAIN entry[i] \subseteq {".", ".."}

\* The entry goes; ip stays locked while dp is put away.  The kernel panics if
\* ip has no link.
UnlinkErases(p) ==
    /\ At(p, "entry")
    /\ LET r == proc[p]
           dnode == Add(Node(r.dp), IF IsDir(r.ip) THEN -1 ELSE 0)
       IN /\ Ilock(r.ip) /\ Node(r.ip).nlink >= 1
          /\ IsDir(r.ip) => IsDirEmpty(r.ip)
          /\ entry' = [entry EXCEPT ![r.dp] = Restrict(@, DOMAIN @ \ {Head(r.rest)})]
          /\ dinode' = [dinode EXCEPT ![r.dp] = dnode]
          /\ cached' = [Look(r.ip) EXCEPT ![r.dp] = dnode]
          /\ lock' = [lock EXCEPT ![r.dp] = None, ![r.ip] = p]
    /\ PutsDp(p, "erased")
    /\ UNCHANGED <<ref, files>>

UnlinkCounts(p) ==
    /\ At(p, "erased")
    /\ Update(proc[p].ip, Add(Node(proc[p].ip), -1))
    /\ Lock(proc[p].ip, None)
    /\ PutsIp(p, "user")
    /\ UNCHANGED <<entry, ref, files>>

\* A directory that is not empty stays: iunlockput of it, dp being locked.
UnlinkRefuses(p) ==
    /\ At(p, "entry")
    /\ LET r == proc[p] IN
       /\ Ilock(r.ip) /\ Node(r.ip).nlink >= 1
       /\ IsDir(r.ip) /\ ~IsDirEmpty(r.ip)
       /\ cached' = Look(r.ip)
    /\ PutsIp(p, "refused")
    /\ UNCHANGED <<disk, ref, lock, files>>

UnlinkBad(p) ==
    /\ At(p, "refused")
    /\ Lock(proc[p].dp, None)
    /\ PutsDp(p, "user")
    /\ UNCHANGED <<disk, ref, cached, files>>

-----------------------------------------------------------------------------

Init ==
    /\ dinode = [i \in Inum |-> IF i = Root THEN [type |-> "dir", nlink |-> 1] ELSE Free]
    /\ entry = [i \in Inum |-> IF i = Root THEN Dots(<<>>, Root, Root) ELSE <<>>]
    /\ ref = [i \in Inum |-> IF i = Root THEN 1 ELSE 0]
    /\ cached = [i \in Inum |-> None]
    /\ lock = [i \in Inum |-> None]
    /\ file = [f \in File |-> [ref |-> 0, ip |-> None]]
    /\ ofile = [p \in Proc |-> None]
    /\ cwd = [p \in Proc |-> IF p = InitProc THEN Root ELSE None]
    /\ proc = [p \in Proc |-> IF p = InitProc THEN Idle ELSE [Idle EXCEPT !.pc = "dead"]]

Names(p) == IputLocked(p) \/ IputDrop(p) \/ WalkStops(p) \/ WalkFails(p) \/ WalkOn(p)

Create(p) == CreateFinds(p) \/ Ialloc(p) \/ CreateFills(p) \/ ExistsNot(p) \/ MadeNode(p)

Link(p) ==
    \/ LinkCounts(p) \/ LinkRefuses(p) \/ LinkWrites(p) \/ Linked(p)
    \/ LinkFinds(p) \/ LinkFails(p) \/ LinkBad(p)

Unlink(p) ==
    \/ UnlinkFails(p) \/ UnlinkFinds(p) \/ UnlinkErases(p) \/ UnlinkCounts(p)
    \/ UnlinkRefuses(p) \/ UnlinkBad(p)

Kernel(p) == Names(p) \/ Create(p) \/ Open(p) \/ Chdir(p) \/ Link(p) \/ Unlink(p)

User(p) == Call(p) \/ Close(p) \/ Exit(p) \/ \E child \in Proc : Fork(p, child)

Next == \E p \in Proc : Kernel(p) \/ User(p)

Spec == Init /\ [][Next]_vars

-----------------------------------------------------------------------------
(* Properties *)

\* Who has a reference to i.
Held(i) ==
    {t \in {"cwd"} \X Proc : cwd[t[2]] = i} \cup
    {t \in {"file"} \X File : file[t[2]].ip = i} \cup
    {t \in {"at", "ip", "dp", "put"} \X Proc : proc[t[2]][t[1]] = i}

TypeOK ==
    /\ \A i \in Inum : /\ dinode[i] \in Dinode
                       /\ \A n \in DOMAIN entry[i] : entry[i][n] \in Inum
                       /\ lock[i] \in Proc \cup {None}
    /\ \A p \in Proc : ofile[p] \in File \cup {None} /\ cwd[p] \in Inum \cup {None}

\* ref counts the pointers to an inode, f->ref those to an open file.
RefsExact == \A i \in Inum : ref[i] = Cardinality(Held(i))

FilesExact ==
    \A f \in File : /\ file[f].ref = Cardinality({p \in Proc : ofile[p] = f})
                    /\ file[f].ref = 0 <=> file[f].ip = None

\* The cache is write-through: a valid copy is what is on disk.
CacheFresh == \A i \in Inum : ref[i] > 0 /\ cached[i] # None => cached[i] = dinode[i]

\* The state is well typed, references are counted as they are held by open
\* files, current directories and calls, and a copy that is left in the cache
\* by an earlier user of the entry or of the inode is never taken for valid.
InodesInv == TypeOK /\ RefsExact /\ FilesExact /\ CacheFresh

\* A path whose names before the one that nameiparent leaves over never go up.
StaysDown(op, names) ==
    /\ names \in Seq(STRING)
    /\ op # "open" =>
          \A k \in 1 .. Len(names) - (IF Parent(op) THEN 1 ELSE 0) : names[k] # ".."

\* Programs go up to open a file only.  The ".." of a directory that is removed
\* may lead to a new inode which create has yet to fill.
UpToOpen ==
    \A p \in Proc : \A c \in Calls[p] :
        /\ StaysDown(c.op, c.path.names)
        /\ c.op = "link" => StaysDown("link to", c.new.names)

\* The entries that name i, other than the dots.
Links(i) ==
    {l \in Inum \X UNION {DOMAIN entry[d] \ {".", ".."} : d \in Inum} :
        l[2] \in DOMAIN entry[l[1]] /\ entry[l[1]][l[2]] = i}

\* No inode has more names than links, none that is named is free, and a
\* directory is named in its parent only, whatever links, unlinks and
\* creations are under way.
TreeSound ==
    \A i \in Inum :
        /\ dinode[i].nlink >= Cardinality(Links(i))
        /\ Links(i) # {} => dinode[i].type # "none"
        /\ dinode[i].type = "dir" => \A l \in Links(i) : entry[i][".."] = l[1]

\* fs.c:327: an inode is freed only when no entry names it and nobody but the
\* process that frees it has a reference.
FreedOnlyWhenForgotten ==
    [][\A i \in Inum : dinode[i].type # "none" /\ dinode'[i].type = "none" =>
          Links(i) = {} /\ \E p \in Proc : Held(i) = {<<"put", p>>}]_vars

\* The inode that p needs locked.
Wants(p) ==
    CASE proc[p].pc = "put" -> proc[p].put
      [] proc[p].pc = "walk" -> proc[p].at
      [] proc[p].pc \in DOMAIN Type \cup {"link to", "unlink"} -> proc[p].dp
      [] proc[p].pc \in {"fill", "exists", "open", "chdir", "link", "bad", "entry"} -> proc[p].ip
      [] OTHER -> None

Deadlocked(S) == \A p \in S : Wants(p) # None /\ lock[Wants(p)] \in S

\* create and unlink put away the parent while they have the child locked, and
\* dirlink what it has found when it is "." or "..", which are above dp.
AgainstOrder(p) ==
    /\ At(p, "put")
    /\ \/ proc[p].back \in {"made", "erased"}
       \/ proc[p].back = "found" /\ Head(proc[p].rest) \in {".", ".."}

\* Inodes are locked from the root downwards: apart from the two cases of
\* AgainstOrder processes do not wait for each other's inodes in a circle.
LockedInOrder ==
    \A S \in (SUBSET Proc) \ {{}} : Deadlocked(S) => \E p \in S : AgainstOrder(p)

\* What does not hold.  Nobody waits for ever: it is possible against order.
NoDeadlock == \A S \in (SUBSET Proc) \ {{}} : ~Deadlocked(S)

\* An inode that has neither links nor references is free: two processes that
\* put away the last two references can each see the other's.
ForgottenIsFree ==
    \A i \in Inum : dinode[i].nlink = 0 /\ ref[i] = 0 => dinode[i].type = "none"

\* What is to be locked is not free, so that ilock does not panic: the ".." of
\* a directory that is in use and removed can lead to an inode that is.
NoPanic ==
    \A p \in Proc : At(p, "walk") /\ Unlocked(proc[p].at) => Node(proc[p].at).type # "none"
=============================================================================
