------------------------------ MODULE MCInodes ------------------------------
(* Inodes with two processes: what their programs call. *)
EXTENDS Inodes

a == [abs |-> FALSE, names |-> <<"a">>]
b == [abs |-> FALSE, names |-> <<"b">>]
up == [abs |-> FALSE, names |-> <<"..">>]

Do(op, path) == [op |-> op, path |-> path, new |-> None]
Link2(path, new) == [op |-> "link", path |-> path, new |-> new]

Programs ==
    [p \in Proc |->
        IF p = InitProc
          THEN {Do("mkdir", a), Do("create", a), Do("chdir", a), Do("unlink", a), Link2(a, b)}
          ELSE {Do("unlink", a), Do("unlink", b), Do("open", up), Link2(a, up)}]

\* The hypothesis of the theorems about the tree holds of these programs.
ASSUME ProgramsGoUpToOpen == UpToOpen

\* What is in an entry of the cache that nobody refers to is not seen again.
Seen ==
    <<disk, ref, [i \in Inum |-> IF ref[i] = 0 THEN None ELSE cached[i]], lock, files, proc>>
=============================================================================
