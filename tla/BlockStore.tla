----------------------------- MODULE BlockStore -----------------------------
(***************************************************************************)
(* What the buffer cache promises (src/xv6-public/bio.c:1-18): it keeps     *)
(* copies of disk blocks so that the disk need not be read again, and lets  *)
(* one process at a time use a block.  Apart from that a block is where a   *)
(* process finds what was last written to it.                               *)
(***************************************************************************)
CONSTANTS
    Proc,   \* the processes
    Block,  \* the blocks of the disk
    Val,    \* what a block may contain
    Nobody

VARIABLES
    owner,   \* owner[b]: the process that uses block b, or Nobody
    content  \* content[b]: what block b contains

vars == <<owner, content>>

Init ==
    /\ owner = [b \in Block |-> Nobody]
    /\ content \in [Block -> Val]

Take(p, b) ==
    /\ owner[b] = Nobody
    /\ owner' = [owner EXCEPT ![b] = p]
    /\ UNCHANGED content

Put(p, b, v) ==
    /\ owner[b] = p
    /\ content' = [content EXCEPT ![b] = v]
    /\ UNCHANGED owner

Give(p, b) ==
    /\ owner[b] = p
    /\ owner' = [owner EXCEPT ![b] = Nobody]
    /\ UNCHANGED content

Next ==
    \E p \in Proc, b \in Block :
        \/ Take(p, b)
        \/ Give(p, b)
        \/ \E v \in Val : Put(p, b, v)

Spec == Init /\ [][Next]_vars
=============================================================================
