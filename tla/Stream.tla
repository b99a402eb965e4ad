------------------------------- MODULE Stream -------------------------------
(***************************************************************************)
(* What a pipe promises (src/xv6-public/pipe.c): a bounded queue of bytes   *)
(* with two ends.  What is written comes out once and in order, and a       *)
(* reader is told that the stream is at its end only when all of it has     *)
(* been read and nobody can write any more.                                 *)
(***************************************************************************)
EXTENDS Naturals, Sequences

CONSTANTS
    Proc, Val,  \* the processes, the bytes
    Size,       \* how many bytes fit
    None

VARIABLES
    content,              \* the bytes written and not yet read
    readopen, writeopen,  \* whether an end is open
    got                   \* got[p]: what a read of p has delivered, or None

vars == <<content, readopen, writeopen, got>>

Init ==
    /\ content = << >>
    /\ readopen = FALSE /\ writeopen = FALSE
    /\ got = [p \in Proc |-> None]

Open ==
    /\ ~readopen /\ ~writeopen
    /\ readopen' = TRUE /\ writeopen' = TRUE
    /\ UNCHANGED <<content, got>>

Write ==
    /\ writeopen
    /\ \E m \in 1..Size - Len(content) :
          \E s \in [1..m -> Val] : content' = content \o s
    /\ UNCHANGED <<readopen, writeopen, got>>

Read(p) ==
    /\ readopen /\ got[p] = None
    /\ content = << >> => ~writeopen
    /\ \E m \in 0..Len(content) :
          /\ m = 0 => content = << >>
          /\ got' = [got EXCEPT ![p] = SubSeq(content, 1, m)]
          /\ content' = SubSeq(content, m + 1, Len(content))
    /\ UNCHANGED <<readopen, writeopen>>

\* The reader has used what it got.
Used(p) ==
    /\ got[p] # None
    /\ got' = [got EXCEPT ![p] = None]
    /\ UNCHANGED <<content, readopen, writeopen>>

CloseRead == readopen /\ readopen' = FALSE /\ UNCHANGED <<content, writeopen, got>>

CloseWrite == writeopen /\ writeopen' = FALSE /\ UNCHANGED <<content, readopen, got>>

\* Nobody can read what is left of it.
Drop ==
    /\ ~readopen /\ ~writeopen
    /\ content' = << >>
    /\ UNCHANGED <<readopen, writeopen, got>>

Next ==
    \/ Open \/ Write \/ CloseRead \/ CloseWrite \/ Drop
    \/ \E p \in Proc : Read(p) \/ Used(p)

Spec == Init /\ [][Next]_vars
=============================================================================
