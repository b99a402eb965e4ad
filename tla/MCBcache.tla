------------------------------ MODULE MCBcache ------------------------------
(* Bcache with an indirect block, 3, and the bitmap, 1. *)
EXTENDS Bcache

\* bmap and itrunc have the indirect block in use when they ask for the bitmap.
NestedPairs == {<<3, 1>>}
=============================================================================
