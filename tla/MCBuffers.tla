------------------------------- MODULE MCBuffers -------------------------------
(***************************************************************************)
(* The buffer cache for TLC: over the disk of ide.c, over one whose reads   *)
(* may fail, and over the memory of memide.c.  There are fewer buffers than *)
(* processes and than blocks, so that bget recycles, and panics.            *)
(***************************************************************************)
EXTENDS Bcache, TLC

Sym == Permutations(Procs) \cup Permutations(Blocks)
================================================================================
