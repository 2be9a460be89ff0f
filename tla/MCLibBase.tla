----------------------------- MODULE MCLibBase -----------------------------
(***************************************************************************)
(* LibBase.tla for TLC: three threads use the queue and the free list, two *)
(* the log.  Nothing tells the threads of the queue and the list apart, so *)
(* permuting them is a symmetry; the log's threads are left as they are.   *)
(***************************************************************************)
EXTENDS LibBase, TLC

ThreadSymmetry == Permutations(Thread)
=============================================================================
