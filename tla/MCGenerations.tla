--------------------------- MODULE MCGenerations ---------------------------
(***************************************************************************)
(* Instances of Generations for TLC.  Nothing tells two connections apart, *)
(* or two threads, but what they did.                                      *)
(***************************************************************************)
EXTENDS Generations, TLC

\* The device 1 controls the device 2, and hands its context over to it.
Deals == {<<1, 2>>}

Symmetry == Permutations(Sids) \cup Permutations(Threads)
=============================================================================
