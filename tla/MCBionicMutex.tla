-------------------------- MODULE MCBionicMutex ----------------------------
(* BionicMutex on a small instance: the threads are interchangeable, and so *)
(* are the heap addresses.                                                  *)
EXTENDS BionicMutex, TLC

Symmetry == Permutations(Threads) \cup Permutations(Objs)
=============================================================================
