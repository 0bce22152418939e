------------------------ MODULE MCConcurrentFifoList ------------------------
(* Model-checking instances of ConcurrentFifoList. *)
EXTENDS ConcurrentFifoList, TLC

\* The awaiters are interchangeable.
NodeSymmetry == Permutations(Nodes)
=============================================================================
