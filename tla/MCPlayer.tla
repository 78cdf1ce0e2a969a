------------------------------ MODULE MCPlayer ------------------------------
(* Player with small sets; chunks, tasks and queue addresses are symmetric.  *)
EXTENDS Player, TLC

Symmetry == Permutations(Tasks) \cup Permutations(Queues) \cup Permutations(Chunks)
=============================================================================
