----------------------------- MODULE MCFileLock -----------------------------
(* FileLock with four agents on one path: three can wait behind a holder.  *)
(* The agents are interchangeable, so states are taken up to permutation.  *)
EXTENDS FileLock

Symmetry == Permutations(Agent)

=============================================================================
