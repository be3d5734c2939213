---------------------------- MODULE MCPooledPool ---------------------------
(***************************************************************************)
(* Instances of PooledPool for TLC.                                       *)
(***************************************************************************)
EXTENDS PooledPool, TLC

Symmetry == Permutations(Clients) \cup Permutations(Jobs)
              \cup Permutations(Workers)

=============================================================================
