--------------------------- MODULE MCLimitedPool ---------------------------
(***************************************************************************)
(* Instances of LimitedPool for TLC.                                       *)
(***************************************************************************)
EXTENDS LimitedPool, TLC

Symmetry == Permutations(Clients) \cup Permutations(Jobs)

=============================================================================
