----------------------------- MODULE MCDiffSize -----------------------------
(***************************************************************************)
(* Instances of DiffSize for TLC.                                          *)
(***************************************************************************)
EXTENDS DiffSize, TLC

Static(size, n, max)  == [size |-> size, constBuff |-> n, syncPool |-> FALSE,
                          disallowAlloc |-> FALSE, maxSize |-> max]
Blocking(size, n, max) == [Static(size, n, max) EXCEPT !.disallowAlloc = TRUE]
Synced(size, max) == [Static(size, 0, max) EXCEPT !.syncPool = TRUE]
Both(size, n)     == [Static(size, n, 0) EXCEPT !.syncPool = TRUE]

Setting(kind, sizes, shrink) == [kind |-> kind, sizes |-> sizes, shrink |-> shrink]

\* Pools whose stores keep their buffers in one place: every kind of store as
\* the largest and as a smaller one, with and without MaxSize, and two
\* configurations that validate refuses.
OnePlaceSettings ==
  {Setting("slice", {Static(1, 1, 0), Synced(3, 3)}, FALSE),
   Setting("slice", {Synced(1, 2), Blocking(3, 1, 0)}, FALSE),
   Setting("slice", {Blocking(1, 1, 0), Static(3, 1, 3)}, TRUE),
   Setting("slice", {Blocking(2, 2, 0)}, TRUE),
   Setting("bytesBuffer", {Static(1, 1, 1), Static(2, 1, 0)}, TRUE),
   Setting("slice", {Both(2, 1), [Both(3, 1) EXCEPT !.disallowAlloc = TRUE]}, FALSE),
   Setting("slice", {Static(2, 1, 1)}, FALSE)}

\* A store whose Gets must wait for a Close: as the largest one, which does
\* not run dry, and as a smaller one, which can.
FairSettings ==
  {Setting("slice", {Static(1, 1, 0), Blocking(3, 1, 0)}, FALSE),
   Setting("slice", {Blocking(1, 1, 0), Static(3, 1, 3)}, FALSE)}

\* The stores of the package's example.
BothPlaces == {Setting("slice", {Both(1, 1)}, FALSE)}

Symmetry == Permutations(Users) \cup Permutations(Buffers)

=============================================================================
