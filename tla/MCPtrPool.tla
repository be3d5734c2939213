----------------------------- MODULE MCPtrPool -----------------------------
(***************************************************************************)
(* Instances of PtrPool for TLC.                                           *)
(***************************************************************************)
EXTENDS PtrPool, TLC

Setting(base, noalloc, grow, max, sync) ==
  [base |-> base, disableAllocs |-> noalloc, grow |-> grow, maximum |-> max,
   syncPool |-> sync, reset |-> TRUE]

FreelistOnly == Setting(1, FALSE, FALSE, 0, FALSE)
NoAllocs     == Setting(1, TRUE, FALSE, 0, FALSE)
WithSyncPool == Setting(1, FALSE, FALSE, 0, TRUE)
Growing      == Setting(1, FALSE, TRUE, 2, TRUE)
GrowingList  == Setting(1, FALSE, TRUE, 3, FALSE)
Unbounded    == Setting(2, FALSE, TRUE, 0, TRUE)
SyncPoolOnly == Setting(0, FALSE, FALSE, 0, TRUE)

\* The configurations of the package's examples and of its end to end test,
\* and some that validate refuses.
AllSettings == {FreelistOnly, NoAllocs, WithSyncPool, Growing, GrowingList,
                Unbounded, Setting(2, TRUE, FALSE, 0, FALSE),
                Setting(1, TRUE, TRUE, 2, FALSE), Setting(1, TRUE, FALSE, 0, TRUE),
                Setting(2, FALSE, TRUE, 2, TRUE), Setting(-1, FALSE, FALSE, 0, TRUE)}
NoFreelist    == {SyncPoolOnly}
OnlyGrowing   == {Growing}
FairSettings  == {NoAllocs, Growing}

\* Answers below, inside and above the limits, the refused 0 among them.
SomeAnswers == {0, 1, 2, 4}
AnyAnswer(size, pulls, v) == TRUE

\* A Grower that only grows.
LargerOnly(size, pulls, v) == v > size

Symmetry == Permutations(Users) \cup Permutations(Values)

=============================================================================
