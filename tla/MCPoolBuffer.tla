---------------------------- MODULE MCPoolBuffer ---------------------------
(***************************************************************************)
(* Instances of PoolBuffer for TLC.                                        *)
(***************************************************************************)
EXTENDS PoolBuffer, TLC

CONSTANTS p1, p2

\* One PoolBuffer that is never short of buffers, bytes that do and do not make runes.
Alone ==
  [users |-> {p1}, bytes |-> {Lead, Cont}, stock |-> (2 :> 1 @@ 4 :> 1),
   extra |-> {1}, sizes |-> 0 .. 2, maxInt |-> 10, maxLen |-> 3]

\* Two of them: one that holds the buffer of 1 has to wait for the buffer of 2,
\* which the other holds, and a new one for the buffer of 1.
Scarce ==
  [users |-> {p1, p2}, bytes |-> {Ascii}, stock |-> (1 :> 1 @@ 2 :> 1),
   extra |-> {}, sizes |-> {1}, maxInt |-> 6, maxLen |-> 1]

\* One that asks for almost all there can be.
Huge ==
  [users |-> {p1}, bytes |-> {Ascii}, stock |-> (1 :> 1 @@ 2 :> 1),
   extra |-> {}, sizes |-> {1, 6}, maxInt |-> 8, maxLen |-> 2]

All == {Alone, Scarce, Huge}

=============================================================================
