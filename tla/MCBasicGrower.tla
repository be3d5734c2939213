--------------------------- MODULE MCBasicGrower ---------------------------
(***************************************************************************)
(* Instances of BasicGrower for TLC.                                       *)
(***************************************************************************)
EXTENDS BasicGrower, MCPtrPool

\* Grown by one it is large enough for a tenth to be a place.
Large == Setting(9, FALSE, TRUE, 13, TRUE)

WithBasic == {Large}
FairAndBasic == FairSettings \cup WithBasic

\* Any answer for the others, and all that a BasicGrower may give.
BasicAnswers == 1 .. 10

=============================================================================
