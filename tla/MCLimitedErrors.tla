-------------------------- MODULE MCLimitedErrors --------------------------
(***************************************************************************)
(* Instances of LimitedErrors for TLC.                                     *)
(***************************************************************************)
EXTENDS LimitedErrors, TLC

=============================================================================
