------------------------------- MODULE Absence -------------------------------
(***************************************************************************)
(* None stands for what is not there: a null column, a field that a body   *)
(* leaves out, a row that does not exist, a request that is not made.      *)
(***************************************************************************)
CONSTANT None
=============================================================================
