--------------------------- MODULE MCServiceHealth ---------------------------
(***************************************************************************)
(* Instances of ServiceHealth for TLC.                                     *)
(***************************************************************************)
EXTENDS ServiceHealth

AllOperations == Operation
=============================================================================
