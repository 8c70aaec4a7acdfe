----------------------------- MODULE MCConsole ------------------------------
(* Console with two readers.                                               *)
EXTENDS Console
=============================================================================
