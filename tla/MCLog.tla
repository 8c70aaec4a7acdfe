------------------------------- MODULE MCLog --------------------------------
(* Log with processes as model values.                                      *)
EXTENDS Log
=============================================================================
