------------------------------- MODULE MCPipe -------------------------------
(* Pipe with processes as model values.                                    *)
EXTENDS Pipe
=============================================================================
