------------------------------ MODULE MCFiles -------------------------------
(* Files with its tables as sets of model values.                          *)
EXTENDS Files, TLC

Symm == Permutations(Files) \cup Permutations(Procs \ {InitProc}) \cup Permutations(Pipes)
=============================================================================
