------------------------------- MODULE MCBio --------------------------------
(* Bio with processes and blocks as model values.                          *)
EXTENDS Bio, TLC

Symm == Permutations(Procs) \cup Permutations(Blocks \ (Body \cup Indirect))
=============================================================================
