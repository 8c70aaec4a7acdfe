----------------------------- MODULE MCFileData -----------------------------
(* FileData with the bytes that are written.                               *)
EXTENDS FileData, TLC

Symm == Permutations(Procs)

Opened == [f \in Files |-> IF f = "f3" THEN "i2" ELSE "i1"]
SmallData == {<<2, 1, 1, 1>>}
=============================================================================
