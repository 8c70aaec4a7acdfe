------------------------------ MODULE MCInodes ------------------------------
(* Inodes with small trees and the calls that meet in them.                *)
EXTENDS Inodes

Abs(e) == [abs |-> TRUE, elems |-> e]
Rel(e) == [abs |-> FALSE, elems |-> e]
Make(t, path) == [op |-> "create", type |-> t, path |-> path]
Unlink(path) == [op |-> "unlink", path |-> path]
Open(path, mode) == [op |-> "open", path |-> path, mode |-> mode]
Chdir(path) == [op |-> "chdir", path |-> path]
LinkTo(old, new) == [op |-> "link", path |-> old, new |-> new]

MCNames == {".", "..", "a", "b"}

\* 1 is /, 2 is /a and 3 is /a/b, directories, 4 is /b and a file; 5 is free.
TreeType == [i \in Inums |-> CASE i <= 3 -> "DIR" [] i = 4 -> "FILE" [] OTHER -> "FREE"]
TreeDir ==
  [i \in Inums |-> CASE i = 1 -> [NoDir EXCEPT !["."] = 1, ![".."] = 1, !["a"] = 2, !["b"] = 4]
                    [] i = 2 -> [NoDir EXCEPT !["."] = 2, ![".."] = 1, !["b"] = 3]
                    [] i = 3 -> [NoDir EXCEPT !["."] = 3, ![".."] = 2]
                    [] OTHER -> NoDir]

\* Files and directories come and go, by names that are linked, removed, made
\* again, walked through and made current meanwhile.
MixedCalls ==
  {Make("FILE", Rel(<<"b">>)), Make("DIR", Rel(<<"b">>)),
   Unlink(Abs(<<"a">>)), Unlink(Abs(<<"b">>)), Unlink(Abs(<<"a", "b">>)), Unlink(Abs(<<"..">>)), Unlink(Abs(<<>>)),
   LinkTo(Abs(<<"b">>), Abs(<<"a">>)), Open(Abs(<<"a">>), "w"),
   Chdir(Abs(<<"a", "b">>)), Open(Rel(<<"..", ".">>), "r")}
=============================================================================
