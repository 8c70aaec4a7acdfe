----------------------------- MODULE LineInput ------------------------------
(***************************************************************************)
(* What console input promises: characters typed go to the line being      *)
(* edited, where they may be erased; a complete line (or a full buffer)    *)
(* goes to the queue that readers take from, in order.                     *)
(***************************************************************************)
EXTENDS Integers, Sequences

CONSTANTS Chars, Commits, Size

VARIABLES queue, editing

vars == <<queue, editing>>

Init == queue = <<>> /\ editing = <<>>

Type(c) ==
  /\ Len(queue) + Len(editing) < Size
  /\ LET all == Append(editing, c) IN
     IF c \in Commits \/ Len(queue) + Len(all) = Size
     THEN queue' = queue \o all /\ editing' = <<>>
     ELSE editing' = all /\ UNCHANGED queue

Erase == editing # <<>> /\ editing' = SubSeq(editing, 1, Len(editing) - 1) /\ UNCHANGED queue
Kill == editing' = <<>> /\ UNCHANGED queue
Take(n) == n <= Len(queue) /\ queue' = SubSeq(queue, n + 1, Len(queue)) /\ UNCHANGED editing

Next == (\E c \in Chars : Type(c)) \/ Erase \/ Kill \/ (\E n \in 1..Size : Take(n))

Spec == Init /\ [][Next]_vars
=============================================================================
