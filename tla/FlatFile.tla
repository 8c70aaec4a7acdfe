------------------------------ MODULE FlatFile ------------------------------
(***************************************************************************)
(* What the content of an inode promises: a sequence of bytes of at most   *)
(* MaxSize, and open files that each keep a position in one.               *)
(***************************************************************************)
EXTENDS Integers, Sequences

CONSTANTS Files, Inodes, InodeOf,
          Strings,   \* what may be written at once
          MaxSize

VARIABLES content,  \* the bytes of each inode
          off,      \* the position of each open file
          ret       \* what the last read() returned, <<-1>> for -1

vars == <<content, off, ret>>

Init ==
  /\ content = [i \in Inodes |-> <<>>]
  /\ off = [f \in Files |-> 0]
  /\ ret = <<>>

\* Overwrite at the position, growing the content if need be.
Write(f, s) ==
  LET i == InodeOf[f]
      old == content[i]
      o == off[f]
      len == IF o + Len(s) > Len(old) THEN o + Len(s) ELSE Len(old)
  IN  /\ o + Len(s) <= MaxSize
      /\ content' = [content EXCEPT ![i] = [k \in 1..len |-> IF k \in o+1..o+Len(s) THEN s[k-o] ELSE old[k]]]
      /\ off' = [off EXCEPT ![f] = @ + Len(s)]
      /\ ret' = <<>>

Read(f, n) ==
  LET s == SubSeq(content[InodeOf[f]], off[f] + 1, off[f] + n)
  IN  /\ off[f] + n <= Len(content[InodeOf[f]])
      /\ ret' = s
      /\ off' = [off EXCEPT ![f] = @ + n]
      /\ UNCHANGED content

Fail == ret' = <<-1>> /\ UNCHANGED <<content, off>>

Remove(i) ==
  /\ content' = [content EXCEPT ![i] = <<>>]
  /\ off' = [f \in Files |-> IF InodeOf[f] = i THEN 0 ELSE off[f]]
  /\ ret' = <<>>

Next ==
  \/ \E f \in Files : (\E s \in Strings : Write(f, s)) \/ (\E n \in 0..MaxSize : Read(f, n))
  \/ \E i \in Inodes : Remove(i)
  \/ Fail

Spec == Init /\ [][Next]_vars
=============================================================================
