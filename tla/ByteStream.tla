----------------------------- MODULE ByteStream -----------------------------
(***************************************************************************)
(* What a pipe promises: a bounded first-in first-out stream of bytes.  A  *)
(* read returns the oldest bytes, at least one of them, and 0 only at the  *)
(* end of the stream: no bytes left and no writer to come.                 *)
(***************************************************************************)
EXTENDS Integers, Sequences

CONSTANTS Procs, Bytes, Capacity

VARIABLES q,      \* bytes written and not yet returned by a read
          wopen,  \* the write end is open
          ret     \* what read() returned: <<-1>>, or the count and the bytes;
                  \* <<>> in a process that has not returned from one

vars == <<q, wopen, ret>>

Init == q = <<>> /\ wopen = TRUE /\ ret = [p \in Procs |-> <<>>]

Put(b) == wopen /\ Len(q) < Capacity /\ q' = Append(q, b) /\ UNCHANGED <<wopen, ret>>

Call(p) == ret' = [ret EXCEPT ![p] = <<>>] /\ UNCHANGED <<q, wopen>>

Take(p, k) ==
  /\ ret[p] = <<>>
  /\ ret' = [ret EXCEPT ![p] = <<k>> \o SubSeq(q, 1, k)]
  /\ q' = SubSeq(q, k + 1, Len(q))
  /\ UNCHANGED wopen

Eof(p) ==
  /\ ret[p] = <<>> /\ q = <<>> /\ ~wopen
  /\ ret' = [ret EXCEPT ![p] = <<0>>]
  /\ UNCHANGED <<q, wopen>>

Fail(p) ==
  /\ ret[p] = <<>>
  /\ ret' = [ret EXCEPT ![p] = <<-1>>]
  /\ UNCHANGED <<q, wopen>>

Close == wopen' = FALSE /\ UNCHANGED <<q, ret>>

Next ==
  \/ \E b \in Bytes : Put(b)
  \/ \E p \in Procs : Call(p) \/ Eof(p) \/ Fail(p) \/ \E k \in 1..Len(q) : Take(p, k)
  \/ Close

Spec == Init /\ [][Next]_vars
=============================================================================
