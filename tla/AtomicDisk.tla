----------------------------- MODULE AtomicDisk -----------------------------
(***************************************************************************)
(* What the logging layer promises to the file system calls above it: the  *)
(* blocks a call writes between begin_op() and end_op() reach the stable   *)
(* disk together or not at all, at a moment when no call is in progress,   *)
(* and a crash falls back to exactly what was stable.                      *)
(***************************************************************************)
CONSTANTS Procs, Home, Data, Zero

VARIABLES mem,      \* what reading a block returns to a running call
          stable,   \* what survives a crash
          active    \* calls between begin_op and end_op

vars == <<mem, stable, active>>

Init ==
  /\ mem = [b \in Home |-> Zero]
  /\ stable = mem
  /\ active = {}

Begin(p) ==
  /\ p \notin active
  /\ active' = active \cup {p}
  /\ UNCHANGED <<mem, stable>>

Write(p, b, v) ==
  /\ p \in active
  /\ mem' = [mem EXCEPT ![b] = v]
  /\ UNCHANGED <<stable, active>>

End(p) ==
  /\ p \in active
  /\ active' = active \ {p}
  /\ UNCHANGED <<mem, stable>>

\* All finished calls become durable in one step, and no unfinished one does.
Commit ==
  /\ active = {}
  /\ stable' = mem
  /\ UNCHANGED <<mem, active>>

Crash ==
  /\ mem' = stable
  /\ active' = {}
  /\ UNCHANGED stable

Next ==
  \/ \E p \in Procs : Begin(p) \/ End(p)
  \/ \E p \in Procs, b \in Home, v \in Data : Write(p, b, v)
  \/ Commit
  \/ Crash

Spec == Init /\ [][Next]_vars
=============================================================================
