-------------------------- MODULE ProcFamilyProofs --------------------------
(***************************************************************************)
(* The slots of processes being created, what follows from the lock        *)
(* discipline and the ownership of slots together, and what wait(), kill() *)
(* and sleep() rely on, for every number of slots and CPUs: parents        *)
(* outlive their children, pids are unique, no sleeper misses its wakeup.  *)
(***************************************************************************)
EXTENDS ProcProofs

\* Leaves that name no prover are Zenon's.
USE Zenon

(***************************************************************************)
(* Slots being created                                                     *)
(***************************************************************************)
\* Where p is as far as fork() is concerned: a step keeps the processes in
\* fork() where they are.
ForkKept ==
  \A r \in Procs :
    /\ Forking(r)' <=> Forking(r)
    /\ Forking(r) => Loc(r)' = Loc(r) /\ np'[r] = np[r] /\ np[r] \in Procs

\* A step outside fork() keeps ForkInv if it leaves the processes in fork()
\* there, and their slots alone.
LEMMA ForkFrame ==
  ASSUME ForkInv, ForkKept,
         \A q \in Procs : state'[q] = "EMBRYO" <=> state[q] = "EMBRYO",
         \A q \in Procs : state[q] = "EMBRYO" =>
           kstack'[q] = kstack[q] /\ parent'[q] = parent[q] /\ pc'[q] = pc[q],
         UnusedClean', StackOK'
  PROVE  ForkInv'
<1>1. ASSUME NEW p \in Procs, Forking(p)' PROVE ChildOK(p, np[p])'
  <2>1. Forking(p) /\ ChildOK(p, np[p]) /\ np'[p] = np[p] /\ np[p] \in Procs /\ Loc(p)' = Loc(p)
    BY <1>1 DEF ForkInv, ForkChild, ForkKept
  <2>2. /\ state'[np[p]] = "EMBRYO" /\ kstack'[np[p]] = kstack[np[p]]
        /\ parent'[np[p]] = parent[np[p]] /\ pc'[np[p]] = pc[np[p]]
    BY <2>1 DEF ChildOK
  <2>3. QED
    BY <2>1, <2>2 DEF ChildOK
<1>2. ForkDistinct'
  BY DEF ForkInv, ForkDistinct, ForkKept
<1>3. EmbryoOwned'
  BY SMT DEF ForkInv, EmbryoOwned, ForkKept
<1>4. QED
  BY <1>1, <1>2, <1>3 DEF ForkInv, ForkChild

\* A running process outside fork() moves to l, outside fork(), and no slot changes.
LEMMA ForkLocal ==
  ASSUME TypeOK, CpuInv, ForkInv, NEW p \in Procs, state[p] = "RUNNING", Loc(p) \notin ForkLocs,
         NEW l, l \notin ForkLocs \cup {"yield_ret"},
         pc' = [pc EXCEPT ![p] = l], UNCHANGED <<state, kstack, parent, back, np>>
  PROVE  ForkInv'
<1>1. ForkKept
  BY DEF ForkKept, Forking, Live, Loc, TypeOK
<1>2. \A q \in Procs : state[q] = "EMBRYO" => pc'[q] = pc[q]
  BY DEF TypeOK
<1>3. UnusedClean' /\ StackOK'
  BY DEF ForkInv, UnusedClean, StackOK, Live
<1>4. QED
  BY <1>1, <1>2, <1>3, ForkFrame

\* A step that changes no slot and no location.
LEMMA ForkUnchanged ==
  ASSUME TypeOK, ForkInv, UNCHANGED <<state, kstack, parent, pc, back, np>>
  PROVE  ForkInv'
<1>1. ForkKept
  BY DEF ForkKept, Forking, Live, Loc, TypeOK
<1>2. UnusedClean' /\ StackOK'
  BY DEF ForkInv, UnusedClean, StackOK, Live
<1>3. QED
  BY <1>1, <1>2, ForkFrame

\* Only slots that are not EMBRYO change, among the live states or to ZOMBIE
\* or UNUSED, and p leaves a place outside fork() for another one.
LEMMA ForkTable ==
  ASSUME TypeOK, CpuInv, ForkInv, NEW p \in Procs, Loc(p) \notin ForkLocs,
         NEW l, l \notin ForkLocs \cup {"yield_ret"}, state[p] # "EMBRYO", state'[p] # "EMBRYO",
         pc' = [pc EXCEPT ![p] = l], UNCHANGED <<back, np>>,
         \A r \in Procs : state[r] = "EMBRYO" => state'[r] = state[r] /\ kstack'[r] = kstack[r] /\ parent'[r] = parent[r],
         \A r \in Procs : r # p /\ state[r] # "EMBRYO" => state'[r] # "EMBRYO" /\ (Live(r)' <=> Live(r)),
         UnusedClean', StackOK'
  PROVE  ForkInv'
<1>1. ForkKept
  BY DEF ForkKept, Forking, Live, Loc, TypeOK
<1>2. \A q \in Procs : state[q] = "EMBRYO" => pc'[q] = pc[q]
  BY DEF TypeOK
<1>3. QED
  BY <1>1, <1>2, ForkFrame

\* Every step keeps the ownership of slots: one case per action.
LEMMA ForkNext == TypeOK /\ CpuInv /\ ForkInv /\ [Next]_vars => ForkInv'
<1> SUFFICES ASSUME TypeOK, CpuInv, ForkInv, [Next]_vars PROVE ForkInv'
  OBVIOUS
<1>1. ASSUME NEW c \in CPUs, NEW p \in Procs, fork_none(c, p) PROVE ForkInv'
  <2>1. state[p] = "RUNNING" /\ Loc(p) \notin ForkLocs /\ "ret" \notin ForkLocs \cup {"yield_ret"}
    BY <1>1 DEF fork_none, Syscall, On, Loc, ForkLocs
  <2> QED
    BY <1>1, <2>1, ForkLocal DEF fork_none, Syscall, Goto, table, frame
<1>2. ASSUME NEW c \in CPUs, NEW p \in Procs, NEW q \in Procs, fork_alloc(c, p, q) PROVE ForkInv'
  <2>1. On(c, p) /\ pc[p] = "user" /\ state[q] = "UNUSED" /\ q # p
    BY <1>2 DEF fork_alloc, Syscall, On, IsFirst, Unused
  <2>2. /\ state' = [state EXCEPT ![q] = "EMBRYO"] /\ np' = [np EXCEPT ![p] = q]
        /\ pc' = [pc EXCEPT ![p] = "fork_kstack"] /\ UNCHANGED <<parent, kstack, back>>
    BY <1>2 DEF fork_alloc, Goto
  <2>3. \A r \in Procs : r # p => (Forking(r)' <=> Forking(r)) /\ np'[r] = np[r] /\ np[r] \in Procs
                                  /\ Loc(r)' = Loc(r)
    BY <2>1, <2>2 DEF Forking, Live, Loc, ForkLocs, TypeOK
  <2>4. Forking(p)' /\ np'[p] = q /\ Loc(p)' = "fork_kstack"
    BY <2>1, <2>2 DEF On, Forking, Live, Loc, ForkLocs, TypeOK
  <2>5. \A r \in Procs : Forking(r) => np[r] # q /\ np[r] # p
    BY <2>1 DEF On, ForkInv, ForkChild, ChildOK
  <2>6. ASSUME NEW r \in Procs, Forking(r)' PROVE ChildOK(r, np[r])'
    <3>1. CASE r = p
      BY <2>1, <2>2, <2>4, <3>1 DEF ChildOK, TypeOK, ForkInv, UnusedClean
    <3>2. CASE r # p
      BY SMT, <2>2, <2>3, <2>5, <2>6, <3>2 DEF ChildOK, TypeOK, ForkInv, ForkChild
    <3>3. QED
      BY <3>1, <3>2
  <2>7. ForkDistinct'
    BY <2>3, <2>4, <2>5 DEF ForkInv, ForkDistinct
  <2>8. EmbryoOwned'
    <3>1. \A r \in Procs : r # q => state'[r] = state[r]
      BY <2>2 DEF TypeOK
    <3>2. ASSUME NEW s \in Procs, s # q, state'[s] = "EMBRYO"
          PROVE  \E r \in Procs : Forking(r)' /\ np'[r] = s
      <4>1. PICK r \in Procs : Forking(r) /\ np[r] = s
        BY <3>1, <3>2 DEF ForkInv, EmbryoOwned
      <4>2. r # p
        BY <2>1, <4>1 DEF Forking, Loc, ForkLocs
      <4>3. QED
        BY <2>3, <4>1, <4>2
    <3>3. QED
      BY <2>4, <3>2 DEF EmbryoOwned
  <2>9. UnusedClean' /\ StackOK'
    BY <2>1, <2>2 DEF ForkInv, UnusedClean, StackOK, Live, TypeOK
  <2> QED
    BY <2>6, <2>7, <2>8, <2>9 DEF ForkInv, ForkChild
<1>3. ASSUME NEW c \in CPUs, NEW p \in Procs, sys_exit(c, p) PROVE ForkInv'
  <2>1. state[p] = "RUNNING" /\ Loc(p) \notin ForkLocs /\ "exit" \notin ForkLocs \cup {"yield_ret"}
    BY <1>3 DEF sys_exit, On, Loc, ForkLocs
  <2> QED
    BY <1>3, <2>1, ForkLocal DEF sys_exit, Goto, table, frame
<1>4. ASSUME NEW c \in CPUs, NEW p \in Procs, NEW k \in KillPids, sys_kill(c, p, k) PROVE ForkInv'
  <2>1. /\ state[p] = "RUNNING" /\ Loc(p) \notin ForkLocs
        /\ "ret" \notin ForkLocs \cup {"yield_ret"}
        /\ pc' = [pc EXCEPT ![p] = "ret"] /\ UNCHANGED <<back, np>> /\ UNCHANGED <<kstack, parent>>
    BY <1>4 DEF sys_kill, Syscall, On, Loc, ForkLocs, Goto, frame
  <2>2. \A r \in Procs : state'[r] = state[r] \/ (state[r] = "SLEEPING" /\ state'[r] = "RUNNABLE")
    BY <1>4 DEF sys_kill
  <2>3. /\ state'[p] # "EMBRYO"
        /\ \A r \in Procs : state[r] = "EMBRYO" =>
             state'[r] = state[r] /\ kstack'[r] = kstack[r] /\ parent'[r] = parent[r]
        /\ \A r \in Procs : r # p /\ state[r] # "EMBRYO" => state'[r] # "EMBRYO" /\ (Live(r)' <=> Live(r))
    BY <2>1, <2>2 DEF Live, TypeOK
  <2>4. UnusedClean' /\ StackOK'
    BY SMT, <2>1, <2>2 DEF ForkInv, UnusedClean, StackOK, Live, TypeOK
  <2> QED
    BY <2>1, <2>3, <2>4, ForkTable
<1>5. ASSUME NEW c \in CPUs, NEW p \in Procs, NEW n \in SleepArgs, sys_sleep(c, p, n) PROVE ForkInv'
  <2>1. /\ state[p] = "RUNNING" /\ Loc(p) \notin ForkLocs
        /\ {"ret", "sleep_sw"} \cap (ForkLocs \cup {"yield_ret"}) = {}
    BY <1>5 DEF sys_sleep, Syscall, On, Loc, ForkLocs
  <2>2. /\ UNCHANGED <<state, kstack, parent, back, np>>
        /\ pc' = [pc EXCEPT ![p] = "ret"] \/ pc' = [pc EXCEPT ![p] = "sleep_sw"]
    BY <1>5 DEF sys_sleep, SleepTest, Goto, table
  <2> QED
    BY <2>1, <2>2, ForkLocal
<1>6. ASSUME NEW c \in CPUs, NEW p \in Procs, trap_fault(c, p) PROVE ForkInv'
  <2>1. state[p] = "RUNNING" /\ Loc(p) \notin ForkLocs /\ "exit" \notin ForkLocs \cup {"yield_ret"}
    BY <1>6 DEF trap_fault, On, Loc, ForkLocs
  <2> QED
    BY <1>6, <2>1, ForkLocal DEF trap_fault, Goto, table, frame
<1>7. ASSUME NEW c \in CPUs, NEW p \in Procs, NEW q \in Procs, wait_reap(c, p, q) PROVE ForkInv'
  <2>1. /\ state[p] = "RUNNING" /\ Loc(p) \notin ForkLocs
        /\ "ret" \notin ForkLocs \cup {"yield_ret"}
        /\ pc' = [pc EXCEPT ![p] = "ret"] /\ UNCHANGED <<back, np>>
        /\ state' = [state EXCEPT ![q] = "UNUSED"] /\ parent' = [parent EXCEPT ![q] = 0]
        /\ kstack' = [kstack EXCEPT ![q] = FALSE]
    BY <1>7 DEF wait_reap, InWait, Syscall, On, Loc, ForkLocs, Goto, frame
  <2>2. state[q] = "ZOMBIE" /\ q # p
    BY <1>7, <2>1 DEF wait_reap, IsFirst, Zombies
  <2>3. /\ state'[p] # "EMBRYO"
        /\ \A r \in Procs : state[r] = "EMBRYO" =>
             state'[r] = state[r] /\ kstack'[r] = kstack[r] /\ parent'[r] = parent[r]
        /\ \A r \in Procs : r # p /\ state[r] # "EMBRYO" => state'[r] # "EMBRYO" /\ (Live(r)' <=> Live(r))
    BY <2>1, <2>2 DEF Live, TypeOK
  <2>4. UnusedClean' /\ StackOK'
    BY <2>1, <2>2 DEF ForkInv, UnusedClean, StackOK, Live, TypeOK
  <2> QED
    BY <2>1, <2>3, <2>4, ForkTable
<1>8. ASSUME NEW c \in CPUs, NEW p \in Procs, wait_fail(c, p) PROVE ForkInv'
  <2>1. state[p] = "RUNNING" /\ Loc(p) \notin ForkLocs /\ "ret" \notin ForkLocs \cup {"yield_ret"}
    BY <1>8 DEF wait_fail, InWait, Syscall, On, Loc, ForkLocs
  <2> QED
    BY <1>8, <2>1, ForkLocal DEF wait_fail, InWait, Syscall, Goto, table, frame
<1>9. ASSUME NEW c \in CPUs, NEW p \in Procs, wait_sleep(c, p) PROVE ForkInv'
  <2>1. /\ state[p] = "RUNNING" /\ Loc(p) \notin ForkLocs
        /\ "wait_ret" \notin ForkLocs \cup {"yield_ret"}
        /\ pc' = [pc EXCEPT ![p] = "wait_ret"] /\ UNCHANGED <<back, np>>
        /\ state' = [state EXCEPT ![p] = "SLEEPING"] /\ UNCHANGED <<kstack, parent>>
    BY <1>9 DEF wait_sleep, InWait, Syscall, On, Loc, ForkLocs, Goto, frame
  <2>3. /\ state'[p] # "EMBRYO"
        /\ \A r \in Procs : state[r] = "EMBRYO" =>
             state'[r] = state[r] /\ kstack'[r] = kstack[r] /\ parent'[r] = parent[r]
        /\ \A r \in Procs : r # p /\ state[r] # "EMBRYO" => state'[r] # "EMBRYO" /\ (Live(r)' <=> Live(r))
    BY <2>1 DEF Live, TypeOK
  <2>4. UnusedClean' /\ StackOK'
    BY <2>1 DEF ForkInv, UnusedClean, StackOK, Live, TypeOK
  <2> QED
    BY ZenonT(40), <2>1, <2>3, <2>4, ForkTable
<1>10. ASSUME NEW c \in CPUs, NEW p \in Procs, fork_kstack(c, p) PROVE ForkInv'
  <2>1. /\ Forking(p) /\ Loc(p) = pc[p] /\ ChildOK(p, np[p]) /\ np[p] \in Procs /\ np[p] # p
        /\ pc[p] = "fork_kstack"
    BY <1>10
    DEF fork_kstack, On, Forking, Live, Loc, ForkLocs, ForkInv, ForkChild, ChildOK, TypeOK
  <2>2. /\ kstack' = [kstack EXCEPT ![np[p]] = TRUE]
        /\ pc' = [pc EXCEPT ![p] = "fork_copy", ![np[p]] = "forkret"]
        /\ UNCHANGED <<state, parent, back, np>>
    BY <1>10 DEF fork_kstack, Goto, frame
  <2>3. \A r \in Procs : r # p => np[r] # np[p] \/ ~Forking(r)
    BY <2>1 DEF ForkInv, ForkDistinct
  <2>4. Forking(p)' /\ Loc(p)' = "fork_copy"
    BY <2>1, <2>2 DEF Forking, Live, Loc, ForkLocs, TypeOK
  <2>5. \A r \in Procs : r # p /\ state[r] # "EMBRYO" =>
          (Forking(r)' <=> Forking(r)) /\ Loc(r)' = Loc(r)
    BY <2>1, <2>2 DEF Forking, Live, Loc, ChildOK, TypeOK
  <2>6. \A r \in Procs : state[r] = "EMBRYO" => ~Forking(r) /\ ~Forking(r)'
    BY <2>2 DEF Forking, Live
  <2>7. ASSUME NEW r \in Procs, Forking(r)' PROVE ChildOK(r, np[r])'
    <3>1. CASE r = p
      BY <2>1, <2>2, <2>4, <3>1 DEF ChildOK, TypeOK
    <3>2. CASE r # p
      <4>1. /\ Forking(r) /\ Loc(r)' = Loc(r) /\ np[r] # np[p] /\ np[r] # p
            /\ np[r] \in Procs /\ ChildOK(r, np[r])
        <5>1. Forking(r) /\ Loc(r)' = Loc(r)
          BY <2>5, <2>6, <2>7, <3>2
        <5>2. np[r] # np[p] /\ np[r] \in Procs /\ ChildOK(r, np[r])
          BY <2>3, <3>2, <5>1, Types DEF ForkInv, ForkChild
        <5>3. state[p] # "EMBRYO" /\ state[np[r]] = "EMBRYO"
          BY <2>1, <5>2 DEF ChildOK, Forking, Live
        <5>4. QED
          BY <5>1, <5>2, <5>3
      <4>2. QED
        BY <2>2, <4>1 DEF ChildOK, TypeOK
    <3>3. QED
      BY <3>1, <3>2
  <2>8. \A r \in Procs : Forking(r)' <=> Forking(r)
    BY <2>1, <2>4, <2>5, <2>6
  <2>9. ForkDistinct'
    BY <2>2, <2>8 DEF ForkInv, ForkDistinct
  <2>10. EmbryoOwned'
    BY <2>2, <2>8 DEF ForkInv, EmbryoOwned
  <2>11. UnusedClean' /\ StackOK'
    BY <2>1, <2>2 DEF ForkInv, UnusedClean, StackOK, Live, ChildOK, TypeOK
  <2> QED
    BY <2>7, <2>9, <2>10, <2>11 DEF ForkInv, ForkChild
<1>11. ASSUME NEW c \in CPUs, NEW p \in Procs, fork_fail(c, p) PROVE ForkInv'
  <2>1. /\ Forking(p) /\ Loc(p) = pc[p] /\ ChildOK(p, np[p]) /\ np[p] \in Procs /\ np[p] # p
        /\ pc[p] \in {"fork_kstack", "fork_copy"}
    BY <1>11
    DEF fork_fail, On, Forking, Live, Loc, ForkLocs, ForkInv, ForkChild, ChildOK, TypeOK
  <2>2. /\ kstack' = [kstack EXCEPT ![np[p]] = FALSE]
        /\ state' = [state EXCEPT ![np[p]] = "UNUSED"]
        /\ np' = [np EXCEPT ![p] = p] /\ pc' = [pc EXCEPT ![p] = "ret"]
        /\ UNCHANGED <<parent, back>>
    BY <1>11 DEF fork_fail, Goto
  <2>3. \A r \in Procs : r # p /\ Forking(r) => np[r] # np[p]
    BY <2>1 DEF ForkInv, ForkDistinct
  <2>4. ~Forking(p)'
    BY <2>1, <2>2 DEF Forking, Loc, ForkLocs, TypeOK
  <2>5. ~Forking(np[p]) /\ state'[np[p]] = "UNUSED"
    BY <2>1, <2>2 DEF Forking, Live, ChildOK, TypeOK
  <2>n. ASSUME NEW r \in Procs, r = np[p] PROVE ~Forking(r)'
    BY <2>1, <2>2, <2>n DEF Forking, Live, Loc, ForkLocs, ChildOK, TypeOK
  <2>6. \A r \in Procs : r # p /\ r # np[p] =>
          /\ Forking(r)' <=> Forking(r)
          /\ Loc(r)' = Loc(r) /\ np'[r] = np[r] /\ state'[r] = state[r]
          /\ kstack'[r] = kstack[r] /\ parent'[r] = parent[r] /\ pc'[r] = pc[r]
    BY <2>1, <2>2 DEF Forking, Live, Loc, TypeOK
  <2>7. ASSUME NEW r \in Procs, Forking(r)'
        PROVE  ChildOK(r, np[r])' /\ Forking(r) /\ np'[r] = np[r] /\ r # p
    <3>1. r # p /\ r # np[p] /\ Forking(r)
      BY <2>4, <2>6, <2>7, <2>n
    <3>2. np[r] # np[p] /\ np[r] # p /\ np[r] \in Procs /\ ChildOK(r, np[r])
      BY <2>1, <2>3, <3>1 DEF ForkInv, ForkChild, ChildOK, Forking, Live, TypeOK
    <3>3. Loc(r)' = Loc(r) /\ np'[r] = np[r]
      BY <2>6, <3>1
    <3>4. /\ state'[np[r]] = state[np[r]] /\ kstack'[np[r]] = kstack[np[r]]
          /\ parent'[np[r]] = parent[np[r]] /\ pc'[np[r]] = pc[np[r]]
      BY <2>6, <3>2
    <3>5. ChildOK(r, np[r])'
      BY <3>2, <3>3, <3>4 DEF ChildOK
    <3>6. QED
      BY <3>1, <3>3, <3>5
  <2>8. ForkDistinct'
    BY <2>7 DEF ForkInv, ForkDistinct
  <2>9. EmbryoOwned'
    <3>1. ASSUME NEW s \in Procs, state'[s] = "EMBRYO"
          PROVE  \E r \in Procs : Forking(r)' /\ np'[r] = s
      <4>1. s # np[p] /\ state[s] = "EMBRYO"
        BY <2>1, <2>2, <2>5, <3>1 DEF TypeOK
      <4>2. PICK r \in Procs : Forking(r) /\ np[r] = s
        BY <4>1 DEF ForkInv, EmbryoOwned
      <4>3. r # p /\ r # np[p]
        BY <2>5, <4>1, <4>2
      <4>4. QED
        BY <2>6, <4>2, <4>3
    <3>2. QED
      BY <3>1 DEF EmbryoOwned
  <2>10. UnusedClean' /\ StackOK'
    BY <2>1, <2>2 DEF ForkInv, UnusedClean, StackOK, Live, ChildOK, TypeOK
  <2> QED
    BY <2>7, <2>8, <2>9, <2>10 DEF ForkInv, ForkChild
<1>12. ASSUME NEW c \in CPUs, NEW p \in Procs, fork_copy(c, p) PROVE ForkInv'
  <2>1. /\ Forking(p) /\ Loc(p) = pc[p] /\ ChildOK(p, np[p]) /\ np[p] \in Procs /\ np[p] # p
        /\ pc[p] = "fork_copy"
    BY <1>12
    DEF fork_copy, On, Forking, Live, Loc, ForkLocs, ForkInv, ForkChild, ChildOK, TypeOK
  <2>2. /\ parent' = [parent EXCEPT ![np[p]] = p]
        /\ pc' = [pc EXCEPT ![p] = "fork_run"]
        /\ UNCHANGED <<state, kstack, back, np>>
    BY <1>12 DEF fork_copy, Goto, frame
  <2>3. \A r \in Procs : r # p => np[r] # np[p] \/ ~Forking(r)
    BY <2>1 DEF ForkInv, ForkDistinct
  <2>4. Forking(p)' /\ Loc(p)' = "fork_run"
    BY <2>1, <2>2 DEF Forking, Live, Loc, ForkLocs, TypeOK
  <2>5. \A r \in Procs : r # p /\ state[r] # "EMBRYO" =>
          (Forking(r)' <=> Forking(r)) /\ Loc(r)' = Loc(r)
    BY <2>1, <2>2 DEF Forking, Live, Loc, ChildOK, TypeOK
  <2>6. \A r \in Procs : state[r] = "EMBRYO" => ~Forking(r) /\ ~Forking(r)'
    BY <2>2 DEF Forking, Live
  <2>7. ASSUME NEW r \in Procs, Forking(r)' PROVE ChildOK(r, np[r])'
    <3>1. CASE r = p
      BY <2>1, <2>2, <2>4, <3>1 DEF ChildOK, TypeOK
    <3>2. CASE r # p
      <4>1. /\ Forking(r) /\ Loc(r)' = Loc(r) /\ np[r] # np[p] /\ np[r] # p
            /\ np[r] \in Procs /\ ChildOK(r, np[r])
        <5>1. Forking(r) /\ Loc(r)' = Loc(r)
          BY <2>5, <2>6, <2>7, <3>2
        <5>2. np[r] # np[p] /\ np[r] \in Procs /\ ChildOK(r, np[r])
          BY <2>3, <3>2, <5>1, Types DEF ForkInv, ForkChild
        <5>3. state[p] # "EMBRYO" /\ state[np[r]] = "EMBRYO"
          BY <2>1, <5>2 DEF ChildOK, Forking, Live
        <5>4. QED
          BY <5>1, <5>2, <5>3
      <4>2. QED
        BY <2>2, <4>1 DEF ChildOK, TypeOK
    <3>3. QED
      BY <3>1, <3>2
  <2>8. \A r \in Procs : Forking(r)' <=> Forking(r)
    BY <2>1, <2>4, <2>5, <2>6
  <2>9. ForkDistinct'
    BY <2>2, <2>8 DEF ForkInv, ForkDistinct
  <2>10. EmbryoOwned'
    BY <2>2, <2>8 DEF ForkInv, EmbryoOwned
  <2>11. UnusedClean' /\ StackOK'
    BY <2>1, <2>2 DEF ForkInv, UnusedClean, StackOK, Live, ChildOK, TypeOK
  <2> QED
    BY <2>7, <2>9, <2>10, <2>11 DEF ForkInv, ForkChild
<1>13. ASSUME NEW c \in CPUs, NEW p \in Procs, fork_run(c, p) PROVE ForkInv'
  <2>1. /\ Forking(p) /\ Loc(p) = pc[p] /\ ChildOK(p, np[p]) /\ np[p] \in Procs /\ np[p] # p
        /\ pc[p] \in {"fork_run"}
    BY <1>13
    DEF fork_run, On, Forking, Live, Loc, ForkLocs, ForkInv, ForkChild, ChildOK, TypeOK
  <2>2. /\ state' = [state EXCEPT ![np[p]] = "RUNNABLE"]
        /\ np' = [np EXCEPT ![p] = p] /\ pc' = [pc EXCEPT ![p] = "ret"]
        /\ UNCHANGED <<parent, kstack, back>>
    BY <1>13 DEF fork_run, Goto
  <2>3. \A r \in Procs : r # p /\ Forking(r) => np[r] # np[p]
    BY <2>1 DEF ForkInv, ForkDistinct
  <2>4. ~Forking(p)'
    BY <2>1, <2>2 DEF Forking, Loc, ForkLocs, TypeOK
  <2>5. ~Forking(np[p]) /\ state'[np[p]] = "RUNNABLE"
    BY <2>1, <2>2 DEF Forking, Live, ChildOK, TypeOK
  <2>n. ASSUME NEW r \in Procs, r = np[p] PROVE ~Forking(r)'
    BY <2>1, <2>2, <2>n DEF Forking, Live, Loc, ForkLocs, ChildOK, TypeOK
  <2>6. \A r \in Procs : r # p /\ r # np[p] =>
          /\ Forking(r)' <=> Forking(r)
          /\ Loc(r)' = Loc(r) /\ np'[r] = np[r] /\ state'[r] = state[r]
          /\ kstack'[r] = kstack[r] /\ parent'[r] = parent[r] /\ pc'[r] = pc[r]
    BY <2>1, <2>2 DEF Forking, Live, Loc, TypeOK
  <2>7. ASSUME NEW r \in Procs, Forking(r)'
        PROVE  ChildOK(r, np[r])' /\ Forking(r) /\ np'[r] = np[r] /\ r # p
    <3>1. r # p /\ r # np[p] /\ Forking(r)
      BY <2>4, <2>6, <2>7, <2>n
    <3>2. np[r] # np[p] /\ np[r] # p /\ np[r] \in Procs /\ ChildOK(r, np[r])
      BY <2>1, <2>3, <3>1 DEF ForkInv, ForkChild, ChildOK, Forking, Live, TypeOK
    <3>3. Loc(r)' = Loc(r) /\ np'[r] = np[r]
      BY <2>6, <3>1
    <3>4. /\ state'[np[r]] = state[np[r]] /\ kstack'[np[r]] = kstack[np[r]]
          /\ parent'[np[r]] = parent[np[r]] /\ pc'[np[r]] = pc[np[r]]
      BY <2>6, <3>2
    <3>5. ChildOK(r, np[r])'
      BY <3>2, <3>3, <3>4 DEF ChildOK
    <3>6. QED
      BY <3>1, <3>3, <3>5
  <2>8. ForkDistinct'
    BY <2>7 DEF ForkInv, ForkDistinct
  <2>9. EmbryoOwned'
    <3>1. ASSUME NEW s \in Procs, state'[s] = "EMBRYO"
          PROVE  \E r \in Procs : Forking(r)' /\ np'[r] = s
      <4>1. s # np[p] /\ state[s] = "EMBRYO"
        BY <2>1, <2>2, <2>5, <3>1 DEF TypeOK
      <4>2. PICK r \in Procs : Forking(r) /\ np[r] = s
        BY <4>1 DEF ForkInv, EmbryoOwned
      <4>3. r # p /\ r # np[p]
        BY <2>5, <4>1, <4>2
      <4>4. QED
        BY <2>6, <4>2, <4>3
    <3>2. QED
      BY <3>1 DEF EmbryoOwned
  <2>10. UnusedClean' /\ StackOK'
    <3>1. /\ kstack[np[p]] /\ state'[np[p]] # "UNUSED"
          /\ \A r \in Procs : r # np[p] => state'[r] = state[r]
      BY <2>1, <2>2, Types DEF ChildOK
    <3>2. QED
      BY <2>2, <3>1 DEF ForkInv, UnusedClean, StackOK, Live
  <2> QED
    BY <2>7, <2>8, <2>9, <2>10 DEF ForkInv, ForkChild
<1>14. ASSUME NEW c \in CPUs, NEW p \in Procs, exit(c, p) PROVE ForkInv'
  <2>1. ~Forking(p) /\ p # 0 /\ state[p] = "RUNNING" /\ UNCHANGED <<kstack, pc, back, np>>
    BY SMT, <1>14 DEF exit, On, Forking, Loc, ForkLocs, Procs, frame
  <2>2. /\ state'[p] = "ZOMBIE"
        /\ \A r \in Procs : r # p => state'[r] = state[r] \/ (state[r] = "SLEEPING" /\ state'[r] = "RUNNABLE")
        /\ \A r \in Procs : parent[r] # p => parent'[r] = parent[r]
    BY <1>14 DEF exit
  <2>3. ASSUME NEW r \in Procs, state[r] = "EMBRYO" PROVE parent'[r] = parent[r]
    <3>1. PICK o \in Procs : Forking(o) /\ np[o] = r
      BY <2>3 DEF ForkInv, EmbryoOwned
    <3>2. parent[r] = IF Loc(o) = "fork_run" THEN o ELSE 0
      BY <3>1 DEF ForkInv, ForkChild, ChildOK
    <3>3. QED
      BY <2>1, <2>2, <3>1, <3>2
  <2>4. ForkKept
    BY <2>1, <2>2 DEF ForkKept, Forking, Live, Loc, TypeOK
  <2>5. \A r \in Procs : state'[r] = "EMBRYO" <=> state[r] = "EMBRYO"
    BY <2>1, <2>2
  <2>6. UnusedClean' /\ StackOK'
    BY <2>1, <2>2 DEF ForkInv, UnusedClean, StackOK, Live
  <2> QED
    BY <2>1, <2>3, <2>4, <2>5, <2>6, ForkFrame
<1>15. ASSUME NEW c \in CPUs, NEW p \in Procs, sleep_again(c, p) PROVE ForkInv'
  <2>1. /\ state[p] = "RUNNING" /\ Loc(p) \notin ForkLocs
        /\ {"ret", "sleep_sw"} \cap (ForkLocs \cup {"yield_ret"}) = {}
    BY <1>15 DEF sleep_again, On, Loc, ForkLocs
  <2>2. /\ UNCHANGED <<state, kstack, parent, back, np>>
        /\ pc' = [pc EXCEPT ![p] = "ret"] \/ pc' = [pc EXCEPT ![p] = "sleep_sw"]
    BY <1>15 DEF sleep_again, SleepTest, Goto, table
  <2> QED
    BY <2>1, <2>2, ForkLocal
<1>16. ASSUME NEW c \in CPUs, NEW p \in Procs, sleep_sw(c, p) PROVE ForkInv'
  <2>1. /\ state[p] = "RUNNING" /\ Loc(p) \notin ForkLocs
        /\ "sleep_commit" \notin ForkLocs \cup {"yield_ret"}
    BY <1>16 DEF sleep_sw, On, Loc, ForkLocs
  <2> QED
    BY <1>16, <2>1, ForkLocal DEF sleep_sw, Goto, table, frame
<1>17. ASSUME NEW c \in CPUs, NEW p \in Procs, sleep_commit(c, p) PROVE ForkInv'
  <2>1. /\ state[p] = "RUNNING" /\ Loc(p) \notin ForkLocs
        /\ "sleep_ret" \notin ForkLocs \cup {"yield_ret"}
        /\ pc' = [pc EXCEPT ![p] = "sleep_ret"] /\ UNCHANGED <<back, np>>
        /\ state' = [state EXCEPT ![p] = "SLEEPING"] /\ UNCHANGED <<kstack, parent>>
    BY <1>17 DEF sleep_commit, On, Loc, ForkLocs, Goto, frame
  <2>3. /\ state'[p] # "EMBRYO"
        /\ \A r \in Procs : state[r] = "EMBRYO" =>
             state'[r] = state[r] /\ kstack'[r] = kstack[r] /\ parent'[r] = parent[r]
        /\ \A r \in Procs : r # p /\ state[r] # "EMBRYO" => state'[r] # "EMBRYO" /\ (Live(r)' <=> Live(r))
    BY <2>1 DEF Live, TypeOK
  <2>4. UnusedClean' /\ StackOK'
    BY <2>1 DEF ForkInv, UnusedClean, StackOK, Live, TypeOK
  <2> QED
    BY ZenonT(40), <2>1, <2>3, <2>4, ForkTable
<1>18. ASSUME NEW c \in CPUs, NEW p \in Procs, syscall_ret(c, p) PROVE ForkInv'
  <2>1. /\ state[p] = "RUNNING" /\ Loc(p) \notin ForkLocs
        /\ {"exit", "user"} \cap (ForkLocs \cup {"yield_ret"}) = {}
    BY <1>18 DEF syscall_ret, On, Loc, ForkLocs
  <2> QED
    BY <1>18, <2>1, ForkLocal DEF syscall_ret, Goto, table, frame
<1>19. ASSUME NEW c \in CPUs, NEW p \in Procs, sleep_ret(c, p) PROVE ForkInv'
  <2>1. /\ state[p] = "RUNNING" /\ Loc(p) \notin ForkLocs
        /\ "sleep_again" \notin ForkLocs \cup {"yield_ret"}
    BY <1>19 DEF sleep_ret, On, Loc, ForkLocs
  <2> QED
    BY <1>19, <2>1, ForkLocal DEF sleep_ret, Goto, table, frame
<1>20. ASSUME NEW c \in CPUs, NEW p \in Procs, forkret(c, p) PROVE ForkInv'
  <2>1. state[p] = "RUNNING" /\ Loc(p) \notin ForkLocs /\ "user" \notin ForkLocs \cup {"yield_ret"}
    BY <1>20 DEF forkret, On, Loc, ForkLocs
  <2> QED
    BY ZenonT(40), <1>20, <2>1, ForkLocal DEF forkret, Goto, table, frame
<1>21. ASSUME NEW c \in CPUs, NEW p \in Procs, yield_ret(c, p) PROVE ForkInv'
  <2>1. /\ UNCHANGED <<state, kstack, parent, np>> /\ back' = [back EXCEPT ![p] = "user"]
        /\ pc' = [pc EXCEPT ![p] = IF back[p] = "user" /\ killed[p] THEN "exit" ELSE back[p]]
        /\ pc[p] = "yield_ret" /\ state[p] = "RUNNING"
    BY <1>21 DEF yield_ret, Goto, table, On
  <2>2. back[p] # "yield_ret"
    BY DEF CpuInv, BackOK, Unlocked
  <2>4. ForkKept
    BY <2>1, <2>2 DEF ForkKept, Forking, Live, Loc, TypeOK, Unlocked, ForkLocs
  <2>5. \A r \in Procs :
          /\ state'[r] = "EMBRYO" <=> state[r] = "EMBRYO"
          /\ state[r] = "EMBRYO" => pc'[r] = pc[r]
    BY <2>1, <2>2 DEF TypeOK
  <2>6. UnusedClean' /\ StackOK'
    BY <2>1, <2>2 DEF ForkInv, UnusedClean, StackOK, Live, TypeOK
  <2> QED
    BY <2>1, <2>4, <2>5, <2>6, ForkFrame
<1>22. ASSUME NEW c \in CPUs, exit_init(c) PROVE ForkInv'
  BY <1>22, ForkUnchanged DEF exit_init, table, frame
<1>23. ASSUME NEW c \in CPUs, timer_tick(c) PROVE ForkInv'
  BY <1>23, ForkUnchanged DEF timer_tick, table, frame
<1>24. ASSUME NEW c \in CPUs, timer_wakeup(c) PROVE ForkInv'
  <2>1. UNCHANGED <<kstack, parent, pc, back, np>>
    BY <1>24 DEF timer_wakeup, frame
  <2>2. \A r \in Procs : state'[r] = state[r] \/ (state[r] = "SLEEPING" /\ state'[r] = "RUNNABLE")
    BY <1>24 DEF timer_wakeup, wakeup1
  <2>4. ForkKept
    BY <2>1, <2>2 DEF ForkKept, Forking, Live, Loc, TypeOK, Unlocked, ForkLocs
  <2>5. \A r \in Procs :
          /\ state'[r] = "EMBRYO" <=> state[r] = "EMBRYO"
          /\ state[r] = "EMBRYO" => pc'[r] = pc[r]
    BY <2>1, <2>2 DEF TypeOK
  <2>6. UnusedClean' /\ StackOK'
    BY <2>1, <2>2 DEF ForkInv, UnusedClean, StackOK, Live, TypeOK
  <2> QED
    BY <2>1, <2>4, <2>5, <2>6, ForkFrame
<1>25. ASSUME NEW c \in CPUs, timer_other(c) PROVE ForkInv'
  BY <1>25, ForkUnchanged DEF timer_other, table, frame
<1>26. ASSUME NEW c \in CPUs, trap_end(c) PROVE ForkInv'
  <2> DEFINE p == cpuproc[c]
  <2>1. UNCHANGED <<kstack, parent, np>>
    BY <1>26 DEF trap_end
  <2>2. CASE p = 0
    <3>1. UNCHANGED <<state, pc, back>>
      BY <1>26, <2>2 DEF trap_end
    <3>2. QED
      BY <2>1, <3>1, ForkUnchanged
  <2>3. CASE p # 0
    <3>1. p \in Procs /\ state[p] = "RUNNING" /\ pc[p] \in Unlocked
      <4>1. p \in Procs /\ BusyOK(c, p) /\ irq[c] = "trap_end"
        BY <1>26, <2>3 DEF trap_end, TypeOK, CpuInv, Busy
      <4>2. QED
        BY <4>1 DEF BusyOK
    <3>2. CASE killed[p] /\ pc[p] = "user"
      <4>1. UNCHANGED <<state, back>> /\ pc' = [pc EXCEPT ![p] = "exit"]
        BY <1>26, <2>3, <3>2 DEF trap_end, Goto
      <4>2. Loc(p) \notin ForkLocs /\ "exit" \notin ForkLocs \cup {"yield_ret"}
        BY <3>2 DEF Loc, ForkLocs
      <4>3. QED
        BY <2>1, <3>1, <4>1, <4>2, ForkLocal
    <3>3. CASE ~(killed[p] /\ pc[p] = "user")
      <4>1. /\ state' = [state EXCEPT ![p] = "RUNNABLE"] /\ back' = [back EXCEPT ![p] = pc[p]]
            /\ pc' = [pc EXCEPT ![p] = "yield_ret"]
        BY <1>26, <2>3, <3>3 DEF trap_end, Goto
      <4>2. ASSUME NEW r \in Procs PROVE /\ Forking(r)' <=> Forking(r)
                                         /\ Forking(r) => Loc(r)' = Loc(r)
        BY <3>1, <4>1 DEF Forking, Live, Loc, Unlocked, TypeOK
      <4>3. ForkKept
        BY <2>1, <4>2 DEF ForkKept, TypeOK
      <4>4. \A r \in Procs :
              /\ state'[r] = "EMBRYO" <=> state[r] = "EMBRYO"
              /\ state[r] = "EMBRYO" => pc'[r] = pc[r]
        BY <3>1, <4>1 DEF TypeOK
      <4>5. UnusedClean' /\ StackOK'
        BY <2>1, <3>1, <4>1 DEF ForkInv, UnusedClean, StackOK, Live, TypeOK
      <4>6. QED
        BY ZenonT(40), <2>1, <4>3, <4>4, <4>5, ForkFrame
    <3>4. QED
      BY <3>2, <3>3
  <2> QED
    BY <2>2, <2>3
<1>27. ASSUME NEW c \in CPUs, NEW q \in Procs, sched_pick(c, q) PROVE ForkInv'
  <2>1. state' = [state EXCEPT ![q] = "RUNNING"] /\ UNCHANGED <<kstack, parent, pc, back, np>>
    BY <1>27 DEF sched_pick, frame
  <2>2. state[q] = "RUNNABLE"
    BY <1>27 DEF sched_pick, IsFirst, Candidates
  <2>4. ForkKept
    BY <2>1, <2>2 DEF ForkKept, Forking, Live, Loc, TypeOK, Unlocked, ForkLocs
  <2>5. \A r \in Procs :
          /\ state'[r] = "EMBRYO" <=> state[r] = "EMBRYO"
          /\ state[r] = "EMBRYO" => pc'[r] = pc[r]
    BY <2>1, <2>2 DEF TypeOK
  <2>6. UnusedClean' /\ StackOK'
    BY <2>1, <2>2 DEF ForkInv, UnusedClean, StackOK, Live, TypeOK
  <2> QED
    BY <2>1, <2>4, <2>5, <2>6, ForkFrame
<1>28. ASSUME NEW c \in CPUs, NEW q \in Procs, sched_return(c, q) PROVE ForkInv'
  BY <1>28, ForkUnchanged DEF sched_return, table, frame
<1>29. ASSUME NEW c \in CPUs, sched_end(c) PROVE ForkInv'
  BY <1>29, ForkUnchanged DEF sched_end, table, frame
<1>30. ASSUME NEW c \in CPUs, halt(c) PROVE ForkInv'
  BY <1>30, ForkUnchanged DEF halt, table, frame
<1>u. CASE UNCHANGED vars
  BY <1>u, ForkUnchanged DEF vars, table, frame
<1> QED
  BY <1>1, <1>2, <1>3, <1>4, <1>5, <1>6, <1>7, <1>8, <1>9, <1>10, <1>11, <1>12, <1>13,
     <1>14, <1>15, <1>16, <1>17, <1>18, <1>19, <1>20, <1>21, <1>22, <1>23, <1>24, <1>25,
     <1>26, <1>27, <1>28, <1>29, <1>30, <1>u
  DEF Next, UserCall, Wait, KernelStep, Resumed, Timer, timer, Scheduler, Panicked

\* Lock discipline and ownership of slots hold in every reachable state.
LEMMA Invariants == Spec => [](CpuInv /\ ForkInv)
<1>1. Init => CpuInv
  <2> SUFFICES ASSUME Init PROVE CpuInv
    OBVIOUS
  <2>1. CpuDistinct /\ RunningOnCpu /\ Busy
    BY DEF Init, CpuDistinct, RunningOnCpu, Busy
  <2>2. Idle
    BY NotNoCpu DEF Init, Idle, IdleOK
  <2>3. ResumeOK /\ BackOK
    BY DEF Init, ResumeOK, BackOK, Resume, Unlocked
  <2>4. QED
    BY <2>1, <2>2, <2>3 DEF CpuInv
<1>2. Init => ForkInv
  <2> SUFFICES ASSUME Init PROVE ForkInv
    OBVIOUS
  <2>1. \A p \in Procs : ~Forking(p) /\ state[p] # "EMBRYO"
    BY DEF Init, Forking, Loc, ForkLocs
  <2>2. UnusedClean /\ StackOK
    BY DEF Init, UnusedClean, StackOK, Live
  <2>3. QED
    BY <2>1, <2>2 DEF ForkInv, ForkChild, ForkDistinct, EmbryoOwned
<1>3. QED
  BY <1>1, <1>2, CpuNext, ForkNext, TypeCorrect, PTL DEF Spec

\* Two CPUs never execute one process, however swtch(), wakeups and the
\* schedulers interleave.
THEOREM CpuExclusion == Spec => []CpuExclusive
BY Invariants, PTL DEF CpuInv, CpuExclusive, CpuDistinct, RunningOnCpu

\* sched() never panics: a process that enters it holds ptable.lock and no
\* other spinlock.
THEOREM SchedLocks == Spec => []SchedHoldsOnlyPtable
<1>1. CpuInv => SchedHoldsOnlyPtable
  BY DEF CpuInv, Busy, BusyOK, SchedHoldsOnlyPtable
<1>2. QED
  BY <1>1, Invariants, PTL

\* No kernel stack is freed while a CPU runs on it, and none is lost.
THEOREM StackOwnership == Spec => []KstackOwned
<1>1. TypeOK /\ CpuInv /\ ForkInv => KstackOwned
  <2> SUFFICES ASSUME TypeOK, CpuInv, ForkInv, NEW p \in Procs
               PROVE  /\ OnCpu(p) \/ Live(p) \/ state[p] = "ZOMBIE" => kstack[p]
                      /\ state[p] = "UNUSED" => ~kstack[p] /\ ~OnCpu(p)
    BY DEF KstackOwned
  <2>1. OnCpu(p) => state[p] \in {"RUNNING", "RUNNABLE", "SLEEPING", "ZOMBIE"}
    <3>1. ASSUME NEW c \in CPUs, cpuproc[c] = p PROVE BusyOK(c, p)
      BY <3>1, OnBusy
    <3>2. QED
      BY <3>1 DEF OnCpu, BusyOK
  <2>2. QED
    BY <2>1 DEF ForkInv, StackOK, UnusedClean, Live
<1>2. QED
  BY <1>1, Invariants, TypeCorrect, PTL

(***************************************************************************)
(* Families of processes                                                   *)
(***************************************************************************)
InitLive == Live(initproc)

PidsBelow ==
  \A p, q \in Procs : state[p] # "UNUSED" =>
    0 < pid[p] /\ pid[p] < nextpid /\ (pid[q] = pid[p] /\ state[q] # "UNUSED" => p = q)

FamilyInv == ParentAlive /\ InitLive /\ WaiterNotForgotten /\ PidsBelow /\ nextpid > 0

\* A step that starts, ends or puts to sleep no process and changes no
\* relation between them.
FamilyKept ==
  /\ UNCHANGED <<parent, chan, killed, pid, nextpid>>
  /\ \A r \in Procs :
        /\ Live(r)' <=> Live(r)
        /\ state'[r] = "ZOMBIE" <=> state[r] = "ZOMBIE"
        /\ state'[r] = "SLEEPING" => state[r] = "SLEEPING"
        /\ state'[r] = "UNUSED" <=> state[r] = "UNUSED"

\* No process changes its parent and none but EMBRYOs come to or go from the
\* table.
LEMMA ParentFrame ==
  ASSUME TypeOK, ParentAlive, InitLive, UNCHANGED parent,
         \A r \in Procs : Live(r) => state'[r] \in {"SLEEPING", "RUNNABLE", "RUNNING"},
         \A r \in Procs : state'[r] \in {"SLEEPING", "RUNNABLE", "RUNNING", "ZOMBIE"} =>
                            Live(r) \/ state[r] = "ZOMBIE"
  PROVE  ParentAlive' /\ InitLive'
<1>1. initproc \in Procs /\ \A r \in Procs : parent[r] # 0 => parent[r] \in Procs
  BY SMT, SizeAssumption DEF initproc, Procs, TypeOK
<1>2. ASSUME NEW r \in Procs \ {initproc},
             state'[r] \in {"SLEEPING", "RUNNABLE", "RUNNING", "ZOMBIE"}
      PROVE  /\ parent[r] # 0 /\ parent[r] # r
             /\ state'[parent[r]] \in {"SLEEPING", "RUNNABLE", "RUNNING"}
  BY <1>1, <1>2 DEF ParentAlive
<1>3. state'[initproc] \in {"SLEEPING", "RUNNABLE", "RUNNING"}
  BY <1>1 DEF InitLive
<1>4. QED
  BY <1>2, <1>3 DEF ParentAlive, InitLive, Live, initproc

\* Such a step keeps families as they are.
LEMMA FamilyFrame ==
  ASSUME TypeOK, FamilyInv, FamilyKept
  PROVE  FamilyInv'
<1>1. ParentAlive' /\ InitLive'
  BY ParentFrame DEF FamilyInv, FamilyKept, Live
<1>2. WaiterNotForgotten'
  BY DEF FamilyInv, FamilyKept, WaiterNotForgotten, Kids, Zombies
<1>3. PidsBelow' /\ nextpid' > 0
  BY DEF FamilyInv, FamilyKept, PidsBelow
<1>4. QED
  BY <1>1, <1>2, <1>3 DEF FamilyInv

\* The table is left alone.
LEMMA FamilyTable ==
  ASSUME TypeOK, FamilyInv, UNCHANGED table
  PROVE  FamilyInv'
<1>1. FamilyKept
  BY DEF FamilyKept, table, Live
<1>2. QED
  BY <1>1, FamilyFrame

\* Every step keeps families in order: one case per action.
LEMMA FamilyNext == TypeOK /\ CpuInv /\ ForkInv /\ FamilyInv /\ [Next]_vars => FamilyInv'
<1> SUFFICES ASSUME TypeOK, CpuInv, ForkInv, FamilyInv, [Next]_vars PROVE FamilyInv'
  OBVIOUS
<1>1. ASSUME NEW c \in CPUs, NEW p \in Procs, fork_none(c, p) PROVE FamilyInv'
  BY <1>1, FamilyTable DEF fork_none
<1>2. ASSUME NEW c \in CPUs, NEW p \in Procs, NEW q \in Procs, fork_alloc(c, p, q) PROVE FamilyInv'
  <2>1. /\ state[q] = "UNUSED" /\ state[p] = "RUNNING"
        /\ state' = [state EXCEPT ![q] = "EMBRYO"] /\ pid' = [pid EXCEPT ![q] = nextpid]
        /\ nextpid' = nextpid + 1 /\ UNCHANGED <<parent, chan, killed>>
    BY <1>2 DEF fork_alloc, Syscall, On, IsFirst, Unused
  <2>p. ParentAlive' /\ InitLive'
    <3>1. \A r \in Procs : (Live(r)' <=> Live(r)) /\ (state'[r] = "ZOMBIE" <=> state[r] = "ZOMBIE")
      BY <2>1 DEF Live, TypeOK
    <3>2. QED
      BY <2>1, <3>1, ParentFrame DEF FamilyInv, Live
  <2>w. WaiterNotForgotten'
    BY SMT, <2>1 DEF FamilyInv, WaiterNotForgotten, Kids, Zombies, TypeOK
  <2>i. PidsBelow' /\ nextpid' > 0
    <3>1. \A r \in Procs :
          /\ r # q => state'[r] = state[r] /\ pid'[r] = pid[r]
          /\ pid[r] \in Nat
      BY <2>1 DEF TypeOK
    <3>2. pid'[q] = nextpid /\ nextpid \in Nat
      BY <2>1 DEF TypeOK
    <3>3. QED
      BY SMT, <2>1, <3>1, <3>2 DEF FamilyInv, PidsBelow
  <2> QED
    BY <2>p, <2>w, <2>i DEF FamilyInv
<1>3. ASSUME NEW c \in CPUs, NEW p \in Procs, sys_exit(c, p) PROVE FamilyInv'
  BY <1>3, FamilyTable DEF sys_exit
<1>4. ASSUME NEW c \in CPUs, NEW p \in Procs, NEW k \in KillPids, sys_kill(c, p, k) PROVE FamilyInv'
  <2>1. UNCHANGED <<parent, chan, pid, nextpid>>
    BY <1>4 DEF sys_kill
  <2>2. \A r \in Procs :
          /\ state'[r] = state[r] \/ (state[r] = "SLEEPING" /\ state'[r] = "RUNNABLE")
          /\ state'[r] = "SLEEPING" => (killed'[r] <=> killed[r])
    BY <1>4 DEF sys_kill, TypeOK
  <2>3. \A r \in Procs : (Live(r)' <=> Live(r)) /\ (state'[r] = "ZOMBIE" <=> state[r] = "ZOMBIE")
    BY <2>2 DEF Live
  <2>p. ParentAlive' /\ InitLive'
    BY <2>1, <2>2, <2>3, ParentFrame DEF FamilyInv, Live, TypeOK
  <2>w. WaiterNotForgotten'
    <3>1. \A r \in Procs : Kids(r)' = Kids(r) /\ Zombies(r)' = Zombies(r)
      BY <2>1, <2>3 DEF Kids, Zombies
    <3>2. QED
      BY ZenonT(40), <2>1, <2>2, <3>1 DEF FamilyInv, WaiterNotForgotten
  <2>i. PidsBelow' /\ nextpid' > 0
    BY <2>1, <2>2 DEF FamilyInv, PidsBelow
  <2> QED
    BY <2>p, <2>w, <2>i DEF FamilyInv
<1>5. ASSUME NEW c \in CPUs, NEW p \in Procs, NEW n \in SleepArgs, sys_sleep(c, p, n)
      PROVE  FamilyInv'
  BY <1>5, FamilyTable DEF sys_sleep, SleepTest
<1>6. ASSUME NEW c \in CPUs, NEW p \in Procs, trap_fault(c, p) PROVE FamilyInv'
  <2>1. UNCHANGED <<state, parent, chan, pid, nextpid>> /\ state[p] = "RUNNING"
        /\ killed' = [killed EXCEPT ![p] = TRUE]
    BY <1>6 DEF trap_fault, On
  <2>p. ParentAlive' /\ InitLive'
    BY <2>1, ParentFrame DEF FamilyInv, Live, TypeOK
  <2>w. WaiterNotForgotten'
    BY SMT, <2>1 DEF FamilyInv, WaiterNotForgotten, Kids, Zombies, TypeOK
  <2>i. PidsBelow' /\ nextpid' > 0
    BY <2>1 DEF FamilyInv, PidsBelow, TypeOK
  <2> QED
    BY <2>p, <2>w, <2>i DEF FamilyInv
<1>7. ASSUME NEW c \in CPUs, NEW p \in Procs, NEW q \in Procs, wait_reap(c, p, q) PROVE FamilyInv'
  <2>1. /\ state[q] = "ZOMBIE" /\ parent[q] = p /\ state[p] = "RUNNING"
        /\ state' = [state EXCEPT ![q] = "UNUSED"] /\ pid' = [pid EXCEPT ![q] = 0]
        /\ parent' = [parent EXCEPT ![q] = 0] /\ killed' = [killed EXCEPT ![q] = FALSE]
        /\ chan' = [chan EXCEPT ![p] = 0] /\ nextpid' = nextpid
    BY <1>7 DEF wait_reap, InWait, Syscall, On, IsFirst, Zombies, Kids
  <2>2. q # p /\ q # initproc
    BY <2>1 DEF FamilyInv, InitLive, Live
  <2>p. ParentAlive' /\ InitLive'
    <3>1. \A r \in Procs : r # q => state'[r] = state[r] /\ parent'[r] = parent[r]
      BY <2>1 DEF TypeOK
    <3>2. state'[q] = "UNUSED"
      BY <2>1 DEF TypeOK
    <3>3. \A r \in Procs \ {initproc} : Live(r) \/ state[r] = "ZOMBIE" => parent[r] # q
      BY <2>1 DEF FamilyInv, ParentAlive, Live
    <3>4. QED
      <4>1. ASSUME NEW r \in Procs \ {initproc},
                   state'[r] \in {"SLEEPING", "RUNNABLE", "RUNNING", "ZOMBIE"}
            PROVE  /\ parent'[r] = parent[r] /\ parent[r] # 0 /\ parent[r] # r
                   /\ state'[parent[r]] \in {"SLEEPING", "RUNNABLE", "RUNNING"}
        <5>1. r # q /\ (Live(r) \/ state[r] = "ZOMBIE")
          BY <3>1, <3>2, <4>1 DEF Live
        <5>2. parent[r] # 0 /\ parent[r] # r /\ Live(parent[r])
          BY <5>1 DEF FamilyInv, ParentAlive
        <5>3. parent[r] \in Procs
          BY <5>2 DEF TypeOK
        <5>4. QED
          BY <3>1, <3>3, <5>1, <5>2, <5>3 DEF Live
      <4>2. Live(initproc)'
        BY SMT, <2>2, <3>1, SizeAssumption DEF FamilyInv, InitLive, Live, initproc, Procs
      <4>3. QED
        BY <4>1, <4>2 DEF ParentAlive, InitLive, Live
  <2>w. WaiterNotForgotten'
    <3>1. ASSUME NEW w \in Procs, state'[w] = "SLEEPING", chan'[w] = w
          PROVE  /\ state[w] = "SLEEPING" /\ chan[w] = w /\ w # p /\ w # q /\ w # 0
                 /\ killed'[w] = killed[w]
      <4>1. w # 0 /\ chan'[p] = 0 /\ state'[q] = "UNUSED"
        BY SMT, <2>1 DEF TypeOK, Procs
      <4>2. w # p /\ w # q
        BY <3>1, <4>1
      <4>3. QED
        BY <2>1, <3>1, <4>1, <4>2 DEF TypeOK
    <3>2. \A r \in Procs : r # q => state'[r] = state[r] /\ parent'[r] = parent[r]
      BY <2>1 DEF TypeOK
    <3>3. state'[q] = "UNUSED" /\ parent'[q] = 0
      BY <2>1 DEF TypeOK
    <3>4. ASSUME NEW w \in Procs, state'[w] = "SLEEPING", chan'[w] = w
          PROVE  Kids(w)' = Kids(w) /\ Zombies(w)' = Zombies(w)
      <4>1. w # p /\ w # 0
        BY <3>1, <3>4
      <4>2. \A r \in Procs : parent'[r] = w <=> parent[r] = w
        BY <2>1, <3>2, <3>3, <4>1
      <4>3. \A r \in Procs : parent[r] = w => state'[r] = state[r]
        BY <2>1, <3>2, <4>1
      <4>4. QED
        BY <4>2, <4>3 DEF Kids, Zombies
    <3>5. QED
      BY <3>1, <3>4 DEF FamilyInv, WaiterNotForgotten
  <2>i. PidsBelow' /\ nextpid' > 0
    BY <2>1, <2>2 DEF FamilyInv, PidsBelow, TypeOK
  <2> QED
    BY <2>p, <2>w, <2>i DEF FamilyInv
<1>8. ASSUME NEW c \in CPUs, NEW p \in Procs, wait_fail(c, p) PROVE FamilyInv'
  <2>1. /\ state[p] = "RUNNING" /\ UNCHANGED <<state, parent, killed, pid, nextpid>>
        /\ chan' = [chan EXCEPT ![p] = 0]
    BY ZenonT(40), <1>8 DEF wait_fail, InWait, Syscall, On
  <2>p. ParentAlive' /\ InitLive'
    BY <2>1, ParentFrame DEF FamilyInv, Live, TypeOK
  <2>w. WaiterNotForgotten'
    BY SMT, <2>1 DEF FamilyInv, WaiterNotForgotten, Kids, Zombies, TypeOK
  <2>i. PidsBelow' /\ nextpid' > 0
    BY <2>1 DEF FamilyInv, PidsBelow, TypeOK
  <2> QED
    BY <2>p, <2>w, <2>i DEF FamilyInv
<1>9. ASSUME NEW c \in CPUs, NEW p \in Procs, wait_sleep(c, p) PROVE FamilyInv'
  <2>1. /\ state[p] = "RUNNING" /\ UNCHANGED <<parent, killed, pid, nextpid>>
        /\ chan' = [chan EXCEPT ![p] = p] /\ state' = [state EXCEPT ![p] = "SLEEPING"]
        /\ Kids(p) # {} /\ Zombies(p) = {} /\ ~killed[p]
    BY <1>9 DEF wait_sleep, InWait, Syscall, On
  <2>2. \A r \in Procs : (Live(r)' <=> Live(r)) /\ (state'[r] = "ZOMBIE" <=> state[r] = "ZOMBIE")
    BY <2>1 DEF Live, TypeOK
  <2>p. ParentAlive' /\ InitLive'
    BY <2>1, <2>2, ParentFrame DEF FamilyInv, Live, TypeOK
  <2>w. WaiterNotForgotten'
    <3>1. \A r \in Procs : Kids(r)' = Kids(r) /\ Zombies(r)' = Zombies(r)
      BY <2>1, <2>2 DEF Kids, Zombies
    <3>2. \A r \in Procs : r # p => state'[r] = state[r] /\ chan'[r] = chan[r]
      BY <2>1, Types
    <3>3. QED
      BY <2>1, <3>1, <3>2 DEF FamilyInv, WaiterNotForgotten
  <2>i. PidsBelow' /\ nextpid' > 0
    BY SMT, <2>1, <2>2 DEF FamilyInv, PidsBelow, TypeOK
  <2> QED
    BY <2>p, <2>w, <2>i DEF FamilyInv
<1>10. ASSUME NEW c \in CPUs, NEW p \in Procs, fork_kstack(c, p) PROVE FamilyInv'
  <2>1. UNCHANGED <<state, parent, chan, killed, pid, nextpid>>
    BY ZenonT(40), <1>10 DEF fork_kstack
  <2>k. FamilyKept
    BY <2>1 DEF FamilyKept, Live, TypeOK
  <2> QED
    BY <2>k, FamilyFrame
<1>11. ASSUME NEW c \in CPUs, NEW p \in Procs, fork_fail(c, p) PROVE FamilyInv'
  <2>1. /\ state[p] = "RUNNING" /\ UNCHANGED <<parent, killed, chan, pid, nextpid>>
        /\ state' = [state EXCEPT ![np[p]] = "UNUSED"]
    BY ZenonT(40), <1>11 DEF fork_fail, On
  <2>2. /\ np[p] \in Procs /\ np[p] # p /\ state[np[p]] = "EMBRYO"
        /\ parent[np[p]] = IF pc[p] = "fork_run" THEN p ELSE 0
    BY <1>11
    DEF fork_fail, On, Forking, Live, Loc, ForkLocs, ForkInv, ForkChild, ChildOK, TypeOK
  <2>3. np[p] # initproc
    BY <2>2 DEF FamilyInv, InitLive, Live
  <2>4. \A r \in Procs :
        /\ Live(r)' <=> Live(r)
        /\ state'[r] \in {"ZOMBIE", "SLEEPING"} \/ state[r] = "ZOMBIE" => state'[r] = state[r]
        /\ state'[r] # "UNUSED" => state[r] # "UNUSED"
    BY <2>1, <2>2 DEF Live, TypeOK
  <2>u. UNCHANGED <<parent, killed, chan, pid, nextpid>>
    BY <2>1
  <2>p. ParentAlive' /\ InitLive'
    BY <2>u, <2>4, ParentFrame DEF FamilyInv, Live, TypeOK
  <2>w. WaiterNotForgotten'
    BY SMT, <2>u, <2>4 DEF FamilyInv, WaiterNotForgotten, Kids, Zombies, TypeOK
  <2>i. PidsBelow' /\ nextpid' > 0
    BY <2>u, <2>4 DEF FamilyInv, PidsBelow, TypeOK
  <2> QED
    BY <2>p, <2>w, <2>i DEF FamilyInv
<1>12. ASSUME NEW c \in CPUs, NEW p \in Procs, fork_copy(c, p) PROVE FamilyInv'
  <2>1. /\ state[p] = "RUNNING" /\ UNCHANGED <<state, killed, chan, pid, nextpid>>
        /\ parent' = [parent EXCEPT ![np[p]] = p] /\ pc[p] = "fork_copy"
    BY ZenonT(40), <1>12 DEF fork_copy, On
  <2>2. /\ np[p] \in Procs /\ np[p] # p /\ state[np[p]] = "EMBRYO"
        /\ parent[np[p]] = IF pc[p] = "fork_run" THEN p ELSE 0
    BY <1>12
    DEF fork_copy, On, Forking, Live, Loc, ForkLocs, ForkInv, ForkChild, ChildOK, TypeOK
  <2>3. np[p] # initproc
    BY <2>2 DEF FamilyInv, InitLive, Live
  <2>p. ParentAlive' /\ InitLive'
    <3>1. ASSUME NEW r \in Procs \ {initproc}, Live(r) \/ state[r] = "ZOMBIE"
          PROVE  parent'[r] = parent[r] /\ parent[r] # 0 /\ parent[r] # r /\ Live(parent[r])
      BY <2>1, <2>2, <3>1 DEF FamilyInv, ParentAlive, Live, TypeOK
    <3>2. QED
      BY <2>1, <3>1 DEF FamilyInv, ParentAlive, InitLive, Live, initproc
  <2>w. WaiterNotForgotten'
    <3>1. \A r \in Procs : r # np[p] => parent'[r] = parent[r]
      BY <2>1 DEF TypeOK
    <3>2. parent'[np[p]] = p /\ parent[np[p]] = 0
      BY <2>1, <2>2 DEF TypeOK
    <3>3. ASSUME NEW w \in Procs, w # p PROVE Kids(w)' = Kids(w) /\ Zombies(w)' = Zombies(w)
      BY SMT, <2>1, <3>1, <3>2, <3>3 DEF Kids, Zombies, Procs
    <3>4. QED
      BY ZenonT(40), <2>1, <3>3 DEF FamilyInv, WaiterNotForgotten
  <2>i. PidsBelow' /\ nextpid' > 0
    BY <2>1, <2>2, <2>3 DEF FamilyInv, PidsBelow, TypeOK
  <2> QED
    BY <2>p, <2>w, <2>i DEF FamilyInv
<1>13. ASSUME NEW c \in CPUs, NEW p \in Procs, fork_run(c, p) PROVE FamilyInv'
  <2>1. /\ state[p] = "RUNNING" /\ UNCHANGED <<parent, killed, chan, pid, nextpid>>
        /\ state' = [state EXCEPT ![np[p]] = "RUNNABLE"] /\ pc[p] = "fork_run"
    BY ZenonT(40), <1>13 DEF fork_run, On
  <2>2. /\ np[p] \in Procs /\ np[p] # p /\ state[np[p]] = "EMBRYO"
        /\ parent[np[p]] = IF pc[p] = "fork_run" THEN p ELSE 0
    BY <1>13
    DEF fork_run, On, Forking, Live, Loc, ForkLocs, ForkInv, ForkChild, ChildOK, TypeOK
  <2>3. np[p] # initproc
    BY <2>2 DEF FamilyInv, InitLive, Live
  <2>u. UNCHANGED <<parent, killed, chan, pid, nextpid>>
    BY <2>1
  <2>4. \A r \in Procs :
        /\ r # np[p] => state'[r] = state[r]
        /\ state'[r] \in {"ZOMBIE", "SLEEPING"} \/ state[r] = "ZOMBIE" => state'[r] = state[r]
        /\ state'[r] # "UNUSED" => state[r] # "UNUSED"
    BY <2>1, <2>2 DEF TypeOK
  <2>p. ParentAlive' /\ InitLive'
    <3>1. parent[np[p]] = p /\ p # 0 /\ state'[p] = "RUNNING"
      BY SMT, <2>1, <2>2, <2>4 DEF Procs
    <3>2. ASSUME NEW r \in Procs PROVE Live(r) => Live(r)'
      BY <2>1, <2>2, <2>4 DEF Live, TypeOK
    <3>3. initproc \in Procs /\ \A r \in Procs : parent[r] # 0 => parent[r] \in Procs
      BY SMT, SizeAssumption DEF initproc, Procs, TypeOK
    <3>4. ASSUME NEW r \in Procs \ {initproc}, r # np[p], Live(r)' \/ state'[r] = "ZOMBIE"
          PROVE  Live(r) \/ state[r] = "ZOMBIE"
      BY <2>4, <3>4 DEF Live
    <3>5. Live(p)'
      BY <3>1 DEF Live
    <3>6. QED
      BY <2>2, <2>3, <2>u, <3>1, <3>2, <3>3, <3>4, <3>5 DEF FamilyInv, ParentAlive, InitLive
  <2>w. WaiterNotForgotten'
    BY SMT, <2>u, <2>4 DEF FamilyInv, WaiterNotForgotten, Kids, Zombies, TypeOK
  <2>i. PidsBelow' /\ nextpid' > 0
    BY <2>u, <2>4 DEF FamilyInv, PidsBelow, TypeOK
  <2> QED
    BY <2>p, <2>w, <2>i DEF FamilyInv
<1>14. ASSUME NEW c \in CPUs, NEW p \in Procs, exit(c, p) PROVE FamilyInv'
  <2>1. /\ state[p] = "RUNNING" /\ p # initproc /\ UNCHANGED <<killed, chan, pid, nextpid>>
        /\ state'[p] = "ZOMBIE"
        /\ \A r \in Procs : r # p => state'[r] = IF state[r] = "SLEEPING" /\ chan[r] \in ExitWakes(p)
                                                THEN "RUNNABLE" ELSE state[r]
        /\ \A r \in Procs : parent'[r] = IF parent[r] = p THEN initproc ELSE parent[r]
    BY ZenonT(40), <1>14 DEF exit, On
  <2>2. /\ parent[p] # 0 /\ parent[p] # p /\ initproc \in Procs /\ p # 0
        /\ \A r \in Procs : parent[r] \in Procs \cup {0}
    <3>1. initproc \in Procs /\ p # 0
      BY SMT, SizeAssumption DEF initproc, Procs
    <3>2. parent[p] # 0 /\ parent[p] # p
      BY <2>1 DEF FamilyInv, ParentAlive, Live
    <3>3. QED
      BY <3>1, <3>2 DEF TypeOK
  <2>3. \A r \in Procs : r # p =>
          /\ Live(r)' <=> Live(r)
          /\ state'[r] = "ZOMBIE" <=> state[r] = "ZOMBIE"
          /\ state'[r] = "UNUSED" <=> state[r] = "UNUSED"
          /\ state'[r] = "SLEEPING" => state[r] = "SLEEPING" /\ chan[r] \notin ExitWakes(p)
    BY <2>1 DEF Live
  <2>p. ParentAlive' /\ InitLive'
    <3>1. ASSUME NEW r \in Procs, r # p, Live(r)
          PROVE  state'[r] \in {"SLEEPING", "RUNNABLE", "RUNNING"}
      BY <2>1, <3>1 DEF Live
    <3>2. state'[initproc] \in {"SLEEPING", "RUNNABLE", "RUNNING"}
      BY <2>1, <2>2, <3>1 DEF FamilyInv, InitLive
    <3>3. ASSUME NEW r \in Procs \ {initproc},
                 state'[r] \in {"SLEEPING", "RUNNABLE", "RUNNING", "ZOMBIE"}
          PROVE  /\ parent'[r] # 0 /\ parent'[r] # r
                 /\ state'[parent'[r]] \in {"SLEEPING", "RUNNABLE", "RUNNING"}
      <4>1. Live(r) \/ state[r] = "ZOMBIE"
        BY <2>1, <3>3 DEF Live
      <4>2. parent[r] # 0 /\ parent[r] # r /\ Live(parent[r]) /\ parent[r] \in Procs
        BY <2>2, <4>1 DEF FamilyInv, ParentAlive
      <4>3. CASE parent[r] = p
        BY SMT, <2>1, <2>2, <3>2, <3>3, <4>3 DEF initproc
      <4>4. CASE parent[r] # p
        BY <2>1, <3>1, <4>2, <4>4
      <4>5. QED
        BY <4>3, <4>4
    <3>4. QED
      BY <3>2, <3>3 DEF ParentAlive, InitLive, Live, initproc
  <2>w. WaiterNotForgotten'
    <3>1. ASSUME NEW w \in Procs, state'[w] = "SLEEPING", chan'[w] = w
          PROVE  Kids(w)' # {} /\ Zombies(w)' = {} /\ ~killed'[w]
      <4>1. /\ w # p /\ state[w] = "SLEEPING" /\ chan[w] = w /\ w \notin ExitWakes(p)
            /\ Kids(w) # {} /\ Zombies(w) = {} /\ ~killed[w]
        BY ZenonT(40), <2>1, <2>3, <3>1 DEF FamilyInv, WaiterNotForgotten
      <4>2. Kids(w)' # {}
        BY ZenonT(40), <2>1, <4>1 DEF Kids
      <4>3. w # parent[p] /\ (w = initproc => \A r \in Kids(p) : state[r] # "ZOMBIE")
        BY ZenonT(40), <4>1 DEF ExitWakes
      <4>4. ASSUME NEW r \in Procs, parent'[r] = w, state'[r] = "ZOMBIE" PROVE FALSE
        <5>1. CASE r = p
          BY <2>1, <2>2, <4>3, <4>4, <5>1
        <5>2. CASE r # p /\ parent[r] = p
          BY <2>1, <2>3, <4>3, <4>4, <5>2 DEF Kids
        <5>3. CASE r # p /\ parent[r] # p
          BY <2>1, <2>3, <4>1, <4>4, <5>3 DEF Kids, Zombies
        <5>4. QED
          BY <5>1, <5>2, <5>3
      <4>5. QED
        BY <2>1, <4>1, <4>2, <4>4 DEF Kids, Zombies
    <3>2. QED
      BY <3>1 DEF WaiterNotForgotten
  <2>i. PidsBelow' /\ nextpid' > 0
    BY <2>1, <2>3 DEF FamilyInv, PidsBelow
  <2> QED
    BY <2>p, <2>w, <2>i DEF FamilyInv
<1>15. ASSUME NEW c \in CPUs, NEW p \in Procs, sleep_again(c, p) PROVE FamilyInv'
  BY <1>15, FamilyTable DEF sleep_again, SleepTest
<1>16. ASSUME NEW c \in CPUs, NEW p \in Procs, sleep_sw(c, p) PROVE FamilyInv'
  BY <1>16, FamilyTable DEF sleep_sw
<1>17. ASSUME NEW c \in CPUs, NEW p \in Procs, sleep_commit(c, p) PROVE FamilyInv'
  <2>1. /\ state[p] = "RUNNING" /\ UNCHANGED <<parent, killed, pid, nextpid>>
        /\ chan' = [chan EXCEPT ![p] = TicksChan] /\ state' = [state EXCEPT ![p] = "SLEEPING"]
    BY <1>17 DEF sleep_commit, On
  <2>2. \A r \in Procs : (Live(r)' <=> Live(r)) /\ (state'[r] = "ZOMBIE" <=> state[r] = "ZOMBIE")
    BY <2>1, Types DEF Live
  <2>3. TicksChan # p /\ chan'[p] = TicksChan /\ \A r \in Procs : r # p => chan'[r] = chan[r]
    BY <2>1, TicksApart, Types
  <2>4. \A r \in Procs : r # p => state'[r] = state[r]
    BY <2>1, Types
  <2>p. ParentAlive' /\ InitLive'
    <3>1. ParentAlive /\ InitLive /\ UNCHANGED parent
      BY <2>1 DEF FamilyInv
    <3>2. QED
      BY <2>2, <3>1, ParentFrame DEF Live
  <2>w. WaiterNotForgotten'
    <3>1. \A r \in Procs : Kids(r)' = Kids(r) /\ Zombies(r)' = Zombies(r)
      BY ZenonT(40), <2>1, <2>2 DEF Kids, Zombies
    <3>2. \A r \in Procs : state'[r] = "SLEEPING" /\ chan'[r] = r => state[r] = "SLEEPING" /\ chan[r] = r
      BY <2>3, <2>4
    <3>3. QED
      BY <2>1, <3>1, <3>2 DEF FamilyInv, WaiterNotForgotten
  <2>i. PidsBelow' /\ nextpid' > 0
    BY <2>1, <2>2, <2>4 DEF FamilyInv, PidsBelow
  <2> QED
    BY <2>p, <2>w, <2>i DEF FamilyInv
<1>18. ASSUME NEW c \in CPUs, NEW p \in Procs, syscall_ret(c, p) PROVE FamilyInv'
  BY <1>18, FamilyTable DEF syscall_ret
<1>19. ASSUME NEW c \in CPUs, NEW p \in Procs, sleep_ret(c, p) PROVE FamilyInv'
  <2>1. /\ state[p] = "RUNNING" /\ UNCHANGED <<state, parent, killed, pid, nextpid>>
        /\ chan' = [chan EXCEPT ![p] = 0]
    BY <1>19 DEF sleep_ret, On
  <2>p. ParentAlive' /\ InitLive'
    BY <2>1, ParentFrame DEF FamilyInv, Live, TypeOK
  <2>w. WaiterNotForgotten'
    BY ZenonT(40), <2>1 DEF FamilyInv, WaiterNotForgotten, Kids, Zombies, TypeOK
  <2>i. PidsBelow' /\ nextpid' > 0
    BY <2>1 DEF FamilyInv, PidsBelow, TypeOK
  <2> QED
    BY <2>p, <2>w, <2>i DEF FamilyInv
<1>20. ASSUME NEW c \in CPUs, NEW p \in Procs, forkret(c, p) PROVE FamilyInv'
  BY <1>20, FamilyTable DEF forkret
<1>21. ASSUME NEW c \in CPUs, NEW p \in Procs, yield_ret(c, p) PROVE FamilyInv'
  BY <1>21, FamilyTable DEF yield_ret
<1>22. ASSUME NEW c \in CPUs, exit_init(c) PROVE FamilyInv'
  BY <1>22, FamilyTable DEF exit_init
<1>23. ASSUME NEW c \in CPUs, timer_tick(c) PROVE FamilyInv'
  BY <1>23, FamilyTable DEF timer_tick
<1>24. ASSUME NEW c \in CPUs, timer_wakeup(c) PROVE FamilyInv'
  <2>1. UNCHANGED <<parent, chan, killed, pid, nextpid>>
    BY <1>24 DEF timer_wakeup
  <2>2. \A r \in Procs : state'[r] = state[r] \/ (state[r] = "SLEEPING" /\ state'[r] = "RUNNABLE")
    BY <1>24 DEF timer_wakeup, wakeup1
  <2>k. FamilyKept
    BY <2>1, <2>2 DEF FamilyKept, Live, TypeOK
  <2> QED
    BY <2>k, FamilyFrame
<1>25. ASSUME NEW c \in CPUs, timer_other(c) PROVE FamilyInv'
  BY <1>25, FamilyTable DEF timer_other
<1>26. ASSUME NEW c \in CPUs, trap_end(c) PROVE FamilyInv'
  <2>1. UNCHANGED <<parent, chan, killed, pid, nextpid>>
    BY <1>26 DEF trap_end
  <2>2. state' = state \/ (cpuproc[c] # 0 /\ state' = [state EXCEPT ![cpuproc[c]] = "RUNNABLE"])
    BY <1>26 DEF trap_end
  <2>3. cpuproc[c] # 0 => cpuproc[c] \in Procs /\ state[cpuproc[c]] = "RUNNING"
    <3>1. irq[c] # "none"
      BY <1>26 DEF trap_end
    <3>2. cpuproc[c] # 0 => cpuproc[c] \in Procs /\ BusyOK(c, cpuproc[c])
      BY Types DEF CpuInv, Busy
    <3>3. QED
      BY <3>1, <3>2 DEF BusyOK
  <2>k. FamilyKept
    BY <2>1, <2>2, <2>3 DEF FamilyKept, Live, TypeOK
  <2> QED
    BY <2>k, FamilyFrame
<1>27. ASSUME NEW c \in CPUs, NEW q \in Procs, sched_pick(c, q) PROVE FamilyInv'
  <2>1. UNCHANGED <<parent, chan, killed, pid, nextpid>> /\ state' = [state EXCEPT ![q] = "RUNNING"]
    BY <1>27 DEF sched_pick
  <2>2. state[q] = "RUNNABLE"
    BY <1>27 DEF sched_pick, IsFirst, Candidates
  <2>k. FamilyKept
    BY <2>1, <2>2 DEF FamilyKept, Live, TypeOK
  <2> QED
    BY <2>k, FamilyFrame
<1>28. ASSUME NEW c \in CPUs, NEW q \in Procs, sched_return(c, q) PROVE FamilyInv'
  BY <1>28, FamilyTable DEF sched_return
<1>29. ASSUME NEW c \in CPUs, sched_end(c) PROVE FamilyInv'
  BY <1>29, FamilyTable DEF sched_end
<1>30. ASSUME NEW c \in CPUs, halt(c) PROVE FamilyInv'
  BY <1>30, FamilyTable DEF halt
<1>u. CASE UNCHANGED vars
  BY <1>u, FamilyTable DEF vars
<1> QED
  BY <1>1, <1>2, <1>3, <1>4, <1>5, <1>6, <1>7, <1>8, <1>9, <1>10, <1>11, <1>12, <1>13,
     <1>14, <1>15, <1>16, <1>17, <1>18, <1>19, <1>20, <1>21, <1>22, <1>23, <1>24, <1>25,
     <1>26, <1>27, <1>28, <1>29, <1>30, <1>u
  DEF Next, UserCall, Wait, KernelStep, Resumed, Timer, timer, Scheduler, Panicked

\* Families are in order in every reachable state.
LEMMA Families == Spec => []FamilyInv
<1>1. Init => FamilyInv
  <2> SUFFICES ASSUME Init PROVE FamilyInv
    OBVIOUS
  <2>1. ParentAlive /\ InitLive
    <3>1. initproc \in Procs
      BY SMT, SizeAssumption DEF initproc, Procs
    <3>2. state[initproc] = "RUNNABLE" /\ \A p \in Procs : p # initproc => state[p] = "UNUSED"
      BY <3>1 DEF Init
    <3>3. QED
      BY <3>1, <3>2 DEF ParentAlive, InitLive, Live
  <2>2. WaiterNotForgotten
    <3>1. \A p \in Procs : state[p] # "SLEEPING"
      BY DEF Init
    <3>2. QED
      BY <3>1 DEF WaiterNotForgotten
  <2>3. PidsBelow /\ nextpid > 0
    <3>1. \A p \in Procs : p = initproc => pid[p] = 1
      BY DEF Init
    <3>2. \A p \in Procs : p # initproc => state[p] = "UNUSED"
      BY DEF Init
    <3>3. nextpid = 2
      BY DEF Init
    <3>4. QED
      BY SMT, <3>1, <3>2, <3>3 DEF PidsBelow
  <2>4. QED
    BY <2>1, <2>2, <2>3 DEF FamilyInv
<1>2. QED
  BY <1>1, FamilyNext, TypeCorrect, Invariants, PTL DEF Spec

\* exit() never leaves a process without a parent that can wait() for it, for
\* any family tree and any interleaving of CPUs.
THEOREM NoOrphans == Spec => []ParentAlive
BY Families, PTL DEF FamilyInv

\* No process sleeps in wait() while a child of its own, also one it inherited
\* from exit(), is already a zombie, or after kill().
THEOREM NoForgottenWaiter == Spec => []WaiterNotForgotten
BY Families, PTL DEF FamilyInv

\* Pids name one process, as wait() and kill() take for granted.
THEOREM PidsUnique == Spec => []UniquePids
<1>1. TypeOK /\ FamilyInv => UniquePids
  BY DEF FamilyInv, PidsBelow, UniquePids, Live, TypeOK
<1>2. QED
  BY <1>1, Families, TypeCorrect, PTL

(***************************************************************************)
(* The clock                                                               *)
(***************************************************************************)
Pending(p) == (ticks - ticks0[p]) % TICKMOD < nticks[p]
Asleep(p) == state[p] = "SLEEPING" /\ chan[p] = TicksChan
At(p, l) == state[p] = "RUNNING" /\ pc[p] = l

\* Between its test of ticks and the switch a process holds tickslock, then
\* ptable.lock: only ticks++ can come after the second, wakeup() cannot.
ClockInv ==
  /\ \A p \in Procs : Asleep(p) => Pending(p) \/ irq[0] = "wakeup"
  /\ \A p \in Procs : At(p, "sleep_sw") => Pending(p)
  /\ \A p \in Procs : At(p, "sleep_commit") => Pending(p) \/ irq[0] = "wakeup"

\* A step that neither counts nor wakes nor brings a process into sleep().
LEMMA ClockFrame ==
  ASSUME ClockInv, UNCHANGED <<ticks, ticks0, nticks>>,
         irq[0] = "wakeup" => irq'[0] = "wakeup",
         \A r \in Procs : state'[r] = "SLEEPING" /\ chan'[r] = TicksChan => Asleep(r),
         \A r \in Procs : state'[r] = "RUNNING" /\ pc'[r] \in {"sleep_sw", "sleep_commit"} =>
                            state[r] = "RUNNING" /\ pc'[r] = pc[r]
  PROVE  ClockInv'
BY DEF ClockInv, Asleep, At, Pending

\* A step within one process that does not go into sleep().
LEMMA ClockLocal ==
  ASSUME TypeOK, ClockInv, UNCHANGED <<state, chan, irq, ticks, ticks0, nticks>>,
         NEW p \in Procs, NEW l \in Locations \ {"sleep_sw", "sleep_commit"},
         pc' = [pc EXCEPT ![p] = l]
  PROVE  ClockInv'
<1>1. \A r \in Procs : pc'[r] \in {"sleep_sw", "sleep_commit"} => pc'[r] = pc[r]
  BY DEF TypeOK
<1>2. QED
  BY <1>1, ClockFrame DEF Asleep

\* Neither the processes nor the clock move.
LEMMA ClockStill ==
  ASSUME ClockInv, UNCHANGED <<state, chan, irq, ticks, ticks0, nticks, pc>>
  PROVE  ClockInv'
BY ClockFrame DEF Asleep

\* CPU 0 is not in the middle of a tick while a process holds tickslock.
LEMMA TickOwner ==
  ASSUME TypeOK, CpuInv, NEW p \in Procs, At(p, "sleep_sw")
  PROVE  tlock # NoCpu
<1>1. PICK c \in CPUs : cpuproc[c] = p
  BY DEF CpuInv, RunningOnCpu, OnCpu, At
<1>2. BusyOK(c, p)
  BY <1>1, OnBusy
<1>3. tlock = c
  BY <1>2 DEF BusyOK, At
<1>4. QED
  BY SMT, <1>3, SizeAssumption DEF CPUs, NoCpu

\* A process about to switch away in sleep() holds ptable.lock.
LEMMA CommitOwner ==
  ASSUME TypeOK, CpuInv, NEW p \in Procs, At(p, "sleep_commit")
  PROVE  plock # NoCpu
<1>1. PICK c \in CPUs : cpuproc[c] = p
  BY DEF CpuInv, RunningOnCpu, OnCpu, At
<1>2. BusyOK(c, p)
  BY <1>1, OnBusy
<1>3. plock = c
  BY <1>2 DEF BusyOK, At, WithPtable
<1>4. QED
  BY SMT, <1>3, SizeAssumption DEF CPUs, NoCpu

\* The test of sys_sleep() sends only processes with ticks to come to sleep.
LEMMA ClockTest ==
  ASSUME TypeOK, ClockInv, NEW c \in CPUs, NEW p \in Procs, On(c, p),
         NEW t0, NEW n, SleepTest(c, p, t0, n)
  PROVE  ClockInv'
<1>1. UNCHANGED <<state, chan, irq, ticks>> /\ state[p] = "RUNNING"
  BY ZenonT(40) DEF SleepTest, table, cpus, On
<1>d. DOMAIN pc = Procs /\ DOMAIN ticks0 = Procs /\ DOMAIN nticks = Procs
  BY DEF TypeOK
<1>s. \/ /\ (ticks - t0) % TICKMOD < n
         /\ pc' = [pc EXCEPT ![p] = "sleep_sw"]
         /\ ticks0' = [ticks0 EXCEPT ![p] = t0] /\ nticks' = [nticks EXCEPT ![p] = n]
      \/ /\ pc' = [pc EXCEPT ![p] = "ret"]
         /\ ticks0' = [ticks0 EXCEPT ![p] = 0] /\ nticks' = [nticks EXCEPT ![p] = 0]
  BY DEF SleepTest, Goto
<1>2. \A r \in Procs : r # p => pc'[r] = pc[r] /\ ticks0'[r] = ticks0[r] /\ nticks'[r] = nticks[r]
  BY <1>d, <1>s
<1>3. pc'[p] = "ret" \/ (pc'[p] = "sleep_sw" /\ (ticks - t0) % TICKMOD < n /\ ticks0'[p] = t0 /\ nticks'[p] = n)
  BY ZenonT(40), <1>d, <1>s
<1>4. QED
  BY ZenonT(40), <1>1, <1>2, <1>3 DEF ClockInv, Asleep, At, Pending

\* Every step keeps the clock invariant: one case per action.
LEMMA ClockNext == TypeOK /\ CpuInv /\ ClockInv /\ [Next]_vars => ClockInv'
<1> SUFFICES ASSUME TypeOK, CpuInv, ClockInv, [Next]_vars PROVE ClockInv'
  OBVIOUS
<1>1. ASSUME NEW c \in CPUs, NEW p \in Procs, fork_none(c, p) PROVE ClockInv'
  <2>1. UNCHANGED <<state, chan, irq, ticks, ticks0, nticks>> /\ pc' = [pc EXCEPT ![p] = "ret"]
    BY <1>1 DEF fork_none, Goto, table, cpus, frame
  <2>2. "ret" \in Locations \ {"sleep_sw", "sleep_commit"}
    BY DEF Locations, Unlocked, Resume
  <2> QED
    BY ZenonT(40), <2>1, <2>2, ClockLocal
<1>2. ASSUME NEW c \in CPUs, NEW p \in Procs, NEW q \in Procs, fork_alloc(c, p, q) PROVE ClockInv'
  <2>1. /\ UNCHANGED <<irq, ticks, ticks0, nticks>>
        /\ (\A r \in Procs : pc'[r] # pc[r] => pc'[r] \in {"fork_kstack", "forkret"})
        /\ chan' = chan /\ state' = [state EXCEPT ![q] = "EMBRYO"]
    BY <1>2 DEF fork_alloc, Goto, table, cpus, frame, TypeOK
  <2>a. \A r \in Procs : state'[r] = "SLEEPING" /\ chan'[r] = TicksChan => Asleep(r)
    BY <2>1, SizeAssumption DEF Asleep, TypeOK, Procs, TicksChan
  <2>b. \A r \in Procs : state'[r] = "RUNNING" /\ pc'[r] \in {"sleep_sw", "sleep_commit"} =>
                       state[r] = "RUNNING" /\ pc'[r] = pc[r]
    BY <2>1 DEF TypeOK
  <2> QED
    BY <2>1, <2>a, <2>b, ClockFrame
<1>3. ASSUME NEW c \in CPUs, NEW p \in Procs, sys_exit(c, p) PROVE ClockInv'
  <2>1. UNCHANGED <<state, chan, irq, ticks, ticks0, nticks>> /\ pc' = [pc EXCEPT ![p] = "exit"]
    BY <1>3 DEF sys_exit, Goto, table, cpus, frame
  <2>2. "exit" \in Locations \ {"sleep_sw", "sleep_commit"}
    BY DEF Locations, Unlocked, Resume
  <2> QED
    BY ZenonT(40), <2>1, <2>2, ClockLocal
<1>4. ASSUME NEW c \in CPUs, NEW p \in Procs, NEW k \in KillPids, sys_kill(c, p, k) PROVE ClockInv'
  <2>1. /\ UNCHANGED <<irq, ticks, ticks0, nticks>>
        /\ pc' = [pc EXCEPT ![p] = "ret"]
        /\ chan' = chan /\ \A r \in Procs : state'[r] = state[r] \/ state'[r] = "RUNNABLE"
    BY <1>4 DEF sys_kill, Goto, table, cpus, frame, TypeOK
  <2>a. \A r \in Procs : state'[r] = "SLEEPING" /\ chan'[r] = TicksChan => Asleep(r)
    BY ZenonT(40), <2>1, SizeAssumption DEF Asleep, TypeOK, Procs, TicksChan
  <2>b. \A r \in Procs : state'[r] = "RUNNING" /\ pc'[r] \in {"sleep_sw", "sleep_commit"} =>
                       state[r] = "RUNNING" /\ pc'[r] = pc[r]
    BY <2>1 DEF TypeOK
  <2> QED
    BY <2>1, <2>a, <2>b, ClockFrame
<1>5. ASSUME NEW c \in CPUs, NEW p \in Procs, NEW n \in SleepArgs, sys_sleep(c, p, n)
      PROVE  ClockInv'
  BY <1>5, ClockTest DEF sys_sleep, Syscall
<1>6. ASSUME NEW c \in CPUs, NEW p \in Procs, trap_fault(c, p) PROVE ClockInv'
  <2>1. UNCHANGED <<state, chan, irq, ticks, ticks0, nticks>> /\ pc' = [pc EXCEPT ![p] = "exit"]
    BY <1>6 DEF trap_fault, Goto, table, cpus, frame
  <2>2. "exit" \in Locations \ {"sleep_sw", "sleep_commit"}
    BY DEF Locations, Unlocked, Resume
  <2> QED
    BY <2>1, <2>2, ClockLocal
<1>7. ASSUME NEW c \in CPUs, NEW p \in Procs, NEW q \in Procs, wait_reap(c, p, q) PROVE ClockInv'
  <2>1. /\ UNCHANGED <<irq, ticks, ticks0, nticks>>
        /\ pc' = [pc EXCEPT ![p] = "ret"]
        /\ chan' = [chan EXCEPT ![p] = 0] /\ state' = [state EXCEPT ![q] = "UNUSED"]
    BY <1>7 DEF wait_reap, Goto, table, cpus, frame
  <2>a. \A r \in Procs : state'[r] = "SLEEPING" /\ chan'[r] = TicksChan => Asleep(r)
    BY <2>1, TicksApart, Types DEF Asleep
  <2>b. \A r \in Procs : state'[r] = "RUNNING" /\ pc'[r] \in {"sleep_sw", "sleep_commit"} =>
                       state[r] = "RUNNING" /\ pc'[r] = pc[r]
    BY <2>1 DEF TypeOK
  <2> QED
    BY <2>1, <2>a, <2>b, ClockFrame
<1>8. ASSUME NEW c \in CPUs, NEW p \in Procs, wait_fail(c, p) PROVE ClockInv'
  <2>1. /\ UNCHANGED <<irq, ticks, ticks0, nticks>>
        /\ pc' = [pc EXCEPT ![p] = "ret"]
        /\ chan' = [chan EXCEPT ![p] = 0] /\ state' = state
    BY <1>8 DEF wait_fail, Goto, table, cpus, frame
  <2>a. \A r \in Procs : state'[r] = "SLEEPING" /\ chan'[r] = TicksChan => Asleep(r)
    BY <2>1, TicksApart, Types DEF Asleep
  <2>b. \A r \in Procs : state'[r] = "RUNNING" /\ pc'[r] \in {"sleep_sw", "sleep_commit"} =>
                       state[r] = "RUNNING" /\ pc'[r] = pc[r]
    BY <2>1 DEF TypeOK
  <2> QED
    BY <2>1, <2>a, <2>b, ClockFrame
<1>9. ASSUME NEW c \in CPUs, NEW p \in Procs, wait_sleep(c, p) PROVE ClockInv'
  <2>1. /\ UNCHANGED <<irq, ticks, ticks0, nticks>>
        /\ pc' = [pc EXCEPT ![p] = "wait_ret"]
        /\ chan' = [chan EXCEPT ![p] = p] /\ state' = [state EXCEPT ![p] = "SLEEPING"]
    BY <1>9 DEF wait_sleep, Goto, table, cpus, frame
  <2>2. p # TicksChan
    BY SMT, SizeAssumption DEF Procs, TicksChan
  <2>3. \A r \in Procs : r # p => state'[r] = state[r] /\ chan'[r] = chan[r]
    BY <2>1 DEF TypeOK
  <2>4. chan'[p] = p
    BY <2>1 DEF TypeOK
  <2>a. \A r \in Procs : state'[r] = "SLEEPING" /\ chan'[r] = TicksChan => Asleep(r)
    BY ZenonT(40), <2>1, <2>2, <2>3, <2>4, SizeAssumption DEF Asleep, TypeOK, Procs, TicksChan
  <2>b. \A r \in Procs : state'[r] = "RUNNING" /\ pc'[r] \in {"sleep_sw", "sleep_commit"} =>
                       state[r] = "RUNNING" /\ pc'[r] = pc[r]
    BY <2>1, <2>2, <2>3, <2>4 DEF TypeOK
  <2> QED
    BY <2>1, <2>a, <2>b, ClockFrame
<1>10. ASSUME NEW c \in CPUs, NEW p \in Procs, fork_kstack(c, p) PROVE ClockInv'
  <2>1. /\ UNCHANGED <<irq, ticks, ticks0, nticks>>
        /\ (\A r \in Procs : pc'[r] # pc[r] => pc'[r] \in {"fork_copy", "forkret"})
        /\ chan' = chan /\ state' = state
    BY <1>10 DEF fork_kstack, Goto, table, cpus, frame, TypeOK
  <2>a. \A r \in Procs : state'[r] = "SLEEPING" /\ chan'[r] = TicksChan => Asleep(r)
    BY <2>1, SizeAssumption DEF Asleep, TypeOK, Procs, TicksChan
  <2>b. \A r \in Procs : state'[r] = "RUNNING" /\ pc'[r] \in {"sleep_sw", "sleep_commit"} =>
                       state[r] = "RUNNING" /\ pc'[r] = pc[r]
    BY <2>1 DEF TypeOK
  <2> QED
    BY <2>1, <2>a, <2>b, ClockFrame
<1>11. ASSUME NEW c \in CPUs, NEW p \in Procs, fork_fail(c, p) PROVE ClockInv'
  <2>1. /\ UNCHANGED <<irq, ticks, ticks0, nticks>>
        /\ pc' = [pc EXCEPT ![p] = "ret"]
        /\ chan' = chan /\ state' = [state EXCEPT ![np[p]] = "UNUSED"]
    BY <1>11 DEF fork_fail, Goto, table, cpus, frame
  <2>a. \A r \in Procs : state'[r] = "SLEEPING" /\ chan'[r] = TicksChan => Asleep(r)
    BY <2>1, SizeAssumption DEF Asleep, TypeOK, Procs, TicksChan
  <2>b. \A r \in Procs : state'[r] = "RUNNING" /\ pc'[r] \in {"sleep_sw", "sleep_commit"} =>
                       state[r] = "RUNNING" /\ pc'[r] = pc[r]
    BY <2>1 DEF TypeOK
  <2> QED
    BY <2>1, <2>a, <2>b, ClockFrame
<1>12. ASSUME NEW c \in CPUs, NEW p \in Procs, fork_copy(c, p) PROVE ClockInv'
  <2>1. UNCHANGED <<state, chan, irq, ticks, ticks0, nticks>> /\ pc' = [pc EXCEPT ![p] = "fork_run"]
    BY <1>12 DEF fork_copy, Goto, table, cpus, frame
  <2>2. "fork_run" \in Locations \ {"sleep_sw", "sleep_commit"}
    BY DEF Locations, Unlocked, Resume
  <2> QED
    BY <2>1, <2>2, ClockLocal
<1>13. ASSUME NEW c \in CPUs, NEW p \in Procs, fork_run(c, p) PROVE ClockInv'
  <2>1. /\ UNCHANGED <<irq, ticks, ticks0, nticks>>
        /\ pc' = [pc EXCEPT ![p] = "ret"]
        /\ chan' = chan /\ state' = [state EXCEPT ![np[p]] = "RUNNABLE"]
    BY <1>13 DEF fork_run, Goto, table, cpus, frame
  <2>a. \A r \in Procs : state'[r] = "SLEEPING" /\ chan'[r] = TicksChan => Asleep(r)
    BY <2>1, SizeAssumption DEF Asleep, TypeOK, Procs, TicksChan
  <2>b. \A r \in Procs : state'[r] = "RUNNING" /\ pc'[r] \in {"sleep_sw", "sleep_commit"} =>
                       state[r] = "RUNNING" /\ pc'[r] = pc[r]
    BY <2>1 DEF TypeOK
  <2> QED
    BY <2>1, <2>a, <2>b, ClockFrame
<1>14. ASSUME NEW c \in CPUs, NEW p \in Procs, exit(c, p) PROVE ClockInv'
  <2>1. /\ UNCHANGED <<irq, ticks, ticks0, nticks>>
        /\ pc' = pc
        /\ chan' = chan /\ \A r \in Procs : state'[r] = state[r] \/ state'[r] \in {"RUNNABLE", "ZOMBIE"}
    BY <1>14 DEF exit, Goto, table, cpus, frame, TypeOK
  <2>a. \A r \in Procs : state'[r] = "SLEEPING" /\ chan'[r] = TicksChan => Asleep(r)
    BY ZenonT(40), <2>1, SizeAssumption DEF Asleep, TypeOK, Procs, TicksChan
  <2>b. \A r \in Procs : state'[r] = "RUNNING" /\ pc'[r] \in {"sleep_sw", "sleep_commit"} =>
                       state[r] = "RUNNING" /\ pc'[r] = pc[r]
    BY <2>1 DEF TypeOK
  <2> QED
    BY ZenonT(40), <2>1, <2>a, <2>b, ClockFrame
<1>15. ASSUME NEW c \in CPUs, NEW p \in Procs, sleep_again(c, p) PROVE ClockInv'
  BY <1>15, ClockTest DEF sleep_again
<1>16. ASSUME NEW c \in CPUs, NEW p \in Procs, sleep_sw(c, p) PROVE ClockInv'
  <2>1. /\ UNCHANGED <<state, chan, irq, ticks, ticks0, nticks>>
        /\ pc' = [pc EXCEPT ![p] = "sleep_commit"] /\ At(p, "sleep_sw")
    BY <1>16 DEF sleep_sw, Goto, table, cpus, frame, On, At
  <2>2. Pending(p)
    BY <2>1 DEF ClockInv
  <2>3. \A r \in Procs : r # p => pc'[r] = pc[r]
    BY <2>1 DEF TypeOK
  <2>4. pc'[p] = "sleep_commit"
    BY <2>1 DEF TypeOK
  <2> QED
    BY <2>1, <2>2, <2>3, <2>4 DEF ClockInv, Asleep, At, Pending
<1>17. ASSUME NEW c \in CPUs, NEW p \in Procs, sleep_commit(c, p) PROVE ClockInv'
  <2>1. /\ UNCHANGED <<irq, ticks, ticks0, nticks>> /\ At(p, "sleep_commit")
        /\ \A r \in Procs : r # p => state'[r] = state[r] /\ chan'[r] = chan[r] /\ pc'[r] = pc[r]
        /\ state'[p] = "SLEEPING"
    BY <1>17 DEF sleep_commit, Goto, cpus, frame, On, At, TypeOK
  <2>2. Pending(p) \/ irq[0] = "wakeup"
    BY <2>1 DEF ClockInv
  <2> QED
    BY ZenonT(40), <2>1, <2>2 DEF ClockInv, Asleep, At, Pending
<1>18. ASSUME NEW c \in CPUs, NEW p \in Procs, syscall_ret(c, p) PROVE ClockInv'
  <2>1. /\ UNCHANGED <<state, chan, irq, ticks, ticks0, nticks>>
        /\ pc' = [pc EXCEPT ![p] = (IF killed[p] THEN "exit" ELSE "user")]
    BY <1>18 DEF syscall_ret, Goto, table, cpus, frame
  <2>2. (IF killed[p] THEN "exit" ELSE "user") \in Locations \ {"sleep_sw", "sleep_commit"}
    BY DEF Locations, Unlocked, Resume
  <2> QED
    BY <2>1, <2>2, ClockLocal
<1>19. ASSUME NEW c \in CPUs, NEW p \in Procs, sleep_ret(c, p) PROVE ClockInv'
  <2>1. /\ UNCHANGED <<irq, ticks, ticks0, nticks>>
        /\ pc' = [pc EXCEPT ![p] = "sleep_again"]
        /\ chan' = [chan EXCEPT ![p] = 0] /\ state' = state
    BY <1>19 DEF sleep_ret, Goto, table, cpus, frame
  <2>a. \A r \in Procs : state'[r] = "SLEEPING" /\ chan'[r] = TicksChan => Asleep(r)
    BY <2>1, TicksApart, Types DEF Asleep
  <2>b. \A r \in Procs : state'[r] = "RUNNING" /\ pc'[r] \in {"sleep_sw", "sleep_commit"} =>
                       state[r] = "RUNNING" /\ pc'[r] = pc[r]
    BY <2>1 DEF TypeOK
  <2> QED
    BY <2>1, <2>a, <2>b, ClockFrame
<1>20. ASSUME NEW c \in CPUs, NEW p \in Procs, forkret(c, p) PROVE ClockInv'
  <2>1. UNCHANGED <<state, chan, irq, ticks, ticks0, nticks>> /\ pc' = [pc EXCEPT ![p] = "user"]
    BY <1>20 DEF forkret, Goto, table, cpus, frame
  <2>2. "user" \in Locations \ {"sleep_sw", "sleep_commit"}
    BY DEF Locations, Unlocked, Resume
  <2> QED
    BY <2>1, <2>2, ClockLocal
<1>21. ASSUME NEW c \in CPUs, NEW p \in Procs, yield_ret(c, p) PROVE ClockInv'
  <2>1. /\ UNCHANGED <<state, chan, irq, ticks, ticks0, nticks>>
        /\ pc' = [pc EXCEPT ![p] = (IF back[p] = "user" /\ killed[p] THEN "exit" ELSE back[p])]
    BY <1>21 DEF yield_ret, Goto, table, cpus, frame
  <2>2. (IF back[p] = "user" /\ killed[p] THEN "exit" ELSE back[p]) \in Locations \ {"sleep_sw", "sleep_commit"}
    BY DEF Locations, Unlocked, Resume, CpuInv, BackOK
  <2> QED
    BY <2>1, <2>2, ClockLocal
<1>22. ASSUME NEW c \in CPUs, exit_init(c) PROVE ClockInv'
  BY <1>22, ClockStill DEF exit_init, table, cpus, frame
<1>23. ASSUME NEW c \in CPUs, timer_tick(c) PROVE ClockInv'
  <2>1. /\ UNCHANGED <<state, chan, pc>> /\ tlock = NoCpu /\ irq'[0] = "wakeup"
    BY <1>23 DEF timer_tick, table, frame, TypeOK
  <2>2. \A r \in Procs : ~At(r, "sleep_sw")
    BY <2>1, TickOwner
  <2> QED
    BY <2>1, <2>2 DEF ClockInv, Asleep, At
<1>24. ASSUME NEW c \in CPUs, timer_wakeup(c) PROVE ClockInv'
  <2>1. /\ UNCHANGED <<chan, ticks, ticks0, nticks, pc>> /\ plock = NoCpu
        /\ \A r \in Procs :
              /\ state'[r] = "SLEEPING" => state[r] = "SLEEPING" /\ chan[r] # TicksChan
              /\ state'[r] = "RUNNING" => state[r] = "RUNNING"
    BY <1>24 DEF timer_wakeup, wakeup1, frame
  <2>2. \A r \in Procs : ~At(r, "sleep_commit")
    BY <2>1, CommitOwner
  <2> QED
    BY <2>1, <2>2 DEF ClockInv, Asleep, At, Pending
<1>25. ASSUME NEW c \in CPUs, timer_other(c) PROVE ClockInv'
  <2>1. UNCHANGED <<state, chan, ticks, ticks0, nticks, pc>> /\ irq'[0] = irq[0]
    <3>0. 0 \in CPUs
      BY SMT, SizeAssumption DEF CPUs
    <3>1. c # 0 /\ irq' = [irq EXCEPT ![c] = "trap_end"]
      BY <1>25 DEF timer_other
    <3>2. UNCHANGED <<state, chan, ticks, ticks0, nticks, pc>>
      BY <1>25 DEF timer_other, table, frame
    <3>3. QED
      BY <3>0, <3>1, <3>2, Types
  <2> QED
    BY <2>1, ClockFrame DEF Asleep
<1>26. ASSUME NEW c \in CPUs, trap_end(c) PROVE ClockInv'
  <2>1. /\ UNCHANGED <<chan, ticks, ticks0, nticks>> /\ (irq[0] = "wakeup" => irq'[0] = "wakeup")
        /\ \A r \in Procs : state'[r] = state[r] \/ state'[r] = "RUNNABLE"
        /\ \A r \in Procs : pc'[r] = pc[r] \/ pc'[r] \in {"exit", "yield_ret"}
    <3>1. /\ UNCHANGED <<chan, ticks, ticks0, nticks>>
          /\ irq[c] = "trap_end" /\ irq' = [irq EXCEPT ![c] = "none"]
      BY <1>26 DEF trap_end
    <3>2. irq[0] = "wakeup" => irq'[0] = "wakeup"
      <4>1. 0 \in CPUs
        BY SMT, SizeAssumption DEF CPUs
      <4>2. QED
        BY <3>1, <4>1, Types
    <3>3. \A r \in Procs : state'[r] = state[r] \/ state'[r] = "RUNNABLE"
      BY <1>26, Types DEF trap_end
    <3>4. \A r \in Procs : pc'[r] = pc[r] \/ pc'[r] \in {"exit", "yield_ret"}
      BY <1>26, Types DEF trap_end, Goto
    <3> QED
      BY <3>1, <3>2, <3>3, <3>4
  <2> QED
    BY <2>1, ClockFrame DEF Asleep
<1>27. ASSUME NEW c \in CPUs, NEW q \in Procs, sched_pick(c, q) PROVE ClockInv'
  <2>1. /\ UNCHANGED <<irq, ticks, ticks0, nticks>>
        /\ pc' = pc
        /\ chan' = chan /\ state' = [state EXCEPT ![q] = "RUNNING"]
    BY <1>27 DEF sched_pick, Goto, table, cpus, frame
  <2>2. pc[q] \in Resume
    BY <1>27 DEF sched_pick, IsFirst, Candidates, CpuInv, ResumeOK
  <2>3. pc[q] \notin {"sleep_sw", "sleep_commit"}
    BY <2>2 DEF Resume
  <2>a. \A r \in Procs : state'[r] = "SLEEPING" /\ chan'[r] = TicksChan => Asleep(r)
    BY <2>1, <2>3, SizeAssumption DEF Asleep, TypeOK, Procs, TicksChan
  <2>b. \A r \in Procs : state'[r] = "RUNNING" /\ pc'[r] \in {"sleep_sw", "sleep_commit"} =>
                       state[r] = "RUNNING" /\ pc'[r] = pc[r]
    BY <2>1, <2>3 DEF TypeOK
  <2> QED
    BY <2>1, <2>a, <2>b, ClockFrame
<1>28. ASSUME NEW c \in CPUs, NEW q \in Procs, sched_return(c, q) PROVE ClockInv'
  BY <1>28, ClockStill DEF sched_return, table, cpus, frame
<1>29. ASSUME NEW c \in CPUs, sched_end(c) PROVE ClockInv'
  BY <1>29, ClockStill DEF sched_end, table, cpus, frame
<1>30. ASSUME NEW c \in CPUs, halt(c) PROVE ClockInv'
  BY <1>30, ClockStill DEF halt, table, cpus, frame
<1>u. CASE UNCHANGED vars
  BY <1>u, ClockStill DEF vars, table, cpus, frame
<1> QED
  BY <1>1, <1>2, <1>3, <1>4, <1>5, <1>6, <1>7, <1>8, <1>9, <1>10, <1>11, <1>12, <1>13,
     <1>14, <1>15, <1>16, <1>17, <1>18, <1>19, <1>20, <1>21, <1>22, <1>23, <1>24, <1>25,
     <1>26, <1>27, <1>28, <1>29, <1>30, <1>u
  DEF Next, UserCall, Wait, KernelStep, Resumed, Timer, timer, Scheduler, Panicked

\* A process in sys_sleep() goes to sleep only with ticks to come, and wakeup()
\* of the tick that makes it due finds it asleep: the test of ticks and the
\* switch are atomic for the timer interrupt.
THEOREM NoOverdueSleeper == Spec => []SleeperNotOverdue
<1>1. Init => ClockInv
  <2> SUFFICES ASSUME Init PROVE ClockInv
    OBVIOUS
  <2>1. \A p \in Procs : state[p] \in {"RUNNABLE", "UNUSED"}
    BY DEF Init
  <2> QED
    BY <2>1 DEF ClockInv, Asleep, At
<1>2. ClockInv => SleeperNotOverdue
  BY DEF ClockInv, SleeperNotOverdue, Asleep, Pending
<1>3. QED
  BY <1>1, <1>2, ClockNext, TypeCorrect, Invariants, PTL DEF Spec
=============================================================================
