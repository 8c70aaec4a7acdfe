----------------------------- MODULE ProcProofs -----------------------------
(***************************************************************************)
(* Theorems about Proc, for every number of slots and CPUs.                *)
(*                                                                         *)
(* Two strengthenings carry them and are proved together.  CpuInv is the   *)
(* discipline of the two spinlocks: which CPU holds which lock follows     *)
(* from where its process, its scheduler and its interrupt handler are.    *)
(* ForkInv is the ownership of slots: an EMBRYO belongs to exactly one     *)
(* process in fork(), which alone changes it, without ptable.lock.         *)
(***************************************************************************)
EXTENDS Proc, TLAPS

\* Leaves that name no prover are Zenon's.
USE Zenon

(***************************************************************************)
(* The invariants                                                          *)
(***************************************************************************)
\* Where p is in its system call, seen through a yield().
Loc(p) == IF pc[p] = "yield_ret" THEN back[p] ELSE pc[p]

WithPtable == Resume \cup {"sleep_commit"}

\* A CPU that executes process p: the locks follow from where p is.
BusyOK(c, p) ==
  /\ idle[c] = "no"
  /\ state[p] \in {"RUNNING", "RUNNABLE", "SLEEPING", "ZOMBIE"}
  /\ state[p] = "RUNNING" => (plock = c <=> pc[p] \in WithPtable)
  /\ state[p] = "RUNNING" => (tlock = c <=> pc[p] = "sleep_sw" \/ irq[c] = "wakeup")
  /\ state[p] = "RUNNING" => (irq[c] # "none" => pc[p] \in Unlocked)
  /\ state[p] # "RUNNING" => plock = c /\ tlock # c /\ irq[c] = "none"

\* A CPU in its scheduler.
IdleOK(c) ==
  /\ tlock = c <=> irq[c] = "wakeup"
  /\ plock = c => irq[c] = "none" /\ idle[c] = "no"

CpuDistinct == \A c, d \in CPUs : c # d /\ cpuproc[c] = cpuproc[d] => cpuproc[c] = 0
RunningOnCpu == \A p \in Procs : state[p] = "RUNNING" => OnCpu(p)
Busy == \A c \in CPUs : cpuproc[c] # 0 => BusyOK(c, cpuproc[c])
Idle == \A c \in CPUs : cpuproc[c] = 0 => IdleOK(c)
ResumeOK == \A p \in Procs : state[p] \in {"RUNNABLE", "SLEEPING"} => pc[p] \in Resume
BackOK == \A p \in Procs : back[p] \in Unlocked

CpuInv == CpuDistinct /\ RunningOnCpu /\ Busy /\ Idle /\ ResumeOK /\ BackOK

\* p is in fork(), between allocproc() and the last step.
ForkLocs == {"fork_kstack", "fork_copy", "fork_run"}
Forking(p) == Live(p) /\ Loc(p) \in ForkLocs

\* What p has made of the slot q it allocated.
ChildOK(p, q) ==
  /\ state[q] = "EMBRYO"
  /\ kstack[q] <=> Loc(p) # "fork_kstack"
  /\ parent[q] = IF Loc(p) = "fork_run" THEN p ELSE 0
  /\ Loc(p) # "fork_kstack" => pc[q] = "forkret"

ForkChild == \A p \in Procs : Forking(p) => ChildOK(p, np[p])
ForkDistinct == \A p, q \in Procs : Forking(p) /\ Forking(q) /\ np[p] = np[q] => p = q
EmbryoOwned == \A q \in Procs : state[q] = "EMBRYO" => \E p \in Procs : Forking(p) /\ np[p] = q
UnusedClean == \A q \in Procs : state[q] = "UNUSED" => parent[q] = 0 /\ ~kstack[q]
StackOK == \A q \in Procs : Live(q) \/ state[q] = "ZOMBIE" => kstack[q]

ForkInv == ForkChild /\ ForkDistinct /\ EmbryoOwned /\ UnusedClean /\ StackOK

(***************************************************************************)
(* Types                                                                   *)
(***************************************************************************)
\* Every field of the table and of the CPUs keeps its type; in particular no
\* loop of the scheduler runs past the last slot of the table.
THEOREM TypeCorrect == Spec => []TypeOK
<1>1. Init => TypeOK
  <2> SUFFICES ASSUME Init PROVE TypeOK
    OBVIOUS
  <2>1. initproc \in Procs /\ 0 \in 0..TICKMOD-1 /\ 1 \in 1..NPROC+1
    BY SMT, SizeAssumption DEF initproc, Procs
  <2> QED
    BY <2>1 DEF Init, TypeOK, NoCpu, States, Locations, Unlocked, Resume
<1>2. TypeOK /\ [Next]_vars => TypeOK'
  <2> SUFFICES ASSUME TypeOK, [Next]_vars PROVE TypeOK'
    OBVIOUS
  <2>1. ASSUME NEW c \in CPUs, NEW p \in Procs, fork_none(c, p) PROVE TypeOK'
    BY <2>1 DEF fork_none, TypeOK, Goto, Locations, Unlocked, Resume, table, cpus, frame
  <2>2. ASSUME NEW c \in CPUs, NEW p \in Procs, NEW q \in Procs, fork_alloc(c, p, q) PROVE TypeOK'
    BY SMT, <2>2
    DEF fork_alloc, TypeOK, Goto, Locations, Unlocked, Resume, States, cpus, IsFirst, Unused
  <2>3. ASSUME NEW c \in CPUs, NEW p \in Procs, sys_exit(c, p) PROVE TypeOK'
    BY <2>3 DEF sys_exit, TypeOK, Goto, Locations, Unlocked, Resume, table, cpus, frame
  <2>4. ASSUME NEW c \in CPUs, NEW p \in Procs, NEW k \in KillPids, sys_kill(c, p, k) PROVE TypeOK'
    BY <2>4 DEF sys_kill, TypeOK, Goto, Locations, Unlocked, Resume, States, cpus, frame
  <2>5. ASSUME NEW c \in CPUs, NEW p \in Procs, NEW n \in SleepArgs, sys_sleep(c, p, n)
        PROVE  TypeOK'
    BY SMT, <2>5, SizeAssumption, ArgAssumption
    DEF sys_sleep, TypeOK, SleepTest, table, cpus, Goto, Locations, Unlocked, Resume
  <2>6. ASSUME NEW c \in CPUs, NEW p \in Procs, trap_fault(c, p) PROVE TypeOK'
    BY <2>6 DEF trap_fault, TypeOK, Goto, Locations, Unlocked, Resume, cpus, frame
  <2>7. ASSUME NEW c \in CPUs, NEW p \in Procs, NEW q \in Procs, wait_reap(c, p, q) PROVE TypeOK'
    BY <2>7
    DEF wait_reap, TypeOK, Goto, Locations, Unlocked, Resume, States, NoCpu, cpus, frame
  <2>8. ASSUME NEW c \in CPUs, NEW p \in Procs, wait_fail(c, p) PROVE TypeOK'
    BY <2>8 DEF wait_fail, TypeOK, Goto, Locations, Unlocked, Resume, NoCpu, cpus, frame
  <2>9. ASSUME NEW c \in CPUs, NEW p \in Procs, wait_sleep(c, p) PROVE TypeOK'
    BY <2>9 DEF wait_sleep, TypeOK, Goto, Locations, Unlocked, Resume, States, cpus, frame
  <2>10. ASSUME NEW c \in CPUs, NEW p \in Procs, fork_kstack(c, p) PROVE TypeOK'
    BY <2>10 DEF fork_kstack, TypeOK, Goto, Locations, Unlocked, Resume, cpus, frame
  <2>11. ASSUME NEW c \in CPUs, NEW p \in Procs, fork_fail(c, p) PROVE TypeOK'
    BY <2>11 DEF fork_fail, TypeOK, Goto, Locations, Unlocked, Resume, States, cpus
  <2>12. ASSUME NEW c \in CPUs, NEW p \in Procs, fork_copy(c, p) PROVE TypeOK'
    BY <2>12 DEF fork_copy, TypeOK, Goto, Locations, Unlocked, Resume, cpus, frame
  <2>13. ASSUME NEW c \in CPUs, NEW p \in Procs, fork_run(c, p) PROVE TypeOK'
    BY <2>13 DEF fork_run, TypeOK, Goto, Locations, Unlocked, Resume, States, cpus
  <2>14. ASSUME NEW c \in CPUs, NEW p \in Procs, exit(c, p) PROVE TypeOK'
    <3>1. initproc \in Procs
      BY SMT, SizeAssumption DEF initproc, Procs
    <3> QED
      BY <2>14, <3>1 DEF exit, TypeOK, States, cpus, frame
  <2>15. ASSUME NEW c \in CPUs, NEW p \in Procs, sleep_again(c, p) PROVE TypeOK'
    <3>1. /\ UNCHANGED <<table, plock, cpus, ticks, back, np, panicked>>
          /\ tlock' \in {c, tlock}
          /\ pc' \in {[pc EXCEPT ![p] = "sleep_sw"], [pc EXCEPT ![p] = "ret"]}
          /\ ticks0' = ticks0 \/ ticks0' = [ticks0 EXCEPT ![p] = 0]
          /\ nticks' = nticks \/ nticks' = [nticks EXCEPT ![p] = 0]
      BY <2>15 DEF sleep_again, SleepTest, Goto, TypeOK
    <3>2. 0 \in 0..TICKMOD-1
      BY SMT, SizeAssumption
    <3> QED
      BY SMT, <3>1, <3>2 DEF TypeOK, table, cpus, Locations, Unlocked, Resume
  <2>16. ASSUME NEW c \in CPUs, NEW p \in Procs, sleep_sw(c, p) PROVE TypeOK'
    BY <2>16
    DEF sleep_sw, TypeOK, Goto, Locations, Unlocked, Resume, NoCpu, table, cpus, frame
  <2>17. ASSUME NEW c \in CPUs, NEW p \in Procs, sleep_commit(c, p) PROVE TypeOK'
    BY <2>17
    DEF sleep_commit, TypeOK, Goto, Locations, Unlocked, Resume, States, TicksChan, cpus,
        frame
  <2>18. ASSUME NEW c \in CPUs, NEW p \in Procs, syscall_ret(c, p) PROVE TypeOK'
    BY <2>18 DEF syscall_ret, TypeOK, Goto, Locations, Unlocked, Resume, table, cpus, frame
  <2>19. ASSUME NEW c \in CPUs, NEW p \in Procs, sleep_ret(c, p) PROVE TypeOK'
    BY <2>19 DEF sleep_ret, TypeOK, Goto, Locations, Unlocked, Resume, NoCpu, cpus, frame
  <2>20. ASSUME NEW c \in CPUs, NEW p \in Procs, forkret(c, p) PROVE TypeOK'
    BY <2>20
    DEF forkret, TypeOK, Goto, Locations, Unlocked, Resume, NoCpu, table, cpus, frame
  <2>21. ASSUME NEW c \in CPUs, NEW p \in Procs, yield_ret(c, p) PROVE TypeOK'
    BY <2>21 DEF yield_ret, TypeOK, Goto, Locations, Unlocked, Resume, NoCpu, table, cpus
  <2>22. ASSUME NEW c \in CPUs, exit_init(c) PROVE TypeOK'
    BY <2>22 DEF exit_init, TypeOK, table, cpus, frame
  <2>23. ASSUME NEW c \in CPUs, timer_tick(c) PROVE TypeOK'
    BY SMT, <2>23, SizeAssumption, ArgAssumption DEF timer_tick, TypeOK, table, frame, Unhalt
  <2>24. ASSUME NEW c \in CPUs, timer_wakeup(c) PROVE TypeOK'
    BY <2>24 DEF timer_wakeup, TypeOK, wakeup1, States, NoCpu, frame
  <2>25. ASSUME NEW c \in CPUs, timer_other(c) PROVE TypeOK'
    BY <2>25 DEF timer_other, TypeOK, table, frame, Unhalt
  <2>26. ASSUME NEW c \in CPUs, trap_end(c) PROVE TypeOK'
    <3>1. /\ {"exit", "yield_ret"} \subseteq Locations /\ "RUNNABLE" \in States
      BY DEF Locations, Unlocked, Resume, States
    <3>2. irq' \in [CPUs -> {"none", "wakeup", "trap_end"}] /\ plock' \in CPUs \cup {NoCpu}
      BY SMT, <2>26 DEF trap_end, TypeOK
    <3>3. \/ UNCHANGED <<state, pc, back>>
          \/ cpuproc[c] \in Procs /\ pc' = [pc EXCEPT ![cpuproc[c]] = "exit"] /\ UNCHANGED <<state, back>>
          \/ /\ cpuproc[c] \in Procs /\ pc' = [pc EXCEPT ![cpuproc[c]] = "yield_ret"]
             /\ state' = [state EXCEPT ![cpuproc[c]] = "RUNNABLE"]
             /\ back' = [back EXCEPT ![cpuproc[c]] = pc[cpuproc[c]]]
      <4>1. cpuproc[c] # 0 => cpuproc[c] \in Procs
        BY DEF TypeOK
      <4>2. QED
        BY <2>26, <4>1 DEF trap_end, Goto
    <3>4. state' \in [Procs -> States] /\ pc' \in [Procs -> Locations] /\ back' \in [Procs -> Locations]
      <4>1. state \in [Procs -> States] /\ pc \in [Procs -> Locations] /\ back \in [Procs -> Locations]
        BY DEF TypeOK
      <4>2. QED
        BY SMT, <3>1, <3>3, <4>1
    <3>5. QED
      BY <2>26, <3>2, <3>4 DEF trap_end, TypeOK
  <2>27. ASSUME NEW c \in CPUs, NEW q \in Procs, sched_pick(c, q) PROVE TypeOK'
    <3>1. q \in 1..NPROC+1 /\ q + 1 \in 1..NPROC+1
      BY SMT, SizeAssumption DEF Procs
    <3> QED
      BY <2>27, <3>1 DEF sched_pick, TypeOK, States, frame
  <2>28. ASSUME NEW c \in CPUs, NEW q \in Procs, sched_return(c, q) PROVE TypeOK'
    <3>1. q \in 1..NPROC+1 /\ q + 1 \in 1..NPROC+1
      BY SMT, SizeAssumption DEF Procs
    <3> QED
      BY <2>28, <3>1 DEF sched_return, TypeOK, table, frame
  <2>29. ASSUME NEW c \in CPUs, sched_end(c) PROVE TypeOK'
    BY SMT, <2>29, SizeAssumption, ArgAssumption DEF sched_end, TypeOK, table, NoCpu, frame
  <2>30. ASSUME NEW c \in CPUs, halt(c) PROVE TypeOK'
    BY <2>30 DEF halt, TypeOK, table, frame
  <2>u. CASE UNCHANGED vars
    BY <2>u DEF TypeOK, vars, table, cpus, frame
  <2> QED
    BY <2>1, <2>2, <2>3, <2>4, <2>5, <2>6, <2>7, <2>8, <2>9, <2>10, <2>11, <2>12, <2>13,
       <2>14, <2>15, <2>16, <2>17, <2>18, <2>19, <2>20, <2>21, <2>22, <2>23, <2>24, <2>25,
       <2>26, <2>27, <2>28, <2>29, <2>30, <2>u
    DEF Next, UserCall, Wait, KernelStep, Resumed, Timer, timer, Scheduler, Panicked
<1>3. QED
  BY <1>1, <1>2, PTL DEF Spec

\* The facts about numbers that the proofs below use: the values that stand
\* for no CPU, no process and the address of ticks are apart from the others.
LEMMA NotNoCpu == \A c \in CPUs : c # NoCpu
BY SMT, SizeAssumption DEF CPUs, NoCpu

\* Slots are numbered from 1, so 0 can stand for none.
LEMMA NotZero == \A p \in Procs : p # 0
BY SMT DEF Procs

\* The channel of the clock is no process.
LEMMA TicksApart == TicksChan # 0 /\ TicksChan \notin Procs
BY SMT, SizeAssumption DEF TicksChan, Procs

\* The types of the variables of processes and CPUs, without their ranges.
LEMMA Types ==
  TypeOK =>
    /\ state \in [Procs -> States] /\ DOMAIN parent = Procs
    /\ chan \in [Procs -> Procs \cup {0, TicksChan}]
    /\ pc \in [Procs -> Locations] /\ back \in [Procs -> Locations]
    /\ np \in [Procs -> Procs]
    /\ cpuproc \in [CPUs -> Procs \cup {0}]
    /\ idle \in [CPUs -> {"no", "about", "halted"}]
    /\ irq \in [CPUs -> {"none", "wakeup", "trap_end"}]
BY DEF TypeOK

(***************************************************************************)
(* The lock discipline                                                     *)
(***************************************************************************)
\* A CPU that may take ptable.lock, or has it and is not itself in swtch(),
\* finds every process that is on a CPU RUNNING.
LEMMA Settled ==
  ASSUME TypeOK, CpuInv, NEW c \in CPUs, NEW q \in Procs, OnCpu(q),
         \/ plock = NoCpu
         \/ plock = c /\ (cpuproc[c] = 0 \/ state[cpuproc[c]] = "RUNNING")
  PROVE  state[q] = "RUNNING"
<1>1. PICK d \in CPUs : cpuproc[d] = q
  BY DEF OnCpu
<1>2. q # 0 /\ d # NoCpu
  BY SMT, SizeAssumption DEF Procs, CPUs, NoCpu
<1>3. state[q] # "RUNNING" => plock = d
  BY <1>1, <1>2 DEF CpuInv, Busy, BusyOK
<1>4. QED
  BY <1>1, <1>2, <1>3

\* A slot that is free or being filled by fork() is on no CPU.
LEMMA OffCpu ==
  ASSUME CpuInv, NEW q \in Procs, state[q] \in {"UNUSED", "EMBRYO"}
  PROVE  ~OnCpu(q)
<1>1. ASSUME NEW d \in CPUs, cpuproc[d] = q PROVE FALSE
  <2>1. BusyOK(d, q)
    BY <1>1, NotZero DEF CpuInv, Busy
  <2>2. QED
    BY <2>1 DEF BusyOK
<1>2. QED
  BY <1>1 DEF OnCpu

\* A step keeps CpuInv if it concerns one CPU c: the other CPUs and the
\* processes on them are left alone, and c is left in order.
LEMMA CpuStep ==
  ASSUME TypeOK, CpuInv, NEW c \in CPUs,
         \A d \in CPUs : d # c =>
           /\ cpuproc'[d] = cpuproc[d] /\ idle'[d] = idle[d] /\ irq'[d] = irq[d]
           /\ (plock' = d <=> plock = d) /\ (tlock' = d <=> tlock = d),
         \A q \in Procs : q # cpuproc[c] /\ OnCpu(q) => state'[q] = state[q] /\ pc'[q] = pc[q],
         CpuDistinct', RunningOnCpu', ResumeOK', BackOK',
         cpuproc'[c] # 0 => BusyOK(c, cpuproc[c])',
         cpuproc'[c] = 0 => IdleOK(c)'
  PROVE  CpuInv'
<1>1. ASSUME NEW d \in CPUs, d # c, cpuproc'[d] # 0 PROVE BusyOK(d, cpuproc[d])'
  <2>d. cpuproc[d] # 0 /\ cpuproc[d] # cpuproc[c]
    BY <1>1 DEF CpuInv, CpuDistinct
  <2>1. cpuproc[d] # cpuproc[c] /\ cpuproc[d] \in Procs /\ OnCpu(cpuproc[d])
    BY <2>d, Types DEF OnCpu
  <2>2. BusyOK(d, cpuproc[d])
    BY <1>1 DEF CpuInv, Busy
  <2>3. /\ cpuproc'[d] = cpuproc[d] /\ idle'[d] = idle[d] /\ irq'[d] = irq[d]
        /\ (plock' = d <=> plock = d) /\ (tlock' = d <=> tlock = d)
    BY <1>1
  <2>4. state'[cpuproc[d]] = state[cpuproc[d]] /\ pc'[cpuproc[d]] = pc[cpuproc[d]]
    BY <2>1
  <2>5. QED
    BY <2>2, <2>3, <2>4 DEF BusyOK
<1>2. ASSUME NEW d \in CPUs, d # c, cpuproc'[d] = 0 PROVE IdleOK(d)'
  <2>1. IdleOK(d)
    BY <1>2 DEF CpuInv, Idle
  <2>2. /\ idle'[d] = idle[d] /\ irq'[d] = irq[d]
        /\ (plock' = d <=> plock = d) /\ (tlock' = d <=> tlock = d)
    BY <1>2
  <2>3. QED
    BY <2>1, <2>2 DEF IdleOK
<1>3. Busy'
  BY <1>1 DEF Busy
<1>4. Idle'
  BY <1>2 DEF Idle
<1>5. QED
  BY <1>3, <1>4 DEF CpuInv

\* The same for a step of the process p on c.
LEMMA ProcessStep ==
  ASSUME TypeOK, CpuInv, NEW c \in CPUs, NEW p \in Procs, cpuproc[c] = p,
         UNCHANGED <<cpuproc, idle, irq>>,
         \A d \in CPUs : d # c => (plock' = d <=> plock = d) /\ (tlock' = d <=> tlock = d),
         \A q \in Procs : q # p /\ OnCpu(q) => state'[q] = state[q] /\ pc'[q] = pc[q],
         \A q \in Procs : q # p /\ state'[q] = "RUNNING" => state[q] = "RUNNING",
         BusyOK(c, p)', ResumeOK', BackOK'
  PROVE  CpuInv'
<1>1. p # 0
  BY SMT DEF Procs
<1>2. CpuDistinct'
  BY DEF CpuInv, CpuDistinct
<1>3. RunningOnCpu'
  BY DEF CpuInv, RunningOnCpu, OnCpu
<1>4. QED
  BY <1>1, <1>2, <1>3, CpuStep

\* The running process of a CPU.
LEMMA OnBusy ==
  ASSUME CpuInv, NEW c \in CPUs, NEW p \in Procs, cpuproc[c] = p
  PROVE  BusyOK(c, p)
BY SMT DEF CpuInv, Busy, Procs

\* The case of a process that holds no lock before or after: it may change its
\* own pc, and slots that are on no CPU.
LEMMA UnlockedStep ==
  ASSUME TypeOK, CpuInv, NEW c \in CPUs, NEW p \in Procs, On(c, p),
         pc[p] \in Unlocked, pc'[p] \in Unlocked, state'[p] = "RUNNING",
         UNCHANGED <<back, plock, tlock, cpuproc, idle, irq>>,
         \A q \in Procs : q # p /\ OnCpu(q) => state'[q] = state[q] /\ pc'[q] = pc[q],
         \A q \in Procs : q # p /\ state'[q] = "RUNNING" => state[q] = "RUNNING",
         \A q \in Procs : q # p /\ state'[q] \in {"RUNNABLE", "SLEEPING"} => pc'[q] \in Resume
  PROVE  CpuInv'
<1>1. cpuproc[c] = p /\ irq[c] = "none" /\ state[p] = "RUNNING"
  BY DEF On
<1>2. BusyOK(c, p)
  BY <1>1, OnBusy
<1>3. /\ pc[p] \notin WithPtable /\ pc[p] # "sleep_sw"
      /\ pc'[p] \notin WithPtable /\ pc'[p] # "sleep_sw"
  BY DEF Unlocked, WithPtable, Resume
<1>4. BusyOK(c, p)'
  BY <1>1, <1>2, <1>3 DEF BusyOK
<1>5. ResumeOK' /\ BackOK'
  BY DEF CpuInv, ResumeOK, BackOK
<1>6. QED
  BY <1>1, <1>4, <1>5, ProcessStep

\* A step of p that touches no slot but its own pc.
LEMMA LocalStep ==
  ASSUME TypeOK, CpuInv, NEW c \in CPUs, NEW p \in Procs, On(c, p),
         pc[p] \in Unlocked, NEW l \in Unlocked, pc' = [pc EXCEPT ![p] = l],
         UNCHANGED <<state, back, plock, tlock, cpuproc, idle, irq>>
  PROVE  CpuInv'
<1>1. pc'[p] = l /\ \A q \in Procs : q # p => pc'[q] = pc[q]
  BY DEF TypeOK
<1>2. state'[p] = "RUNNING" /\ UNCHANGED <<back, plock, tlock, cpuproc, idle, irq>>
  BY DEF On
<1>3. \A q \in Procs : q # p /\ state'[q] \in {"RUNNABLE", "SLEEPING"} => pc'[q] \in Resume
  BY <1>1 DEF CpuInv, ResumeOK
<1>4. QED
  BY <1>1, <1>2, <1>3, UnlockedStep

\* A step that changes none of what the lock discipline is about.
LEMMA CpuUnchanged ==
  ASSUME CpuInv, UNCHANGED <<state, pc, back, plock, tlock, cpuproc, idle, irq>>
  PROVE  CpuInv'
<1>1. CpuDistinct' /\ RunningOnCpu' /\ ResumeOK' /\ BackOK'
  BY DEF CpuInv, CpuDistinct, RunningOnCpu, OnCpu, ResumeOK, BackOK
<1>2. Busy'
  BY DEF CpuInv, Busy, BusyOK
<1>3. Idle'
  BY DEF CpuInv, Idle, IdleOK
<1>4. QED
  BY <1>1, <1>2, <1>3 DEF CpuInv

\* Every step keeps the lock discipline: one case per action.
LEMMA CpuNext == TypeOK /\ CpuInv /\ ForkInv /\ [Next]_vars => CpuInv'
<1> SUFFICES ASSUME TypeOK, CpuInv, ForkInv, [Next]_vars PROVE CpuInv'
  OBVIOUS
<1>1. ASSUME NEW c \in CPUs, NEW p \in Procs, fork_none(c, p) PROVE CpuInv'
  <2>1. /\ On(c, p) /\ pc[p] \in Unlocked /\ "ret" \in Unlocked /\ pc' = [pc EXCEPT ![p] = "ret"]
        /\ UNCHANGED <<state, back, plock, tlock, cpuproc, idle, irq>>
    BY <1>1 DEF fork_none, Syscall, Goto, table, cpus, frame, Unused, Unlocked
  <2> QED
    BY <2>1, LocalStep
<1>2. ASSUME NEW c \in CPUs, NEW p \in Procs, NEW q \in Procs, fork_alloc(c, p, q) PROVE CpuInv'
  <2>1. /\ On(c, p) /\ pc[p] \in Unlocked /\ "fork_kstack" \in Unlocked
        /\ state' = [state EXCEPT ![q] = "EMBRYO"] /\ pc' = [pc EXCEPT ![p] = "fork_kstack"]
        /\ UNCHANGED <<back, plock, tlock, cpuproc, idle, irq>>
    BY <1>2 DEF fork_alloc, Syscall, Goto, cpus, Unlocked
  <2>2. state[q] = "UNUSED" /\ ~OnCpu(q) /\ q # p
    <3>1. state[q] = "UNUSED" /\ state[p] = "RUNNING"
      BY <1>2, <2>1 DEF fork_alloc, IsFirst, Unused, On
    <3>2. QED
      BY <3>1, OffCpu
  <2>4. pc'[p] = "fork_kstack" /\ state'[p] = "RUNNING"
    BY <2>1, <2>2 DEF On, TypeOK
  <2>5. \A r \in Procs : r # p /\ OnCpu(r) => state'[r] = state[r] /\ pc'[r] = pc[r]
    BY <2>1, <2>2 DEF TypeOK
  <2>6. \A r \in Procs : r # p =>
          /\ state'[r] = "RUNNING" => state[r] = "RUNNING"
          /\ state'[r] \in {"RUNNABLE", "SLEEPING"} => pc'[r] \in Resume
    BY <2>1, <2>2 DEF CpuInv, ResumeOK, Resume, TypeOK
  <2> QED
    BY <2>1, <2>4, <2>5, <2>6, UnlockedStep
<1>3. ASSUME NEW c \in CPUs, NEW p \in Procs, sys_exit(c, p) PROVE CpuInv'
  <2>1. /\ On(c, p) /\ pc[p] \in Unlocked /\ "exit" \in Unlocked /\ pc' = [pc EXCEPT ![p] = "exit"]
        /\ UNCHANGED <<state, back, plock, tlock, cpuproc, idle, irq>>
    BY <1>3 DEF sys_exit, Goto, table, cpus, frame, Unlocked
  <2> QED
    BY ZenonT(40), <2>1, LocalStep
<1>4. ASSUME NEW c \in CPUs, NEW p \in Procs, NEW k \in KillPids, sys_kill(c, p, k) PROVE CpuInv'
  <2>1. /\ On(c, p) /\ pc[p] \in Unlocked /\ "ret" \in Unlocked
        /\ pc' = [pc EXCEPT ![p] = "ret"]
        /\ UNCHANGED <<back, plock, tlock, cpuproc, idle, irq>>
    BY <1>4 DEF sys_kill, Syscall, Goto, cpus, frame, Unlocked
  <2>2. \A r \in Procs : OnCpu(r) => state[r] = "RUNNING"
    BY <1>4, <2>1, Settled DEF sys_kill, On
  <2>3. \A r \in Procs : state'[r] = state[r] \/ (state[r] = "SLEEPING" /\ state'[r] = "RUNNABLE")
    BY <1>4 DEF sys_kill
  <2>4. pc'[p] = "ret" /\ state'[p] = "RUNNING"
    BY <2>1, <2>2, <2>3 DEF On, TypeOK
  <2>5. \A r \in Procs : r # p /\ OnCpu(r) => state'[r] = state[r] /\ pc'[r] = pc[r]
    BY <2>1, <2>2, <2>3 DEF TypeOK
  <2>6. \A r \in Procs : r # p =>
          /\ state'[r] = "RUNNING" => state[r] = "RUNNING"
          /\ state'[r] \in {"RUNNABLE", "SLEEPING"} => pc'[r] \in Resume
    BY <2>1, <2>2, <2>3 DEF CpuInv, ResumeOK, Resume, TypeOK
  <2> QED
    BY <2>1, <2>4, <2>5, <2>6, UnlockedStep
<1>5. ASSUME NEW c \in CPUs, NEW p \in Procs, NEW n \in SleepArgs, sys_sleep(c, p, n) PROVE CpuInv'
  <2>1. /\ On(c, p) /\ pc[p] \in Unlocked /\ tlock = NoCpu /\ "ret" \in Unlocked
        /\ UNCHANGED <<state, back, plock, cpuproc, idle, irq>>
    BY <1>5 DEF sys_sleep, Syscall, SleepTest, Goto, table, cpus, Unlocked
  <2>2. CASE tlock' = tlock /\ pc' = [pc EXCEPT ![p] = "ret"]
    BY <2>1, <2>2, LocalStep
  <2>3. CASE tlock' = c /\ pc' = [pc EXCEPT ![p] = "sleep_sw"]
    <3>1. cpuproc[c] = p /\ BusyOK(c, p) /\ state[p] = "RUNNING" /\ irq[c] = "none"
      BY <2>1, NotZero DEF On, CpuInv, Busy
    <3>2. BusyOK(c, p)'
      BY <2>1, <2>3, <3>1 DEF BusyOK, TypeOK, Unlocked, WithPtable, Resume
    <3>3. ResumeOK' /\ BackOK'
      BY <2>1, <2>3, <3>1 DEF CpuInv, ResumeOK, BackOK, TypeOK
    <3>4. \A d \in CPUs : d # c => (tlock' = d <=> tlock = d)
      BY <2>1, <2>3, NotNoCpu
    <3>5. \A r \in Procs : r # p => pc'[r] = pc[r]
      BY <2>3 DEF TypeOK
    <3>6. QED
      BY <2>1, <3>1, <3>2, <3>3, <3>4, <3>5, ProcessStep
  <2> QED
    BY <1>5, <2>2, <2>3 DEF sys_sleep, SleepTest, Goto
<1>6. ASSUME NEW c \in CPUs, NEW p \in Procs, trap_fault(c, p) PROVE CpuInv'
  <2>1. /\ On(c, p) /\ pc[p] \in Unlocked /\ "exit" \in Unlocked /\ pc' = [pc EXCEPT ![p] = "exit"]
        /\ UNCHANGED <<state, back, plock, tlock, cpuproc, idle, irq>>
    BY <1>6 DEF trap_fault, Goto, cpus, frame, Unlocked
  <2> QED
    BY <2>1, LocalStep
<1>7. ASSUME NEW c \in CPUs, NEW p \in Procs, NEW q \in Procs, wait_reap(c, p, q) PROVE CpuInv'
  <2>1. /\ On(c, p) /\ cpuproc[c] = p /\ irq[c] = "none" /\ state[p] = "RUNNING"
        /\ plock' = NoCpu /\ tlock' = tlock /\ pc' = [pc EXCEPT ![p] = "ret"]
        /\ state' = [state EXCEPT ![q] = "UNUSED"] /\ UNCHANGED back
        /\ UNCHANGED <<cpuproc, idle, irq>>
    BY <1>7 DEF wait_reap, Syscall, InWait, On, Goto, cpus, frame
  <2>2. BusyOK(c, p)
    BY <2>1, OnBusy
  <2>3. plock \in {c, NoCpu} /\ tlock # c
    BY <1>7, <2>1, <2>2, NotNoCpu
    DEF wait_reap, InWait, Syscall, BusyOK, WithPtable, Resume, Unlocked
  <2>z. state[q] = "ZOMBIE" /\ ~OnCpu(q) /\ q # p
    BY <1>7, <2>1, <2>3, Settled DEF wait_reap, IsFirst, Zombies
  <2>4. \A d \in CPUs : d # c => (plock' = d <=> plock = d) /\ (tlock' = d <=> tlock = d)
    BY <2>1, <2>3, NotNoCpu
  <2>5. \A r \in Procs : r # p =>
          /\ OnCpu(r) => state'[r] = state[r] /\ pc'[r] = pc[r]
          /\ state'[r] = "RUNNING" => state[r] = "RUNNING"
    BY <2>1, <2>z DEF TypeOK
  <2>6. BusyOK(c, p)'
    BY <2>1, <2>2, <2>3, <2>z, NotNoCpu, Types DEF BusyOK, WithPtable, Resume, Unlocked
  <2>7. ResumeOK' /\ BackOK'
    BY <2>1, <2>z, Types DEF CpuInv, ResumeOK, BackOK, Resume, Unlocked
  <2> QED
    BY <2>1, <2>4, <2>5, <2>6, <2>7, ProcessStep
<1>8. ASSUME NEW c \in CPUs, NEW p \in Procs, wait_fail(c, p) PROVE CpuInv'
  <2>1. /\ On(c, p) /\ cpuproc[c] = p /\ irq[c] = "none" /\ state[p] = "RUNNING"
        /\ plock' = NoCpu /\ tlock' = tlock /\ pc' = [pc EXCEPT ![p] = "ret"]
        /\ UNCHANGED <<state, back>>
        /\ UNCHANGED <<cpuproc, idle, irq>>
    BY <1>8 DEF wait_fail, Syscall, InWait, On, Goto, cpus, frame
  <2>2. BusyOK(c, p)
    BY <2>1, OnBusy
  <2>3. plock \in {c, NoCpu} /\ tlock # c
    BY <1>8, <2>1, <2>2, NotNoCpu
    DEF wait_fail, InWait, Syscall, BusyOK, WithPtable, Resume, Unlocked
  <2>4. \A d \in CPUs : d # c => (plock' = d <=> plock = d) /\ (tlock' = d <=> tlock = d)
    BY <2>1, <2>3, NotNoCpu
  <2>5. \A r \in Procs : r # p =>
          /\ OnCpu(r) => state'[r] = state[r] /\ pc'[r] = pc[r]
          /\ state'[r] = "RUNNING" => state[r] = "RUNNING"
    BY <2>1 DEF TypeOK
  <2>6. BusyOK(c, p)'
    BY <2>1, <2>2, <2>3, NotNoCpu, Types DEF BusyOK, WithPtable, Resume, Unlocked
  <2>7. ResumeOK' /\ BackOK'
    BY <2>1 DEF CpuInv, ResumeOK, BackOK, Resume, Unlocked, TypeOK
  <2> QED
    BY <2>1, <2>4, <2>5, <2>6, <2>7, ProcessStep
<1>9. ASSUME NEW c \in CPUs, NEW p \in Procs, wait_sleep(c, p) PROVE CpuInv'
  <2>1. /\ On(c, p) /\ cpuproc[c] = p /\ irq[c] = "none" /\ state[p] = "RUNNING"
        /\ plock' = c /\ tlock' = tlock /\ pc' = [pc EXCEPT ![p] = "wait_ret"]
        /\ state' = [state EXCEPT ![p] = "SLEEPING"] /\ UNCHANGED back
        /\ UNCHANGED <<cpuproc, idle, irq>>
    BY <1>9 DEF wait_sleep, Syscall, InWait, On, Goto, cpus, frame
  <2>2. BusyOK(c, p)
    BY <2>1, OnBusy
  <2>3. plock \in {c, NoCpu} /\ tlock # c
    BY <1>9, <2>1, <2>2, NotNoCpu
    DEF wait_sleep, InWait, Syscall, BusyOK, WithPtable, Resume, Unlocked
  <2>4. \A d \in CPUs : d # c => (plock' = d <=> plock = d) /\ (tlock' = d <=> tlock = d)
    BY <2>1, <2>3, NotNoCpu
  <2>5. \A r \in Procs : r # p =>
          /\ OnCpu(r) => state'[r] = state[r] /\ pc'[r] = pc[r]
          /\ state'[r] = "RUNNING" => state[r] = "RUNNING"
    BY <2>1 DEF TypeOK
  <2>6. BusyOK(c, p)'
    BY <2>1, <2>2, <2>3, NotNoCpu
    DEF BusyOK, TypeOK, WithPtable, Resume, Unlocked
  <2>7. ResumeOK' /\ BackOK'
    BY <2>1 DEF CpuInv, ResumeOK, BackOK, Resume, Unlocked, TypeOK
  <2> QED
    BY <2>1, <2>4, <2>5, <2>6, <2>7, ProcessStep
<1>10. ASSUME NEW c \in CPUs, NEW p \in Procs, fork_kstack(c, p) PROVE CpuInv'
  <2>1. /\ On(c, p) /\ pc[p] \in Unlocked /\ "fork_copy" \in Unlocked
        /\ pc' = [pc EXCEPT ![p] = "fork_copy", ![np[p]] = "forkret"] /\ state' = state
        /\ UNCHANGED <<back, plock, tlock, cpuproc, idle, irq>>
    BY <1>10 DEF fork_kstack, cpus, frame, Goto, Unlocked
  <2>2. /\ state[np[p]] = "EMBRYO" /\ np[p] \in Procs /\ np[p] # p
        /\ pc[p] = "fork_run" => pc[np[p]] = "forkret"
    BY <1>10, <2>1
    DEF fork_kstack, On, ForkInv, ForkChild, ChildOK, Forking, Live, Loc, ForkLocs, TypeOK
  <2>3. ~OnCpu(np[p])
    BY <2>2, OffCpu
  <2>4. pc'[p] = "fork_copy" /\ state'[p] = "RUNNING"
    BY <2>1, <2>2, <2>3 DEF On, TypeOK
  <2>5. \A r \in Procs : r # p /\ OnCpu(r) => state'[r] = state[r] /\ pc'[r] = pc[r]
    BY <2>1, <2>2, <2>3 DEF TypeOK
  <2>6. \A r \in Procs : r # p =>
          /\ state'[r] = "RUNNING" => state[r] = "RUNNING"
          /\ state'[r] \in {"RUNNABLE", "SLEEPING"} => pc'[r] \in Resume
    BY <2>1, <2>2, <2>3 DEF CpuInv, ResumeOK, Resume, TypeOK
  <2> QED
    BY <2>1, <2>4, <2>5, <2>6, UnlockedStep
<1>11. ASSUME NEW c \in CPUs, NEW p \in Procs, fork_fail(c, p) PROVE CpuInv'
  <2>1. /\ On(c, p) /\ pc[p] \in Unlocked /\ "ret" \in Unlocked
        /\ pc' = [pc EXCEPT ![p] = "ret"] /\ state' = [state EXCEPT ![np[p]] = "UNUSED"]
        /\ UNCHANGED <<back, plock, tlock, cpuproc, idle, irq>>
    BY <1>11 DEF fork_fail, Goto, cpus, Unlocked
  <2>2. /\ state[np[p]] = "EMBRYO" /\ np[p] \in Procs /\ np[p] # p
        /\ pc[p] = "fork_run" => pc[np[p]] = "forkret"
    BY <1>11, <2>1
    DEF fork_fail, On, ForkInv, ForkChild, ChildOK, Forking, Live, Loc, ForkLocs, TypeOK
  <2>3. ~OnCpu(np[p])
    BY <2>2, OffCpu
  <2>4. pc'[p] = "ret" /\ state'[p] = "RUNNING"
    BY <2>1, <2>2, <2>3 DEF On, TypeOK
  <2>5. \A r \in Procs : r # p /\ OnCpu(r) => state'[r] = state[r] /\ pc'[r] = pc[r]
    BY <2>1, <2>2, <2>3 DEF TypeOK
  <2>6. \A r \in Procs : r # p =>
          /\ state'[r] = "RUNNING" => state[r] = "RUNNING"
          /\ state'[r] \in {"RUNNABLE", "SLEEPING"} => pc'[r] \in Resume
    BY <2>1, <2>2, <2>3 DEF CpuInv, ResumeOK, Resume, TypeOK
  <2> QED
    BY <2>1, <2>4, <2>5, <2>6, UnlockedStep
<1>12. ASSUME NEW c \in CPUs, NEW p \in Procs, fork_copy(c, p) PROVE CpuInv'
  <2>1. /\ On(c, p) /\ pc[p] \in Unlocked /\ "fork_run" \in Unlocked
        /\ pc' = [pc EXCEPT ![p] = "fork_run"]
        /\ UNCHANGED <<state, back, plock, tlock, cpuproc, idle, irq>>
    BY <1>12 DEF fork_copy, Goto, cpus, frame, Unlocked
  <2> QED
    BY <2>1, LocalStep
<1>13. ASSUME NEW c \in CPUs, NEW p \in Procs, fork_run(c, p) PROVE CpuInv'
  <2>1. /\ On(c, p) /\ pc[p] = "fork_run" /\ pc[p] \in Unlocked /\ "ret" \in Unlocked
        /\ pc' = [pc EXCEPT ![p] = "ret"] /\ state' = [state EXCEPT ![np[p]] = "RUNNABLE"]
        /\ UNCHANGED <<back, plock, tlock, cpuproc, idle, irq>>
    BY <1>13 DEF fork_run, Goto, cpus, Unlocked
  <2>2. /\ state[np[p]] = "EMBRYO" /\ np[p] \in Procs /\ np[p] # p
        /\ pc[p] = "fork_run" => pc[np[p]] = "forkret"
    BY <1>13, <2>1
    DEF fork_run, On, ForkInv, ForkChild, ChildOK, Forking, Live, Loc, ForkLocs, TypeOK
  <2>3. ~OnCpu(np[p])
    BY <2>2, OffCpu
  <2>4. pc'[p] = "ret" /\ state'[p] = "RUNNING"
    BY <2>1, <2>2, <2>3 DEF On, TypeOK
  <2>5. \A r \in Procs : r # p /\ OnCpu(r) => state'[r] = state[r] /\ pc'[r] = pc[r]
    BY <2>1, <2>2, <2>3 DEF TypeOK
  <2>6. \A r \in Procs : r # p =>
          /\ state'[r] = "RUNNING" => state[r] = "RUNNING"
          /\ state'[r] \in {"RUNNABLE", "SLEEPING"} => pc'[r] \in Resume
    BY <2>1, <2>2, <2>3 DEF CpuInv, ResumeOK, Resume, TypeOK
  <2>7. /\ pc'[p] \in Unlocked
        /\ \A r \in Procs : r # p /\ state'[r] = "RUNNING" => state[r] = "RUNNING"
        /\ \A r \in Procs : r # p /\ state'[r] \in {"RUNNABLE", "SLEEPING"} => pc'[r] \in Resume
    BY <2>1, <2>4, <2>6
  <2> QED
    BY <2>1, <2>4, <2>5, <2>7, UnlockedStep
<1>14. ASSUME NEW c \in CPUs, NEW p \in Procs, exit(c, p) PROVE CpuInv'
  <2>1. /\ On(c, p) /\ cpuproc[c] = p /\ irq[c] = "none" /\ state[p] = "RUNNING"
        /\ plock' = c /\ tlock' = tlock /\ UNCHANGED <<pc, back>>
        /\ UNCHANGED <<cpuproc, idle, irq>>
    BY <1>14 DEF exit, On, cpus, frame, Goto
  <2>2. BusyOK(c, p)
    BY <2>1, OnBusy
  <2>3. plock = NoCpu /\ tlock # c
    BY <1>14, <2>1, <2>2, NotNoCpu
    DEF exit, BusyOK, WithPtable, Resume, Unlocked
  <2>s. \A r \in Procs : OnCpu(r) => state[r] = "RUNNING"
    BY <2>1, <2>3, Settled
  <2>z. /\ state'[p] = "ZOMBIE"
        /\ \A r \in Procs : r # p => state'[r] = state[r] \/ (state[r] = "SLEEPING" /\ state'[r] = "RUNNABLE")
    BY <1>14 DEF exit
  <2>4. \A d \in CPUs : d # c => (plock' = d <=> plock = d) /\ (tlock' = d <=> tlock = d)
    BY <2>1, <2>3, NotNoCpu
  <2>5. \A r \in Procs : r # p =>
          /\ OnCpu(r) => state'[r] = state[r] /\ pc'[r] = pc[r]
          /\ state'[r] = "RUNNING" => state[r] = "RUNNING"
    BY <2>1, <2>s, <2>z DEF TypeOK
  <2>6. BusyOK(c, p)'
    BY <2>1, <2>2, <2>3, <2>s, <2>z, NotNoCpu
    DEF BusyOK, TypeOK, WithPtable, Resume, Unlocked
  <2>7. ResumeOK' /\ BackOK'
    BY <2>1, <2>s, <2>z DEF CpuInv, ResumeOK, BackOK, Resume, Unlocked, TypeOK
  <2> QED
    BY <2>1, <2>4, <2>5, <2>6, <2>7, ProcessStep
<1>15. ASSUME NEW c \in CPUs, NEW p \in Procs, sleep_again(c, p) PROVE CpuInv'
  <2>1. /\ On(c, p) /\ pc[p] \in Unlocked /\ tlock = NoCpu /\ "ret" \in Unlocked
        /\ UNCHANGED <<state, back, plock, cpuproc, idle, irq>>
    BY <1>15 DEF sleep_again, SleepTest, Goto, table, cpus, Unlocked
  <2>2. CASE tlock' = tlock /\ pc' = [pc EXCEPT ![p] = "ret"]
    BY ZenonT(40), <2>1, <2>2, LocalStep
  <2>3. CASE tlock' = c /\ pc' = [pc EXCEPT ![p] = "sleep_sw"]
    <3>1. cpuproc[c] = p /\ BusyOK(c, p) /\ state[p] = "RUNNING" /\ irq[c] = "none"
      BY <2>1, NotZero DEF On, CpuInv, Busy
    <3>2. BusyOK(c, p)'
      BY <2>1, <2>3, <3>1 DEF BusyOK, TypeOK, Unlocked, WithPtable, Resume
    <3>3. ResumeOK' /\ BackOK'
      BY <2>1, <2>3, <3>1 DEF CpuInv, ResumeOK, BackOK, TypeOK
    <3>4. \A d \in CPUs : d # c => (tlock' = d <=> tlock = d)
      BY <2>1, <2>3, NotNoCpu
    <3>5. \A r \in Procs : r # p => pc'[r] = pc[r]
      BY <2>3 DEF TypeOK
    <3>6. QED
      BY <2>1, <3>1, <3>2, <3>3, <3>4, <3>5, ProcessStep
  <2> QED
    BY <1>15, <2>2, <2>3 DEF sleep_again, SleepTest, Goto
<1>16. ASSUME NEW c \in CPUs, NEW p \in Procs, sleep_sw(c, p) PROVE CpuInv'
  <2>1. /\ On(c, p) /\ cpuproc[c] = p /\ irq[c] = "none" /\ state[p] = "RUNNING"
        /\ plock' = c /\ tlock' = NoCpu /\ pc' = [pc EXCEPT ![p] = "sleep_commit"]
        /\ UNCHANGED <<state, back>>
        /\ UNCHANGED <<cpuproc, idle, irq>>
    BY ZenonT(40), <1>16 DEF sleep_sw, On, Goto, table, cpus, frame
  <2>2. BusyOK(c, p)
    BY <2>1, OnBusy
  <2>3. plock = NoCpu /\ tlock = c
    BY <1>16, <2>1, <2>2, NotNoCpu
    DEF sleep_sw, BusyOK, WithPtable, Resume, Unlocked
  <2>4. \A d \in CPUs : d # c => (plock' = d <=> plock = d) /\ (tlock' = d <=> tlock = d)
    BY <2>1, <2>3, NotNoCpu
  <2>5. \A r \in Procs : r # p =>
          /\ OnCpu(r) => state'[r] = state[r] /\ pc'[r] = pc[r]
          /\ state'[r] = "RUNNING" => state[r] = "RUNNING"
    BY <2>1 DEF TypeOK
  <2>6. BusyOK(c, p)'
    BY <2>1, <2>2, <2>3, NotNoCpu
    DEF BusyOK, TypeOK, WithPtable, Resume, Unlocked
  <2>7. ResumeOK' /\ BackOK'
    BY <2>1 DEF CpuInv, ResumeOK, BackOK, Resume, Unlocked, TypeOK
  <2> QED
    BY <2>1, <2>4, <2>5, <2>6, <2>7, ProcessStep
<1>17. ASSUME NEW c \in CPUs, NEW p \in Procs, sleep_commit(c, p) PROVE CpuInv'
  <2>1. /\ On(c, p) /\ cpuproc[c] = p /\ irq[c] = "none" /\ state[p] = "RUNNING"
        /\ plock' = plock /\ tlock' = tlock /\ pc' = [pc EXCEPT ![p] = "sleep_ret"]
        /\ state' = [state EXCEPT ![p] = "SLEEPING"] /\ UNCHANGED back
        /\ UNCHANGED <<cpuproc, idle, irq>>
    BY <1>17 DEF sleep_commit, On, Goto, cpus, frame
  <2>2. BusyOK(c, p)
    BY <2>1, OnBusy
  <2>3. plock = c /\ tlock # c
    BY <1>17, <2>1, <2>2, NotNoCpu
    DEF sleep_commit, BusyOK, WithPtable, Resume, Unlocked
  <2>4. \A d \in CPUs : d # c => (plock' = d <=> plock = d) /\ (tlock' = d <=> tlock = d)
    BY <2>1, <2>3, NotNoCpu
  <2>5. \A r \in Procs : r # p =>
          /\ OnCpu(r) => state'[r] = state[r] /\ pc'[r] = pc[r]
          /\ state'[r] = "RUNNING" => state[r] = "RUNNING"
    BY <2>1 DEF TypeOK
  <2>6. BusyOK(c, p)'
    BY <2>1, <2>2, <2>3, NotNoCpu
    DEF BusyOK, TypeOK, WithPtable, Resume, Unlocked
  <2>7. ResumeOK' /\ BackOK'
    BY ZenonT(40), <2>1 DEF CpuInv, ResumeOK, BackOK, Resume, Unlocked, TypeOK
  <2> QED
    BY <2>1, <2>4, <2>5, <2>6, <2>7, ProcessStep
<1>18. ASSUME NEW c \in CPUs, NEW p \in Procs, syscall_ret(c, p) PROVE CpuInv'
  <2>1. /\ On(c, p) /\ pc[p] \in Unlocked /\ {"exit", "user"} \subseteq Unlocked
        /\ pc' = [pc EXCEPT ![p] = IF killed[p] THEN "exit" ELSE "user"]
        /\ UNCHANGED <<state, back, plock, tlock, cpuproc, idle, irq>>
    BY <1>18 DEF syscall_ret, Goto, table, cpus, frame, Unlocked
  <2> QED
    BY <2>1, LocalStep
<1>19. ASSUME NEW c \in CPUs, NEW p \in Procs, sleep_ret(c, p) PROVE CpuInv'
  <2>1. /\ On(c, p) /\ cpuproc[c] = p /\ irq[c] = "none" /\ state[p] = "RUNNING"
        /\ plock' = NoCpu /\ tlock' = tlock /\ pc' = [pc EXCEPT ![p] = "sleep_again"]
        /\ UNCHANGED <<state, back>>
        /\ UNCHANGED <<cpuproc, idle, irq>>
    BY <1>19 DEF sleep_ret, On, Goto, cpus, frame
  <2>2. BusyOK(c, p)
    BY <2>1, OnBusy
  <2>3. plock = c /\ tlock # c
    BY <1>19, <2>1, <2>2, NotNoCpu
    DEF sleep_ret, BusyOK, WithPtable, Resume, Unlocked
  <2>4. \A d \in CPUs : d # c => (plock' = d <=> plock = d) /\ (tlock' = d <=> tlock = d)
    BY <2>1, <2>3, NotNoCpu
  <2>5. \A r \in Procs : r # p =>
          /\ OnCpu(r) => state'[r] = state[r] /\ pc'[r] = pc[r]
          /\ state'[r] = "RUNNING" => state[r] = "RUNNING"
    BY <2>1 DEF TypeOK
  <2>6. BusyOK(c, p)'
    BY <2>1, <2>2, <2>3, NotNoCpu, Types DEF BusyOK, WithPtable, Resume, Unlocked
  <2>7. ResumeOK' /\ BackOK'
    BY <2>1 DEF CpuInv, ResumeOK, BackOK, Resume, Unlocked, TypeOK
  <2> QED
    BY ZenonT(40), <2>1, <2>4, <2>5, <2>6, <2>7, ProcessStep
<1>20. ASSUME NEW c \in CPUs, NEW p \in Procs, forkret(c, p) PROVE CpuInv'
  <2>1. /\ On(c, p) /\ cpuproc[c] = p /\ irq[c] = "none" /\ state[p] = "RUNNING"
        /\ plock' = NoCpu /\ tlock' = tlock /\ pc' = [pc EXCEPT ![p] = "user"]
        /\ UNCHANGED <<state, back>>
        /\ UNCHANGED <<cpuproc, idle, irq>>
    BY <1>20 DEF forkret, On, Goto, table, cpus, frame
  <2>2. BusyOK(c, p)
    BY <2>1, OnBusy
  <2>3. plock = c /\ tlock # c
    BY <1>20, <2>1, <2>2 DEF forkret, BusyOK, WithPtable, Resume
  <2>4. \A d \in CPUs : d # c => (plock' = d <=> plock = d) /\ (tlock' = d <=> tlock = d)
    BY <2>1, <2>3, NotNoCpu
  <2>5. \A r \in Procs : r # p =>
          /\ OnCpu(r) => state'[r] = state[r] /\ pc'[r] = pc[r]
          /\ state'[r] = "RUNNING" => state[r] = "RUNNING"
    BY <2>1 DEF TypeOK
  <2>6. BusyOK(c, p)'
    BY <2>1, <2>2, <2>3, NotNoCpu, Types DEF BusyOK, WithPtable, Resume, Unlocked
  <2>7. ResumeOK' /\ BackOK'
    BY <2>1 DEF CpuInv, ResumeOK, BackOK, Resume, Unlocked, TypeOK
  <2> QED
    BY ZenonT(40), <2>1, <2>4, <2>5, <2>6, <2>7, ProcessStep
<1>21. ASSUME NEW c \in CPUs, NEW p \in Procs, yield_ret(c, p) PROVE CpuInv'
  <2>1. /\ On(c, p) /\ cpuproc[c] = p /\ irq[c] = "none" /\ state[p] = "RUNNING"
        /\ plock' = NoCpu /\ tlock' = tlock /\ state' = state /\ back' = [back EXCEPT ![p] = "user"]
        /\ pc' = [pc EXCEPT ![p] = IF back[p] = "user" /\ killed[p] THEN "exit" ELSE back[p]]
        /\ UNCHANGED <<cpuproc, idle, irq>>
    BY <1>21 DEF yield_ret, On, Goto, table, cpus
  <2>2. BusyOK(c, p)
    BY <2>1, OnBusy
  <2>3. plock = c /\ tlock # c
    BY <1>21, <2>1, <2>2, NotNoCpu
    DEF yield_ret, BusyOK, WithPtable, Resume, Unlocked
  <2>b. pc'[p] \in Unlocked /\ pc'[p] \notin WithPtable /\ pc'[p] # "sleep_sw"
    <3>1. back[p] \in Unlocked /\ "exit" \in Unlocked
      BY DEF CpuInv, BackOK, Unlocked
    <3>2. pc'[p] \in Unlocked
      BY <2>1, <3>1 DEF TypeOK
    <3>3. QED
      BY <3>2 DEF Unlocked, WithPtable, Resume
  <2>4. \A d \in CPUs : d # c => (plock' = d <=> plock = d) /\ (tlock' = d <=> tlock = d)
    BY <2>1, <2>3, NotNoCpu
  <2>5. \A r \in Procs : r # p =>
          /\ OnCpu(r) => state'[r] = state[r] /\ pc'[r] = pc[r]
          /\ state'[r] = "RUNNING" => state[r] = "RUNNING"
    BY <2>1, <2>b DEF TypeOK
  <2>6. BusyOK(c, p)'
    BY <2>1, <2>2, <2>3, <2>b, NotNoCpu, Types DEF BusyOK, WithPtable, Resume, Unlocked
  <2>7. ResumeOK' /\ BackOK'
    BY <2>1, <2>b, Types DEF CpuInv, ResumeOK, BackOK, Resume, Unlocked
  <2> QED
    BY ZenonT(40), <2>1, <2>4, <2>5, <2>6, <2>7, ProcessStep
<1>22. ASSUME NEW c \in CPUs, exit_init(c) PROVE CpuInv'
  <2>1. UNCHANGED <<state, pc, back, plock, tlock, cpuproc, idle, irq>>
    BY <1>22 DEF exit_init, table, cpus, frame
  <2> QED
    BY <2>1, CpuUnchanged
<1>23. ASSUME NEW c \in CPUs, timer_tick(c) PROVE CpuInv'
  <2>1. plock # c /\ tlock # c /\ irq[c] = "none" /\ UNCHANGED <<state, pc, back, plock, cpuproc>>
    BY <1>23 DEF timer_tick, Interruptible, table, frame
  <2>2. \A d \in CPUs : d # c =>
          /\ idle'[d] = idle[d] /\ irq'[d] = irq[d]
          /\ tlock' = d <=> tlock = d
    BY <1>23, NotNoCpu, Types DEF timer_tick
  <2>3. ASSUME cpuproc[c] # 0 PROVE BusyOK(c, cpuproc[c])'
    <3>1. BusyOK(c, cpuproc[c]) /\ cpuproc[c] \in Procs
      BY <2>3 DEF CpuInv, Busy, TypeOK
    <3>2. state[cpuproc[c]] = "RUNNING" /\ pc[cpuproc[c]] \in Unlocked
      BY <2>1, <3>1 DEF BusyOK, TypeOK, Locations, WithPtable
    <3>3. QED
      BY <1>23, <2>1, <3>1, <3>2 DEF timer_tick, BusyOK, Unhalt, TypeOK, Unlocked
  <2>4. ASSUME cpuproc[c] = 0 PROVE IdleOK(c)'
    BY <1>23, <2>1 DEF timer_tick, IdleOK, Unhalt, TypeOK
  <2>5. CpuDistinct' /\ RunningOnCpu' /\ ResumeOK' /\ BackOK'
    BY <2>1 DEF CpuInv, CpuDistinct, RunningOnCpu, OnCpu, ResumeOK, BackOK
  <2>6. /\ cpuproc'[c] # 0 => BusyOK(c, cpuproc[c])'
        /\ cpuproc'[c] = 0 => IdleOK(c)'
    BY <2>1, <2>3, <2>4
  <2>7. \A d \in CPUs : d # c =>
          /\ cpuproc'[d] = cpuproc[d] /\ idle'[d] = idle[d] /\ irq'[d] = irq[d]
          /\ (plock' = d <=> plock = d) /\ (tlock' = d <=> tlock = d)
    BY <2>1, <2>2
  <2>8. \A r \in Procs : state'[r] = state[r] /\ pc'[r] = pc[r]
    BY <2>1
  <2> QED
    BY <2>5, <2>6, <2>7, <2>8, CpuStep
<1>24. ASSUME NEW c \in CPUs, timer_wakeup(c) PROVE CpuInv'
  <2>1. irq[c] = "wakeup" /\ plock = NoCpu /\ UNCHANGED <<pc, back, plock, cpuproc, idle>>
    BY <1>24 DEF timer_wakeup, frame
  <2>2. tlock = c
    BY <2>1, SizeAssumption DEF CpuInv, Busy, Idle, BusyOK, IdleOK, CPUs, NoCpu
  <2>3. \A d \in CPUs : d # c => irq'[d] = irq[d] /\ (tlock' = d <=> tlock = d)
    BY <1>24, <2>2, NotNoCpu, Types DEF timer_wakeup
  <2>4. \A r \in Procs : OnCpu(r) => state[r] = "RUNNING"
    BY <2>1, Settled
  <2>5. \A r \in Procs :
          /\ OnCpu(r) => state'[r] = state[r]
          /\ state'[r] = "RUNNING" => state[r] = "RUNNING"
          /\ state'[r] \in {"RUNNABLE", "SLEEPING"} => state[r] \in {"RUNNABLE", "SLEEPING"}
    BY <1>24, <2>4 DEF timer_wakeup, wakeup1, TypeOK
  <2>6. ASSUME cpuproc[c] # 0 PROVE BusyOK(c, cpuproc[c])'
    <3>1. BusyOK(c, cpuproc[c]) /\ cpuproc[c] \in Procs /\ OnCpu(cpuproc[c])
      BY <2>6 DEF CpuInv, Busy, TypeOK, OnCpu
    <3>r. state[cpuproc[c]] = "RUNNING"
      BY <2>4, <3>1
    <3>2. state'[cpuproc[c]] = "RUNNING" /\ pc[cpuproc[c]] \in Unlocked
      BY <2>1, <2>5, <3>1, <3>r DEF BusyOK
    <3>3. QED
      BY <1>24, <2>1, <3>1, <3>2, <3>r, SizeAssumption
      DEF timer_wakeup, BusyOK, TypeOK, Unlocked, WithPtable, Resume, CPUs, NoCpu
  <2>7. ASSUME cpuproc[c] = 0 PROVE IdleOK(c)'
    BY <1>24, <2>1, NotNoCpu, Types DEF timer_wakeup, IdleOK
  <2>8. CpuDistinct' /\ BackOK'
    BY <2>1 DEF CpuInv, CpuDistinct, BackOK
  <2>9. RunningOnCpu'
    BY <2>1, <2>5 DEF CpuInv, RunningOnCpu, OnCpu
  <2>10. ResumeOK'
    BY <2>1, <2>5 DEF CpuInv, ResumeOK
  <2>11. /\ cpuproc'[c] # 0 => BusyOK(c, cpuproc[c])'
         /\ cpuproc'[c] = 0 => IdleOK(c)'
    BY <2>1, <2>6, <2>7
  <2>12. \A d \in CPUs : d # c =>
          /\ cpuproc'[d] = cpuproc[d] /\ idle'[d] = idle[d] /\ irq'[d] = irq[d]
          /\ (plock' = d <=> plock = d) /\ (tlock' = d <=> tlock = d)
    BY <2>1, <2>3
  <2>13. \A r \in Procs : OnCpu(r) => state'[r] = state[r] /\ pc'[r] = pc[r]
    BY <2>1, <2>5
  <2> QED
    BY <2>8, <2>9, <2>10, <2>11, <2>12, <2>13, CpuStep
<1>25. ASSUME NEW c \in CPUs, timer_other(c) PROVE CpuInv'
  <2>1. plock # c /\ tlock # c /\ irq[c] = "none" /\ UNCHANGED <<state, pc, back, plock, cpuproc>>
    BY <1>25 DEF timer_other, Interruptible, table, frame
  <2>2. \A d \in CPUs : d # c =>
          /\ idle'[d] = idle[d] /\ irq'[d] = irq[d]
          /\ tlock' = d <=> tlock = d
    BY <1>25, SizeAssumption DEF timer_other, TypeOK, CPUs, NoCpu
  <2>3. ASSUME cpuproc[c] # 0 PROVE BusyOK(c, cpuproc[c])'
    <3>1. BusyOK(c, cpuproc[c]) /\ cpuproc[c] \in Procs
      BY <2>3 DEF CpuInv, Busy, TypeOK
    <3>2. state[cpuproc[c]] = "RUNNING" /\ pc[cpuproc[c]] \in Unlocked
      BY <2>1, <3>1 DEF BusyOK, TypeOK, Locations, WithPtable
    <3>3. QED
      BY <1>25, <2>1, <3>1, <3>2 DEF timer_other, BusyOK, Unhalt, TypeOK, Unlocked
  <2>4. ASSUME cpuproc[c] = 0 PROVE IdleOK(c)'
    BY <1>25, <2>1 DEF timer_other, IdleOK, Unhalt, TypeOK
  <2>5. CpuDistinct' /\ RunningOnCpu' /\ ResumeOK' /\ BackOK'
    BY <2>1 DEF CpuInv, CpuDistinct, RunningOnCpu, OnCpu, ResumeOK, BackOK
  <2>6. /\ cpuproc'[c] # 0 => BusyOK(c, cpuproc[c])'
        /\ cpuproc'[c] = 0 => IdleOK(c)'
    BY <2>1, <2>3, <2>4
  <2>7. \A d \in CPUs : d # c =>
          /\ cpuproc'[d] = cpuproc[d] /\ idle'[d] = idle[d] /\ irq'[d] = irq[d]
          /\ (plock' = d <=> plock = d) /\ (tlock' = d <=> tlock = d)
    BY <2>1, <2>2
  <2>8. \A r \in Procs : state'[r] = state[r] /\ pc'[r] = pc[r]
    BY <2>1
  <2> QED
    BY <2>5, <2>6, <2>7, <2>8, CpuStep
<1>26. ASSUME NEW c \in CPUs, trap_end(c) PROVE CpuInv'
  <2> DEFINE p == cpuproc[c]
  <2>1. irq[c] = "trap_end" /\ UNCHANGED <<cpuproc, idle, tlock>>
    BY <1>26 DEF trap_end
  <2>2. /\ irq'[c] = "none"
        /\ \A d \in CPUs : d # c => irq'[d] = irq[d]
    BY <1>26 DEF trap_end, TypeOK
  <2>3. CpuDistinct'
    BY <2>1 DEF CpuInv, CpuDistinct
  <2>4. CASE p = 0
    <3>1. UNCHANGED <<state, plock, pc, back>>
      BY <1>26, <2>4 DEF trap_end
    <3>2. RunningOnCpu' /\ ResumeOK' /\ BackOK'
      BY <2>1, <3>1 DEF CpuInv, RunningOnCpu, OnCpu, ResumeOK, BackOK
    <3>3. IdleOK(c)'
      BY <2>1, <2>2, <2>4, <3>1 DEF CpuInv, Idle, IdleOK
    <3>4. QED
      BY <2>1, <2>2, <2>3, <2>4, <3>1, <3>2, <3>3, CpuStep
  <2>5. CASE p # 0
    <3>1. p \in Procs /\ BusyOK(c, p)
      BY <2>5 DEF TypeOK, CpuInv, Busy
    <3>2. state[p] = "RUNNING" /\ pc[p] \in Unlocked /\ tlock # c /\ plock # c
      BY <2>1, <3>1 DEF BusyOK, Unlocked, WithPtable, Resume
    <3>3. CASE killed[p] /\ pc[p] = "user"
      <4>1. UNCHANGED <<state, plock, back>> /\ pc' = [pc EXCEPT ![p] = "exit"]
        BY <1>26, <2>5, <3>3 DEF trap_end, Goto
      <4>2. RunningOnCpu' /\ BackOK'
        BY <2>1, <4>1 DEF CpuInv, RunningOnCpu, OnCpu, BackOK
      <4>3. ResumeOK'
        BY <3>1, <3>2, <4>1 DEF CpuInv, ResumeOK, TypeOK
      <4>4. BusyOK(c, p)'
        BY <2>1, <2>2, <3>1, <3>2, <4>1 DEF BusyOK, TypeOK, WithPtable, Resume, Unlocked
      <4>5. \A r \in Procs : r # p => state'[r] = state[r] /\ pc'[r] = pc[r]
        BY <4>1 DEF TypeOK
      <4>6. QED
        BY ZenonT(40), <2>1, <2>2, <2>3, <2>5, <4>1, <4>2, <4>3, <4>4, <4>5, CpuStep
    <3>4. CASE ~(killed[p] /\ pc[p] = "user")
      <4>1. /\ plock = NoCpu /\ plock' = c
            /\ state' = [state EXCEPT ![p] = "RUNNABLE"]
            /\ back' = [back EXCEPT ![p] = pc[p]]
            /\ pc' = [pc EXCEPT ![p] = "yield_ret"]
        BY <1>26, <2>5, <3>4 DEF trap_end, Goto
      <4>2. RunningOnCpu'
        BY <2>1, <4>1 DEF CpuInv, RunningOnCpu, OnCpu, TypeOK
      <4>3. BackOK'
        BY <3>2, <4>1 DEF CpuInv, BackOK, TypeOK
      <4>4. ResumeOK'
        BY <4>1 DEF CpuInv, ResumeOK, Resume, TypeOK
      <4>5. BusyOK(c, p)'
        BY <2>1, <2>2, <3>1, <3>2, <4>1 DEF BusyOK, TypeOK
      <4>6. \A r \in Procs : r # p => state'[r] = state[r] /\ pc'[r] = pc[r]
        BY <4>1 DEF TypeOK
      <4>7. \A d \in CPUs : d # c => (plock' = d <=> plock = d)
        BY <4>1, NotNoCpu
      <4>8. QED
        BY ZenonT(40), <2>1, <2>2, <2>3, <2>5, <4>2, <4>3, <4>4, <4>5, <4>6, <4>7, CpuStep
    <3>5. QED
      BY <3>3, <3>4
  <2> QED
    BY <2>4, <2>5
<1>27. ASSUME NEW c \in CPUs, NEW q \in Procs, sched_pick(c, q) PROVE CpuInv'
  <2>a. /\ cpuproc[c] = 0 /\ irq[c] = "none" /\ idle[c] = "no" /\ plock \in {c, NoCpu}
        /\ UNCHANGED <<tlock, idle, irq, pc, back>>
        /\ plock' = c /\ cpuproc' = [cpuproc EXCEPT ![c] = q]
        /\ state' = [state EXCEPT ![q] = "RUNNING"]
    BY <1>27 DEF sched_pick, InScheduler, frame
  <2>b. state[q] = "RUNNABLE" /\ q # 0
    BY <1>27, NotZero DEF sched_pick, IsFirst, Candidates
  <2>2. ~OnCpu(q)
    BY <2>a, <2>b, Settled
  <2>3. CpuDistinct'
    BY <2>a, <2>b, <2>2 DEF CpuInv, CpuDistinct, OnCpu, TypeOK
  <2>4. RunningOnCpu'
    <3>1. cpuproc'[c] = q /\ \A d \in CPUs : d # c => cpuproc'[d] = cpuproc[d]
      BY <2>a DEF TypeOK
    <3>2. \A r \in Procs : r # q /\ state'[r] = "RUNNING" => state[r] = "RUNNING"
      BY <2>a DEF TypeOK
    <3>3. ASSUME NEW r \in Procs, r # q, state'[r] = "RUNNING" PROVE \E d \in CPUs : cpuproc'[d] = r
      <4>1. PICK d \in CPUs : cpuproc[d] = r
        BY <3>2, <3>3 DEF CpuInv, RunningOnCpu, OnCpu
      <4>2. d # c
        BY <2>a, <4>1, NotZero
      <4>3. QED
        BY <3>1, <4>1, <4>2
    <3>4. QED
      BY <3>1, <3>3 DEF RunningOnCpu, OnCpu
  <2>5. ResumeOK' /\ BackOK'
    BY <2>a, <2>b DEF CpuInv, ResumeOK, BackOK, TypeOK
  <2>6. pc[q] \in Resume /\ tlock # c
    BY <2>a, <2>b DEF CpuInv, ResumeOK, Idle, IdleOK
  <2>7. BusyOK(c, q)'
    BY <2>a, <2>b, <2>6 DEF BusyOK, TypeOK, WithPtable, Resume
  <2>8. \A d \in CPUs : d # c => cpuproc'[d] = cpuproc[d] /\ (plock' = d <=> plock = d)
    BY <2>a, <2>b, NotNoCpu, Types
  <2>9. \A r \in Procs : OnCpu(r) => state'[r] = state[r]
    BY <2>a, <2>b, <2>2 DEF TypeOK
  <2>10. cpuproc'[c] = q
    BY <2>a, <2>b DEF TypeOK
  <2> QED
    BY <2>a, <2>b, <2>3, <2>4, <2>5, <2>7, <2>8, <2>9, <2>10, CpuStep
<1>28. ASSUME NEW c \in CPUs, NEW q \in Procs, sched_return(c, q) PROVE CpuInv'
  <2>1. /\ cpuproc[c] = q /\ plock = c /\ state[q] # "RUNNING" /\ q # 0
        /\ cpuproc' = [cpuproc EXCEPT ![c] = 0]
        /\ UNCHANGED <<state, pc, back, plock, tlock, idle, irq>>
    BY SMTT(30), <1>28 DEF sched_return, table, frame, Procs
  <2>2. BusyOK(c, q)
    BY <2>1 DEF CpuInv, Busy
  <2>3. CpuDistinct'
    BY <2>1 DEF CpuInv, CpuDistinct, TypeOK
  <2>4. RunningOnCpu'
    BY <2>1 DEF CpuInv, RunningOnCpu, OnCpu, TypeOK
  <2>5. ResumeOK' /\ BackOK'
    BY <2>1 DEF CpuInv, ResumeOK, BackOK
  <2>6. IdleOK(c)' /\ cpuproc'[c] = 0
    BY <2>1, <2>2 DEF BusyOK, IdleOK, TypeOK
  <2>7. \A d \in CPUs : d # c => cpuproc'[d] = cpuproc[d]
    BY <2>1 DEF TypeOK
  <2> QED
    BY <2>1, <2>3, <2>4, <2>5, <2>6, <2>7, CpuStep
<1>29. ASSUME NEW c \in CPUs, sched_end(c) PROVE CpuInv'
  <2>1. cpuproc[c] = 0 /\ irq[c] = "none" /\ UNCHANGED <<state, pc, back, tlock, cpuproc, irq>>
    BY ZenonT(40), <1>29 DEF sched_end, InScheduler, table, frame
  <2>2. CpuDistinct' /\ RunningOnCpu' /\ ResumeOK' /\ BackOK'
    BY <2>1 DEF CpuInv, CpuDistinct, RunningOnCpu, OnCpu, ResumeOK, BackOK
  <2>3. IdleOK(c)'
    BY <1>29, <2>1, NotNoCpu DEF sched_end, CpuInv, Idle, IdleOK
  <2>p. plock' = NoCpu /\ plock \in {c, NoCpu}
    BY <1>29 DEF sched_end, InScheduler
  <2>e. PICK i : idle' = [idle EXCEPT ![c] = i]
    BY ZenonT(40), <1>29 DEF sched_end
  <2>4. \A d \in CPUs : d # c => idle'[d] = idle[d] /\ (plock' = d <=> plock = d)
    BY <2>p, <2>e, NotNoCpu, Types
  <2> QED
    BY ZenonT(40), <2>1, <2>2, <2>3, <2>4, CpuStep
<1>30. ASSUME NEW c \in CPUs, halt(c) PROVE CpuInv'
  <2>1. cpuproc[c] = 0 /\ irq[c] = "none" /\ UNCHANGED <<state, pc, back, tlock, cpuproc, irq>>
    BY <1>30 DEF halt, table, frame, CpuInv, Busy, BusyOK
  <2>2. CpuDistinct' /\ RunningOnCpu' /\ ResumeOK' /\ BackOK'
    BY <2>1 DEF CpuInv, CpuDistinct, RunningOnCpu, OnCpu, ResumeOK, BackOK
  <2>3. IdleOK(c)'
    BY <1>30, <2>1, SizeAssumption DEF halt, CpuInv, Idle, IdleOK, CPUs, NoCpu, TypeOK
  <2>4. \A d \in CPUs : d # c => idle'[d] = idle[d] /\ (plock' = d <=> plock = d)
    BY <1>30, SizeAssumption DEF halt, TypeOK, CPUs, NoCpu
  <2> QED
    BY <2>1, <2>2, <2>3, <2>4, CpuStep
<1>u. CASE UNCHANGED vars
  BY <1>u, CpuUnchanged DEF vars, table, cpus, frame
<1> QED
  BY <1>1, <1>2, <1>3, <1>4, <1>5, <1>6, <1>7, <1>8, <1>9, <1>10, <1>11, <1>12, <1>13,
     <1>14, <1>15, <1>16, <1>17, <1>18, <1>19, <1>20, <1>21, <1>22, <1>23, <1>24, <1>25,
     <1>26, <1>27, <1>28, <1>29, <1>30, <1>u
  DEF Next, UserCall, Wait, KernelStep, Resumed, Timer, timer, Scheduler, Panicked
=============================================================================
