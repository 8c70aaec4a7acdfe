-------------------------------- MODULE Proc --------------------------------
(***************************************************************************)
(* The process table of proc.c on several CPUs: fork, exit, wait, kill,    *)
(* the scheduler and the hand-over of ptable.lock across swtch(); with it  *)
(* trap() for the timer and faults, and sys_sleep() as the client of       *)
(* sleep() and wakeup() that holds a lock of its own (tickslock).          *)
(*                                                                         *)
(* A critical section under ptable.lock is one step unless it runs into    *)
(* swtch(): then the lock stays with the CPU, the scheduler goes on with   *)
(* it, and the process switched to releases it.  Unlocked accesses to the  *)
(* table (the failure paths of fork, the parent of an EMBRYO, killed) are  *)
(* steps of their own.                                                     *)
(***************************************************************************)
EXTENDS Integers, FiniteSets

CONSTANTS NPROC,      \* slots of the process table
          NCPU,
          MaxPid,     \* bound: fork() is not called once nextpid exceeds it
          TICKMOD,    \* ticks is a uint: it wraps at TICKMOD
          KillPids,   \* arguments of kill()
          SleepArgs   \* arguments of sleep(), as the uint they are compared as

ASSUME SizeAssumption ==
  /\ NPROC \in Nat \ {0} /\ NCPU \in Nat \ {0} /\ MaxPid \in Nat /\ TICKMOD \in Nat \ {0}
ASSUME ArgAssumption == KillPids \subseteq Nat /\ SleepArgs \subseteq 0..TICKMOD-1

Procs == 1..NPROC
CPUs  == 0..NCPU-1
NoCpu == NCPU       \* no CPU holds the lock
initproc == 1
TicksChan == NPROC + 1   \* &ticks; 0 is no channel, p the address of slot p

VARIABLES
  state, pid, parent, chan, killed, kstack,  \* struct proc
  nextpid,
  plock, tlock,    \* the CPU holding ptable.lock, tickslock
  cpuproc,         \* cpu->proc, 0 for none
  scan,            \* where the CPU's scheduler loop goes on
  idle,            \* "no", "about" to halt(), "halted"
  irq,             \* progress of a timer interrupt on the CPU
  ticks,
  pc,              \* where the process is, or resumes once swtch()ed to
  back,            \* where a process preempted in yield() was
  np,              \* np of fork()
  ticks0, nticks,  \* ticks0 and n of sys_sleep()
  panicked

table == <<state, pid, parent, chan, killed, kstack, nextpid>>
cpus  == <<cpuproc, scan, idle, irq>>
frame == <<back, np, ticks0, nticks>>   \* reset to a fixed value once dead
vars  == <<table, plock, tlock, cpus, ticks, pc, frame, panicked>>

States == {"UNUSED", "EMBRYO", "SLEEPING", "RUNNABLE", "RUNNING", "ZOMBIE"}

\* Locations at which a process runs without a spinlock, holding tickslock,
\* and with ptable.lock handed to it by the scheduler.
Unlocked == {"user", "fork_kstack", "fork_copy", "fork_run", "sleep_again", "exit", "ret"}
Resume   == {"forkret", "yield_ret", "sleep_ret", "wait_ret"}
Locations == Unlocked \cup {"sleep_sw", "sleep_commit"} \cup Resume

\* Every field of the process table and of the CPUs has its type.
TypeOK ==
  /\ state \in [Procs -> States]
  /\ pid \in [Procs -> Nat] /\ nextpid \in Nat
  /\ parent \in [Procs -> Procs \cup {0}]
  /\ chan \in [Procs -> Procs \cup {0, TicksChan}]
  /\ killed \in [Procs -> BOOLEAN] /\ kstack \in [Procs -> BOOLEAN]
  /\ plock \in CPUs \cup {NoCpu} /\ tlock \in CPUs \cup {NoCpu}
  /\ cpuproc \in [CPUs -> Procs \cup {0}]
  /\ scan \in [CPUs -> 1..NPROC+1]
  /\ idle \in [CPUs -> {"no", "about", "halted"}]
  /\ irq \in [CPUs -> {"none", "wakeup", "trap_end"}]
  /\ ticks \in 0..TICKMOD-1
  /\ pc \in [Procs -> Locations] /\ back \in [Procs -> Locations]
  /\ np \in [Procs -> Procs]
  /\ ticks0 \in [Procs -> 0..TICKMOD-1] /\ nticks \in [Procs -> 0..TICKMOD-1]
  /\ panicked \in BOOLEAN

\* After userinit(), with every CPU about to enter scheduler().
Init ==
  /\ state = [p \in Procs |-> IF p = initproc THEN "RUNNABLE" ELSE "UNUSED"]
  /\ pid = [p \in Procs |-> IF p = initproc THEN 1 ELSE 0]
  /\ nextpid = 2
  /\ parent = [p \in Procs |-> 0] /\ chan = [p \in Procs |-> 0]
  /\ killed = [p \in Procs |-> FALSE]
  /\ kstack = [p \in Procs |-> p = initproc]
  /\ plock = NoCpu /\ tlock = NoCpu
  /\ cpuproc = [c \in CPUs |-> 0] /\ scan = [c \in CPUs |-> 1]
  /\ idle = [c \in CPUs |-> "no"] /\ irq = [c \in CPUs |-> "none"]
  /\ ticks = 0
  /\ pc = [p \in Procs |-> "forkret"] /\ back = [p \in Procs |-> "user"]
  /\ np = [p \in Procs |-> p]
  /\ ticks0 = [p \in Procs |-> 0] /\ nticks = [p \in Procs |-> 0]
  /\ panicked = FALSE

\* Process p executes on CPU c, and no interrupt is being handled there.
On(c, p) == ~panicked /\ cpuproc[c] = p /\ state[p] = "RUNNING" /\ irq[c] = "none"

\* p is in user mode and enters a system call; trap() exits a killed process.
Syscall(c, p) == On(c, p) /\ pc[p] = "user" /\ ~killed[p]

Goto(p, l) == pc' = [pc EXCEPT ![p] = l]

\* The first slot in table order that satisfies a test, as the loops find it.
IsFirst(q, S) == q \in S /\ \A r \in S : q <= r

\* wakeup1(ch) applied to the states s.
wakeup1(s, ch) ==
  [p \in Procs |-> IF s[p] = "SLEEPING" /\ chan[p] = ch THEN "RUNNABLE" ELSE s[p]]

(***************************************************************************)
(* fork() and allocproc()                                                  *)
(***************************************************************************)
Unused == {q \in Procs : state[q] = "UNUSED"}

fork_none(c, p) ==
  /\ Syscall(c, p) /\ plock = NoCpu
  /\ Unused = {}
  /\ Goto(p, "ret")
  /\ UNCHANGED <<table, plock, tlock, cpus, ticks, frame, panicked>>

fork_alloc(c, p, q) ==
  /\ Syscall(c, p) /\ plock = NoCpu /\ nextpid <= MaxPid
  /\ IsFirst(q, Unused)
  /\ state' = [state EXCEPT ![q] = "EMBRYO"]
  /\ pid' = [pid EXCEPT ![q] = nextpid]
  /\ nextpid' = nextpid + 1
  /\ np' = [np EXCEPT ![p] = q]
  /\ Goto(p, "fork_kstack")
  /\ UNCHANGED <<parent, chan, killed, kstack, plock, tlock, cpus, ticks, back, ticks0, nticks, panicked>>

\* kalloc() of the kernel stack succeeds: the new context starts in forkret().
fork_kstack(c, p) ==
  /\ On(c, p) /\ pc[p] = "fork_kstack"
  /\ kstack' = [kstack EXCEPT ![np[p]] = TRUE]
  /\ pc' = [pc EXCEPT ![p] = "fork_copy", ![np[p]] = "forkret"]
  /\ UNCHANGED <<state, pid, parent, chan, killed, nextpid, plock, tlock, cpus, ticks, frame, panicked>>

\* A bug: the kernel stack is not freed.
fork_fail_kstack(c, p) ==
  /\ On(c, p) /\ pc[p] \in {"fork_kstack", "fork_copy"}
  /\ state' = [state EXCEPT ![np[p]] = "UNUSED"]
  /\ np' = [np EXCEPT ![p] = p]
  /\ Goto(p, "ret")
  /\ UNCHANGED <<kstack, pid, parent, chan, killed, nextpid, plock, tlock, cpus, ticks, back, ticks0, nticks, panicked>>

\* kalloc() or copyuvm() fails: the slot is given back without ptable.lock,
\* its pid and killed left as they are.
fork_fail(c, p) ==
  /\ On(c, p) /\ pc[p] \in {"fork_kstack", "fork_copy"}
  /\ kstack' = [kstack EXCEPT ![np[p]] = FALSE]
  /\ state' = [state EXCEPT ![np[p]] = "UNUSED"]
  /\ np' = [np EXCEPT ![p] = p]
  /\ Goto(p, "ret")
  /\ UNCHANGED <<pid, parent, chan, killed, nextpid, plock, tlock, cpus, ticks, back, ticks0, nticks, panicked>>

fork_copy(c, p) ==
  /\ On(c, p) /\ pc[p] = "fork_copy"
  /\ parent' = [parent EXCEPT ![np[p]] = p]
  /\ Goto(p, "fork_run")
  /\ UNCHANGED <<state, pid, chan, killed, kstack, nextpid, plock, tlock, cpus, ticks, frame, panicked>>

fork_run(c, p) ==
  /\ On(c, p) /\ pc[p] = "fork_run" /\ plock = NoCpu
  /\ state' = [state EXCEPT ![np[p]] = "RUNNABLE"]
  /\ np' = [np EXCEPT ![p] = p]
  /\ Goto(p, "ret")
  /\ UNCHANGED <<pid, parent, chan, killed, kstack, nextpid, plock, tlock, cpus, ticks, back, ticks0, nticks, panicked>>

(***************************************************************************)
(* exit(): the files are closed before the lock is taken (not modelled     *)
(* here).  The lock is kept into sched().                                  *)
(***************************************************************************)
\* exit(), or any system call of a process already killed.
sys_exit(c, p) ==
  /\ On(c, p) /\ pc[p] = "user"
  /\ Goto(p, "exit")
  /\ UNCHANGED <<table, plock, tlock, cpus, ticks, frame, panicked>>

Kids(p) == {q \in Procs : parent[q] = p}

\* A bug: only init is told of a zombie.
ExitWakes_init(p) == {initproc}

\* The channels exit() wakes: the parent, and init if it inherits a zombie.
ExitWakes(p) ==
  {parent[p]} \cup (IF \E q \in Kids(p) : state[q] = "ZOMBIE" THEN {initproc} ELSE {})

exit(c, p) ==
  /\ On(c, p) /\ pc[p] = "exit" /\ p # initproc /\ plock = NoCpu
  /\ plock' = c
  /\ state' = [q \in Procs |->
                 IF q = p THEN "ZOMBIE"
                 ELSE IF state[q] = "SLEEPING" /\ chan[q] \in ExitWakes(p) THEN "RUNNABLE"
                 ELSE state[q]]
  /\ parent' = [q \in Procs |-> IF parent[q] = p THEN initproc ELSE parent[q]]
  /\ UNCHANGED <<pid, chan, killed, kstack, nextpid, tlock, cpus, ticks, pc, frame, panicked>>

exit_init(c) ==
  /\ On(c, initproc) /\ pc[initproc] = "exit"
  /\ panicked' = TRUE
  /\ UNCHANGED <<table, plock, tlock, cpus, ticks, pc, frame>>

(***************************************************************************)
(* wait(): entered from user mode, or resumed from sleep() with the lock.  *)
(***************************************************************************)
InWait(c, p) ==
  \/ Syscall(c, p) /\ plock = NoCpu
  \/ On(c, p) /\ pc[p] = "wait_ret" /\ plock = c

Zombies(p) == {q \in Kids(p) : state[q] = "ZOMBIE"}

wait_reap(c, p, q) ==
  /\ InWait(c, p)
  /\ IsFirst(q, Zombies(p))
  /\ state' = [state EXCEPT ![q] = "UNUSED"]
  /\ pid' = [pid EXCEPT ![q] = 0]
  /\ parent' = [parent EXCEPT ![q] = 0]
  /\ killed' = [killed EXCEPT ![q] = FALSE]
  /\ kstack' = [kstack EXCEPT ![q] = FALSE]
  /\ chan' = [chan EXCEPT ![p] = 0]
  /\ plock' = NoCpu
  /\ Goto(p, "ret")
  /\ UNCHANGED <<nextpid, tlock, cpus, ticks, frame, panicked>>

wait_fail(c, p) ==
  /\ InWait(c, p)
  /\ Zombies(p) = {}
  /\ Kids(p) = {} \/ killed[p]
  /\ chan' = [chan EXCEPT ![p] = 0]
  /\ plock' = NoCpu
  /\ Goto(p, "ret")
  /\ UNCHANGED <<state, pid, parent, killed, kstack, nextpid, tlock, cpus, ticks, frame, panicked>>

wait_sleep(c, p) ==
  /\ InWait(c, p)
  /\ Zombies(p) = {} /\ Kids(p) # {} /\ ~killed[p]
  /\ chan' = [chan EXCEPT ![p] = p]
  /\ state' = [state EXCEPT ![p] = "SLEEPING"]
  /\ plock' = c
  /\ Goto(p, "wait_ret")
  /\ UNCHANGED <<pid, parent, killed, kstack, nextpid, tlock, cpus, ticks, frame, panicked>>

(***************************************************************************)
(* kill(): the first slot whose pid matches, whatever its state.           *)
(***************************************************************************)
\* A bug: a sleeping process is not woken.
sys_kill_nowake(c, p, k) ==
  /\ Syscall(c, p) /\ plock = NoCpu
  /\ LET Hit == {q \in Procs : pid[q] = k}
     IN  /\ killed' = [q \in Procs |-> killed[q] \/ IsFirst(q, Hit)]
         /\ state' = state
  /\ Goto(p, "ret")
  /\ UNCHANGED <<pid, parent, chan, kstack, nextpid, plock, tlock, cpus, ticks, frame, panicked>>

sys_kill(c, p, k) ==
  /\ Syscall(c, p) /\ plock = NoCpu
  /\ LET Hit == {q \in Procs : pid[q] = k}
     IN  /\ killed' = [q \in Procs |-> killed[q] \/ IsFirst(q, Hit)]
         /\ state' = [q \in Procs |-> IF IsFirst(q, Hit) /\ state[q] = "SLEEPING"
                                      THEN "RUNNABLE" ELSE state[q]]
  /\ Goto(p, "ret")
  /\ UNCHANGED <<pid, parent, chan, kstack, nextpid, plock, tlock, cpus, ticks, frame, panicked>>

(***************************************************************************)
(* sys_sleep() and sleep(&ticks, &tickslock)                               *)
(***************************************************************************)
\* A bug: tickslock is released before sleep() has ptable.lock.
SleepTest_unlocked(c, p, t0, n) ==
  /\ tlock = NoCpu
  /\ IF (ticks - t0) % TICKMOD < n /\ ~killed[p]
     THEN /\ tlock' = tlock
          /\ ticks0' = [ticks0 EXCEPT ![p] = t0]
          /\ nticks' = [nticks EXCEPT ![p] = n]
          /\ Goto(p, "sleep_sw")
     ELSE /\ tlock' = tlock
          /\ ticks0' = [ticks0 EXCEPT ![p] = 0]
          /\ nticks' = [nticks EXCEPT ![p] = 0]
          /\ Goto(p, "ret")
  /\ UNCHANGED <<table, plock, cpus, ticks, back, np, panicked>>

\* One test of the loop with tickslock free to take: t0 and n are its locals.
SleepTest(c, p, t0, n) ==
  /\ tlock = NoCpu
  /\ IF (ticks - t0) % TICKMOD < n /\ ~killed[p]
     THEN /\ tlock' = c
          /\ ticks0' = [ticks0 EXCEPT ![p] = t0]
          /\ nticks' = [nticks EXCEPT ![p] = n]
          /\ Goto(p, "sleep_sw")
     ELSE /\ tlock' = tlock
          /\ ticks0' = [ticks0 EXCEPT ![p] = 0]
          /\ nticks' = [nticks EXCEPT ![p] = 0]
          /\ Goto(p, "ret")
  /\ UNCHANGED <<table, plock, cpus, ticks, back, np, panicked>>

sys_sleep(c, p, n) == Syscall(c, p) /\ SleepTest(c, p, ticks, n)

sleep_again(c, p) ==
  On(c, p) /\ pc[p] = "sleep_again" /\ SleepTest(c, p, ticks0[p], nticks[p])

\* acquire(&ptable.lock), then release(lk).
sleep_sw(c, p) ==
  /\ On(c, p) /\ pc[p] = "sleep_sw" /\ plock = NoCpu
  /\ plock' = c
  /\ tlock' = NoCpu
  /\ Goto(p, "sleep_commit")
  /\ UNCHANGED <<table, cpus, ticks, frame, panicked>>

sleep_commit(c, p) ==
  /\ On(c, p) /\ pc[p] = "sleep_commit"
  /\ chan' = [chan EXCEPT ![p] = TicksChan]
  /\ state' = [state EXCEPT ![p] = "SLEEPING"]
  /\ Goto(p, "sleep_ret")
  /\ UNCHANGED <<pid, parent, killed, kstack, nextpid, plock, tlock, cpus, ticks, frame, panicked>>

\* Back from sched(): tidy up, release(&ptable.lock), go for lk again.
sleep_ret(c, p) ==
  /\ On(c, p) /\ pc[p] = "sleep_ret"
  /\ chan' = [chan EXCEPT ![p] = 0]
  /\ plock' = NoCpu
  /\ Goto(p, "sleep_again")
  /\ UNCHANGED <<state, pid, parent, killed, kstack, nextpid, tlock, cpus, ticks, frame, panicked>>

(***************************************************************************)
(* forkret(), the end of yield(), the return from a system call.           *)
(***************************************************************************)
forkret(c, p) ==
  /\ On(c, p) /\ pc[p] = "forkret"
  /\ plock' = NoCpu
  /\ Goto(p, "user")
  /\ UNCHANGED <<table, tlock, cpus, ticks, frame, panicked>>

yield_ret(c, p) ==
  /\ On(c, p) /\ pc[p] = "yield_ret"
  /\ plock' = NoCpu
  /\ Goto(p, IF back[p] = "user" /\ killed[p] THEN "exit" ELSE back[p])
  /\ back' = [back EXCEPT ![p] = "user"]
  /\ UNCHANGED <<table, tlock, cpus, ticks, np, ticks0, nticks, panicked>>

syscall_ret(c, p) ==
  /\ On(c, p) /\ pc[p] = "ret"
  /\ Goto(p, IF killed[p] THEN "exit" ELSE "user")
  /\ UNCHANGED <<table, plock, tlock, cpus, ticks, frame, panicked>>

(***************************************************************************)
(* trap(): a fault in user mode, and the timer.  Interrupts are off while  *)
(* a CPU holds a spinlock.  Only CPU 0 counts ticks.                       *)
(***************************************************************************)
trap_fault(c, p) ==
  /\ On(c, p) /\ pc[p] = "user"
  /\ killed' = [killed EXCEPT ![p] = TRUE]
  /\ Goto(p, "exit")
  /\ UNCHANGED <<state, pid, parent, chan, kstack, nextpid, plock, tlock, cpus, ticks, frame, panicked>>

Interruptible(c) == ~panicked /\ irq[c] = "none" /\ plock # c /\ tlock # c

\* hlt returns once an interrupt has been taken.
Unhalt(c) == IF idle[c] = "halted" THEN "no" ELSE idle[c]

timer_tick(c) ==
  /\ Interruptible(c) /\ c = 0 /\ tlock = NoCpu
  /\ tlock' = c
  /\ ticks' = (ticks + 1) % TICKMOD
  /\ irq' = [irq EXCEPT ![c] = "wakeup"]
  /\ idle' = [idle EXCEPT ![c] = Unhalt(c)]
  /\ UNCHANGED <<table, plock, cpuproc, scan, pc, frame, panicked>>

timer_wakeup(c) ==
  /\ ~panicked /\ irq[c] = "wakeup" /\ plock = NoCpu
  /\ state' = wakeup1(state, TicksChan)
  /\ tlock' = NoCpu
  /\ irq' = [irq EXCEPT ![c] = "trap_end"]
  /\ UNCHANGED <<pid, parent, chan, killed, kstack, nextpid, plock, cpuproc, scan, idle, ticks, pc, frame, panicked>>

timer_other(c) ==
  /\ Interruptible(c) /\ c # 0
  /\ irq' = [irq EXCEPT ![c] = "trap_end"]
  /\ idle' = [idle EXCEPT ![c] = Unhalt(c)]
  /\ UNCHANGED <<table, plock, tlock, cpuproc, scan, ticks, pc, frame, panicked>>

\* The timer's case of trap(): only CPU 0 counts ticks.
timer(c) == IF c = 0 THEN timer_tick(c) ELSE timer_other(c)

\* The tail of trap(): exit a killed process in user mode, else yield().
trap_end(c) ==
  /\ ~panicked /\ irq[c] = "trap_end"
  /\ irq' = [irq EXCEPT ![c] = "none"]
  /\ LET p == cpuproc[c]
     IN  \/ /\ p = 0
            /\ UNCHANGED <<state, plock, pc, back>>
         \/ /\ p # 0 /\ killed[p] /\ pc[p] = "user"
            /\ Goto(p, "exit")
            /\ UNCHANGED <<state, plock, back>>
         \/ /\ p # 0 /\ ~(killed[p] /\ pc[p] = "user")
            /\ plock = NoCpu
            /\ plock' = c
            /\ state' = [state EXCEPT ![p] = "RUNNABLE"]
            /\ back' = [back EXCEPT ![p] = pc[p]]
            /\ Goto(p, "yield_ret")
  /\ UNCHANGED <<pid, parent, chan, killed, kstack, nextpid, tlock, cpuproc, scan, idle, ticks, np, ticks0, nticks, panicked>>

(***************************************************************************)
(* scheduler(): one pass over the table holds ptable.lock, also across the *)
(* processes it runs.                                                      *)
(***************************************************************************)
InScheduler(c) ==
  /\ ~panicked /\ cpuproc[c] = 0 /\ irq[c] = "none" /\ idle[c] = "no"
  /\ plock \in {c, NoCpu}

\* Runnable slots that the pass has still to visit; a pass starts at the top.
Candidates(c) ==
  {q \in Procs : state[q] = "RUNNABLE" /\ (plock = c => q >= scan[c])}

sched_pick(c, q) ==
  /\ InScheduler(c)
  /\ IsFirst(q, Candidates(c))
  /\ plock' = c
  /\ cpuproc' = [cpuproc EXCEPT ![c] = q]
  /\ scan' = [scan EXCEPT ![c] = q]
  /\ state' = [state EXCEPT ![q] = "RUNNING"]
  /\ UNCHANGED <<pid, parent, chan, killed, kstack, nextpid, tlock, idle, irq, ticks, pc, frame, panicked>>

\* The process has left its CPU through sched(); the pass goes on behind it.
sched_return(c, q) ==
  /\ ~panicked /\ cpuproc[c] = q /\ plock = c /\ state[q] # "RUNNING"
  /\ cpuproc' = [cpuproc EXCEPT ![c] = 0]
  /\ scan' = [scan EXCEPT ![c] = q + 1]
  /\ UNCHANGED <<table, plock, tlock, idle, irq, ticks, pc, frame, panicked>>

\* End of a pass: a pass that ran nothing (it never gave the lock away) halts.
sched_end(c) ==
  /\ InScheduler(c)
  /\ Candidates(c) = {}
  /\ plock' = NoCpu
  /\ scan' = [scan EXCEPT ![c] = 1]
  /\ idle' = [idle EXCEPT ![c] = IF plock = c THEN "no" ELSE "about"]
  /\ UNCHANGED <<table, tlock, cpuproc, irq, ticks, pc, frame, panicked>>

halt(c) ==
  /\ ~panicked /\ idle[c] = "about" /\ irq[c] = "none"
  /\ idle' = [idle EXCEPT ![c] = "halted"]
  /\ UNCHANGED <<table, plock, tlock, cpuproc, scan, irq, ticks, pc, frame, panicked>>

(***************************************************************************)
(* The system                                                              *)
(***************************************************************************)
UserCall(c, p) ==
  \/ fork_none(c, p)
  \/ \E q \in Procs : fork_alloc(c, p, q)
  \/ sys_exit(c, p)
  \/ \E k \in KillPids : sys_kill(c, p, k)
  \/ \E n \in SleepArgs : sys_sleep(c, p, n)
  \/ trap_fault(c, p)

Wait(c, p) ==
  \/ \E q \in Procs : wait_reap(c, p, q)
  \/ wait_fail(c, p)
  \/ wait_sleep(c, p)

KernelStep(c, p) ==
  \/ fork_kstack(c, p)
  \/ fork_fail(c, p)
  \/ fork_copy(c, p)
  \/ fork_run(c, p)
  \/ exit(c, p)
  \/ sleep_again(c, p)
  \/ sleep_sw(c, p)
  \/ sleep_commit(c, p)
  \/ syscall_ret(c, p)

\* The first step of a process switched to, with interrupts still off.
Resumed(c, p) == sleep_ret(c, p) \/ forkret(c, p) \/ yield_ret(c, p)

Timer(c) == timer(c) \/ timer_wakeup(c) \/ trap_end(c)

Scheduler(c) ==
  \/ \E q \in Procs : sched_pick(c, q) \/ sched_return(c, q)
  \/ sched_end(c)
  \/ halt(c)

\* After a panic every CPU spins.
Panicked == panicked /\ UNCHANGED vars

Next ==
  \/ \E c \in CPUs :
       \/ Timer(c)
       \/ Scheduler(c)
       \/ exit_init(c)
       \/ \E p \in Procs : UserCall(c, p) \/ Wait(c, p) \/ KernelStep(c, p) \/ Resumed(c, p)
  \/ Panicked

Spec == Init /\ [][Next]_vars

\* The timer keeps interrupting.  Its period is long against a step of kernel
\* code, so a step of a scheduler or of a process in the kernel that is possible
\* again and again between interrupts is taken.  A process in user mode is
\* obliged to nothing.
LiveSpec ==
  /\ Spec
  /\ \A c \in CPUs : SF_vars(Scheduler(c)) /\ WF_vars(Timer(c)) /\ SF_vars(exit_init(c))
  /\ \A p \in Procs :
       /\ SF_vars(\E c \in CPUs : KernelStep(c, p))
       /\ WF_vars(\E c \in CPUs : Resumed(c, p))
       /\ WF_vars(\E c \in CPUs : pc[p] = "wait_ret" /\ Wait(c, p))

(***************************************************************************)
(* Properties                                                              *)
(***************************************************************************)
OnCpu(p) == \E c \in CPUs : cpuproc[c] = p
Live(p) == state[p] \in {"SLEEPING", "RUNNABLE", "RUNNING"}

\* No two CPUs ever execute the same process, that is, use the same kernel
\* stack: a process stays its CPU's until the scheduler has switched away from
\* it, also when it is already RUNNABLE, SLEEPING or ZOMBIE, and no other
\* scheduler() can pick it in between.
CpuExclusive ==
  /\ \A c, d \in CPUs : c # d /\ cpuproc[c] = cpuproc[d] => cpuproc[c] = 0
  /\ \A p \in Procs : state[p] = "RUNNING" => OnCpu(p)

\* The checks of sched() never panic: a process that has given up RUNNING
\* enters sched() on a CPU that holds ptable.lock and no other spinlock.
SchedHoldsOnlyPtable ==
  \A c \in CPUs : cpuproc[c] # 0 /\ state[cpuproc[c]] # "RUNNING" => plock = c /\ tlock # c

\* A kernel stack is never freed under the process that runs on it, nor is one
\* lost: wait() frees the stack of a zombie only once it is off its CPU, a
\* slot a CPU executes or that can be scheduled has a stack, and a slot
\* given back by wait() or by a failing fork() has none.
KstackOwned ==
  \A p \in Procs :
    /\ OnCpu(p) \/ Live(p) \/ state[p] = "ZOMBIE" => kstack[p]
    /\ state[p] = "UNUSED" => ~kstack[p] /\ ~OnCpu(p)

\* Every process but init has a parent that can still wait() for it: exit()
\* passes the children of a dying process on, so no zombie is left behind.
ParentAlive ==
  \A p \in Procs \ {initproc} :
    Live(p) \/ state[p] = "ZOMBIE" => parent[p] # 0 /\ parent[p] # p /\ Live(parent[p])

\* A process asleep in wait() has something to wait for and nothing to do: it
\* has a child, none of them is a zombie, and it has not been killed.  So the
\* wakeups of exit(), also those for inherited zombies, and of kill() are never
\* lost.
WaiterNotForgotten ==
  \A p \in Procs : state[p] = "SLEEPING" /\ chan[p] = p =>
    Kids(p) # {} /\ Zombies(p) = {} /\ ~killed[p]

\* A process asleep in sys_sleep() is not overdue: its ticks have not all
\* passed, except in the interrupt handler between ticks++ and wakeup().  The
\* check of ticks and going to sleep are atomic for the timer.
SleeperNotOverdue ==
  \A p \in Procs : state[p] = "SLEEPING" /\ chan[p] = TicksChan =>
    \/ (ticks - ticks0[p]) % TICKMOD < nticks[p]
    \/ irq[0] = "wakeup"

\* Live processes and zombies have distinct, positive pids, so wait() and kill()
\* name one process.
UniquePids ==
  \A p, q \in Procs : Live(p) \/ state[p] = "ZOMBIE" =>
    pid[p] > 0 /\ (pid[q] = pid[p] /\ state[q] # "UNUSED" => p = q)

\* kill() affects the process with the given pid (comment of kill()): a process
\* that fork() has just allocated a pid for has not been killed.
NotBornKilled ==
  [][\A p \in Procs : state[p] = "UNUSED" /\ state'[p] = "EMBRYO" => ~killed'[p]]_vars

\* A killed process dies, whatever it was doing: kill() ends a wait(), the
\* next tick ends a sleep(), and a trap ends user mode.  (If it is init, exit()
\* panics.)
KilledDies ==
  \A p \in Procs : Live(p) /\ killed[p] ~> state[p] \in {"ZOMBIE", "UNUSED"} \/ panicked
=============================================================================
