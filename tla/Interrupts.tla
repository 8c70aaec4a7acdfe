----------------------------- MODULE Interrupts -----------------------------
(***************************************************************************)
(* Spin locks with their nested cli/sti (spinlock.c), the timer interrupt  *)
(* (trap.c), and the hand-over of a CPU between its scheduler and kernel   *)
(* threads (scheduler(), sched(), yield() and sleep() in proc.c), which    *)
(* carries the interrupt state of a thread from one CPU to another.        *)
(***************************************************************************)
EXTENDS Integers, FiniteSets

CONSTANTS CPUs, N   \* CPU 0 counts the ticks; the threads are 1..N

Threads == 1..N
Sched == 0          \* cur[c]: the scheduler of c is running

ASSUME ThreadAssumption == N \in Nat \ {0}
ASSUME CpuAssumption == CPUs \subseteq Nat

VARIABLES
  cpu,    \* FL_IF: interrupts on; ncli, intena; cur: who runs; spc, idx, ran: the
          \* scheduler; hpc: where its interrupt handler is, if in one
  lock,   \* the CPU that holds "tick" (tickslock) or "ptable", or NoCpu
  th,     \* pc, state, susp: in what the thread gave up the CPU, intena: saved
  panic   \* a check in the code failed

vars == <<cpu, lock, th, panic>>
NoCpu == -1

Init ==
  /\ cpu = [c \in CPUs |-> [FL_IF |-> FALSE, ncli |-> 0, intena |-> FALSE, cur |-> Sched,
                            spc |-> "top", idx |-> 1, ran |-> FALSE, hpc |-> "none"]]
  /\ lock = [l \in {"tick", "ptable"} |-> NoCpu]
  /\ th = [t \in Threads |-> [pc |-> "new", state |-> "RUNNABLE", susp |-> "fork", intena |-> FALSE]]
  /\ panic = FALSE

(***************************************************************************)
(* pushcli(), popcli(), acquire(), release() on the CPU record x           *)
(***************************************************************************)
Saves(x) == x.ncli = 0
Push(x) == [x EXCEPT !.ncli = @ + 1, !.intena = IF Saves(x) THEN x.FL_IF ELSE @, !.FL_IF = FALSE]

\* A bug: an inner popcli() turns interrupts on already.
Restores_nested(x) == x.intena
Restores(x) == x.ncli = 1 /\ x.intena

Pop(x) == [x EXCEPT !.ncli = @ - 1, !.FL_IF = IF Restores(x) THEN TRUE ELSE @]

\* The checks of popcli().
BadPop(x) == x.FL_IF \/ x.ncli < 1

SetCpu(c, x) == cpu' = [cpu EXCEPT ![c] = x]

\* acquire(l) up to its loop, after which CPU c is as x; the check finds the
\* lock held by c itself.
Spin(c, x, l) == SetCpu(c, x) /\ panic' = (panic \/ lock[l] = c) /\ UNCHANGED lock

\* The xchg() that ends the loop of acquire(l), and the one of release(l).
Takes(c, l) == lock[l] = NoCpu /\ lock' = [lock EXCEPT ![l] = c]
Gives(l) == lock' = [lock EXCEPT ![l] = NoCpu]

(***************************************************************************)
(* The timer interrupt                                                     *)
(***************************************************************************)
timer(c) ==
  /\ cpu[c].FL_IF /\ cpu[c].hpc = "none"
  /\ SetCpu(c, [cpu[c] EXCEPT !.FL_IF = FALSE, !.hpc = IF c = 0 THEN "tick" ELSE "end",
                              !.spc = IF cpu[c].cur = Sched /\ @ = "halt" THEN "top" ELSE @])
  /\ UNCHANGED <<lock, th, panic>>

\* acquire(&tickslock)
trap_acquire(c) == cpu[c].hpc = "tick" /\ Spin(c, [Push(cpu[c]) EXCEPT !.hpc = "spin"], "tick") /\ UNCHANGED th

\* The lock is taken, and wakeup(&ticks) begins to acquire ptable.lock.
trap_tick(c) ==
  /\ cpu[c].hpc = "spin" /\ Takes(c, "tick")
  /\ panic' = (panic \/ lock["ptable"] = c)
  /\ SetCpu(c, [Push(cpu[c]) EXCEPT !.hpc = "wakeup"]) /\ UNCHANGED th

\* wakeup(&ticks) under ptable.lock, and both locks released.
trap_wakeup(c) ==
  /\ cpu[c].hpc = "wakeup" /\ lock["ptable"] = NoCpu
  /\ th' = [t \in Threads |-> IF th[t].state = "SLEEPING" THEN [th[t] EXCEPT !.state = "RUNNABLE"] ELSE th[t]]
  /\ Gives("tick")
  /\ panic' = (panic \/ lock["tick"] # c \/ BadPop(cpu[c]) \/ BadPop(Pop(cpu[c])))
  /\ SetCpu(c, [Pop(Pop(cpu[c])) EXCEPT !.hpc = "end"])

\* The end of trap(): iret to the scheduler, or yield() of the running thread.
trap_end(c) ==
  /\ cpu[c].hpc = "end"
  /\ \/ /\ cpu[c].cur = Sched
        /\ SetCpu(c, [cpu[c] EXCEPT !.hpc = "none", !.FL_IF = TRUE]) /\ UNCHANGED <<lock, panic>>
     \/ cpu[c].cur # Sched /\ Spin(c, [Push(cpu[c]) EXCEPT !.hpc = "yield"], "ptable")
  /\ UNCHANGED th

(***************************************************************************)
(* Giving up the CPU                                                       *)
(***************************************************************************)
\* The checks of sched().
BadSched(x) == x.ncli # 1 \/ x.FL_IF

yield(c) ==
  /\ cpu[c].hpc = "yield" /\ Takes(c, "ptable")
  /\ th' = [th EXCEPT ![cpu[c].cur].state = "RUNNABLE", ![cpu[c].cur].susp = "yield", ![cpu[c].cur].intena = cpu[c].intena]
  /\ panic' = (panic \/ BadSched(cpu[c]))
  /\ SetCpu(c, [cpu[c] EXCEPT !.hpc = "none", !.cur = Sched])

\* A thread in a system call takes tickslock.
Runs(c, t, pc) == cpu[c].cur = t /\ cpu[c].hpc = "none" /\ th[t].pc = pc
Goto(t, pc) == th' = [th EXCEPT ![t].pc = pc]

syscall(c, t) == Runs(c, t, "user") /\ Goto(t, "sys") /\ UNCHANGED <<cpu, lock, panic>>
sys_return(c, t) == Runs(c, t, "sys") /\ Goto(t, "user") /\ UNCHANGED <<cpu, lock, panic>>
acquire(c, t) == Runs(c, t, "sys") /\ Goto(t, "spin") /\ Spin(c, Push(cpu[c]), "tick")
acquired(c, t) == Runs(c, t, "spin") /\ Takes(c, "tick") /\ Goto(t, "held") /\ UNCHANGED <<cpu, panic>>
release(c, t) ==
  /\ Runs(c, t, "held") /\ Goto(t, "sys") /\ Gives("tick")
  /\ panic' = (panic \/ lock["tick"] # c \/ BadPop(cpu[c])) /\ SetCpu(c, Pop(cpu[c]))

\* sleep(&ticks, &tickslock): acquire(&ptable.lock), then release the other
\* lock and give up the CPU.
sleep(c, t) == Runs(c, t, "held") /\ Goto(t, "sleep") /\ Spin(c, Push(cpu[c]), "ptable")
sleep_sched(c, t) ==
  /\ Runs(c, t, "sleep") /\ lock["ptable"] = NoCpu
  /\ lock' = [lock EXCEPT !["ptable"] = c, !["tick"] = NoCpu]
  /\ LET x == Pop(cpu[c]) IN
       /\ panic' = (panic \/ lock["tick"] # c \/ BadPop(cpu[c]) \/ BadSched(x))
       /\ th' = [th EXCEPT ![t].state = "SLEEPING", ![t].susp = "sleep", ![t].intena = x.intena]
       /\ SetCpu(c, [x EXCEPT !.cur = Sched])

(***************************************************************************)
(* scheduler()                                                             *)
(***************************************************************************)
Free(c, spc) == cpu[c].cur = Sched /\ cpu[c].hpc = "none" /\ cpu[c].spc = spc

Sti(x) == [x EXCEPT !.FL_IF = TRUE]

sched_sti(c) == Free(c, "top") /\ SetCpu(c, [Sti(cpu[c]) EXCEPT !.spc = "lock"]) /\ UNCHANGED <<lock, th, panic>>
sched_acquire(c) == Free(c, "lock") /\ Spin(c, [Push(cpu[c]) EXCEPT !.spc = "spin"], "ptable") /\ UNCHANGED th
sched_lock(c) ==
  /\ Free(c, "spin") /\ Takes(c, "ptable")
  /\ SetCpu(c, [cpu[c] EXCEPT !.spc = "scan", !.idx = 1, !.ran = FALSE])
  /\ UNCHANGED <<th, panic>>

Ready(c) == {t \in Threads : t >= cpu[c].idx /\ th[t].state = "RUNNABLE"}

\* A bug: the interrupt state of the thread is not brought back.
Intena_cpu(c, t) == cpu[c].intena
Intena(c, t) == IF th[t].susp = "fork" THEN cpu[c].intena ELSE th[t].intena

\* swtch() to the next runnable thread, which goes on in sched() or forkret():
\* it releases ptable.lock; from yield() it returns from the interrupt, from
\* forkret() to user space, from sleep() it takes the other lock again.
sched_run(c) ==
  /\ Free(c, "scan")
  /\ \E t \in Ready(c) :
       LET x == [cpu[c] EXCEPT !.cur = t, !.idx = t + 1, !.ran = TRUE, !.intena = Intena(c, t)]
           y == Pop(x)
       IN  /\ \A u \in Ready(c) : t <= u
           /\ panic' = (panic \/ lock["ptable"] # c \/ BadPop(x))
           /\ \/ /\ th[t].susp = "sleep"
                 /\ SetCpu(c, y) /\ th' = [th EXCEPT ![t].state = "RUNNING", ![t].pc = "awake"]
              \/ /\ th[t].susp = "yield"
                 /\ SetCpu(c, [y EXCEPT !.FL_IF = TRUE]) /\ th' = [th EXCEPT ![t].state = "RUNNING"]
              \/ /\ th[t].susp = "fork"
                 /\ SetCpu(c, [y EXCEPT !.FL_IF = TRUE]) /\ th' = [th EXCEPT ![t].state = "RUNNING", ![t].pc = "user"]
  /\ Gives("ptable")

\* The rest of sleep(): acquire(lk).
sleep_lock(c, t) == Runs(c, t, "awake") /\ Goto(t, "spin") /\ Spin(c, Push(cpu[c]), "tick")

sched_release(c) ==
  /\ Free(c, "scan") /\ Ready(c) = {}
  /\ Gives("ptable")
  /\ panic' = (panic \/ lock["ptable"] # c \/ BadPop(cpu[c]))
  /\ SetCpu(c, [Pop(cpu[c]) EXCEPT !.spc = IF cpu[c].ran THEN "top" ELSE "halt"])
  /\ UNCHANGED th

Kernel(c) ==
  \/ trap_acquire(c) \/ trap_tick(c) \/ trap_wakeup(c) \/ trap_end(c) \/ yield(c)
  \/ sched_sti(c) \/ sched_acquire(c) \/ sched_lock(c) \/ sched_run(c) \/ sched_release(c)
  \/ \E t \in Threads : acquired(c, t) \/ sleep_sched(c, t) \/ sleep_lock(c, t)

User(c) ==
  \E t \in Threads : syscall(c, t) \/ sys_return(c, t) \/ acquire(c, t) \/ release(c, t) \/ sleep(c, t)

Next == ~panic /\ \E c \in CPUs : timer(c) \/ Kernel(c) \/ User(c)

Spec == Init /\ [][Next]_vars

(***************************************************************************)
(* Properties                                                              *)
(***************************************************************************)
\* The types, and how deep pushcli() nests: two locks at most.
TypeOK ==
  /\ \A c \in CPUs : cpu[c].ncli \in 0..2 /\ cpu[c].cur \in Threads \cup {Sched} /\ cpu[c].idx \in 1..N+1
  /\ lock \in [{"tick", "ptable"} -> CPUs \cup {NoCpu}]

\* No CPU takes an interrupt while it holds or waits for a spin lock, so that
\* a handler never waits for a lock of its own CPU.
NoInterruptWithLock ==
  \A c \in CPUs :
    /\ (\E l \in DOMAIN lock : lock[l] = c) => cpu[c].ncli > 0
    /\ cpu[c].ncli > 0 => ~cpu[c].FL_IF

\* The checks in acquire(), release(), popcli() and sched() do not fail, with
\* locks handed from a thread to the scheduler and on to another thread.
NoPanic == ~panic

\* A system call that holds no lock can be interrupted, also after it slept and
\* went on on another CPU, where a thread that was preempted ran before.
SyscallInterruptible ==
  \A c \in CPUs, t \in Threads : Runs(c, t, "sys") \/ Runs(c, t, "user") => cpu[c].FL_IF

\* A CPU that halts because nothing is runnable can be woken by an interrupt.
HaltInterruptible == \A c \in CPUs : Free(c, "halt") => cpu[c].FL_IF
=============================================================================
