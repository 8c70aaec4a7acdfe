-------------------------- MODULE InterruptsProofs --------------------------
(***************************************************************************)
(* Theorems about Interrupts, for any number of CPUs and threads.          *)
(***************************************************************************)
EXTENDS Interrupts, TLAPS

\* Leaves that name no prover are Zenon's.
USE Zenon

Open == {"user", "sys", "awake"}   \* a thread that runs with interrupts on

CpuRec == [FL_IF : BOOLEAN, ncli : Int, intena : BOOLEAN, cur : Threads \cup {Sched},
           spc : {"top", "lock", "spin", "scan", "halt"}, idx : Int, ran : BOOLEAN,
           hpc : {"none", "tick", "spin", "wakeup", "end", "yield"}]

ThRec == [pc : Open \cup {"new", "spin", "held", "sleep"}, state : {"RUNNABLE", "RUNNING", "SLEEPING"},
          susp : {"fork", "yield", "sleep"}, intena : BOOLEAN]

Types ==
  /\ cpu \in [CPUs -> CpuRec] /\ th \in [Threads -> ThRec]
  /\ lock \in [{"tick", "ptable"} -> CPUs \cup {NoCpu}]
  /\ panic = FALSE

Has(c, l) == lock[l] = c

\* The scheduler of c runs: the depth of pushcli() is the number of locks it
\* holds or waits for, and it knows that interrupts were on before.
SchedOK(c) ==
  LET x == cpu[c] IN
  x.cur = Sched /\ x.hpc = "none" =>
    /\ x.spc \in {"top", "lock", "halt"} => x.ncli = 0 /\ ~Has(c, "tick") /\ ~Has(c, "ptable")
    /\ x.spc \in {"lock", "halt"} => x.FL_IF = TRUE
    /\ x.spc = "spin" => x.ncli = 1 /\ x.FL_IF = FALSE /\ x.intena = TRUE /\ ~Has(c, "tick") /\ ~Has(c, "ptable")
    /\ x.spc = "scan" => x.ncli = 1 /\ x.FL_IF = FALSE /\ ~Has(c, "tick") /\ Has(c, "ptable")
    /\ x.spc = "scan" => x.ran = TRUE \/ x.intena = TRUE

\* A thread runs on c, under a scheduler that waits in swtch().
ThreadOK(c) ==
  LET x == cpu[c] pc == th[cpu[c].cur].pc IN
  x.cur # Sched =>
    /\ x.spc = "scan" /\ x.ran = TRUE
    /\ th[x.cur].state = "RUNNING" /\ pc # "new"
    /\ x.hpc # "none" => pc \in Open
    /\ x.hpc = "none" =>
         /\ pc \in Open => x.ncli = 0 /\ x.FL_IF = TRUE /\ ~Has(c, "tick") /\ ~Has(c, "ptable")
         /\ pc \notin Open => x.FL_IF = FALSE /\ x.intena = TRUE /\ ~Has(c, "ptable")
         /\ pc = "spin" => x.ncli = 1 /\ ~Has(c, "tick")
         /\ pc = "held" => x.ncli = 1 /\ Has(c, "tick")
         /\ pc = "sleep" => x.ncli = 2 /\ Has(c, "tick")

\* An interrupt handler runs on c, with interrupts off until its iret.
HandlerOK(c) ==
  LET x == cpu[c] IN
  x.hpc # "none" =>
    /\ x.FL_IF = FALSE /\ ~Has(c, "ptable")
    /\ x.cur = Sched => x.spc \in {"top", "lock"} /\ x.hpc # "yield"
    /\ x.hpc \in {"tick", "end"} => x.ncli = 0 /\ ~Has(c, "tick")
    /\ x.hpc = "spin" => x.ncli = 1 /\ ~x.intena /\ ~Has(c, "tick")
    /\ x.hpc = "wakeup" => x.ncli = 2 /\ ~x.intena /\ Has(c, "tick")
    /\ x.hpc = "yield" => x.ncli = 1 /\ ~Has(c, "tick")

CpuOK(c) == SchedOK(c) /\ ThreadOK(c) /\ HandlerOK(c)

\* A thread that is off the CPU was interrupted with interrupts on, or saved in
\* sched() that they were on before its locks.
Suspended(t) ==
  th[t].state # "RUNNING" =>
    /\ th[t].susp = "sleep" => th[t].intena = TRUE
    /\ th[t].susp = "yield" => th[t].pc \in Open

Inv ==
  /\ Types
  /\ \A c \in CPUs : CpuOK(c)
  /\ \A t \in Threads : Suspended(t)
  /\ \A c, d \in CPUs : cpu[c].cur = cpu[d].cur => c = d \/ cpu[c].cur = Sched

\* At boot every CPU is in its scheduler and every thread is new.
LEMMA InvInit == Init => Inv
<1> SUFFICES ASSUME Init PROVE Inv
  OBVIOUS
<1> USE ThreadAssumption, CpuAssumption
<1>1. Types
  BY SMT DEF Init, Types, CpuRec, ThRec, Threads, Sched, Open
<1>2. ASSUME NEW c \in CPUs PROVE CpuOK(c)
  BY SMT DEF Init, CpuOK, SchedOK, ThreadOK, HandlerOK, Has, NoCpu, Sched
<1>3. \A t \in Threads : Suspended(t)
  BY DEF Init, Suspended
<1>4. \A c \in CPUs : cpu[c].cur = Sched
  BY DEF Init
<1> QED BY <1>1, <1>2, <1>3, <1>4 DEF Inv

\* A CPU is not disturbed by what happens on another one.
LEMMA OtherCpu ==
  ASSUME Inv, NEW d \in CPUs, CpuOK(d), cpu'[d] = cpu[d],
         Has(d, "tick")' <=> Has(d, "tick"), Has(d, "ptable")' <=> Has(d, "ptable"),
         cpu[d].cur # Sched => th'[cpu[d].cur] = th[cpu[d].cur]
  PROVE  CpuOK(d)'
  BY ZenonT(40) DEF CpuOK, SchedOK, ThreadOK, HandlerOK, Has

\* A step of CPU c that only moves c, with locks that c takes or gives, and with
\* the thread that c runs or takes up.
LEMMA CpuStep ==
  ASSUME Inv, NEW c \in CPUs, NEW x \in CpuRec, cpu' = [cpu EXCEPT ![c] = x],
         th' \in [Threads -> ThRec], lock' \in [{"tick", "ptable"} -> CPUs \cup {NoCpu}], panic' = FALSE,
         \A l \in {"tick", "ptable"} : lock'[l] # lock[l] => lock[l] \in {c, NoCpu} /\ lock'[l] \in {c, NoCpu},
         \A t \in Threads : (\E d \in CPUs \ {c} : cpu[d].cur = t) => th'[t] = th[t],
         \A t \in Threads : Suspended(t)',
         x.cur \in {Sched, cpu[c].cur} \/ th[x.cur].state # "RUNNING",
         CpuOK(c)'
  PROVE  Inv'
<1> USE CpuAssumption, ThreadAssumption
<1>1. Types'
  BY DEF Inv, Types
<1>2. \A d \in CPUs : cpu'[d] = IF d = c THEN x ELSE cpu[d]
  BY DEF Inv, Types
<1>3. ASSUME NEW d \in CPUs, d # c PROVE CpuOK(d)'
  <2>1. CpuOK(d) /\ cpu'[d] = cpu[d] /\ cpu[d] \in CpuRec
    BY <1>2, <1>3 DEF Inv, Types
  <2>2. \A l \in {"tick", "ptable"} : lock'[l] = d <=> lock[l] = d
    BY SMT, <1>3 DEF NoCpu
  <2>3. cpu[d].cur # Sched => th'[cpu[d].cur] = th[cpu[d].cur]
    BY <2>1, <1>3 DEF CpuRec
  <2> QED BY <2>1, <2>2, <2>3, OtherCpu DEF Has
<1>4. ASSUME NEW d \in CPUs, d # c, x.cur = cpu[d].cur PROVE x.cur = Sched
  <2>1. cpu[d].cur # Sched => th[cpu[d].cur].state = "RUNNING"
    BY DEF Inv, CpuOK, ThreadOK
  <2> QED BY <1>4, <2>1 DEF Inv
<1>5. (\A e, d \in CPUs : cpu[e].cur = cpu[d].cur => e = d \/ cpu[e].cur = Sched)'
  BY SMT, <1>2, <1>4 DEF Inv
<1> QED BY <1>1, <1>3, <1>5 DEF Inv

\* What pushcli() and popcli() do to each field.
LEMMA PushFields ==
  ASSUME NEW x \in CpuRec
  PROVE  /\ Push(x) \in CpuRec
         /\ Push(x).ncli = x.ncli + 1 /\ Push(x).FL_IF = FALSE
         /\ x.ncli = 0 => Push(x).intena = x.FL_IF
         /\ x.ncli # 0 => Push(x).intena = x.intena
         /\ Push(x).cur = x.cur /\ Push(x).spc = x.spc /\ Push(x).idx = x.idx
         /\ Push(x).ran = x.ran /\ Push(x).hpc = x.hpc
<1> DEFINE n == x.ncli + 1
           i == IF x.ncli = 0 THEN x.FL_IF ELSE x.intena
<1>1. n \in Int /\ i \in BOOLEAN
  BY SMT DEF CpuRec
<1>2. Push(x) = [x EXCEPT !.ncli = n, !.intena = i, !.FL_IF = FALSE]
  BY DEF Push, Saves
<1>3. (x.ncli = 0 => i = x.FL_IF) /\ (x.ncli # 0 => i = x.intena)
  OBVIOUS
<1> SUFFICES /\ Push(x) \in CpuRec
             /\ Push(x).ncli = n /\ Push(x).FL_IF = FALSE /\ Push(x).intena = i
             /\ Push(x).cur = x.cur /\ Push(x).spc = x.spc /\ Push(x).idx = x.idx
             /\ Push(x).ran = x.ran /\ Push(x).hpc = x.hpc
  BY <1>3
<1> HIDE DEF n, i
<1> QED BY <1>1, <1>2 DEF CpuRec

\* The same for popcli().
LEMMA PopFields ==
  ASSUME NEW x \in CpuRec
  PROVE  /\ Pop(x) \in CpuRec
         /\ Pop(x).ncli = x.ncli - 1 /\ Pop(x).intena = x.intena
         /\ x.ncli = 1 /\ x.intena = TRUE => Pop(x).FL_IF = TRUE
         /\ x.ncli # 1 \/ x.intena = FALSE => Pop(x).FL_IF = x.FL_IF
         /\ Pop(x).cur = x.cur /\ Pop(x).spc = x.spc /\ Pop(x).idx = x.idx
         /\ Pop(x).ran = x.ran /\ Pop(x).hpc = x.hpc
<1> DEFINE n == x.ncli - 1
           f == IF x.ncli = 1 /\ x.intena THEN TRUE ELSE x.FL_IF
<1>1. n \in Int /\ x.FL_IF \in BOOLEAN
  BY SMT DEF CpuRec
<1>2. f \in BOOLEAN
  BY <1>1
<1>3. Pop(x) = [x EXCEPT !.ncli = n, !.FL_IF = f]
  BY DEF Pop, Restores
<1>4. (x.ncli = 1 /\ x.intena = TRUE => f = TRUE) /\ (x.ncli # 1 \/ x.intena = FALSE => f = x.FL_IF)
  OBVIOUS
<1> SUFFICES /\ Pop(x) \in CpuRec
             /\ Pop(x).ncli = n /\ Pop(x).FL_IF = f /\ Pop(x).intena = x.intena
             /\ Pop(x).cur = x.cur /\ Pop(x).spc = x.spc /\ Pop(x).idx = x.idx
             /\ Pop(x).ran = x.ran /\ Pop(x).hpc = x.hpc
  BY <1>4
<1> HIDE DEF n, f
<1> QED BY <1>1, <1>2, <1>3 DEF CpuRec

\* The record of a CPU whose scheduler begins to scan the table.
LEMMA ScanRec ==
  ASSUME NEW x \in CpuRec PROVE [x EXCEPT !.spc = "scan", !.idx = 1, !.ran = FALSE] \in CpuRec
<1>1. ASSUME NEW n \in Int, NEW b \in BOOLEAN PROVE [x EXCEPT !.spc = "scan", !.idx = n, !.ran = b] \in CpuRec
  BY DEF CpuRec
<1>2. 1 \in Int
  BY SMT
<1> QED BY <1>1, <1>2

\* CpuStep for a step that leaves the threads alone.
LEMMA QuietStep ==
  ASSUME Inv, NEW c \in CPUs, NEW x \in CpuRec, cpu' = [cpu EXCEPT ![c] = x], th' = th, panic' = FALSE,
         lock' \in [{"tick", "ptable"} -> CPUs \cup {NoCpu}],
         \A l \in {"tick", "ptable"} : lock'[l] # lock[l] => lock[l] \in {c, NoCpu} /\ lock'[l] \in {c, NoCpu},
         x.cur = cpu[c].cur, CpuOK(c)'
  PROVE  Inv'
<1>1. th' \in [Threads -> ThRec] /\ \A t \in Threads : Suspended(t)'
  BY DEF Inv, Types, Suspended
<1> QED BY <1>1, CpuStep

\* An interrupt arrives: the flag goes off, at a depth of zero.
LEMMA Step_timer == ASSUME Inv, NEW c \in CPUs, timer(c) PROVE Inv'
<1> USE CpuAssumption, ThreadAssumption
<1> DEFINE y == cpu[c]
           x == [y EXCEPT !.FL_IF = FALSE, !.hpc = IF c = 0 THEN "tick" ELSE "end",
             !.spc = IF cpu[c].cur = Sched /\ cpu[c].spc = "halt" THEN "top" ELSE cpu[c].spc]
<1>1. cpu[c] \in CpuRec /\ CpuOK(c) /\ panic = FALSE /\ lock \in [{"tick", "ptable"} -> CPUs \cup {NoCpu}]
  BY DEF Inv, Types
<1>2. /\ y \in CpuRec /\ y.ncli = cpu[c].ncli /\ y.intena = cpu[c].intena /\ y.FL_IF = cpu[c].FL_IF
      /\ y.cur = cpu[c].cur /\ y.spc = cpu[c].spc /\ y.ran = cpu[c].ran /\ y.hpc = cpu[c].hpc
  BY <1>1
<1>3. cpu' = [cpu EXCEPT ![c] = x] /\ th' = th /\ cpu'[c] = x
  BY DEF timer, SetCpu, Inv, Types
<1> HIDE DEF y
<1>4. x \in CpuRec
  BY ZenonT(40), <1>1, <1>2 DEF CpuRec
<1>5. x.FL_IF = FALSE /\ x.ncli = y.ncli /\ x.intena = y.intena /\ x.cur = y.cur
        /\ x.spc = (IF cpu[c].cur = Sched /\ cpu[c].spc = "halt" THEN "top" ELSE cpu[c].spc)
          /\ x.idx = y.idx /\ x.ran = y.ran /\ x.hpc = (IF c = 0 THEN "tick" ELSE "end")
  BY <1>2 DEF CpuRec
<1>6. panic' = FALSE /\ lock' \in [{"tick", "ptable"} -> CPUs \cup {NoCpu}]
  BY <1>1 DEF timer, CpuOK, SchedOK, ThreadOK, HandlerOK, Has, CpuRec, NoCpu
<1>7. \A l \in {"tick", "ptable"} : lock'[l] # lock[l] => lock[l] \in {c, NoCpu} /\ lock'[l] \in {c, NoCpu}
  BY <1>1 DEF timer, CpuOK, SchedOK, Has
<1> HIDE DEF x
<1>8. CpuOK(c)'
  BY SMT, <1>1, <1>2, <1>3, <1>5 DEF timer, CpuOK, SchedOK, ThreadOK, HandlerOK, Has, CpuRec, NoCpu, Sched
<1>9. x.cur = cpu[c].cur
  BY <1>2, <1>5
<1> QED BY <1>3, <1>4, <1>6, <1>7, <1>8, <1>9, QuietStep

\* The handler begins to acquire tickslock, which its CPU does not hold.
LEMMA Step_trap_acquire == ASSUME Inv, NEW c \in CPUs, trap_acquire(c) PROVE Inv'
<1> USE CpuAssumption, ThreadAssumption
<1> DEFINE y == Push(cpu[c])
           x == [y EXCEPT !.hpc = "spin"]
<1>1. cpu[c] \in CpuRec /\ CpuOK(c) /\ panic = FALSE /\ lock \in [{"tick", "ptable"} -> CPUs \cup {NoCpu}]
  BY DEF Inv, Types
<1>2. /\ y \in CpuRec /\ y.ncli = cpu[c].ncli + 1 /\ y.FL_IF = FALSE
      /\ cpu[c].ncli = 0 => y.intena = cpu[c].FL_IF
      /\ cpu[c].ncli # 0 => y.intena = cpu[c].intena
      /\ y.cur = cpu[c].cur /\ y.spc = cpu[c].spc /\ y.ran = cpu[c].ran /\ y.hpc = cpu[c].hpc
  BY <1>1, PushFields
<1>3. cpu' = [cpu EXCEPT ![c] = x] /\ th' = th /\ cpu'[c] = x
  BY DEF trap_acquire, Spin, SetCpu, Inv, Types
<1> HIDE DEF y
<1>4. x \in CpuRec
  BY <1>1, <1>2 DEF CpuRec
<1>5. x.FL_IF = y.FL_IF /\ x.ncli = y.ncli /\ x.intena = y.intena /\ x.cur = y.cur /\ x.spc = y.spc
        /\ x.idx = y.idx /\ x.ran = y.ran /\ x.hpc = "spin"
  BY <1>2 DEF CpuRec
<1>6. panic' = FALSE /\ lock' \in [{"tick", "ptable"} -> CPUs \cup {NoCpu}]
  BY <1>1 DEF trap_acquire, Spin, CpuOK, SchedOK, ThreadOK, HandlerOK, Has, CpuRec, NoCpu
<1>7. \A l \in {"tick", "ptable"} : lock'[l] # lock[l] => lock[l] \in {c, NoCpu} /\ lock'[l] \in {c, NoCpu}
  BY <1>1 DEF trap_acquire, Spin, CpuOK, SchedOK, Has
<1> HIDE DEF x
<1>8. CpuOK(c)'
  BY SMT, <1>1, <1>2, <1>3, <1>5 DEF trap_acquire, Spin, CpuOK, SchedOK, ThreadOK, HandlerOK, Has, CpuRec, NoCpu, Sched
<1>9. x.cur = cpu[c].cur
  BY <1>2, <1>5
<1> QED BY <1>3, <1>4, <1>6, <1>7, <1>8, <1>9, QuietStep

\* The handler has tickslock and waits for ptable.lock.
LEMMA Step_trap_tick == ASSUME Inv, NEW c \in CPUs, trap_tick(c) PROVE Inv'
<1> USE CpuAssumption, ThreadAssumption
<1> DEFINE y == Push(cpu[c])
           x == [y EXCEPT !.hpc = "wakeup"]
<1>1. cpu[c] \in CpuRec /\ CpuOK(c) /\ panic = FALSE /\ lock \in [{"tick", "ptable"} -> CPUs \cup {NoCpu}]
  BY DEF Inv, Types
<1>2. /\ y \in CpuRec /\ y.ncli = cpu[c].ncli + 1 /\ y.FL_IF = FALSE
      /\ cpu[c].ncli = 0 => y.intena = cpu[c].FL_IF
      /\ cpu[c].ncli # 0 => y.intena = cpu[c].intena
      /\ y.cur = cpu[c].cur /\ y.spc = cpu[c].spc /\ y.ran = cpu[c].ran /\ y.hpc = cpu[c].hpc
  BY <1>1, PushFields
<1>3. cpu' = [cpu EXCEPT ![c] = x] /\ th' = th /\ cpu'[c] = x
  BY DEF trap_tick, Takes, SetCpu, Inv, Types
<1> HIDE DEF y
<1>4. x \in CpuRec
  BY <1>1, <1>2 DEF CpuRec
<1>5. x.FL_IF = y.FL_IF /\ x.ncli = y.ncli /\ x.intena = y.intena /\ x.cur = y.cur /\ x.spc = y.spc
        /\ x.idx = y.idx /\ x.ran = y.ran /\ x.hpc = "wakeup"
  BY <1>2 DEF CpuRec
<1>6. panic' = FALSE /\ lock' \in [{"tick", "ptable"} -> CPUs \cup {NoCpu}]
  BY <1>1 DEF trap_tick, Takes, CpuOK, SchedOK, ThreadOK, HandlerOK, Has, CpuRec, NoCpu
<1>7. \A l \in {"tick", "ptable"} : lock'[l] # lock[l] => lock[l] \in {c, NoCpu} /\ lock'[l] \in {c, NoCpu}
  BY <1>1 DEF trap_tick, Takes, CpuOK, SchedOK, Has
<1> HIDE DEF x
<1>8. CpuOK(c)'
  BY SMT, <1>1, <1>2, <1>3, <1>5 DEF trap_tick, Takes, CpuOK, SchedOK, ThreadOK, HandlerOK, Has, CpuRec, NoCpu, Sched
<1>9. x.cur = cpu[c].cur
  BY <1>2, <1>5
<1> QED BY <1>3, <1>4, <1>6, <1>7, <1>8, <1>9, QuietStep

\* scheduler() turns interrupts on.
LEMMA Step_sched_sti == ASSUME Inv, NEW c \in CPUs, sched_sti(c) PROVE Inv'
<1> USE CpuAssumption, ThreadAssumption
<1> DEFINE y == cpu[c]
           x == [y EXCEPT !.FL_IF = TRUE, !.spc = "lock"]
<1>1. cpu[c] \in CpuRec /\ CpuOK(c) /\ panic = FALSE /\ lock \in [{"tick", "ptable"} -> CPUs \cup {NoCpu}]
  BY DEF Inv, Types
<1>2. /\ y \in CpuRec /\ y.ncli = cpu[c].ncli /\ y.intena = cpu[c].intena /\ y.FL_IF = cpu[c].FL_IF
      /\ y.cur = cpu[c].cur /\ y.spc = cpu[c].spc /\ y.ran = cpu[c].ran /\ y.hpc = cpu[c].hpc
  BY <1>1
<1>3. cpu' = [cpu EXCEPT ![c] = x] /\ th' = th /\ cpu'[c] = x
  BY DEF sched_sti, Free, Sti, SetCpu, Inv, Types
<1> HIDE DEF y
<1>4. x \in CpuRec
  BY <1>1, <1>2 DEF CpuRec
<1>5. x.FL_IF = TRUE /\ x.ncli = y.ncli /\ x.intena = y.intena /\ x.cur = y.cur /\ x.spc = "lock"
        /\ x.idx = y.idx /\ x.ran = y.ran /\ x.hpc = y.hpc
  BY <1>2 DEF CpuRec
<1>6. panic' = FALSE /\ lock' \in [{"tick", "ptable"} -> CPUs \cup {NoCpu}]
  BY <1>1 DEF sched_sti, Free, Sti, CpuOK, SchedOK, ThreadOK, HandlerOK, Has, CpuRec, NoCpu
<1>7. \A l \in {"tick", "ptable"} : lock'[l] # lock[l] => lock[l] \in {c, NoCpu} /\ lock'[l] \in {c, NoCpu}
  BY <1>1 DEF sched_sti, Free, Sti, CpuOK, SchedOK, Has
<1> HIDE DEF x
<1>8. CpuOK(c)'
  BY SMT, <1>1, <1>2, <1>3, <1>5 DEF sched_sti, Free, Sti, CpuOK, SchedOK, ThreadOK, HandlerOK, Has, CpuRec, NoCpu, Sched
<1>9. x.cur = cpu[c].cur
  BY <1>2, <1>5
<1> QED BY <1>3, <1>4, <1>6, <1>7, <1>8, <1>9, QuietStep

\* scheduler() waits for ptable.lock and remembers that interrupts were on.
LEMMA Step_sched_acquire == ASSUME Inv, NEW c \in CPUs, sched_acquire(c) PROVE Inv'
<1> USE CpuAssumption, ThreadAssumption
<1> DEFINE y == Push(cpu[c])
           x == [y EXCEPT !.spc = "spin"]
<1>1. cpu[c] \in CpuRec /\ CpuOK(c) /\ panic = FALSE /\ lock \in [{"tick", "ptable"} -> CPUs \cup {NoCpu}]
  BY DEF Inv, Types
<1>2. /\ y \in CpuRec /\ y.ncli = cpu[c].ncli + 1 /\ y.FL_IF = FALSE
      /\ cpu[c].ncli = 0 => y.intena = cpu[c].FL_IF
      /\ cpu[c].ncli # 0 => y.intena = cpu[c].intena
      /\ y.cur = cpu[c].cur /\ y.spc = cpu[c].spc /\ y.ran = cpu[c].ran /\ y.hpc = cpu[c].hpc
  BY <1>1, PushFields
<1>3. cpu' = [cpu EXCEPT ![c] = x] /\ th' = th /\ cpu'[c] = x
  BY DEF sched_acquire, Free, Spin, SetCpu, Inv, Types
<1> HIDE DEF y
<1>4. x \in CpuRec
  BY <1>1, <1>2 DEF CpuRec
<1>5. x.FL_IF = y.FL_IF /\ x.ncli = y.ncli /\ x.intena = y.intena /\ x.cur = y.cur /\ x.spc = "spin"
        /\ x.idx = y.idx /\ x.ran = y.ran /\ x.hpc = y.hpc
  BY <1>2 DEF CpuRec
<1>6. panic' = FALSE /\ lock' \in [{"tick", "ptable"} -> CPUs \cup {NoCpu}]
  BY <1>1 DEF sched_acquire, Free, Spin, CpuOK, SchedOK, ThreadOK, HandlerOK, Has, CpuRec, NoCpu
<1>7. \A l \in {"tick", "ptable"} : lock'[l] # lock[l] => lock[l] \in {c, NoCpu} /\ lock'[l] \in {c, NoCpu}
  BY <1>1 DEF sched_acquire, Free, Spin, CpuOK, SchedOK, Has
<1> HIDE DEF x
<1>8. CpuOK(c)'
  BY SMT, <1>1, <1>2, <1>3, <1>5 DEF sched_acquire, Free, Spin, CpuOK, SchedOK, ThreadOK, HandlerOK, Has, CpuRec,
    NoCpu, Sched
<1>9. x.cur = cpu[c].cur
  BY <1>2, <1>5
<1> QED BY <1>3, <1>4, <1>6, <1>7, <1>8, <1>9, QuietStep

\* scheduler() has ptable.lock, and nothing has run in this pass.
LEMMA Step_sched_lock == ASSUME Inv, NEW c \in CPUs, sched_lock(c) PROVE Inv'
<1> USE CpuAssumption, ThreadAssumption
<1> DEFINE y == cpu[c]
           x == [y EXCEPT !.spc = "scan", !.idx = 1, !.ran = FALSE]
<1>1. cpu[c] \in CpuRec /\ CpuOK(c) /\ panic = FALSE /\ lock \in [{"tick", "ptable"} -> CPUs \cup {NoCpu}]
  BY DEF Inv, Types
<1>2. /\ y \in CpuRec /\ y.ncli = cpu[c].ncli /\ y.intena = cpu[c].intena /\ y.FL_IF = cpu[c].FL_IF
      /\ y.cur = cpu[c].cur /\ y.spc = cpu[c].spc /\ y.ran = cpu[c].ran /\ y.hpc = cpu[c].hpc
  BY <1>1
<1>3. cpu' = [cpu EXCEPT ![c] = x] /\ th' = th /\ cpu'[c] = x
  BY DEF sched_lock, Free, Takes, SetCpu, Inv, Types
<1> HIDE DEF y
<1>4. x \in CpuRec
  BY <1>2, ScanRec
<1>5. x.FL_IF = y.FL_IF /\ x.ncli = y.ncli /\ x.intena = y.intena /\ x.cur = y.cur /\ x.spc = "scan" /\ x.idx = 1
        /\ x.ran = FALSE /\ x.hpc = y.hpc
  BY <1>2 DEF CpuRec
<1>6. panic' = FALSE /\ lock' \in [{"tick", "ptable"} -> CPUs \cup {NoCpu}]
  BY <1>1 DEF sched_lock, Free, Takes, CpuOK, SchedOK, ThreadOK, HandlerOK, Has, CpuRec, NoCpu
<1>7. \A l \in {"tick", "ptable"} : lock'[l] # lock[l] => lock[l] \in {c, NoCpu} /\ lock'[l] \in {c, NoCpu}
  BY <1>1 DEF sched_lock, Free, Takes, CpuOK, SchedOK, Has
<1> HIDE DEF x
<1>8. CpuOK(c)'
  BY SMT, <1>1, <1>2, <1>3, <1>5 DEF sched_lock, Free, Takes, CpuOK, SchedOK, ThreadOK, HandlerOK, Has, CpuRec,
    NoCpu, Sched
<1>9. x.cur = cpu[c].cur
  BY <1>2, <1>5
<1> QED BY <1>3, <1>4, <1>6, <1>7, <1>8, <1>9, QuietStep

\* After an empty pass the flag that acquire() saved is back: on.
LEMMA Step_sched_release == ASSUME Inv, NEW c \in CPUs, sched_release(c) PROVE Inv'
<1> USE CpuAssumption, ThreadAssumption
<1> DEFINE y == Pop(cpu[c])
           x == [y EXCEPT !.spc = IF cpu[c].ran THEN "top" ELSE "halt"]
<1>1. cpu[c] \in CpuRec /\ CpuOK(c) /\ panic = FALSE /\ lock \in [{"tick", "ptable"} -> CPUs \cup {NoCpu}]
  BY DEF Inv, Types
<1>2. /\ y \in CpuRec /\ y.ncli = cpu[c].ncli - 1 /\ y.intena = cpu[c].intena
      /\ cpu[c].ncli = 1 /\ cpu[c].intena = TRUE => y.FL_IF = TRUE
      /\ y.cur = cpu[c].cur /\ y.spc = cpu[c].spc /\ y.ran = cpu[c].ran /\ y.hpc = cpu[c].hpc
  BY <1>1, PopFields
<1>3. cpu' = [cpu EXCEPT ![c] = x] /\ th' = th /\ cpu'[c] = x
  BY DEF sched_release, Free, Gives, BadPop, SetCpu, Inv, Types
<1> HIDE DEF y
<1>4. x \in CpuRec
  BY <1>1, <1>2 DEF CpuRec
<1>5. x.FL_IF = y.FL_IF /\ x.ncli = y.ncli /\ x.intena = y.intena /\ x.cur = y.cur
        /\ x.spc = (IF cpu[c].ran THEN "top" ELSE "halt") /\ x.idx = y.idx /\ x.ran = y.ran /\ x.hpc = y.hpc
  BY <1>2 DEF CpuRec
<1>6. panic' = FALSE /\ lock' \in [{"tick", "ptable"} -> CPUs \cup {NoCpu}]
  BY SMT, <1>1 DEF sched_release, Free, Gives, BadPop, CpuOK, SchedOK, ThreadOK, HandlerOK, Has, CpuRec, NoCpu
<1>7. \A l \in {"tick", "ptable"} : lock'[l] # lock[l] => lock[l] \in {c, NoCpu} /\ lock'[l] \in {c, NoCpu}
  BY <1>1 DEF sched_release, Free, Gives, BadPop, CpuOK, SchedOK, Has
<1> HIDE DEF x
<1>8. CpuOK(c)'
  <2>1. x.ncli = 0 /\ x.cur = Sched /\ x.hpc = "none" /\ (x.spc = "top" \/ (x.spc = "halt" /\ x.FL_IF = TRUE))
    BY SMT, <1>1, <1>2, <1>5 DEF sched_release, Free, CpuOK, SchedOK, CpuRec
  <2> QED BY SMT, <1>1, <2>1, <1>3 DEF sched_release, Free, Gives, BadPop, CpuOK, SchedOK, ThreadOK, HandlerOK, Has,
    CpuRec, NoCpu, Sched
<1>9. x.cur = cpu[c].cur
  BY <1>2, <1>5
<1> QED BY <1>3, <1>4, <1>6, <1>7, <1>8, <1>9, QuietStep

\* The handler returns, or yield() waits for ptable.lock.
LEMMA Step_trap_end == ASSUME Inv, NEW c \in CPUs, trap_end(c) PROVE Inv'
<1> USE CpuAssumption, ThreadAssumption
<1>1. cpu[c] \in CpuRec /\ CpuOK(c) /\ panic = FALSE /\ lock \in [{"tick", "ptable"} -> CPUs \cup {NoCpu}]
  BY DEF Inv, Types
<1>2. lock' = lock /\ th' = th /\ panic' = FALSE
  BY <1>1 DEF trap_end, Spin, CpuOK, HandlerOK, Has
<1>3. CASE cpu[c].cur = Sched
  <2> DEFINE x == [cpu[c] EXCEPT !.hpc = "none", !.FL_IF = TRUE]
  <2>1. cpu' = [cpu EXCEPT ![c] = x] /\ cpu'[c] = x
    BY <1>3 DEF trap_end, SetCpu, Inv, Types
  <2>2. x \in CpuRec /\ x.cur = Sched
    BY <1>1, <1>3 DEF CpuRec
  <2>3. x.FL_IF = TRUE /\ x.hpc = "none" /\ x.spc = cpu[c].spc /\ x.ncli = cpu[c].ncli
    BY <1>1 DEF CpuRec
  <2> HIDE DEF x
  <2>4. CpuOK(c)'
    BY <1>1, <1>2, <1>3, <2>1, <2>2, <2>3 DEF trap_end, CpuOK, SchedOK, ThreadOK, HandlerOK, Has
  <2> QED BY <1>1, <1>2, <1>3, <2>1, <2>2, <2>4, QuietStep
<1>4. CASE cpu[c].cur # Sched
  <2> DEFINE y == Push(cpu[c])
             x == [y EXCEPT !.hpc = "yield"]
  <2>1. cpu' = [cpu EXCEPT ![c] = x] /\ cpu'[c] = x
    BY <1>4 DEF trap_end, Spin, SetCpu, Inv, Types
  <2>2. y \in CpuRec /\ y.cur = cpu[c].cur /\ y.FL_IF = FALSE /\ y.ncli = cpu[c].ncli + 1 /\ y.spc = cpu[c].spc
          /\ y.ran = cpu[c].ran
    BY <1>1, PushFields
  <2> HIDE DEF y
  <2>3. x \in CpuRec /\ x.cur = cpu[c].cur /\ x.FL_IF = FALSE /\ x.ncli = cpu[c].ncli + 1 /\ x.spc = cpu[c].spc
          /\ x.ran = cpu[c].ran
        /\ x.hpc = "yield"
    BY <2>2 DEF CpuRec
  <2> HIDE DEF x
  <2>4. CpuOK(c)'
    BY SMT, <1>1, <1>2, <1>4, <2>1, <2>3 DEF trap_end, CpuOK, SchedOK, ThreadOK, HandlerOK, Has
  <2> QED BY <1>1, <1>2, <2>1, <2>3, <2>4, QuietStep
<1> QED BY <1>3, <1>4

\* The handler wakes threads that sleep, and none that runs.
LEMMA Step_trap_wakeup == ASSUME Inv, NEW c \in CPUs, trap_wakeup(c) PROVE Inv'
<1> USE CpuAssumption, ThreadAssumption
<1>1. cpu[c] \in CpuRec /\ CpuOK(c) /\ panic = FALSE /\ lock \in [{"tick", "ptable"} -> CPUs \cup {NoCpu}]
  BY DEF Inv, Types
<1> DEFINE y == Pop(cpu[c])
           z == Pop(y)
           x == [z EXCEPT !.hpc = "end"]
<1>2. /\ y \in CpuRec /\ y.ncli = 1 /\ y.FL_IF = FALSE /\ y.intena = FALSE
      /\ y.cur = cpu[c].cur /\ y.spc = cpu[c].spc /\ y.ran = cpu[c].ran
  <2>1. cpu[c].ncli = 2 /\ cpu[c].FL_IF = FALSE /\ cpu[c].intena = FALSE
    BY <1>1 DEF trap_wakeup, CpuOK, HandlerOK, CpuRec
  <2>2. cpu[c].ncli # 1 /\ cpu[c].ncli - 1 = 1
    BY SMT, <2>1
  <2> QED BY <1>1, <2>1, <2>2, PopFields
<1>3. cpu' = [cpu EXCEPT ![c] = x] /\ cpu'[c] = x
  BY DEF trap_wakeup, SetCpu, Inv, Types
<1>4. panic' = FALSE
  <2>1. ~BadPop(cpu[c]) /\ lock["tick"] = c
    BY SMT, <1>1 DEF trap_wakeup, CpuOK, HandlerOK, BadPop, Has
  <2>2. ~BadPop(y)
    <3> HIDE DEF y
    <3> QED BY SMT, <1>2 DEF BadPop
  <2> QED BY <1>1, <2>1, <2>2 DEF trap_wakeup
<1> HIDE DEF y
<1>5. /\ z \in CpuRec /\ z.ncli = 0 /\ z.FL_IF = FALSE
      /\ z.cur = cpu[c].cur /\ z.spc = cpu[c].spc /\ z.ran = cpu[c].ran
  <2>1. y.ncli - 1 = 0
    BY SMT, <1>2
  <2> QED BY <1>2, <2>1, PopFields
<1> HIDE DEF z
<1>6. /\ x \in CpuRec /\ x.ncli = 0 /\ x.FL_IF = FALSE /\ x.hpc = "end"
      /\ x.cur = cpu[c].cur /\ x.spc = cpu[c].spc /\ x.ran = cpu[c].ran
  BY <1>5 DEF CpuRec
<1> HIDE DEF x
<1>7. /\ th' \in [Threads -> ThRec]
      /\ \A t \in Threads : th[t].state = "RUNNING" => th'[t] = th[t]
      /\ \A t \in Threads : Suspended(t)'
  BY SMTT(40) DEF trap_wakeup, Inv, Types, ThRec, Suspended
<1>8. /\ lock' \in [{"tick", "ptable"} -> CPUs \cup {NoCpu}] /\ lock'["tick"] = NoCpu
        /\ lock'["ptable"] = lock["ptable"]
      /\ lock["tick"] = c
  BY <1>1 DEF trap_wakeup, Gives, CpuOK, HandlerOK, Has
<1>9. cpu[c].cur \in Threads \cup {Sched}
  BY <1>1 DEF CpuRec
<1>10. CpuOK(c)'
  BY SMT, <1>1, <1>3, <1>6, <1>7, <1>8, <1>9 DEF trap_wakeup, CpuOK, SchedOK, ThreadOK, HandlerOK, Has, NoCpu
<1>11. \A t \in Threads : (\E d \in CPUs \ {c} : cpu[d].cur = t) => th'[t] = th[t]
  <2>1. \A d \in CPUs : cpu[d].cur # Sched => th[cpu[d].cur].state = "RUNNING"
    BY DEF Inv, CpuOK, ThreadOK
  <2> QED BY SMT, <1>7, <2>1 DEF Threads, Sched
<1>12. \A l \in {"tick", "ptable"} : lock'[l] # lock[l] => lock[l] \in {c, NoCpu} /\ lock'[l] \in {c, NoCpu}
  BY <1>8
<1> QED BY <1>1, <1>3, <1>4, <1>6, <1>7, <1>8, <1>10, <1>11, <1>12, CpuStep

\* A step of the thread t on c that only moves its pc, to a place l that fits
\* the locks and the interrupt state of c after the step.
LEMMA GotoStep ==
  ASSUME Inv, NEW c \in CPUs, NEW t \in Threads, cpu[c].cur = t, cpu[c].hpc = "none",
         NEW x \in CpuRec, cpu' = [cpu EXCEPT ![c] = x],
         x.cur = cpu[c].cur, x.spc = cpu[c].spc, x.ran = cpu[c].ran, x.hpc = cpu[c].hpc,
         NEW l \in Open \cup {"spin", "held", "sleep"}, th' = [th EXCEPT ![t].pc = l], panic' = FALSE,
         lock' \in [{"tick", "ptable"} -> CPUs \cup {NoCpu}], lock'["ptable"] = lock["ptable"],
         lock'["tick"] # lock["tick"] => lock["tick"] \in {c, NoCpu} /\ lock'["tick"] \in {c, NoCpu},
         l \in Open => x.ncli = 0 /\ x.FL_IF = TRUE,
         l \notin Open => x.FL_IF = FALSE /\ x.intena = TRUE,
         x.ncli = IF l \in Open THEN 0 ELSE IF l = "sleep" THEN 2 ELSE 1,
         lock'["tick"] = c <=> l \in {"held", "sleep"}
  PROVE  Inv'
<1> USE CpuAssumption, ThreadAssumption
<1>1. CpuOK(c) /\ th \in [Threads -> ThRec] /\ cpu'[c] = x /\ t # Sched
  BY SMT DEF Inv, Types, Threads, Sched
<1>2. /\ th' \in [Threads -> ThRec]
      /\ \A u \in Threads : u # t => th'[u] = th[u]
      /\ th'[t].pc = l /\ th'[t].state = th[t].state
  BY SMT, <1>1 DEF ThRec
<1>3. th[t].state = "RUNNING" /\ lock["ptable"] # c
  BY <1>1 DEF CpuOK, ThreadOK, Has, Open, ThRec
<1>4. \A u \in Threads : Suspended(u)'
  BY <1>2, <1>3 DEF Inv, Suspended
<1>5. CpuOK(c)'
  BY SMT, <1>1, <1>2, <1>3 DEF CpuOK, SchedOK, ThreadOK, HandlerOK, Has, Open
<1>6. \A u \in Threads : (\E d \in CPUs \ {c} : cpu[d].cur = u) => th'[u] = th[u]
  BY SMT, <1>1, <1>2 DEF Inv
<1>7. \A k \in {"tick", "ptable"} : lock'[k] # lock[k] => lock[k] \in {c, NoCpu} /\ lock'[k] \in {c, NoCpu}
  OBVIOUS
<1> QED BY <1>2, <1>4, <1>5, <1>6, <1>7, CpuStep

\* A system call begins.
LEMMA Step_syscall == ASSUME Inv, NEW c \in CPUs, NEW t \in Threads, syscall(c, t) PROVE Inv'
<1> USE CpuAssumption, ThreadAssumption
<1> DEFINE x == cpu[c]
<1>1. cpu[c] \in CpuRec /\ CpuOK(c) /\ panic = FALSE /\ lock \in [{"tick", "ptable"} -> CPUs \cup {NoCpu}]
  BY DEF Inv, Types
<1>2. t # Sched /\ cpu[c].cur = t /\ cpu[c].hpc = "none" /\ th' = [th EXCEPT ![t].pc = "sys"]
        /\ cpu' = [cpu EXCEPT ![c] = x]
  BY SMT DEF syscall, Runs, Goto, SetCpu, Inv, Types, Threads, Sched
<1>3. /\ cpu[c].ncli \in Int /\ cpu[c].FL_IF \in BOOLEAN
      /\ ThreadOK(c)
  BY <1>1 DEF CpuRec, CpuOK
<1>3a. cpu[c].ncli = 0 /\ cpu[c].FL_IF = TRUE
  BY <1>2, <1>3 DEF syscall, Runs, ThreadOK, Open
<1>4. /\ x \in CpuRec /\ x.cur = cpu[c].cur /\ x.spc = cpu[c].spc /\ x.ran = cpu[c].ran /\ x.hpc = cpu[c].hpc
      /\ x.ncli = 0 /\ x.FL_IF = TRUE
  BY <1>1, <1>2, <1>3a
<1>5. /\ panic' = FALSE /\ lock' \in [{"tick", "ptable"} -> CPUs \cup {NoCpu}] /\ lock'["ptable"] = lock["ptable"]
      /\ lock'["tick"] # lock["tick"] => lock["tick"] \in {c, NoCpu} /\ lock'["tick"] \in {c, NoCpu}
      /\ lock'["tick"] = c <=> "sys" \in {"held", "sleep"}
  BY <1>1, <1>2, <1>3 DEF syscall, Runs, ThreadOK, Has, Open, NoCpu
<1> HIDE DEF x
<1> QED BY <1>1, <1>2, <1>4, <1>5, GotoStep DEF Open

\* A system call ends.
LEMMA Step_sys_return == ASSUME Inv, NEW c \in CPUs, NEW t \in Threads, sys_return(c, t) PROVE Inv'
<1> USE CpuAssumption, ThreadAssumption
<1> DEFINE x == cpu[c]
<1>1. cpu[c] \in CpuRec /\ CpuOK(c) /\ panic = FALSE /\ lock \in [{"tick", "ptable"} -> CPUs \cup {NoCpu}]
  BY DEF Inv, Types
<1>2. t # Sched /\ cpu[c].cur = t /\ cpu[c].hpc = "none" /\ th' = [th EXCEPT ![t].pc = "user"]
        /\ cpu' = [cpu EXCEPT ![c] = x]
  BY SMT DEF sys_return, Runs, Goto, SetCpu, Inv, Types, Threads, Sched
<1>3. /\ cpu[c].ncli \in Int /\ cpu[c].FL_IF \in BOOLEAN
      /\ ThreadOK(c)
  BY <1>1 DEF CpuRec, CpuOK
<1>3a. cpu[c].ncli = 0 /\ cpu[c].FL_IF = TRUE
  BY <1>2, <1>3 DEF sys_return, Runs, ThreadOK, Open
<1>4. /\ x \in CpuRec /\ x.cur = cpu[c].cur /\ x.spc = cpu[c].spc /\ x.ran = cpu[c].ran /\ x.hpc = cpu[c].hpc
      /\ x.ncli = 0 /\ x.FL_IF = TRUE
  BY <1>1, <1>2, <1>3a
<1>5. /\ panic' = FALSE /\ lock' \in [{"tick", "ptable"} -> CPUs \cup {NoCpu}] /\ lock'["ptable"] = lock["ptable"]
      /\ lock'["tick"] # lock["tick"] => lock["tick"] \in {c, NoCpu} /\ lock'["tick"] \in {c, NoCpu}
      /\ lock'["tick"] = c <=> "user" \in {"held", "sleep"}
  BY <1>1, <1>2, <1>3 DEF sys_return, Runs, ThreadOK, Has, Open, NoCpu
<1> HIDE DEF x
<1> QED BY <1>1, <1>2, <1>4, <1>5, GotoStep DEF Open

\* A system call waits for tickslock.
LEMMA Step_acquire == ASSUME Inv, NEW c \in CPUs, NEW t \in Threads, acquire(c, t) PROVE Inv'
<1> USE CpuAssumption, ThreadAssumption
<1> DEFINE x == Push(cpu[c])
<1>1. cpu[c] \in CpuRec /\ CpuOK(c) /\ panic = FALSE /\ lock \in [{"tick", "ptable"} -> CPUs \cup {NoCpu}]
  BY DEF Inv, Types
<1>2. t # Sched /\ cpu[c].cur = t /\ cpu[c].hpc = "none" /\ th' = [th EXCEPT ![t].pc = "spin"]
        /\ cpu' = [cpu EXCEPT ![c] = x]
  BY SMT DEF acquire, Spin, Runs, Goto, SetCpu, Inv, Types, Threads, Sched
<1>3. /\ cpu[c].ncli \in Int /\ cpu[c].FL_IF \in BOOLEAN
      /\ ThreadOK(c)
  BY <1>1 DEF CpuRec, CpuOK
<1>3a. cpu[c].ncli = 0 /\ cpu[c].FL_IF = TRUE
  BY <1>2, <1>3 DEF acquire, Spin, Runs, ThreadOK, Open
<1>3b. cpu[c].ncli + 1 = 1
  BY SMT, <1>3a
<1>4. /\ x \in CpuRec /\ x.cur = cpu[c].cur /\ x.spc = cpu[c].spc /\ x.ran = cpu[c].ran /\ x.hpc = cpu[c].hpc
      /\ x.ncli = 1 /\ x.FL_IF = FALSE /\ x.intena = TRUE
  BY <1>1, <1>2, <1>3a, <1>3b, PushFields
<1>5. /\ panic' = FALSE /\ lock' \in [{"tick", "ptable"} -> CPUs \cup {NoCpu}] /\ lock'["ptable"] = lock["ptable"]
      /\ lock'["tick"] # lock["tick"] => lock["tick"] \in {c, NoCpu} /\ lock'["tick"] \in {c, NoCpu}
      /\ lock'["tick"] = c <=> "spin" \in {"held", "sleep"}
  BY <1>1, <1>2, <1>3 DEF acquire, Spin, Runs, ThreadOK, Has, Open, NoCpu
<1> HIDE DEF x
<1> QED BY <1>1, <1>2, <1>4, <1>5, GotoStep DEF Open

\* It has the lock.
LEMMA Step_acquired == ASSUME Inv, NEW c \in CPUs, NEW t \in Threads, acquired(c, t) PROVE Inv'
<1> USE CpuAssumption, ThreadAssumption
<1> DEFINE x == cpu[c]
<1>1. cpu[c] \in CpuRec /\ CpuOK(c) /\ panic = FALSE /\ lock \in [{"tick", "ptable"} -> CPUs \cup {NoCpu}]
  BY DEF Inv, Types
<1>2. t # Sched /\ cpu[c].cur = t /\ cpu[c].hpc = "none" /\ th' = [th EXCEPT ![t].pc = "held"]
        /\ cpu' = [cpu EXCEPT ![c] = x]
  BY SMT DEF acquired, Takes, Runs, Goto, SetCpu, Inv, Types, Threads, Sched
<1>3. /\ cpu[c].ncli \in Int /\ cpu[c].FL_IF \in BOOLEAN
      /\ ThreadOK(c)
  BY <1>1 DEF CpuRec, CpuOK
<1>3a. cpu[c].ncli = 1 /\ cpu[c].FL_IF = FALSE /\ cpu[c].intena = TRUE
  BY <1>2, <1>3 DEF acquired, Takes, Runs, ThreadOK, Open
<1>4. /\ x \in CpuRec /\ x.cur = cpu[c].cur /\ x.spc = cpu[c].spc /\ x.ran = cpu[c].ran /\ x.hpc = cpu[c].hpc
      /\ x.ncli = 1 /\ x.FL_IF = FALSE /\ x.intena = TRUE
  BY <1>1, <1>2, <1>3a
<1>5. /\ panic' = FALSE /\ lock' \in [{"tick", "ptable"} -> CPUs \cup {NoCpu}] /\ lock'["ptable"] = lock["ptable"]
      /\ lock'["tick"] # lock["tick"] => lock["tick"] \in {c, NoCpu} /\ lock'["tick"] \in {c, NoCpu}
      /\ lock'["tick"] = c <=> "held" \in {"held", "sleep"}
  BY <1>1, <1>2, <1>3 DEF acquired, Takes, Runs, ThreadOK, Has, Open, NoCpu
<1> HIDE DEF x
<1> QED BY ZenonT(40), <1>1, <1>2, <1>4, <1>5, GotoStep DEF Open

\* It gives the lock back, and interrupts are on again.
LEMMA Step_release == ASSUME Inv, NEW c \in CPUs, NEW t \in Threads, release(c, t) PROVE Inv'
<1> USE CpuAssumption, ThreadAssumption
<1> DEFINE x == Pop(cpu[c])
<1>1. cpu[c] \in CpuRec /\ CpuOK(c) /\ panic = FALSE /\ lock \in [{"tick", "ptable"} -> CPUs \cup {NoCpu}]
  BY DEF Inv, Types
<1>2. t # Sched /\ cpu[c].cur = t /\ cpu[c].hpc = "none" /\ th' = [th EXCEPT ![t].pc = "sys"]
        /\ cpu' = [cpu EXCEPT ![c] = x]
  BY SMT DEF release, Gives, BadPop, Runs, Goto, SetCpu, Inv, Types, Threads, Sched
<1>3. /\ cpu[c].ncli \in Int /\ cpu[c].FL_IF \in BOOLEAN
      /\ ThreadOK(c)
  BY <1>1 DEF CpuRec, CpuOK
<1>3a. cpu[c].ncli = 1 /\ cpu[c].FL_IF = FALSE /\ cpu[c].intena = TRUE
  BY <1>2, <1>3 DEF release, Gives, BadPop, Runs, ThreadOK, Open
<1>3b. cpu[c].ncli - 1 = 0
  BY SMT, <1>3a
<1>4. /\ x \in CpuRec /\ x.cur = cpu[c].cur /\ x.spc = cpu[c].spc /\ x.ran = cpu[c].ran /\ x.hpc = cpu[c].hpc
      /\ x.ncli = 0 /\ x.FL_IF = TRUE
  BY <1>1, <1>2, <1>3a, <1>3b, PopFields
<1>5. /\ panic' = FALSE /\ lock' \in [{"tick", "ptable"} -> CPUs \cup {NoCpu}] /\ lock'["ptable"] = lock["ptable"]
      /\ lock'["tick"] # lock["tick"] => lock["tick"] \in {c, NoCpu} /\ lock'["tick"] \in {c, NoCpu}
      /\ lock'["tick"] = c <=> "sys" \in {"held", "sleep"}
  BY SMT, <1>1, <1>2, <1>3 DEF release, Gives, BadPop, Runs, ThreadOK, Has, Open, NoCpu
<1> HIDE DEF x
<1> QED BY <1>1, <1>2, <1>4, <1>5, GotoStep DEF Open

\* sleep() waits for ptable.lock with the other lock held.
LEMMA Step_sleep == ASSUME Inv, NEW c \in CPUs, NEW t \in Threads, sleep(c, t) PROVE Inv'
<1> USE CpuAssumption, ThreadAssumption
<1> DEFINE x == Push(cpu[c])
<1>1. cpu[c] \in CpuRec /\ CpuOK(c) /\ panic = FALSE /\ lock \in [{"tick", "ptable"} -> CPUs \cup {NoCpu}]
  BY DEF Inv, Types
<1>2. t # Sched /\ cpu[c].cur = t /\ cpu[c].hpc = "none" /\ th' = [th EXCEPT ![t].pc = "sleep"]
        /\ cpu' = [cpu EXCEPT ![c] = x]
  BY SMT DEF sleep, Spin, Runs, Goto, SetCpu, Inv, Types, Threads, Sched
<1>3. /\ cpu[c].ncli \in Int /\ cpu[c].FL_IF \in BOOLEAN
      /\ ThreadOK(c)
  BY <1>1 DEF CpuRec, CpuOK
<1>3a. cpu[c].ncli = 1 /\ cpu[c].FL_IF = FALSE /\ cpu[c].intena = TRUE
  BY <1>2, <1>3 DEF sleep, Spin, Runs, ThreadOK, Open
<1>3b. cpu[c].ncli # 0 /\ cpu[c].ncli + 1 = 2
  BY SMT, <1>3a
<1>4. /\ x \in CpuRec /\ x.cur = cpu[c].cur /\ x.spc = cpu[c].spc /\ x.ran = cpu[c].ran /\ x.hpc = cpu[c].hpc
      /\ x.ncli = 2 /\ x.FL_IF = FALSE /\ x.intena = TRUE
  BY <1>1, <1>2, <1>3a, <1>3b, PushFields
<1>5. /\ panic' = FALSE /\ lock' \in [{"tick", "ptable"} -> CPUs \cup {NoCpu}] /\ lock'["ptable"] = lock["ptable"]
      /\ lock'["tick"] # lock["tick"] => lock["tick"] \in {c, NoCpu} /\ lock'["tick"] \in {c, NoCpu}
      /\ lock'["tick"] = c <=> "sleep" \in {"held", "sleep"}
  BY <1>1, <1>2, <1>3 DEF sleep, Spin, Runs, ThreadOK, Has, Open, NoCpu
<1> HIDE DEF x
<1> QED BY <1>1, <1>2, <1>4, <1>5, GotoStep DEF Open

\* sleep() takes the other lock again when it is woken.
LEMMA Step_sleep_lock == ASSUME Inv, NEW c \in CPUs, NEW t \in Threads, sleep_lock(c, t) PROVE Inv'
<1> USE CpuAssumption, ThreadAssumption
<1> DEFINE x == Push(cpu[c])
<1>1. cpu[c] \in CpuRec /\ CpuOK(c) /\ panic = FALSE /\ lock \in [{"tick", "ptable"} -> CPUs \cup {NoCpu}]
  BY DEF Inv, Types
<1>2. t # Sched /\ cpu[c].cur = t /\ cpu[c].hpc = "none" /\ th' = [th EXCEPT ![t].pc = "spin"]
        /\ cpu' = [cpu EXCEPT ![c] = x]
  BY SMT DEF sleep_lock, Spin, Runs, Goto, SetCpu, Inv, Types, Threads, Sched
<1>3. /\ cpu[c].ncli \in Int /\ cpu[c].FL_IF \in BOOLEAN
      /\ ThreadOK(c)
  BY <1>1 DEF CpuRec, CpuOK
<1>3a. cpu[c].ncli = 0 /\ cpu[c].FL_IF = TRUE
  BY <1>2, <1>3 DEF sleep_lock, Spin, Runs, ThreadOK, Open
<1>3b. cpu[c].ncli + 1 = 1
  BY SMT, <1>3a
<1>4. /\ x \in CpuRec /\ x.cur = cpu[c].cur /\ x.spc = cpu[c].spc /\ x.ran = cpu[c].ran /\ x.hpc = cpu[c].hpc
      /\ x.ncli = 1 /\ x.FL_IF = FALSE /\ x.intena = TRUE
  BY <1>1, <1>2, <1>3a, <1>3b, PushFields
<1>5. /\ panic' = FALSE /\ lock' \in [{"tick", "ptable"} -> CPUs \cup {NoCpu}] /\ lock'["ptable"] = lock["ptable"]
      /\ lock'["tick"] # lock["tick"] => lock["tick"] \in {c, NoCpu} /\ lock'["tick"] \in {c, NoCpu}
      /\ lock'["tick"] = c <=> "spin" \in {"held", "sleep"}
  BY <1>1, <1>2, <1>3 DEF sleep_lock, Spin, Runs, ThreadOK, Has, Open, NoCpu
<1> HIDE DEF x
<1> QED BY <1>1, <1>2, <1>4, <1>5, GotoStep DEF Open

\* A thread that gives up c leaves the scheduler with ptable.lock held once.
LEMMA LeaveStep ==
  ASSUME Inv, NEW c \in CPUs, NEW t \in Threads, cpu[c].cur = t,
         NEW x \in CpuRec, cpu' = [cpu EXCEPT ![c] = x],
         x.cur = Sched, x.spc = "scan", x.ran = TRUE, x.hpc = "none", x.ncli = 1, x.FL_IF = FALSE,
         NEW r \in ThRec, th' = [th EXCEPT ![t] = r], panic' = FALSE,
         r.susp = "sleep" => r.intena = TRUE, r.susp = "yield" => r.pc \in Open,
         lock' \in [{"tick", "ptable"} -> CPUs \cup {NoCpu}], lock["ptable"] = NoCpu, lock'["ptable"] = c,
         lock'["tick"] # c, lock'["tick"] # lock["tick"] => lock["tick"] = c /\ lock'["tick"] = NoCpu
  PROVE  Inv'
<1> USE CpuAssumption, ThreadAssumption
<1>1. th \in [Threads -> ThRec] /\ cpu'[c] = x /\ t # Sched
  BY SMT DEF Inv, Types, Threads, Sched
<1>2. th' \in [Threads -> ThRec] /\ \A u \in Threads : th'[u] = IF u = t THEN r ELSE th[u]
  BY <1>1
<1>3. \A u \in Threads : Suspended(u)'
  BY <1>2 DEF Inv, Suspended
<1>4. CpuOK(c)'
  BY <1>1 DEF CpuOK, SchedOK, ThreadOK, HandlerOK, Has
<1>5. \A u \in Threads : (\E d \in CPUs \ {c} : cpu[d].cur = u) => th'[u] = th[u]
  BY SMT, <1>1, <1>2 DEF Inv
<1>6. \A k \in {"tick", "ptable"} : lock'[k] # lock[k] => lock[k] \in {c, NoCpu} /\ lock'[k] \in {c, NoCpu}
  OBVIOUS
<1> QED BY <1>2, <1>3, <1>4, <1>5, <1>6, CpuStep

\* yield() gives up the CPU; the thread was interrupted with interrupts on.
LEMMA Step_yield == ASSUME Inv, NEW c \in CPUs, yield(c) PROVE Inv'
<1> USE CpuAssumption, ThreadAssumption
<1> DEFINE t == cpu[c].cur
           x == [cpu[c] EXCEPT !.hpc = "none", !.cur = Sched]
           r == [th[t] EXCEPT !.state = "RUNNABLE", !.susp = "yield", !.intena = cpu[c].intena]
<1>1. cpu[c] \in CpuRec /\ CpuOK(c) /\ panic = FALSE /\ lock \in [{"tick", "ptable"} -> CPUs \cup {NoCpu}]
  BY DEF Inv, Types
<1>2. /\ t \in Threads /\ t # Sched /\ th[t] \in ThRec /\ th[t].pc \in Open /\ cpu[c].intena \in BOOLEAN
      /\ cpu[c].ncli = 1 /\ cpu[c].FL_IF = FALSE /\ cpu[c].spc = "scan" /\ cpu[c].ran = TRUE /\ lock["tick"] # c
  BY <1>1 DEF yield, CpuOK, HandlerOK, ThreadOK, Inv, Types, CpuRec, Has
<1>3. cpu' = [cpu EXCEPT ![c] = x] /\ th' = [th EXCEPT ![t] = r]
  BY <1>2 DEF yield, SetCpu, Inv, Types, ThRec
<1>4. /\ x \in CpuRec /\ x.cur = Sched /\ x.hpc = "none" /\ x.ncli = cpu[c].ncli /\ x.FL_IF = cpu[c].FL_IF
      /\ x.spc = cpu[c].spc /\ x.ran = cpu[c].ran
  BY <1>1 DEF CpuRec
<1>5. r \in ThRec /\ r.susp = "yield" /\ r.pc = th[t].pc
  BY <1>2 DEF ThRec
<1>6. panic' = FALSE
  BY <1>1, <1>2 DEF yield, BadSched
<1>7. /\ lock' \in [{"tick", "ptable"} -> CPUs \cup {NoCpu}] /\ lock["ptable"] = NoCpu /\ lock'["ptable"] = c
      /\ lock'["tick"] = lock["tick"]
  BY <1>1 DEF yield, Takes
<1> HIDE DEF x, r
<1>8. /\ x.spc = "scan" /\ x.ran = TRUE /\ x.ncli = 1 /\ x.FL_IF = FALSE
      /\ (r.susp = "sleep" => r.intena = TRUE) /\ (r.susp = "yield" => r.pc \in Open)
      /\ lock'["tick"] # c /\ (lock'["tick"] # lock["tick"] => lock["tick"] = c /\ lock'["tick"] = NoCpu)
  BY <1>2, <1>4, <1>5, <1>7
<1> QED BY <1>2, <1>3, <1>4, <1>5, <1>6, <1>7, <1>8, LeaveStep

\* sleep() has released the other lock and gives up the CPU.
LEMMA Step_sleep_sched == ASSUME Inv, NEW c \in CPUs, NEW t \in Threads, sleep_sched(c, t) PROVE Inv'
<1> USE CpuAssumption, ThreadAssumption
<1> DEFINE y == Pop(cpu[c])
           x == [y EXCEPT !.cur = Sched]
           r == [th[t] EXCEPT !.state = "SLEEPING", !.susp = "sleep", !.intena = y.intena]
<1>1. cpu[c] \in CpuRec /\ CpuOK(c) /\ panic = FALSE /\ lock \in [{"tick", "ptable"} -> CPUs \cup {NoCpu}]
  BY DEF Inv, Types
<1>2. /\ cpu[c].cur = t /\ t # Sched /\ th[t] \in ThRec /\ cpu[c].intena = TRUE /\ cpu[c].hpc = "none"
      /\ cpu[c].ncli = 2 /\ cpu[c].FL_IF = FALSE /\ cpu[c].spc = "scan" /\ cpu[c].ran = TRUE /\ lock["tick"] = c
  BY SMT, <1>1 DEF sleep_sched, Runs, CpuOK, ThreadOK, Inv, Types, Has, Open, Threads, Sched
<1>3. cpu[c].ncli # 1 /\ cpu[c].ncli - 1 = 1
  BY SMT, <1>2
<1>4. /\ y \in CpuRec /\ y.ncli = 1 /\ y.FL_IF = FALSE /\ y.intena = TRUE /\ y.spc = "scan" /\ y.ran = TRUE
      /\ y.hpc = "none"
  BY <1>1, <1>2, <1>3, PopFields
<1>5. cpu' = [cpu EXCEPT ![c] = x] /\ th' = [th EXCEPT ![t] = r]
  BY <1>2 DEF sleep_sched, SetCpu, Inv, Types, ThRec
<1>6. panic' = FALSE
  <2>1. ~BadPop(cpu[c])
    BY SMT, <1>2 DEF BadPop
  <2>2. ~BadSched(y)
    <3> HIDE DEF y
    <3> QED BY <1>4 DEF BadSched
  <2> QED BY <1>1, <1>2, <2>1, <2>2 DEF sleep_sched
<1> HIDE DEF y
<1>7. /\ x \in CpuRec /\ x.cur = Sched /\ x.hpc = y.hpc /\ x.ncli = y.ncli /\ x.FL_IF = y.FL_IF
      /\ x.spc = y.spc /\ x.ran = y.ran
  BY <1>4 DEF CpuRec
<1>8. r \in ThRec /\ r.susp = "sleep" /\ r.intena = y.intena
  BY <1>2, <1>4 DEF ThRec
<1>9. /\ lock' \in [{"tick", "ptable"} -> CPUs \cup {NoCpu}] /\ lock["ptable"] = NoCpu /\ lock'["ptable"] = c
      /\ lock'["tick"] = NoCpu /\ c # NoCpu
  BY SMT, <1>1 DEF sleep_sched, NoCpu
<1> HIDE DEF x, r
<1>10. /\ x.spc = "scan" /\ x.ran = TRUE /\ x.ncli = 1 /\ x.FL_IF = FALSE /\ x.hpc = "none"
       /\ (r.susp = "sleep" => r.intena = TRUE) /\ (r.susp = "yield" => r.pc \in Open)
       /\ lock'["tick"] # c /\ (lock'["tick"] # lock["tick"] => lock["tick"] = c /\ lock'["tick"] = NoCpu)
  BY <1>2, <1>4, <1>7, <1>8, <1>9
<1> QED BY <1>2, <1>5, <1>6, <1>7, <1>8, <1>9, <1>10, LeaveStep

\* swtch() to the thread t: it runs with interrupts on in each of the three ways.
LEMMA Step_sched_run == ASSUME Inv, NEW c \in CPUs, sched_run(c) PROVE Inv'
<1> USE CpuAssumption, ThreadAssumption
<1>1. cpu[c] \in CpuRec /\ CpuOK(c) /\ panic = FALSE /\ lock \in [{"tick", "ptable"} -> CPUs \cup {NoCpu}]
  BY DEF Inv, Types
<1>2. PICK t \in Ready(c) :
        LET x == [cpu[c] EXCEPT !.cur = t, !.idx = t + 1, !.ran = TRUE, !.intena = Intena(c, t)]
            y == Pop(x)
        IN  /\ \A u \in Ready(c) : t <= u
            /\ panic' = (panic \/ lock["ptable"] # c \/ BadPop(x))
            /\ \/ /\ th[t].susp = "sleep"
                  /\ SetCpu(c, y) /\ th' = [th EXCEPT ![t].state = "RUNNING", ![t].pc = "awake"]
               \/ /\ th[t].susp = "yield"
                  /\ SetCpu(c, [y EXCEPT !.FL_IF = TRUE]) /\ th' = [th EXCEPT ![t].state = "RUNNING"]
               \/ /\ th[t].susp = "fork"
                  /\ SetCpu(c, [y EXCEPT !.FL_IF = TRUE]) /\ th' = [th EXCEPT ![t].state = "RUNNING", ![t].pc = "user"]
  BY DEF sched_run
<1>3. /\ t \in Threads /\ t # Sched /\ t + 1 \in Int /\ th[t] \in ThRec /\ th[t].state = "RUNNABLE"
      /\ cpu[c].ncli = 1 /\ cpu[c].FL_IF = FALSE /\ cpu[c].spc = "scan" /\ cpu[c].hpc = "none"
      /\ lock["ptable"] = c /\ lock["tick"] # c
  BY SMT, <1>1 DEF sched_run, Free, Ready, Inv, Types, CpuOK, SchedOK, Has, Threads, Sched
<1>4. Intena(c, t) \in BOOLEAN /\ (th[t].susp = "sleep" => Intena(c, t) = TRUE)
  <2>1. th[t].intena \in BOOLEAN /\ cpu[c].intena \in BOOLEAN /\ (th[t].susp = "sleep" => th[t].intena = TRUE)
    BY <1>1, <1>3 DEF Inv, Suspended, ThRec, CpuRec
  <2>2. CASE th[t].susp = "fork"
    BY <2>1, <2>2 DEF Intena
  <2>3. CASE th[t].susp # "fork"
    BY <2>1, <2>3 DEF Intena
  <2> QED BY <2>2, <2>3
<1> DEFINE n == t + 1
           i == Intena(c, t)
           x == [cpu[c] EXCEPT !.cur = t, !.idx = n, !.ran = TRUE, !.intena = i]
           y == Pop(x)
           z == [y EXCEPT !.FL_IF = TRUE]
<1>5. n \in Int /\ i \in BOOLEAN
  BY <1>3, <1>4
<1>6. x \in CpuRec /\ x.cur = t /\ x.ran = TRUE /\ x.intena = i /\ x.ncli = 1 /\ x.FL_IF = FALSE
        /\ x.spc = "scan" /\ x.hpc = "none"
  <2> HIDE DEF n, i
  <2> QED BY <1>1, <1>3, <1>5 DEF CpuRec
<1>7. panic' = FALSE
  <2>1. ~BadPop(x)
    <3> HIDE DEF x
    <3> QED BY SMT, <1>6 DEF BadPop
  <2> QED BY <1>1, <1>2, <1>3, <2>1
<1>8. \/ th[t].susp = "sleep" /\ cpu' = [cpu EXCEPT ![c] = y]
        /\ th' = [th EXCEPT ![t].state = "RUNNING", ![t].pc = "awake"]
      \/ th[t].susp = "yield" /\ cpu' = [cpu EXCEPT ![c] = z] /\ th' = [th EXCEPT ![t].state = "RUNNING"]
      \/ th[t].susp = "fork" /\ cpu' = [cpu EXCEPT ![c] = z]
        /\ th' = [th EXCEPT ![t].state = "RUNNING", ![t].pc = "user"]
  BY <1>2 DEF SetCpu
<1>9. /\ lock' \in [{"tick", "ptable"} -> CPUs \cup {NoCpu}] /\ lock'["ptable"] = NoCpu
        /\ lock'["tick"] = lock["tick"]
      /\ c # NoCpu
  BY SMT, <1>1 DEF sched_run, Gives, NoCpu
<1> HIDE DEF n, i, x
<1>10. x.ncli - 1 = 0
  BY SMT, <1>6
<1>11. /\ y \in CpuRec /\ y.cur = t /\ y.ran = TRUE /\ y.ncli = 0 /\ y.spc = "scan" /\ y.hpc = "none"
       /\ th[t].susp = "sleep" => y.FL_IF = TRUE
  <2>1. th[t].susp = "sleep" => x.intena = TRUE
    BY <1>4, <1>6 DEF i
  <2> QED BY <1>6, <1>10, <2>1, PopFields
<1> HIDE DEF y
<1>12. z \in CpuRec /\ z.cur = t /\ z.ran = TRUE /\ z.ncli = 0 /\ z.spc = "scan" /\ z.hpc = "none" /\ z.FL_IF = TRUE
  BY <1>11 DEF CpuRec
<1> HIDE DEF z
<1>13. PICK w \in CpuRec : /\ cpu' = [cpu EXCEPT ![c] = w] /\ w.cur = t /\ w.ran = TRUE /\ w.ncli = 0
                           /\ w.spc = "scan" /\ w.hpc = "none" /\ w.FL_IF = TRUE
  BY <1>8, <1>11, <1>12
<1>14. /\ th' \in [Threads -> ThRec] /\ th'[t].state = "RUNNING" /\ th'[t].pc \in Open
       /\ \A u \in Threads : u # t => th'[u] = th[u]
  <2>1. th \in [Threads -> ThRec] /\ (th[t].susp = "yield" => th[t].pc \in Open)
    BY <1>3 DEF Inv, Types, Suspended
  <2>2. CASE th' = [th EXCEPT ![t].state = "RUNNING", ![t].pc = "awake"]
    BY <2>1, <2>2, <1>3 DEF ThRec, Open
  <2>3. CASE th[t].susp = "yield" /\ th' = [th EXCEPT ![t].state = "RUNNING"]
    BY <2>1, <2>3, <1>3 DEF ThRec
  <2>4. CASE th' = [th EXCEPT ![t].state = "RUNNING", ![t].pc = "user"]
    BY <2>1, <2>4, <1>3 DEF ThRec, Open
  <2> QED BY <1>8, <2>2, <2>3, <2>4
<1>15. \A u \in Threads : Suspended(u)'
  BY <1>14 DEF Inv, Suspended
<1>16. CpuOK(c)'
  <2>1. cpu'[c] = w
    BY <1>13 DEF Inv, Types
  <2>2. th'[t].pc # "new"
    BY <1>14 DEF Open
  <2> QED BY <1>3, <1>9, <1>13, <1>14, <2>1, <2>2 DEF CpuOK, SchedOK, ThreadOK, HandlerOK, Has, Open
<1>17. \A u \in Threads : (\E d \in CPUs \ {c} : cpu[d].cur = u) => th'[u] = th[u]
  <2>1. \A d \in CPUs : cpu[d].cur # Sched => th[cpu[d].cur].state = "RUNNING"
    BY DEF Inv, CpuOK, ThreadOK
  <2> QED BY SMT, <1>3, <1>14, <2>1
<1>18. \A l \in {"tick", "ptable"} : lock'[l] # lock[l] => lock[l] \in {c, NoCpu} /\ lock'[l] \in {c, NoCpu}
  BY <1>3, <1>9
<1>19. w.cur \in {Sched, cpu[c].cur} \/ th[w.cur].state # "RUNNING"
  BY <1>3, <1>13
<1> QED BY ZenonT(40), <1>7, <1>9, <1>13, <1>14, <1>15, <1>16, <1>17, <1>18, <1>19, CpuStep

\* Every step preserves the invariant, one lemma per action.
LEMMA InvStep == Inv /\ [Next]_vars => Inv'
<1> SUFFICES ASSUME Inv, [Next]_vars PROVE Inv'
  OBVIOUS
<1>1. CASE UNCHANGED vars
  BY SMT, <1>1 DEF vars, Inv, Types, CpuOK, SchedOK, ThreadOK, HandlerOK, Has, Suspended
<1>2. ASSUME NEW c \in CPUs, timer(c) \/ Kernel(c) \/ User(c) PROVE Inv'
  BY <1>2, Step_timer, Step_trap_acquire, Step_trap_tick, Step_trap_wakeup, Step_trap_end, Step_yield,
     Step_sched_sti, Step_sched_acquire, Step_sched_lock, Step_sched_run, Step_sched_release,
     Step_acquired, Step_sleep_sched, Step_sleep_lock,
     Step_syscall, Step_sys_return, Step_acquire, Step_release, Step_sleep
     DEF Kernel, User
<1> QED BY <1>1, <1>2 DEF Next

\* So the invariant always holds.
LEMMA Always == Spec => []Inv
  BY InvInit, InvStep, PTL DEF Spec

\* The checks in acquire(), release(), popcli() and sched() never fail, on any
\* number of CPUs, although ptable.lock is taken by one thread of control and
\* released by another.
THEOREM LockChecksHold == Spec => []NoPanic
<1>1. Inv => NoPanic
  BY DEF Inv, Types, NoPanic
<1> QED BY <1>1, Always, PTL

\* A CPU that holds or waits for a spin lock takes no interrupt.
THEOREM NoInterruptUnderLock == Spec => []NoInterruptWithLock
<1>1. Inv => NoInterruptWithLock
  <2> SUFFICES ASSUME Inv, NEW c \in CPUs
               PROVE  /\ Has(c, "tick") \/ Has(c, "ptable") => cpu[c].ncli > 0
                      /\ cpu[c].ncli > 0 => ~cpu[c].FL_IF
    BY DEF NoInterruptWithLock, Has, Inv, Types
  <2>1. CpuOK(c) /\ cpu[c] \in CpuRec /\ (cpu[c].cur # Sched => th[cpu[c].cur] \in ThRec)
    BY DEF Inv, Types, CpuRec
  <2> QED BY SMT, <2>1 DEF CpuOK, SchedOK, ThreadOK, HandlerOK, CpuRec, ThRec
<1> QED BY <1>1, Always, PTL

\* A system call that holds no lock runs with interrupts on, wherever it was
\* suspended before: sched() carries cpu->intena along with the thread.
THEOREM CallsInterruptible == Spec => []SyscallInterruptible
<1>1. Inv => SyscallInterruptible
  BY SMT DEF Inv, SyscallInterruptible, Runs, CpuOK, ThreadOK, Open, Threads, Sched
<1> QED BY <1>1, Always, PTL

\* scheduler() executes hlt only with interrupts on.
THEOREM HaltsInterruptible == Spec => []HaltInterruptible
<1>1. Inv => HaltInterruptible
  BY DEF Inv, HaltInterruptible, Free, CpuOK, SchedOK
<1> QED BY <1>1, Always, PTL
=============================================================================
