----------------------------- MODULE PipeProofs -----------------------------
(***************************************************************************)
(* Theorems about Pipe, for any number of processes, any size of buffer    *)
(* and any width of the counters.  What they need is who is where, who is  *)
(* in p->lock and which ends are open; the bytes play no part.             *)
(***************************************************************************)
EXTENDS Pipe, TLAPS

\* Leaves that name no prover are Zenon's.
USE Zenon

Inside == {"w_copy", "w_sleep", "r_copy", "r_sleep"}

\* The types of the control state.
Control ==
  /\ readopen \in BOOLEAN /\ writeopen \in BOOLEAN /\ freed \in BOOLEAN
  /\ plk \in Procs \cup {NoProc}
  /\ fdr \subseteq Procs /\ fdw \subseteq Procs
  /\ killed \in [Procs -> BOOLEAN]
  /\ pc \in [Procs -> Locations]

\* p->lock is held by the process inside, and by nobody else.
LockHeld == \A p \in Procs : pc[p] \in Inside <=> plk = p

\* An end is open exactly while a process has it, or the last one to have had
\* it, only one, is on its way to pipeclose().
EndsCounted ==
  /\ \A p \in Procs : pc[p] \in InRead => p \in fdr
  /\ \A p \in Procs : pc[p] \in InWrite => p \in fdw
  /\ \A p \in Procs : pc[p] = "close_r" => fdr = {} /\ readopen
  /\ \A p \in Procs : pc[p] = "close_w" => fdw = {} /\ writeopen
  /\ \A p, q \in Procs : pc[p] = "close_r" /\ pc[q] = "close_r" => p = q
  /\ \A p, q \in Procs : pc[p] = "close_w" /\ pc[q] = "close_w" => p = q
  /\ fdr # {} => readopen
  /\ fdw # {} => writeopen
  /\ freed <=> ~readopen /\ ~writeopen

EndsInv == Control /\ LockHeld /\ EndsCounted

\* pipealloc() opens both ends.
LEMMA EndsInit == Init => EndsInv
  BY ProcAssumption DEF Init, EndsInv, Control, LockHeld, EndsCounted, Inside, Locations, InRead, InWrite

\* Every step keeps the lock and the ends in order.
LEMMA EndsStep == EndsInv /\ [Next]_vars => EndsInv'
<1> SUFFICES ASSUME EndsInv, [Next]_vars PROVE EndsInv'
  OBVIOUS
<1> USE ProcAssumption DEF EndsInv, Control, LockHeld, EndsCounted, Inside, Locations, InRead, InWrite, At, Goto, pipe, ends
<1>1. CASE UNCHANGED vars
  BY <1>1 DEF vars
<1>2. ASSUME NEW p \in Procs, Kernel(p) PROVE EndsInv'
  <2>1. CASE write_lock(p)
    BY ZenonT(40), <2>1 DEF write_lock
  <2>2. CASE write_byte(p)
    BY <2>2 DEF write_byte
  <2>3. CASE write_fail(p)
    BY SMT, <2>3 DEF write_fail
  <2>4. CASE write_full(p)
    BY ZenonT(40), <2>4 DEF write_full, WakeReaders
  <2>5. CASE write_done(p)
    BY ZenonT(40), <2>5 DEF write_done, WakeReaders
  <2>6. CASE read_empty(p)
    BY SMT, <2>6 DEF read_empty
  <2>7. CASE read_lock(p)
    BY SMT, <2>7 DEF read_lock
  <2>8. CASE read_byte(p)
    BY <2>8 DEF read_byte
  <2>9. CASE read_done(p)
    BY ZenonT(40), <2>9 DEF read_done, WakeWriters
  <2>10. CASE sleep(p)
    BY SMT, <2>10 DEF sleep
  <2>11. CASE pipeclose(p)
    <3>1. UNCHANGED <<plk, fdr, fdw, killed>> /\ plk = NoProc /\ (freed' <=> freed \/ (~readopen' /\ ~writeopen'))
      BY <2>11 DEF pipeclose, Gone
    <3>2. CASE At(p, "close_w") /\ writeopen' = FALSE /\ readopen' = readopen /\ pc' = WakeReaders(Goto(p, "user"))
      <4>1. \A q \in Procs : pc'[q] = IF q = p THEN "user" ELSE IF pc[q] = "r_asleep" THEN "read" ELSE pc[q]
        BY <3>2 DEF WakeReaders
      <4>2. pc' \in [Procs -> Locations] /\ readopen' \in BOOLEAN /\ writeopen' \in BOOLEAN /\ freed' \in BOOLEAN
        <5>1. pc' \in [Procs -> Locations]
          BY <3>2 DEF WakeReaders
        <5>2. readopen' \in BOOLEAN /\ writeopen' \in BOOLEAN
          BY <3>2
        <5>3. freed' \in BOOLEAN
          BY <2>11 DEF pipeclose
        <5> QED
          BY <5>1, <5>2, <5>3
      <4>3. Control'
        BY <3>1, <4>2
      <4>4. LockHeld'
        BY <3>1, <4>1
      <4>5. EndsCounted'
        BY ZenonT(40), <3>1, <3>2, <4>1
      <4> QED
        BY <4>3, <4>4, <4>5
    <3>3. CASE At(p, "close_r") /\ readopen' = FALSE /\ writeopen' = writeopen /\ pc' = WakeWriters(Goto(p, "user"))
      <4>1. \A q \in Procs : pc'[q] = IF q = p THEN "user" ELSE IF pc[q] = "w_asleep" THEN "write" ELSE pc[q]
        BY <3>3 DEF WakeWriters
      <4>2. pc' \in [Procs -> Locations] /\ readopen' \in BOOLEAN /\ writeopen' \in BOOLEAN /\ freed' \in BOOLEAN
        <5>1. pc' \in [Procs -> Locations]
          BY <3>3 DEF WakeWriters
        <5>2. readopen' \in BOOLEAN /\ writeopen' \in BOOLEAN
          BY <3>3
        <5>3. freed' \in BOOLEAN
          BY <2>11 DEF pipeclose
        <5> QED
          BY <5>1, <5>2, <5>3
      <4>3. Control'
        BY <3>1, <4>2
      <4>4. LockHeld'
        BY <3>1, <4>1
      <4>5. EndsCounted'
        BY ZenonT(40), <3>1, <3>3, <4>1
      <4> QED
        BY <4>3, <4>4, <4>5
    <3> QED BY <2>11, <3>2, <3>3 DEF pipeclose
  <2> QED
    BY <1>2, <2>1, <2>2, <2>3, <2>4, <2>5, <2>6, <2>7, <2>8, <2>9, <2>10, <2>11 DEF Kernel
<1>3. ASSUME NEW p \in Procs, User(p) PROVE EndsInv'
  <2>1. ASSUME NEW s, sys_write(p, s) PROVE EndsInv'
    BY ZenonT(40), <2>1 DEF sys_write, Call
  <2>2. ASSUME NEW n, sys_read(p, n) PROVE EndsInv'
    BY SMT, <2>2 DEF sys_read, Call
  <2>3. CASE close_r(p)
    BY SMT, <2>3 DEF close_r
  <2>4. CASE close_w(p)
    BY ZenonT(40), <2>4 DEF close_w
  <2>5. ASSUME NEW c \in Procs, fork(p, c) PROVE EndsInv'
    BY <2>5 DEF fork
  <2>6. CASE kill(p)
    BY SMT, <2>6 DEF kill
  <2> QED
    BY <1>3, <2>1, <2>2, <2>3, <2>4, <2>5, <2>6 DEF User
<1> QED
  BY <1>1, <1>2, <1>3 DEF Next

\* The page of the pipe is not used once it is freed: pipeclose() frees it when
\* the second end is closed, and nobody is in the pipe's code then.
THEOREM PipePageInUse == Spec => []UsersHoldEnds
<1>1. EndsInv => UsersHoldEnds
  BY DEF EndsInv, Control, EndsCounted, UsersHoldEnds, InRead, InWrite
<1> QED
  BY <1>1, EndsInit, EndsStep, PTL DEF Spec

(***************************************************************************)
(* Wakeups                                                                 *)
(***************************************************************************)
\* A writer between its test and its sleep() has the lock, so that what it saw
\* still holds; the same for a reader.
WaitInv ==
  /\ WriterNotForgotten
  /\ \A p \in Procs : pc[p] = "w_sleep" => Full /\ readopen
  /\ \A p \in Procs : pc[p] = "r_sleep" => Empty /\ writeopen

\* At first nobody is asleep.
LEMMA WaitInit == Init => WaitInv
  BY DEF Init, WaitInv, WriterNotForgotten, At

\* Every step that makes room, brings bytes or closes an end wakes those who wait
\* for it, at the latest when it leaves the lock.
LEMMA WaitStep == EndsInv /\ EndsInv' /\ WaitInv /\ [Next]_vars => WaitInv'
<1> SUFFICES ASSUME EndsInv, EndsInv', WaitInv, [Next]_vars PROVE WaitInv'
  OBVIOUS
<1> USE ProcAssumption DEF EndsInv, Control, LockHeld, Inside, Locations, InRead, InWrite,
        WaitInv, WriterNotForgotten, At, Goto, pipe, ends
\* Unless the counters move, what "full" and "empty" say does not change.
<1>0. UNCHANGED <<nread, nwrite>> => (Full' <=> Full) /\ (Empty' <=> Empty)
  BY DEF Full, Empty
<1>1. CASE UNCHANGED vars
  BY <1>0, <1>1 DEF vars
<1>2. ASSUME NEW p \in Procs, Kernel(p) PROVE WaitInv'
  <2>1. CASE write_lock(p)
    BY ZenonT(40), <1>0, <2>1 DEF write_lock
  <2>2. CASE write_byte(p)
    BY <2>2 DEF write_byte
  <2>3. CASE write_fail(p)
    BY SMT, <1>0, <2>3 DEF write_fail, EndsCounted
  <2>4. CASE write_full(p)
    BY <1>0, <2>4 DEF write_full, WakeReaders
  <2>5. CASE write_done(p)
    BY SMT, <1>0, <2>5 DEF write_done, WakeReaders
  <2>6. CASE read_empty(p)
    BY SMT, <1>0, <2>6 DEF read_empty
  <2>7. CASE read_lock(p)
    BY ZenonT(40), <1>0, <2>7 DEF read_lock
  <2>8. CASE read_byte(p)
    BY <2>8 DEF read_byte
  <2>9. CASE read_done(p)
    BY SMT, <1>0, <2>9 DEF read_done, WakeWriters
  <2>10. CASE sleep(p)
    BY SMT, <1>0, <2>10 DEF sleep
  <2>11. CASE pipeclose(p)
    BY SMT, <1>0, <2>11 DEF pipeclose, WakeReaders, WakeWriters
  <2> QED
    BY <1>2, <2>1, <2>2, <2>3, <2>4, <2>5, <2>6, <2>7, <2>8, <2>9, <2>10, <2>11 DEF Kernel
<1>3. ASSUME NEW p \in Procs, User(p) PROVE WaitInv'
  <2>1. ASSUME NEW s, sys_write(p, s) PROVE WaitInv'
    BY SMT, <1>0, <2>1 DEF sys_write, Call
  <2>2. ASSUME NEW n, sys_read(p, n) PROVE WaitInv'
    BY ZenonT(40), <1>0, <2>2 DEF sys_read, Call
  <2>3. CASE close_r(p)
    BY SMT, <1>0, <2>3 DEF close_r
  <2>4. CASE close_w(p)
    BY SMT, <1>0, <2>4 DEF close_w
  <2>5. ASSUME NEW c \in Procs, fork(p, c) PROVE WaitInv'
    BY <1>0, <2>5 DEF fork
  <2>6. CASE kill(p)
    BY SMT, <1>0, <2>6 DEF kill
  <2> QED
    BY <1>3, <2>1, <2>2, <2>3, <2>4, <2>5, <2>6 DEF User
<1> QED
  BY <1>1, <1>2, <1>3 DEF Next

\* So nobody is ever forgotten.
LEMMA WaitAlways == Spec => []WaitInv
  BY EndsInit, EndsStep, WaitInit, WaitStep, PTL DEF Spec

\* No writer sleeps in pipewrite() on a pipe that has room or no reader, but
\* for one that piperead() will wake before it leaves the lock.
THEOREM PipeWritersWoken == Spec => []WriterNotForgotten
<1>1. WaitInv => WriterNotForgotten
  BY DEF WaitInv
<1> QED
  BY <1>1, WaitAlways, PTL

\* Without kills every step that brings bytes or closes the write end wakes the
\* readers, at the latest when it leaves the lock.
LEMMA ReadersStep ==
  EndsInv /\ EndsInv' /\ WaitInv /\ NobodyKilled /\ ReadersWait /\ [Next]_vars => ReadersWait'
<1> SUFFICES ASSUME EndsInv, EndsInv', WaitInv, NobodyKilled, ReadersWait, [Next]_vars
             PROVE  ReadersWait'
  OBVIOUS
<1> USE ProcAssumption DEF EndsInv, Control, LockHeld, Inside, Locations, InRead, InWrite,
        WaitInv, NobodyKilled, ReadersWait, At, Goto, pipe, ends
<1>0. UNCHANGED <<nread, nwrite>> => (Empty' <=> Empty)
  BY DEF Empty
<1>1. CASE UNCHANGED vars
  BY <1>0, <1>1 DEF vars
<1>2. ASSUME NEW p \in Procs, Kernel(p) PROVE ReadersWait'
  <2>1. CASE write_lock(p)
    BY <1>0, <2>1 DEF write_lock
  <2>2. CASE write_byte(p)
    BY <2>2 DEF write_byte
  <2>3. CASE write_fail(p)
    BY <1>0, <2>3 DEF write_fail, EndsCounted
  <2>4. CASE write_full(p)
    BY <1>0, <2>4 DEF write_full, WakeReaders
  <2>5. CASE write_done(p)
    BY <1>0, <2>5 DEF write_done, WakeReaders
  <2>6. CASE read_empty(p)
    BY <1>0, <2>6 DEF read_empty
  <2>7. CASE read_lock(p)
    BY <1>0, <2>7 DEF read_lock
  <2>8. CASE read_byte(p)
    BY <2>8 DEF read_byte
  <2>9. CASE read_done(p)
    BY SMT, <1>0, <2>9 DEF read_done, WakeWriters
  <2>10. CASE sleep(p)
    BY <1>0, <2>10 DEF sleep
  <2>11. CASE pipeclose(p)
    BY ZenonT(40), <1>0, <2>11 DEF pipeclose, WakeReaders, WakeWriters
  <2> QED
    BY <1>2, <2>1, <2>2, <2>3, <2>4, <2>5, <2>6, <2>7, <2>8, <2>9, <2>10, <2>11 DEF Kernel
<1>3. ASSUME NEW p \in Procs, User(p) PROVE ReadersWait'
  <2>1. ASSUME NEW s, sys_write(p, s) PROVE ReadersWait'
    BY <1>0, <2>1 DEF sys_write, Call
  <2>2. ASSUME NEW n, sys_read(p, n) PROVE ReadersWait'
    BY <1>0, <2>2 DEF sys_read, Call
  <2>3. CASE close_r(p)
    BY ZenonT(40), <1>0, <2>3 DEF close_r
  <2>4. CASE close_w(p)
    BY ZenonT(40), <1>0, <2>4 DEF close_w
  <2>5. ASSUME NEW c \in Procs, fork(p, c) PROVE ReadersWait'
    BY <1>0, <2>5 DEF fork
  <2>6. CASE kill(p)
    BY <1>0, <2>6 DEF kill
  <2> QED
    BY <1>3, <2>1, <2>2, <2>3, <2>4, <2>5, <2>6 DEF User
<1> QED
  BY <1>1, <1>2, <1>3 DEF Next

\* If nobody is ever killed, no reader sleeps in piperead() on a pipe with bytes
\* in it or no writer, but for one that pipewrite() will wake before it leaves.
THEOREM PipeReadersWoken == Spec => ReaderNotForgotten
<1>1. Init => ReadersWait
  BY DEF Init, ReadersWait, At
<1> QED
  BY <1>1, EndsInit, EndsStep, WaitAlways, ReadersStep, PTL DEF Spec, ReaderNotForgotten
=============================================================================
